--------------------------- MODULE UrlCreateProofs ---------------------------
(***************************************************************************)
(* Proofs about UrlCreate, for any number of requests, names and retries,  *)
(* with or without faults of PostgreSQL.                                   *)
(***************************************************************************)
EXTENDS UrlCreate, TLAPS

-----------------------------------------------------------------------------
(* Type correctness. *)

LEMMA RowType ==
    ASSUME TypeOK, NEW p \in Requests, pc[p] # "idle", NEW code \in Codes
    PROVE  /\ RowOf(p, code) \in Row
           /\ RowOf(p, code).code = code
           /\ RowOf(p, code).alias = input[p].alias
<1>1. input[p] \in Input
    BY CreateAssumption DEF TypeOK
<1>2. code \in Names
    BY CreateAssumption
<1>3. QED  BY <1>1, <1>2 DEF RowOf, Row, Input

LEMMA StoreType ==
    ASSUME TypeOK, NEW p \in Requests, pc[p] # "idle",
           NEW i \in Ids, NEW code \in Codes, Store(p, i, code)
    PROVE  /\ urls' \in Tables
           /\ maker' \in [Ids -> Requests \union {NoRequest}]
           /\ Stored(urls') = Stored(urls) \union {i}
           /\ Used' = Used \union {i}
           /\ urls[i] = NoRow
<1>1. RowOf(p, code) \in Row /\ RowOf(p, code) # NoRow
    BY RowType, NoRowAssumption
<1>2. i \notin Stored(urls)
    BY DEF Store, TypeOK
<1>3. p # NoRequest
    BY CreateAssumption
<1>4. QED  BY <1>1, <1>2, <1>3 DEF Store, TypeOK, Tables, Stored, Used

\* The requests whose INSERT is not settled have been answered.
LEMMA Undecided ==
    ASSUME TypeOK, NEW p \in unsettled PROVE p \in Requests /\ pc[p] = "done"
BY DEF TypeOK

LEMMA TypeStep == TypeOK /\ [Next]_vars => TypeOK'
<1> SUFFICES ASSUME TypeOK, [Next]_vars PROVE TypeOK'
    OBVIOUS
<1>1. MAX_RETRIES \in Nat /\ MAX_RETRIES > 0 /\ NoInput \notin Inputs
    BY CreateAssumption
\* The steps that store nothing move a request on or answer it.
<1>2. ASSUME NEW p \in Requests, pc[p] # "done", UNCHANGED <<urls, maker, attempt>>,
             \/ \E point \in {"checkAlias", "checkCode", "insert"} :
                  GoTo(p, point) /\ UNCHANGED answer /\ attempt[p] < MAX_RETRIES
             \/ \E a \in Errors : Answer(p, a),
             \/ UNCHANGED input /\ pc[p] # "idle"
             \/ \E in \in Inputs : input' = [input EXCEPT ![p] = in],
             UNCHANGED unsettled
      PROVE  TypeOK'
    <2>1. Used' = Used /\ Stored(urls)' = Stored(urls)
        BY <1>2 DEF Used, Stored
    <2>2. pc' \in [Requests -> Points] /\ \A q \in Requests : pc'[q] # "done" => attempt'[q] < MAX_RETRIES
        BY <1>2 DEF GoTo, Answer, TypeOK, Points
    <2>3. answer' \in [Requests -> Answers] /\ \A q \in Requests : answer'[q] = "none" <=> pc'[q] # "done"
        BY <1>2 DEF GoTo, Answer, TypeOK, Answers, Errors
    <2>4. input' \in [Requests -> Inputs \union {NoInput}]
            /\ \A q \in Requests : input'[q] = NoInput <=> pc'[q] = "idle"
        BY <1>1, <1>2 DEF GoTo, Answer, TypeOK
    <2>5. unsettled' \subseteq {q \in Requests : answer'[q] = "INTERNAL_ERROR"}
        BY <1>2, Undecided DEF Answer, TypeOK
    <2>6. QED
        BY <1>2, <2>1, <2>2, <2>3, <2>4, <2>5 DEF TypeOK
<1>3. ASSUME NEW p \in Requests,
             (\E in \in Inputs : Begin(p, in)) \/ CheckAlias(p) \/ CheckCode(p) \/ CheckFails(p)
      PROVE  TypeOK'
    <2>2. ASSUME NEW in \in Inputs, Begin(p, in) PROVE TypeOK'
        <3>1. attempt[p] < MAX_RETRIES
            BY <2>2 DEF Begin, TypeOK
        <3>2. QED
            BY <1>2, <2>2, <3>1 DEF Begin, Errors
    <2>3. CASE CheckAlias(p)
        <3>1. attempt[p] < MAX_RETRIES
            BY <2>3 DEF CheckAlias, TypeOK
        <3>2. QED
            BY <1>2, <2>3, <3>1 DEF CheckAlias, Errors
    <2>4. CASE CheckCode(p)
        <3>1. attempt[p] < MAX_RETRIES
            BY <2>4 DEF CheckCode, TypeOK
        <3>2. QED
            BY <1>2, <2>4, <3>1 DEF CheckCode, Errors
    <2>5. CASE CheckFails(p)
        BY <1>2, <2>5 DEF CheckFails, Errors
    <2>6. QED  BY <1>3, <2>2, <2>3, <2>4, <2>5
<1>4. ASSUME NEW p \in Requests, NEW i \in Ids, NEW code \in Codes,
             pc[p] = "insert", Store(p, i, code),
             Answer(p, "CREATED") \/ Answer(p, "INTERNAL_ERROR"),
             UNCHANGED <<input, attempt, unsettled>>
      PROVE  TypeOK'
    <2>1. unsettled' \subseteq {q \in Requests : answer'[q] = "INTERNAL_ERROR"}
        BY <1>4, Undecided DEF Answer, TypeOK
    <2>2. Stored(urls)' \subseteq Used'
        BY <1>4, StoreType DEF TypeOK
    <2>3. QED
        BY <1>4, <2>1, <2>2, StoreType DEF TypeOK, Answer, GoTo, Points, Answers, Errors
<1>5. ASSUME NEW p \in Requests, Collide(p) PROVE TypeOK'
    BY <1>1, <1>5 DEF Collide, GoTo, Answer, TypeOK, Points, Answers, Errors,
                      Tables, Stored, Used
<1>6. ASSUME NEW p \in Requests, Insert(p) PROVE TypeOK'
    BY <1>4, <1>6 DEF Insert
<1>7. ASSUME NEW p \in Requests, InsertFails(p) PROVE TypeOK'
    <2>1. CASE UNCHANGED <<urls, maker>> /\ unsettled' = unsettled \union {p}
        BY <1>7, <2>1 DEF InsertFails, GoTo, Answer, TypeOK, Points, Answers, Errors,
                          Tables, Stored, Used
    <2>2. QED  BY <1>4, <1>7, <2>1 DEF InsertFails
<1>8. ASSUME NEW i \in Ids, Delete(i) PROVE TypeOK'
    BY <1>8 DEF Delete, TypeOK, Tables, Stored, Used
<1>9. CASE UNCHANGED vars
    BY <1>9 DEF vars, TypeOK, Tables, Stored, Used
<1>10. ASSUME NEW p \in Requests, StoreLate(p) PROVE TypeOK'
    <2>1. pc[p] # "idle" /\ p \in Requests
        BY <1>10, Undecided DEF StoreLate
    <2>2. PICK i \in Ids, code \in Codes : Store(p, i, code)
        BY <1>10 DEF StoreLate
    <2>3. QED
        BY <1>10, <2>1, <2>2, StoreType DEF StoreLate, TypeOK
<1>11. QED
    BY <1>3, <1>5, <1>6, <1>7, <1>8, <1>9, <1>10 DEF Next, Proceed

LEMMA TypeInit == Init => TypeOK
BY CreateAssumption DEF Init, TypeOK, Tables, Stored, Used, Points, Answers, Errors

\* Every variable keeps its type; in particular a request that still turns in
\* its loop has a turn left, and only ids that were given out are stored.
THEOREM TypeCorrect == Spec => []TypeOK
BY TypeInit, TypeStep, PTL DEF Spec

-----------------------------------------------------------------------------
(* One row per request. *)

\* A request whose INSERT is not settled has no row yet.
OneRowInv == OneRowPerRequest /\ \A p \in unsettled : MadeBy(p) = {}

LEMMA OneRowStep == TypeOK /\ OneRowInv /\ [Next]_vars => OneRowInv'
<1> SUFFICES ASSUME TypeOK, OneRowInv, [Next]_vars PROVE OneRowInv'
    OBVIOUS
<1> USE DEF OneRowInv, OneRowPerRequest, MadeBy, Used
\* The answers that a step gives to requests that had none.
<1>1. ASSUME UNCHANGED maker, NEW p \in Requests, pc[p] # "done",
             UNCHANGED answer \/ \E a \in Errors \union {"none"} : Answer(p, a),
             UNCHANGED unsettled \/ unsettled' = unsettled \union {p}
      PROVE  OneRowInv'
    BY <1>1 DEF Answer, TypeOK, Errors
<1>2. ASSUME NEW p \in Requests, NEW i \in Ids, NEW code \in Codes,
             pc[p] = "insert", Store(p, i, code),
             Answer(p, "CREATED") \/ Answer(p, "INTERNAL_ERROR"), UNCHANGED unsettled
      PROVE  OneRowInv'
    <2>1. p # NoRequest /\ \A j \in Ids : maker[j] # p
        BY <1>2, CreateAssumption DEF TypeOK
    <2>2. p \notin unsettled
        BY <1>2, Undecided
    <2>3. QED  BY <1>2, <2>1, <2>2, Undecided DEF Store, Answer, TypeOK
<1>3. ASSUME NEW p \in Requests, NEW in \in Inputs, Begin(p, in)
      PROVE  OneRowInv'
    BY <1>1, <1>3 DEF Begin, Errors
<1>4. ASSUME NEW p \in Requests,
             CheckAlias(p) \/ CheckCode(p) \/ CheckFails(p) \/ Collide(p)
      PROVE  OneRowInv'
    BY <1>1, <1>4 DEF CheckAlias, CheckCode, CheckFails, Collide, Errors
<1>5. ASSUME NEW p \in Requests, Insert(p) \/ InsertFails(p)
      PROVE  OneRowInv'
    BY <1>1, <1>2, <1>5 DEF Insert, InsertFails, Errors
<1>6. ASSUME NEW p \in Requests, StoreLate(p) PROVE OneRowInv'
    <2>1. p # NoRequest /\ answer[p] = "INTERNAL_ERROR" /\ \A j \in Ids : maker[j] # p
        BY <1>6, CreateAssumption DEF StoreLate, TypeOK
    <2>2. PICK i \in Ids : maker[i] = NoRequest /\ maker' = [maker EXCEPT ![i] = p]
        BY <1>6 DEF StoreLate, Store
    <2>3. answer' = answer /\ unsettled' = unsettled \ {p}
        BY <1>6 DEF StoreLate
    <2>4. \A q \in Requests, j \in Ids : q # p => (maker'[j] = q => maker[j] = q)
        BY <2>2 DEF TypeOK
    <2>5. \A j \in Ids : maker'[j] = p <=> j = i
        BY <2>1, <2>2 DEF TypeOK
    <2>6. \A j \in Ids, q \in Requests : q # p => (maker[j] = q => maker'[j] = q)
        BY <2>2, CreateAssumption DEF TypeOK
    <2>7. OneRowPerRequest'
        BY <2>1, <2>3, <2>4, <2>5, <2>6
    <2>8. \A q \in unsettled' : MadeBy(q)' = {}
        BY <2>1, <2>3, <2>4 DEF TypeOK
    <2>9. QED  BY <2>7, <2>8
<1>7. ASSUME UNCHANGED <<maker, answer, unsettled>> PROVE OneRowInv'
    BY <1>7
<1>8. QED
    BY <1>3, <1>4, <1>5, <1>6, <1>7 DEF Next, Proceed, Delete, vars

\* The retries never store a second row, and an error answer other than the
\* internal error means that nothing was stored and nothing will be.
THEOREM AtMostOneRow == Spec => []OneRowPerRequest
<1>1. Init => OneRowInv
    BY CreateAssumption DEF Init, OneRowInv, OneRowPerRequest, MadeBy, Used
<1>2. OneRowInv => OneRowPerRequest
    BY DEF OneRowInv
<1>3. QED  BY <1>1, <1>2, OneRowStep, TypeCorrect, PTL DEF Spec

-----------------------------------------------------------------------------
(* A request runs down.                                                    *)

LEMMA StepsLeftValue ==
    ASSUME NEW p \in Requests
    PROVE  /\ pc[p] = "idle" => StepsLeft(p) = MAX_RETRIES + 3
           /\ pc[p] = "checkAlias" => StepsLeft(p) = MAX_RETRIES + 2
           /\ pc[p] = "checkCode" => StepsLeft(p) = MAX_RETRIES + 1
           /\ pc[p] = "insert" => StepsLeft(p) = MAX_RETRIES - attempt[p]
           /\ pc[p] = "done" => StepsLeft(p) = 0
           /\ pc'[p] = "idle" => StepsLeft(p)' = MAX_RETRIES + 3
           /\ pc'[p] = "checkAlias" => StepsLeft(p)' = MAX_RETRIES + 2
           /\ pc'[p] = "checkCode" => StepsLeft(p)' = MAX_RETRIES + 1
           /\ pc'[p] = "insert" => StepsLeft(p)' = MAX_RETRIES - attempt'[p]
           /\ pc'[p] = "done" => StepsLeft(p)' = 0
BY DEF StepsLeft

LEMMA StepsLeftType ==
    ASSUME TypeOK, TypeOK', NEW p \in Requests
    PROVE  /\ MAX_RETRIES \in Nat \ {0}
           /\ pc[p] \in Points /\ attempt[p] \in Nat /\ attempt'[p] \in Nat
           /\ pc[p] # "done" => attempt[p] < MAX_RETRIES
           /\ StepsLeft(p) \in Nat /\ StepsLeft(p)' \in Nat
           /\ pc[p] # "done" => StepsLeft(p) > 0
<1>1. /\ pc[p] \in Points /\ attempt[p] \in 0 .. MAX_RETRIES
      /\ pc'[p] \in Points /\ attempt'[p] \in 0 .. MAX_RETRIES
      /\ pc[p] # "done" => attempt[p] < MAX_RETRIES
    BY DEF TypeOK
<1>2. MAX_RETRIES \in Nat \ {0}
    BY CreateAssumption
<1>3. QED
    BY <1>1, <1>2, StepsLeftValue DEF Points

\* What a step of request q does to the round trips of p.
LEMMA StepOfOne ==
    ASSUME TypeOK, TypeOK', NEW p \in Requests, NEW q \in Requests,
           \/ /\ UNCHANGED attempt
              /\ \/ pc[q] = "idle" /\ pc' = [pc EXCEPT ![q] = "checkAlias"]
                 \/ pc[q] = "idle" /\ pc' = [pc EXCEPT ![q] = "insert"]
                 \/ pc[q] = "checkAlias" /\ pc' = [pc EXCEPT ![q] = "checkCode"]
                 \/ pc[q] = "checkCode" /\ pc' = [pc EXCEPT ![q] = "insert"]
                 \/ pc[q] # "done" /\ pc' = [pc EXCEPT ![q] = "done"]
           \/ /\ attempt' = [attempt EXCEPT ![q] = @ + 1] /\ pc[q] = "insert"
              /\ UNCHANGED pc \/ pc' = [pc EXCEPT ![q] = "done"]
    PROVE  StepsLeft(p)' <= StepsLeft(p) /\ (p = q => StepsLeft(p)' < StepsLeft(p))
<1>1. CASE p = q
    BY <1>1, StepsLeftType, StepsLeftValue DEF TypeOK
<1>2. CASE p # q
    <2>1. pc'[p] = pc[p] /\ attempt'[p] = attempt[p]
        BY <1>2 DEF TypeOK
    <2>2. StepsLeft(p)' = StepsLeft(p)
        BY <2>1, StepsLeftType, StepsLeftValue DEF Points
    <2>3. QED
        BY <1>2, <2>2, StepsLeftType
<1>3. QED
    BY <1>1, <1>2

LEMMA RunDownStep ==
    ASSUME TypeOK, TypeOK', [Next]_vars, NEW p \in Requests
    PROVE  /\ StepsLeft(p)' \in 0 .. StepsLeft(p)
           /\ Proceed(p) => StepsLeft(p)' < StepsLeft(p)
<1>1. ASSUME NEW q \in Requests, Proceed(q)
      PROVE  StepsLeft(p)' <= StepsLeft(p) /\ (p = q => StepsLeft(p)' < StepsLeft(p))
    BY <1>1, StepOfOne DEF Proceed, CheckAlias, CheckCode, CheckFails, Insert, InsertFails,
                           Collide, Answer, GoTo
<1>2. ASSUME NEW q \in Requests, NEW in \in Inputs, Begin(q, in)
      PROVE  StepsLeft(p)' <= StepsLeft(p)
    BY <1>2, StepOfOne DEF Begin, Answer, GoTo
<1>3. ASSUME UNCHANGED <<pc, attempt>> PROVE StepsLeft(p)' <= StepsLeft(p)
    BY <1>3, StepsLeftType, StepsLeftValue DEF Points
<1>4. StepsLeft(p)' <= StepsLeft(p)
    BY <1>1, <1>2, <1>3 DEF Next, Delete, StoreLate, vars
<1>5. Proceed(p) => StepsLeft(p)' < StepsLeft(p)
    BY <1>1
<1>6. QED
    BY <1>4, <1>5, StepsLeftType

\* No request makes more than MAX_RETRIES + 3 round trips, whatever the
\* others do and whatever codes are drawn: the loop of createUrl ends.
THEOREM RunsDown == Spec => RequestsRunDown
<1>1. TypeOK /\ TypeOK' /\ [Next]_vars
        => [\A p \in Requests :
              /\ StepsLeft(p)' \in 0 .. StepsLeft(p)
              /\ Proceed(p) => StepsLeft(p)' < StepsLeft(p)]_vars
    BY RunDownStep
<1>2. QED
    BY <1>1, TypeCorrect, PTL DEF Spec, RequestsRunDown

-----------------------------------------------------------------------------
(* The refinement of LinkCreation.  A request that has not come to its       *)
(* insertion yet has an alias to check.                                      *)

AliasAsked == \A p \in Requests : pc[p] \in {"checkAlias", "checkCode"} => input[p].alias # NoAlias

LEMMA AliasAskedStep == TypeOK /\ AliasAsked /\ [Next]_vars => AliasAsked'
<1> SUFFICES ASSUME TypeOK, AliasAsked, [Next]_vars PROVE AliasAsked'
    OBVIOUS
<1> USE DEF AliasAsked
<1>1. ASSUME NEW p \in Requests, NEW in \in Inputs, Begin(p, in) PROVE AliasAsked'
    BY <1>1 DEF Begin, GoTo, Answer, TypeOK
<1>2. ASSUME NEW p \in Requests, Proceed(p) PROVE AliasAsked'
    BY <1>2 DEF Proceed, CheckAlias, CheckCode, CheckFails, Insert, Collide, InsertFails,
                GoTo, Answer, TypeOK
<1>3. ASSUME UNCHANGED <<pc, input>> PROVE AliasAsked'
    BY <1>3
<1>4. QED
    BY <1>1, <1>2, <1>3 DEF Next, Delete, StoreLate, vars

\* The table operators are the same on both levels.
LEMMA SameTable ==
    /\ LC!Stored(urls) = Stored(urls)
    /\ \A n : LC!FindByCodeOrAlias(urls, n) = FindByCodeOrAlias(urls, n)
    /\ \A c, a : LC!UniqueViolation(urls, c, a) <=> UniqueViolation(urls, c, a)
BY DEF LC!Stored, Stored, LC!FindByCodeOrAlias, FindByCodeOrAlias,
       LC!FindByShortCode, FindByShortCode, LC!FindByCustomAlias, FindByCustomAlias,
       LC!UniqueViolation, UniqueViolation

LEMMA CreationInitStep == Init => LC!CreationInit
BY CreateAssumption DEF Init, LC!CreationInit, Used

\* An answer that stores nothing is a refusal when its reason is true.
LEMMA RefuseStep ==
    ASSUME TypeOK, NEW p \in Requests, pc[p] \notin {"idle", "done"},
           NEW r \in {"ALIAS_ALREADY_EXISTS", "SHORT_CODE_GENERATION_FAILED", "INTERNAL_ERROR"},
           answer' = [answer EXCEPT ![p] = r], UNCHANGED <<urls, maker, input>>,
           \/ UNCHANGED unsettled
           \/ r = "INTERNAL_ERROR" /\ unsettled' = unsettled \union {p},
           r = "ALIAS_ALREADY_EXISTS" =>
             input[p].alias # NoAlias /\ FindByCodeOrAlias(urls, input[p].alias) # {},
           r = "SHORT_CODE_GENERATION_FAILED" =>
             \E code \in Codes : UniqueViolation(urls, code, input[p].alias)
    PROVE  LC!Refuse(p)
<1>1. LC!Waiting(p)
    BY DEF LC!Waiting, TypeOK
<1>2. r \in LC!Reasons(input[p])
    BY SameTable DEF LC!Reasons
<1>3. Used' = Used
    BY DEF Used
<1>4. QED
    BY <1>1, <1>2, <1>3 DEF LC!Refuse

LEMMA PutStep ==
    ASSUME TypeOK, NEW p \in Requests, NEW i \in Ids, NEW code \in Codes,
           pc[p] # "idle", Store(p, i, code)
    PROVE  LC!Put(p, i, code)
<1>1. Used' = Used \union {i}
    BY StoreType
<1>2. i \notin Used /\ ~LC!UniqueViolation(urls, code, input[p].alias)
    BY SameTable DEF Store
<1>3. urls' = [urls EXCEPT ![i] =
        [owner |-> input[p].owner, code |-> code, alias |-> input[p].alias,
         target |-> input[p].target, active |-> TRUE, expires |-> input[p].expires]]
    BY DEF Store, RowOf
<1>4. QED
    BY <1>1, <1>2, <1>3 DEF LC!Put

LEMMA CreateStep ==
    ASSUME TypeOK, NEW p \in Requests, NEW i \in Ids, NEW code \in Codes,
           pc[p] = "insert", Store(p, i, code), UNCHANGED <<input, unsettled>>,
           NEW r \in {"CREATED", "INTERNAL_ERROR"}, answer' = [answer EXCEPT ![p] = r]
    PROVE  LC!Create(p, i, code)
<1>1. LC!Waiting(p)
    BY DEF LC!Waiting, TypeOK
<1>2. LC!Put(p, i, code)
    BY PutStep
<1>3. QED
    BY <1>1, <1>2 DEF LC!Create

LEMMA CreateLateStep ==
    ASSUME TypeOK, NEW p \in Requests, StoreLate(p)
    PROVE  \E i \in Ids, code \in Codes : LC!CreateLate(p, i, code)
<1>1. pc[p] # "idle"
    BY Undecided DEF StoreLate
<1>2. PICK i \in Ids, code \in Codes : Store(p, i, code)
    BY DEF StoreLate
<1>3. LC!Put(p, i, code)
    BY <1>1, <1>2, PutStep
<1>4. QED
    BY <1>3 DEF StoreLate, LC!CreateLate

LEMMA CreationStep ==
    TypeOK /\ AliasAsked /\ [Next]_vars => [LC!CreationNext]_(LC!creationVars)
<1> SUFFICES ASSUME TypeOK, AliasAsked, [Next]_vars
             PROVE  LC!CreationNext \/ UNCHANGED <<urls, Used, input, answer, unsettled>>
    BY DEF LC!creationVars
<1>1. ASSUME NEW p \in Requests, NEW in \in Inputs, Begin(p, in) PROVE LC!Ask(p, in)
    <2>1. Used' = Used /\ input[p] = NoInput
        BY <1>1 DEF Begin, Used, TypeOK
    <2>2. in.alias \in Reserved => in.alias # NoAlias
        BY CreateAssumption, SentinelAssumption
    <2>3. QED
        BY <1>1, <2>1, <2>2 DEF LC!Ask, Begin, Answer
<1>2. ASSUME NEW p \in Requests, CheckAlias(p)
      PROVE  LC!Refuse(p) \/ UNCHANGED <<urls, Used, input, answer, unsettled>>
    <2>1. CASE UNCHANGED answer
        BY <1>2, <2>1 DEF CheckAlias, Used
    <2>2. CASE FindByCustomAlias(urls, input[p].alias) # {}
        <3>1. FindByCodeOrAlias(urls, input[p].alias) # {}
            BY <2>2 DEF FindByCodeOrAlias
        <3>2. QED
            BY <1>2, <2>2, <3>1, RefuseStep DEF CheckAlias, AliasAsked, Answer
    <2>3. QED
        BY <1>2, <2>1, <2>2 DEF CheckAlias
<1>3. ASSUME NEW p \in Requests, CheckCode(p)
      PROVE  LC!Refuse(p) \/ UNCHANGED <<urls, Used, input, answer, unsettled>>
    <2>1. CASE UNCHANGED answer
        BY <1>3, <2>1 DEF CheckCode, Used
    <2>2. CASE FindByShortCode(urls, input[p].alias) # {}
        <3>1. FindByCodeOrAlias(urls, input[p].alias) # {}
            BY <2>2 DEF FindByCodeOrAlias
        <3>2. QED
            BY <1>3, <2>2, <3>1, RefuseStep DEF CheckCode, AliasAsked, Answer
    <2>3. QED
        BY <1>3, <2>1, <2>2 DEF CheckCode
<1>4. ASSUME NEW p \in Requests, Collide(p)
      PROVE  LC!Refuse(p) \/ UNCHANGED <<urls, Used, input, answer, unsettled>>
    <2>1. CASE UNCHANGED answer
        BY <1>4, <2>1 DEF Collide, Used
    <2>2. CASE ~UNCHANGED answer
        BY <1>4, <2>2, RefuseStep DEF Collide, Answer
    <2>3. QED
        BY <2>1, <2>2
<1>5. ASSUME NEW p \in Requests, CheckFails(p) PROVE LC!Refuse(p)
    BY <1>5, RefuseStep DEF CheckFails, Answer
<1>6. ASSUME NEW p \in Requests, Insert(p) PROVE \E i \in Ids, code \in Codes : LC!Create(p, i, code)
    BY <1>6, CreateStep DEF Insert, Answer
<1>7. ASSUME NEW p \in Requests, InsertFails(p)
      PROVE  LC!Refuse(p) \/ \E i \in Ids, code \in Codes : LC!Create(p, i, code)
    <2>1. CASE UNCHANGED <<urls, maker>> /\ unsettled' = unsettled \union {p}
        BY <1>7, <2>1, RefuseStep DEF InsertFails, Answer
    <2>2. CASE UNCHANGED unsettled /\ \E i \in Ids, code \in Codes : Store(p, i, code)
        BY <1>7, <2>2, CreateStep DEF InsertFails, Answer
    <2>3. QED
        BY <1>7, <2>1, <2>2 DEF InsertFails
<1>8. ASSUME NEW i \in Ids, Delete(i) PROVE LC!Remove(i)
    BY <1>8, SameTable DEF LC!Remove, Delete, Used
<1>9. CASE UNCHANGED vars
    BY <1>9 DEF vars, Used
<1>10. QED
    BY <1>1, <1>2, <1>3, <1>4, <1>5, <1>6, <1>7, <1>8, <1>9, CreateLateStep
    DEF Next, Proceed, LC!CreationNext

\* Creation is atomic: the code of createUrl, run by any number of requests at
\* once, implements LinkCreation.
THEOREM ImplementsLinkCreation == Spec => CreationIsAtomic
<1>1. Init => AliasAsked
    BY DEF Init, AliasAsked
<1>2. QED
    BY <1>1, CreationInitStep, AliasAskedStep, CreationStep, TypeCorrect, PTL
    DEF Spec, CreationIsAtomic, LC!CreationSpec

-----------------------------------------------------------------------------
(* The refinement of LinkTable. *)

\* Here as well the table is the same on both levels.
LEMMA SameLinkTable ==
    /\ LT!Row = Row /\ LT!Tables = Tables /\ LT!Stored(urls) = Stored(urls)
    /\ \A c, a : LT!UniqueViolation(urls, c, a) <=> UniqueViolation(urls, c, a)
BY DEF LT!Row, Row, LT!Expiry, Expiry, LT!Tables, Tables, LT!Stored, Stored,
       LT!FindByShortCode, FindByShortCode, LT!FindByCustomAlias, FindByCustomAlias,
       LT!UniqueViolation, UniqueViolation

LEMMA StoreTable ==
    ASSUME TypeOK, NEW p \in Requests, pc[p] # "idle",
           NEW i \in Ids, NEW code \in Codes, Store(p, i, code)
    PROVE  LT!Add(i)
<1> DEFINE row == RowOf(p, code)
<1>1. /\ row \in Row /\ row.code = code /\ row.alias = input[p].alias
    BY RowType
<1>2. row.active
    BY DEF RowOf
<1>3. /\ i \notin Used /\ ~UniqueViolation(urls, code, input[p].alias)
      /\ urls' = [urls EXCEPT ![i] = row]
    BY DEF Store
<1>4. Used' = Used \union {i}
    BY StoreType
<1> HIDE DEF row
<1>5. urls'[i] = row
    BY <1>3 DEF TypeOK, Tables
<1>6. LT!OnlyRow(i)
    BY <1>3, <1>5 DEF LT!OnlyRow
<1>7. QED
    BY <1>1, <1>2, <1>3, <1>4, <1>5, <1>6, SameLinkTable DEF LT!Add

LEMMA TableStep == TypeOK /\ [Next]_vars => [LT!TableNext]_(LT!tableVars)
<1> SUFFICES ASSUME TypeOK, [Next]_vars PROVE LT!TableNext \/ UNCHANGED <<urls, Used>>
    BY DEF LT!tableVars
<1>1. UNCHANGED maker => UNCHANGED Used
    BY DEF Used
<1>2. ASSUME NEW p \in Requests, Insert(p) \/ InsertFails(p) \/ StoreLate(p)
      PROVE  LT!TableNext \/ UNCHANGED <<urls, Used>>
    <2>1. CASE UNCHANGED <<urls, maker>>
        BY <1>1, <2>1
    <2>2. CASE \E i \in Ids, code \in Codes : Store(p, i, code)
        <3>1. pc[p] # "idle"
            BY <1>2, Undecided DEF Insert, InsertFails, StoreLate
        <3>2. QED
            BY <2>2, <3>1, StoreTable DEF LT!TableNext
    <2>3. QED
        BY <1>2, <2>1, <2>2 DEF Insert, InsertFails, StoreLate
<1>3. ASSUME NEW i \in Ids, Delete(i) PROVE LT!Remove(i)
    BY <1>1, <1>3, SameLinkTable DEF LT!Remove, Delete
<1>4. ASSUME \/ \E p \in Requests : \/ CheckAlias(p) \/ CheckCode(p) \/ CheckFails(p) \/ Collide(p)
                                    \/ \E in \in Inputs : Begin(p, in)
             \/ UNCHANGED vars
      PROVE  UNCHANGED <<urls, Used>>
    BY <1>1, <1>4 DEF CheckAlias, CheckCode, CheckFails, Collide, Begin, vars
<1>5. QED
    BY <1>2, <1>3, <1>4 DEF Next, Proceed, LT!TableNext

\* A creation, with all its lookups and turns, is one insertion to the table.
THEOREM ImplementsLinkTable == Spec => TableEvolves
<1>1. Init => LT!TableInit
    BY CreateAssumption, SameLinkTable DEF Init, LT!TableInit, Tables, Stored, Used
<1>2. QED
    BY <1>1, TableStep, TypeCorrect, PTL DEF Spec, TableEvolves, LT!TableSpec

=============================================================================
