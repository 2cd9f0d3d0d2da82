------------------------------ MODULE UrlCreate ------------------------------
(***************************************************************************)
(* The creation of links, createUrl of url.service.ts: the checks of the   *)
(* requested alias, then the loop that draws a short code and inserts the  *)
(* row until no UNIQUE index objects.  Requests run concurrently, on any   *)
(* number of servers, while owners delete links.                           *)
(***************************************************************************)
EXTENDS UrlTable, FiniteSets

CONSTANTS
    Requests,     \* the POST requests
    Inputs,       \* their bodies, with the caller
    Codes,        \* what generateShortCode may draw
    Reserved,     \* RESERVED_ALIASES
    MAX_RETRIES,
    DbFaults,     \* whether PostgreSQL may fail, before or after a commit
    NoInput, NoRequest

Input == [owner: Users, alias: Names \union {NoAlias}, target: Targets,
          expires: Expiry]

ASSUME CreateAssumption ==
    /\ Inputs \subseteq Input
    /\ NoInput \notin Input
    /\ NoRequest \notin Requests
    /\ Codes \subseteq Names
    /\ Reserved \subseteq Names
    /\ MAX_RETRIES \in Nat \ {0}
    /\ DbFaults \in BOOLEAN

VARIABLES
    urls,     \* the table
    pc,       \* pc[p]: the query that request p makes next
    input,    \* input[p]: what request p asks for
    attempt,  \* attempt[p]: the insertions p has tried
    answer,   \* answer[p]: the error code or CREATED that p was answered
    unsettled,\* the requests answered before PostgreSQL settled their INSERT
    maker     \* history: maker[i] is the request that stored row i, if any

vars == <<urls, pc, input, attempt, answer, unsettled, maker>>

Points == {"idle", "checkAlias", "checkCode", "insert", "done"}

Errors == {"ALIAS_RESERVED", "ALIAS_ALREADY_EXISTS",
           "SHORT_CODE_GENERATION_FAILED", "INTERNAL_ERROR"}

Answers == Errors \union {"none", "CREATED"}

\* The ids that were ever given to a row.
Used == {i \in Ids : maker[i] # NoRequest}

TypeOK ==
    /\ urls \in Tables
    /\ pc \in [Requests -> Points]
    /\ input \in [Requests -> Inputs \union {NoInput}]
    /\ \A p \in Requests : input[p] = NoInput <=> pc[p] = "idle"
    /\ attempt \in [Requests -> 0 .. MAX_RETRIES]
    /\ \A p \in Requests : pc[p] # "done" => attempt[p] < MAX_RETRIES
    /\ answer \in [Requests -> Answers]
    /\ \A p \in Requests : answer[p] = "none" <=> pc[p] # "done"
    /\ maker \in [Ids -> Requests \union {NoRequest}]
    /\ Stored(urls) \subseteq Used
    /\ unsettled \subseteq {p \in Requests : answer[p] = "INTERNAL_ERROR"}

Init ==
    /\ urls = [i \in Ids |-> NoRow]
    /\ pc = [p \in Requests |-> "idle"]
    /\ input = [p \in Requests |-> NoInput]
    /\ attempt = [p \in Requests |-> 0]
    /\ answer = [p \in Requests |-> "none"]
    /\ maker = [i \in Ids |-> NoRequest]
    /\ unsettled = {}

GoTo(p, point) == pc' = [pc EXCEPT ![p] = point]

Answer(p, a) ==
    /\ GoTo(p, "done")
    /\ answer' = [answer EXCEPT ![p] = a]

\* The body passed validation.  Without an alias, insertion comes next.  (The
\* schema refuses the reserved aliases too, so that createUrl never sees one.)
Begin(p, in) ==
    /\ pc[p] = "idle"
    /\ input' = [input EXCEPT ![p] = in]
    /\ IF in.alias = NoAlias
       THEN GoTo(p, "insert") /\ UNCHANGED answer
       ELSE IF in.alias \in Reserved
       THEN Answer(p, "ALIAS_RESERVED")
       ELSE GoTo(p, "checkAlias") /\ UNCHANGED answer
    /\ UNCHANGED <<urls, attempt, unsettled, maker>>

CheckAlias(p) ==
    /\ pc[p] = "checkAlias"
    /\ IF FindByCustomAlias(urls, input[p].alias) # {}
       THEN Answer(p, "ALIAS_ALREADY_EXISTS")
       ELSE GoTo(p, "checkCode") /\ UNCHANGED answer
    /\ UNCHANGED <<urls, input, attempt, unsettled, maker>>

CheckCode(p) ==
    /\ pc[p] = "checkCode"
    /\ IF FindByShortCode(urls, input[p].alias) # {}
       THEN Answer(p, "ALIAS_ALREADY_EXISTS")
       ELSE GoTo(p, "insert") /\ UNCHANGED answer
    /\ UNCHANGED <<urls, input, attempt, unsettled, maker>>

\* The row that request p stores when it draws a code: active by default.
RowOf(p, code) ==
    [owner |-> input[p].owner, code |-> code, alias |-> input[p].alias,
     target |-> input[p].target, active |-> TRUE, expires |-> input[p].expires]

\* INSERT under a fresh uuid.
Store(p, i, code) ==
    /\ i \notin Used
    /\ ~UniqueViolation(urls, code, input[p].alias)
    /\ urls' = [urls EXCEPT ![i] = RowOf(p, code)]
    /\ maker' = [maker EXCEPT ![i] = p]

\* One turn of the loop that inserts.
Insert(p) ==
    /\ pc[p] = "insert"
    /\ \E i \in Ids, code \in Codes : Store(p, i, code)
    /\ Answer(p, "CREATED")
    /\ UNCHANGED <<input, attempt, unsettled>>

\* Mutant: the loop starts over after its last turn.
CollideForever(p) ==
    /\ pc[p] = "insert"
    /\ \E code \in Codes : UniqueViolation(urls, code, input[p].alias)
    /\ attempt' = [attempt EXCEPT ![p] = (@ + 1) % MAX_RETRIES]
    /\ UNCHANGED <<urls, pc, input, answer, unsettled, maker>>

\* Mutant: the loop turns once more than it should.
CollideOnceMore(p) ==
    /\ pc[p] = "insert"
    /\ \E code \in Codes : UniqueViolation(urls, code, input[p].alias)
    /\ attempt' = [attempt EXCEPT ![p] = @ + 1]
    /\ IF attempt[p] = MAX_RETRIES
       THEN Answer(p, "SHORT_CODE_GENERATION_FAILED")
       ELSE UNCHANGED <<pc, answer>>
    /\ UNCHANGED <<urls, input, unsettled, maker>>

\* One turn of the loop that ends in P2002, of either index: another turn, or
\* the answer after the last one.
Collide(p) ==
    /\ pc[p] = "insert"
    /\ \E code \in Codes : UniqueViolation(urls, code, input[p].alias)
    /\ attempt' = [attempt EXCEPT ![p] = @ + 1]
    /\ IF attempt[p] + 1 = MAX_RETRIES
       THEN Answer(p, "SHORT_CODE_GENERATION_FAILED")
       ELSE UNCHANGED <<pc, answer>>
    /\ UNCHANGED <<urls, input, unsettled, maker>>

\* Mutant: every error of the insertion is taken for a collision.
InsertRetriesErrors(p) ==
    /\ DbFaults
    /\ pc[p] = "insert"
    /\ \/ \E i \in Ids, code \in Codes : Store(p, i, code)
       \/ UNCHANGED <<urls, maker>>
    /\ attempt' = [attempt EXCEPT ![p] = @ + 1]
    /\ IF attempt[p] + 1 = MAX_RETRIES
       THEN Answer(p, "SHORT_CODE_GENERATION_FAILED")
       ELSE UNCHANGED <<pc, answer>>
    /\ UNCHANGED <<input, unsettled>>

\* One turn of the loop in which PostgreSQL fails otherwise: the error is
\* thrown on.  The row is committed, or it is not, or it is not yet.
InsertFails(p) ==
    /\ DbFaults
    /\ pc[p] = "insert"
    /\ \/ UNCHANGED unsettled /\ \E i \in Ids, code \in Codes : Store(p, i, code)
       \/ unsettled' = unsettled \union {p} /\ UNCHANGED <<urls, maker>>
    /\ Answer(p, "INTERNAL_ERROR")
    /\ UNCHANGED <<input, attempt>>

\* PostgreSQL commits an INSERT whose connection broke after it was sent, when
\* its request has long been answered.
StoreLate(p) ==
    /\ p \in unsettled
    /\ \E i \in Ids, code \in Codes : Store(p, i, code)
    /\ unsettled' = unsettled \ {p}
    /\ UNCHANGED <<pc, input, attempt, answer>>

CheckFails(p) ==
    /\ DbFaults
    /\ pc[p] \in {"checkAlias", "checkCode"}
    /\ Answer(p, "INTERNAL_ERROR")
    /\ UNCHANGED <<urls, input, attempt, unsettled, maker>>

\* An owner deletes a link.
Delete(i) ==
    /\ i \in Stored(urls)
    /\ urls' = [urls EXCEPT ![i] = NoRow]
    /\ UNCHANGED <<pc, input, attempt, answer, unsettled, maker>>

Proceed(p) ==
    \/ CheckAlias(p) \/ CheckCode(p) \/ CheckFails(p)
    \/ Insert(p) \/ Collide(p) \/ InsertFails(p)

Next ==
    \/ \E p \in Requests : Proceed(p) \/ StoreLate(p) \/ \E in \in Inputs : Begin(p, in)
    \/ \E i \in Ids : Delete(i)

Spec == Init /\ [][Next]_vars

\* PostgreSQL answers, or an error is thrown.  Which code is drawn is chance:
\* nothing is assumed of it.
FairSpec == Spec /\ \A p \in Requests : WF_vars(Proceed(p))

-----------------------------------------------------------------------------
(* Properties. *)

MadeBy(p) == {i \in Used : maker[i] = p}

\* A request stores at most one row, whatever fails and however often the
\* loop turns, and an answer with an error code means that it stored none nor
\* ever will, except for the internal error, which tells nothing.
OneRowPerRequest ==
    \A p \in Requests :
        /\ \A i, j \in MadeBy(p) : i = j
        /\ MadeBy(p) # {} => answer[p] \in {"CREATED", "INTERNAL_ERROR"}
        /\ answer[p] = "CREATED" => MadeBy(p) # {}

LC == INSTANCE LinkCreation
        WITH used <- Used, asked <- input, reply <- answer, doubt <- unsettled

\* Creation implements LinkCreation.  The lookups, the insertion and the turns
\* of the loop, with everything other requests do in between, look like one
\* step: the row and the answer come together, and a refusal gives a reason
\* that is true of the table at that moment.  Only after an internal error may
\* the row come later, and at most once (url.service.ts 55-117).
CreationIsAtomic == LC!CreationSpec

LT == INSTANCE LinkTable WITH used <- Used

\* To the table a creation is one step, whatever loops and failures it went
\* through: UrlCache, which sees a creation as one insertion, misses nothing
\* of it (url.service.ts 79-92).
TableEvolves == LT!TableSpec

\* The round trips that request p has left at most.
StepsLeft(p) ==
    CASE pc[p] = "idle"       -> MAX_RETRIES + 3
      [] pc[p] = "checkAlias" -> MAX_RETRIES + 2
      [] pc[p] = "checkCode"  -> MAX_RETRIES + 1
      [] pc[p] = "insert"     -> MAX_RETRIES - attempt[p]
      [] pc[p] = "done"       -> 0

\* A request runs down: each of its own steps leaves it fewer round trips,
\* whatever codes it draws, and no step of another request or of an owner
\* gives it more (the safety half of EveryRequestAnswered).
RequestsRunDown ==
    [][\A p \in Requests :
         /\ StepsLeft(p)' \in 0 .. StepsLeft(p)
         /\ Proceed(p) => StepsLeft(p)' < StepsLeft(p)]_vars

\* Every request that began is answered: the loop turns at most MAX_RETRIES
\* times, whatever codes are drawn.
EveryRequestAnswered ==
    \A p \in Requests : pc[p] # "idle" ~> answer[p] # "none"

\* api.test.ts 254-267: a request for an alias that is taken is answered 409
\* ALIAS_ALREADY_EXISTS, so the server never says that it could not draw a
\* code to a request whose alias another link has.
TakenAliasIsReported ==
    \A p \in Requests :
        answer[p] = "SHORT_CODE_GENERATION_FAILED" /\ input[p].alias # NoAlias
          => FindByCustomAlias(urls, input[p].alias) = {}

\* url.service.ts 68: an alias does not conflict with an existing short code,
\* so that a name leads to one link.
OneLinkPerName ==
    \A n \in Names : Cardinality(FindByCodeOrAlias(urls, n)) <= 1

=============================================================================
