--------------------------- MODULE UrlCacheProofs ---------------------------
(***************************************************************************)
(* Proofs about UrlCache, for any sets of links, names and requests, any   *)
(* TTL and clock, with or without faults.                                  *)
(***************************************************************************)
EXTENDS UrlCache, TLAPS

-----------------------------------------------------------------------------
(* The TTL of an entry. *)

\* Arithmetic: fewer ticks than C seconds have, and at least one.
LEMMA TickArithmetic ==
    ASSUME NEW s \in Nat \ {0}, NEW c \in Nat, NEW k \in Nat \ {0}, s < c
    PROVE  s * k \in 1 .. c * k
<1>1. s * k >= 1  OBVIOUS
<1>2. s * k <= c * k  OBVIOUS
<1>3. s * k \in Nat /\ c * k \in Nat  OBVIOUS
<1>4. QED  BY <1>1, <1>2, <1>3

\* SETEX gets a positive TTL of at most an hour, whatever the expiry is.
LEMMA TtlForType ==
    ASSUME NEW e \in Expiry, NEW instant \in Nat
    PROVE  TtlFor(e, instant) \in 1 .. MaxTtl
<1> DEFINE seconds == IF e = Never THEN 0 ELSE (e - instant) \div TicksPerSecond
<1>1. seconds \in Int
    BY ClockAssumption, SentinelAssumption DEF Expiry
<1>2. CASE seconds > 0 /\ seconds < CACHE_TTL_SECONDS
    <2>1. seconds * TicksPerSecond \in 1 .. CACHE_TTL_SECONDS * TicksPerSecond
        <3> HIDE DEF seconds
        <3> QED  BY <1>1, <1>2, TickArithmetic, ClockAssumption
    <2>2. QED  BY <1>2, <2>1 DEF TtlFor, MaxTtl
<1>3. CASE ~(seconds > 0 /\ seconds < CACHE_TTL_SECONDS)
    <2>1. CACHE_TTL_SECONDS * TicksPerSecond >= 1
        BY ClockAssumption
    <2>2. MaxTtl \in 1 .. MaxTtl
        BY <2>1, ClockAssumption DEF MaxTtl
    <2>3. QED  BY <1>3, <2>2 DEF TtlFor
<1>4. QED  BY <1>2, <1>3

-----------------------------------------------------------------------------
(* Type correctness. *)

LEMMA RowFacts ==
    ASSUME urls \in Tables, NEW i \in Stored(urls)
    PROVE  /\ i \in Ids
           /\ urls[i] \in Row
           /\ ViewOf(urls, i) \in View
BY DEF Stored, Tables, Row, ViewOf, View

LEMMA FoundRows ==
    ASSUME NEW n \in Names
    PROVE  FindByCodeOrAlias(urls, n) \subseteq Stored(urls)
BY DEF FindByCodeOrAlias, FindByShortCode, FindByCustomAlias

LEMMA ApplyType ==
    ASSUME NEW r \in Row, NEW c \in Change
    PROVE  /\ Apply(r, c) \in Row
           /\ Apply(r, c).owner = r.owner
           /\ Apply(r, c).code = r.code
           /\ Apply(r, c).alias = r.alias
BY DEF Apply, Row, Change

\* The parts of the type invariant, so that a step can treat them one by one.
TableOK == urls \in Tables /\ used \in SUBSET Ids /\ Stored(urls) \subseteq used

RedisOK ==
    /\ cache \in [Names -> View \union {NoView}]
    /\ ttl \in [Names -> 0 .. MaxTtl]
    /\ \A n \in Names : cache[n] = NoView <=> ttl[n] = 0
    /\ now \in 0 .. Horizon
    /\ blame \in [Names -> Blames]

HandlerOK(h) ==
    /\ pc[h] \in {"read", "fill", "drop", "redirect"} => name[h] \in Names
    /\ pc[h] \in {"fill", "redirect"} <=> view[h] # NoView
    /\ pc[h] \in {"updateWrite", "deleteWrite", "invalidateCode", "invalidateAlias"}
         <=> keys[h] # NoKeys
    /\ pc[h] = "updateWrite" => change[h] \in Changes
    /\ pc[h] = "invalidateAlias" => keys[h].alias # NoAlias

LocalOK ==
    /\ pc \in [Handlers -> Points]
    /\ name \in [Handlers -> Names \union {NoName}]
    /\ view \in [Handlers -> View \union {NoView}]
    /\ asOf \in [Handlers -> 0 .. Horizon]
    /\ keys \in [Handlers -> Keys \union {NoKeys}]
    /\ change \in [Handlers -> Changes \union {NoChange}]
    /\ \A h \in Handlers : HandlerOK(h)

LEMMA TypeParts == TypeOK <=> TableOK /\ RedisOK /\ LocalOK
BY DEF TypeOK, TableOK, RedisOK, LocalOK, HandlerOK

LEMMA LocalFrame == LocalOK /\ UNCHANGED local => LocalOK'
BY DEF LocalOK, HandlerOK, local

LEMMA TableFrame == TableOK /\ UNCHANGED store => TableOK'
BY DEF TableOK, store, Stored

LEMMA RestType == ASSUME LocalOK, NEW h \in Handlers, Rest(h) PROVE LocalOK'
<1>1. 0 \in 0 .. Horizon
    BY ClockAssumption
<1>2. QED  BY <1>1 DEF LocalOK, HandlerOK, Rest, Points

LEMMA DelType ==
    ASSUME RedisOK, NEW n \in Names, Del(n), UNCHANGED now PROVE RedisOK'
<1>1. 0 \in 0 .. MaxTtl
    BY ClockAssumption DEF MaxTtl
<1>2. QED  BY <1>1 DEF RedisOK, Del, Blames

LEMMA GiveUpType ==
    ASSUME RedisOK, NEW lost, GiveUp(lost), UNCHANGED <<redis, now>> PROVE RedisOK'
BY DEF RedisOK, GiveUp, redis, Blames

LEMMA SetExType ==
    ASSUME RedisOK, NEW n \in Names, NEW v \in View, NEW a \in Nat, SetEx(n, v, a),
           UNCHANGED now
    PROVE  RedisOK'
<1>2. TtlFor(v.expires, a) \in 1 .. MaxTtl
    BY TtlForType DEF View
<1>3. MaxTtl \in Nat
    BY ClockAssumption DEF MaxTtl
<1>4. v # NoView
    BY AbsentAssumption
<1>5. ttl' \in [Names -> 0 .. MaxTtl]
    BY <1>2, <1>3 DEF RedisOK, SetEx
<1>6. \A m \in Names : cache'[m] = NoView <=> ttl'[m] = 0
    BY <1>2, <1>3, <1>4 DEF RedisOK, SetEx
<1>7. QED  BY <1>5, <1>6 DEF RedisOK, SetEx, Blames

LEMMA TickType == ASSUME RedisOK, Tick PROVE RedisOK'
<1>1. MaxTtl \in Nat /\ Horizon \in Nat
    BY ClockAssumption DEF MaxTtl
<1>2. QED  BY <1>1 DEF RedisOK, Tick, Blames

LEMMA FillOK ==
    ASSUME LocalOK, NEW h \in Handlers, pc[h] = "fill"
    PROVE  name[h] \in Names /\ view[h] \in View /\ asOf[h] \in Nat
BY ClockAssumption DEF LocalOK, HandlerOK

LEMMA WriterOK ==
    ASSUME LocalOK, NEW h \in Handlers,
           pc[h] \in {"updateWrite", "deleteWrite", "invalidateCode", "invalidateAlias"}
    PROVE  /\ keys[h] \in Keys
           /\ keys[h].id \in Ids /\ keys[h].code \in Names
           /\ keys[h].alias \in Names \union {NoAlias}
           /\ pc[h] = "invalidateAlias" => keys[h].alias \in Names
BY DEF LocalOK, HandlerOK, Keys

\* A removal, done or given up, leaves a well-typed Redis.
LEMMA RemovalType ==
    ASSUME RedisOK, NEW n \in Names, Del(n) \/ SkipDel(n), UNCHANGED now
    PROVE  RedisOK'
BY DelType, GiveUpType DEF SkipDel, redis

LEMMA RedisFrame == RedisOK /\ UNCHANGED <<redis, now, blame>> => RedisOK'
BY DEF RedisOK, redis

LEMMA BeginType ==
    ASSUME TableOK, RedisOK, LocalOK, NEW h \in Handlers, Begin(h)
    PROVE  TableOK' /\ RedisOK' /\ LocalOK'
<1>1. ASSUME NEW n \in Names, ResolveHit(h, n)
      PROVE  UNCHANGED <<store, redis, now, blame>> /\ LocalOK'
    BY <1>1 DEF ResolveHit, GoTo, LocalOK, HandlerOK, RedisOK, Points
<1>2. ASSUME NEW n \in Names, ResolveExpired(h, n) \/ ResolveMiss(h, n)
      PROVE  UNCHANGED <<store, redis, now, blame>> /\ LocalOK'
    BY <1>2 DEF ResolveExpired, ResolveMiss, GoTo, LocalOK, HandlerOK, Points
<1>3. ASSUME NEW u \in Users, NEW i \in Ids, NEW point, Find(h, u, i, point)
      PROVE  [id |-> i, code |-> urls[i].code, alias |-> urls[i].alias] \in Keys
    BY <1>3, RowFacts DEF Find, FindByIdAndUserId, TableOK, Row, Keys
<1>4. ASSUME NEW u \in Users, NEW i \in Ids, DeleteFind(h, u, i)
      PROVE  UNCHANGED <<store, redis, now, blame>> /\ LocalOK'
    BY <1>3, <1>4, AbsentAssumption
       DEF DeleteFind, Find, GoTo, LocalOK, HandlerOK, Points
<1>5. ASSUME NEW u \in Users, NEW i \in Ids, NEW c \in Changes, UpdateFind(h, u, i, c)
      PROVE  UNCHANGED <<store, redis, now, blame>> /\ LocalOK'
    BY <1>3, <1>5, AbsentAssumption
       DEF UpdateFind, Find, GoTo, LocalOK, HandlerOK, Points
<1>6. UNCHANGED <<store, redis, now, blame>> /\ LocalOK'
    BY <1>1, <1>2, <1>4, <1>5 DEF Begin
<1>7. QED  BY <1>6, TableFrame, RedisFrame

LEMMA ProceedType ==
    ASSUME TableOK, RedisOK, LocalOK, NEW h \in Handlers, Proceed(h)
    PROVE  TableOK' /\ RedisOK' /\ LocalOK'
<1>1. CASE ResolveRead(h)
    <2>1. PICK i \in FindByCodeOrAlias(urls, name[h]) :
            view' = [view EXCEPT ![h] = ViewOf(urls, i)]
        BY <1>1 DEF ResolveRead
    <2>2. ViewOf(urls, i) \in View
        BY <1>1, <2>1, FoundRows, RowFacts DEF ResolveRead, LocalOK, HandlerOK, TableOK
    <2>3. LocalOK'
        BY <1>1, <2>1, <2>2, AbsentAssumption
           DEF ResolveRead, GoTo, LocalOK, RedisOK, HandlerOK, Points
    <2>4. QED  BY <1>1, <2>3, TableFrame, RedisFrame DEF ResolveRead
<1>2. CASE ResolveNotFound(h) \/ Redirect(h) \/ WriteFails(h)
    BY <1>2, TableFrame, RedisFrame, RestType DEF ResolveNotFound, Redirect, WriteFails
<1>3. CASE ResolveFill(h)
    <2>1. RedisOK'
        BY <1>3, FillOK, SetExType, RedisFrame DEF ResolveFill, SkipSet
    <2>2. LocalOK'
        <3>1. 0 \in 0 .. Horizon
            BY ClockAssumption
        <3>2. QED  BY <1>3, <3>1 DEF ResolveFill, GoTo, LocalOK, HandlerOK, Points
    <2>3. QED  BY <1>3, <2>1, <2>2, TableFrame DEF ResolveFill
<1>4. CASE ResolveDrop(h)
    <2>1. name[h] \in Names
        BY <1>4 DEF ResolveDrop, LocalOK, HandlerOK
    <2>2. QED
        BY <1>4, <2>1, RemovalType, TableFrame, RestType DEF ResolveDrop
<1>5. CASE UpdateWrite(h)
    <2> DEFINE i == keys[h].id
    <2>1. urls[i] \in Row /\ i \in Ids /\ change[h] \in Change
        BY <1>5, RowFacts, InputAssumption
           DEF UpdateWrite, TableOK, LocalOK, HandlerOK
    <2>2. Apply(urls[i], change[h]) \in Row
        BY <2>1, ApplyType
    <2>3. TableOK'
        BY <1>5, <2>1, <2>2 DEF UpdateWrite, TableOK, Tables, Stored
    <2>4. LocalOK'
        BY <1>5 DEF UpdateWrite, GoTo, LocalOK, HandlerOK, Points
    <2>5. QED  BY <1>5, <2>3, <2>4, RedisFrame DEF UpdateWrite
<1>6. CASE DeleteWrite(h)
    <2>1. TableOK'
        BY <1>6 DEF DeleteWrite, TableOK, Tables, Stored
    <2>2. LocalOK'
        BY <1>6 DEF DeleteWrite, GoTo, LocalOK, HandlerOK, Points
    <2>3. QED  BY <1>6, <2>1, <2>2, RedisFrame DEF DeleteWrite
<1>7. CASE InvalidateCode(h)
    <2>1. RedisOK'
        BY <1>7, WriterOK, RemovalType DEF InvalidateCode
    <2>2. CASE keys[h].alias = NoAlias
        BY <1>7, <2>1, <2>2, RestType, TableFrame DEF InvalidateCode
    <2>3. CASE keys[h].alias # NoAlias
        <3>1. LocalOK'
            BY <1>7, <2>3 DEF InvalidateCode, GoTo, LocalOK, HandlerOK, Points
        <3>2. QED  BY <1>7, <2>1, <3>1, TableFrame DEF InvalidateCode
    <2>4. QED  BY <2>2, <2>3
<1>8. CASE InvalidateAlias(h)
    BY <1>8, WriterOK, RemovalType, RestType, TableFrame DEF InvalidateAlias
<1>9. QED
    BY <1>1, <1>2, <1>3, <1>4, <1>5, <1>6, <1>7, <1>8 DEF Proceed

LEMMA AbortType ==
    ASSUME TableOK, RedisOK, LocalOK, NEW h \in Handlers, Abort(h)
    PROVE  TableOK' /\ RedisOK' /\ LocalOK'
BY GiveUpType, RestType, TableFrame DEF Abort

LEMMA UnansweredType ==
    ASSUME TableOK, RedisOK, LocalOK, NEW h \in Handlers, FillUnanswered(h)
    PROVE  TableOK' /\ RedisOK' /\ LocalOK'
BY FillOK, SetExType, TableFrame, LocalFrame DEF FillUnanswered

LEMMA SurroundingsType ==
    ASSUME TableOK, RedisOK, LocalOK,
           \/ \E i \in Ids, r \in NewRows : Insert(i, r)
           \/ \E n \in Names : Evict(n)
           \/ Tick
    PROVE  TableOK' /\ RedisOK' /\ LocalOK'
<1>1. ASSUME NEW i \in Ids, NEW r \in NewRows, Insert(i, r)
      PROVE  TableOK' /\ RedisOK' /\ LocalOK'
    <2>1. r \in Row
        BY InputAssumption
    <2>2. TableOK'
        BY <1>1, <2>1 DEF Insert, TableOK, Tables, Stored
    <2>3. QED  BY <1>1, <2>2, RedisFrame, LocalFrame DEF Insert
<1>2. ASSUME NEW n \in Names, Evict(n)
      PROVE  TableOK' /\ RedisOK' /\ LocalOK'
    BY <1>2, DelType, TableFrame, LocalFrame DEF Evict
<1>3. CASE Tick
    BY <1>3, TickType, TableFrame, LocalFrame DEF Tick
<1>4. QED  BY <1>1, <1>2, <1>3

LEMMA TypeInit == Init => TypeOK
<1>1. MaxTtl \in Nat
    BY ClockAssumption DEF MaxTtl
<1>2. QED
    BY <1>1, InputAssumption, AbsentAssumption, ClockAssumption
       DEF Init, TypeOK, Points, Blames, Stored

LEMMA TypeStep == TypeOK /\ [Next]_vars => TypeOK'
<1> SUFFICES ASSUME TableOK, RedisOK, LocalOK, [Next]_vars
             PROVE  TableOK' /\ RedisOK' /\ LocalOK'
    BY TypeParts, PTL
<1>1. CASE UNCHANGED vars
    BY <1>1, TableFrame, RedisFrame, LocalFrame DEF vars, store, redis, local
<1>2. CASE Next
    BY <1>2, BeginType, ProceedType, AbortType, UnansweredType, SurroundingsType DEF Next
<1>3. QED  BY <1>1, <1>2

\* Every variable of the protocol keeps its type: an entry has a TTL of at
\* most an hour and an absent one has none, a row is stored only under an id
\* that was given out, and a request holds what its next round trip needs.
THEOREM TypeCorrect == Spec => []TypeOK
BY TypeInit, TypeStep, PTL DEF Spec


-----------------------------------------------------------------------------
(* Stale entries are accounted for.  The property is inductive once it is   *)
(* known that the keys a writer remembers are those of the row it writes:   *)
(* codes and aliases never change, and ids are not used twice.              *)

KeysTrue ==
    \A h \in Handlers : pc[h] \in {"updateWrite", "deleteWrite"} =>
        LET i == keys[h].id IN
        /\ i \in used
        /\ urls[i] # NoRow => /\ keys[h].code = urls[i].code
                              /\ keys[h].alias = urls[i].alias

CacheInv == TypeOK /\ KeysTrue /\ StaleIsAccountedFor

LEMMA TypeUse == TypeOK => TableOK /\ RedisOK /\ LocalOK
BY TypeParts

LEMMA TypeNext == TypeOK /\ [Next]_vars => TableOK' /\ RedisOK' /\ LocalOK'
BY TypeStep, TypeParts, PTL

LEMMA KeysTrueStep == TypeOK /\ KeysTrue /\ [Next]_vars => KeysTrue'
<1> SUFFICES ASSUME TableOK, LocalOK, KeysTrue, [Next]_vars PROVE KeysTrue'
    BY TypeUse
<1>1. ASSUME UNCHANGED store, NEW h \in Handlers,
             Rest(h) \/ (UNCHANGED keys /\ \E point \in Points \ {"updateWrite", "deleteWrite"} : GoTo(h, point))
      PROVE  KeysTrue'
    BY <1>1 DEF KeysTrue, store, Rest, GoTo, LocalOK
<1>2. ASSUME NEW h \in Handlers, Begin(h) PROVE KeysTrue'
    <2>1. ASSUME NEW n \in Names,
                 ResolveHit(h, n) \/ ResolveExpired(h, n) \/ ResolveMiss(h, n)
          PROVE  KeysTrue'
        BY <1>1, <2>1 DEF ResolveHit, ResolveExpired, ResolveMiss, Points
    <2>2. ASSUME NEW u \in Users, NEW i \in Ids, NEW point, Find(h, u, i, point)
          PROVE  KeysTrue'
        BY <2>2 DEF Find, FindByIdAndUserId, GoTo, KeysTrue, store, Stored, TableOK, LocalOK
    <2>3. QED  BY <1>2, <2>1, <2>2 DEF Begin, UpdateFind, DeleteFind
<1>3. ASSUME NEW h \in Handlers, Proceed(h) PROVE KeysTrue'
    <2>1. CASE ResolveRead(h) \/ ResolveNotFound(h) \/ ResolveFill(h) \/ ResolveDrop(h)
               \/ Redirect(h) \/ WriteFails(h) \/ InvalidateAlias(h)
        BY <1>1, <2>1
           DEF ResolveRead, ResolveNotFound, ResolveFill, ResolveDrop, Redirect,
               WriteFails, InvalidateAlias, Points
    <2>2. CASE InvalidateCode(h)
        BY <1>1, <2>2 DEF InvalidateCode, Points
    <2>3. CASE UpdateWrite(h)
        <3>1. urls[keys[h].id] \in Row /\ change[h] \in Change
            BY <2>3, RowFacts, InputAssumption
               DEF UpdateWrite, TableOK, LocalOK, HandlerOK
        <3>2. QED
            BY <2>3, <3>1, ApplyType
               DEF UpdateWrite, KeysTrue, GoTo, TableOK, LocalOK, Tables, Stored
    <2>4. CASE DeleteWrite(h)
        BY <2>4 DEF DeleteWrite, KeysTrue, GoTo, TableOK, LocalOK, Tables, Stored
    <2>5. QED  BY <1>3, <2>1, <2>2, <2>3, <2>4 DEF Proceed
<1>4. ASSUME NEW h \in Handlers, Abort(h) PROVE KeysTrue'
    BY <1>1, <1>4 DEF Abort
<1>5. ASSUME NEW i \in Ids, NEW r \in NewRows, Insert(i, r) PROVE KeysTrue'
    BY <1>5 DEF Insert, KeysTrue, local, TableOK, Tables, Stored
<1>6. ASSUME UNCHANGED <<store, local>> PROVE KeysTrue'
    BY <1>6 DEF KeysTrue, store, local
<1>7. QED
    BY <1>2, <1>3, <1>4, <1>5, <1>6 DEF Next, FillUnanswered, Evict, Tick, vars, store, local

Accounted(n) ==
    Stale(n) => (\E h \in Handlers : n \in Pending(h)) \/ blame[n] # "none"

\* Only its write makes a row's versions differ, and the writer is pending for
\* every name the versions were under.
LEMMA WriteLeavesPending ==
    ASSUME TableOK, RedisOK, LocalOK, KeysTrue, NEW h \in Handlers, NEW n \in Names,
           UpdateWrite(h) \/ DeleteWrite(h),
           cache[n] \in VersionsOf(urls, n), cache[n] \notin VersionsOf(urls', n)
    PROVE  n \in Pending(h)'
<1> DEFINE i == keys[h].id
<1>1. i \in Ids /\ i \in Stored(urls)
    BY WriterOK DEF UpdateWrite, DeleteWrite
<1>2. \A j \in Ids \ {i} : urls'[j] = urls[j]
    BY <1>1 DEF UpdateWrite, DeleteWrite, TableOK, Tables
<1>3. PICK j \in FindByCodeOrAlias(urls, n) : cache[n] = ViewOf(urls, j)
    BY DEF VersionsOf
<1>4. j = i
    <2> SUFFICES ASSUME j # i PROVE FALSE
        OBVIOUS
    <2>1. j \in Ids /\ urls'[j] = urls[j]
        BY <1>2 DEF FindByCodeOrAlias, FindByShortCode, FindByCustomAlias, Stored
    <2>2. j \in FindByCodeOrAlias(urls', n) /\ ViewOf(urls', j) = cache[n]
        BY <1>3, <2>1
           DEF FindByCodeOrAlias, FindByShortCode, FindByCustomAlias, Stored, ViewOf
    <2>3. QED  BY <2>2 DEF VersionsOf
<1>5. n \in {keys[h].code, keys[h].alias}
    BY <1>3, <1>4
       DEF KeysTrue, UpdateWrite, DeleteWrite, FindByCodeOrAlias, FindByShortCode,
           FindByCustomAlias, Stored
<1>6. pc'[h] = "invalidateCode" /\ keys' = keys
    BY DEF UpdateWrite, DeleteWrite, GoTo, LocalOK
<1>7. QED  BY <1>5, <1>6 DEF Pending

\* A handler that is not removing keys has none pending.
LEMMA OthersPending ==
    ASSUME NEW h \in Handlers, LocalOK,
           Rest(h) \/ \E point \in Points : GoTo(h, point),
           \A k \in Handlers \ {h} : keys'[k] = keys[k]
    PROVE  \A k \in Handlers \ {h} : Pending(k)' = Pending(k)
BY DEF Pending, LocalOK, Rest, GoTo

LEMMA AccountedHandler ==
    ASSUME CacheInv, NEW h \in Handlers, Proceed(h) \/ FillUnanswered(h) \/ Abort(h) \/ Begin(h),
           NEW n \in Names, Stale(n)'
    PROVE  (\E k \in Handlers : n \in Pending(k)') \/ blame'[n] # "none"
<1> USE DEF CacheInv
<1>1. TableOK /\ RedisOK /\ LocalOK
    BY TypeUse
<1>2. Accounted(n)
    BY DEF StaleIsAccountedFor, Accounted
\* A step of a handler that leaves Redis and the table alone.
<1>3. ASSUME UNCHANGED <<store, redis, blame>>,
             \A k \in Handlers : Pending(k) \subseteq Pending(k)'
      PROVE  (\E k \in Handlers : n \in Pending(k)') \/ blame'[n] # "none"
    BY <1>2, <1>3 DEF Accounted, Stale, store, redis
<1>4. CASE Begin(h)
    <2>1. pc[h] = "idle" /\ UNCHANGED <<store, redis, blame>>
        BY <1>4 DEF Begin, ResolveHit, ResolveExpired, ResolveMiss, UpdateFind,
                    DeleteFind, Find
    <2>2. \A k \in Handlers \ {h} : pc'[k] = pc[k] /\ keys'[k] = keys[k]
        BY <1>1, <1>4 DEF Begin, ResolveHit, ResolveExpired, ResolveMiss, UpdateFind,
                          DeleteFind, Find, GoTo, LocalOK
    <2>3. QED  BY <1>3, <2>1, <2>2 DEF Pending
<1>5. CASE ResolveRead(h) \/ ResolveNotFound(h) \/ Redirect(h) \/ WriteFails(h)
    <2>1. pc[h] \notin {"invalidateCode", "invalidateAlias"} /\ UNCHANGED <<store, redis, blame>>
        BY <1>5 DEF ResolveRead, ResolveNotFound, Redirect, WriteFails
    <2>2. \A k \in Handlers \ {h} : pc'[k] = pc[k] /\ keys'[k] = keys[k]
        BY <1>1, <1>5 DEF ResolveRead, ResolveNotFound, Redirect, WriteFails, Rest, GoTo, LocalOK
    <2>3. QED  BY <1>3, <2>1, <2>2 DEF Pending
<1>6. CASE ResolveFill(h) \/ FillUnanswered(h)
    <2>1. \A k \in Handlers : Pending(k) \subseteq Pending(k)'
        BY <1>1, <1>6 DEF ResolveFill, FillUnanswered, GoTo, LocalOK, Pending, local
    <2>2. UNCHANGED store
        BY <1>6 DEF ResolveFill, FillUnanswered, store
    <2>3. CASE SkipSet
        BY <1>3, <2>1, <2>2, <2>3 DEF SkipSet
    <2>4. CASE SetEx(name[h], view[h], asOf[h]) /\ n = name[h]
        BY <1>1, <2>2, <2>4 DEF SetEx, Stale, RedisOK, store
    <2>5. CASE SetEx(name[h], view[h], asOf[h]) /\ n # name[h]
        BY <1>1, <1>2, <2>1, <2>2, <2>5 DEF SetEx, Stale, Accounted, RedisOK, store
    <2>6. QED  BY <1>6, <2>3, <2>4, <2>5 DEF ResolveFill, FillUnanswered
<1>7. CASE UpdateWrite(h) \/ DeleteWrite(h)
    <2>1. UNCHANGED <<redis, blame>> /\ \A k \in Handlers : Pending(k) \subseteq Pending(k)'
        BY <1>1, <1>7 DEF UpdateWrite, DeleteWrite, GoTo, LocalOK, Pending
    <2>2. CASE Stale(n)
        BY <1>2, <2>1, <2>2 DEF Accounted
    <2>3. CASE ~Stale(n)
        <3>1. cache[n] \in VersionsOf(urls, n) /\ cache[n] \notin VersionsOf(urls', n)
            BY <2>1, <2>3 DEF Stale, redis, VersionsOf, FindByCodeOrAlias,
                              FindByShortCode, FindByCustomAlias, Stored, ViewOf
        <3>2. QED  BY <1>1, <1>7, <3>1, WriteLeavesPending
    <2>4. QED  BY <2>2, <2>3
\* A key whose removal is done has no entry; one whose removal is given up is
\* blamed for it; the handler remains pending for the other keys.
<1>8. ASSUME NEW m \in Names, Del(m) \/ SkipDel(m), UNCHANGED store,
             \A k \in Handlers : Pending(k) \subseteq Pending(k)' \union {m}
      PROVE  (\E k \in Handlers : n \in Pending(k)') \/ blame'[n] # "none"
    <2>1. CASE n = m
        BY <1>1, <1>8, <2>1 DEF Del, SkipDel, GiveUp, Stale, RedisOK, redis
    <2>2. CASE n # m
        BY <1>1, <1>2, <1>8, <2>2
           DEF Del, SkipDel, GiveUp, Stale, Accounted, RedisOK, redis, store
    <2>3. QED  BY <2>1, <2>2
<1>9. CASE ResolveDrop(h)
    <2>1. name[h] \in Names
        BY <1>1, <1>9 DEF ResolveDrop, LocalOK, HandlerOK
    <2>2. \A k \in Handlers : Pending(k) \subseteq Pending(k)'
        BY <1>1, <1>9 DEF ResolveDrop, Rest, LocalOK, Pending
    <2>3. QED  BY <1>8, <1>9, <2>1, <2>2 DEF ResolveDrop
<1>10. CASE InvalidateCode(h)
    <2>1. keys[h].code \in Names
        BY <1>1, <1>10, WriterOK DEF InvalidateCode
    <2>2. \A k \in Handlers : Pending(k) \subseteq Pending(k)' \union {keys[h].code}
        BY <1>1, <1>10, SentinelAssumption
           DEF InvalidateCode, Rest, GoTo, LocalOK, Pending
    <2>3. QED  BY <1>8, <1>10, <2>1, <2>2 DEF InvalidateCode
<1>11. CASE InvalidateAlias(h)
    <2>1. keys[h].alias \in Names
        BY <1>1, <1>11, WriterOK DEF InvalidateAlias
    <2>2. \A k \in Handlers : Pending(k) \subseteq Pending(k)' \union {keys[h].alias}
        BY <1>1, <1>11 DEF InvalidateAlias, Rest, LocalOK, Pending
    <2>3. QED  BY <1>8, <1>11, <2>1, <2>2 DEF InvalidateAlias
<1>12. CASE Abort(h)
    <2>1. \A k \in Handlers \ {h} : Pending(k) \subseteq Pending(k)'
        BY <1>1, <1>12 DEF Abort, Rest, LocalOK, Pending
    <2>2. UNCHANGED <<store, redis>> /\ GiveUp(Pending(h))
        BY <1>12 DEF Abort
    <2>3. Stale(n) /\ (n \notin Pending(h) => blame'[n] = blame[n])
                   /\ (n \in Pending(h) => blame'[n] # "none")
        BY <2>2 DEF Stale, GiveUp, store, redis
    <2>4. QED  BY <1>2, <2>1, <2>3 DEF Accounted
<1>13. QED
    BY <1>4, <1>5, <1>6, <1>7, <1>9, <1>10, <1>11, <1>12 DEF Proceed

LEMMA AccountedStep == CacheInv /\ [Next]_vars => StaleIsAccountedFor'
<1> SUFFICES ASSUME CacheInv, [Next]_vars, NEW n \in Names, Stale(n)'
             PROVE  (\E k \in Handlers : n \in Pending(k)') \/ blame'[n] # "none"
    BY DEF StaleIsAccountedFor
<1>1. TableOK /\ RedisOK /\ LocalOK
    BY TypeUse DEF CacheInv
<1>2. Accounted(n)
    BY DEF CacheInv, StaleIsAccountedFor, Accounted
<1>3. UNCHANGED local => \A k \in Handlers : Pending(k)' = Pending(k)
    BY DEF local, Pending
<1>4. ASSUME NEW i \in Ids, NEW r \in NewRows, Insert(i, r)
      PROVE  (\E k \in Handlers : n \in Pending(k)') \/ blame'[n] # "none"
    <2>1. urls[i] = NoRow /\ \A j \in Stored(urls) : urls'[j] = urls[j]
        BY <1>1, <1>4 DEF Insert, TableOK, Tables, Stored
    <2>2. VersionsOf(urls, n) \subseteq VersionsOf(urls', n)
        BY <2>1 DEF VersionsOf, FindByCodeOrAlias, FindByShortCode, FindByCustomAlias,
                    Stored, ViewOf
    <2>3. Stale(n)
        BY <1>4, <2>2 DEF Insert, Stale, redis, VersionsOf, FindByCodeOrAlias,
                          FindByShortCode, FindByCustomAlias, Stored, ViewOf
    <2>4. QED  BY <1>2, <1>3, <1>4, <2>3 DEF Insert, Accounted
<1>5. ASSUME NEW m \in Names, Evict(m)
      PROVE  (\E k \in Handlers : n \in Pending(k)') \/ blame'[n] # "none"
    BY <1>1, <1>2, <1>3, <1>5 DEF Evict, Del, Stale, Accounted, RedisOK, store
<1>6. CASE Tick
    BY <1>1, <1>2, <1>3, <1>6 DEF Tick, Stale, Accounted, RedisOK, store
<1>7. CASE UNCHANGED vars
    BY <1>2, <1>3, <1>7 DEF vars, local, Stale, Accounted
<1>8. QED
    BY <1>4, <1>5, <1>6, <1>7, AccountedHandler DEF Next

\* Whatever fails, a stale entry is about to be removed by the request that
\* made it stale, or was filled late, or lost its removal: updates and
\* deletions remove both keys of the link, and after the write.
THEOREM StaleAccounted == Spec => []StaleIsAccountedFor
<1>1. Init => CacheInv
    BY TypeInit DEF Init, CacheInv, KeysTrue, StaleIsAccountedFor, Stale
<1>2. CacheInv /\ [Next]_vars => CacheInv'
    BY TypeStep, KeysTrueStep, AccountedStep DEF CacheInv
<1>3. CacheInv => StaleIsAccountedFor
    BY DEF CacheInv
<1>4. QED  BY <1>1, <1>2, <1>3, PTL DEF Spec


-----------------------------------------------------------------------------
(* Deletions, and the TTL. *)

\* An update that found its link before the deletion does not bring it back.
THEOREM DeletedForGood == Spec => DeletedStaysDeleted
<1>1. ASSUME TypeOK, [Next]_vars, NEW i \in used, urls[i] = NoRow
      PROVE  urls'[i] = NoRow
    <2>1. TableOK
        BY <1>1, TypeUse
    <2>2. ASSUME NEW h \in Handlers, Proceed(h) PROVE urls'[i] = NoRow
        BY <1>1, <2>1, <2>2
           DEF Proceed, ResolveRead, ResolveNotFound, ResolveFill, ResolveDrop, Redirect,
               UpdateWrite, DeleteWrite, WriteFails, InvalidateCode, InvalidateAlias,
               store, TableOK, Tables, Stored
    <2>3. ASSUME NEW h \in Handlers, Begin(h) \/ Abort(h) PROVE urls'[i] = NoRow
        BY <1>1, <2>3 DEF Begin, ResolveHit, ResolveExpired, ResolveMiss, UpdateFind,
                          DeleteFind, Find, Abort, store
    <2>4. ASSUME NEW j \in Ids, NEW r \in NewRows, Insert(j, r) PROVE urls'[i] = NoRow
        BY <1>1, <2>1, <2>4 DEF Insert, TableOK, Tables
    <2>5. QED
        BY <1>1, <2>2, <2>3, <2>4 DEF Next, FillUnanswered, Evict, Tick, vars, store
<1>2. TypeOK /\ [Next]_vars
        => [\A i \in used : urls[i] = NoRow => urls'[i] = NoRow]_vars
    BY <1>1
<1>3. QED  BY <1>2, TypeCorrect, PTL DEF Spec, DeletedStaysDeleted

LEMMA Division ==
    ASSUME NEW a \in Nat, NEW k \in Nat \ {0}
    PROVE  /\ a \div k \in Nat
           /\ (a \div k) * k <= a
           /\ a >= k => a \div k >= 1
OBVIOUS

\* A link with a second or more to live gets a TTL that ends no later.
LEMMA TtlForLink ==
    ASSUME NEW e \in Nat, NEW instant \in Nat, e \in Expiry, e - instant >= TicksPerSecond
    PROVE  instant + TtlFor(e, instant) <= e
<1> DEFINE seconds == (e - instant) \div TicksPerSecond
<1>1. TicksPerSecond \in Nat \ {0} /\ CACHE_TTL_SECONDS \in Nat \ {0} /\ e # Never
    BY ClockAssumption, SentinelAssumption
<1>2. e - instant \in Nat
    BY <1>1
<1>3. seconds \in Nat /\ seconds * TicksPerSecond <= e - instant /\ seconds >= 1
    BY <1>1, <1>2, Division
<1>4. seconds >= CACHE_TTL_SECONDS =>
        CACHE_TTL_SECONDS * TicksPerSecond <= seconds * TicksPerSecond
    <2> HIDE DEF seconds
    <2> QED  BY <1>1, <1>3
<1>5. CASE seconds < CACHE_TTL_SECONDS
    <2>1. TtlFor(e, instant) = seconds * TicksPerSecond
        BY <1>1, <1>3, <1>5 DEF TtlFor
    <2> HIDE DEF seconds
    <2>2. seconds * TicksPerSecond \in Nat
        BY <1>1, <1>3
    <2>3. QED  BY <1>3, <2>1, <2>2
<1>6. CASE ~(seconds < CACHE_TTL_SECONDS)
    <2>1. TtlFor(e, instant) = CACHE_TTL_SECONDS * TicksPerSecond
        BY <1>1, <1>6 DEF TtlFor, MaxTtl
    <2> HIDE DEF seconds
    <2>2. CACHE_TTL_SECONDS * TicksPerSecond \in Nat /\ seconds * TicksPerSecond \in Nat
        BY <1>1, <1>3
    <2>3. CACHE_TTL_SECONDS * TicksPerSecond <= e - instant
        BY <1>1, <1>2, <1>3, <1>4, <1>6, <2>2
    <2>4. QED  BY <2>1, <2>2, <2>3
<1>7. QED  BY <1>5, <1>6

\* Except for a fill, a request leaves Redis alone or removes a key.
LEMMA ProceedRedis ==
    ASSUME LocalOK, NEW h \in Handlers, Proceed(h), ~ResolveFill(h)
    PROVE  UNCHANGED redis \/ \E m \in Names : Del(m)
<1>1. CASE ResolveDrop(h)
    BY <1>1 DEF ResolveDrop, SkipDel, LocalOK, HandlerOK
<1>2. CASE InvalidateCode(h) \/ InvalidateAlias(h)
    BY <1>2, WriterOK DEF InvalidateCode, InvalidateAlias, SkipDel
<1>3. QED
    BY <1>1, <1>2
    DEF Proceed, ResolveRead, ResolveNotFound, Redirect, UpdateWrite, DeleteWrite, WriteFails

\* Entries outlive their links only by the time the SETEX was on the way, or
\* when the TTL was computed in the link's last second.
THEOREM TtlBound == Spec => TtlRespectsExpiry
<1> DEFINE Bound(n) ==
        LET expires == cache'[n].expires IN
        ttl'[n] > ttl[n] /\ expires # Never
          => \E h \in Handlers :
               /\ pc[h] = "fill" /\ name[h] = n /\ view[h] = cache'[n]
               /\ LET delay == now - asOf[h] IN
                  \/ expires - asOf[h] < TicksPerSecond
                  \/ now + ttl'[n] <= expires + delay
           Filled(h, n) ==
        pc[h] = "fill" /\ SetEx(name[h], view[h], asOf[h]) /\ n = name[h]
<1>1. ASSUME TypeOK, [Next]_vars, NEW n \in Names PROVE Bound(n)
    <2>1. TableOK /\ RedisOK /\ LocalOK /\ now \in Nat
        BY <1>1, TypeUse, ClockAssumption DEF RedisOK
    <2>2. ASSUME ttl'[n] <= ttl[n] PROVE Bound(n)
        <3>1. ttl[n] \in Int /\ ttl'[n] \in Int
            BY <1>1, <2>1, TypeNext, ClockAssumption DEF RedisOK, MaxTtl
        <3>2. QED  BY <2>2, <3>1
    <2>3. ASSUME NEW h \in Handlers, Filled(h, n) PROVE Bound(n)
        <3> DEFINE e == view[h].expires
        <3>1. view[h] \in View /\ asOf[h] \in Nat /\ pc[h] = "fill" /\ name[h] = n
            BY <2>1, <2>3, FillOK
        <3>2. cache'[n] = view[h] /\ ttl'[n] = TtlFor(e, asOf[h])
            BY <2>1, <2>3 DEF SetEx, RedisOK
        <3>3. e \in Expiry
            BY <3>1 DEF View
        <3>4. CASE e = Never
            BY <3>2, <3>4
        <3>5. CASE e # Never
            <4>1. e \in Nat /\ TicksPerSecond \in Nat
                BY <3>3, <3>5, SentinelAssumption, ClockAssumption DEF Expiry
            <4>2. TtlFor(e, asOf[h]) \in Nat
                BY <3>1, <3>3, TtlForType, ClockAssumption DEF MaxTtl
            <4>3. e - asOf[h] >= TicksPerSecond => asOf[h] + TtlFor(e, asOf[h]) <= e
                BY <3>1, <3>3, <4>1, TtlForLink
            <4>4. \/ e - asOf[h] < TicksPerSecond
                  \/ now + TtlFor(e, asOf[h]) <= e + (now - asOf[h])
                BY <2>1, <3>1, <4>1, <4>2, <4>3
            <4>5. QED  BY <3>1, <3>2, <4>4
        <3>6. QED  BY <3>4, <3>5
    <2>4. CASE \E h \in Handlers : Filled(h, n)
        BY <2>3, <2>4
    <2>5. CASE ~ \E h \in Handlers : Filled(h, n)
        <3>1. ttl'[n] = ttl[n] \/ ttl'[n] = 0 \/ Tick
            <4>1. ASSUME UNCHANGED redis \/ \E m \in Names : Del(m)
                  PROVE  ttl'[n] = ttl[n] \/ ttl'[n] = 0
                BY <2>1, <4>1 DEF redis, Del, RedisOK
            <4>2. ASSUME NEW h \in Handlers, ResolveFill(h) \/ FillUnanswered(h)
                  PROVE  ttl'[n] = ttl[n]
                <5>1. pc[h] = "fill" /\ (SetEx(name[h], view[h], asOf[h]) \/ UNCHANGED redis)
                    BY <4>2 DEF ResolveFill, FillUnanswered, SkipSet
                <5>2. CASE UNCHANGED redis
                    BY <5>2 DEF redis
                <5>3. CASE SetEx(name[h], view[h], asOf[h])
                    <6>1. name[h] # n
                        BY <2>5, <5>1, <5>3
                    <6>2. QED  BY <2>1, <5>3, <6>1 DEF SetEx, RedisOK
                <5>4. QED  BY <5>1, <5>2, <5>3
            <4>3. ASSUME NEW h \in Handlers, Begin(h) \/ Abort(h) PROVE UNCHANGED redis
                BY <4>3 DEF Begin, ResolveHit, ResolveExpired, ResolveMiss, UpdateFind,
                            DeleteFind, Find, Abort
            <4>4. ASSUME NEW h \in Handlers, Proceed(h), ~ResolveFill(h)
                  PROVE  UNCHANGED redis \/ \E m \in Names : Del(m)
                BY <2>1, <4>4, ProceedRedis
            <4>5. QED
                BY <1>1, <4>1, <4>2, <4>3, <4>4 DEF Next, Insert, Evict, vars, redis
        <3>2. ttl[n] \in Nat
            BY <2>1, ClockAssumption DEF RedisOK, MaxTtl
        <3>3. Tick => ttl'[n] <= ttl[n]
            BY <3>2 DEF Tick
        <3>4. ttl'[n] <= ttl[n]
            BY <3>1, <3>2, <3>3
        <3>5. QED  BY <2>2, <3>4
    <2>6. QED  BY <2>4, <2>5
<1>2. TypeOK /\ [Next]_vars => [\A n \in Names : Bound(n)]_vars
    BY <1>1
<1>3. QED  BY <1>2, TypeCorrect, PTL DEF Spec, TtlRespectsExpiry

-----------------------------------------------------------------------------
(* The refinement. *)

LEMMA VersionsType ==
    ASSUME NEW t \in Tables, NEW n \in Names PROVE VersionsOf(t, n) \subseteq View
BY DEF VersionsOf, FindByCodeOrAlias, FindByShortCode, FindByCustomAlias, Stored,
       Tables, Row, ViewOf, View

LEMMA VisibleType ==
    RedisOK /\ LocalOK => \A n \in Names : VisibleUnder(n) \subseteq View
BY DEF RedisOK, LocalOK, VisibleUnder

\* A version becomes visible under a name only by a read of the table that
\* finds it there.
LEMMA VisibleStep ==
    ASSUME TableOK, RedisOK, LocalOK, [Next]_vars, NEW n \in Names
    PROVE  VisibleUnder(n)' \subseteq VisibleUnder(n) \union VersionsOf(urls, n)
<1> DEFINE Held(k) == name[k] = n /\ view[k] # NoView
<1>1. SUFFICES ASSUME NEW v, v \in VisibleUnder(n)', v \notin VisibleUnder(n)
               PROVE  v \in VersionsOf(urls, n)
    OBVIOUS
<1>2. v # NoView /\ (v = cache'[n] \/ \E k \in Handlers : name'[k] = n /\ view'[k] = v)
    BY <1>1 DEF VisibleUnder
<1>3. v # cache[n] /\ \A k \in Handlers : name[k] = n => view[k] # v
    BY <1>1, <1>2 DEF VisibleUnder
\* Entries are dropped, or filled with what a handler holds.
<1>4. ASSUME \A m \in Names : cache'[m] \in {cache[m], NoView},
             \A k \in Handlers : \/ view'[k] = NoView
                                 \/ name'[k] = name[k] /\ view'[k] = view[k]
      PROVE  FALSE
    BY <1>2, <1>3, <1>4
<1>5. ASSUME NEW h \in Handlers, Begin(h) PROVE v \in VersionsOf(urls, n)
    <2>1. ASSUME NEW m \in Names, ResolveHit(h, m) PROVE FALSE
        BY <1>2, <1>3, <2>1 DEF ResolveHit, redis, LocalOK
    <2>2. ASSUME NEW m \in Names, ResolveExpired(h, m) \/ ResolveMiss(h, m) PROVE FALSE
        BY <1>4, <2>2 DEF ResolveExpired, ResolveMiss, redis, LocalOK, HandlerOK
    <2>3. ASSUME NEW u \in Users, NEW i \in Ids, NEW point, Find(h, u, i, point) PROVE FALSE
        BY <1>4, <2>3 DEF Find, redis
    <2>4. QED  BY <1>5, <2>1, <2>2, <2>3 DEF Begin, UpdateFind, DeleteFind
<1>6. ASSUME NEW h \in Handlers, Proceed(h) \/ FillUnanswered(h) \/ Abort(h)
      PROVE  v \in VersionsOf(urls, n)
    <2>1. CASE ResolveRead(h)
        <3>1. cache' = cache /\ name' = name
            BY <2>1 DEF ResolveRead, redis
        <3>2. PICK i \in FindByCodeOrAlias(urls, name[h]) :
                view' = [view EXCEPT ![h] = ViewOf(urls, i)]
            BY <2>1 DEF ResolveRead
        <3>3. v = ViewOf(urls, i) /\ name[h] = n
            BY <1>2, <1>3, <3>1, <3>2 DEF LocalOK
        <3>4. QED  BY <3>2, <3>3 DEF VersionsOf
    <2>2. CASE ResolveFill(h) \/ FillUnanswered(h)
        BY <1>2, <1>3, <2>2 DEF ResolveFill, FillUnanswered, SetEx, SkipSet, redis, local, RedisOK
    <2>3. CASE ResolveNotFound(h) \/ Redirect(h) \/ WriteFails(h) \/ Abort(h)
        BY <1>4, <2>3 DEF ResolveNotFound, Redirect, WriteFails, Abort, Rest, redis, LocalOK
    <2>4. CASE UpdateWrite(h) \/ DeleteWrite(h)
        BY <1>4, <2>4 DEF UpdateWrite, DeleteWrite, redis
    <2>5. CASE ResolveDrop(h) \/ InvalidateCode(h) \/ InvalidateAlias(h)
        BY <1>4, <2>5 DEF ResolveDrop, InvalidateCode, InvalidateAlias, Del, SkipDel,
                          Rest, redis, RedisOK, LocalOK
    <2>6. QED  BY <1>6, <2>1, <2>2, <2>3, <2>4, <2>5 DEF Proceed
<1>7. ASSUME NEW i \in Ids, NEW r \in NewRows, Insert(i, r) PROVE FALSE
    BY <1>4, <1>7 DEF Insert, redis, local
<1>8. ASSUME (\E m \in Names : Evict(m)) \/ Tick \/ UNCHANGED vars PROVE FALSE
    BY <1>4, <1>8 DEF Evict, Tick, Del, local, vars, RedisOK
<1>9. QED  BY <1>5, <1>6, <1>7, <1>8 DEF Next

\* Redirects implement LinkView: a version that an edit replaced is never
\* served again under a name once it has left Redis and the requests.
THEOREM ImplementsLinkView == Spec => NothingResurfaces
<1>1. Init => LV!ViewInit
    <2> SUFFICES ASSUME Init PROVE LV!ViewInit
        OBVIOUS
    <2>1. TableOK
        BY TypeInit, TypeUse
    <2>2. \A n \in Names : VisibleUnder(n) = {}
        BY DEF Init, VisibleUnder
    <2>3. QED  BY <2>1, <2>2, VersionsType DEF TableOK, LV!ViewInit
<1>2. TypeOK /\ [Next]_vars => LV!ViewStep
    <2> SUFFICES ASSUME TypeOK, [Next]_vars PROVE LV!ViewStep
        OBVIOUS
    <2>1. TableOK /\ RedisOK /\ LocalOK /\ TableOK' /\ RedisOK' /\ LocalOK'
        BY TypeUse, TypeNext
    <2>2. \A n \in Names : VersionsOf(urls', n) \subseteq View
        BY <2>1, VersionsType DEF TableOK
    <2>3. (\A n \in Names : VisibleUnder(n) \subseteq View)'
        BY <2>1, VisibleType, PTL
    <2>4. \A n \in Names : VisibleUnder(n)' \subseteq VisibleUnder(n) \union VersionsOf(urls, n)
        BY <2>1, VisibleStep
    <2>5. QED  BY <2>2, <2>3, <2>4 DEF LV!ViewStep
<1>3. QED
    BY <1>1, <1>2, TypeCorrect, PTL DEF Spec, NothingResurfaces, LV!ViewSpec

-----------------------------------------------------------------------------
(* Staleness runs down. *)

\* Whether a version is in the table is decided by the row of its own link.
LEMMA InTable ==
    ASSUME NEW t, NEW n, NEW v
    PROVE  v \in VersionsOf(t, n) <=> v.id \in FindByCodeOrAlias(t, n) /\ v = ViewOf(t, v.id)
<1>1. \A i : ViewOf(t, i).id = i
    BY DEF ViewOf
<1>2. QED  BY <1>1 DEF VersionsOf

LEMMA SameRow ==
    ASSUME NEW i \in Ids, urls'[i] = urls[i], NEW n, NEW v, v.id = i
    PROVE  v \in VersionsOf(urls', n) <=> v \in VersionsOf(urls, n)
<1>1. i \in FindByCodeOrAlias(urls', n) <=> i \in FindByCodeOrAlias(urls, n)
    BY DEF FindByCodeOrAlias, FindByShortCode, FindByCustomAlias, Stored
<1>2. ViewOf(urls', i) = ViewOf(urls, i)
    BY DEF ViewOf
<1>3. QED  BY <1>1, <1>2, InTable

\* A request that is about to fill was so before, or has just read the table.
LEMMA FillStep ==
    ASSUME TableOK, LocalOK, [Next]_vars, NEW k \in Handlers, pc'[k] = "fill"
    PROVE  \/ pc[k] = "fill" /\ name'[k] = name[k] /\ view'[k] = view[k]
           \/ view'[k] \in VersionsOf(urls, name'[k]) /\ UNCHANGED urls
<1>1. ASSUME UNCHANGED <<pc, name, view>>
      PROVE  pc[k] = "fill" /\ name'[k] = name[k] /\ view'[k] = view[k]
    BY <1>1
\* Handler h goes on, to another point than the fill.
<1>2. ASSUME NEW h \in Handlers, NEW point \in Points \ {"fill"},
             pc' = [pc EXCEPT ![h] = point],
             \A j \in Handlers \ {h} : name'[j] = name[j] /\ view'[j] = view[j]
      PROVE  pc[k] = "fill" /\ name'[k] = name[k] /\ view'[k] = view[k]
    BY <1>2 DEF LocalOK
<1>3. ASSUME NEW h \in Handlers, Rest(h)
      PROVE  pc[k] = "fill" /\ name'[k] = name[k] /\ view'[k] = view[k]
    BY <1>2, <1>3 DEF Rest, Points, LocalOK
<1>4. ASSUME NEW h \in Handlers, Begin(h)
      PROVE  pc[k] = "fill" /\ name'[k] = name[k] /\ view'[k] = view[k]
    <2>1. ASSUME NEW m \in Names, ResolveHit(h, m) \/ ResolveExpired(h, m) \/ ResolveMiss(h, m)
          PROVE  pc[k] = "fill" /\ name'[k] = name[k] /\ view'[k] = view[k]
        BY <1>2, <2>1 DEF ResolveHit, ResolveExpired, ResolveMiss, GoTo, Points, LocalOK
    <2>2. ASSUME NEW u \in Users, NEW i \in Ids,
                 Find(h, u, i, "updateWrite") \/ Find(h, u, i, "deleteWrite")
          PROVE  pc[k] = "fill" /\ name'[k] = name[k] /\ view'[k] = view[k]
        BY <1>2, <2>2 DEF Find, GoTo, Points
    <2>3. QED  BY <1>4, <2>1, <2>2 DEF Begin, UpdateFind, DeleteFind
<1>5. ASSUME NEW h \in Handlers, ResolveRead(h)
      PROVE  \/ pc[k] = "fill" /\ name'[k] = name[k] /\ view'[k] = view[k]
             \/ view'[k] \in VersionsOf(urls, name'[k]) /\ UNCHANGED urls
    <2>1. PICK i \in FindByCodeOrAlias(urls, name[h]) :
            view' = [view EXCEPT ![h] = ViewOf(urls, i)]
        BY <1>5 DEF ResolveRead
    <2>2. pc' = [pc EXCEPT ![h] = "fill"] /\ name' = name /\ urls' = urls
        BY <1>5 DEF ResolveRead, GoTo, store
    <2>3. QED  BY <2>1, <2>2 DEF LocalOK, VersionsOf
<1>6. ASSUME NEW h \in Handlers, ResolveFill(h) \/ UpdateWrite(h) \/ DeleteWrite(h)
      PROVE  pc[k] = "fill" /\ name'[k] = name[k] /\ view'[k] = view[k]
    BY <1>2, <1>6 DEF ResolveFill, UpdateWrite, DeleteWrite, GoTo, Points
<1>7. ASSUME NEW h \in Handlers, InvalidateCode(h)
      PROVE  pc[k] = "fill" /\ name'[k] = name[k] /\ view'[k] = view[k]
    BY <1>2, <1>3, <1>7 DEF InvalidateCode, GoTo, Points
<1>8. ASSUME NEW h \in Handlers,
             \/ ResolveNotFound(h) \/ ResolveDrop(h) \/ Redirect(h) \/ WriteFails(h)
             \/ InvalidateAlias(h) \/ Abort(h)
      PROVE  pc[k] = "fill" /\ name'[k] = name[k] /\ view'[k] = view[k]
    BY <1>3, <1>8 DEF ResolveNotFound, ResolveDrop, Redirect, WriteFails, InvalidateAlias, Abort
<1>9. ASSUME \/ \E i \in Ids, r \in NewRows : Insert(i, r)
             \/ (\E h \in Handlers : FillUnanswered(h))
             \/ (\E n \in Names : Evict(n)) \/ Tick \/ UNCHANGED vars
      PROVE  pc[k] = "fill" /\ name'[k] = name[k] /\ view'[k] = view[k]
    BY <1>1, <1>9 DEF Insert, FillUnanswered, Evict, Tick, local, vars
<1>10. QED
    BY <1>4, <1>5, <1>6, <1>7, <1>8, <1>9 DEF Next, Proceed

\* An entry stays, gets closer to its end, goes, or is filled.
LEMMA EntryStep ==
    ASSUME RedisOK, LocalOK, [Next]_vars, NEW n \in Names
    PROVE  \/ cache'[n] = NoView
           \/ cache'[n] = cache[n] /\ ttl'[n] <= ttl[n] /\ (Tick => ttl'[n] < ttl[n])
           \/ \E h \in Handlers : pc[h] = "fill" /\ name[h] = n /\ view[h] = cache'[n]
<1>1. ttl[n] \in Nat /\ (cache[n] = NoView <=> ttl[n] = 0)
    BY ClockAssumption DEF RedisOK, MaxTtl
<1>2. CASE Tick
    <2>1. ttl[n] > 1 => ttl'[n] = ttl[n] - 1 /\ cache'[n] = cache[n]
        BY <1>1, <1>2 DEF Tick
    <2>2. ~(ttl[n] > 1) => cache'[n] = NoView
        BY <1>2 DEF Tick
    <2>3. QED  BY <1>1, <2>1, <2>2
<1>3. CASE ~Tick
    <2>1. ASSUME UNCHANGED redis \/ \E m \in Names : Del(m)
          PROVE  cache'[n] = NoView \/ (cache'[n] = cache[n] /\ ttl'[n] <= ttl[n])
        BY <1>1, <2>1 DEF redis, Del, RedisOK
    <2>2. ASSUME NEW h \in Handlers, Begin(h) PROVE UNCHANGED redis
        BY <2>2 DEF Begin, ResolveHit, ResolveExpired, ResolveMiss, UpdateFind, DeleteFind, Find
    <2>3. ASSUME NEW h \in Handlers, ResolveFill(h) \/ FillUnanswered(h), ~UNCHANGED redis
          PROVE  \/ cache'[n] = cache[n] /\ ttl'[n] <= ttl[n]
                 \/ \E k \in Handlers : pc[k] = "fill" /\ name[k] = n /\ view[k] = cache'[n]
        <3>1. pc[h] = "fill" /\ SetEx(name[h], view[h], asOf[h])
            BY <2>3 DEF ResolveFill, FillUnanswered, SkipSet
        <3>2. CASE name[h] = n
            BY <3>1, <3>2 DEF SetEx, RedisOK
        <3>3. CASE name[h] # n
            BY <1>1, <3>1, <3>3 DEF SetEx, RedisOK
        <3>4. QED  BY <3>2, <3>3
    <2>4. ASSUME NEW h \in Handlers, Proceed(h), ~ResolveFill(h)
          PROVE  UNCHANGED redis \/ \E m \in Names : Del(m)
        BY <2>4, ProceedRedis
    <2>5. ASSUME NEW h \in Handlers, Proceed(h) \/ FillUnanswered(h)
          PROVE  \/ cache'[n] = NoView
                 \/ cache'[n] = cache[n] /\ ttl'[n] <= ttl[n]
                 \/ \E k \in Handlers : pc[k] = "fill" /\ name[k] = n /\ view[k] = cache'[n]
        BY <1>1, <2>1, <2>3, <2>4, <2>5 DEF redis
    <2>6. ASSUME \/ \E h \in Handlers : Abort(h)
                 \/ \E i \in Ids, r \in NewRows : Insert(i, r)
                 \/ \E m \in Names : Evict(m)
                 \/ UNCHANGED vars
          PROVE  UNCHANGED redis \/ \E m \in Names : Del(m)
        BY <2>6 DEF Abort, Insert, Evict, vars, redis
    <2>7. QED  BY <1>3, <2>1, <2>2, <2>5, <2>6 DEF Next
<1>4. QED  BY <1>2, <1>3

LEMMA StalenessStep ==
    ASSUME TypeOK, [Next]_vars, NEW i \in Ids, urls'[i] = urls[i]
    PROVE  /\ LateFills(i)' \subseteq LateFills(i)
           /\ \A n \in StaleOf(i)' :
                \/ n \in StaleOf(i) /\ ttl'[n] <= ttl[n] /\ (Tick => ttl'[n] < ttl[n])
                \/ \E h \in LateFills(i) : name[h] = n /\ view[h] = cache'[n]
<1>1. TableOK /\ RedisOK /\ LocalOK
    BY TypeUse
<1>2. ASSUME NEW k \in LateFills(i)' PROVE k \in LateFills(i)
    <2>1. /\ k \in Handlers /\ pc'[k] = "fill" /\ view'[k].id = i
          /\ view'[k] \notin VersionsOf(urls', name'[k])
        BY <1>2 DEF LateFills
    <2>2. view'[k] \notin VersionsOf(urls, name'[k])
        BY <2>1, SameRow
    <2>3. pc[k] = "fill" /\ name'[k] = name[k] /\ view'[k] = view[k]
        BY <1>1, <2>1, <2>2, FillStep
    <2>4. QED  BY <2>1, <2>2, <2>3 DEF LateFills
<1>3. ASSUME NEW n \in StaleOf(i)'
      PROVE  \/ n \in StaleOf(i) /\ ttl'[n] <= ttl[n] /\ (Tick => ttl'[n] < ttl[n])
             \/ \E h \in LateFills(i) : name[h] = n /\ view[h] = cache'[n]
    <2>1. /\ n \in Names /\ cache'[n] # NoView /\ cache'[n].id = i
          /\ cache'[n] \notin VersionsOf(urls', n)
        BY <1>3 DEF StaleOf, Stale
    <2>2. cache'[n] \notin VersionsOf(urls, n)
        BY <2>1, SameRow
    <2>3. CASE cache'[n] = cache[n] /\ ttl'[n] <= ttl[n] /\ (Tick => ttl'[n] < ttl[n])
        BY <2>1, <2>2, <2>3 DEF StaleOf, Stale
    <2>4. ASSUME NEW h \in Handlers, pc[h] = "fill", name[h] = n, view[h] = cache'[n]
          PROVE  h \in LateFills(i)
        BY <2>1, <2>2, <2>4 DEF LateFills
    <2>5. QED  BY <1>1, <2>1, <2>3, <2>4, EntryStep
<1>4. QED  BY <1>2, <1>3

\* The stale entries of a link whose row is left alone run down: no request
\* becomes a late fill, and nothing else makes or prolongs a stale entry.
THEOREM StalenessBounded == Spec => StalenessRunsDown
<1>1. TypeOK /\ [Next]_vars
        => [\A i \in Ids : urls'[i] = urls[i] =>
              /\ LateFills(i)' \subseteq LateFills(i)
              /\ \A n \in StaleOf(i)' :
                   \/ n \in StaleOf(i) /\ ttl'[n] <= ttl[n] /\ (Tick => ttl'[n] < ttl[n])
                   \/ \E h \in LateFills(i) : name[h] = n /\ view[h] = cache'[n]]_vars
    BY StalenessStep
<1>2. QED
    BY <1>1, TypeCorrect, PTL DEF Spec, StalenessRunsDown

-----------------------------------------------------------------------------
(* The refinement of LinkTable. *)

\* The types and queries of the table are the same on both levels.
LEMMA SameLinkTable ==
    /\ LT!Row = Row /\ LT!Tables = Tables /\ LT!Stored(urls) = Stored(urls)
    /\ \A c, a : LT!UniqueViolation(urls, c, a) <=> UniqueViolation(urls, c, a)
BY DEF LT!Row, Row, LT!Expiry, Expiry, LT!Tables, Tables, LT!Stored, Stored,
       LT!FindByShortCode, FindByShortCode, LT!FindByCustomAlias, FindByCustomAlias,
       LT!UniqueViolation, UniqueViolation

LEMMA UpdateTable ==
    ASSUME TableOK, LocalOK, NEW h \in Handlers, UpdateWrite(h)
    PROVE  LT!Amend(keys[h].id)
<1> DEFINE i == keys[h].id
           row == Apply(urls[i], change[h])
<1>1. i \in Stored(urls) /\ i \in Ids /\ urls[i] \in Row
    BY RowFacts DEF UpdateWrite, TableOK
<1>2. change[h] \in Change
    BY InputAssumption DEF UpdateWrite, LocalOK, HandlerOK
<1>3. /\ row \in Row /\ row.owner = urls[i].owner
      /\ row.code = urls[i].code /\ row.alias = urls[i].alias
    BY <1>1, <1>2, ApplyType
<1>4. urls' = [urls EXCEPT ![i] = row] /\ UNCHANGED used
    BY DEF UpdateWrite
<1> HIDE DEF row
<1>5. urls'[i] = row
    BY <1>1, <1>4 DEF TableOK, Tables
<1> HIDE DEF i
<1>6. LT!OnlyRow(i)
    BY <1>4, <1>5 DEF LT!OnlyRow
<1>7. LT!Amend(i)
    BY <1>1, <1>3, <1>4, <1>5, <1>6, SameLinkTable DEF LT!Amend
<1>8. QED
    BY <1>7 DEF i

LEMMA DeleteTable ==
    ASSUME TableOK, NEW h \in Handlers, DeleteWrite(h)
    PROVE  keys[h].id \in Ids /\ LT!Remove(keys[h].id)
BY SameLinkTable DEF DeleteWrite, LT!Remove, Stored

LEMMA InsertTable ==
    ASSUME TableOK, NEW i \in Ids, NEW r \in NewRows, Insert(i, r)
    PROVE  LT!Add(i)
<1>1. r \in Row /\ r.active
    BY InputAssumption
<1>2. /\ i \notin used /\ ~UniqueViolation(urls, r.code, r.alias)
      /\ urls' = [urls EXCEPT ![i] = r] /\ used' = used \union {i}
    BY DEF Insert
<1>3. urls'[i] = r
    BY <1>2 DEF TableOK, Tables
<1>4. LT!OnlyRow(i)
    BY <1>2, <1>3 DEF LT!OnlyRow
<1>5. QED
    BY <1>1, <1>2, <1>3, <1>4, SameLinkTable DEF LT!Add

LEMMA TableStep == TypeOK /\ [Next]_vars => [LT!TableNext]_(LT!tableVars)
<1> SUFFICES ASSUME TypeOK, [Next]_vars
             PROVE  LT!TableNext \/ UNCHANGED <<urls, used>>
    BY DEF LT!tableVars
<1>1. TableOK /\ LocalOK
    BY TypeUse
<1>2. ASSUME NEW h \in Handlers, UpdateWrite(h) PROVE LT!TableNext
    <2>1. keys[h].id \in Ids
        BY <1>2 DEF UpdateWrite, Stored
    <2>2. QED
        BY <1>1, <1>2, <2>1, UpdateTable DEF LT!TableNext
<1>3. ASSUME NEW h \in Handlers, DeleteWrite(h) PROVE LT!TableNext
    BY <1>1, <1>3, DeleteTable DEF LT!TableNext
<1>4. ASSUME NEW i \in Ids, NEW r \in NewRows, Insert(i, r) PROVE LT!TableNext
    BY <1>1, <1>4, InsertTable DEF LT!TableNext
<1>5. ASSUME NEW h \in Handlers, Begin(h) \/ FillUnanswered(h) \/ Abort(h)
      PROVE  UNCHANGED <<urls, used>>
    BY <1>5 DEF Begin, ResolveHit, ResolveExpired, ResolveMiss, UpdateFind, DeleteFind, Find,
                FillUnanswered, Abort, store
<1>6. ASSUME NEW h \in Handlers, Proceed(h), ~UpdateWrite(h), ~DeleteWrite(h)
      PROVE  UNCHANGED <<urls, used>>
    BY <1>6 DEF Proceed, ResolveRead, ResolveNotFound, ResolveFill, ResolveDrop, Redirect,
                WriteFails, InvalidateCode, InvalidateAlias, store
<1>7. QED
    BY <1>2, <1>3, <1>4, <1>5, <1>6 DEF Next, Evict, Tick, vars, store

\* The requests that the cache protocol is about, creations included, treat
\* the table as LinkTable says.
THEOREM ImplementsLinkTable == Spec => TableEvolves
<1>1. Init => LT!TableInit
    BY InputAssumption, SameLinkTable DEF Init, LT!TableInit, LT!Stored, Stored
<1>2. QED
    BY <1>1, TableStep, TypeCorrect, PTL DEF Spec, TableEvolves, LT!TableSpec

=============================================================================
