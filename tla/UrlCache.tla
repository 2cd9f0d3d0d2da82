------------------------------ MODULE UrlCache ------------------------------
(***************************************************************************)
(* The cache-aside protocol of url.service.ts: redirects read Redis, fall  *)
(* back to PostgreSQL and fill Redis; updates and deletions write          *)
(* PostgreSQL and then remove the link's two Redis keys.                   *)
(*                                                                         *)
(* A handler is one request in progress, on any of the servers; between    *)
(* two of its awaits any other handler may run.  A step of a handler is    *)
(* one round trip to PostgreSQL or Redis and the code up to the next one.  *)
(***************************************************************************)
EXTENDS UrlTable, Integers

CONSTANTS
    Handlers,            \* slots for the requests in progress
    Seed,                \* the rows stored at the start
    NewRows,             \* the rows later creations may insert
    Changes,             \* the bodies of update requests
    Keep,                \* a field that an update request leaves out
    TicksPerSecond,      \* the resolution of the clock
    CACHE_TTL_SECONDS,
    Horizon,             \* bound: the clock stops here, after every expiry
    RedisFaults,         \* whether Redis operations may fail
    Crashes,             \* whether requests may die half way
    NoView, NoName, NoKeys, NoChange

\* What is stored in Redis for a link (CachedUrl).
View == [id: Ids, target: Targets, active: BOOLEAN, expires: Expiry]

\* What an update or deletion remembers of the row it found.
Keys == [id: Ids, code: Names, alias: Names \union {NoAlias}]

Change == [target: Targets \union {Keep}, active: BOOLEAN \union {Keep},
           expires: Expiry \union {Keep}]

ASSUME ClockAssumption ==
    /\ TicksPerSecond \in Nat \ {0}
    /\ CACHE_TTL_SECONDS \in Nat \ {0}
    /\ Horizon \in Nat
    /\ \A e \in Expiries : e <= Horizon

ASSUME InputAssumption ==
    /\ Seed \in Tables
    /\ NewRows \subseteq {r \in Row : r.active}
    /\ Changes \subseteq Change
    /\ RedisFaults \in BOOLEAN /\ Crashes \in BOOLEAN

ASSUME AbsentAssumption ==
    NoView \notin View /\ NoName \notin Names /\ NoKeys \notin Keys
                       /\ NoChange \notin Change

VARIABLES
    urls,    \* the table
    used,    \* the ids that were ever given out
    cache,   \* cache[n]: the entry under "url:n" in Redis
    ttl,     \* ttl[n]: the ticks this entry has left
    now,     \* the clock
    pc,      \* pc[h]: the round trip that handler h makes next
    name,    \* name[h]: the name h resolves
    view,    \* view[h]: the link h found for it
    asOf,    \* asOf[h]: the clock when h computed the TTL of its fill
    keys,    \* keys[h]: the row that h updates or deletes
    change,  \* change[h]: the body of h's update request
    blame    \* history: blame[n] says why the entry under n may be stale

store == <<urls, used>>
redis == <<cache, ttl>>
local == <<pc, name, view, asOf, keys, change>>
vars == <<urls, used, cache, ttl, now, pc, name, view, asOf, keys, change, blame>>

Points == {"idle", "read", "fill", "drop", "redirect",
           "updateWrite", "deleteWrite", "invalidateCode", "invalidateAlias"}

Blames == {"none", "lateFill", "lostInvalidation"}

MaxTtl == CACHE_TTL_SECONDS * TicksPerSecond

TypeOK ==
    /\ urls \in Tables
    /\ used \in SUBSET Ids
    /\ Stored(urls) \subseteq used
    /\ cache \in [Names -> View \union {NoView}]
    /\ ttl \in [Names -> 0 .. MaxTtl]
    /\ \A n \in Names : cache[n] = NoView <=> ttl[n] = 0
    /\ now \in 0 .. Horizon
    /\ pc \in [Handlers -> Points]
    /\ name \in [Handlers -> Names \union {NoName}]
    /\ view \in [Handlers -> View \union {NoView}]
    /\ asOf \in [Handlers -> 0 .. Horizon]
    /\ keys \in [Handlers -> Keys \union {NoKeys}]
    /\ change \in [Handlers -> Changes \union {NoChange}]
    /\ blame \in [Names -> Blames]
    /\ \A h \in Handlers :
        /\ pc[h] \in {"read", "fill", "drop", "redirect"} => name[h] \in Names
        /\ pc[h] \in {"fill", "redirect"} <=> view[h] # NoView
        /\ pc[h] \in {"updateWrite", "deleteWrite", "invalidateCode", "invalidateAlias"}
             <=> keys[h] # NoKeys
        /\ pc[h] = "updateWrite" => change[h] \in Changes
        /\ pc[h] = "invalidateAlias" => keys[h].alias # NoAlias

ViewOf(t, i) == [id |-> i, target |-> t[i].target,
                 active |-> t[i].active, expires |-> t[i].expires]

\* The versions of links that table t puts under the name n.
VersionsOf(t, n) == {ViewOf(t, i) : i \in FindByCodeOrAlias(t, n)}

Init ==
    /\ urls = Seed
    /\ used = Stored(Seed)
    /\ cache = [n \in Names |-> NoView]
    /\ ttl = [n \in Names |-> 0]
    /\ now = 0
    /\ pc = [h \in Handlers |-> "idle"]
    /\ name = [h \in Handlers |-> NoName]
    /\ view = [h \in Handlers |-> NoView]
    /\ asOf = [h \in Handlers |-> 0]
    /\ keys = [h \in Handlers |-> NoKeys]
    /\ change = [h \in Handlers |-> NoChange]
    /\ blame = [n \in Names |-> "none"]

-----------------------------------------------------------------------------
(* Redis commands, as redis.client.ts wraps them: a command is skipped when
   the client is not available, and its error is swallowed when it fails. *)


\* Mutant: the expiry is left out of account.
TtlForAnyLink(expires, instant) == MaxTtl

\* setInCache: the TTL is cut to the whole seconds the link has left at the
\* instant the handler reads the clock, but only when there is at least one.
TtlFor(expires, instant) ==
    LET seconds == IF expires = Never THEN 0
                   ELSE (expires - instant) \div TicksPerSecond
    IN IF seconds > 0 /\ seconds < CACHE_TTL_SECONDS
       THEN seconds * TicksPerSecond
       ELSE MaxTtl

\* Redis executes SETEX: the TTL was computed at an earlier instant, and only
\* starts to run now.
SetEx(n, v, instant) ==
    /\ cache' = [cache EXCEPT ![n] = v]
    /\ ttl' = [ttl EXCEPT ![n] = TtlFor(v.expires, instant)]
    /\ blame' = [blame EXCEPT ![n] = IF v \in VersionsOf(urls, n)
                                     THEN "none" ELSE "lateFill"]

Del(n) ==
    /\ cache' = [cache EXCEPT ![n] = NoView]
    /\ ttl' = [ttl EXCEPT ![n] = 0]
    /\ blame' = [blame EXCEPT ![n] = "none"]

SkipSet == RedisFaults /\ UNCHANGED <<redis, blame>>

\* The names whose removal is given up are recorded in the history.
GiveUp(lost) ==
    blame' = [n \in Names |-> IF n \in lost /\ cache[n] # NoView
                              THEN "lostInvalidation" ELSE blame[n]]

SkipDel(n) == RedisFaults /\ GiveUp({n}) /\ UNCHANGED redis

-----------------------------------------------------------------------------
(* Handlers. *)

Rest(h) ==
    /\ pc' = [pc EXCEPT ![h] = "idle"]
    /\ name' = [name EXCEPT ![h] = NoName]
    /\ view' = [view EXCEPT ![h] = NoView]
    /\ asOf' = [asOf EXCEPT ![h] = 0]
    /\ keys' = [keys EXCEPT ![h] = NoKeys]
    /\ change' = [change EXCEPT ![h] = NoChange]

GoTo(h, point) == pc' = [pc EXCEPT ![h] = point]

\* Mutant: a hit prolongs the entry.
ResolveHitProlongs(h, n) ==
    /\ pc[h] = "idle"
    /\ cache[n] # NoView
    /\ cache[n].active
    /\ ~Expired(cache[n].expires, now)
    /\ GoTo(h, "redirect")
    /\ name' = [name EXCEPT ![h] = n]
    /\ view' = [view EXCEPT ![h] = cache[n]]
    /\ ttl' = [ttl EXCEPT ![n] = MaxTtl]
    /\ UNCHANGED <<store, cache, now, asOf, keys, change, blame>>

\* resolveUrl: the cached link may be followed.  (Answering 404 for a cached
\* link that is inactive changes no state.)
ResolveHit(h, n) ==
    /\ pc[h] = "idle"
    /\ cache[n] # NoView
    /\ cache[n].active
    /\ ~Expired(cache[n].expires, now)
    /\ GoTo(h, "redirect")
    /\ name' = [name EXCEPT ![h] = n]
    /\ view' = [view EXCEPT ![h] = cache[n]]
    /\ UNCHANGED <<store, redis, now, asOf, keys, change, blame>>

\* resolveUrl: the cached link has expired; its key is removed next.
ResolveExpired(h, n) ==
    /\ pc[h] = "idle"
    /\ cache[n] # NoView
    /\ cache[n].active
    /\ Expired(cache[n].expires, now)
    /\ GoTo(h, "drop")
    /\ name' = [name EXCEPT ![h] = n]
    /\ UNCHANGED <<store, redis, now, view, asOf, keys, change, blame>>

\* resolveUrl: no entry, or no answer from Redis; the table is read next.
ResolveMiss(h, n) ==
    /\ pc[h] = "idle"
    /\ cache[n] = NoView \/ RedisFaults
    /\ GoTo(h, "read")
    /\ name' = [name EXCEPT ![h] = n]
    /\ UNCHANGED <<store, redis, now, view, asOf, keys, change, blame>>

\* resolveUrl: the link may be followed.  The TTL of its entry is computed
\* here, before the SETEX is sent.
ResolveRead(h) ==
    /\ pc[h] = "read"
    /\ \E i \in FindByCodeOrAlias(urls, name[h]) :
        /\ urls[i].active
        /\ ~Expired(urls[i].expires, now)
        /\ view' = [view EXCEPT ![h] = ViewOf(urls, i)]
    /\ asOf' = [asOf EXCEPT ![h] = now]
    /\ GoTo(h, "fill")
    /\ UNCHANGED <<store, redis, now, name, keys, change, blame>>

\* resolveUrl: 404, there is no such link, or it is inactive or expired.
ResolveNotFound(h) ==
    /\ pc[h] = "read"
    /\ \/ FindByCodeOrAlias(urls, name[h]) = {}
       \/ \E i \in FindByCodeOrAlias(urls, name[h]) :
            ~urls[i].active \/ Expired(urls[i].expires, now)
    /\ Rest(h)
    /\ UNCHANGED <<store, redis, now, blame>>

\* Mutant: the fill uses the link's short code as the key, whatever name it
\* was resolved by.
ResolveFillByCode(h) ==
    LET i == view[h].id
        n == IF i \in Stored(urls) THEN urls[i].code ELSE name[h] IN
    /\ pc[h] = "fill"
    /\ SetEx(n, view[h], asOf[h]) \/ SkipSet
    /\ asOf' = [asOf EXCEPT ![h] = 0]
    /\ GoTo(h, "redirect")
    /\ UNCHANGED <<store, now, name, view, keys, change>>

ResolveFill(h) ==
    /\ pc[h] = "fill"
    /\ SetEx(name[h], view[h], asOf[h]) \/ SkipSet
    /\ asOf' = [asOf EXCEPT ![h] = 0]
    /\ GoTo(h, "redirect")
    /\ UNCHANGED <<store, now, name, view, keys, change>>

\* The connection breaks after Redis has executed the SETEX and before the
\* answer: ioredis sends the command again on the next connection, and the
\* handler waits on.  (For a DEL this is an Evict before the removal.)
FillUnanswered(h) ==
    /\ RedisFaults
    /\ pc[h] = "fill"
    /\ SetEx(name[h], view[h], asOf[h])
    /\ UNCHANGED <<store, now, local>>

\* The redirect route answers 302 with the link that was resolved.
Redirect(h) ==
    /\ pc[h] = "redirect"
    /\ Rest(h)
    /\ UNCHANGED <<store, redis, now, blame>>

ResolveDrop(h) ==
    /\ pc[h] = "drop"
    /\ Del(name[h]) \/ SkipDel(name[h])
    /\ Rest(h)
    /\ UNCHANGED <<store, now>>

-----------------------------------------------------------------------------

\* updateUrl and deleteUrl look the row up by id and owner; a 404 changes
\* no state.
Find(h, u, i, point) ==
    /\ pc[h] = "idle"
    /\ FindByIdAndUserId(urls, i, u)
    /\ keys' = [keys EXCEPT ![h] =
                  [id |-> i, code |-> urls[i].code, alias |-> urls[i].alias]]
    /\ GoTo(h, point)
    /\ UNCHANGED <<store, redis, now, name, view, asOf, blame>>

UpdateFind(h, u, i, c) ==
    /\ Find(h, u, i, "updateWrite")
    /\ change' = [change EXCEPT ![h] = c]

DeleteFind(h, u, i) ==
    /\ Find(h, u, i, "deleteWrite")
    /\ UNCHANGED change

\* The row after an update: fields the request leaves out keep their value.
Apply(row, c) ==
    [row EXCEPT !.target  = IF c.target  = Keep THEN @ ELSE c.target,
                !.active  = IF c.active  = Keep THEN @ ELSE c.active,
                !.expires = IF c.expires = Keep THEN @ ELSE c.expires]

\* Mutant: an upsert, which stores the row again when it is gone.
UpdateUpserts(h) ==
    LET i == keys[h].id IN
    /\ pc[h] = "updateWrite"
    /\ \E row \in NewRows \union {Seed[i]} :
         urls' = [urls EXCEPT ![i] = IF @ = NoRow THEN row ELSE Apply(@, change[h])]
    /\ GoTo(h, "invalidateCode")
    /\ change' = [change EXCEPT ![h] = NoChange]
    /\ UNCHANGED <<used, redis, now, name, view, asOf, keys, blame>>

UpdateWrite(h) ==
    LET i == keys[h].id IN
    /\ pc[h] = "updateWrite"
    /\ i \in Stored(urls)
    /\ urls' = [urls EXCEPT ![i] = Apply(@, change[h])]
    /\ GoTo(h, "invalidateCode")
    /\ change' = [change EXCEPT ![h] = NoChange]
    /\ UNCHANGED <<used, redis, now, name, view, asOf, keys, blame>>

DeleteWrite(h) ==
    LET i == keys[h].id IN
    /\ pc[h] = "deleteWrite"
    /\ i \in Stored(urls)
    /\ urls' = [urls EXCEPT ![i] = NoRow]
    /\ GoTo(h, "invalidateCode")
    /\ UNCHANGED <<used, redis, now, name, view, asOf, keys, change, blame>>

\* The row was deleted after it was found: Prisma throws P2025, which is
\* answered 500, and nothing is invalidated.
WriteFails(h) ==
    /\ pc[h] \in {"updateWrite", "deleteWrite"}
    /\ keys[h].id \notin Stored(urls)
    /\ Rest(h)
    /\ UNCHANGED <<store, redis, now, blame>>

\* Mutant: the alias key is forgotten.
InvalidateCodeOnly(h) ==
    /\ pc[h] = "invalidateCode"
    /\ Del(keys[h].code) \/ SkipDel(keys[h].code)
    /\ Rest(h)
    /\ UNCHANGED <<store, now>>

\* Mutant: without the test that the link has an alias.
InvalidateBoth(h) ==
    /\ pc[h] = "invalidateCode"
    /\ Del(keys[h].code) \/ SkipDel(keys[h].code)
    /\ GoTo(h, "invalidateAlias")
    /\ UNCHANGED <<store, now, name, view, asOf, keys, change>>

InvalidateCode(h) ==
    /\ pc[h] = "invalidateCode"
    /\ Del(keys[h].code) \/ SkipDel(keys[h].code)
    /\ IF keys[h].alias = NoAlias
       THEN Rest(h)
       ELSE GoTo(h, "invalidateAlias") /\ UNCHANGED <<name, view, asOf, keys, change>>
    /\ UNCHANGED <<store, now>>

InvalidateAlias(h) ==
    /\ pc[h] = "invalidateAlias"
    /\ Del(keys[h].alias) \/ SkipDel(keys[h].alias)
    /\ Rest(h)
    /\ UNCHANGED <<store, now>>

\* The keys that handler h has written about and still has to remove.
Pending(h) ==
    {n \in Names : \/ pc[h] = "invalidateCode" /\ n \in {keys[h].code, keys[h].alias}
                   \/ pc[h] = "invalidateAlias" /\ n = keys[h].alias}

\* The request ends here: its server stops, or PostgreSQL reports an error
\* (after a write that may have been committed).
Abort(h) ==
    /\ Crashes
    /\ pc[h] # "idle"
    /\ GiveUp(Pending(h))
    /\ Rest(h)
    /\ UNCHANGED <<store, redis, now>>

-----------------------------------------------------------------------------
(* The surroundings. *)

\* Another request creates a link (createUrl up to its answer; module
\* UrlCreate has its steps).  The expiry was in the future when the request
\* was validated, several round trips ago: it may have passed since.
Insert(i, r) ==
    /\ i \notin used
    /\ ~UniqueViolation(urls, r.code, r.alias)
    /\ urls' = [urls EXCEPT ![i] = r]
    /\ used' = used \union {i}
    /\ UNCHANGED <<redis, now, local, blame>>

\* Redis drops an entry before its time: eviction, a restart that loses it, or
\* a DEL whose answer is lost and that is sent again later.
Evict(n) ==
    /\ RedisFaults
    /\ cache[n] # NoView
    /\ Del(n)
    /\ UNCHANGED <<store, now, local>>

\* Time passes; Redis removes the entries whose time is up.
Tick ==
    /\ now < Horizon \/ \E n \in Names : ttl[n] > 0
    /\ now' = IF now < Horizon THEN now + 1 ELSE now
    /\ ttl' = [n \in Names |-> IF ttl[n] > 0 THEN ttl[n] - 1 ELSE 0]
    /\ cache' = [n \in Names |-> IF ttl[n] > 1 THEN cache[n] ELSE NoView]
    /\ blame' = [n \in Names |-> IF ttl[n] > 1 THEN blame[n] ELSE "none"]
    /\ UNCHANGED <<store, local>>

\* What a request that has begun does next.
Proceed(h) ==
    \/ ResolveRead(h) \/ ResolveNotFound(h) \/ ResolveFill(h)
    \/ ResolveDrop(h) \/ Redirect(h)
    \/ UpdateWrite(h) \/ DeleteWrite(h) \/ WriteFails(h)
    \/ InvalidateCode(h) \/ InvalidateAlias(h)

Begin(h) ==
    \/ \E n \in Names : ResolveHit(h, n) \/ ResolveExpired(h, n) \/ ResolveMiss(h, n)
    \/ \E u \in Users, i \in Ids :
         DeleteFind(h, u, i) \/ \E c \in Changes : UpdateFind(h, u, i, c)

Next ==
    \/ \E h \in Handlers : Begin(h) \/ Proceed(h) \/ FillUnanswered(h) \/ Abort(h)
    \/ \E i \in Ids, r \in NewRows : Insert(i, r)
    \/ \E n \in Names : Evict(n)
    \/ Tick

Spec == Init /\ [][Next]_vars

(***************************************************************************)
(* A request that has begun gets its answers from PostgreSQL and Redis, or *)
(* an error, and its code runs on; time passes.  Nothing makes a request   *)
(* begin, or fail, or Redis lose an entry.                                 *)
(***************************************************************************)
FairSpec == Spec /\ WF_vars(Tick) /\ \A h \in Handlers : WF_vars(Proceed(h))

-----------------------------------------------------------------------------
(* Properties. *)

Stale(n) == cache[n] # NoView /\ cache[n] \notin VersionsOf(urls, n)

\* No entry is stale for free: an entry that differs from the table is about
\* to be removed by the handler that changed the row, or it was filled from a
\* row read before the change, or its removal failed.  In particular updates
\* and deletions remove both of the link's keys, and only after the write
\* (url.service.ts 162-168, 179-185).
StaleIsAccountedFor ==
    \A n \in Names :
        Stale(n) => \/ \E h \in Handlers : n \in Pending(h)
                    \/ blame[n] # "none"

\* A link that was deleted is gone for good, also when an update or a second
\* deletion that found it earlier goes on (repo.update is no upsert).
DeletedStaysDeleted ==
    [][\A i \in used : urls[i] = NoRow => urls'[i] = NoRow]_vars

LT == INSTANCE LinkTable

\* The requests do to the table only what LinkTable allows: no update changes
\* an owner or a name, none brings a row back, and a step writes one row
\* (url.repository.ts 64-73).
TableEvolves == LT!TableSpec

\* The versions of links that a redirect of n may still send a visitor to.
VisibleUnder(n) ==
    ({cache[n]} \union {view[h] : h \in {k \in Handlers : name[k] = n}}) \ {NoView}

LV == INSTANCE LinkView
        WITH Versions  <- View,
             standsFor <- [n \in Names |-> VersionsOf(urls, n)],
             visible   <- [n \in Names |-> VisibleUnder(n)]

\* Redirects implement LinkView: what a visitor is sent to under a name was
\* put under that name by an owner, and a version that an edit replaced never
\* returns once it has left Redis and the requests in progress.
NothingResurfaces == LV!ViewSpec

\* Redis catches up: once the row of a link no longer changes, its entries
\* are eventually those of the row and remain so, whatever failed before (the
\* staleness is bounded by the TTL, README 345).
EventuallyConsistent ==
    \A i \in Ids :
        <>[][urls'[i] = urls[i]]_vars
          => <>[](\A n \in Names : cache[n] # NoView /\ cache[n].id = i
                                     => cache[n] \in VersionsOf(urls, n))

\* The requests about to fill a version of link i that its row no longer has.
LateFills(i) ==
    {h \in Handlers : /\ pc[h] = "fill" /\ view[h].id = i
                      /\ view[h] \notin VersionsOf(urls, name[h])}

StaleOf(i) == {n \in Names : Stale(n) /\ cache[n].id = i}

\* While the row of a link is left alone its staleness runs down.  No request
\* becomes a late fill, a stale entry is only made by one, and otherwise no
\* step prolongs a stale entry: a hit does not, and time shortens it.  So all
\* the stale entries of a link that is no longer edited are gone once its late
\* fills are done, resent ones included, and one TTL has passed after them (the
\* safety half of EventuallyConsistent).
StalenessRunsDown ==
    [][\A i \in Ids : urls'[i] = urls[i] =>
         /\ LateFills(i)' \subseteq LateFills(i)
         /\ \A n \in StaleOf(i)' :
              \/ n \in StaleOf(i) /\ ttl'[n] <= ttl[n] /\ (Tick => ttl'[n] < ttl[n])
              \/ \E h \in LateFills(i) : name[h] = n /\ view[h] = cache'[n]]_vars

\* An entry outlives its link's expiry by no more than the time its SETEX was
\* on the way: counted from the instant at which the handler computed the TTL
\* it ends before the link does, the rounding to whole seconds included.  The
\* exception is a fill computed in the link's last second, which lives on for
\* the whole TTL (url.service.ts 253-261).
TtlRespectsExpiry ==
    [][\A n \in Names :
         LET expires == cache'[n].expires IN
         ttl'[n] > ttl[n] /\ expires # Never
           => \E h \in Handlers :
                /\ pc[h] = "fill" /\ name[h] = n /\ view[h] = cache'[n]
                /\ LET delay == now - asOf[h] IN
                   \/ expires - asOf[h] < TicksPerSecond
                   \/ now + ttl'[n] <= expires + delay]_vars

\* README 345 says of updates: "A small window exists where stale data may be
\* served (between the database update and cache delete)".  So a stale entry of
\* a link that is there comes with a request between its write and its removals.
StaleOnlyInWindow ==
    \A n \in Names :
        Stale(n) /\ cache[n].id \in Stored(urls)
          => \E h \in Handlers : pc[h] \in {"invalidateCode", "invalidateAlias"}

=============================================================================
