------------------------------ MODULE RateLimit ------------------------------
(***************************************************************************)
(* The rate limiter: a counter in Redis for every limiter, address and     *)
(* window, which the first request of the window is to give an expiry.     *)
(* INCR and PEXPIRE are two commands, each of which may fail, or take      *)
(* effect and lose its answer; ioredis then sends it once more when it has *)
(* connected again.                                                        *)
(***************************************************************************)
EXTENDS RedisClient

CONSTANTS
    Requests, Ips,
    WINDOW,         \* windowMs, in ticks of the clock
    MAX,            \* maxRequests
    MaxTime,        \* bound: the last tick of the clock
    Never           \* no expiry

ASSUME LimitAssumption ==
    /\ {WINDOW, MAX} \subseteq Nat \ {0}
    /\ MaxTime \in Nat
    /\ Never \notin Nat
    /\ IsFiniteSet(Requests)

Limiters == {"auth", "create"}

failClosed(l) == l = "auth"

windowAt(t) == t \div WINDOW

Windows == {windowAt(t) : t \in 0 .. MaxTime}

Keys == Limiters \X Ips \X Windows

VARIABLES
    now,
    pc,         \* pc[r]: what request r does next
    kind, ip,   \* kind[r], ip[r]: its route and its address
    window,     \* window[r]: the windowId it has computed
    conn,       \* conn[r]: the connection it got from getClient()
    answer,     \* answer[r]: what became of it
    counter,    \* counter[k]: the value in Redis, 0 when there is none
    expireAt,   \* expireAt[k]: when Redis drops it
    knew,       \* history: the requests that came after Redis was first reached
    counted,    \* history: the requests whose last INCR came in their window
    lost,       \* history: the counters that Redis has in an older state than they had
    broken      \* history: the counters with a command that failed or was sent twice

counters == <<counter, expireAt, lost>>
limiter == <<now, pc, kind, ip, window, conn, answer, counter, expireAt,
             knew, counted, lost, broken>>

Kinds == Limiters \union {"redirect", "health"}

Points == {"idle", "db", "redis", "wait", "route", "incr", "pexpire", "ping", "done",
           "dead"}

Answers == {"none", "admitted", "uncounted", "refused", "unavailable", "served",
            "healthy", "degraded", "unhealthy"}

LimitTypeOK ==
    /\ now \in 0 .. MaxTime
    /\ pc \in [Requests -> Points]
    /\ kind \in [Requests -> Kinds \union {"none"}]
    /\ ip \in [Requests -> Ips]
    /\ window \in [Requests -> Windows]
    /\ conn \in [Requests -> Clients \union {NoClient}]
    /\ answer \in [Requests -> Answers]
    /\ counter \in [Keys -> Nat]
    /\ expireAt \in [Keys -> Nat \union {Never}]
    /\ knew \in SUBSET Requests /\ counted \in SUBSET Requests
    /\ lost \in SUBSET Keys /\ broken \in SUBSET Keys

LimitInit ==
    /\ now = 0
    /\ pc = [r \in Requests |-> "idle"]
    /\ kind = [r \in Requests |-> "none"]
    /\ ip \in [Requests -> Ips]
    /\ window = [r \in Requests |-> 0]
    /\ conn = [r \in Requests |-> NoClient]
    /\ answer = [r \in Requests |-> "none"]
    /\ counter = [k \in Keys |-> 0]
    /\ expireAt = [k \in Keys |-> Never]
    /\ knew = {} /\ counted = {} /\ lost = {} /\ broken = {}

\* Mutant: one counter for all windows.
KeyForever(r) == <<kind[r], ip[r], 0>>

key(r) == <<kind[r], ip[r], window[r]>>

Answer(r, a) ==
    /\ answer' = [answer EXCEPT ![r] = a]
    /\ pc' = [pc EXCEPT ![r] = "done"]

-----------------------------------------------------------------------------
(* The middleware. *)

\* Without a connection: deny, or let the request through.
LimitBlind(r) ==
    /\ pc[r] = "route" /\ kind[r] \in Limiters
    /\ getClient = NoClient
    /\ Answer(r, IF ~isAvailable /\ failClosed(kind[r]) /\ everConnected
                 THEN "unavailable" ELSE "uncounted")
    /\ UNCHANGED <<redis, now, kind, ip, window, conn, counters, knew, counted, broken>>

\* The window is that of the moment the request is here; INCR is sent to the
\* connection of this moment.
Limit(r) ==
    /\ pc[r] = "route" /\ kind[r] \in Limiters
    /\ getClient # NoClient
    /\ conn' = [conn EXCEPT ![r] = getClient]
    /\ window' = [window EXCEPT ![r] = windowAt(now)]
    /\ pc' = [pc EXCEPT ![r] = "incr"]
    /\ UNCHANGED <<redis, now, kind, ip, answer, counters, knew, counted, broken>>

Reaches(r) == redisUp /\ link[conn[r]] = "ready"

\* Redis executes the INCR of request r.
Increment(r) ==
    /\ counter' = [counter EXCEPT ![key(r)] = @ + 1]
    /\ counted' = IF windowAt(now) = window[r] THEN counted \union {r} ELSE counted \ {r}

admits(n) == n <= MAX

\* Mutant: no request is taken for the first one.
isFirstFromZero(n) == n = 0

isFirst(n) == n = 1

\* The answer of INCR: the first request goes on to PEXPIRE.
Incr(r) ==
    /\ pc[r] = "incr" /\ Reaches(r)
    /\ Increment(r)
    /\ IF isFirst(counter'[key(r)])
         THEN pc' = [pc EXCEPT ![r] = "pexpire"] /\ UNCHANGED answer
         ELSE Answer(r, IF admits(counter'[key(r)]) THEN "admitted" ELSE "refused")
    /\ UNCHANGED <<redis, now, kind, ip, window, conn, expireAt, knew, lost, broken>>

\* Mutant: the expiry is one tick short.
ExpireEarly(r) ==
    expireAt' = IF counter[key(r)] > 0
                THEN [expireAt EXCEPT ![key(r)] = now + WINDOW - 1] ELSE expireAt

\* Redis executes the PEXPIRE of request r, a window from now.
SetExpiry(r) ==
    expireAt' = IF counter[key(r)] > 0
                THEN [expireAt EXCEPT ![key(r)] = now + WINDOW] ELSE expireAt

Pexpire(r) ==
    /\ pc[r] = "pexpire" /\ Reaches(r)
    /\ SetExpiry(r)
    /\ Answer(r, IF admits(1) THEN "admitted" ELSE "refused")
    /\ UNCHANGED <<redis, now, kind, ip, window, conn, counter, knew, counted, lost, broken>>

\* A command takes effect, and the connection is lost before its answer.
CommandRepeats(r) ==
    /\ pc[r] \in {"incr", "pexpire"} /\ Reaches(r)
    /\ Fault /\ OnClose(conn[r]) /\ UNCHANGED redisUp
    /\ \/ pc[r] = "incr" /\ Increment(r) /\ UNCHANGED expireAt
       \/ pc[r] = "pexpire" /\ SetExpiry(r) /\ UNCHANGED <<counter, counted>>
    /\ broken' = broken \union {key(r)}
    /\ UNCHANGED <<now, pc, kind, ip, window, conn, answer, knew, lost>>

Disconnected(c) == link[c] \in {"reconnecting", "end"}

\* The catch block: a command was given up while it waited for a connection.
CommandFails(r) ==
    /\ pc[r] \in {"incr", "pexpire"}
    /\ Disconnected(conn[r])
    /\ Answer(r, IF failClosed(kind[r]) THEN "unavailable" ELSE "uncounted")
    /\ broken' = broken \union {key(r)}
    /\ UNCHANGED <<redis, now, kind, ip, window, conn, counters, knew, counted>>

-----------------------------------------------------------------------------
(* Redis and the clock. *)

\* While Redis is down: what it will start from is older than what it had.  A
\* counter is lower or gone then, and one that was saved between its INCR and
\* its PEXPIRE has no expiry.
Forget(k) ==
    /\ ~redisUp /\ counter[k] > 0
    /\ \E n \in 0 .. counter[k] : counter' = [counter EXCEPT ![k] = n]
    /\ \/ expireAt' = [expireAt EXCEPT ![k] = Never]
       \/ counter'[k] > 0 /\ UNCHANGED expireAt
    /\ <<counter', expireAt'>> # <<counter, expireAt>>
    /\ lost' = lost \union {k}
    /\ UNCHANGED <<redis, now, pc, kind, ip, window, conn, answer, knew, counted, broken>>

Expired(k) == expireAt[k] # Never /\ expireAt[k] <= now'

Tick ==
    /\ now < MaxTime
    /\ now' = now + 1
    /\ counter' = [k \in Keys |-> IF Expired(k) THEN 0 ELSE counter[k]]
    /\ expireAt' = [k \in Keys |-> IF Expired(k) THEN Never ELSE expireAt[k]]
    /\ UNCHANGED <<redis, pc, kind, ip, window, conn, answer, knew, counted, lost, broken>>

=============================================================================
