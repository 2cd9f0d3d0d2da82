------------------------------- MODULE Service -------------------------------
(***************************************************************************)
(* A process that serves requests, over the Redis wrapper and the rate     *)
(* limiter: how it starts, as a server or as a serverless function that    *)
(* connects during its first requests; the health check; and the shutdown  *)
(* of the server when it gets a signal.                                    *)
(*                                                                         *)
(* What handlers do behind the limiter is in the modules of their own; of  *)
(* RabbitMQ there is the one connection that clicks are written to.        *)
(***************************************************************************)
EXTENDS RateLimit

CONSTANTS
    Main,       \* the connection that bootstrap makes
    Signals,
    Workloads   \* bound: the entries, routes and signals that occur together

\* How the process starts: server.ts, or index.ts with a Redis or without.
Entries == {"server", "serverless", "placeholder"}

ASSUME ServiceAssumption ==
    /\ Clients = Requests \union {Main} /\ Main \notin Requests
    /\ \A w \in Workloads : w.entry \in Entries /\ w.routes \subseteq Kinds

VARIABLES
    load,       \* the workload of this behaviour
    stage,      \* how far it is
    listening,  \* whether the server takes new requests
    shut,       \* shut[s]: the step of the shutdown that signal s began
    exitCode,
    cut,        \* history: the requests that the end of the process cut off
                \* between their INCR and their PEXPIRE
    rabbit,     \* whether RabbitMQ is connected
    channel,    \* the channel that clicks are published on: closed also when
                \* its close() has begun
    rabbitSeen, \* rabbitSeen[r]: what health check r was told about it
    click       \* click[r]: where the click of redirect r is

process == <<exitCode, cut>>
service == <<load, stage, listening, shut, exitCode, cut, rabbit, channel, rabbitSeen, click>>
vars == <<client, isAvailable, everConnected, link, times, manuallyClosing, redisUp, faults,
          now, pc, kind, ip, window, conn, answer, counter, expireAt,
          knew, counted, lost, broken,
          load, stage, listening, shut, exitCode, cut, rabbit, channel, rabbitSeen, click>>

Stages == {"database", "redis", "wait", "rabbit", "lazy", "initialized"}

Steps == {"idle", "closing", "redis", "quit", "rabbit", "publish", "consume", "connection",
          "exit"}

TypeOK ==
    /\ RedisTypeOK
    /\ LimitTypeOK
    /\ load \in Workloads
    /\ stage \in Stages
    /\ listening \in BOOLEAN
    /\ shut \in [Signals -> Steps]
    /\ exitCode \in {"none", "0", "1"}
    /\ cut \in SUBSET Requests
    /\ rabbit \in BOOLEAN
    /\ channel \in {"none", "open", "closed"}
    /\ rabbitSeen \in [Requests -> BOOLEAN]
    /\ click \in [Requests -> {"none", "buffered", "sent", "dropped"}]

Init ==
    /\ RedisInit
    /\ LimitInit
    /\ load \in Workloads
    /\ stage = IF load.entry = "server" THEN "database" ELSE "lazy"
    /\ listening = (load.entry # "server")
    /\ shut = [s \in Signals |-> "idle"]
    /\ exitCode = "none"
    /\ cut = {}
    /\ rabbit = FALSE
    /\ channel = "none"
    /\ rabbitSeen = [r \in Requests |-> FALSE]
    /\ click = [r \in Requests |-> "none"]

\* Requests, counters and clicks stay as they are.
Idle == UNCHANGED <<limiter, rabbitSeen, click>>

\* The process ends, and with it every request in progress.  A command that
\* Redis executes after that is as if it had executed it just before.
Die(code) ==
    /\ exitCode' = code
    /\ cut' = {r \in Requests : pc[r] = "pexpire"}
    /\ pc' = [r \in Requests |-> IF pc[r] \in {"idle", "done"} THEN pc[r] ELSE "dead"]
    /\ UNCHANGED <<now, kind, ip, window, conn, answer, counters, knew, counted, broken,
                   rabbitSeen, click>>

-----------------------------------------------------------------------------
(* The start of the server. *)

BootDatabase ==
    /\ stage = "database"
    /\ \/ stage' = "redis" /\ UNCHANGED process /\ Idle
       \/ Die("1") /\ UNCHANGED stage
    /\ UNCHANGED <<redis, load, listening, shut, rabbit, channel>>

BootRedis ==
    /\ stage = "redis"
    /\ NewClient(Main)
    /\ stage' = "wait"
    /\ UNCHANGED <<load, listening, shut, process, rabbit, channel>> /\ Idle

\* connect() returns at the first success or failure of its connection.
Settled(c) == link[c] # "connecting"

BootWait ==
    /\ stage = "wait" /\ Settled(Main)
    /\ stage' = "rabbit"
    /\ UNCHANGED <<redis, load, listening, shut, process, rabbit, channel>> /\ Idle

\* RabbitMQ may be down; the server listens all the same.
BootRabbit ==
    /\ stage = "rabbit"
    /\ rabbit' \in BOOLEAN
    /\ channel' = IF rabbit' THEN "open" ELSE "none"
    /\ stage' = "initialized"
    /\ listening' = TRUE
    /\ UNCHANGED <<redis, load, shut, process>> /\ Idle

-----------------------------------------------------------------------------
(* Requests. *)

At(r, p) == pc' = [pc EXCEPT ![r] = p]

\* The health router comes before the initialisation of index.ts.
Arrive(r, k) ==
    /\ listening
    /\ pc[r] = "idle"
    /\ kind' = [kind EXCEPT ![r] = k]
    /\ At(r, IF stage = "initialized" \/ k = "health" THEN "route" ELSE "db")
    /\ knew' = IF everConnected THEN knew \union {r} ELSE knew
    /\ UNCHANGED <<redis, now, ip, window, conn, answer, counters, counted, broken, service>>

\* index.ts: the database is connected, or is not: the request goes on.
LazyDatabase(r) ==
    /\ pc[r] = "db"
    /\ At(r, "redis")
    /\ UNCHANGED <<redis, now, kind, ip, window, conn, answer, counters, knew, counted,
                   broken, service>>

\* Every request that found initialized false makes a connection of its own.
LazyRedis(r) ==
    /\ pc[r] = "redis"
    /\ IF load.entry = "serverless"
         THEN NewClient(r) /\ At(r, "wait") /\ UNCHANGED stage
         ELSE stage' = "initialized" /\ At(r, "route") /\ UNCHANGED redis
    /\ UNCHANGED <<now, kind, ip, window, conn, answer, counters, knew, counted, broken,
                   load, listening, shut, process, rabbit, channel, rabbitSeen, click>>

\* The race: connect() has returned, or its three seconds are over.
LazyWait(r) ==
    /\ pc[r] = "wait"
    /\ stage' = "initialized"
    /\ At(r, "route")
    /\ UNCHANGED <<redis, now, kind, ip, window, conn, answer, counters, knew, counted,
                   broken, load, listening, shut, process, rabbit, channel, rabbitSeen, click>>

\* A redirect: the answer, then the event of its click.
Redirect(r) ==
    /\ pc[r] = "route" /\ kind[r] = "redirect"
    /\ Answer(r, "served")
    /\ click' = [click EXCEPT ![r] = IF rabbit THEN "buffered" ELSE "dropped"]
    /\ UNCHANGED <<redis, now, kind, ip, window, conn, counters, knew, counted, broken,
                   load, stage, listening, shut, process, rabbit, channel, rabbitSeen>>

-----------------------------------------------------------------------------
(* The health check: RabbitMQ by its flag, Redis by a PING, the database by *)
(* a query, at once.                                                        *)

Verdict(database, up) ==
    IF ~database THEN "unhealthy" ELSE IF up THEN "healthy" ELSE "degraded"

Health(r) ==
    /\ pc[r] = "route" /\ kind[r] = "health"
    /\ rabbitSeen' = [rabbitSeen EXCEPT ![r] = rabbit]
    /\ IF getClient = NoClient
         THEN (\E database \in BOOLEAN : Answer(r, Verdict(database, FALSE))) /\ UNCHANGED conn
         ELSE conn' = [conn EXCEPT ![r] = getClient] /\ At(r, "ping") /\ UNCHANGED answer
    /\ UNCHANGED <<redis, now, kind, ip, window, counters, knew, counted, broken,
                   load, stage, listening, shut, process, rabbit, channel, click>>

Pong(r) ==
    /\ pc[r] = "ping"
    /\ \E database \in BOOLEAN :
         \/ Reaches(r) /\ Answer(r, Verdict(database, rabbitSeen[r]))
         \/ Disconnected(conn[r]) /\ Answer(r, Verdict(database, FALSE))
    /\ UNCHANGED <<redis, now, kind, ip, window, conn, counters, knew, counted, broken, service>>

-----------------------------------------------------------------------------
(* RabbitMQ. *)

Flush(c) == [r \in Requests |-> IF c[r] = "buffered" THEN "sent" ELSE c[r]]

RabbitWrites ==
    /\ rabbit
    /\ click' = Flush(click) /\ click' # click
    /\ UNCHANGED <<redis, limiter, load, stage, listening, shut, process, rabbit, channel, rabbitSeen>>

RabbitDrops ==
    /\ rabbit /\ Fault
    /\ rabbit' = FALSE
    /\ channel' = "closed"
    /\ click' = [r \in Requests |-> IF click[r] = "buffered" THEN "dropped" ELSE click[r]]
    /\ UNCHANGED <<client, isAvailable, everConnected, link, times, manuallyClosing, redisUp,
                   limiter, load, stage, listening, shut, process, rabbitSeen>>

-----------------------------------------------------------------------------
(* The shutdown.  Every signal begins one. *)

Signal(s) ==
    /\ load.entry = "server" /\ stage = "initialized"
    /\ s \in load.signals /\ shut[s] = "idle"
    /\ shut' = [shut EXCEPT ![s] = "closing"]
    /\ listening' = FALSE
    /\ UNCHANGED <<redis, load, stage, process, rabbit, channel>> /\ Idle

\* Mutant: the requests in progress are not waited for.
CloseAtOnce(s) ==
    /\ shut[s] = "closing"
    /\ shut' = [shut EXCEPT ![s] = "redis"]
    /\ UNCHANGED <<redis, load, stage, listening, process, rabbit, channel>> /\ Idle

\* server.close calls back when all requests are answered; the database is
\* disconnected.
ServerClosed(s) ==
    /\ shut[s] = "closing"
    /\ \A r \in Requests : pc[r] \in {"idle", "done"}
    /\ shut' = [shut EXCEPT ![s] = "redis"]
    /\ UNCHANGED <<redis, load, stage, listening, process, rabbit, channel>> /\ Idle

Goes(s, step) == shut' = [shut EXCEPT ![s] = step]

\* redisClient.disconnect().  A QUIT that is rejected is an unhandled rejection.
CloseRedis(s) ==
    /\ shut[s] = "redis"
    /\ \/ SendQuit /\ Goes(s, "quit") /\ UNCHANGED process /\ Idle
       \/ QuitOffline /\ Goes(s, "rabbit") /\ UNCHANGED process /\ Idle
       \/ QuitRejected /\ Die("1") /\ UNCHANGED <<redis, shut>>
    /\ UNCHANGED <<load, stage, listening, rabbit, channel>>

RedisClosed(s) ==
    /\ shut[s] = "quit"
    /\ \/ QuitAnswered /\ Goes(s, "rabbit") /\ UNCHANGED process /\ Idle
       \/ QuitRejected /\ Die("1") /\ UNCHANGED <<redis, shut>>
    /\ UNCHANGED <<load, stage, listening, rabbit, channel>>

\* rabbitmqClient.disconnect().  On a channel that another shutdown is closing,
\* or that was lost with its connection, close() throws at once, and what it
\* throws is only logged.
CloseRabbit(s) ==
    /\ shut[s] = "rabbit"
    /\ IF channel = "open" THEN channel' = "closed" /\ Goes(s, "publish")
                            ELSE Goes(s, "exit") /\ UNCHANGED channel
    /\ UNCHANGED <<redis, load, stage, listening, process, rabbit>> /\ Idle

\* The answer of RabbitMQ comes behind the clicks on the channel.
ChannelClosed(s) ==
    /\ shut[s] = "publish" /\ rabbit
    /\ click' = Flush(click)
    /\ Goes(s, "consume")
    /\ UNCHANGED <<redis, limiter, load, stage, listening, process, rabbit, channel, rabbitSeen>>

\* The second channel, then the connection.
ConsumerClosed(s) ==
    /\ shut[s] = "consume" /\ rabbit
    /\ Goes(s, "connection")
    /\ UNCHANGED <<redis, load, stage, listening, process, rabbit, channel>> /\ Idle

RabbitClosed(s) ==
    /\ shut[s] = "connection" /\ rabbit
    /\ rabbit' = FALSE
    /\ Goes(s, "exit")
    /\ UNCHANGED <<redis, load, stage, listening, process, channel>> /\ Idle

\* The connection was lost in the middle of it: a close() fails.
CloseFails(s) ==
    /\ shut[s] \in {"publish", "consume", "connection"} /\ ~rabbit
    /\ Goes(s, "exit")
    /\ UNCHANGED <<redis, load, stage, listening, process, rabbit, channel>> /\ Idle

Exit(s) ==
    /\ shut[s] = "exit"
    /\ Die("0")
    /\ UNCHANGED <<redis, load, stage, listening, shut, rabbit, channel>>

\* Ten seconds after the signal, whatever is in progress.
ForcedExit(s) ==
    /\ shut[s] # "idle"
    /\ Die("1")
    /\ UNCHANGED <<redis, load, stage, listening, shut, rabbit, channel>>

-----------------------------------------------------------------------------

Boot == BootDatabase \/ BootRedis \/ BootWait \/ BootRabbit

Connection(c) == OnConnect(c) \/ OnReady(c) \/ AttemptFails(c) \/ Drops(c)

RedisEvent ==
    \/ (\E c \in Clients : Connection(c)) /\ UNCHANGED <<limiter, service>>
    \/ (RedisStops \/ RedisStarts) /\ UNCHANGED <<limiter, service>>
    \/ (\E k \in Keys : Forget(k)) /\ UNCHANGED service
    \/ Tick /\ UNCHANGED service

Proceed(r) ==
    \/ LazyDatabase(r) \/ LazyRedis(r) \/ LazyWait(r) \/ Redirect(r) \/ Health(r) \/ Pong(r)
    \/ (LimitBlind(r) \/ Limit(r) \/ Incr(r) \/ Pexpire(r) \/ CommandFails(r)) /\ UNCHANGED service

Shutdown(s) ==
    \/ ServerClosed(s) \/ CloseRedis(s) \/ RedisClosed(s)
    \/ CloseRabbit(s) \/ ChannelClosed(s) \/ ConsumerClosed(s) \/ RabbitClosed(s)
    \/ CloseFails(s) \/ Exit(s) \/ ForcedExit(s)

Next ==
    /\ exitCode = "none"
    /\ \/ Boot
       \/ RedisEvent
       \/ RabbitWrites \/ RabbitDrops
       \/ \E r \in Requests :
            \/ \E k \in load.routes : Arrive(r, k)
            \/ Proceed(r)
            \/ CommandRepeats(r) /\ UNCHANGED service
       \/ \E s \in Signals : Signal(s) \/ Shutdown(s)

Spec == Init /\ [][Next]_vars

-----------------------------------------------------------------------------
(* Properties. *)

\* The requests of key k that were counted and let through in their window.
Admitted(k) == {r \in counted : answer[r] = "admitted" /\ key(r) = k}

\* In one window a limiter counts and lets through at most MAX requests of an
\* address, unless Redis lost the counter: an expiry that is set when the first
\* answer is there, from that moment on, never ends before the window does
\* (rateLimit.middleware.ts 40-49).  Requests whose INCR comes after their
\* window is over start the counter again and are not meant.
AdmittedWithinLimit ==
    \A k \in Keys : k \notin lost => Cardinality(Admitted(k)) <= MAX

Counted(r) == pc[r] = "pexpire" \/ r \in cut \/ answer[r] \in {"admitted", "refused"}

\* The requests that were counted on the same limiter, address and window as r.
CountedWith(r) == {q \in Requests : /\ Counted(q) /\ kind[q] = kind[r]
                                    /\ ip[q] = ip[r] /\ window[q] = window[r]}

\* A request is refused for its number only if more than MAX requests of the
\* same address were counted in the same window: not for the requests of
\* others, nor for those of another window.  A counter of which a command was
\* repeated or failed may count more than there was.
RefusedOnlyOverLimit ==
    \A r \in Requests :
        answer[r] = "refused" =>
            key(r) \in broken \/ Cardinality(CountedWith(r)) > MAX

\* A counter is left in Redis for good only when INCR and PEXPIRE, two commands
\* (rateLimit.middleware.ts 44-49), came apart: one of them failed or was sent
\* twice, Redis came back with an older state, or the process ended between them;
\* else the request that is to set the expiry is there.  A shutdown that ends
\* with 0 never cuts them apart, one that is forced after ten seconds or ended by
\* a rejected QUIT may.
CountersExpire ==
    \A k \in Keys :
        counter[k] > 0 /\ expireAt[k] = Never =>
            \/ k \in broken \union lost
            \/ \E r \in Requests : /\ key(r) = k
                                  /\ \/ pc[r] = "pexpire"
                                     \/ r \in cut /\ exitCode = "1"

\* Once Redis was reached, no register or login request is let through without
\* being counted, whatever Redis does from then on and wherever it fails
\* (rateLimit.middleware.ts 29, 67-70).  Before, they all are.
FailsClosed ==
    \A r \in knew : kind[r] = "auth" => answer[r] # "uncounted"

\* The flag of the wrapper tells whether its connection is open, and is down
\* before that only on a connection that was told to quit, as long as there is
\* one connection: in server.ts always.  The requests that index.ts begins with
\* may make several, the events of which write the one flag.
FlagsFollowOneConnection ==
    Cardinality(Made) = 1 =>
        /\ isAvailable => Open(client)
        /\ Open(client) => isAvailable \/ client \in manuallyClosing

\* The server that exits with 0 has answered all its requests, however many
\* signals began a shutdown; and no click of theirs is left in its buffer,
\* unless another shutdown is waiting at that moment for the channel to close:
\* on the channel it is closing, the close() of a second one throws at once, and
\* the process exits before the first has written the clicks
\* (server.ts 63-69, rabbitmq.client.ts 185-195).  Clicks that were dropped
\* because RabbitMQ was not connected, or that were lost with its connection,
\* are not meant.
CleanExit ==
    exitCode = "0" =>
        /\ \A r \in Requests : pc[r] \in {"idle", "done"}
        /\ (\E r \in Requests : click[r] = "buffered") => \E s \in Signals : shut[s] = "publish"

=============================================================================
