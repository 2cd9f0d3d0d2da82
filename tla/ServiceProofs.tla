---------------------------- MODULE ServiceProofs ----------------------------
(***************************************************************************)
(* Proofs about Service, for any number of requests, addresses,            *)
(* connections, signals and faults.                                        *)
(***************************************************************************)
EXTENDS Service, FiniteSetTheorems, TLAPS

-----------------------------------------------------------------------------
(* Types. *)

\* What the limiter does is done for requests it counts, on a connection.
KindInv ==
    \A r \in Requests :
        /\ pc[r] \in {"incr", "pexpire"} => kind[r] \in Limiters
        /\ pc[r] \in {"incr", "pexpire", "ping"} => conn[r] \in Clients

TypeInv == TypeOK /\ KindInv

\* Division by the length of the window.
LEMMA WindowOfZero == windowAt(0) = 0 /\ 0 \in Windows
<1>1. windowAt(0) = 0
    BY LimitAssumption DEF windowAt
<1>2. QED
    BY <1>1, LimitAssumption DEF Windows

LEMMA WindowMonotone ==
    ASSUME NEW s \in Nat, NEW t \in Nat, s <= t
    PROVE  windowAt(s) \in Nat /\ windowAt(s) <= windowAt(t)
BY LimitAssumption DEF windowAt

LEMMA WindowAfter ==
    ASSUME NEW t \in Nat
    PROVE  windowAt(t + WINDOW) = windowAt(t) + 1
BY LimitAssumption DEF windowAt

LEMMA TypeInit == Init => TypeInv
<1> SUFFICES ASSUME Init PROVE TypeInv
    OBVIOUS
<1>1. RedisTypeOK
    <2>1. link \in [Clients -> Statuses] /\ times \in [Clients -> 0 .. MAX_RETRIES]
        BY RedisAssumption DEF Init, RedisInit, Statuses
    <2>2. client \in Clients \union {NoClient} /\ faults \in 0 .. MaxFaults
        BY RedisAssumption DEF Init, RedisInit
    <2>3. QED
        BY <2>1, <2>2 DEF Init, RedisInit, RedisTypeOK
<1>2. LimitTypeOK
    BY WindowOfZero, LimitAssumption DEF Init, LimitInit, LimitTypeOK, Points, Answers
<1>3. KindInv
    BY DEF Init, LimitInit, KindInv
<1>4. QED
    BY <1>1, <1>2, <1>3 DEF Init, TypeInv, TypeOK, Stages, Steps

\* The key of a request that the limiter counts.
LEMMA KeyType ==
    ASSUME TypeInv, NEW r \in Requests, pc[r] \in {"incr", "pexpire"}
    PROVE  key(r) \in Keys /\ conn[r] \in Clients
BY DEF TypeInv, TypeOK, LimitTypeOK, KindInv, key, Keys

Quitting == SendQuit \/ QuitAnswered \/ QuitOffline

UnchangedClient ==
    UNCHANGED <<client, isAvailable, everConnected, link, times, manuallyClosing, redisUp>>

\* What the events of a connection do to the wrapper keeps its types.
LEMMA RedisTypes ==
    ASSUME RedisTypeOK, NEW c \in Clients,
           \/ NewClient(c) \/ Connection(c) \/ RedisStops \/ RedisStarts \/ Quitting
           \/ OnClose(c) /\ Fault /\ UNCHANGED redisUp
           \/ UnchangedClient /\ Fault
    PROVE  RedisTypeOK'
<1> USE DEF NewClient, Connection, OnConnect, OnReady, AttemptFails, Drops, OnClose,
            RedisStops, RedisStarts, Quitting, SendQuit, QuitAnswered, QuitOffline, UnchangedClient
<1>1. link' \in [Clients -> Statuses]
    BY DEF RedisTypeOK, Statuses, Retry
<1>2. times' \in [Clients -> 0 .. MAX_RETRIES]
    <2>1. Retry(c) \/ times' = [times EXCEPT ![c] = 0] \/ UNCHANGED times
        OBVIOUS
    <2>2. Retry(c) => \/ times[c] < MAX_RETRIES /\ times' = [times EXCEPT ![c] = times[c] + 1]
                      \/ times' = [times EXCEPT ![c] = times[c]]
        BY DEF Retry, retries
    <2>3. times \in [Clients -> 0 .. MAX_RETRIES]
        BY DEF RedisTypeOK
    <2> HIDE DEF NewClient, Connection, OnConnect, OnReady, AttemptFails, Drops, OnClose,
                 RedisStops, RedisStarts, Quitting, SendQuit, QuitAnswered, QuitOffline,
                 UnchangedClient
    <2>4. QED
        BY <2>1, <2>2, <2>3, RedisAssumption
<1>3. client' \in Clients \union {NoClient}
    BY DEF RedisTypeOK
<1>4. isAvailable' \in BOOLEAN /\ everConnected' \in BOOLEAN /\ redisUp' \in BOOLEAN
    BY DEF RedisTypeOK
<1>5. faults' \in 0 .. MaxFaults
    <2>1. Fault \/ UNCHANGED faults
        OBVIOUS
    <2>2. faults \in 0 .. MaxFaults
        BY DEF RedisTypeOK
    <2> HIDE DEF NewClient, Connection, OnConnect, OnReady, AttemptFails, Drops, OnClose,
                 RedisStops, RedisStarts, Quitting, SendQuit, QuitAnswered, QuitOffline,
                 UnchangedClient
    <2>3. QED
        BY <2>1, <2>2, RedisAssumption DEF Fault
<1>6. manuallyClosing' \in SUBSET Clients
    BY DEF RedisTypeOK, Retry
<1>7. QED
    BY <1>1, <1>2, <1>3, <1>4, <1>5, <1>6 DEF RedisTypeOK

\* The steps that change the wrapper.
LEMMA RedisSteps ==
    ASSUME TypeInv, Next
    PROVE  \/ UNCHANGED redis
           \/ \E c \in Clients :
                \/ NewClient(c) \/ Connection(c) \/ RedisStops \/ RedisStarts \/ Quitting
                \/ Open(c) /\ OnClose(c) /\ Fault /\ UNCHANGED redisUp
                \/ UnchangedClient /\ Fault
<1>0. Main \in Clients /\ Requests \subseteq Clients
    BY ServiceAssumption
<1>1. ASSUME Boot PROVE UNCHANGED redis \/ \E c \in Clients : NewClient(c)
    BY <1>0, <1>1 DEF Boot, BootDatabase, BootRedis, BootWait, BootRabbit
<1>2. CASE RedisEvent
    BY <1>0, <1>2 DEF RedisEvent, Forget, Tick
<1>3. CASE RabbitWrites \/ RabbitDrops
    BY <1>0, <1>3 DEF RabbitWrites, RabbitDrops, UnchangedClient
<1>4. ASSUME NEW r \in Requests, NEW k \in load.routes, Arrive(r, k) PROVE UNCHANGED redis
    BY <1>4 DEF Arrive
<1>5. ASSUME NEW r \in Requests, Proceed(r)
      PROVE  UNCHANGED redis \/ \E c \in Clients : NewClient(c)
    BY <1>0, <1>5
    DEF Proceed, LazyDatabase, LazyRedis, LazyWait, Redirect, Health, Pong, LimitBlind, Limit,
        Incr, Pexpire, CommandFails
<1>6. ASSUME NEW r \in Requests, CommandRepeats(r)
      PROVE  \E c \in Clients : Open(c) /\ OnClose(c) /\ Fault /\ UNCHANGED redisUp
    BY <1>6, KeyType DEF CommandRepeats, Reaches, Open
<1>7. ASSUME NEW s \in Signals, Signal(s) \/ Shutdown(s) PROVE UNCHANGED redis \/ Quitting
    BY <1>7
    DEF Signal, Shutdown, ServerClosed, CloseRedis, RedisClosed, CloseRabbit, ChannelClosed,
        ConsumerClosed, RabbitClosed, CloseFails, Exit, ForcedExit, Quitting
<1>8. QED
    BY <1>0, <1>1, <1>2, <1>3, <1>4, <1>5, <1>6, <1>7 DEF Next

-----------------------------------------------------------------------------
(* The steps that change the limiter. *)

\* Those that are not of the limiter itself: an arrival, the steps before it,
\* and the routes without it.
Elsewhere(r) ==
    \/ \E k \in Kinds : Arrive(r, k)
    \/ LazyDatabase(r) \/ LazyRedis(r) \/ LazyWait(r) \/ Redirect(r) \/ Health(r) \/ Pong(r)

Dies == \E code \in {"0", "1"} : Die(code)

\* Every step either ends the process or leaves its end alone.
LEMMA LimitSteps ==
    ASSUME TypeInv, Next
    PROVE  \/ Dies
           \/ /\ UNCHANGED process
              /\ \/ UNCHANGED limiter
                 \/ Tick
                 \/ \E k \in Keys : Forget(k)
                 \/ \E r \in Requests :
                      \/ Elsewhere(r) \/ LimitBlind(r) \/ Limit(r) \/ Incr(r) \/ Pexpire(r)
                      \/ CommandRepeats(r) \/ CommandFails(r)
<1>1. load.routes \subseteq Kinds
    BY ServiceAssumption DEF TypeInv, TypeOK
<1>2. ASSUME Boot \/ RabbitWrites \/ RabbitDrops PROVE UNCHANGED <<process, limiter>> \/ Dies
    BY <1>2
    DEF Boot, BootDatabase, BootRedis, BootWait, BootRabbit, RabbitWrites, RabbitDrops, Idle, Dies
<1>3. ASSUME NEW s \in Signals, Signal(s) \/ Shutdown(s)
      PROVE  UNCHANGED <<process, limiter>> \/ Dies
    BY <1>3
    DEF Signal, Shutdown, ServerClosed, CloseRedis, RedisClosed, CloseRabbit, ChannelClosed,
        ConsumerClosed, RabbitClosed, CloseFails, Exit, ForcedExit, Idle, Dies
<1>4. ASSUME RedisEvent
      PROVE  UNCHANGED process /\ (UNCHANGED limiter \/ Tick \/ \E k \in Keys : Forget(k))
    BY <1>4 DEF RedisEvent, service, process
<1>5. ASSUME NEW r \in Requests, Elsewhere(r) PROVE UNCHANGED process
    BY <1>5
    DEF Elsewhere, Arrive, LazyDatabase, LazyRedis, LazyWait, Redirect, Health, Pong, service, process
<1>6. UNCHANGED service => UNCHANGED process
    BY DEF service, process
<1>7. ASSUME NEW r \in Requests,
             \/ \E k \in load.routes : Arrive(r, k)
             \/ Proceed(r)
             \/ CommandRepeats(r) /\ UNCHANGED service
      PROVE  /\ UNCHANGED process
             /\ \/ Elsewhere(r) \/ LimitBlind(r) \/ Limit(r) \/ Incr(r) \/ Pexpire(r)
                \/ CommandRepeats(r) \/ CommandFails(r)
    BY <1>1, <1>5, <1>6, <1>7 DEF Proceed, Elsewhere
<1>8. QED
    BY <1>2, <1>3, <1>4, <1>7 DEF Next

LEMMA IncrementTypes ==
    ASSUME TypeInv, NEW r \in Requests, Increment(r)
    PROVE  counter' \in [Keys -> Nat] /\ counted' \in SUBSET Requests
<1> DEFINE k == key(r)
<1>1. counter \in [Keys -> Nat] /\ counter' = [counter EXCEPT ![k] = counter[k] + 1]
    BY DEF TypeInv, TypeOK, LimitTypeOK, Increment
<1>2. k \in Keys => counter[k] + 1 \in Nat
    BY <1>1
<1> HIDE DEF k
<1>3. counter' \in [Keys -> Nat]
    BY <1>1, <1>2
<1>4. QED
    BY <1>3 DEF TypeInv, TypeOK, LimitTypeOK, Increment

LEMMA SetExpiryTypes ==
    ASSUME TypeInv, NEW r \in Requests, SetExpiry(r)
    PROVE  expireAt' \in [Keys -> Nat \union {Never}]
<1> DEFINE k == key(r)
           t == now + WINDOW
<1>1. t \in Nat
    BY LimitAssumption DEF TypeInv, TypeOK, LimitTypeOK
<1>2. /\ expireAt \in [Keys -> Nat \union {Never}]
      /\ expireAt' = expireAt \/ expireAt' = [expireAt EXCEPT ![k] = t]
    BY DEF TypeInv, TypeOK, LimitTypeOK, SetExpiry
<1> HIDE DEF k, t
<1>3. QED
    BY <1>1, <1>2

LEMMA LimitTypes ==
    ASSUME TypeInv, Next
    PROVE  LimitTypeOK' /\ KindInv'
<1> USE DEF TypeInv, TypeOK, LimitTypeOK, KindInv
<1>1. ASSUME UNCHANGED limiter PROVE LimitTypeOK' /\ KindInv'
    BY <1>1 DEF limiter
<1>2. ASSUME Tick PROVE LimitTypeOK' /\ KindInv'
    <2>1. now' \in 0 .. MaxTime
        BY <1>2, LimitAssumption DEF Tick
    <2>2. counter' \in [Keys -> Nat] /\ expireAt' \in [Keys -> Nat \union {Never}]
        BY <1>2 DEF Tick
    <2>3. QED
        BY <1>2, <2>1, <2>2 DEF Tick
<1>3. ASSUME NEW k \in Keys, Forget(k) PROVE LimitTypeOK' /\ KindInv'
    <2>1. counter' \in [Keys -> Nat]
        <3>1. PICK n \in 0 .. counter[k] : counter' = [counter EXCEPT ![k] = n]
            BY <1>3 DEF Forget
        <3>2. n \in Nat
            OBVIOUS
        <3>3. QED
            BY <3>1, <3>2
    <2>2. expireAt' \in [Keys -> Nat \union {Never}]
        BY <1>3 DEF Forget
    <2>3. QED
        BY <1>3, <2>1, <2>2 DEF Forget
<1>4. ASSUME NEW r \in Requests, Elsewhere(r) PROVE LimitTypeOK' /\ KindInv'
    BY <1>4, RedisAssumption
    DEF Elsewhere, Arrive, LazyDatabase, LazyRedis, LazyWait, Redirect, Health, Pong, At, Answer,
        counters, Points, Answers, Verdict, getClient, RedisTypeOK
<1>5. ASSUME NEW r \in Requests, LimitBlind(r) PROVE LimitTypeOK' /\ KindInv'
    BY <1>5 DEF LimitBlind, Answer, counters, Points, Answers
<1>6. ASSUME NEW r \in Requests, Limit(r) PROVE LimitTypeOK' /\ KindInv'
    <2>1. windowAt(now) \in Windows
        BY DEF Windows
    <2>2. getClient \in Clients
        BY <1>6 DEF Limit, getClient, RedisTypeOK
    <2>3. QED
        BY <1>6, <2>1, <2>2 DEF Limit, counters, Points
<1>7. ASSUME NEW r \in Requests, Incr(r) PROVE LimitTypeOK' /\ KindInv'
    <2>1. counter' \in [Keys -> Nat] /\ counted' \in SUBSET Requests
        BY <1>7, IncrementTypes DEF Incr
    <2>2. QED
        BY <1>7, <2>1 DEF Incr, Answer, Points, Answers
<1>8. ASSUME NEW r \in Requests, Pexpire(r) PROVE LimitTypeOK' /\ KindInv'
    <2>1. expireAt' \in [Keys -> Nat \union {Never}]
        BY <1>8, SetExpiryTypes DEF Pexpire
    <2>2. QED
        BY <1>8, <2>1 DEF Pexpire, Answer, Points, Answers
<1>9. ASSUME NEW r \in Requests, CommandRepeats(r) PROVE LimitTypeOK' /\ KindInv'
    <2>1. key(r) \in Keys
        BY <1>9, KeyType DEF CommandRepeats
    <2>2. counter' \in [Keys -> Nat] /\ counted' \in SUBSET Requests
        BY <1>9, IncrementTypes DEF CommandRepeats
    <2>3. expireAt' \in [Keys -> Nat \union {Never}]
        BY <1>9, SetExpiryTypes DEF CommandRepeats
    <2>4. QED
        BY <1>9, <2>1, <2>2, <2>3 DEF CommandRepeats
<1>10. ASSUME NEW r \in Requests, CommandFails(r) PROVE LimitTypeOK' /\ KindInv'
    <2>1. key(r) \in Keys
        BY <1>10, KeyType DEF CommandFails
    <2>2. QED
        BY <1>10, <2>1 DEF CommandFails, Answer, counters, Points, Answers
<1>11. ASSUME Dies PROVE LimitTypeOK' /\ KindInv'
    BY <1>11 DEF Dies, Die, counters, Points
<1>12. QED
    BY <1>1, <1>2, <1>3, <1>4, <1>5, <1>6, <1>7, <1>8, <1>9, <1>10, <1>11, LimitSteps

-----------------------------------------------------------------------------
(* Type correctness. *)

ServiceOK ==
    /\ load \in Workloads /\ stage \in Stages /\ listening \in BOOLEAN
    /\ shut \in [Signals -> Steps]
    /\ exitCode \in {"none", "0", "1"} /\ cut \in SUBSET Requests
    /\ rabbit \in BOOLEAN
    /\ channel \in {"none", "open", "closed"}
    /\ rabbitSeen \in [Requests -> BOOLEAN]
    /\ click \in [Requests -> {"none", "buffered", "sent", "dropped"}]

LEMMA ServiceTypes ==
    ASSUME TypeOK, Next
    PROVE  ServiceOK'
<1>0. ServiceOK
    BY DEF TypeOK, ServiceOK
<1> USE DEF ServiceOK
<1>1. ASSUME UNCHANGED service PROVE ServiceOK'
    BY <1>0, <1>1 DEF service
<1>2. ASSUME Boot PROVE ServiceOK'
    BY <1>0, <1>2
    DEF Boot, BootDatabase, BootRedis, BootWait, BootRabbit, Idle, Die, Stages, process
<1>3. ASSUME RabbitWrites \/ RabbitDrops PROVE ServiceOK'
    BY <1>0, <1>3 DEF RabbitWrites, RabbitDrops, Flush, process
<1>4. ASSUME NEW r \in Requests, Proceed(r) PROVE ServiceOK'
    <2>1. CASE LazyRedis(r) \/ LazyWait(r)
        BY <1>0, <2>1 DEF LazyRedis, LazyWait, Stages, process
    <2>2. CASE Redirect(r)
        BY <1>0, <2>2 DEF Redirect, process
    <2>3. CASE Health(r)
        BY <1>0, <2>3 DEF Health, process
    <2>4. QED
        BY <1>1, <1>4, <2>1, <2>2, <2>3 DEF Proceed, LazyDatabase, Pong
<1>5. ASSUME NEW s \in Signals, Signal(s) \/ Shutdown(s) PROVE ServiceOK'
    <2>1. CASE Signal(s) \/ ServerClosed(s) \/ CloseRedis(s) \/ RedisClosed(s)
        BY <1>0, <2>1
        DEF Signal, ServerClosed, CloseRedis, RedisClosed, Goes, Idle, Die, Steps, process
    <2>2. CASE CloseRabbit(s) \/ ChannelClosed(s) \/ ConsumerClosed(s) \/ RabbitClosed(s)
        BY <1>0, <2>2
        DEF CloseRabbit, ChannelClosed, ConsumerClosed, RabbitClosed, Goes, Idle, Flush, Steps,
            process
    <2>3. CASE CloseFails(s) \/ Exit(s) \/ ForcedExit(s)
        BY <1>0, <2>3 DEF CloseFails, Exit, ForcedExit, Goes, Idle, Die, Steps, process
    <2>4. QED
        BY <1>5, <2>1, <2>2, <2>3 DEF Shutdown
<1>6. QED
    BY <1>1, <1>2, <1>3, <1>4, <1>5 DEF Next, RedisEvent, Arrive

LEMMA TypeStep == TypeInv /\ [Next]_vars => TypeInv'
<1> SUFFICES ASSUME TypeInv, [Next]_vars PROVE TypeInv'
    OBVIOUS
<1>1. CASE Next
    <2>1. RedisTypeOK'
        BY <1>1, RedisSteps, RedisTypes DEF TypeInv, TypeOK, RedisTypeOK, redis
    <2>2. LimitTypeOK' /\ KindInv'
        BY <1>1, LimitTypes
    <2>3. ServiceOK'
        BY <1>1, ServiceTypes DEF TypeInv
    <2>4. QED
        BY <2>1, <2>2, <2>3 DEF TypeInv, TypeOK, ServiceOK
<1>2. CASE UNCHANGED vars
    BY <1>2 DEF vars, TypeInv, TypeOK, RedisTypeOK, LimitTypeOK, KindInv
<1>3. QED
    BY <1>1, <1>2

\* Every state of the process has its types, and the limiter sends commands
\* for the requests it counts only, on connections that were made.
THEOREM TypesHold == Spec => [](TypeOK /\ KindInv)
<1>1. Spec => []TypeInv
    BY TypeInit, TypeStep, PTL DEF Spec
<1>2. QED
    BY <1>1, PTL DEF TypeInv

-----------------------------------------------------------------------------
(* The flag of the wrapper. *)

\* The first connection is the one in use until there is another.
FlagInv ==
    /\ isAvailable => client # NoClient
    /\ (client = NoClient) <=> (Made = {})
    /\ client # NoClient => client \in Made
    /\ Made = {client} =>
          /\ isAvailable => Open(client)
          /\ Open(client) => isAvailable \/ client \in manuallyClosing

LEMMA FlagInit == Init => FlagInv
BY RedisAssumption DEF Init, RedisInit, FlagInv, Made

LEMMA FlagStep == TypeInv /\ FlagInv /\ [Next]_vars => FlagInv'
<1> SUFFICES ASSUME TypeInv, FlagInv, [Next]_vars PROVE FlagInv'
    OBVIOUS
<1> USE RedisAssumption DEF FlagInv
<1>0. link \in [Clients -> Statuses] /\ client \in Clients \union {NoClient} /\ isAvailable \in BOOLEAN
    BY DEF TypeInv, TypeOK, RedisTypeOK
<1>1. CASE UNCHANGED <<client, isAvailable, link, manuallyClosing>>
    BY <1>1 DEF Made, Open
<1>2. ASSUME NEW c \in Clients, NewClient(c) PROVE FlagInv'
    <2>1. Made' = Made \union {c} /\ c \notin Made /\ client' = c /\ UNCHANGED isAvailable
        BY <1>0, <1>2 DEF NewClient, Made
    <2>2. ~Open(c)'
        BY <1>0, <1>2 DEF NewClient, Open
    <2>3. Made' = {c} => ~isAvailable
        BY <1>0, <2>1
    <2>4. QED
        BY <2>1, <2>2, <2>3 
<1>3. ASSUME NEW c \in Clients, OnConnect(c) \/ OnReady(c) PROVE FlagInv'
    <2>1. Made' = Made /\ c \in Made /\ client' = client /\ isAvailable' /\ Open(c)'
        BY <1>0, <1>3 DEF OnConnect, OnReady, Made, Open
    <2>2. QED
        BY <2>1
<1>4. ASSUME NEW c \in Made, OnClose(c) PROVE FlagInv'
    <2>1. Made' = Made /\ c \in Made /\ client' = client /\ ~isAvailable' /\ ~Open(c)'
        BY <1>0, <1>4 DEF OnClose, Retry, Made, Open
    <2>2. QED
        BY <2>1
<1>5. ASSUME Quitting PROVE FlagInv'
    <2>1. Made' = Made /\ client' = client /\ (Open(client)' <=> Open(client))
        BY <1>5 DEF Quitting, SendQuit, QuitAnswered, QuitOffline, Made, Open
    <2>2. CASE SendQuit
        BY <2>1, <2>2 DEF SendQuit
    <2>3. CASE QuitAnswered
        <3>1. ~isAvailable' /\ client \in manuallyClosing /\ UNCHANGED manuallyClosing
            BY <2>3 DEF QuitAnswered
        <3>2. QED
            BY <2>1, <3>1
    <2>4. CASE QuitOffline
        <3>1. ~isAvailable'
            BY <2>4 DEF QuitOffline
        <3>2. client # NoClient => ~Open(client)
            BY <2>4 DEF QuitOffline, Open
        <3>3. QED
            BY <2>1, <3>1, <3>2
    <2>5. QED
        BY <1>5, <2>2, <2>3, <2>4 DEF Quitting
<1>6. ASSUME NEW c \in Clients, \/ AttemptFails(c) \/ Drops(c)
                                \/ Open(c) /\ OnClose(c)
      PROVE  FlagInv'
    <2>1. OnClose(c) /\ c \in Made
        BY <1>6 DEF AttemptFails, Drops, Open, Made
    <2>2. QED
        BY <1>4, <2>1
<1>7. CASE UNCHANGED redis
    BY <1>1, <1>7 DEF redis
<1>8. CASE RedisStops \/ RedisStarts
    BY <1>1, <1>8 DEF RedisStops, RedisStarts
<1>9. CASE UNCHANGED vars
    BY <1>1, <1>9 DEF vars
<1> HIDE DEF FlagInv
<1>10. QED
    BY <1>1, <1>2, <1>3, <1>5, <1>6, <1>7, <1>8, <1>9, RedisSteps DEF Connection, UnchangedClient

LEMMA MadeFinite == IsFiniteSet(Made)
<1>1. IsFiniteSet(Clients)
    BY LimitAssumption, ServiceAssumption, FS_AddElement
<1>2. QED
    BY <1>1, FS_Subset DEF Made

LEMMA FlagEnough == FlagInv => FlagsFollowOneConnection
<1> SUFFICES ASSUME FlagInv, Cardinality(Made) = 1
             PROVE  /\ isAvailable => Open(client)
                    /\ Open(client) => isAvailable \/ client \in manuallyClosing
    BY DEF FlagsFollowOneConnection
<1>1. PICK c : Made = {c}
    BY MadeFinite, FS_Singleton
<1>2. Made = {client}
    BY <1>1 DEF FlagInv
<1>3. QED
    BY <1>2 DEF FlagInv

\* While the process has made one connection only, the flag isAvailable tells
\* whether that connection is open, until it is told to quit.
THEOREM FlagTheorem == Spec => []FlagsFollowOneConnection
<1>1. Spec => [](TypeInv /\ FlagInv)
    BY TypeInit, TypeStep, FlagInit, FlagStep, PTL DEF Spec
<1>2. QED
    BY <1>1, FlagEnough, PTL

-----------------------------------------------------------------------------
(* The shutdown. *)

Quiet == \A r \in Requests : pc[r] \in {"idle", "done"}

NoneBuffered == \A r \in Requests : click[r] # "buffered"

\* A shutdown past server.close finds no request in progress; one that is past
\* the first await of rabbitmqClient.disconnect() finds no click in the buffer,
\* and one that is at its end, that some shutdown has begun to close the channel.
ShutInv ==
    /\ \A s \in Signals :
          /\ shut[s] # "idle" => ~listening /\ stage = "initialized"
          /\ shut[s] \notin {"idle", "closing"} => Quiet
          /\ shut[s] \in {"consume", "connection"} => NoneBuffered
          /\ shut[s] \in {"publish", "consume", "connection", "exit"} => channel # "open"
    /\ rabbit => stage = "initialized"
    /\ rabbit => \/ channel = "open"
                 \/ \E s \in Signals : shut[s] \in {"publish", "consume", "connection", "exit"}
    /\ \/ NoneBuffered
       \/ rabbit /\ (channel = "open" \/ \E s \in Signals : shut[s] = "publish")
    /\ exitCode \in {"none", "0"} => cut = {}
    /\ exitCode = "0" => Quiet /\ \E s \in Signals : shut[s] = "exit"

LEMMA ShutInit == Init => ShutInv
BY DEF Init, ShutInv, NoneBuffered

\* The steps of a shutdown, up to its end.
LEMMA ShutSignal ==
    ASSUME TypeInv, ShutInv, exitCode = "none", NEW s \in Signals,
           \/ Signal(s) \/ ServerClosed(s) \/ CloseRabbit(s) \/ ChannelClosed(s)
           \/ ConsumerClosed(s) \/ RabbitClosed(s) \/ CloseFails(s)
           \/ (CloseRedis(s) \/ RedisClosed(s)) /\ ~QuitRejected
    PROVE  ShutInv'
<1>0. /\ shut \in [Signals -> Steps] /\ click \in [Requests -> {"none", "buffered", "sent", "dropped"}]
      /\ rabbit \in BOOLEAN /\ channel \in {"none", "open", "closed"}
    BY DEF TypeInv, TypeOK
<1>1. CASE Signal(s)
    BY <1>0, <1>1 DEF Signal, Idle, limiter, process, ShutInv, Quiet, NoneBuffered
<1>2. CASE ServerClosed(s)
    BY <1>0, <1>2 DEF ServerClosed, Idle, limiter, process, ShutInv, Quiet, NoneBuffered
<1>3. CASE (CloseRedis(s) \/ RedisClosed(s)) /\ ~QuitRejected
    <2>1. /\ shut[s] \in {"redis", "quit"}
          /\ \E step \in {"quit", "rabbit"} : Goes(s, step)
          /\ UNCHANGED process /\ Idle /\ UNCHANGED <<load, stage, listening, rabbit, channel>>
        BY <1>3 DEF CloseRedis, RedisClosed
    <2>2. QED
        BY <1>0, <2>1 DEF Goes, Idle, limiter, process, ShutInv, Quiet, NoneBuffered
<1>4. CASE CloseRabbit(s)
    <2>1. CASE channel = "open"
        BY <1>0, <1>4, <2>1
        DEF CloseRabbit, Goes, Idle, limiter, process, ShutInv, Quiet, NoneBuffered
    <2>2. CASE channel # "open"
        BY <1>0, <1>4, <2>2
        DEF CloseRabbit, Goes, Idle, limiter, process, ShutInv, Quiet, NoneBuffered
    <2>3. QED
        BY <2>1, <2>2
<1>5. CASE ChannelClosed(s)
    <2>1. NoneBuffered'
        BY <1>0, <1>5 DEF ChannelClosed, Flush, NoneBuffered
    <2>2. QED
        BY <1>0, <1>5, <2>1 DEF ChannelClosed, Goes, limiter, process, ShutInv, Quiet
<1>6. CASE ConsumerClosed(s) \/ RabbitClosed(s)
    <2>1. NoneBuffered /\ UNCHANGED click
        BY <1>6 DEF ConsumerClosed, RabbitClosed, Idle, ShutInv
    <2>2. NoneBuffered'
        BY <2>1 DEF NoneBuffered
    <2>3. QED
        BY <1>0, <1>6, <2>2 DEF ConsumerClosed, RabbitClosed, Goes, Idle, limiter, process, ShutInv, Quiet
<1>7. CASE CloseFails(s)
    <2>1. NoneBuffered /\ UNCHANGED click
        BY <1>7 DEF CloseFails, Idle, ShutInv
    <2>2. NoneBuffered'
        BY <2>1 DEF NoneBuffered
    <2>3. QED
        BY <1>0, <1>7, <2>2 DEF CloseFails, Goes, Idle, limiter, process, ShutInv, Quiet
<1>8. QED
    BY <1>1, <1>2, <1>3, <1>4, <1>5, <1>6, <1>7

\* The end of the process.
LEMMA ShutDies ==
    ASSUME TypeInv, ShutInv, Dies, UNCHANGED <<stage, listening, shut, rabbit, channel>>,
           exitCode' = "0" => \E s \in Signals : shut[s] = "exit"
    PROVE  ShutInv'
<1>1. PICK code \in {"0", "1"} : Die(code)
    BY DEF Dies
<1>2. pc \in [Requests -> Points] /\ UNCHANGED click
    BY <1>1 DEF Die, TypeInv, TypeOK, LimitTypeOK
<1>3. Quiet => Quiet' /\ cut' = {}
    BY <1>1, <1>2 DEF Die, Quiet
<1>4. NoneBuffered' <=> NoneBuffered
    BY <1>2 DEF NoneBuffered
<1>5. exitCode' = "0" => Quiet
    BY DEF ShutInv
<1>6. exitCode' \in {"none", "0"} => exitCode' = "0"
    BY <1>1 DEF Die
<1>7. QED
    BY <1>3, <1>4, <1>5, <1>6 DEF ShutInv

\* The steps of a request.
LEMMA ShutRequest ==
    ASSUME TypeInv, ShutInv, NEW r \in Requests,
           \/ \E k \in load.routes : Arrive(r, k)
           \/ Proceed(r)
           \/ CommandRepeats(r) /\ UNCHANGED service
    PROVE  ShutInv'
<1>0. /\ click \in [Requests -> {"none", "buffered", "sent", "dropped"}] /\ pc \in [Requests -> Points]
    BY DEF TypeInv, TypeOK, LimitTypeOK
<1>1. CASE \E k \in load.routes : Arrive(r, k)
    BY <1>1 DEF Arrive, service, ShutInv, Quiet, NoneBuffered
<1>2. CASE CommandRepeats(r) /\ UNCHANGED service
    BY <1>2 DEF CommandRepeats, service, ShutInv, Quiet, NoneBuffered
<1>3. CASE Proceed(r)
    <2>1. pc[r] \notin {"idle", "done"}
        BY <1>3
        DEF Proceed, LazyDatabase, LazyRedis, LazyWait, Redirect, Health, Pong, LimitBlind, Limit,
            Incr, Pexpire, CommandFails
    <2>2. ~Quiet
        BY <2>1 DEF Quiet
    <2>3. /\ UNCHANGED <<listening, shut, exitCode, cut, rabbit, channel>>
          /\ stage = "initialized" => stage' = "initialized"
        BY <1>3
        DEF Proceed, LazyDatabase, LazyRedis, LazyWait, Redirect, Health, Pong, service, process
    <2>4. UNCHANGED click \/ Redirect(r)
        BY <1>3 DEF Proceed, LazyDatabase, LazyRedis, LazyWait, Health, Pong, service
    <2>5. CASE UNCHANGED click
        BY <2>2, <2>3, <2>5 DEF ShutInv, NoneBuffered
    <2>6. CASE Redirect(r)
        <3>1. \A s \in Signals : shut[s] \in {"idle", "closing"}
            BY <2>2 DEF ShutInv
        <3>2. rabbit => channel = "open"
            BY <3>1 DEF ShutInv
        <3>3. NoneBuffered => NoneBuffered' \/ rabbit
            BY <1>0, <2>6 DEF Redirect, NoneBuffered
        <3>4. QED
            BY <2>2, <2>3, <3>1, <3>2, <3>3 DEF ShutInv
    <2>7. QED
        BY <2>4, <2>5, <2>6
<1>4. QED
    BY <1>1, <1>2, <1>3

LEMMA ShutStep == TypeInv /\ ShutInv /\ [Next]_vars => ShutInv'
<1> SUFFICES ASSUME TypeInv, ShutInv, [Next]_vars PROVE ShutInv'
    OBVIOUS
<1>0. /\ click \in [Requests -> {"none", "buffered", "sent", "dropped"}]
      /\ rabbit \in BOOLEAN
    BY DEF TypeInv, TypeOK
<1>1. ASSUME UNCHANGED <<pc, stage, listening, shut, exitCode, cut, rabbit, channel, click>>
      PROVE  ShutInv'
    BY <1>1 DEF ShutInv, Quiet, NoneBuffered
<1>2. ASSUME exitCode = "none", Boot PROVE ShutInv'
    <2>1. CASE BootDatabase /\ UNCHANGED process
        BY <2>1 DEF BootDatabase, Idle, Die, limiter, process, ShutInv, Quiet, NoneBuffered
    <2>2. CASE BootDatabase /\ Die("1")
        <3>1. Dies /\ UNCHANGED <<stage, listening, shut, rabbit, channel>> /\ exitCode' # "0"
            BY <1>2, <2>2 DEF BootDatabase, Die, Dies, process
        <3>2. QED
            BY <3>1, ShutDies
    <2>3. CASE BootRedis \/ BootWait
        BY <2>3 DEF BootRedis, BootWait, Idle, limiter, process, ShutInv, Quiet, NoneBuffered
    <2>4. CASE BootRabbit
        <3>1. NoneBuffered /\ \A s \in Signals : shut[s] = "idle"
            BY <2>4 DEF BootRabbit, ShutInv
        <3>2. NoneBuffered'
            BY <2>4, <3>1 DEF BootRabbit, Idle, NoneBuffered
        <3>3. QED
            BY <2>4, <3>1, <3>2 DEF BootRabbit, Idle, limiter, process, ShutInv, Quiet
    <2>5. QED
        BY <1>2, <2>1, <2>2, <2>3, <2>4 DEF Boot, BootDatabase
<1>3. CASE RabbitWrites \/ RabbitDrops
    <2>1. NoneBuffered'
        BY <1>0, <1>3 DEF RabbitWrites, RabbitDrops, Flush, NoneBuffered
    <2>2. QED
        BY <1>0, <1>3, <2>1 DEF RabbitWrites, RabbitDrops, limiter, process, ShutInv, Quiet
<1>4. CASE RedisEvent
    BY <1>1, <1>4 DEF RedisEvent, service, limiter, Forget, Tick
<1>5. ASSUME exitCode = "none", NEW s \in Signals, Signal(s) \/ Shutdown(s) PROVE ShutInv'
    <2>1. CASE (CloseRedis(s) \/ RedisClosed(s)) /\ QuitRejected
        <3>1. Dies /\ UNCHANGED <<stage, listening, shut, rabbit, channel>> /\ exitCode' # "0"
            BY <2>1, RedisAssumption
            DEF CloseRedis, RedisClosed, QuitRejected, SendQuit, QuitAnswered, QuitOffline, Open,
                Die, Dies, TypeInv, TypeOK, RedisTypeOK
        <3>2. QED
            BY <3>1, ShutDies
    <2>2. CASE Exit(s) \/ ForcedExit(s)
        <3>1. /\ Dies /\ UNCHANGED <<stage, listening, shut, rabbit, channel>>
              /\ exitCode' = "0" => shut[s] = "exit"
            BY <2>2 DEF Exit, ForcedExit, Die, Dies
        <3>2. QED
            BY <3>1, ShutDies
    <2>3. QED
        BY <1>5, <2>1, <2>2, ShutSignal DEF Shutdown
<1>6. CASE UNCHANGED vars
    BY <1>1, <1>6 DEF vars
<1>7. QED
    BY <1>2, <1>3, <1>4, <1>5, <1>6, ShutRequest DEF Next

LEMMA ShutEnough == ShutInv => CleanExit
BY DEF ShutInv, Quiet, NoneBuffered, CleanExit

\* A server that exits with 0 has answered its requests, and has written its
\* clicks unless another shutdown was still waiting for the channel to close.
THEOREM CleanExitTheorem == Spec => []CleanExit
<1>1. Spec => [](TypeInv /\ ShutInv)
    BY TypeInit, TypeStep, ShutInit, ShutStep, PTL DEF Spec
<1>2. QED
    BY <1>1, ShutEnough, PTL

-----------------------------------------------------------------------------
(* Counters. *)

LEMMA KeyParts ==
    ASSUME NEW q \in Requests, NEW r \in Requests
    PROVE  key(q) = key(r) <=> kind[q] = kind[r] /\ ip[q] = ip[r] /\ window[q] = window[r]
BY DEF key

\* A request before its answer has none.
AnswerInv == \A r \in Requests : pc[r] = "done" <=> answer[r] # "none"

LEMMA AnswerInit == Init => AnswerInv
BY DEF Init, LimitInit, AnswerInv

LEMMA AnswerStep == TypeInv /\ AnswerInv /\ [Next]_vars => AnswerInv'
<1> SUFFICES ASSUME TypeInv, AnswerInv, [Next]_vars PROVE AnswerInv'
    OBVIOUS
<1>0. pc \in [Requests -> Points] /\ answer \in [Requests -> Answers]
    BY DEF TypeInv, TypeOK, LimitTypeOK
<1> USE DEF AnswerInv
<1>1. CASE UNCHANGED <<pc, answer>>
    BY <1>1
<1>2. ASSUME NEW r \in Requests, NEW a \in Answers \ {"none"}, Answer(r, a) PROVE AnswerInv'
    BY <1>0, <1>2 DEF Answer
<1>3. ASSUME NEW r \in Requests, pc[r] # "done", NEW p \in Points \ {"done"},
             At(r, p), UNCHANGED answer
      PROVE  AnswerInv'
    BY <1>0, <1>3 DEF At
<1> HIDE DEF AnswerInv
<1>4. ASSUME NEW r \in Requests, Elsewhere(r) PROVE AnswerInv'
    BY <1>2, <1>3, <1>4
    DEF Elsewhere, Arrive, LazyDatabase, LazyRedis, LazyWait, Redirect, Health, Pong, Points,
        Answers, Verdict
<1>5. ASSUME NEW r \in Requests,
             LimitBlind(r) \/ Limit(r) \/ Incr(r) \/ Pexpire(r) \/ CommandFails(r)
      PROVE  AnswerInv'
    BY <1>2, <1>3, <1>5
    DEF LimitBlind, Limit, Incr, Pexpire, CommandFails, At, Points, Answers
<1>6. ASSUME Dies PROVE AnswerInv'
    BY <1>0, <1>6 DEF Dies, Die, AnswerInv
<1>7. QED
    BY <1>1, <1>4, <1>5, <1>6, LimitSteps DEF limiter, vars, Tick, Forget, CommandRepeats

\* Why counter k has no expiry.
Explained(k) ==
    \/ k \in broken \union lost
    \/ \E r \in Requests : key(r) = k /\ (pc[r] = "pexpire" \/ r \in cut)

CountersInv == \A k \in Keys : counter[k] > 0 /\ expireAt[k] = Never => Explained(k)

LEMMA CountersInit == Init => CountersInv
BY DEF Init, LimitInit, CountersInv

LEMMA CountersStep == TypeInv /\ ShutInv /\ CountersInv /\ [Next]_vars => CountersInv'
<1> SUFFICES ASSUME TypeInv, ShutInv, CountersInv, [Next]_vars, NEW k \in Keys,
                    counter'[k] > 0, expireAt'[k] = Never
             PROVE  Explained(k)'
    BY DEF CountersInv
<1>0. /\ pc \in [Requests -> Points] /\ counter \in [Keys -> Nat]
      /\ kind \in [Requests -> Kinds \union {"none"}] /\ window \in [Requests -> Windows]
      /\ counter[k] > 0 /\ expireAt[k] = Never => Explained(k)
    BY DEF TypeInv, TypeOK, LimitTypeOK, CountersInv
<1>1. CASE UNCHANGED <<limiter, process>>
    BY <1>0, <1>1 DEF limiter, process, key, Explained
<1>2. CASE Tick /\ UNCHANGED process
    BY <1>0, <1>2 DEF Tick, key, process, Explained
<1>3. ASSUME NEW j \in Keys, Forget(j), UNCHANGED process PROVE Explained(k)'
    <2>1. j \in lost' /\ lost \subseteq lost'
        BY <1>3 DEF Forget
    <2>2. CASE k # j
        <3>1. counter'[k] = counter[k] /\ expireAt'[k] = expireAt[k]
            BY <1>0, <1>3, <2>2 DEF Forget, TypeInv, TypeOK, LimitTypeOK
        <3>2. QED
            BY <1>0, <1>3, <2>1, <3>1 DEF Forget, key, process, Explained
    <2>3. QED
        BY <2>1, <2>2 DEF Explained
<1>4. ASSUME NEW r \in Requests, Elsewhere(r) \/ LimitBlind(r) \/ Limit(r), UNCHANGED process
      PROVE  Explained(k)'
    <2>1. pc[r] # "pexpire" /\ r \notin cut
        <3>1. exitCode = "none" \/ UNCHANGED vars
            BY DEF Next
        <3>2. pc'[r] # pc[r]
            BY <1>0, <1>4
            DEF Elsewhere, Arrive, LazyDatabase, LazyRedis, LazyWait, Redirect, Health, Pong,
                LimitBlind, Limit, At, Answer
        <3>3. exitCode = "none"
            BY <3>1, <3>2 DEF vars
        <3>4. QED
            BY <1>4, <3>3
            DEF Elsewhere, Arrive, LazyDatabase, LazyRedis, LazyWait, Redirect, Health, Pong,
                LimitBlind, Limit, ShutInv
    <2>2. \A q \in Requests \ {r} : pc'[q] = pc[q] /\ key(q)' = key(q)
        BY <1>0, <1>4
        DEF Elsewhere, Arrive, LazyDatabase, LazyRedis, LazyWait, Redirect, Health, Pong,
            LimitBlind, Limit, At, Answer, key, TypeInv, TypeOK, LimitTypeOK
    <2>3. UNCHANGED <<counter, expireAt, lost, broken, cut>>
        BY <1>4
        DEF Elsewhere, Arrive, LazyDatabase, LazyRedis, LazyWait, Redirect, Health, Pong,
            LimitBlind, Limit, counters, process
    <2>4. QED
        BY <1>0, <2>1, <2>2, <2>3 DEF Explained
<1>5. ASSUME NEW r \in Requests, Incr(r), UNCHANGED process PROVE Explained(k)'
    <2>1. CASE k = key(r)
        <3>1. CASE counter'[k] = 1
            BY <1>0, <1>5, <2>1, <3>1 DEF Incr, isFirst, key, Explained
        <3>2. CASE counter'[k] # 1
            <4>1. counter[k] > 0 /\ expireAt[k] = Never
                BY <1>0, <1>5, <2>1, <3>2 DEF Incr, Increment
            <4>2. QED
                BY <1>0, <1>5, <4>1 DEF Incr, Answer, key, process, Explained
        <3>3. QED
            BY <3>1, <3>2
    <2>2. CASE k # key(r)
        <3>1. counter[k] > 0 /\ expireAt[k] = Never
            BY <1>0, <1>5, <2>2 DEF Incr, Increment
        <3>2. QED
            BY <1>0, <1>5, <3>1 DEF Incr, Answer, key, process, Explained
    <2>3. QED
        BY <2>1, <2>2
<1>6. ASSUME NEW r \in Requests, Pexpire(r), UNCHANGED process PROVE Explained(k)'
    <2> DEFINE i == key(r)
               t == now + WINDOW
    <2>1. t # Never /\ expireAt \in [Keys -> Nat \union {Never}]
        BY LimitAssumption DEF TypeInv, TypeOK, LimitTypeOK
    <2>2. /\ expireAt' = IF counter[i] > 0 THEN [expireAt EXCEPT ![i] = t] ELSE expireAt
          /\ counter' = counter
        BY <1>6 DEF Pexpire, SetExpiry
    <2> HIDE DEF i, t
    <2>3. k # i /\ expireAt[k] = Never
        BY <2>1, <2>2
    <2>4. Explained(k)
        BY <1>0, <2>2, <2>3
    <2>5. /\ \A q \in Requests : key(q)' = key(q)
          /\ \A q \in Requests \ {r} : pc'[q] = pc[q]
          /\ UNCHANGED <<broken, lost, cut>>
        BY <1>0, <1>6 DEF Pexpire, Answer, key, process
    <2>6. key(r) # k
        BY <2>3 DEF i
    <2>7. QED
        BY <2>4, <2>5, <2>6 DEF Explained
<1>7. ASSUME NEW r \in Requests, CommandRepeats(r), UNCHANGED process PROVE Explained(k)'
    <2> DEFINE i == key(r)
               t == now + WINDOW
    <2>1. /\ i \in broken' /\ broken \subseteq broken'
          /\ UNCHANGED <<pc, kind, ip, window, lost, cut>>
        BY <1>7 DEF CommandRepeats, process
    <2>2. /\ counter' = [counter EXCEPT ![i] = counter[i] + 1] \/ counter' = counter
          /\ expireAt' = [expireAt EXCEPT ![i] = t] \/ expireAt' = expireAt
        BY <1>7 DEF CommandRepeats, Increment, SetExpiry
    <2>3. expireAt \in [Keys -> Nat \union {Never}]
        BY DEF TypeInv, TypeOK, LimitTypeOK
    <2> HIDE DEF i, t
    <2>4. CASE k = i
        BY <2>1, <2>4 DEF Explained
    <2>5. CASE k # i
        <3>1. counter'[k] = counter[k] /\ expireAt'[k] = expireAt[k]
            BY <1>0, <2>2, <2>3, <2>5
        <3>2. QED
            BY <1>0, <2>1, <3>1 DEF key, Explained
    <2>6. QED
        BY <2>4, <2>5
<1>8. ASSUME NEW r \in Requests, CommandFails(r), UNCHANGED process PROVE Explained(k)'
    BY <1>0, <1>8 DEF CommandFails, Answer, counters, key, process, Explained
<1>9. CASE Dies
    <2>1. /\ UNCHANGED <<kind, ip, window, counters, broken>>
          /\ cut' = {r \in Requests : pc[r] = "pexpire"}
        BY <1>9 DEF Dies, Die
    <2>2. cut = {} \/ UNCHANGED cut
        <3>1. exitCode = "none" \/ UNCHANGED vars
            BY DEF Next
        <3>2. QED
            BY <3>1 DEF vars, ShutInv
    <2>3. Explained(k) /\ \A q \in Requests : key(q)' = key(q)
        BY <1>0, <2>1 DEF counters, key
    <2>4. ASSUME NEW r \in Requests, key(r) = k, pc[r] = "pexpire" PROVE Explained(k)'
        BY <2>1, <2>3, <2>4 DEF Explained
    <2>5. QED
        BY <2>1, <2>2, <2>3, <2>4 DEF Explained, counters
<1>10. CASE UNCHANGED vars
    BY <1>1, <1>10 DEF vars, limiter, process
<1>11. QED
    BY <1>1, <1>2, <1>3, <1>4, <1>5, <1>6, <1>7, <1>8, <1>9, <1>10, LimitSteps

LEMMA CountersEnough == TypeInv /\ ShutInv /\ CountersInv => CountersExpire
<1> SUFFICES ASSUME TypeInv, ShutInv, CountersInv, NEW k \in Keys, counter[k] > 0,
                    expireAt[k] = Never
             PROVE  \/ k \in broken \union lost
                    \/ \E r \in Requests : /\ key(r) = k
                                          /\ \/ pc[r] = "pexpire"
                                             \/ r \in cut /\ exitCode = "1"
    BY DEF CountersExpire
<1>1. Explained(k)
    BY DEF CountersInv
<1>2. cut # {} => exitCode = "1"
    BY DEF ShutInv, TypeInv, TypeOK
<1>3. QED
    BY <1>1, <1>2 DEF Explained

\* A counter without an expiry had a command that failed or was sent twice, is
\* from an older state of Redis, is about to be given one, or lost it to the end
\* of the process, which then does not exit with 0.
THEOREM CountersTheorem == Spec => []CountersExpire
<1>1. Spec => [](TypeInv /\ ShutInv /\ CountersInv)
    BY TypeInit, TypeStep, ShutInit, ShutStep, CountersInit, CountersStep, PTL DEF Spec
<1>2. QED
    BY <1>1, CountersEnough, PTL

-----------------------------------------------------------------------------
(* Requests that must not go uncounted. *)

\* Redis, once reached, is remembered.
LEMMA ReachedOnce == TypeInv /\ everConnected /\ [Next]_vars => everConnected'
<1>1. TypeInv /\ everConnected /\ Next => everConnected'
    BY RedisSteps
    DEF NewClient, Connection, OnConnect, OnReady, AttemptFails, Drops, OnClose, RedisStops,
        RedisStarts, Quitting, SendQuit, QuitAnswered, QuitOffline, UnchangedClient, redis
<1>2. QED
    BY <1>1 DEF vars

ClosedInv == FailsClosed /\ (knew # {} => everConnected)

LEMMA ClosedInit == Init => ClosedInv
BY DEF Init, LimitInit, ClosedInv, FailsClosed

LEMMA ClosedStep == TypeInv /\ AnswerInv /\ FlagInv /\ ClosedInv /\ [Next]_vars => ClosedInv'
<1> SUFFICES ASSUME TypeInv, AnswerInv, FlagInv, ClosedInv, [Next]_vars PROVE ClosedInv'
    OBVIOUS
<1> USE DEF ClosedInv, FailsClosed
<1>0. /\ pc \in [Requests -> Points] /\ answer \in [Requests -> Answers]
      /\ kind \in [Requests -> Kinds \union {"none"}] /\ knew \in SUBSET Requests
    BY DEF TypeInv, TypeOK, LimitTypeOK
<1>1. everConnected => everConnected'
    BY ReachedOnce
<1>2. ASSUME UNCHANGED <<kind, answer, knew>> PROVE ClosedInv'
    BY <1>1, <1>2
<1>3. ASSUME NEW r \in Requests, NEW a \in Answers, Answer(r, a), UNCHANGED <<kind, knew>>,
             a = "uncounted" /\ r \in knew => kind[r] # "auth"
      PROVE  ClosedInv'
    BY <1>0, <1>1, <1>3 DEF Answer
<1>4. ASSUME NEW r \in Requests, NEW k \in Kinds, Arrive(r, k) PROVE ClosedInv'
    BY <1>0, <1>1, <1>4 DEF Arrive, AnswerInv, Points
<1>5. ASSUME NEW r \in Requests, LimitBlind(r) PROVE ClosedInv'
    <2>1. ~isAvailable
        BY <1>5, RedisAssumption DEF LimitBlind, getClient, FlagInv
    <2>2. \E a \in Answers : Answer(r, a) /\ (a = "uncounted" => kind[r] # "auth" \/ ~everConnected)
        BY <1>5, <2>1 DEF LimitBlind, failClosed, Answers
    <2>3. QED
        BY <1>3, <1>5, <2>2 DEF LimitBlind
<1>6. ASSUME NEW r \in Requests, CommandFails(r) PROVE ClosedInv'
    <2>1. \E a \in Answers : Answer(r, a) /\ (a = "uncounted" => kind[r] # "auth")
        BY <1>6 DEF CommandFails, failClosed, Answers
    <2>2. QED
        BY <1>3, <1>6, <2>1 DEF CommandFails
<1>7. ASSUME NEW r \in Requests, Redirect(r) \/ Health(r) \/ Pong(r) \/ Incr(r) \/ Pexpire(r)
      PROVE  ClosedInv'
    <2>1. UNCHANGED <<kind, knew>>
        BY <1>7 DEF Redirect, Health, Pong, Incr, Pexpire
    <2>2. UNCHANGED answer \/ \E a \in Answers \ {"uncounted"} : Answer(r, a)
        BY <1>7 DEF Redirect, Health, Pong, Verdict, Incr, Pexpire, Answers
    <2>3. QED
        BY <1>2, <1>3, <2>1, <2>2
<1>8. ASSUME NEW r \in Requests,
             LazyDatabase(r) \/ LazyRedis(r) \/ LazyWait(r) \/ Limit(r) \/ CommandRepeats(r)
      PROVE  ClosedInv'
    BY <1>2, <1>8 DEF LazyDatabase, LazyRedis, LazyWait, Limit, CommandRepeats
<1> HIDE DEF ClosedInv
<1>9. ASSUME UNCHANGED limiter \/ Tick \/ Dies \/ \E k \in Keys : Forget(k) PROVE ClosedInv'
    BY <1>2, <1>9 DEF limiter, Tick, Forget, Dies, Die
<1>10. QED
    BY <1>4, <1>5, <1>6, <1>7, <1>8, <1>9, LimitSteps DEF Elsewhere, vars, limiter

\* Once Redis was reached, no request to register or log in goes uncounted.
THEOREM FailsClosedTheorem == Spec => []FailsClosed
<1>1. Spec => [](TypeInv /\ AnswerInv /\ FlagInv /\ ClosedInv)
    BY TypeInit, TypeStep, AnswerInit, AnswerStep, FlagInit, FlagStep, ClosedInit, ClosedStep,
       PTL DEF Spec
<1>2. QED
    BY <1>1, PTL DEF ClosedInv

-----------------------------------------------------------------------------
(* Requests that are refused. *)

CountedOn(k) == {q \in Requests : Counted(q) /\ key(q) = k}

LEMMA RequestSets ==
    ASSUME NEW S \in SUBSET Requests, NEW T \in SUBSET S
    PROVE  /\ IsFiniteSet(S) /\ Cardinality(S) \in Nat
           /\ IsFiniteSet(T) /\ Cardinality(T) \in Nat /\ Cardinality(T) <= Cardinality(S)
BY LimitAssumption, FS_Subset, FS_CardinalityType

\* A counter is at most the number of requests that were counted on it, and a
\* request that was refused is one of more than MAX.
RefusedInv ==
    /\ \A k \in Keys \ broken : counter[k] <= Cardinality(CountedOn(k))
    /\ \A r \in Requests :
          answer[r] = "refused" => key(r) \in broken \/ Cardinality(CountedOn(key(r))) > MAX

LEMMA RefusedInit == Init => RefusedInv
<1> SUFFICES ASSUME Init PROVE RefusedInv
    OBVIOUS
<1>1. \A k \in Keys : Cardinality(CountedOn(k)) \in Nat
    BY RequestSets DEF CountedOn
<1>2. QED
    BY <1>1 DEF Init, LimitInit, RefusedInv

\* A step that refuses no request, raises no counter and takes no request off
\* a counter, unless it breaks it.
LEMMA RefusedKept ==
    ASSUME TypeInv, TypeInv', RefusedInv, broken \subseteq broken',
           \A q \in Requests :
              Counted(q) => key(q)' = key(q) /\ (Counted(q)' \/ key(q) \in broken'),
           \A k \in Keys \ broken' : counter'[k] <= counter[k],
           \A q \in Requests : answer'[q] = "refused" => answer[q] = "refused"
    PROVE  RefusedInv'
<1>0. counter \in [Keys -> Nat] /\ counter' \in [Keys -> Nat]
    BY DEF TypeInv, TypeOK, LimitTypeOK
<1>1. ASSUME NEW k, k \notin broken'
      PROVE  /\ Cardinality(CountedOn(k)) \in Nat /\ Cardinality(CountedOn(k)') \in Nat
             /\ Cardinality(CountedOn(k)) <= Cardinality(CountedOn(k)')
    <2>1. CountedOn(k) \subseteq CountedOn(k)' /\ CountedOn(k)' \subseteq Requests
        BY <1>1 DEF CountedOn
    <2>2. QED
        BY <2>1, RequestSets
<1>2. ASSUME NEW k \in Keys \ broken' PROVE counter'[k] <= Cardinality(CountedOn(k)')
    <2>1. counter[k] <= Cardinality(CountedOn(k)) /\ counter'[k] <= counter[k]
        BY <1>2 DEF RefusedInv
    <2>2. QED
        BY <1>0, <1>1, <2>1
<1>3. ASSUME NEW r \in Requests, answer'[r] = "refused", key(r)' \notin broken'
      PROVE  (Cardinality(CountedOn(key(r))) > MAX)'
    <2>1. PICK k : k = key(r)
        OBVIOUS
    <2>2. answer[r] = "refused"
        BY <1>3
    <2>3. k \in broken \/ Cardinality(CountedOn(k)) > MAX
        BY <2>1, <2>2 DEF RefusedInv
    <2>4. key(r)' = k
        BY <2>1, <2>2 DEF Counted
    <2>5. k \notin broken'
        BY <1>3, <2>4
    <2>6. Cardinality(CountedOn(k)') > MAX
        BY <1>1, <2>3, <2>5, LimitAssumption
    <2>7. CountedOn(key(r))' = CountedOn(k)'
        BY <2>4 DEF CountedOn
    <2>8. QED
        BY <2>6, <2>7
<1>4. QED
    BY <1>2, <1>3 DEF RefusedInv

\* What the steps of a request that is not counted leave alone.
LEMMA CountedOthers ==
    ASSUME TypeInv, NEW r \in Requests, ~Counted(r),
           \A q \in Requests \ {r} :
              /\ pc'[q] = pc[q] /\ answer'[q] = answer[q]
              /\ kind'[q] = kind[q] /\ ip'[q] = ip[q] /\ window'[q] = window[q],
           UNCHANGED cut
    PROVE  \A q \in Requests : Counted(q) => Counted(q)' /\ key(q)' = key(q)
BY DEF Counted, key

LEMMA RefusedElsewhere ==
    ASSUME TypeInv, TypeInv', AnswerInv, RefusedInv, cut = {}, UNCHANGED cut, NEW r \in Requests,
           Elsewhere(r) \/ LimitBlind(r) \/ Limit(r)
    PROVE  RefusedInv'
<1>0. /\ pc \in [Requests -> Points] /\ answer \in [Requests -> Answers]
      /\ kind \in [Requests -> Kinds \union {"none"}] /\ ip \in [Requests -> Ips]
      /\ window \in [Requests -> Windows]
    BY DEF TypeInv, TypeOK, LimitTypeOK
<1>1. ~Counted(r) /\ answer[r] = "none"
    BY DEF AnswerInv, Counted, Elsewhere, Arrive, LazyDatabase, LazyRedis, LazyWait, Redirect,
           Health, Pong, LimitBlind, Limit
<1>2. UNCHANGED <<counter, broken>>
    BY DEF Elsewhere, Arrive, LazyDatabase, LazyRedis, LazyWait, Redirect,
           Health, Pong, LimitBlind, Limit, counters
<1>3. \A q \in Requests \ {r} :
         /\ pc'[q] = pc[q] /\ answer'[q] = answer[q]
         /\ kind'[q] = kind[q] /\ ip'[q] = ip[q] /\ window'[q] = window[q]
    BY <1>0 DEF Elsewhere, Arrive, LazyDatabase, LazyRedis, LazyWait, Redirect,
           Health, Pong, LimitBlind, Limit, At, Answer
<1>4. answer'[r] # "refused"
    BY <1>0, <1>1 DEF Elsewhere, Arrive, LazyDatabase, LazyRedis, LazyWait, Redirect,
           Health, Pong, Verdict, LimitBlind, Limit, Answer
<1>5. counter \in [Keys -> Nat]
    BY DEF TypeInv, TypeOK, LimitTypeOK
<1>6. \A q \in Requests : Counted(q) => Counted(q)' /\ key(q)' = key(q)
    BY <1>1, <1>3, CountedOthers
<1>7. QED
    BY <1>2, <1>3, <1>4, <1>5, <1>6, RefusedKept

LEMMA RefusedIncr ==
    ASSUME TypeInv, TypeInv', AnswerInv, RefusedInv, cut = {}, UNCHANGED cut,
           NEW r \in Requests, Incr(r)
    PROVE  RefusedInv'
<1>0. /\ pc \in [Requests -> Points] /\ answer \in [Requests -> Answers]
      /\ counter \in [Keys -> Nat] /\ UNCHANGED <<kind, ip, window, broken>>
    BY DEF TypeInv, TypeOK, LimitTypeOK, Incr
<1>1. PICK k : k = key(r)
    OBVIOUS
<1>2. k \in Keys
    BY <1>1, KeyType DEF Incr
<1>3. \A q \in Requests : key(q)' = key(q)
    BY <1>0 DEF key
<1>4. counter' = [counter EXCEPT ![k] = counter[k] + 1]
    BY <1>1 DEF Incr, Increment
<1>5. /\ ~Counted(r) /\ Counted(r)'
      /\ \A q \in Requests \ {r} : Counted(q)' <=> Counted(q)
      /\ \A q \in Requests \ {r} : answer'[q] = answer[q]
      /\ answer'[r] = "refused" => counter'[k] > MAX
    <2>1. pc[r] = "incr" /\ answer[r] = "none"
        BY DEF Incr, AnswerInv
    <2>2. \/ pc' = [pc EXCEPT ![r] = "pexpire"] /\ UNCHANGED answer
          \/ Answer(r, "admitted")
          \/ Answer(r, "refused") /\ ~(counter'[k] <= MAX)
        BY <1>1 DEF Incr, admits
    <2>3. counter'[k] \in Nat
        BY <1>0, <1>2, <1>4
    <2>4. ~(counter'[k] <= MAX) => counter'[k] > MAX
        BY <2>3, LimitAssumption
    <2>5. QED
        BY <1>0, <2>1, <2>2, <2>4 DEF Answer, Counted
<1>6. CountedOn(k)' = CountedOn(k) \union {r} /\ r \notin CountedOn(k)
    BY <1>1, <1>3, <1>5 DEF CountedOn
<1>7. ASSUME NEW j, j # k PROVE CountedOn(j)' = CountedOn(j)
    BY <1>1, <1>3, <1>5, <1>7 DEF CountedOn
<1>8. /\ Cardinality(CountedOn(k)) \in Nat
      /\ Cardinality(CountedOn(k)') = Cardinality(CountedOn(k)) + 1
    <2>1. IsFiniteSet(CountedOn(k)) /\ Cardinality(CountedOn(k)) \in Nat
        BY RequestSets DEF CountedOn
    <2>2. QED
        BY <1>6, <2>1, FS_AddElement
<1>9. ASSUME NEW j \in Keys \ broken' PROVE counter'[j] <= Cardinality(CountedOn(j)')
    <2>1. counter[j] <= Cardinality(CountedOn(j))
        BY <1>0, <1>9 DEF RefusedInv
    <2>2. CASE j = k
        <3>1. counter'[k] = counter[k] + 1 /\ counter[k] \in Nat
            BY <1>0, <1>2, <1>4
        <3>2. QED
            BY <1>8, <2>1, <2>2, <3>1
    <2>3. CASE j # k
        BY <1>0, <1>4, <1>7, <2>1, <2>3
    <2>4. QED
        BY <2>2, <2>3
<1>10. ASSUME NEW q \in Requests, answer'[q] = "refused", key(q)' \notin broken'
       PROVE  (Cardinality(CountedOn(key(q))) > MAX)'
    <2>1. PICK j : j = key(q)
        OBVIOUS
    <2>2. CountedOn(key(q))' = CountedOn(j)' /\ j \notin broken'
        BY <1>3, <1>10, <2>1 DEF CountedOn
    <2>3. CASE q = r
        <3>1. k \in Keys \ broken' /\ counter'[k] > MAX /\ counter'[k] \in Nat
            BY <1>0, <1>1, <1>2, <1>4, <1>5, <1>10, <2>1, <2>2, <2>3
        <3>2. counter'[k] <= Cardinality(CountedOn(k)')
            BY <1>9, <3>1
        <3>3. Cardinality(CountedOn(k)') > MAX
            BY <1>8, <3>1, <3>2, LimitAssumption
        <3>4. QED
            BY <1>1, <2>1, <2>2, <2>3, <3>3
    <2>4. CASE q # r
        <3>1. Cardinality(CountedOn(j)) > MAX
            BY <1>0, <1>5, <1>10, <2>1, <2>2, <2>4 DEF RefusedInv
        <3>2. Cardinality(CountedOn(j)') > MAX
            BY <1>7, <1>8, <3>1, LimitAssumption
        <3>3. QED
            BY <2>2, <3>2
    <2>5. QED
        BY <2>3, <2>4
<1>11. QED
    BY <1>9, <1>10 DEF RefusedInv

LEMMA RefusedStep ==
    TypeInv /\ TypeInv' /\ AnswerInv /\ ShutInv /\ RefusedInv /\ [Next]_vars => RefusedInv'
<1> SUFFICES ASSUME TypeInv, TypeInv', AnswerInv, ShutInv, RefusedInv, Next PROVE RefusedInv'
    BY DEF vars, RefusedInv, CountedOn, Counted, key
<1>0. /\ pc \in [Requests -> Points] /\ answer \in [Requests -> Answers]
      /\ counter \in [Keys -> Nat] /\ counter' \in [Keys -> Nat]
      /\ cut = {}
    BY DEF TypeInv, TypeOK, LimitTypeOK, ShutInv, Next
<1>1. ASSUME UNCHANGED <<pc, answer, kind, ip, window, cut>>, broken \subseteq broken',
             \A k \in Keys \ broken' : counter'[k] <= counter[k]
      PROVE  RefusedInv'
    <2>1. \A q \in Requests : (Counted(q) => Counted(q)') /\ key(q)' = key(q)
        BY <1>1 DEF Counted, key
    <2>2. QED
        BY <1>1, <2>1, RefusedKept
<1>2. CASE UNCHANGED <<limiter, cut>>
    <2>1. \A k \in Keys : counter'[k] <= counter[k]
        BY <1>0, <1>2 DEF limiter
    <2>2. QED
        BY <1>1, <1>2, <2>1 DEF limiter
<1>3. ASSUME Tick \/ \E k \in Keys : Forget(k), UNCHANGED cut PROVE RefusedInv'
    <2>1. ASSUME NEW k \in Keys PROVE counter'[k] <= counter[k]
        <3>1. CASE Tick
            BY <1>0, <3>1 DEF Tick
        <3>2. ASSUME NEW j \in Keys, Forget(j) PROVE counter'[k] <= counter[k]
            <4>1. PICK n \in 0 .. counter[j] : counter' = [counter EXCEPT ![j] = n]
                BY <3>2 DEF Forget
            <4>2. n <= counter[j]
                BY <1>0
            <4>3. QED
                BY <1>0, <4>1, <4>2
        <3>3. QED
            BY <1>3, <3>1, <3>2
    <2>2. QED
        BY <1>1, <1>3, <2>1 DEF Tick, Forget
<1>4. ASSUME NEW r \in Requests, Pexpire(r), UNCHANGED cut PROVE RefusedInv'
    <2>1. Answer(r, "admitted")
        BY <1>4, LimitAssumption DEF Pexpire, admits
    <2>2. UNCHANGED <<kind, ip, window, counter, broken>>
        BY <1>4 DEF Pexpire
    <2>3. \A q \in Requests : (Counted(q) => Counted(q)') /\ key(q)' = key(q)
        BY <1>0, <1>4, <2>1, <2>2 DEF Answer, Counted, key
    <2>4. \A q \in Requests : answer'[q] = "refused" => answer[q] = "refused"
        BY <1>0, <2>1 DEF Answer
    <2>5. \A k \in Keys : counter'[k] <= counter[k]
        BY <1>0, <2>2
    <2>6. QED
        BY <2>2, <2>3, <2>4, <2>5, RefusedKept
<1>5. ASSUME NEW r \in Requests, CommandRepeats(r), UNCHANGED cut PROVE RefusedInv'
    <2>1. \A k \in Keys \ broken' : counter'[k] <= counter[k]
        <3>1. PICK i : i = key(r)
            OBVIOUS
        <3>2. /\ i \in broken'
              /\ counter' = [counter EXCEPT ![i] = counter[i] + 1] \/ counter' = counter
            BY <1>5, <3>1 DEF CommandRepeats, Increment
        <3>3. QED
            BY <1>0, <3>2
    <2>2. QED
        BY <1>1, <1>5, <2>1 DEF CommandRepeats
<1>6. ASSUME NEW r \in Requests, CommandFails(r), UNCHANGED cut PROVE RefusedInv'
    <2>1. PICK a \in {"unavailable", "uncounted"} : Answer(r, a)
        BY <1>6 DEF CommandFails
    <2>2. UNCHANGED <<kind, ip, window, counter>> /\ broken' = broken \union {key(r)}
        BY <1>6 DEF CommandFails, counters
    <2>3. \A q \in Requests : key(q)' = key(q)
        BY <2>2 DEF key
    <2>4. \A q \in Requests : Counted(q) => Counted(q)' \/ key(q) \in broken'
        BY <1>0, <1>6, <2>1, <2>2 DEF Answer, Counted
    <2>5. \A q \in Requests : answer'[q] = "refused" => answer[q] = "refused"
        BY <1>0, <2>1 DEF Answer
    <2>6. \A k \in Keys : counter'[k] <= counter[k]
        BY <1>0, <2>2
    <2>7. QED
        BY <2>2, <2>3, <2>4, <2>5, <2>6, RefusedKept
<1>7. ASSUME Dies PROVE RefusedInv'
    <2>1. /\ UNCHANGED <<answer, kind, ip, window, counter, broken>>
          /\ cut' = {q \in Requests : pc[q] = "pexpire"}
        BY <1>7 DEF Dies, Die, counters
    <2>2. \A q \in Requests : (Counted(q) => Counted(q)') /\ key(q)' = key(q)
        BY <1>0, <2>1 DEF Counted, key
    <2>3. \A k \in Keys : counter'[k] <= counter[k]
        BY <1>0, <2>1
    <2>4. QED
        BY <2>1, <2>2, <2>3, RefusedKept
<1>8. ASSUME UNCHANGED process PROVE UNCHANGED cut
    BY <1>8 DEF process
<1>9. QED
    BY <1>0, <1>2, <1>3, <1>4, <1>5, <1>6, <1>7, <1>8, RefusedElsewhere, RefusedIncr, LimitSteps

LEMMA RefusedEnough == RefusedInv => RefusedOnlyOverLimit
<1>1. \A r \in Requests : CountedOn(key(r)) = CountedWith(r)
    BY KeyParts DEF CountedOn, CountedWith
<1>2. QED
    BY <1>1 DEF RefusedInv, RefusedOnlyOverLimit

\* A request is refused only if more than MAX of its address, limiter and
\* window were counted, or a command on its counter failed or was sent twice.
THEOREM RefusedTheorem == Spec => []RefusedOnlyOverLimit
<1>1. Spec => [](TypeInv /\ AnswerInv /\ ShutInv /\ RefusedInv)
    BY TypeInit, TypeStep, AnswerInit, AnswerStep, ShutInit, ShutStep, RefusedInit, RefusedStep,
       PTL DEF Spec
<1>2. QED
    BY <1>1, RefusedEnough, PTL

-----------------------------------------------------------------------------
(* Windows. *)

LEMMA WindowsNat == Windows \subseteq Nat
<1>1. ASSUME NEW t \in 0 .. MaxTime PROVE windowAt(t) \in Nat
    BY WindowMonotone, LimitAssumption
<1>2. QED
    BY <1>1 DEF Windows

\* No window is of the future, and no counter expires in its window.
WindowInv ==
    /\ \A r \in Requests : window[r] <= windowAt(now)
    /\ \A k \in Keys : expireAt[k] # Never => windowAt(expireAt[k]) > k[3]

LEMMA WindowInit == Init => WindowInv
BY WindowOfZero DEF Init, LimitInit, WindowInv

\* Time passes.
LEMMA Later ==
    ASSUME TypeInv, TypeInv', Next
    PROVE  now <= now' /\ windowAt(now) \in Nat /\ windowAt(now') \in Nat
           /\ windowAt(now) <= windowAt(now')
<1>1. now \in Nat /\ now' \in Nat
    BY LimitAssumption DEF TypeInv, TypeOK, LimitTypeOK
<1>2. now' = now \/ now' = now + 1
    BY LimitSteps
    DEF limiter, Tick, Forget, Dies, Die, Elsewhere, Arrive, LazyDatabase, LazyRedis, LazyWait, Redirect, Health,
        Pong, LimitBlind, Limit, Incr, Pexpire, CommandRepeats, CommandFails
<1>3. now <= now'
    BY <1>1, <1>2
<1>4. QED
    BY <1>1, <1>3, WindowMonotone

\* An expiry that is set is past the window of its counter.
LEMMA ExpiryLater ==
    ASSUME TypeInv, WindowInv, NEW r \in Requests, pc[r] \in {"incr", "pexpire"}, SetExpiry(r)
    PROVE  \A k \in Keys : expireAt'[k] # Never => windowAt(expireAt'[k]) > k[3]
<1> DEFINE t == now + WINDOW
<1>1. PICK i : i = key(r)
    OBVIOUS
<1>2. i \in Keys /\ i[3] = window[r]
    BY <1>1, KeyType DEF key
<1>3. window[r] \in Nat /\ now \in Nat /\ t \in Nat
    <2>1. window[r] \in Nat
        BY WindowsNat DEF TypeInv, TypeOK, LimitTypeOK
    <2>2. now \in Nat /\ WINDOW \in Nat
        BY LimitAssumption DEF TypeInv, TypeOK, LimitTypeOK
    <2>3. QED
        BY <2>1, <2>2
<1>4. windowAt(t) > i[3]
    <2>1. windowAt(t) = windowAt(now) + 1 /\ windowAt(now) \in Nat
        BY <1>3, WindowAfter, WindowMonotone
    <2>2. window[r] <= windowAt(now)
        BY DEF WindowInv
    <2>3. QED
        BY <1>2, <1>3, <2>1, <2>2
<1>5. expireAt' = [expireAt EXCEPT ![i] = t] \/ expireAt' = expireAt
    BY <1>1 DEF SetExpiry
<1>6. expireAt \in [Keys -> Nat \union {Never}]
    BY DEF TypeInv, TypeOK, LimitTypeOK
<1> HIDE DEF t
<1>7. QED
    BY <1>4, <1>5, <1>6 DEF WindowInv

LEMMA WindowStep == TypeInv /\ TypeInv' /\ WindowInv /\ [Next]_vars => WindowInv'
<1> SUFFICES ASSUME TypeInv, TypeInv', WindowInv, Next PROVE WindowInv'
    BY DEF vars, WindowInv
<1>0. /\ window \in [Requests -> Windows] /\ window' \in [Requests -> Windows]
      /\ expireAt \in [Keys -> Nat \union {Never}]
    BY DEF TypeInv, TypeOK, LimitTypeOK
<1>1. \A r \in Requests : window'[r] = window[r] \/ window'[r] = windowAt(now)
    BY <1>0, LimitSteps
    DEF limiter, Tick, Forget, Dies, Die, Elsewhere, Arrive, LazyDatabase, LazyRedis, LazyWait, Redirect, Health,
        Pong, LimitBlind, Limit, Incr, Pexpire, CommandRepeats, CommandFails
<1>2. \A r \in Requests : window'[r] <= windowAt(now)'
    <2>1. ASSUME NEW r \in Requests PROVE window'[r] <= windowAt(now')
        <3>1. window'[r] <= windowAt(now) /\ window'[r] \in Nat
            <4>1. window'[r] \in Nat
                BY <1>0, WindowsNat
            <4>2. window[r] <= windowAt(now)
                BY DEF WindowInv
            <4>3. windowAt(now) \in Nat
                BY Later
            <4>4. CASE window'[r] = windowAt(now)
                BY <4>1, <4>3, <4>4
            <4>5. QED
                BY <1>1, <4>1, <4>2, <4>4
        <3>2. windowAt(now) <= windowAt(now') /\ windowAt(now) \in Nat /\ windowAt(now') \in Nat
            BY Later
        <3>3. QED
            BY <3>1, <3>2
    <2>2. windowAt(now)' = windowAt(now')
        BY DEF windowAt
    <2>3. QED
        BY <2>1, <2>2
<1>3. ASSUME NEW r \in Requests,
             Elsewhere(r) \/ LimitBlind(r) \/ Limit(r) \/ Incr(r) \/ CommandFails(r)
      PROVE  UNCHANGED expireAt
    BY <1>3
    DEF Elsewhere, Arrive, LazyDatabase, LazyRedis, LazyWait, Redirect, Health, Pong, LimitBlind,
        Limit, Incr, CommandFails, counters
<1>4. CASE UNCHANGED expireAt
    BY <1>2, <1>4 DEF WindowInv
<1>5. ASSUME Tick \/ Dies \/ \E k \in Keys : Forget(k) PROVE WindowInv'
    BY <1>0, <1>2, <1>5 DEF Tick, Forget, Dies, Die, counters, WindowInv
<1>6. ASSUME NEW r \in Requests, Pexpire(r) \/ CommandRepeats(r) PROVE WindowInv'
    <2>1. UNCHANGED expireAt \/ (SetExpiry(r) /\ pc[r] \in {"incr", "pexpire"})
        BY <1>6 DEF Pexpire, CommandRepeats
    <2>2. \A k \in Keys : expireAt'[k] # Never => windowAt(expireAt'[k]) > k[3]
        BY <2>1, ExpiryLater DEF WindowInv
    <2>3. QED
        BY <1>2, <2>2 DEF WindowInv
<1>7. QED
    BY <1>3, <1>4, <1>5, <1>6, LimitSteps DEF limiter

-----------------------------------------------------------------------------
(* Requests that are let through. *)

\* A request that is let through, or that will be when its PEXPIRE is done.
Passes(r) == r \in counted /\ (pc[r] = "pexpire" \/ answer[r] = "admitted")

Passing(k) == {r \in Requests : Passes(r) /\ key(r) = k}

\* As long as its window lasts, a counter is at least the number of requests it
\* let through; these are never more than MAX.
PassInv ==
    \A k \in Keys \ lost :
        /\ Cardinality(Passing(k)) <= MAX
        /\ windowAt(now) <= k[3] => Cardinality(Passing(k)) <= counter[k]

LEMMA PassInit == Init => PassInv
<1> SUFFICES ASSUME Init, NEW k \in Keys
             PROVE  Cardinality(Passing(k)) <= MAX /\ Cardinality(Passing(k)) <= counter[k]
    BY DEF PassInv
<1>1. Passing(k) = {}
    BY DEF Init, LimitInit, Passing, Passes
<1>2. Cardinality(Passing(k)) = 0 /\ counter[k] = 0
    BY <1>1, FS_EmptySet DEF Init, LimitInit
<1>3. QED
    BY <1>2, LimitAssumption

LEMMA PassingSize ==
    ASSUME NEW k
    PROVE  /\ IsFiniteSet(Passing(k)) /\ Cardinality(Passing(k)) \in Nat
           /\ IsFiniteSet(Passing(k)') /\ Cardinality(Passing(k)') \in Nat
           /\ Passing(k)' \subseteq Passing(k) =>
                 Cardinality(Passing(k)') <= Cardinality(Passing(k))
<1>1. Passing(k) \subseteq Requests /\ Passing(k)' \subseteq Requests
    BY DEF Passing
<1>2. QED
    BY <1>1, RequestSets

\* A step that lets no further request through on counter k, which does not go
\* down in its window.
LEMMA PassKept ==
    ASSUME TypeInv, TypeInv', PassInv, Next, NEW k \in Keys \ lost',
           lost \subseteq lost', Passing(k)' \subseteq Passing(k),
           windowAt(now') <= k[3] => counter[k] <= counter'[k]
    PROVE  /\ Cardinality(Passing(k)') <= MAX
           /\ windowAt(now') <= k[3] => Cardinality(Passing(k)') <= counter'[k]
<1>1. Cardinality(Passing(k)) <= MAX
    BY DEF PassInv
<1>2. Cardinality(Passing(k)') <= Cardinality(Passing(k))
    BY PassingSize
<1>3. Cardinality(Passing(k)') \in Nat /\ Cardinality(Passing(k)) \in Nat
    BY PassingSize
<1>4. Cardinality(Passing(k)') <= MAX
    BY <1>1, <1>2, <1>3, LimitAssumption
<1>5. ASSUME windowAt(now') <= k[3] PROVE Cardinality(Passing(k)') <= counter'[k]
    <2>1. windowAt(now) <= k[3]
        <3>1. k[3] \in Nat
            BY WindowsNat DEF Keys
        <3>2. QED
            BY <1>5, <3>1, Later
    <2>2. Cardinality(Passing(k)) <= counter[k] /\ counter[k] <= counter'[k]
        BY <1>5, <2>1 DEF PassInv
    <2>3. counter[k] \in Nat /\ counter'[k] \in Nat
        BY DEF TypeInv, TypeOK, LimitTypeOK
    <2>4. QED
        BY <1>2, <1>3, <2>2, <2>3
<1>6. QED
    BY <1>4, <1>5

LEMMA PassAll ==
    ASSUME \A k \in Keys \ lost' :
              /\ Cardinality(Passing(k)') <= MAX
              /\ windowAt(now') <= k[3] => Cardinality(Passing(k)') <= counter'[k]
    PROVE  PassInv'
<1>1. windowAt(now)' = windowAt(now')
    BY DEF windowAt
<1>2. QED
    BY <1>1 DEF PassInv

LEMMA PassIncr ==
    ASSUME TypeInv, TypeInv', AnswerInv, PassInv, Next, NEW r \in Requests, Incr(r)
    PROVE  PassInv'
<1>0. /\ pc \in [Requests -> Points] /\ answer \in [Requests -> Answers]
      /\ counter \in [Keys -> Nat] /\ window \in [Requests -> Windows]
      /\ counted \in SUBSET Requests /\ UNCHANGED <<now, kind, ip, window, lost>>
    BY DEF TypeInv, TypeOK, LimitTypeOK, Incr
<1>1. PICK k : k = key(r)
    OBVIOUS
<1>2. k \in Keys /\ k[3] = window[r]
    BY <1>1, KeyType DEF Incr, key
<1>3. \A q \in Requests : key(q)' = key(q)
    BY <1>0 DEF key
<1>4. /\ counter' = [counter EXCEPT ![k] = counter[k] + 1]
      /\ counted' = IF windowAt(now) = window[r] THEN counted \union {r} ELSE counted \ {r}
    BY <1>1 DEF Incr, Increment
<1>5. pc[r] = "incr" /\ answer[r] = "none"
    BY DEF Incr, AnswerInv
<1>6. \/ pc' = [pc EXCEPT ![r] = "pexpire"] /\ UNCHANGED answer /\ counter'[k] = 1
      \/ Answer(r, "admitted") /\ counter'[k] <= MAX
      \/ Answer(r, "refused")
    BY <1>1 DEF Incr, isFirst, admits
<1>7. ~Passes(r) /\ \A q \in Requests \ {r} : Passes(q)' <=> Passes(q)
    BY <1>0, <1>4, <1>5, <1>6 DEF Passes, Answer
<1>8. ASSUME NEW j \in Keys \ lost', j # k
      PROVE  /\ Cardinality(Passing(j)') <= MAX
             /\ windowAt(now') <= j[3] => Cardinality(Passing(j)') <= counter'[j]
    <2>1. Passing(j)' \subseteq Passing(j)
        BY <1>1, <1>3, <1>7, <1>8 DEF Passing
    <2>2. counter'[j] = counter[j] /\ counter[j] \in Nat
        BY <1>0, <1>4, <1>8
    <2>3. QED
        BY <1>0, <2>1, <2>2, PassKept
<1>9. ASSUME k \notin lost', ~Passes(r)'
      PROVE  /\ Cardinality(Passing(k)') <= MAX
             /\ windowAt(now') <= k[3] => Cardinality(Passing(k)') <= counter'[k]
    <2>1. Passing(k)' \subseteq Passing(k)
        BY <1>3, <1>7, <1>9 DEF Passing
    <2>2. counter[k] <= counter'[k]
        BY <1>0, <1>2, <1>4
    <2>3. QED
        BY <1>0, <1>2, <1>9, <2>1, <2>2, PassKept
<1>10. ASSUME k \notin lost', Passes(r)'
       PROVE  /\ Cardinality(Passing(k)') <= MAX
              /\ windowAt(now') <= k[3] => Cardinality(Passing(k)') <= counter'[k]
    <2>1. windowAt(now) = k[3] /\ counter'[k] <= MAX
        <3>1. r \in counted' /\ (pc'[r] = "pexpire" \/ answer'[r] = "admitted")
            BY <1>10 DEF Passes
        <3>2. windowAt(now) = k[3]
            BY <1>2, <1>4, <3>1
        <3>3. counter'[k] <= MAX
            BY <1>0, <1>6, <3>1, LimitAssumption DEF Answer
        <3>4. QED
            BY <3>2, <3>3
    <2>2. Passing(k)' = Passing(k) \union {r} /\ r \notin Passing(k)
        BY <1>1, <1>3, <1>7, <1>10 DEF Passing
    <2>3. Cardinality(Passing(k)') = Cardinality(Passing(k)) + 1
        BY <2>2, PassingSize, FS_AddElement
    <2>4. Cardinality(Passing(k)) <= counter[k]
        <3>1. windowAt(now) <= k[3]
            BY <2>1, Later
        <3>2. QED
            BY <1>0, <1>2, <1>10, <3>1 DEF PassInv
    <2>5. counter'[k] = counter[k] + 1 /\ counter[k] \in Nat
        BY <1>0, <1>2, <1>4
    <2>6. Cardinality(Passing(k)) \in Nat
        BY PassingSize
    <2>7. QED
        BY <2>1, <2>3, <2>4, <2>5, <2>6, LimitAssumption
<1>11. QED
    BY <1>8, <1>9, <1>10, PassAll

LEMMA PassStep ==
    TypeInv /\ TypeInv' /\ AnswerInv /\ WindowInv /\ PassInv /\ [Next]_vars => PassInv'
<1> SUFFICES ASSUME TypeInv, TypeInv', AnswerInv, WindowInv, PassInv, Next PROVE PassInv'
    <2>1. UNCHANGED vars /\ PassInv => PassInv'
        BY DEF vars, PassInv, Passing, Passes, key, windowAt
    <2>2. QED
        BY <2>1
<1>0. /\ pc \in [Requests -> Points] /\ answer \in [Requests -> Answers]
      /\ counter \in [Keys -> Nat] /\ counted \in SUBSET Requests
      /\ counter' \in [Keys -> Nat] /\ expireAt \in [Keys -> Nat \union {Never}]
    BY DEF TypeInv, TypeOK, LimitTypeOK
\* Steps that neither lower a counter in its window nor let a request through.
<1>1. ASSUME lost \subseteq lost',
             \A q \in Requests : Passes(q)' => Passes(q) /\ key(q)' = key(q),
             \A k \in Keys \ lost' : windowAt(now') <= k[3] => counter[k] <= counter'[k]
      PROVE  PassInv'
    <2>1. \A k : Passing(k)' \subseteq Passing(k)
        BY <1>1 DEF Passing
    <2>2. QED
        BY <1>1, <2>1, PassKept, PassAll
<1>2. ASSUME UNCHANGED <<pc, answer, kind, ip, window, counted>>
      PROVE  \A q \in Requests : Passes(q)' => Passes(q) /\ key(q)' = key(q)
    BY <1>2 DEF Passes, key
<1>3. ASSUME UNCHANGED counter PROVE \A k \in Keys : counter[k] <= counter'[k]
    BY <1>0, <1>3
<1>4. CASE UNCHANGED limiter
    BY <1>1, <1>2, <1>3, <1>4 DEF limiter
<1>5. CASE Tick
    <2>1. ASSUME NEW k \in Keys, windowAt(now') <= k[3] PROVE counter[k] <= counter'[k]
        <3>1. CASE Expired(k)
            <4>1. expireAt[k] \in Nat /\ expireAt[k] <= now' /\ now' \in Nat
                BY <1>0, <3>1, LimitAssumption DEF Expired, TypeInv, TypeOK, LimitTypeOK
            <4>2. windowAt(expireAt[k]) <= windowAt(now') /\ windowAt(expireAt[k]) \in Nat
                BY <4>1, WindowMonotone
            <4>3. windowAt(expireAt[k]) > k[3] /\ k[3] \in Nat
                BY <3>1, WindowsNat DEF Expired, WindowInv, Keys
            <4>4. QED
                BY <2>1, <4>2, <4>3, Later
        <3>2. CASE ~Expired(k)
            BY <1>0, <1>5, <3>2 DEF Tick
        <3>3. QED
            BY <3>1, <3>2
    <2>2. QED
        BY <1>1, <1>2, <1>5, <2>1 DEF Tick
<1>6. ASSUME NEW j \in Keys, Forget(j) PROVE PassInv'
    <2>1. \A k \in Keys \ lost' : counter'[k] = counter[k] /\ counter[k] \in Nat
        BY <1>0, <1>6 DEF Forget
    <2>2. lost \subseteq lost'
        BY <1>6 DEF Forget
    <2>3. QED
        BY <1>1, <1>2, <1>6, <2>1, <2>2 DEF Forget
<1>7. ASSUME NEW r \in Requests, Elsewhere(r) \/ LimitBlind(r) \/ Limit(r) PROVE PassInv'
    <2>1. pc[r] # "pexpire" /\ answer[r] = "none"
        BY <1>7 DEF AnswerInv, Elsewhere, Arrive, LazyDatabase, LazyRedis, LazyWait, Redirect,
               Health, Pong, LimitBlind, Limit
    <2>2. UNCHANGED <<counter, counted, lost>>
        BY <1>7 DEF Elsewhere, Arrive, LazyDatabase, LazyRedis, LazyWait, Redirect,
               Health, Pong, LimitBlind, Limit, counters
    <2>3. pc'[r] # "pexpire" /\ answer'[r] # "admitted"
        BY <1>0, <1>7, <2>1
        DEF Elsewhere, Arrive, LazyDatabase, LazyRedis, LazyWait, Redirect, Health, Pong, Verdict,
            LimitBlind, Limit, At, Answer
    <2>4. /\ kind \in [Requests -> Kinds \union {"none"}] /\ ip \in [Requests -> Ips]
          /\ window \in [Requests -> Windows]
        BY DEF TypeInv, TypeOK, LimitTypeOK
    <2>5. \A q \in Requests \ {r} :
             /\ pc'[q] = pc[q] /\ answer'[q] = answer[q]
             /\ kind'[q] = kind[q] /\ ip'[q] = ip[q] /\ window'[q] = window[q]
        BY <1>0, <1>7, <2>4
        DEF Elsewhere, Arrive, LazyDatabase, LazyRedis, LazyWait, Redirect, Health, Pong,
            LimitBlind, Limit, At, Answer
    <2>6. \A q \in Requests : Passes(q)' => Passes(q) /\ key(q)' = key(q)
        BY <2>2, <2>3, <2>5 DEF Passes, key
    <2>7. QED
        BY <1>1, <1>3, <2>2, <2>6
<1>8. ASSUME NEW r \in Requests, Pexpire(r) \/ CommandFails(r) PROVE PassInv'
    <2>1. UNCHANGED <<counter, counted, lost, kind, ip, window>>
        BY <1>8 DEF Pexpire, CommandFails, counters
    <2>2. /\ \E a \in Answers : Answer(r, a)
          /\ pc[r] = "pexpire" \/ answer'[r] # "admitted"
        BY <1>0, <1>8 DEF Pexpire, CommandFails, Answer, Answers
    <2>3. \A q \in Requests : Passes(q)' => Passes(q)
        BY <1>0, <2>1, <2>2 DEF Passes, Answer
    <2>4. \A q \in Requests : key(q)' = key(q)
        BY <2>1 DEF key
    <2>5. QED
        BY <1>1, <1>3, <2>1, <2>3, <2>4
<1>9. ASSUME NEW r \in Requests, CommandRepeats(r) PROVE PassInv'
    <2>1. UNCHANGED <<pc, answer, kind, ip, window, lost>>
        BY <1>9 DEF CommandRepeats
    <2>2. CASE UNCHANGED <<counter, counted>>
        BY <1>1, <1>2, <1>3, <2>1, <2>2
    <2>3. CASE pc[r] = "incr" /\ Increment(r)
        <3>1. PICK i : i = key(r)
            OBVIOUS
        <3>2. counter' = [counter EXCEPT ![i] = counter[i] + 1]
            BY <2>3, <3>1 DEF Increment
        <3>3. \A k \in Keys : counter[k] <= counter'[k]
            BY <1>0, <3>2
        <3>4. \A q \in Requests \ {r} : q \in counted' <=> q \in counted
            BY <1>0, <2>3 DEF Increment
        <3>5. ~Passes(r)'
            BY <2>1, <2>3 DEF Passes, AnswerInv
        <3>6. \A q \in Requests : Passes(q)' => Passes(q) /\ key(q)' = key(q)
            BY <2>1, <3>4, <3>5 DEF Passes, key
        <3>7. QED
            BY <1>1, <2>1, <3>3, <3>6
    <2>4. QED
        BY <1>9, <2>2, <2>3 DEF CommandRepeats
<1>10. CASE Dies
    <2>1. /\ UNCHANGED <<answer, kind, ip, window, counter, counted, lost>>
          /\ \A q \in Requests : pc'[q] = "pexpire" => pc[q] = "pexpire"
        BY <1>0, <1>10 DEF Dies, Die, counters
    <2>2. \A q \in Requests : Passes(q)' => Passes(q) /\ key(q)' = key(q)
        BY <2>1 DEF Passes, key
    <2>3. QED
        BY <1>1, <1>3, <2>1, <2>2
<1>11. QED
    BY <1>4, <1>5, <1>6, <1>7, <1>8, <1>9, <1>10, PassIncr, LimitSteps

LEMMA PassEnough == TypeInv /\ PassInv => AdmittedWithinLimit
<1> SUFFICES ASSUME TypeInv, PassInv, NEW k \in Keys, k \notin lost
             PROVE  Cardinality(Admitted(k)) <= MAX
    BY DEF AdmittedWithinLimit
<1>1. Admitted(k) \subseteq Passing(k) /\ Passing(k) \subseteq Requests
    BY DEF Admitted, Passing, Passes, TypeInv, TypeOK, LimitTypeOK
<1>2. /\ Cardinality(Admitted(k)) <= Cardinality(Passing(k)) /\ Cardinality(Passing(k)) <= MAX
      /\ Cardinality(Admitted(k)) \in Nat /\ Cardinality(Passing(k)) \in Nat
    BY <1>1, RequestSets DEF PassInv
<1>3. QED
    BY <1>2, LimitAssumption

\* In one window at most MAX requests of an address are counted and let through.
THEOREM AdmittedTheorem == Spec => []AdmittedWithinLimit
<1>1. Spec => [](TypeInv /\ AnswerInv /\ WindowInv /\ PassInv)
    BY TypeInit, TypeStep, AnswerInit, AnswerStep, WindowInit, WindowStep, PassInit, PassStep,
       PTL DEF Spec
<1>2. QED
    BY <1>1, PassEnough, PTL

=============================================================================
