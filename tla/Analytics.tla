------------------------------ MODULE Analytics ------------------------------
(***************************************************************************)
(* Click events on their way from a redirect through RabbitMQ into the     *)
(* table click_events: the publisher, the queue with its dead letters, the *)
(* consumer that a server process registers when it boots, and the         *)
(* connections of that process with their reconnection timers.             *)
(*                                                                         *)
(* Clicks are numbered in the order they are made, each on a link of its   *)
(* own.  The broker delivers the oldest message that is queued, and puts a *)
(* message that is requeued back to its place.                             *)
(***************************************************************************)
EXTENDS Naturals, FiniteSets

CONSTANTS
    N,                      \* the number of clicks
    PREFETCH,
    MAX_RECONNECT_ATTEMPTS,
    MAX_RETRIES,            \* the retries before the dead-letter queue
    MaxTries,               \* bound: failed deliveries are counted up to this
    MaxTimers, MaxStrays,   \* bounds: timers and forgotten connections
    BrokerFaults,           \* whether connections may fail
    Crashes,                \* whether the server process may be stopped
    DbFaults                \* whether an insertion may fail for no lasting reason

ASSUME AnalyticsAssumption ==
    /\ N \in Nat
    /\ {PREFETCH, MAX_RECONNECT_ATTEMPTS, MaxTimers} \subseteq Nat \ {0}
    /\ {MAX_RETRIES, MaxTries, MaxStrays} \subseteq Nat
    /\ MaxTries > MAX_RETRIES
    /\ {BrokerFaults, Crashes, DbFaults} \subseteq BOOLEAN

Clicks == 1 .. N

VARIABLES
    process,    \* whether the server process runs
    open,       \* whether this.connection and its channels are open
    connected,  \* this.connected
    consuming,  \* whether the consume channel has a consumer
    timers,     \* the reconnections that are scheduled
    attempts,   \* this.reconnectAttempts
    strays,     \* open connections that a later connect() replaced
    place,      \* place[c]: where message c is
    work,       \* work[c]: what the consumer's callback for c does next
    rows,       \* rows[c]: the rows of click c in the table, 2 or more as 2
    gone,       \* the clicks whose link is deleted
    tries,      \* history: tries[c] failed deliveries of c
    repeated    \* history: clicks that were stored and put back, in any order

client == <<process, open, connected, consuming, timers, attempts, strays>>
messages == <<place, work>>
table == <<rows, gone>>
history == <<tries, repeated>>
vars == <<process, open, connected, consuming, timers, attempts, strays,
          place, work, rows, gone, tries, repeated>>

Places == {"unsent", "lost", "queued", "delivered", "acked", "dead"}

In(p) == {c \in Clicks : place[c] = p}

TypeOK ==
    /\ process \in BOOLEAN /\ open \in BOOLEAN
    /\ connected \in BOOLEAN /\ consuming \in BOOLEAN
    /\ timers \in 0 .. MaxTimers
    /\ attempts \in 0 .. MAX_RECONNECT_ATTEMPTS
    /\ strays \in 0 .. MaxStrays
    /\ place \in [Clicks -> Places]
    /\ work \in [Clicks -> {"none", "persist", "ack"}]
    /\ rows \in [Clicks -> 0 .. 2]
    /\ gone \in SUBSET Clicks
    /\ tries \in [Clicks -> 0 .. MaxTries]
    /\ repeated \in SUBSET Clicks
    /\ connected => open
    /\ open => process
    /\ consuming => open /\ timers = 0 /\ strays = 0
    /\ ~process => timers = 0 /\ strays = 0
    /\ \A c \in Clicks : place[c] = "delivered" => consuming /\ work[c] # "none"
    /\ \A c \in Clicks : work[c] # "none" => process
    /\ Cardinality(In("delivered")) <= PREFETCH

Init ==
    /\ process = TRUE
    /\ open = TRUE
    /\ connected = TRUE
    /\ consuming = TRUE
    /\ timers = 0
    /\ attempts = 0
    /\ strays = 0
    /\ place = [c \in Clicks |-> "unsent"]
    /\ work = [c \in Clicks |-> "none"]
    /\ rows = [c \in Clicks |-> 0]
    /\ gone = {}
    /\ tries = [c \in Clicks |-> 0]
    /\ repeated = {}

-----------------------------------------------------------------------------
(* Clicks and links. *)

\* A redirect has been answered: its event is sent when the client says that
\* it is connected, and lost otherwise.  There are no publisher confirms: what
\* is on the wire when a connection fails is lost as well.
Publish(c) ==
    /\ process
    /\ place[c] = "unsent"
    /\ \A d \in In("unsent") : c <= d
    /\ \/ connected /\ place' = [place EXCEPT ![c] = "queued"]
       \/ (~connected \/ BrokerFaults) /\ place' = [place EXCEPT ![c] = "lost"]
    /\ UNCHANGED <<client, work, table, history>>

\* The owner deletes the link of a click, and its click events with it.
\* Redirects of the link may go on from the cache.
DeleteLink(c) ==
    /\ c \notin gone
    /\ gone' = gone \union {c}
    /\ rows' = [rows EXCEPT ![c] = 0]
    /\ UNCHANGED <<client, messages, history>>

-----------------------------------------------------------------------------
(* Deliveries. *)

Deliver(c) ==
    /\ consuming
    /\ place[c] = "queued"
    /\ \A d \in In("queued") : c <= d
    /\ Cardinality(In("delivered")) < PREFETCH
    /\ place' = [place EXCEPT ![c] = "delivered"]
    /\ work' = [work EXCEPT ![c] = "persist"]
    /\ UNCHANGED <<client, table, history>>

OneRowMore(c) == rows' = [rows EXCEPT ![c] = IF @ = 0 THEN 1 ELSE 2]

\* Mutant: the insertion is made again, as if its answer had not come.
PersistAgain(c) ==
    /\ work[c] = "persist"
    /\ c \notin gone
    /\ OneRowMore(c)
    /\ work' \in {work, [work EXCEPT ![c] = "ack"]}
    /\ repeated' = IF place[c] = "delivered" THEN repeated ELSE repeated \union {c}
    /\ UNCHANGED <<client, place, gone, tries>>

\* createClickEvent: the row refers to the link, which must be there.  The
\* message may have been put back meanwhile, with its channel.
Persist(c) ==
    /\ work[c] = "persist"
    /\ c \notin gone
    /\ OneRowMore(c)
    /\ work' = [work EXCEPT ![c] = "ack"]
    /\ repeated' = IF place[c] = "delivered" THEN repeated ELSE repeated \union {c}
    /\ UNCHANGED <<client, place, gone, tries>>

\* Mutant: the message is acknowledged before its row is stored.
AckFirst(c) ==
    /\ work[c] # "none" /\ place[c] = "delivered"
    /\ place' = [place EXCEPT ![c] = "acked"]
    /\ work' = [work EXCEPT ![c] = "none"]
    /\ UNCHANGED <<client, table, history>>

Ack(c) ==
    /\ work[c] = "ack" /\ place[c] = "delivered"
    /\ place' = [place EXCEPT ![c] = "acked"]
    /\ work' = [work EXCEPT ![c] = "none"]
    /\ UNCHANGED <<client, table, history>>

\* The header x-retry-count of message c.  Nobody sets it: the publisher sends
\* no headers, and a message keeps its headers when it is requeued.
RetryCount(c) == 0

\* The handler fails: the link is gone, or the insertion failed, or only its
\* answer did.
HandlerFails(c) ==
    /\ work[c] = "persist"
    /\ \/ (c \in gone \/ DbFaults) /\ UNCHANGED <<rows, repeated>>
       \/ DbFaults /\ c \notin gone /\ OneRowMore(c) /\ repeated' = repeated \union {c}

\* Mutant: a failure is logged and the message forgotten.
DropFailed(c) ==
    /\ place[c] = "delivered"
    /\ HandlerFails(c)
    /\ tries' = [tries EXCEPT ![c] = IF @ < MaxTries THEN @ + 1 ELSE @]
    /\ work' = [work EXCEPT ![c] = "none"]
    /\ UNCHANGED <<client, place, gone>>

\* The handler fails, and the message is put back to be tried again unless it
\* has been tried too often.
Nack(c) ==
    /\ place[c] = "delivered"
    /\ HandlerFails(c)
    /\ tries' = [tries EXCEPT ![c] = IF @ < MaxTries THEN @ + 1 ELSE @]
    /\ place' = [place EXCEPT ![c] = IF RetryCount(c) >= MAX_RETRIES
                                     THEN "dead" ELSE "queued"]
    /\ work' = [work EXCEPT ![c] = "none"]
    /\ UNCHANGED <<client, gone>>

\* The message has been in the queue for a day.
ExpireMessage(c) ==
    /\ place[c] = "queued"
    /\ \A d \in In("queued") : c <= d
    /\ place' = [place EXCEPT ![c] = "dead"]
    /\ UNCHANGED <<client, work, table, history>>

-----------------------------------------------------------------------------
(* The connection. *)

\* Mutant: without the limit on the attempts.
GrantedAlways(a, k) == k

\* Mutant: the last attempt is not made.
GrantedShort(a, k) == IF a + k < MAX_RECONNECT_ATTEMPTS
                      THEN k ELSE MAX_RECONNECT_ATTEMPTS - 1 - a

\* How many of k calls of scheduleReconnect set a timer after a attempts.
Granted(a, k) == IF a + k <= MAX_RECONNECT_ATTEMPTS
                 THEN k ELSE MAX_RECONNECT_ATTEMPTS - a

\* The broker takes back what was delivered on a connection that is gone.
TakeBack ==
    /\ place' = [c \in Clicks |-> IF place[c] = "delivered" THEN "queued" ELSE place[c]]
    /\ repeated' = repeated \union {c \in In("delivered") : work[c] = "ack"}
    /\ UNCHANGED tries

\* The event close of a connection: k more reconnections are asked for.
OnClose(k) ==
    /\ connected' = FALSE
    /\ timers + k <= MaxTimers
    /\ timers' = timers + Granted(attempts, k)
    /\ attempts' = attempts + Granted(attempts, k)

Disconnect ==
    /\ BrokerFaults
    /\ open
    /\ open' = FALSE
    /\ consuming' = FALSE
    /\ OnClose(1)
    /\ TakeBack
    /\ UNCHANGED <<process, strays, work, table>>

\* A connection that connect() replaced closes: the client takes itself for
\* disconnected, although its connection is open.
StrayCloses ==
    /\ BrokerFaults
    /\ strays > 0
    /\ strays' = strays - 1
    /\ OnClose(1)
    /\ UNCHANGED <<process, open, consuming, messages, table, history>>

\* A timer fires.  connect() forgets the connection it has, open or not, for
\* a new one.  Nobody registers the consumer again.
Replace == strays' = IF open THEN strays + 1 ELSE strays

Connect ==
    /\ timers > 0
    /\ open => strays < MaxStrays
    /\ Replace
    /\ timers' = timers - 1
    /\ attempts' = 0
    /\ open' = TRUE
    /\ connected' = TRUE
    /\ UNCHANGED <<process, consuming, messages, table, history>>

ConnectFails ==
    /\ BrokerFaults
    /\ timers > 0
    /\ connected' = FALSE
    /\ timers' = timers - 1 + Granted(attempts, 1)
    /\ attempts' = attempts + Granted(attempts, 1)
    /\ UNCHANGED <<process, open, consuming, strays, messages, table, history>>

\* The new connection closes before it has its channels: its event close and
\* the catch of connect() ask for a reconnection each.
ConnectHalf ==
    /\ BrokerFaults
    /\ timers > 0 /\ timers + 1 <= MaxTimers
    /\ open => strays < MaxStrays
    /\ Replace
    /\ timers' = timers - 1 + Granted(0, 2)
    /\ attempts' = Granted(0, 2)
    /\ open' = FALSE
    /\ connected' = FALSE
    /\ UNCHANGED <<process, consuming, messages, table, history>>

-----------------------------------------------------------------------------
(* The process. *)

Exit ==
    /\ process' = FALSE
    /\ open' = FALSE
    /\ connected' = FALSE
    /\ consuming' = FALSE
    /\ timers' = 0
    /\ attempts' = 0
    /\ strays' = 0
    /\ TakeBack
    /\ work' = [c \in Clicks |-> "none"]
    /\ UNCHANGED table

\* The process is stopped, or shut down.
Crash == Crashes /\ process /\ Exit

\* The callback of a delivery whose channel is gone wants to answer it.  ack
\* throws on a closed channel, and so does nack in the catch block: the
\* rejection is unhandled and ends the process.  A newer channel does not know
\* the delivery: the broker closes it with an error that nobody listens to, or
\* ignores the answer.
AnswerStale(c) ==
    /\ work[c] # "none" /\ place[c] # "delivered"
    /\ work[c] = "ack" \/ c \in gone \/ DbFaults
    /\ \/ Exit
       \/ /\ open
          /\ work' = [work EXCEPT ![c] = "none"]
          /\ UNCHANGED <<client, place, table, history>>

\* bootstrap connects, then starts the consumer, which gives up at once when
\* there is no channel, and fails, and bootstrap with it, when the channel is
\* closed already.
Boot ==
    /\ ~process
    /\ process' = TRUE
    /\ open' = TRUE
    /\ connected' = TRUE
    /\ consuming' = TRUE
    /\ UNCHANGED <<timers, attempts, strays, messages, table, history>>

BootUnconnected ==
    /\ BrokerFaults
    /\ ~process
    /\ process' = TRUE
    /\ \E k \in 1 .. 2 :    \* no connection, or one that closed before its channels
        /\ k <= MaxTimers
        /\ timers' = Granted(0, k)
        /\ attempts' = Granted(0, k)
    /\ UNCHANGED <<open, connected, consuming, strays, messages, table, history>>

Next ==
    \/ \E c \in Clicks :
         \/ Publish(c) \/ DeleteLink(c) \/ Deliver(c) \/ Persist(c) \/ Ack(c)
         \/ Nack(c) \/ ExpireMessage(c) \/ AnswerStale(c)
    \/ Disconnect \/ StrayCloses \/ Connect \/ ConnectFails \/ ConnectHalf
    \/ Crash \/ Boot \/ BootUnconnected

Spec == Init /\ [][Next]_vars

(***************************************************************************)
(* Callbacks run on, timers fire, the container is restarted.  The broker  *)
(* fills the prefetch window as soon as there is room, so that a message   *)
(* which is the next one again and again is delivered at last; and the     *)
(* failures of the database that have no lasting reason end, so that an    *)
(* insertion tried again and again succeeds at last.  Nothing makes        *)
(* clicks, deletions or failures happen, and nothing waits for a message's *)
(* time to live to pass.                                                   *)
(***************************************************************************)
FairSpec ==
    /\ Spec
    /\ WF_vars(Connect \/ ConnectFails \/ ConnectHalf)
    /\ WF_vars(Boot \/ BootUnconnected)
    /\ \A c \in Clicks :
         /\ SF_vars(Deliver(c)) /\ WF_vars(Ack(c)) /\ WF_vars(AnswerStale(c))
         /\ WF_vars(Persist(c) \/ Nack(c)) /\ SF_vars(Persist(c))

-----------------------------------------------------------------------------
(* Properties. *)

\* At least once: a message leaves the queue for good only when its click is
\* in the table, unless the link is deleted, whatever fails in between (the
\* consumer acknowledges after createClickEvent, rabbitmq.client.ts 162-163).
AckedClicksAreStored ==
    \A c \in Clicks : place[c] = "acked" => rows[c] > 0 \/ c \in gone

\* A click is counted twice only when its message went back to the queue and
\* its row into the table: the connection, the process or the answer of the
\* database was lost between the delivery and the acknowledgement.
CountedTwiceOnlyAfterLoss ==
    \A c \in Clicks : rows[c] > 1 => c \in repeated

\* A process that takes itself for disconnected is going to connect again, or has
\* used up its attempts.  This is so also when connections replace each other:
\* when a connection closes before it has its channels two reconnections are
\* asked for, the second replaces the open connection of the first, and the
\* close of the replaced one, which clears the flag of the other, asks for a
\* third (rabbitmq.client.ts 42-46, 57-61, 93-109).
ReconnectsUntilGivenUp ==
    process /\ ~connected => timers > 0 \/ attempts = MAX_RECONNECT_ATTEMPTS

\* Where a message is, to whom only its way to the table matters: whether it
\* is with the broker or with a callback is not visible.
StageOf(c) == IF place[c] \in {"queued", "delivered"} THEN "pending" ELSE place[c]

CD == INSTANCE ClickDelivery WITH stage <- [c \in Clicks |-> StageOf(c)]

\* The pipeline implements ClickDelivery.  Reconnections, crashes, redeliveries
\* and callbacks that outlive their channel take no click out of flight, count
\* none that is settled and undo no end.
AtLeastOnce == CD!DeliverySpec

\* While the consumer stays registered, every click in the queue reaches the
\* table, the dead letters or the end of its link, as long as the clicks that
\* can never be stored do not fill the prefetch window: the window is given
\* back after every failure.
ClicksGetThrough ==
    <>[](consuming /\ Cardinality({c \in gone : place[c] \in {"queued", "delivered"}})
                        < PREFETCH)
      => \A c \in Clicks :
           place[c] = "queued" ~> rows[c] > 0 \/ c \in gone \/ place[c] = "dead"

\* README 295: "Failed messages (after 3 retries) are sent to
\* analytics.clicks.dlq", and analytics.consumer.ts 13-15.
FailedClicksAreDeadLetters ==
    \A c \in Clicks : tries[c] > MAX_RETRIES => place[c] = "dead"

\* README 529: "When RabbitMQ recovers, new events are processed normally."
EventsProcessedAfterRecovery ==
    <>[]connected => \A c \in Clicks : place[c] = "queued" ~> place[c] # "queued"

=============================================================================
