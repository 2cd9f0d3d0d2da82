--------------------------- MODULE AnalyticsProofs ---------------------------
(***************************************************************************)
(* Proofs about Analytics, for any number of clicks and any prefetch       *)
(* window, with or without faults of the broker, the database and the      *)
(* process.                                                                *)
(***************************************************************************)
EXTENDS Analytics, FiniteSetTheorems, TLAPS

-----------------------------------------------------------------------------
(* The prefetch window. *)

LEMMA DeliveredFinite == IsFiniteSet(In("delivered")) /\ Cardinality(In("delivered")) \in Nat
<1>1. IsFiniteSet(Clicks)
    BY FS_Interval, AnalyticsAssumption DEF Clicks
<1>2. In("delivered") \in SUBSET Clicks
    BY DEF In
<1>3. IsFiniteSet(In("delivered"))
    BY <1>1, <1>2, FS_Subset
<1>4. QED
    BY <1>3, FS_CardinalityType

\* A step that delivers nothing keeps the window.
LEMMA WindowShrinks ==
    ASSUME Cardinality(In("delivered")) <= PREFETCH,
           In("delivered")' \subseteq In("delivered")
    PROVE  Cardinality(In("delivered"))' <= PREFETCH
<1>1. Cardinality(In("delivered"))' <= Cardinality(In("delivered"))
         /\ Cardinality(In("delivered"))' \in Nat
    <2> DEFINE S == In("delivered")
               T == In("delivered")'
    <2>1. IsFiniteSet(S) /\ T \in SUBSET S
        BY DeliveredFinite
    <2> HIDE DEF S, T
    <2>2. IsFiniteSet(T) /\ Cardinality(T) <= Cardinality(S) /\ Cardinality(T) \in Nat
        BY <2>1, FS_Subset, FS_CardinalityType
    <2>3. QED
        BY <2>2 DEF S, T
<1>2. QED
    BY <1>1, DeliveredFinite, AnalyticsAssumption

LEMMA WindowFills ==
    ASSUME NEW c \in Clicks, TypeOK, Deliver(c)
    PROVE  Cardinality(In("delivered"))' <= PREFETCH
<1> DEFINE S == In("delivered")
<1>1. In("delivered")' = S \union {c}
    BY DEF Deliver, In, TypeOK
<1>2. IsFiniteSet(S) /\ Cardinality(S) \in Nat /\ Cardinality(S) < PREFETCH
    BY DeliveredFinite DEF Deliver
<1> HIDE DEF S
<1>3. IsFiniteSet(S \union {c})
        /\ Cardinality(S \union {c}) = IF c \in S THEN Cardinality(S) ELSE Cardinality(S) + 1
    BY <1>2, FS_AddElement, Zenon
<1>4. Cardinality(S \union {c}) <= PREFETCH
    BY <1>2, <1>3, AnalyticsAssumption
<1>5. QED
    BY <1>1, <1>4

-----------------------------------------------------------------------------
(* Type correctness.  TypeOK comes apart into what it says of the client, of
   the messages, and of both. *)

ClientOK ==
    /\ process \in BOOLEAN /\ open \in BOOLEAN
    /\ connected \in BOOLEAN /\ consuming \in BOOLEAN
    /\ timers \in 0 .. MaxTimers
    /\ attempts \in 0 .. MAX_RECONNECT_ATTEMPTS
    /\ strays \in 0 .. MaxStrays
    /\ connected => open
    /\ open => process
    /\ consuming => open /\ timers = 0 /\ strays = 0
    /\ ~process => timers = 0 /\ strays = 0

MessagesOK ==
    /\ place \in [Clicks -> Places]
    /\ work \in [Clicks -> {"none", "persist", "ack"}]
    /\ rows \in [Clicks -> 0 .. 2]
    /\ gone \in SUBSET Clicks
    /\ tries \in [Clicks -> 0 .. MaxTries]
    /\ repeated \in SUBSET Clicks

WorkOK ==
    /\ \A c \in Clicks : place[c] = "delivered" => consuming /\ work[c] # "none"
    /\ \A c \in Clicks : work[c] # "none" => process

Window == Cardinality(In("delivered")) <= PREFETCH

LEMMA TypeParts == TypeOK <=> ClientOK /\ MessagesOK /\ WorkOK /\ Window
BY DEF TypeOK, ClientOK, MessagesOK, WorkOK, Window

LEMMA GrantedType ==
    ASSUME NEW a \in Nat, a <= MAX_RECONNECT_ATTEMPTS, NEW k \in Nat
    PROVE  /\ Granted(a, k) \in Nat /\ Granted(a, k) <= k
           /\ a + Granted(a, k) \in Nat
           /\ a + Granted(a, k) <= MAX_RECONNECT_ATTEMPTS
BY AnalyticsAssumption DEF Granted

LEMMA ClientStep == TypeOK /\ [Next]_vars => ClientOK'
<1> SUFFICES ASSUME TypeOK, [Next]_vars PROVE ClientOK'
    OBVIOUS
<1> USE DEF ClientOK
<1>1. ClientOK
    BY TypeParts
<1>2. MaxTimers \in Nat /\ MaxTimers > 0 /\ MaxStrays \in Nat
        /\ MAX_RECONNECT_ATTEMPTS \in Nat
    BY AnalyticsAssumption
<1>3. CASE UNCHANGED client
    BY <1>1, <1>3 DEF client
<1>4. ASSUME \E c \in Clicks : \/ Publish(c) \/ DeleteLink(c) \/ Deliver(c)
                               \/ Persist(c) \/ Ack(c) \/ Nack(c) \/ ExpireMessage(c)
      PROVE  UNCHANGED client
    BY <1>4 DEF Publish, DeleteLink, Deliver, Persist, Ack, Nack, ExpireMessage
<1>5. ASSUME Exit PROVE ClientOK'
    <2>1. /\ process' = FALSE /\ open' = FALSE /\ connected' = FALSE /\ consuming' = FALSE
          /\ timers' = 0 /\ attempts' = 0 /\ strays' = 0
        BY <1>5 DEF Exit
    <2>2. timers' \in 0 .. MaxTimers /\ attempts' \in 0 .. MAX_RECONNECT_ATTEMPTS
            /\ strays' \in 0 .. MaxStrays
        BY <1>2, <2>1
    <2>3. QED  BY <2>1, <2>2
<1>6. ASSUME NEW c \in Clicks, AnswerStale(c) PROVE ClientOK'
    BY <1>3, <1>5, <1>6 DEF AnswerStale
<1>7. ASSUME OnClose(1) PROVE timers' \in 0 .. MaxTimers
                              /\ attempts' \in 0 .. MAX_RECONNECT_ATTEMPTS
                              /\ connected' = FALSE
    <2>1. attempts \in Nat /\ attempts <= MAX_RECONNECT_ATTEMPTS
        BY <1>1, <1>2
    <2>2. /\ Granted(attempts, 1) \in Nat /\ Granted(attempts, 1) <= 1
          /\ attempts + Granted(attempts, 1) <= MAX_RECONNECT_ATTEMPTS
        BY <2>1, GrantedType
    <2>3. QED  BY <1>1, <1>2, <1>7, <2>1, <2>2 DEF OnClose
<1>8. CASE Disconnect
    BY <1>1, <1>7, <1>8 DEF Disconnect
<1>9. CASE StrayCloses
    BY <1>1, <1>2, <1>7, <1>9 DEF StrayCloses
<1>10. CASE Connect
    BY <1>1, <1>2, <1>10 DEF Connect, Replace
<1>11. CASE ConnectFails
    <2>1. attempts \in Nat /\ attempts <= MAX_RECONNECT_ATTEMPTS
        BY <1>1, <1>2
    <2>2. /\ Granted(attempts, 1) \in Nat /\ Granted(attempts, 1) <= 1
          /\ attempts + Granted(attempts, 1) <= MAX_RECONNECT_ATTEMPTS
        BY <2>1, GrantedType
    <2>3. timers' \in 0 .. MaxTimers /\ attempts' \in 0 .. MAX_RECONNECT_ATTEMPTS
        BY <1>1, <1>2, <1>11, <2>1, <2>2 DEF ConnectFails
    <2>4. consuming = FALSE /\ process = TRUE
        BY <1>1, <1>11 DEF ConnectFails
    <2>5. QED  BY <1>1, <1>11, <2>3, <2>4 DEF ConnectFails
<1>12. CASE ConnectHalf
    <2>1. /\ Granted(0, 2) \in Nat /\ Granted(0, 2) <= 2
          /\ 0 + Granted(0, 2) <= MAX_RECONNECT_ATTEMPTS
        BY <1>2, GrantedType
    <2>2. /\ timers' \in 0 .. MaxTimers /\ attempts' \in 0 .. MAX_RECONNECT_ATTEMPTS
          /\ strays' \in 0 .. MaxStrays
        BY <1>1, <1>2, <1>12, <2>1 DEF ConnectHalf, Replace
    <2>3. consuming = FALSE /\ process = TRUE
        BY <1>1, <1>12 DEF ConnectHalf
    <2>4. QED  BY <1>1, <1>12, <2>2, <2>3 DEF ConnectHalf
<1>13. CASE Crash
    BY <1>5, <1>13 DEF Crash
<1>14. CASE Boot
    BY <1>1, <1>14 DEF Boot
<1>15. CASE BootUnconnected
    <2>1. \A k \in 1 .. 2 : Granted(0, k) \in 0 .. k /\ Granted(0, k) \in 0 .. MAX_RECONNECT_ATTEMPTS
        BY <1>2, GrantedType
    <2>2. QED  BY <1>1, <1>2, <1>15, <2>1 DEF BootUnconnected
<1>16. QED
    BY <1>3, <1>4, <1>6, <1>8, <1>9, <1>10, <1>11, <1>12, <1>13, <1>14, <1>15
       DEF Next, vars, client

LEMMA TakeBackType ==
    ASSUME MessagesOK, TakeBack
    PROVE  /\ place' \in [Clicks -> Places \ {"delivered"}]
           /\ repeated' \in SUBSET Clicks
           /\ tries' = tries
BY DEF TakeBack, MessagesOK, Places, In

LEMMA RowsType ==
    ASSUME MessagesOK, NEW c \in Clicks, OneRowMore(c)
    PROVE  rows' \in [Clicks -> 0 .. 2]
BY DEF OneRowMore, MessagesOK

LEMMA MessagesStep == TypeOK /\ [Next]_vars => MessagesOK'
<1> SUFFICES ASSUME TypeOK, [Next]_vars PROVE MessagesOK'
    OBVIOUS
<1> USE DEF MessagesOK
<1>1. MessagesOK
    BY TypeParts
<1>2. CASE UNCHANGED <<messages, table, history>>
    BY <1>1, <1>2 DEF messages, table, history
<1>3. ASSUME TakeBack, UNCHANGED table, work' = work \/ work' = [c \in Clicks |-> "none"]
      PROVE  MessagesOK'
    BY <1>1, <1>3, TakeBackType DEF table
<1>4. ASSUME NEW c \in Clicks, Publish(c) PROVE MessagesOK'
    BY <1>1, <1>4 DEF Publish, table, history, Places
<1>5. ASSUME NEW c \in Clicks, DeleteLink(c) PROVE MessagesOK'
    BY <1>1, <1>5 DEF DeleteLink, messages, history
<1>6. ASSUME NEW c \in Clicks, Deliver(c) PROVE MessagesOK'
    BY <1>1, <1>6 DEF Deliver, table, history, Places
<1>7. ASSUME NEW c \in Clicks, Persist(c) PROVE MessagesOK'
    BY <1>1, <1>7, RowsType DEF Persist
<1>8. ASSUME NEW c \in Clicks, Ack(c) PROVE MessagesOK'
    BY <1>1, <1>8 DEF Ack, table, history, Places
<1>9. ASSUME NEW c \in Clicks, Nack(c) PROVE MessagesOK'
    <2>1. rows' \in [Clicks -> 0 .. 2] /\ repeated' \in SUBSET Clicks
        BY <1>1, <1>9, RowsType DEF Nack, HandlerFails
    <2>2. tries' \in [Clicks -> 0 .. MaxTries]
        BY <1>1, <1>9, AnalyticsAssumption DEF Nack
    <2>3. place' \in [Clicks -> Places] /\ work' \in [Clicks -> {"none", "persist", "ack"}]
        BY <1>1, <1>9 DEF Nack, Places
    <2>4. QED  BY <1>1, <1>9, <2>1, <2>2, <2>3 DEF Nack
<1>10. ASSUME NEW c \in Clicks, ExpireMessage(c) PROVE MessagesOK'
    BY <1>1, <1>10 DEF ExpireMessage, table, history, Places
<1>11. ASSUME NEW c \in Clicks, AnswerStale(c) PROVE MessagesOK'
    BY <1>1, <1>3, <1>11 DEF AnswerStale, Exit, table, history
<1>12. CASE Disconnect \/ Crash
    BY <1>3, <1>12 DEF Disconnect, Crash, Exit
<1>13. CASE StrayCloses \/ Connect \/ ConnectFails \/ ConnectHalf \/ Boot \/ BootUnconnected
    BY <1>2, <1>13 DEF StrayCloses, Connect, ConnectFails, ConnectHalf, Boot, BootUnconnected
<1>14. QED
    BY <1>2, <1>4, <1>5, <1>6, <1>7, <1>8, <1>9, <1>10, <1>11, <1>12, <1>13
       DEF Next, vars, messages, table, history

\* Every delivery is to the one consumer there is, and its callback runs.
LEMMA WorkStep == TypeOK /\ [Next]_vars => WorkOK' /\ Window'
<1> SUFFICES ASSUME TypeOK, [Next]_vars PROVE WorkOK' /\ Window'
    OBVIOUS
<1> USE DEF WorkOK
<1>1. MessagesOK /\ WorkOK /\ Window /\ ClientOK
    BY TypeParts
<1>2. CASE UNCHANGED <<process, consuming, place, work>>
    BY <1>1, <1>2 DEF Window, In
<1>3. ASSUME TakeBack, work' = [c \in Clicks |-> "none"] \/ UNCHANGED <<work, process>>
      PROVE  WorkOK' /\ Window'
    <2>1. \A c \in Clicks : place'[c] # "delivered"
        BY <1>1, <1>3, TakeBackType
    <2>2. Window'
        BY <1>1, <2>1, WindowShrinks DEF Window, In
    <2>3. QED  BY <1>1, <1>3, <2>1, <2>2
<1>4. ASSUME NEW c \in Clicks, NEW p \in Places \ {"delivered"},
             place' = [place EXCEPT ![c] = p],
             work' = work \/ work' = [work EXCEPT ![c] = "none"],
             UNCHANGED <<process, consuming>>
      PROVE  WorkOK' /\ Window'
    <2>1. In("delivered")' \subseteq In("delivered")
        BY <1>1, <1>4 DEF In, MessagesOK
    <2>2. Window'
        BY <1>1, <2>1, WindowShrinks DEF Window
    <2>3. QED  BY <1>1, <1>4, <2>2 DEF MessagesOK
<1>5. ASSUME NEW c \in Clicks, \/ Publish(c) \/ Ack(c) \/ Nack(c) \/ ExpireMessage(c)
      PROVE  WorkOK' /\ Window'
    BY <1>4, <1>5 DEF Publish, Ack, Nack, ExpireMessage, client, Places
<1>6. ASSUME NEW c \in Clicks, Deliver(c) PROVE WorkOK' /\ Window'
    <2>1. WorkOK'
        BY <1>1, <1>6 DEF Deliver, client, MessagesOK, ClientOK
    <2>2. QED  BY <1>6, <2>1, WindowFills DEF Window
<1>7. ASSUME NEW c \in Clicks, Persist(c) PROVE WorkOK' /\ Window'
    <2>1. WorkOK'
        BY <1>1, <1>7 DEF Persist, client, MessagesOK
    <2>2. QED  BY <1>1, <1>7, <2>1 DEF Persist, Window, In
<1>8. ASSUME NEW c \in Clicks, AnswerStale(c) PROVE WorkOK' /\ Window'
    <2>1. CASE Exit
        BY <1>3, <2>1 DEF Exit
    <2>2. CASE work' = [work EXCEPT ![c] = "none"] /\ UNCHANGED <<client, place>>
        BY <1>1, <1>8, <2>2 DEF AnswerStale, client, MessagesOK, Window, In
    <2>3. QED  BY <1>8, <2>1, <2>2 DEF AnswerStale
<1>9. CASE Disconnect \/ Crash
    BY <1>3, <1>9 DEF Disconnect, Crash, Exit
<1>10. CASE Boot \/ BootUnconnected
    <2>1. \A c \in Clicks : place[c] # "delivered" /\ work[c] = "none"
        BY <1>1, <1>10 DEF Boot, BootUnconnected, ClientOK
    <2>2. UNCHANGED <<place, work>>
        BY <1>10 DEF Boot, BootUnconnected, messages
    <2>3. QED  BY <1>1, <2>1, <2>2 DEF Window, In
<1>11. CASE (\E c \in Clicks : DeleteLink(c)) \/ StrayCloses \/ Connect \/ ConnectFails \/ ConnectHalf
    BY <1>2, <1>11 DEF DeleteLink, StrayCloses, Connect, ConnectFails, ConnectHalf, messages, client
<1>12. QED
    BY <1>2, <1>5, <1>6, <1>7, <1>8, <1>9, <1>10, <1>11 DEF Next, vars

LEMMA TypeInit == Init => TypeOK
<1> SUFFICES ASSUME Init PROVE TypeOK
    OBVIOUS
<1>1. In("delivered") = {}
    BY DEF Init, In
<1>2. Cardinality(In("delivered")) <= PREFETCH
    BY <1>1, FS_EmptySet, AnalyticsAssumption
<1>3. QED
    BY <1>2, AnalyticsAssumption DEF Init, TypeOK, Places

LEMMA TypeStep == TypeOK /\ [Next]_vars => TypeOK'
<1>1. TypeOK' <=> ClientOK' /\ MessagesOK' /\ WorkOK' /\ Window'
    BY DEF TypeOK, ClientOK, MessagesOK, WorkOK, Window
<1>2. QED  BY <1>1, ClientStep, MessagesStep, WorkStep

\* Every variable keeps its type; in particular the prefetch window is never
\* exceeded, reconnections are never tried too often in a row, and a process
\* with a consumer has neither forgotten connections nor timers.
THEOREM TypeCorrect == Spec => []TypeOK
<1>1. QED  BY TypeInit, TypeStep, PTL DEF Spec

-----------------------------------------------------------------------------
(* Reconnections. *)

\* A reconnection that is asked for is scheduled, or is one too many.
LEMMA GrantedOne ==
    ASSUME NEW a \in 0 .. MAX_RECONNECT_ATTEMPTS, NEW k \in Nat \ {0}
    PROVE  \/ Granted(a, k) \in Nat \ {0}
           \/ Granted(a, k) = 0 /\ a + Granted(a, k) = MAX_RECONNECT_ATTEMPTS
BY AnalyticsAssumption DEF Granted

LEMMA ReconnectsStep ==
    TypeOK /\ ReconnectsUntilGivenUp /\ [Next]_vars => ReconnectsUntilGivenUp'
<1> SUFFICES ASSUME TypeOK, ReconnectsUntilGivenUp, [Next]_vars PROVE ReconnectsUntilGivenUp'
    OBVIOUS
<1>0. /\ timers \in Nat /\ attempts \in 0 .. MAX_RECONNECT_ATTEMPTS
      /\ 0 \in 0 .. MAX_RECONNECT_ATTEMPTS
    BY AnalyticsAssumption DEF TypeOK
<1>1. CASE UNCHANGED client
    BY <1>1 DEF client, ReconnectsUntilGivenUp
<1>2. ASSUME process' = FALSE \/ connected' PROVE ReconnectsUntilGivenUp'
    BY <1>2 DEF ReconnectsUntilGivenUp
<1>3. ASSUME OnClose(1) PROVE ReconnectsUntilGivenUp'
    <2>1. \/ Granted(attempts, 1) \in Nat \ {0}
          \/ Granted(attempts, 1) = 0 /\ attempts + Granted(attempts, 1) = MAX_RECONNECT_ATTEMPTS
        BY <1>0, GrantedOne
    <2>2. QED
        BY <1>0, <1>3, <2>1 DEF OnClose, ReconnectsUntilGivenUp
<1>4. CASE ConnectFails
    <2>1. \/ Granted(attempts, 1) \in Nat \ {0}
          \/ Granted(attempts, 1) = 0 /\ attempts + Granted(attempts, 1) = MAX_RECONNECT_ATTEMPTS
        BY <1>0, GrantedOne
    <2>2. QED
        BY <1>0, <1>4, <2>1 DEF ConnectFails, ReconnectsUntilGivenUp
<1>5. CASE ConnectHalf
    <2>1. \/ Granted(0, 2) \in Nat \ {0}
          \/ Granted(0, 2) = 0 /\ 0 + Granted(0, 2) = MAX_RECONNECT_ATTEMPTS
        BY <1>0, GrantedOne
    <2>2. QED
        BY <1>0, <1>5, <2>1 DEF ConnectHalf, ReconnectsUntilGivenUp
<1>6. CASE BootUnconnected
    <2>1. PICK k \in 1 .. 2 : timers' = Granted(0, k) /\ attempts' = Granted(0, k)
        BY <1>6 DEF BootUnconnected
    <2>2. \/ Granted(0, k) \in Nat \ {0}
          \/ Granted(0, k) = 0 /\ 0 + Granted(0, k) = MAX_RECONNECT_ATTEMPTS
        BY <1>0, GrantedOne
    <2>3. QED
        BY <2>1, <2>2 DEF ReconnectsUntilGivenUp
<1>7. CASE Connect \/ Boot \/ Crash
    BY <1>2, <1>7 DEF Connect, Boot, Crash, Exit
<1>8. CASE Disconnect \/ StrayCloses
    BY <1>3, <1>8 DEF Disconnect, StrayCloses
<1>9. ASSUME NEW c \in Clicks, AnswerStale(c) PROVE ReconnectsUntilGivenUp'
    BY <1>1, <1>2, <1>9 DEF AnswerStale, Exit
<1>10. ASSUME \E c \in Clicks : \/ Publish(c) \/ DeleteLink(c) \/ Deliver(c)
                                \/ Persist(c) \/ Ack(c) \/ Nack(c) \/ ExpireMessage(c)
       PROVE  UNCHANGED client
    BY <1>10 DEF Publish, DeleteLink, Deliver, Persist, Ack, Nack, ExpireMessage
<1>11. UNCHANGED vars => UNCHANGED client
    BY DEF vars, client
<1>12. QED
    BY <1>1, <1>4, <1>5, <1>6, <1>7, <1>8, <1>9, <1>10, <1>11 DEF Next

\* A process that is not connected to RabbitMQ has a reconnection ahead of it,
\* or has made all its attempts.
THEOREM ReconnectsTheorem == Spec => []ReconnectsUntilGivenUp
<1>1. Init => ReconnectsUntilGivenUp
    BY DEF Init, ReconnectsUntilGivenUp
<1>2. QED
    BY <1>1, ReconnectsStep, TypeCorrect, PTL DEF Spec

-----------------------------------------------------------------------------
(* What the table and the queue say of a click.  The inductive invariant
   follows the insertion through the callback: a callback that is about to
   acknowledge has stored its row, and a click that has a row is either on its
   straight way to the acknowledgement or known to have been put back. *)

Settled(c) == place[c] = "acked" \/ (place[c] = "delivered" /\ work[c] = "ack")

ClickInv(c) ==
    /\ work[c] = "ack" \/ place[c] = "acked" => rows[c] > 0 \/ c \in gone
    /\ place[c] = "acked" => work[c] = "none"
    /\ rows[c] > 0 => Settled(c) \/ c \in repeated
    /\ rows[c] > 1 => c \in repeated

StoreInv == TypeOK /\ \A c \in Clicks : ClickInv(c)

\* A step leaves the clicks alone that it is not about.
LEMMA OtherClicks ==
    ASSUME NEW c \in Clicks, ClickInv(c),
           place'[c] = place[c], work'[c] = work[c], rows'[c] = rows[c],
           c \in gone => c \in gone', c \in repeated <=> c \in repeated'
    PROVE  ClickInv(c)'
BY DEF ClickInv, Settled

LEMMA TakeBackClick ==
    ASSUME MessagesOK, TakeBack, UNCHANGED table, NEW c \in Clicks, ClickInv(c),
           work'[c] \in {work[c], "none"}
    PROVE  ClickInv(c)'
<1>1. place'[c] = IF place[c] = "delivered" THEN "queued" ELSE place[c]
    BY DEF TakeBack
<1>2. c \in repeated => c \in repeated'
    BY DEF TakeBack
<1>3. place[c] = "delivered" /\ work[c] = "ack" => c \in repeated'
    BY DEF TakeBack, In
<1>4. rows'[c] = rows[c] /\ gone' = gone
    BY DEF table
<1>5. ClickInv(c)
    OBVIOUS
<1>6. CASE place[c] = "delivered"
    <2>1. place'[c] = "queued" /\ (rows[c] > 0 => c \in repeated')
        BY <1>1, <1>2, <1>3, <1>5, <1>6 DEF ClickInv, Settled
    <2>2. rows[c] > 1 => c \in repeated'
        BY <1>2, <1>5 DEF ClickInv
    <2>3. work'[c] = "ack" => rows[c] > 0 \/ c \in gone
        BY <1>5 DEF ClickInv
    <2>4. QED  BY <1>4, <2>1, <2>2, <2>3 DEF ClickInv, Settled
<1>7. CASE place[c] # "delivered"
    <2>1. place'[c] = place[c]
        BY <1>1, <1>7
    <2>2. QED  BY <1>2, <1>4, <1>5, <1>7, <2>1 DEF ClickInv, Settled
<1>8. QED  BY <1>6, <1>7

LEMMA OneRowMoreClick ==
    ASSUME MessagesOK, NEW c \in Clicks, OneRowMore(c)
    PROVE  /\ rows'[c] > 0
           /\ rows'[c] > 1 => rows[c] > 0
           /\ \A d \in Clicks : d # c => rows'[d] = rows[d]
BY DEF OneRowMore, MessagesOK

LEMMA StoreStep == StoreInv /\ [Next]_vars => StoreInv'
<1> SUFFICES ASSUME StoreInv, [Next]_vars, NEW d \in Clicks PROVE ClickInv(d)'
    BY TypeStep DEF StoreInv
<1>1. MessagesOK /\ WorkOK /\ ClickInv(d)
    BY TypeParts DEF StoreInv
<1>2. CASE UNCHANGED <<messages, table, history>>
    BY <1>1, <1>2, OtherClicks DEF messages, table, history
<1>3. ASSUME Exit PROVE ClickInv(d)'
    BY <1>1, <1>3, TakeBackClick DEF Exit
<1>4. ASSUME NEW c \in Clicks, Publish(c) PROVE ClickInv(d)'
    <2>1. CASE c = d
        BY <1>1, <1>4, <2>1 DEF Publish, ClickInv, Settled, MessagesOK, table, history
    <2>2. CASE c # d
        BY <1>1, <1>4, <2>2, OtherClicks DEF Publish, MessagesOK, table, history
    <2>3. QED  BY <2>1, <2>2
<1>5. ASSUME NEW c \in Clicks, DeleteLink(c) PROVE ClickInv(d)'
    <2>1. CASE c = d
        BY <1>1, <1>5, <2>1 DEF DeleteLink, ClickInv, Settled, MessagesOK, messages, history
    <2>2. CASE c # d
        BY <1>1, <1>5, <2>2, OtherClicks DEF DeleteLink, MessagesOK, messages, history
    <2>3. QED  BY <2>1, <2>2
<1>6. ASSUME NEW c \in Clicks, Deliver(c) PROVE ClickInv(d)'
    <2>1. CASE c = d
        BY <1>1, <1>6, <2>1 DEF Deliver, ClickInv, Settled, MessagesOK, table, history
    <2>2. CASE c # d
        BY <1>1, <1>6, <2>2, OtherClicks DEF Deliver, MessagesOK, table, history
    <2>3. QED  BY <2>1, <2>2
<1>7. ASSUME NEW c \in Clicks, Persist(c) PROVE ClickInv(d)'
    <2>1. CASE c = d
        <3>1. work[d] = "persist" /\ work'[d] = "ack" /\ place'[d] = place[d]
            BY <1>1, <1>7, <2>1 DEF Persist, MessagesOK
        <3>2. rows'[d] > 0 /\ (rows'[d] > 1 => rows[d] > 0)
            BY <1>1, <1>7, <2>1, OneRowMoreClick DEF Persist
        <3>3. c \in repeated' <=> c \in repeated \/ place[c] # "delivered"
            BY <1>7 DEF Persist
        <3>4. QED
            BY <1>1, <2>1, <3>1, <3>2, <3>3 DEF ClickInv, Settled
    <2>2. CASE c # d
        <3>1. rows'[d] = rows[d]
            BY <1>1, <1>7, <2>2, OneRowMoreClick DEF Persist
        <3>2. QED
            BY <1>1, <1>7, <2>2, <3>1, OtherClicks DEF Persist, MessagesOK
    <2>3. QED  BY <2>1, <2>2
<1>8. ASSUME NEW c \in Clicks, Ack(c) PROVE ClickInv(d)'
    <2>1. CASE c = d
        <3>1. work[d] = "ack" /\ work'[d] = "none" /\ place'[d] = "acked"
            BY <1>1, <1>8, <2>1 DEF Ack, MessagesOK
        <3>2. rows' = rows /\ gone' = gone /\ repeated' = repeated
            BY <1>8 DEF Ack, table, history
        <3>3. rows[d] > 0 \/ d \in gone
            BY <1>1, <3>1 DEF ClickInv
        <3>4. rows[d] > 1 => d \in repeated
            BY <1>1 DEF ClickInv
        <3>5. QED
            BY <3>1, <3>2, <3>3, <3>4 DEF ClickInv, Settled
    <2>2. CASE c # d
        BY <1>1, <1>8, <2>2, OtherClicks DEF Ack, MessagesOK, table, history
    <2>3. QED  BY <2>1, <2>2
<1>9. ASSUME NEW c \in Clicks, Nack(c) PROVE ClickInv(d)'
    <2>1. HandlerFails(c) /\ gone' = gone
        BY <1>9 DEF Nack
    <2>2. CASE c = d
        <3>1. /\ work[d] = "persist" /\ work'[d] = "none"
              /\ place[d] = "delivered" /\ place'[d] \in {"dead", "queued"}
            BY <1>1, <1>9, <2>1, <2>2 DEF Nack, HandlerFails, MessagesOK
        <3>2. rows[d] > 0 => d \in repeated
            BY <1>1, <3>1 DEF ClickInv, Settled
        <3>3. rows'[d] > 0 => d \in repeated'
            BY <2>1, <2>2, <3>2 DEF HandlerFails
        <3>4. rows'[d] > 1 => d \in repeated'
            BY <1>1, <2>1, <2>2, <3>2, OneRowMoreClick DEF HandlerFails, MessagesOK
        <3>5. QED
            BY <3>1, <3>3, <3>4 DEF ClickInv, Settled
    <2>3. CASE c # d
        <3>1. rows'[d] = rows[d] /\ (d \in repeated' <=> d \in repeated)
            BY <1>1, <2>1, <2>3, OneRowMoreClick DEF HandlerFails
        <3>2. place'[d] = place[d] /\ work'[d] = work[d]
            BY <1>1, <1>9, <2>3 DEF Nack, MessagesOK
        <3>3. QED
            BY <1>1, <2>1, <3>1, <3>2, OtherClicks
    <2>4. QED  BY <2>2, <2>3
<1>10. ASSUME NEW c \in Clicks, ExpireMessage(c) PROVE ClickInv(d)'
    <2>1. CASE c = d
        BY <1>1, <1>10, <2>1 DEF ExpireMessage, ClickInv, Settled, MessagesOK, table, history
    <2>2. CASE c # d
        BY <1>1, <1>10, <2>2, OtherClicks DEF ExpireMessage, MessagesOK, table, history
    <2>3. QED  BY <2>1, <2>2
<1>11. ASSUME NEW c \in Clicks, AnswerStale(c) PROVE ClickInv(d)'
    <2>1. CASE work' = [work EXCEPT ![c] = "none"] /\ UNCHANGED <<place, table, history>>
        <3>1. CASE c = d
            BY <1>1, <1>11, <2>1, <3>1 DEF AnswerStale, ClickInv, Settled, MessagesOK,
                                          table, history
        <3>2. CASE c # d
            BY <1>1, <2>1, <3>2, OtherClicks DEF MessagesOK, table, history
        <3>3. QED  BY <3>1, <3>2
    <2>2. QED  BY <1>3, <1>11, <2>1 DEF AnswerStale
<1>12. CASE Disconnect
    BY <1>1, <1>12, TakeBackClick DEF Disconnect
<1>13. CASE Crash
    BY <1>3, <1>13 DEF Crash
<1>14. CASE StrayCloses \/ Connect \/ ConnectFails \/ ConnectHalf \/ Boot \/ BootUnconnected
    BY <1>2, <1>14 DEF StrayCloses, Connect, ConnectFails, ConnectHalf, Boot, BootUnconnected
<1>15. QED
    BY <1>2, <1>4, <1>5, <1>6, <1>7, <1>8, <1>9, <1>10, <1>11, <1>12, <1>13, <1>14
       DEF Next, vars, messages, table, history

LEMMA StoreInit == Init => StoreInv
<1> SUFFICES ASSUME Init PROVE StoreInv
    OBVIOUS
<1>1. \A c \in Clicks : rows[c] = 0 /\ work[c] = "none" /\ place[c] = "unsent"
    BY DEF Init
<1>2. QED
    BY <1>1, TypeInit DEF StoreInv, ClickInv, Settled

\* The inductive invariant holds always.
THEOREM StoreInvariant == Spec => []StoreInv
<1>1. QED  BY StoreInit, StoreStep, PTL DEF Spec

\* A message leaves the queue for good only when its click is in the table or
\* its link is deleted, whatever fails.
THEOREM AckedStored == Spec => []AckedClicksAreStored
<1>1. StoreInv => AckedClicksAreStored
    BY DEF StoreInv, ClickInv, AckedClicksAreStored
<1>2. QED  BY <1>1, StoreInvariant, PTL

\* A click is counted twice only when its message was put back and its row
\* stored: no redelivery without a loss counts a click again.
THEOREM CountedTwiceExplained == Spec => []CountedTwiceOnlyAfterLoss
<1>1. StoreInv => CountedTwiceOnlyAfterLoss
    BY DEF StoreInv, ClickInv, CountedTwiceOnlyAfterLoss
<1>2. QED  BY <1>1, StoreInvariant, PTL

-----------------------------------------------------------------------------
(* The refinement of ClickDelivery.  No callback runs for a click that was
   not sent; StoreInv has the same of a click that was acknowledged. *)

SentInv == \A c \in Clicks : place[c] \in {"unsent", "lost"} => work[c] = "none"

LEMMA SentStep == MessagesOK /\ SentInv /\ [Next]_vars => SentInv'
<1> SUFFICES ASSUME MessagesOK, SentInv, [Next]_vars, NEW d \in Clicks,
                    place'[d] \in {"unsent", "lost"}
             PROVE  work'[d] = "none"
    BY DEF SentInv
<1>1. ASSUME place[d] \in {"unsent", "lost"}, work'[d] \in {work[d], "none"}
      PROVE  work'[d] = "none"
    BY <1>1 DEF SentInv
<1>2. ASSUME UNCHANGED messages PROVE work'[d] = "none"
    BY <1>1, <1>2 DEF messages
<1>3. ASSUME TakeBack, work'[d] \in {work[d], "none"} PROVE work'[d] = "none"
    <2>1. place[d] \in {"unsent", "lost"}
        BY <1>3 DEF TakeBack
    <2>2. QED  BY <1>1, <1>3, <2>1
<1>4. ASSUME NEW c \in Clicks, Publish(c) PROVE work'[d] = "none"
    <2>1. work'[d] = work[d] /\ place[d] \in {"unsent", "lost"}
        BY <1>4 DEF Publish, MessagesOK
    <2>2. QED  BY <1>1, <2>1
<1>5. ASSUME NEW c \in Clicks, Deliver(c) PROVE work'[d] = "none"
    <2>1. c # d /\ place'[d] = place[d] /\ work'[d] = work[d]
        BY <1>5 DEF Deliver, MessagesOK
    <2>2. QED  BY <1>1, <2>1
<1>6. ASSUME NEW c \in Clicks, Persist(c) PROVE work'[d] = "none"
    <2>1. place[d] \in {"unsent", "lost"} /\ work[c] # "none"
        BY <1>6 DEF Persist
    <2>2. c # d
        BY <2>1 DEF SentInv
    <2>3. work'[d] = work[d]
        BY <1>6, <2>2 DEF Persist, MessagesOK
    <2>4. QED  BY <1>1, <2>1, <2>3
<1>7. ASSUME NEW c \in Clicks, Ack(c) \/ Nack(c) \/ AnswerStale(c) \/ ExpireMessage(c) \/ DeleteLink(c)
      PROVE  work'[d] = "none"
    <2>1. ASSUME Exit PROVE work'[d] = "none"
        BY <2>1 DEF Exit
    <2>2. CASE Ack(c) \/ Nack(c) \/ ExpireMessage(c) \/ DeleteLink(c)
        <3>1. work'[d] \in {work[d], "none"} /\ place[d] \in {"unsent", "lost"}
            BY <2>2 DEF Ack, Nack, ExpireMessage, DeleteLink, messages, MessagesOK
        <3>2. QED  BY <1>1, <3>1
    <2>3. CASE AnswerStale(c)
        <3>1. CASE work' = [work EXCEPT ![c] = "none"] /\ UNCHANGED place
            BY <1>1, <3>1 DEF MessagesOK
        <3>2. QED  BY <2>1, <2>3, <3>1 DEF AnswerStale
    <2>4. QED  BY <1>7, <2>2, <2>3
<1>8. CASE Disconnect
    BY <1>3, <1>8 DEF Disconnect
<1>9. CASE Crash
    BY <1>9 DEF Crash, Exit
<1>10. CASE StrayCloses \/ Connect \/ ConnectFails \/ ConnectHalf \/ Boot \/ BootUnconnected
            \/ UNCHANGED vars
    BY <1>2, <1>10 DEF StrayCloses, Connect, ConnectFails, ConnectHalf, Boot, BootUnconnected,
                       vars, messages
<1>11. QED
    BY <1>4, <1>5, <1>6, <1>7, <1>8, <1>9, <1>10 DEF Next

Stage == [c \in Clicks |-> StageOf(c)]

LEMMA StageMoves ==
    ASSUME MessagesOK, NEW c \in Clicks, NEW q \in Places, place' = [place EXCEPT ![c] = q]
    PROVE  Stage' = [Stage EXCEPT ![c] = IF q \in {"queued", "delivered"} THEN "pending" ELSE q]
BY DEF Stage, StageOf, MessagesOK

LEMMA StageStays ==
    ASSUME UNCHANGED place \/ TakeBack PROVE Stage' = Stage
BY DEF Stage, StageOf, TakeBack

LEMMA DeliveryStep ==
    StoreInv /\ SentInv /\ [Next]_vars => [CD!DeliveryNext]_(CD!deliveryVars)
<1> SUFFICES ASSUME StoreInv, SentInv, [Next]_vars
             PROVE  CD!DeliveryNext \/ UNCHANGED <<Stage, rows, gone>>
    BY DEF CD!deliveryVars, Stage
<1>1. MessagesOK
    BY TypeParts DEF StoreInv
<1>2. ASSUME UNCHANGED place \/ TakeBack, UNCHANGED table PROVE UNCHANGED <<Stage, rows, gone>>
    BY <1>2, StageStays DEF table
<1>3. ASSUME NEW c \in Clicks, Publish(c) PROVE CD!Send(c)
    <2>1. Stage[c] = "unsent" /\ UNCHANGED <<rows, gone>>
        BY <1>3 DEF Stage, StageOf, Publish, table
    <2>2. \/ Stage' = [Stage EXCEPT ![c] = "pending"]
          \/ Stage' = [Stage EXCEPT ![c] = "lost"]
        BY <1>1, <1>3, StageMoves DEF Publish, Places
    <2>3. QED  BY <2>1, <2>2 DEF CD!Send, CD!Move, Stage
<1>4. ASSUME NEW c \in Clicks, DeleteLink(c) PROVE CD!Unlink(c)
    BY <1>2, <1>4, StageStays DEF DeleteLink, messages, CD!Unlink, Stage
<1>5. ASSUME NEW c \in Clicks, Deliver(c) PROVE UNCHANGED <<Stage, rows, gone>>
    <2>1. Stage' = [Stage EXCEPT ![c] = "pending"] /\ Stage[c] = "pending"
        BY <1>1, <1>5, StageMoves DEF Deliver, Places, Stage, StageOf
    <2>2. Stage' = Stage
        BY <2>1 DEF Stage
    <2>3. QED  BY <1>5, <2>2 DEF Deliver, table
<1>6. ASSUME NEW c \in Clicks, work[c] = "persist" PROVE Stage[c] \in {"pending", "dead"}
    <2>1. place[c] \notin {"unsent", "lost", "acked"}
        BY <1>6 DEF SentInv, StoreInv, ClickInv
    <2>2. QED  BY <1>1, <2>1 DEF Stage, StageOf, MessagesOK, Places
<1>7. ASSUME NEW c \in Clicks, Persist(c) PROVE CD!Count(c)
    <2>1. Stage' = Stage /\ Stage[c] \in {"pending", "dead"}
        BY <1>6, <1>7, StageStays DEF Persist
    <2>2. QED  BY <1>7, <2>1 DEF Persist, OneRowMore, CD!Count, Stage
<1>8. ASSUME NEW c \in Clicks, Ack(c) PROVE CD!Settle(c)
    <2>1. Stage' = [Stage EXCEPT ![c] = "acked"] /\ Stage[c] = "pending"
        BY <1>1, <1>8, StageMoves DEF Ack, Places, Stage, StageOf
    <2>2. rows[c] > 0 \/ c \in gone
        BY <1>8 DEF Ack, StoreInv, ClickInv
    <2>3. QED  BY <1>8, <2>1, <2>2 DEF Ack, table, CD!Settle, CD!Move, Stage
<1>9. ASSUME NEW c \in Clicks, Nack(c)
      PROVE  CD!Count(c) \/ CD!GiveUp(c) \/ UNCHANGED <<Stage, rows, gone>>
    <2>1. /\ Stage[c] = "pending" /\ gone' = gone
          /\ Stage' = [Stage EXCEPT ![c] = "pending"] \/ Stage' = [Stage EXCEPT ![c] = "dead"]
        BY <1>1, <1>9, StageMoves DEF Nack, Places, Stage, StageOf
    <2>2. Stage' = Stage \/ Stage' = [Stage EXCEPT ![c] = "dead"]
        BY <2>1 DEF Stage
    <2>3. CASE rows' = rows
        BY <2>1, <2>2, <2>3 DEF CD!GiveUp, CD!Move, Stage
    <2>4. CASE OneRowMore(c) /\ c \notin gone
        BY <2>1, <2>2, <2>4 DEF CD!Count, CD!Move, OneRowMore, Stage
    <2>5. QED  BY <1>9, <2>3, <2>4 DEF Nack, HandlerFails
<1>10. ASSUME NEW c \in Clicks, ExpireMessage(c) PROVE CD!GiveUp(c)
    <2>1. Stage' = [Stage EXCEPT ![c] = "dead"] /\ Stage[c] = "pending"
        BY <1>1, <1>10, StageMoves DEF ExpireMessage, Places, Stage, StageOf
    <2>2. QED  BY <1>10, <2>1 DEF ExpireMessage, table, CD!GiveUp, CD!Move, Stage
<1>11. ASSUME (\E c \in Clicks : AnswerStale(c)) \/ Disconnect \/ Crash
       PROVE  UNCHANGED <<Stage, rows, gone>>
    BY <1>2, <1>11 DEF AnswerStale, Exit, Disconnect, Crash
<1>12. CASE StrayCloses \/ Connect \/ ConnectFails \/ ConnectHalf \/ Boot \/ BootUnconnected
            \/ UNCHANGED vars
    BY <1>2, <1>12 DEF StrayCloses, Connect, ConnectFails, ConnectHalf, Boot, BootUnconnected,
                       vars, messages, table
<1>13. QED
    BY <1>3, <1>4, <1>5, <1>7, <1>8, <1>9, <1>10, <1>11, <1>12 DEF Next, CD!DeliveryNext

\* Delivery at least once: the pipeline with its callbacks, connections and
\* crashes implements ClickDelivery.
THEOREM ImplementsClickDelivery == Spec => AtLeastOnce
<1>1. Init => SentInv
    BY DEF Init, SentInv
<1>2. Init => CD!DeliveryInit
    BY DEF Init, CD!DeliveryInit, StageOf
<1>3. StoreInv /\ SentInv /\ [Next]_vars => SentInv'
    BY SentStep, TypeParts DEF StoreInv
<1>4. QED
    BY <1>1, <1>2, <1>3, DeliveryStep, StoreInvariant, PTL
    DEF Spec, AtLeastOnce, CD!DeliverySpec

-----------------------------------------------------------------------------
(* The two disagreements with the README about the pipeline, for every value *)
(* of the constants.                                                         *)

\* A process that lost its consumer does not consume again for as long as it
\* runs, connected or not: what is queued waits, or becomes a dead letter when
\* its day is over.  (README 529 says that events are processed normally when
\* RabbitMQ recovers.)
LostConsumerStaysLost ==
    [][process /\ process' /\ ~consuming =>
         /\ ~consuming'
         /\ \A c \in Clicks : place[c] = "queued" => place'[c] \in {"queued", "dead"}]_vars

\* No number of failures makes a click a dead letter: it becomes one only out
\* of the queue, where its day is over, unless there are to be no retries at
\* all.  (README 295 says that failed messages are dead letters after 3 retries.)
FailuresMakeNoDeadLetter ==
    [][MAX_RETRIES > 0 =>
         \A c \in Clicks : place'[c] = "dead" => place[c] = "dead" \/ ExpireMessage(c)]_vars

\* Only a booting process has its consumer registered.
THEOREM ConsumerLost == Spec => LostConsumerStaysLost
<1>1. ASSUME TypeOK, [Next]_vars, process, process', ~consuming
      PROVE  /\ ~consuming'
             /\ \A c \in Clicks : place[c] = "queued" => place'[c] \in {"queued", "dead"}
    <2>1. MessagesOK /\ \A c \in Clicks : place[c] # "delivered"
        BY <1>1, TypeParts DEF WorkOK
    <2>2. ASSUME NEW c \in Clicks, Publish(c) \/ ExpireMessage(c)
          PROVE  /\ ~consuming'
                 /\ \A d \in Clicks : place[d] = "queued" => place'[d] \in {"queued", "dead"}
        BY <1>1, <2>1, <2>2 DEF Publish, ExpireMessage, client, MessagesOK
    <2>3. ASSUME NEW c \in Clicks,
                 \/ DeleteLink(c) \/ Deliver(c) \/ Persist(c) \/ Ack(c) \/ Nack(c) \/ AnswerStale(c)
          PROVE  UNCHANGED <<consuming, place>>
        BY <1>1, <2>1, <2>3 DEF DeleteLink, Deliver, Persist, Ack, Nack, AnswerStale, Exit,
                                client, messages
    <2>4. ASSUME Disconnect
          PROVE  /\ ~consuming'
                 /\ \A d \in Clicks : place[d] = "queued" => place'[d] \in {"queued", "dead"}
        BY <2>4 DEF Disconnect, TakeBack
    <2>5. ASSUME \/ StrayCloses \/ Connect \/ ConnectFails \/ ConnectHalf
                 \/ Crash \/ Boot \/ BootUnconnected \/ UNCHANGED vars
          PROVE  UNCHANGED <<consuming, place>>
        BY <1>1, <2>5 DEF StrayCloses, Connect, ConnectFails, ConnectHalf, Crash, Exit, Boot,
                          BootUnconnected, vars, messages
    <2>6. QED
        BY <1>1, <2>2, <2>3, <2>4, <2>5 DEF Next
<1>2. TypeOK /\ [Next]_vars
        => [process /\ process' /\ ~consuming =>
              /\ ~consuming'
              /\ \A c \in Clicks : place[c] = "queued" => place'[c] \in {"queued", "dead"}]_vars
    BY <1>1
<1>3. QED
    BY <1>2, TypeCorrect, PTL DEF Spec, LostConsumerStaysLost

\* A failure puts the message back, whatever came before: the header that
\* counts the retries is never set.
THEOREM NoDeadLetterByFailure == Spec => FailuresMakeNoDeadLetter
<1>1. ASSUME TypeOK, [Next]_vars, MAX_RETRIES > 0, NEW c \in Clicks, place'[c] = "dead"
      PROVE  place[c] = "dead" \/ ExpireMessage(c)
    <2>1. MessagesOK /\ MAX_RETRIES \in Nat
        BY <1>1, TypeParts, AnalyticsAssumption
    <2>2. ASSUME NEW d \in Clicks, Nack(d) PROVE place[c] = "dead"
        <3>1. ~(RetryCount(d) >= MAX_RETRIES)
            BY <1>1, <2>1 DEF RetryCount
        <3>2. place' = [place EXCEPT ![d] = "queued"]
            BY <2>2, <3>1 DEF Nack
        <3>3. QED  BY <1>1, <2>1, <3>2 DEF MessagesOK
    <2>3. ASSUME NEW d \in Clicks,
                 \/ Publish(d) \/ Deliver(d) \/ Ack(d)
                 \/ d # c /\ ExpireMessage(d)
          PROVE  place[c] = "dead"
        BY <1>1, <2>1, <2>3 DEF Publish, Deliver, Ack, ExpireMessage, MessagesOK
    <2>4. ASSUME UNCHANGED place \/ TakeBack PROVE place[c] = "dead"
        BY <1>1, <2>4 DEF TakeBack
    <2>5. ASSUME \/ \E d \in Clicks : DeleteLink(d) \/ Persist(d) \/ AnswerStale(d)
                 \/ Disconnect \/ StrayCloses \/ Connect \/ ConnectFails \/ ConnectHalf
                 \/ Crash \/ Boot \/ BootUnconnected \/ UNCHANGED vars
          PROVE  UNCHANGED place \/ TakeBack
        BY <2>5 DEF DeleteLink, Persist, AnswerStale, Exit, Disconnect, StrayCloses, Connect,
                    ConnectFails, ConnectHalf, Crash, Boot, BootUnconnected, vars, messages
    <2>6. QED
        BY <1>1, <2>2, <2>3, <2>4, <2>5 DEF Next
<1>2. TypeOK /\ [Next]_vars
        => [MAX_RETRIES > 0 =>
              \A c \in Clicks : place'[c] = "dead" => place[c] = "dead" \/ ExpireMessage(c)]_vars
    BY <1>1
<1>3. QED
    BY <1>2, TypeCorrect, PTL DEF Spec, FailuresMakeNoDeadLetter

=============================================================================
