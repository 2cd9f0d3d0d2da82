----------------------------- MODULE RedisClient -----------------------------
(***************************************************************************)
(* The wrapper around ioredis that the whole process shares: one variable  *)
(* for the connection in use, and two flags that the event handlers of     *)
(* every connection ever made write.                                       *)
(*                                                                         *)
(* A connection is named by the call of connect() that makes it.  The      *)
(* event error of an attempt that fails is followed by close, which does   *)
(* the same to the flags, and a close by a new attempt until there were    *)
(* MAX_RETRIES in a row.                                                   *)
(***************************************************************************)
EXTENDS Naturals, FiniteSets

CONSTANTS
    Clients,        \* the connections that connect() may make
    NoClient,
    MAX_RETRIES,    \* the attempts after which retryStrategy gives up
    MaxFaults       \* bound: connections that drop and stops of Redis

ASSUME RedisAssumption ==
    /\ NoClient \notin Clients
    /\ MAX_RETRIES \in Nat
    /\ MaxFaults \in Nat

VARIABLES
    client,         \* this.client
    isAvailable,    \* this.isAvailable
    everConnected,  \* this.everConnected
    link,           \* link[c]: the status of connection c
    times,          \* times[c]: the attempts of c since it was last ready
    manuallyClosing,\* the connections that were told to quit
    redisUp,        \* whether Redis can be reached
    faults          \* the faults so far

redis == <<client, isAvailable, everConnected, link, times, manuallyClosing, redisUp, faults>>

Statuses == {"none", "connecting", "connect", "ready", "reconnecting", "end"}

Open(c) == link[c] \in {"connect", "ready"}

Made == {c \in Clients : link[c] # "none"}

RedisTypeOK ==
    /\ client \in Clients \union {NoClient}
    /\ isAvailable \in BOOLEAN /\ everConnected \in BOOLEAN
    /\ link \in [Clients -> Statuses]
    /\ times \in [Clients -> 0 .. MAX_RETRIES]
    /\ manuallyClosing \in SUBSET Clients
    /\ redisUp \in BOOLEAN
    /\ faults \in 0 .. MaxFaults

RedisInit ==
    /\ client = NoClient
    /\ isAvailable = FALSE
    /\ everConnected = FALSE
    /\ link = [c \in Clients |-> "none"]
    /\ times = [c \in Clients |-> 0]
    /\ manuallyClosing = {}
    /\ redisUp \in BOOLEAN
    /\ faults = 0

\* connect() until its await: the connection it makes takes the place of the
\* one there was, whose handlers stay.
NewClient(c) ==
    /\ link[c] = "none"
    /\ client' = c
    /\ link' = [link EXCEPT ![c] = "connecting"]
    /\ UNCHANGED <<isAvailable, everConnected, times, manuallyClosing, redisUp, faults>>

OnConnect(c) ==
    /\ redisUp
    /\ link[c] \in {"connecting", "reconnecting"}
    /\ link' = [link EXCEPT ![c] = "connect"]
    /\ isAvailable' = TRUE
    /\ everConnected' = TRUE
    /\ UNCHANGED <<client, times, manuallyClosing, redisUp, faults>>

OnReady(c) ==
    /\ redisUp
    /\ link[c] = "connect"
    /\ link' = [link EXCEPT ![c] = "ready"]
    /\ times' = [times EXCEPT ![c] = 0]
    /\ isAvailable' = TRUE
    /\ UNCHANGED <<client, everConnected, manuallyClosing, redisUp, faults>>

\* Mutant: the attempts are counted without a limit.
RetryForever(c) ==
    /\ link' = [link EXCEPT ![c] = "reconnecting"]
    /\ times' = [times EXCEPT ![c] = @ + 1]
    /\ UNCHANGED manuallyClosing

retries(c) == c \notin manuallyClosing /\ times[c] < MAX_RETRIES

\* retryStrategy: another attempt, or none any more; a connection that was told
\* to quit does not ask it.
Retry(c) ==
    /\ link' = [link EXCEPT ![c] = IF retries(c) THEN "reconnecting" ELSE "end"]
    /\ times' = [times EXCEPT ![c] = IF retries(c) THEN @ + 1 ELSE @]
    /\ UNCHANGED manuallyClosing

\* Mutant: the event close is logged only.
CloseUnnoticed(c) == Retry(c) /\ UNCHANGED <<client, isAvailable, everConnected>>

\* Mutant: a close starts over, with no connection made yet.
CloseForgets(c) ==
    Retry(c) /\ isAvailable' = FALSE /\ everConnected' = FALSE /\ UNCHANGED client

\* The events error and close of connection c; when it was the first attempt,
\* also the catch block of connect().
OnClose(c) == Retry(c) /\ isAvailable' = FALSE /\ UNCHANGED <<client, everConnected>>

AttemptFails(c) ==
    /\ ~redisUp
    /\ link[c] \in {"connecting", "reconnecting"}
    /\ OnClose(c)
    /\ UNCHANGED <<redisUp, faults>>

Fault == faults < MaxFaults /\ faults' = faults + 1

\* The loss of a connection is noticed: Redis is gone, or only the network was,
\* or Redis has closed a connection that was to quit.
Drops(c) ==
    /\ Open(c)
    /\ OnClose(c)
    /\ \/ (~redisUp \/ c \in manuallyClosing) /\ UNCHANGED faults
       \/ redisUp /\ Fault
    /\ UNCHANGED redisUp

RedisStops ==
    /\ redisUp /\ Fault
    /\ redisUp' = FALSE
    /\ UNCHANGED <<client, isAvailable, everConnected, link, times, manuallyClosing>>

RedisStarts ==
    /\ ~redisUp
    /\ redisUp' = TRUE
    /\ UNCHANGED <<client, isAvailable, everConnected, link, times, manuallyClosing, faults>>

getClient == IF isAvailable THEN client ELSE NoClient

-----------------------------------------------------------------------------
(* disconnect(), with no command waiting for the connection. *)

\* QUIT is sent on a connection that is open.
SendQuit ==
    /\ client # NoClient /\ Open(client)
    /\ manuallyClosing' = manuallyClosing \union {client}
    /\ UNCHANGED <<client, isAvailable, everConnected, link, times, redisUp, faults>>

\* Redis answers.  It closes the connection then, but another QUIT may come
\* before ioredis has handled that.
QuitAnswered ==
    /\ redisUp
    /\ client \in manuallyClosing /\ Open(client)
    /\ isAvailable' = FALSE
    /\ UNCHANGED <<client, everConnected, link, times, manuallyClosing, redisUp, faults>>

\* A connection that is not there at the moment has nothing to send: QUIT
\* succeeds at once.  The status stays, until an attempt that is under way has
\* come to an end, or for good when there is none.  Without a connection there
\* is nothing to do.
QuitOffline ==
    /\ client # NoClient => link[client] \in {"connecting", "reconnecting"}
    /\ isAvailable' = FALSE
    /\ manuallyClosing' = manuallyClosing \union ({client} \ {NoClient})
    /\ UNCHANGED <<client, everConnected, link, times, redisUp, faults>>

\* A connection that has ended rejects every command, also one that waits for
\* its answer.
QuitRejected == client # NoClient /\ link[client] = "end"

=============================================================================
