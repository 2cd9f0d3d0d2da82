---------------------------- MODULE SessionChain ----------------------------
(***************************************************************************)
(* What the rotation of refresh tokens promises.  A session is a chain: it *)
(* starts with a token, and at any time one token carries it, or one       *)
(* request that has taken the token in exchange and will draw the next.    *)
(* It ends once, and no token is drawn twice.  Nothing is promised of a    *)
(* session any more once two requests have presented one of its tokens     *)
(* at the same time: such a session is free.                               *)
(*                                                                         *)
(* Sessions are named by their first tokens.                               *)
(***************************************************************************)
CONSTANTS TokenIds, Handlers

VARIABLES
    drawn,    \* the tokens that were ever drawn
    holder,   \* holder[s]: what carries session s on, in a set of one or none
    free      \* the sessions of which nothing is promised

chainVars == <<drawn, holder, free>>

ChainInit ==
    /\ drawn = {}
    /\ holder = [s \in TokenIds |-> {}]
    /\ free = {}

Hold(s, S) == holder' = [holder EXCEPT ![s] = S]

\* A login draws the first token.
Start(s) ==
    /\ s \notin drawn \union free
    /\ drawn' = drawn \union {s}
    /\ Hold(s, {s})
    /\ UNCHANGED free

\* A refresh takes the token that carries the session, which is void now ...
Exchange(s, t, h) ==
    /\ s \notin free /\ holder[s] = {t}
    /\ Hold(s, {h})
    /\ UNCHANGED <<drawn, free>>

\* ... and draws the next one.
Renew(s, h, t) ==
    /\ s \notin free /\ holder[s] = {h}
    /\ t \notin drawn
    /\ drawn' = drawn \union {t}
    /\ Hold(s, {t})
    /\ UNCHANGED free

\* The session is logged out, or the request that carries it dies.
End(s) ==
    /\ s \notin free /\ holder[s] # {}
    /\ Hold(s, {})
    /\ UNCHANGED <<drawn, free>>

\* Only a live session can get out of hand, and it does so alone.
Overlap(s) ==
    /\ s \notin free /\ holder[s] # {}
    /\ free' = free \union {s}
    /\ Hold(s, {})
    /\ UNCHANGED drawn

FreeDraw(t) ==
    /\ free # {}
    /\ t \notin drawn
    /\ drawn' = drawn \union {t}
    /\ UNCHANGED <<holder, free>>

ChainNext ==
    \E s \in TokenIds :
        \/ Start(s) \/ End(s) \/ Overlap(s) \/ FreeDraw(s)
        \/ \E t \in TokenIds, h \in Handlers : Exchange(s, t, h) \/ Renew(s, h, t)

ChainSpec == ChainInit /\ [][ChainNext]_chainVars

=============================================================================
