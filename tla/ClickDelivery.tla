---------------------------- MODULE ClickDelivery ----------------------------
(***************************************************************************)
(* What the click pipeline promises, without connections, callbacks or     *)
(* processes: delivery at least once.  A click that is sent stays in       *)
(* flight until it is counted or its link is deleted, or until it ends as  *)
(* a dead letter.  An end is final: a click that was acknowledged is never *)
(* counted again, and a lost one never.                                    *)
(***************************************************************************)
EXTENDS Naturals

CONSTANT Clicks

VARIABLES
    stage,  \* stage[c]: how far click c is on its way
    rows,   \* rows[c]: how often click c is counted, 2 or more as 2
    gone    \* the clicks whose link is deleted

deliveryVars == <<stage, rows, gone>>

DeliveryInit ==
    /\ stage = [c \in Clicks |-> "unsent"]
    /\ rows = [c \in Clicks |-> 0]
    /\ gone = {}

Move(c, from, to) == stage[c] = from /\ stage' = [stage EXCEPT ![c] = to]

Send(c) ==
    /\ Move(c, "unsent", "pending") \/ Move(c, "unsent", "lost")
    /\ UNCHANGED <<rows, gone>>

\* A callback may still store the row of a message that has become a dead
\* letter meanwhile, and a message may become one in the same step.
Count(c) ==
    /\ c \notin gone
    /\ \/ UNCHANGED stage /\ stage[c] \in {"pending", "dead"}
       \/ Move(c, "pending", "dead")
    /\ rows' = [rows EXCEPT ![c] = IF @ = 0 THEN 1 ELSE 2]
    /\ UNCHANGED gone

Settle(c) ==
    /\ rows[c] > 0 \/ c \in gone
    /\ Move(c, "pending", "acked")
    /\ UNCHANGED <<rows, gone>>

GiveUp(c) ==
    /\ Move(c, "pending", "dead")
    /\ UNCHANGED <<rows, gone>>

Unlink(c) ==
    /\ c \notin gone
    /\ gone' = gone \union {c}
    /\ rows' = [rows EXCEPT ![c] = 0]
    /\ UNCHANGED stage

DeliveryNext ==
    \E c \in Clicks : Send(c) \/ Count(c) \/ Settle(c) \/ GiveUp(c) \/ Unlink(c)

DeliverySpec == DeliveryInit /\ [][DeliveryNext]_deliveryVars

=============================================================================
