------------------------------ MODULE LinkView ------------------------------
(***************************************************************************)
(* What redirects promise about edits, without caches or requests.  The    *)
(* owners of links edit what each name stands for; what a visitor may be   *)
(* sent to under a name is a set of versions of links.  A version becomes  *)
(* visible under a name only while the name stands for it, and a version   *)
(* that was forgotten after an edit never shows up again.                  *)
(***************************************************************************)
CONSTANTS Names, Versions

VARIABLES
    standsFor,  \* standsFor[n]: the versions the owners have put under n
    visible     \* visible[n]: the versions a visitor of n may be sent to

viewVars == <<standsFor, visible>>

ViewInit ==
    /\ standsFor \in [Names -> SUBSET Versions]
    /\ visible = [n \in Names |-> {}]

\* Owners edit links, some versions are forgotten, and some are picked up
\* from what the name stood for when the step began.
ViewStep ==
    /\ standsFor' \in [Names -> SUBSET Versions]
    /\ visible' \in [Names -> SUBSET Versions]
    /\ \A n \in Names : visible'[n] \subseteq visible[n] \union standsFor[n]

ViewSpec == ViewInit /\ [][ViewStep]_viewVars

=============================================================================
