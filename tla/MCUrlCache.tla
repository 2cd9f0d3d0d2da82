----------------------------- MODULE MCUrlCache -----------------------------
(* Values for the model-checking runs of UrlCache. *)
EXTENDS UrlCache, TLC

CONSTANTS i1, i2, u1, u2, c1, a1, t1, t2, h1, h2, h3

\* One link with a code and an alias is there at the start.
MCRow == [owner |-> u1, code |-> c1, alias |-> a1, target |-> t1,
          active |-> TRUE, expires |-> Never]

MCSeed == [i \in Ids |-> IF i = i1 THEN MCRow ELSE NoRow]

\* Another owner's link may get a code that is equal to the alias.
MCNewRows == {[owner |-> u2, code |-> a1, alias |-> NoAlias, target |-> t1,
               active |-> TRUE, expires |-> Never]}

MCNoChange == [target |-> Keep, active |-> Keep, expires |-> Keep]

MCChanges == {[MCNoChange EXCEPT !.target = t2, !.expires = 1],
              [MCNoChange EXCEPT !.active = FALSE]}

MCEndings == {[MCNoChange EXCEPT !.expires = 3],
              [MCNoChange EXCEPT !.active = FALSE]}

MCSymmetry == Permutations(Handlers)

=============================================================================
