----------------------------- MODULE MCUrlCreate -----------------------------
(* Values for the model-checking runs of UrlCreate. *)
EXTENDS UrlCreate, TLC

CONSTANTS u1, t1, c1, c2, r1, p1, p2, p3

Ask(alias) == [owner |-> u1, alias |-> alias, target |-> t1, expires |-> Never]

\* Requests without an alias, with one that may also be drawn as a code, and
\* with a reserved one.
MCInputs == {Ask(NoAlias), Ask(c1), Ask(r1)}

MCSymmetry == Permutations(Requests) \union Permutations(Ids)

=============================================================================
