------------------------------ MODULE MCService ------------------------------
(* Values for the model-checking runs of Service. *)
EXTENDS Service, TLC

CONSTANTS r1, r2, main, i1, i2, s1, s2

Load(entry, routes, signals) == [entry |-> entry, routes |-> routes, signals |-> signals]

MCWorkloads == {Load("server", {"auth", "create"}, {}),
                Load("server", {"redirect", "health"}, Signals),
                Load("server", {"auth"}, {s1}), Load("server", {"auth"}, {s2}),
                Load("serverless", {"auth"}, {}),
                Load("placeholder", Kinds, {})}

MCSymmetry == Permutations({r1, r2}) \union Permutations({i1, i2}) \union Permutations({s1, s2})

=============================================================================
