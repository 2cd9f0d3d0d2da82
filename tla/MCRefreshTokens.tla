--------------------------- MODULE MCRefreshTokens ---------------------------
(* Values for the model-checking runs of RefreshTokens. *)
EXTENDS RefreshTokens, TLC

CONSTANTS h1, h2, e1, k1, k2, k3, k4

MCSymmetry ==
    Permutations(Handlers) \union Permutations(TokenIds) \union Permutations(Emails)

=============================================================================
