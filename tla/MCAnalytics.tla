----------------------------- MODULE MCAnalytics -----------------------------
(* The model-checking runs of Analytics. *)
EXTENDS Analytics, TLC

=============================================================================
