---------------------------- MODULE MCMetricsHub ----------------------------
(***************************************************************************)
(* Viewers that take turns, and feed objects, may be exchanged: no action  *)
(* tells one from another.  For the runs without liveness.                 *)
(***************************************************************************)
EXTENDS MetricsHub, TLC

Symmetry == Permutations(Viewers) \cup Permutations(Feeds)
=============================================================================
