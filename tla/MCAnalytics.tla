----------------------------- MODULE MCAnalytics ------------------------------
(* A small instance of Analytics for TLC. *)
EXTENDS Analytics, TLC

Symmetry == Permutations(Invitations) \cup Permutations(Flushes)
=============================================================================
