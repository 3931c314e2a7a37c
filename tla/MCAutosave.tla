----------------------------- MODULE MCAutosave -----------------------------
(* Small instances of Autosave for TLC. *)
EXTENDS Autosave, TLC

Symmetry == Permutations(Tabs) \cup Permutations(Paths)

=============================================================================
