-------------------------- MODULE MCMediaLifecycle --------------------------
(* Small instances of MediaLifecycle for TLC. *)
EXTENDS MediaLifecycle

=============================================================================
