----------------------------- MODULE MCWorktreeGC -----------------------------
(* Instances of WorktreeGC for TLC. *)
EXTENDS WorktreeGC
=============================================================================
