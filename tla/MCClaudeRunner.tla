---------------------------- MODULE MCClaudeRunner ----------------------------
(* Instances of ClaudeRunner for TLC. *)
EXTENDS ClaudeRunner
=============================================================================
