----------------------------- MODULE MCCIWatcher -----------------------------
(* Instances of CIWatcher for TLC. *)
EXTENDS CIWatcher

CONSTANTS t1, t2

Completed == {{"success"}, {"success", "failure"}, {"action_required"}}
WithStale == {{"success", "stale"}}
=============================================================================
