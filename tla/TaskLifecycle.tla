---------------------------- MODULE TaskLifecycle ----------------------------
(***************************************************************************)
(* What the service promises of a task, seen from the status column alone: *)
(* it is queued once, runs at most once, with no other task of its         *)
(* repository running, and ends in one terminal status that never changes. *)
(* Dispatch implements this as long as no claim is contested.              *)
(***************************************************************************)
EXTENDS Naturals

CONSTANTS Tasks, Repos, RepoOf

Ends == {"done", "failed", "cancelled", "orphaned"}

VARIABLE status

Init == status = [t \in Tasks |-> "absent"]

Submit(t) ==
  /\ status[t] = "absent"
  /\ status' = [status EXCEPT ![t] = "queued"]

Begin(t) ==
  /\ status[t] = "queued"
  /\ \A u \in Tasks : RepoOf[u] = RepoOf[t] => status[u] # "running"
  /\ status' = [status EXCEPT ![t] = "running"]

End(t, s) ==
  /\ status[t] = "running"
  /\ status' = [status EXCEPT ![t] = s]

Next ==
  \E t \in Tasks : Submit(t) \/ Begin(t) \/ \E s \in Ends : End(t, s)

Spec == Init /\ [][Next]_status
=============================================================================
