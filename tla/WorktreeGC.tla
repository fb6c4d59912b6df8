------------------------------ MODULE WorktreeGC ------------------------------
(***************************************************************************)
(* Worktrees and the rows that point to them: the worker that makes and     *)
(* removes them, recovery at boot, and the daily sweep (gc/runner.go, the   *)
(* worktree steps of worker.go).                                            *)
(*                                                                         *)
(* The sweep is one goroutine beside the workers; at boot it runs before    *)
(* the scheduler starts.  A git command and a statement are steps of their  *)
(* own, between which the process may die.  Claims, gates and stops are     *)
(* Dispatch's matter: here a worker may end any way it can.                 *)
(***************************************************************************)
EXTENDS Integers, FiniteSets, Sequences

CONSTANTS
  Tasks,         \* numbered: a larger one was created later
  RetentionDays,
  PageLimit,     \* rows a List returns
  Stuck,         \* tasks whose directory can never be removed
  Faults,        \* what may fail now and then: "db", "git", "rm"
  MaxRestarts,   \* bound on crashes and shutdowns, together
  NoTask

ASSUME WorktreeGCAssumption ==
  /\ Tasks \subseteq Nat /\ IsFiniteSet(Tasks) /\ Stuck \subseteq Tasks
  /\ RetentionDays \in Nat \ {0} /\ PageLimit \in Nat \ {0} /\ MaxRestarts \in Nat
  /\ Faults \subseteq {"db", "git", "rm"}
  /\ NoTask \notin Tasks

Unfinished == -1

VARIABLES
  status,
  path,     \* worktree_path is set
  age,      \* days since finished_at, up to RetentionDays; Unfinished: NULL
  dir,      \* the worktree on disk
  added,    \* tasks whose branch git has made
  worker,   \* none, started, created, claude, ending, cleanup
  gc,       \* boot, orphans, list, sweep, idle
  serving,  \* the scheduler has been started
  left,     \* statuses the sweep has still to list
  todo,     \* rows of the list in hand
  hand,     \* row whose directory is gone, its pointer to be cleared
  restarts, \* crashes and shutdowns so far
  stopping, \* SIGTERM has come: every context is done
  unsaved,  \* history: running rows with changes in their worktree when the
            \* process ended
  stopped   \* history: the same when it was told to end

row == <<status, path, age>>
disk == <<dir, added>>
sweeper == <<gc, serving, left, todo, hand>>
life == <<restarts, stopping, unsaved, stopped>>
vars == <<row, disk, worker, sweeper, life>>

TypeOK ==
  /\ status \in [Tasks -> {"queued", "running", "done", "failed", "cancelled", "orphaned"}]
  /\ path \in [Tasks -> BOOLEAN]
  /\ age \in [Tasks -> Unfinished..RetentionDays]
  /\ dir \in [Tasks -> {"absent", "clean", "dirty"}]
  /\ added \subseteq Tasks
  /\ worker \in [Tasks -> {"none", "started", "created", "claude", "ending", "cleanup"}]
  /\ gc \in {"boot", "orphans", "list", "sweep", "idle"}
  /\ serving \in BOOLEAN
  /\ left \in Seq({"failed", "cancelled"}) /\ Len(left) =< 2
  /\ todo \subseteq Tasks
  /\ hand \in Tasks \cup {NoTask}
  /\ hand # NoTask => gc = "sweep" /\ dir[hand] = "absent"
  /\ restarts \in 0..MaxRestarts
  /\ stopping \in BOOLEAN
  /\ unsaved \subseteq Tasks /\ stopped \subseteq Tasks

Init ==
  /\ status = [t \in Tasks |-> "queued"]
  /\ path = [t \in Tasks |-> FALSE]
  /\ age = [t \in Tasks |-> Unfinished]
  /\ dir = [t \in Tasks |-> "absent"] /\ added = {}
  /\ worker = [t \in Tasks |-> "none"]
  /\ gc = "boot" /\ serving = FALSE /\ left = <<>> /\ todo = {} /\ hand = NoTask
  /\ restarts = 0 /\ stopping = FALSE /\ unsaved = {} /\ stopped = {}

-----------------------------------------------------------------------------
Fails(kind) == kind \in Faults

Day ==
  /\ \E t \in Tasks : age[t] \in 0..(RetentionDays - 1)
  /\ age' = [t \in Tasks |-> IF age[t] \in 0..(RetentionDays - 1) THEN age[t] + 1 ELSE age[t]]
  /\ UNCHANGED <<status, path, disk, worker, sweeper, life>>

(* The worker                                                               *)

Goto(t, label) == worker' = [worker EXCEPT ![t] = label]

\* The row is written whole, from the worker's copy, or the write is lost, as
\* every write is whose context is done.
Update(t, s, p, a) ==
  \/ /\ ~stopping
     /\ status' = [status EXCEPT ![t] = s]
     /\ path' = [path EXCEPT ![t] = p]
     /\ age' = [age EXCEPT ![t] = a]
  \/ (stopping \/ Fails("db")) /\ UNCHANGED row

\* ClaimNext and "mark running"; a failing write leaves a row nobody works on.
Start(t) ==
  /\ serving /\ ~stopping /\ status[t] = "queued"
  /\ status' = [status EXCEPT ![t] = "running"]
  /\ Goto(t, "started") \/ (Fails("db") /\ UNCHANGED worker)
  /\ UNCHANGED <<path, age, disk, sweeper, life>>

\* git worktree add -b: neither the branch nor the directory may exist.  One
\* that breaks off may leave the branch, or both.
CreateWorktree(t) ==
  LET new == t \notin added /\ dir[t] = "absent"
      made == [dir EXCEPT ![t] = "clean"]
  IN
  /\ worker[t] = "started"
  /\ \/ /\ new /\ ~stopping
        /\ dir' = made /\ added' = added \cup {t}
        /\ Goto(t, "created") /\ UNCHANGED row
     \/ /\ ~new \/ stopping \/ Fails("git")
        /\ UNCHANGED disk \/ (new /\ added' = added \cup {t} /\ dir' \in {dir, made})
        /\ Update(t, "failed", path[t], 0) /\ Goto(t, "none")
  /\ UNCHANGED <<sweeper, life>>

StorePath(t) ==
  /\ worker[t] = "created"
  /\ Update(t, "running", TRUE, Unfinished)
  /\ Goto(t, "claude")
  /\ UNCHANGED <<disk, sweeper, life>>

\* claude and the pull request's creation edit and commit.
Work(t) ==
  /\ worker[t] = "claude"
  /\ dir' = [dir EXCEPT ![t] = IF @ = "clean" THEN "dirty" ELSE "clean"]
  /\ UNCHANGED <<row, added, worker, sweeper, life>>

\* git worktree remove --force, its error dropped.  No context: it runs during
\* a shutdown as well.
RemoveDir(t) ==
  \/ dir' = [dir EXCEPT ![t] = "absent"]
  \/ (t \in Stuck \/ Fails("git")) /\ UNCHANGED dir

\* Outside the window, over budget, no pull request: removed before the row
\* is written.
Discard(t) ==
  /\ worker[t] = "claude"
  /\ RemoveDir(t)
  /\ Goto(t, "ending")
  /\ UNCHANGED <<row, added, sweeper, life>>

\* A failed run keeps its worktree; done and cancelled ones (a shutdown makes a
\* run of claude one of these) are cleaned up after the row is written.
End(t, s) ==
  /\ worker[t] = "claude" \/ (worker[t] = "ending" /\ s # "done")
  /\ Update(t, s, TRUE, 0)
  /\ Goto(t, IF s = "failed" THEN "none" ELSE "cleanup")
  /\ UNCHANGED <<disk, sweeper, life>>

\* A pull request that the CI watcher follows keeps its worktree.
Cleanup(t) ==
  /\ worker[t] = "cleanup"
  /\ RemoveDir(t) \/ (status[t] # "cancelled" /\ UNCHANGED dir)
  /\ Goto(t, "none")
  /\ UNCHANGED <<row, added, sweeper, life>>

\* ReclaimStaleTasks: the lease of a row nobody works on runs out.
Reclaim(t) ==
  /\ serving /\ ~stopping /\ status[t] = "running" /\ worker[t] = "none"
  /\ status' = [status EXCEPT ![t] = "orphaned"]
  /\ UNCHANGED <<path, age, disk, worker, sweeper, life>>

-----------------------------------------------------------------------------
(* Recovery at boot                                                         *)

\* GetRunning.
Boot ==
  /\ gc = "boot"
  /\ gc' = "orphans"
  /\ \/ todo' = {t \in Tasks : status[t] = "running"}
     \/ Fails("db") /\ todo' = {}
  /\ UNCHANGED <<row, disk, worker, serving, left, hand, life>>

IsDirty(t) == path[t] /\ dir[t] = "dirty"

\* Mutant: an interrupted run fails like any other.
ReconcileFinished(t) ==
  /\ gc = "orphans" /\ t \in todo
  /\ todo' = todo \ {t}
  /\ Update(t, "failed", path[t], 0)
  /\ UNCHANGED <<disk, worker, gc, serving, left, hand, life>>

\* reconcileOrphan; a git status that fails counts as clean.  finished_at is
\* not touched.
Reconcile(t) ==
  /\ gc = "orphans" /\ t \in todo
  /\ todo' = todo \ {t}
  /\ \/ IsDirty(t) /\ Update(t, "orphaned", TRUE, age[t])
     \/ (~IsDirty(t) \/ Fails("git")) /\ Update(t, "failed", path[t], age[t])
  /\ UNCHANGED <<disk, worker, gc, serving, left, hand, life>>

-----------------------------------------------------------------------------
(* The sweep                                                                *)

\* After recovery, and then once a day.
StartSweep ==
  /\ gc = "idle" \/ (gc = "orphans" /\ todo = {})
  /\ gc' = "list"
  /\ left' = <<"failed", "cancelled">>
  /\ UNCHANGED <<row, disk, worker, serving, todo, hand, life>>

\* Created last, first; no cursor, so nobody reads a second page.
Page(s) ==
  LET rows == {t \in Tasks : status[t] = s}
  IN  {t \in rows : Cardinality({u \in rows : u > t}) < PageLimit}

Old(t) == path[t] /\ age[t] >= RetentionDays

\* The rows of the next status; a list that fails is skipped.
List ==
  /\ gc = "list"
  /\ IF left = <<>>
       THEN gc' = "idle" /\ serving' = TRUE /\ UNCHANGED <<left, todo>>
       ELSE /\ gc' = "sweep" /\ left' = Tail(left) /\ UNCHANGED serving
            /\ \/ ~stopping /\ todo' = {t \in Page(Head(left)) : Old(t)}
               \/ (stopping \/ Fails("db")) /\ todo' = {}
  /\ UNCHANGED <<row, disk, worker, hand, life>>

EndOfList ==
  /\ gc = "sweep" /\ todo = {} /\ hand = NoTask
  /\ gc' = "list"
  /\ UNCHANGED <<row, disk, worker, serving, left, todo, hand, life>>

\* Mutants: a directory that stays loses its pointer; ends the sweep.
RemoveAnyway(t) ==
  /\ gc = "sweep" /\ hand = NoTask /\ t \in todo
  /\ todo' = todo \ {t}
  /\ \/ dir' = [dir EXCEPT ![t] = "absent"] /\ hand' = t /\ UNCHANGED path
     \/ /\ dir[t] # "absent" /\ (t \in Stuck \/ Fails("rm"))
        /\ path' = [path EXCEPT ![t] = FALSE]
        /\ UNCHANGED <<dir, hand>>
  /\ UNCHANGED <<status, age, added, worker, gc, serving, left, life>>

RemoveOrReturn(t) ==
  /\ gc = "sweep" /\ hand = NoTask /\ t \in todo
  /\ \A u \in todo : t >= u
  /\ \/ /\ t \notin Stuck \/ dir[t] = "absent"
        /\ dir' = [dir EXCEPT ![t] = "absent"] /\ hand' = t /\ todo' = todo \ {t}
     \/ /\ dir[t] # "absent" /\ (t \in Stuck \/ Fails("rm"))
        /\ todo' = {} /\ UNCHANGED <<dir, hand>>
  /\ UNCHANGED <<row, added, worker, gc, serving, left, life>>

\* removeWorktree: git, then rm, which a shutdown does not reach; when both fail
\* the row stays as it is.  The rows are taken in any order.
Remove(t) ==
  /\ gc = "sweep" /\ hand = NoTask /\ t \in todo
  /\ todo' = todo \ {t}
  /\ \/ /\ t \notin Stuck \/ dir[t] = "absent"
        /\ dir' = [dir EXCEPT ![t] = "absent"] /\ hand' = t
     \/ /\ dir[t] # "absent" /\ (t \in Stuck \/ Fails("rm"))
        /\ UNCHANGED <<dir, hand>>
  /\ UNCHANGED <<row, added, worker, gc, serving, left, life>>

\* The pointer is cleared after the directory is gone.
Clear ==
  /\ hand # NoTask
  /\ Update(hand, status[hand], FALSE, age[hand])
  /\ hand' = NoTask
  /\ UNCHANGED <<disk, worker, gc, serving, left, todo, life>>

-----------------------------------------------------------------------------
(* The end of the process                                                   *)

Interrupted == {t \in Tasks : status[t] = "running" /\ IsDirty(t)}

\* Rows and disk are all that is left; the supervisor starts the service again.
Down ==
  /\ unsaved' = unsaved \cup Interrupted
  /\ worker' = [t \in Tasks |-> "none"] /\ stopping' = FALSE
  /\ gc' = "boot" /\ serving' = FALSE /\ left' = <<>> /\ todo' = {} /\ hand' = NoTask
  /\ UNCHANGED <<row, disk, stopped>>

\* Also a SIGTERM before the scheduler is started: nobody catches it yet.
Crash ==
  /\ restarts < MaxRestarts
  /\ restarts' = restarts + 1
  /\ Down

\* SIGTERM: the context of every worker, statement and command is cancelled.
Shutdown ==
  /\ serving /\ ~stopping /\ restarts < MaxRestarts
  /\ restarts' = restarts + 1
  /\ stopping' = TRUE
  /\ stopped' = stopped \cup Interrupted
  /\ UNCHANGED <<row, disk, worker, sweeper, unsaved>>

\* Stop waits for the workers, for the sweep nobody does.
Exit ==
  /\ stopping /\ \A t \in Tasks : worker[t] = "none"
  /\ Down
  /\ UNCHANGED restarts

-----------------------------------------------------------------------------
Next ==
  \/ Day \/ Crash \/ Shutdown \/ Exit
  \/ \E t \in Tasks : \/ Start(t) \/ CreateWorktree(t) \/ StorePath(t) \/ Work(t)
                     \/ Discard(t) \/ Cleanup(t) \/ Reclaim(t)
                     \/ \E s \in {"done", "failed", "cancelled"} : End(t, s)
                     \/ Reconcile(t) \/ Remove(t)
  \/ Boot \/ StartSweep \/ List \/ EndOfList \/ Clear

Spec == Init /\ [][Next]_vars

GCStep == Boot \/ StartSweep \/ List \/ EndOfList \/ Clear
            \/ \E t \in Tasks : Reconcile(t) \/ Remove(t)

\* What a worker does once its context is done.
WindUp(t) ==
  /\ stopping
  /\ \/ CreateWorktree(t) \/ StorePath(t) \/ Discard(t) \/ Cleanup(t)
     \/ \E s \in {"done", "failed", "cancelled"} : End(t, s)

\* Days pass, the GC goroutine goes on, a shutdown comes to its end, and neither
\* a statement nor rm fails for ever; git may, and so may the directories in
\* Stuck.
FairSpec ==
  /\ Spec
  /\ WF_vars(Day) /\ WF_vars(GCStep) /\ WF_vars(Exit)
  /\ \A t \in Tasks : /\ WF_vars(WindUp(t))
                     /\ SF_vars(List /\ t \in todo')
                     /\ SF_vars(Remove(t) /\ hand' = t)
                     /\ SF_vars(Clear /\ hand = t /\ ~path'[t])

-----------------------------------------------------------------------------
\* A row's pointer is cleared only when its directory is gone: no crash and no
\* failing command leaves a directory that later sweeps do not know of
\* (removeWorktree's order and its return).
PointerOutlivesDir ==
  [][\A t \in Tasks : path[t] /\ ~path'[t] => dir'[t] = "absent"]_vars

\* gc/runner.go:104, read from the end of the process on: changes that are
\* uncommitted in the worktree of a running row when the process ends, by a
\* crash or after a shutdown, are still there whatever recovery sees, and
\* whatever restarts, expired leases and sweeps follow.  What a shutdown removes
\* before the end is ShutdownKept's matter, below.
UnsavedKept == \A t \in unsaved : dir[t] = "dirty"

\* config.example.yaml:17: the worktree of a failed or cancelled task is removed
\* and its pointer cleared some days later, although commands and statements
\* fail and other directories cannot be removed.
OldSwept ==
  \A t \in Tasks \ Stuck :
    (status[t] \in {"failed", "cancelled"} /\ age[t] # Unfinished /\ path[t])
      ~> (dir[t] = "absent" /\ ~path[t])

-----------------------------------------------------------------------------
(* What the documentation says and the code does not do                     *)

\* gc/runner.go:102: a task that was running at shutdown with a dirty worktree is
\* left to human judgment: its worktree is there.
ShutdownKept == \A t \in stopped : dir[t] # "absent"

\* config.example.yaml:17, for tasks failed by a restart.
FailedSwept ==
  \A t \in Tasks : status[t] = "failed" /\ path[t] ~> dir[t] = "absent"

\* gc/runner.go:56: the worktree of a failed task can be found by the sweep.
NothingLeaked ==
  \A t \in Tasks : dir[t] # "absent" /\ status[t] = "failed" => path[t]
=============================================================================
