------------------------------- MODULE Dispatch -------------------------------
(***************************************************************************)
(* Task execution: the scheduler's tick loop (scheduler.go), the worker    *)
(* goroutines it spawns (worker.go), the Stop API and the Slack stop       *)
(* button, the lease reclaimer, and the life of the process around them    *)
(* (main.go, gc/runner.go RecoverOrphans).                                 *)
(*                                                                         *)
(* Every step is one database statement, one change of the worktrees on    *)
(* disk or one change of the scheduler's own memory, so that whatever may  *)
(* run between two of them does.  The window, full mode and the budget     *)
(* are gates that may be open or shut at any time.                         *)
(***************************************************************************)
EXTENDS TaskStore

CONSTANTS
  IssueOf,      \* issue number of each task: names its branch
  Workers,      \* identities for worker goroutines, at least MaxParallel
  MaxParallel,  \* capacity of the semaphore channel
  CIFixEnabled, \* cfg.CIFix.Enabled
  ApiStops,     \* tasks for which POST /tasks/{id}/stop may be called
  SlackStops,   \* tasks whose Slack stop button may be pressed
  LeaseExpires, \* TRUE: a run may outlive the reclaimer's lease
  Ties,         \* TRUE: two claims may fall in the same millisecond
  Faults,       \* subset of {"db", "git"}: statements, git commands may fail
  MaxCrashes,   \* bound on crashes and on graceful shutdowns, together
  NoTask,       \* no task
  NoWorker      \* no goroutine

ASSUME DispatchAssumption ==
  /\ NoTask \notin Tasks
  /\ NoWorker \notin Workers
  /\ ApiStops \subseteq Tasks
  /\ SlackStops \subseteq Tasks
  /\ IsFiniteSet(Tasks)
  /\ IsFiniteSet(Workers)
  /\ MaxParallel \in Nat \ {0}
  /\ MaxCrashes \in Nat
  /\ CIFixEnabled \in BOOLEAN
  /\ LeaseExpires \in BOOLEAN
  /\ Ties \in BOOLEAN

VARIABLES
  rows,      \* the tasks table
  worktree,  \* what is on disk at <root>/task-<id>
  branches,  \* <<repo, issue>> for which branch claude/issue-N exists
  prs,       \* tasks for which GitHub has a pull request
  phase,     \* life of the process
  disp,      \* the tick loop: where it is, what it claimed, what it loaded
  sem,       \* tokens in the semaphore channel
  pc,        \* where each worker goroutine is in RunTask
  job,       \* the task id it runs
  mem,       \* its *domain.Task
  cancelMap, \* task id -> goroutine whose CancelFunc is registered
  cancelled, \* goroutines whose own context was cancelled
  stop,      \* in-flight StopTask calls: pc and the row they read
  clock,     \* last instant used by a claim
  crashes,   \* crashes and shutdowns so far
  contested  \* history: tasks whose claim stopped being exclusive

memory == <<disp, sem, pc, job, mem, cancelMap, cancelled, stop>>
disk == <<worktree, branches, prs>>
vars == <<rows, worktree, branches, prs, phase, disp, sem, pc, job, mem,
          cancelMap, cancelled, stop, clock, crashes, contested>>

\* Labels of RunTask, in the order of the code.  "leave" is the deferred
\* clean-up of the goroutine.
Pipeline == {"start", "worktree", "path", "gates", "claude", "quality", "pr",
             "markDone", "failing", "cancelling"}
Epilogue == {"handoff", "drop", "leave"}
Labels == Pipeline \cup Epilogue \cup {"idle"}

\* Goroutines whose final status write is still to come.
Working == {g \in Workers : pc[g] \in Pipeline}
Active == {g \in Workers : pc[g] # "idle"}

Branch(t) == <<RepoOf[t], IssueOf[t]>>

IdleDisp == [pc |-> "idle", claimed |-> NoTask, task |-> NoTask, copy |-> NoRow]
IdleStop == [pc |-> "idle", copy |-> NoRow]

TypeOK ==
  /\ rows \in [Tasks -> Row]
  /\ worktree \in [Tasks -> {"none", "clean", "dirty"}]
  /\ branches \subseteq {Branch(t) : t \in Tasks}
  /\ prs \subseteq Tasks
  /\ phase \in {"booting", "up", "stopping", "down"}
  /\ disp \in [pc : {"idle", "reserve", "claim", "ident", "load", "spawn"},
               claimed : Tasks \cup {NoTask}, task : Tasks \cup {NoTask}, copy : Row]
  /\ sem \in 0..MaxParallel
  /\ pc \in [Workers -> Labels]
  /\ job \in [Workers -> Tasks \cup {NoTask}]
  /\ mem \in [Workers -> Row]
  /\ cancelMap \in [Tasks -> Workers \cup {NoWorker}]
  /\ cancelled \subseteq Workers
  /\ stop \in [Tasks -> [pc : {"idle", "cancel", "save"}, copy : Row]]
  /\ clock \in Nat
  /\ crashes \in 0..MaxCrashes
  /\ contested \subseteq Tasks

Init ==
  /\ rows = [t \in Tasks |-> NoRow]
  /\ worktree = [t \in Tasks |-> "none"]
  /\ branches = {}
  /\ prs = {}
  /\ phase = "booting"
  /\ disp = IdleDisp
  /\ sem = 0
  /\ pc = [g \in Workers |-> "idle"]
  /\ job = [g \in Workers |-> NoTask]
  /\ mem = [g \in Workers |-> NoRow]
  /\ cancelMap = [t \in Tasks |-> NoWorker]
  /\ cancelled = {}
  /\ stop = [t \in Tasks |-> IdleStop]
  /\ clock = 0
  /\ crashes = 0
  /\ contested = {}

Serving == phase \in {"up", "stopping"}    \* the HTTP server is listening
DbMayFail == "db" \in Faults
GitMayFail == "git" \in Faults

-----------------------------------------------------------------------------
(* The tick loop.  Its context is the scheduler's: statements fail once     *)
(* shutdown has cancelled it.                                               *)

\* A caller of TaskRepository.Create: poller, webhook, API, maintenance.
Enqueue(t) ==
  /\ Serving
  /\ rows[t].status = "absent"
  /\ rows' = Insert(rows, t)
  /\ UNCHANGED <<disk, phase, memory, clock, crashes, contested>>

\* tick with the window and the budget gate open.
Tick ==
  /\ phase = "up"
  /\ disp.pc = "idle"
  /\ disp' = [disp EXCEPT !.pc = "reserve"]
  /\ UNCHANGED <<rows, disk, phase, sem, pc, job, mem, cancelMap, cancelled,
                 stop, clock, crashes, contested>>

ReserveSlot ==
  /\ Serving
  /\ disp.pc = "reserve"
  /\ IF sem < MaxParallel
       THEN sem' = sem + 1 /\ disp' = [disp EXCEPT !.pc = "claim"]
       ELSE UNCHANGED sem /\ disp' = IdleDisp
  /\ UNCHANGED <<rows, disk, phase, pc, job, mem, cancelMap, cancelled, stop,
                 clock, crashes, contested>>

\* First statement of ClaimNext.
Claim(t) ==
  /\ phase = "up"
  /\ disp.pc = "claim"
  /\ t \in Oldest(rows, Claimable(rows))
  /\ clock' \in IF Ties /\ clock > 0 THEN {clock, clock + 1} ELSE {clock + 1}
  /\ rows' = ClaimNextTask(rows, t, clock')
  /\ disp' = [disp EXCEPT !.pc = "ident", !.claimed = t]
  /\ UNCHANGED <<disk, phase, sem, pc, job, mem, cancelMap, cancelled, stop,
                 crashes, contested>>

\* Second statement: which row was that?
Identify(t) ==
  /\ phase = "up"
  /\ disp.pc = "ident"
  /\ t \in GetClaimedTaskID(rows)
  /\ disp' = [disp EXCEPT !.pc = "load", !.task = t]
  /\ contested' = IF t = disp.claimed THEN contested ELSE contested \cup {t}
  /\ UNCHANGED <<rows, disk, phase, sem, pc, job, mem, cancelMap, cancelled,
                 stop, clock, crashes>>

\* Third statement: GetByID.
Load ==
  /\ phase = "up"
  /\ disp.pc = "load"
  /\ disp' = [disp EXCEPT !.pc = "spawn", !.copy = rows[disp.task]]
  /\ UNCHANGED <<rows, disk, phase, sem, pc, job, mem, cancelMap, cancelled,
                 stop, clock, crashes, contested>>

\* Mutant: the slot is not given back.
GiveUpKeepingSlot ==
  /\ Serving
  /\ \/ disp.pc = "claim" /\ Claimable(rows) = {}
     \/ disp.pc \in {"claim", "ident", "load"} /\ DbMayFail
  /\ disp' = IdleDisp
  /\ UNCHANGED <<rows, disk, phase, sem, pc, job, mem, cancelMap, cancelled,
                 stop, clock, crashes, contested>>

\* dispatchOne returns false: nothing to claim, or one of ClaimNext's
\* statements failed.  The slot goes back and the tick ends.
GiveUp ==
  /\ \/ disp.pc = "claim" /\ Claimable(rows) = {} /\ Serving
     \/ disp.pc = "ident" /\ GetClaimedTaskID(rows) = {} /\ Serving
     \/ disp.pc \in {"claim", "ident", "load"} /\ phase = "up" /\ DbMayFail
     \/ disp.pc \in {"claim", "ident", "load"} /\ phase = "stopping"
  /\ sem' = sem - 1
  /\ disp' = IdleDisp
  /\ UNCHANGED <<rows, disk, phase, pc, job, mem, cancelMap, cancelled, stop,
                 clock, crashes, contested>>

Spawn(g) ==
  /\ Serving
  /\ disp.pc = "spawn"
  /\ pc[g] = "idle"
  /\ cancelMap' = [cancelMap EXCEPT ![disp.task] = g]
  /\ pc' = [pc EXCEPT ![g] = "start"]
  /\ job' = [job EXCEPT ![g] = disp.task]
  /\ mem' = [mem EXCEPT ![g] = disp.copy]
  /\ disp' = [IdleDisp EXCEPT !.pc = "reserve"]
  /\ UNCHANGED <<rows, disk, phase, sem, cancelled, stop, clock, crashes, contested>>

-----------------------------------------------------------------------------
(* RunTask.  A worker's context is cancelled with its own CancelFunc or     *)
(* with the scheduler's.                                                    *)

ContextDone(g) == g \in cancelled \/ phase = "stopping"

At(g, label) == Serving /\ pc[g] = label

\* Of the worker, only its label and what the action names may change.
Goto(g, label) ==
  /\ pc' = [pc EXCEPT ![g] = label]
  /\ UNCHANGED <<phase, disp, sem, job, cancelMap, cancelled, stop, clock,
                 crashes, contested>>

\* TaskRepo.Update(ctx, task): the row is written unless the context is done
\* or the statement fails; the copy in memory has changed either way.
Saved(g, copy) == ~ContextDone(g) /\ rows' = Save(rows, job[g], copy)
SaveLost(g) == (ContextDone(g) \/ DbMayFail) /\ UNCHANGED rows
Update(g, copy) ==
  /\ mem' = [mem EXCEPT ![g] = copy]
  /\ Saved(g, copy) \/ SaveLost(g)

\* git worktree remove --force, in the directory of the process.
Removed(g) ==
  \/ worktree' = [worktree EXCEPT ![job[g]] = "none"]
  \/ GitMayFail /\ UNCHANGED worktree

MarkRunning(g) ==
  /\ At(g, "start")
  /\ LET copy == [mem[g] EXCEPT !.status = "running"]
     IN  /\ mem' = [mem EXCEPT ![g] = copy]
         /\ \/ Saved(g, copy) /\ Goto(g, "worktree")
            \/ SaveLost(g) /\ Goto(g, "leave")
  /\ UNCHANGED disk

\* git worktree add -b: when it fails or is killed it may leave the branch, or
\* the branch and the directory, which no exit removes.
CreateWorktree(g) ==
  LET t == job[g] IN
  /\ At(g, "worktree")
  /\ \/ /\ ~ContextDone(g)
        /\ Branch(t) \notin branches
        /\ worktree[t] = "none"
        /\ branches' = branches \cup {Branch(t)}
        /\ worktree' = [worktree EXCEPT ![t] = "clean"]
        /\ Goto(g, "path")
     \/ /\ \/ ContextDone(g) \/ GitMayFail
           \/ Branch(t) \in branches \/ worktree[t] # "none"
        /\ Goto(g, "failing")
        /\ \/ UNCHANGED <<branches, worktree>>
           \/ /\ ContextDone(g) \/ GitMayFail
              /\ Branch(t) \notin branches /\ worktree[t] = "none"
              /\ branches' = branches \cup {Branch(t)}
              /\ \/ UNCHANGED worktree
                 \/ worktree' = [worktree EXCEPT ![t] = "clean"]
  /\ UNCHANGED <<rows, prs, mem>>

\* An error of this Update is only logged; then the context is looked at.
RecordPath(g) ==
  /\ At(g, "path")
  /\ Update(g, [mem[g] EXCEPT !.path = TRUE])
  /\ Goto(g, IF ContextDone(g) THEN "cancelling" ELSE "gates")
  /\ UNCHANGED disk

\* Prompt, window and budget: the last checks before claude is started.
PassGates(g) ==
  /\ At(g, "gates")
  /\ ~ContextDone(g)       \* the budget counters are read with this context
  /\ Goto(g, "claude")
  /\ UNCHANGED <<rows, mem, disk>>

PromptFails(g) ==
  /\ At(g, "gates")
  /\ Goto(g, "failing")
  /\ UNCHANGED <<rows, mem, disk>>

\* Mutant: no return after the clean-up.
GateFallsThrough(g) ==
  /\ At(g, "gates")
  /\ Removed(g)
  /\ Goto(g, "claude")
  /\ UNCHANGED <<rows, mem, branches, prs>>

\* Mutant: returns without the call of cancel.
GateStopsSilently(g) ==
  /\ At(g, "gates")
  /\ Removed(g)
  /\ Goto(g, "leave")
  /\ UNCHANGED <<rows, mem, branches, prs>>

\* Window shut or budget spent: the worktree goes and the task is cancelled;
\* an error of the budget gate fails it.
GateStops(g) ==
  /\ At(g, "gates")
  /\ Removed(g)
  /\ \/ Goto(g, "cancelling")
     \/ (DbMayFail \/ ContextDone(g)) /\ Goto(g, "failing")
  /\ UNCHANGED <<rows, mem, branches, prs>>

\* "dirty" is work that git would commit; claude may also leave none, and the
\* commands of the gate write to the worktree too.
ClaudeEdits(g) ==
  /\ At(g, "claude") \/ At(g, "quality")
  /\ worktree[job[g]] = "clean"
  /\ worktree' = [worktree EXCEPT ![job[g]] = "dirty"]
  /\ UNCHANGED <<rows, branches, prs, phase, memory, clock, crashes, contested>>

ClaudeSucceeds(g) ==
  /\ At(g, "claude")
  /\ Goto(g, "quality")
  /\ UNCHANGED <<rows, mem, disk>>

ClaudeErrs(g) ==
  /\ At(g, "claude")
  /\ Goto(g, IF ContextDone(g) THEN "cancelling" ELSE "failing")
  /\ UNCHANGED <<rows, mem, disk>>

QualityGate(g) ==
  /\ At(g, "quality")
  /\ Goto(g, "pr") \/ Goto(g, "failing")
  /\ UNCHANGED <<rows, mem, disk>>

\* Mutant: an error is only logged.
CreatePRIgnoringError(g) ==
  /\ At(g, "pr")
  /\ Goto(g, "markDone")
  /\ prs' \in {prs, prs \cup {job[g]}}
  /\ mem' = [mem EXCEPT ![g].pr = job[g] \in prs']
  /\ UNCHANGED <<rows, branches, worktree>>

\* git add, commit, push, gh pr create.  A commit of nothing is an error; gh may
\* be killed, or fail, when GitHub already has the pull request.
CreatePR(g) ==
  /\ At(g, "pr")
  /\ \/ /\ ~ContextDone(g)
        /\ worktree[job[g]] = "dirty"
        /\ prs' = prs \cup {job[g]}
        /\ worktree' = [worktree EXCEPT ![job[g]] = "clean"]
        /\ mem' = [mem EXCEPT ![g].pr = TRUE]
        /\ Goto(g, "markDone")
     \/ /\ Removed(g)
        /\ prs' \in {prs} \cup IF ContextDone(g) \/ GitMayFail THEN {prs \cup {job[g]}} ELSE {}
        /\ Goto(g, "failing")
        /\ UNCHANGED mem
  /\ UNCHANGED <<rows, branches>>

MarkDone(g) ==
  /\ At(g, "markDone")
  /\ Update(g, [mem[g] EXCEPT !.status = "done", !.finished = TRUE])
  /\ Goto(g, "handoff")
  /\ UNCHANGED disk

\* Mutant: the caller does not return.
FailFallsThrough(g) ==
  /\ At(g, "failing")
  /\ Update(g, [mem[g] EXCEPT !.status = "failed", !.finished = TRUE])
  /\ Goto(g, "markDone")
  /\ UNCHANGED disk

Fail(g) ==
  /\ At(g, "failing")
  /\ Update(g, [mem[g] EXCEPT !.status = "failed", !.finished = TRUE])
  /\ Goto(g, "leave")
  /\ UNCHANGED disk

\* cancel() hands its own context, often the cancelled one, to Update.
Cancel(g) ==
  /\ At(g, "cancelling")
  /\ Update(g, [mem[g] EXCEPT !.status = "cancelled", !.finished = TRUE])
  /\ Goto(g, "drop")
  /\ UNCHANGED disk

\* A pull request that the CI watcher is to follow keeps its worktree.
HandOff(g) ==
  /\ At(g, "handoff")
  /\ IF CIFixEnabled /\ mem[g].pr /\ job[g] \notin FixTasks
       THEN /\ \/ ~ContextDone(g) /\ rows' = UpdateCIStatus(rows, job[g], "watching")
               \/ SaveLost(g)
            /\ Goto(g, "leave")
       ELSE Goto(g, "drop") /\ UNCHANGED rows
  /\ UNCHANGED <<mem, disk>>

RemoveWorktree(g) ==
  /\ At(g, "drop")
  /\ IF mem[g].path THEN Removed(g) ELSE UNCHANGED worktree
  /\ Goto(g, "leave")
  /\ UNCHANGED <<rows, mem, branches, prs>>

\* Mutant: no delete from cancelMap.
LeaveRegistered(g) ==
  /\ At(g, "leave")
  /\ cancelled' = cancelled \ {g}
  /\ sem' = sem - 1
  /\ pc' = [pc EXCEPT ![g] = "idle"]
  /\ job' = [job EXCEPT ![g] = NoTask]
  /\ mem' = [mem EXCEPT ![g] = NoRow]
  /\ UNCHANGED <<rows, disk, phase, disp, cancelMap, stop, clock, crashes, contested>>

\* The deferred calls: CancelFunc, delete from cancelMap, free the slot.
Leave(g) ==
  /\ At(g, "leave")
  /\ cancelMap' = [cancelMap EXCEPT ![job[g]] = NoWorker]
  /\ cancelled' = cancelled \ {g}
  /\ sem' = sem - 1
  /\ pc' = [pc EXCEPT ![g] = "idle"]
  /\ job' = [job EXCEPT ![g] = NoTask]
  /\ mem' = [mem EXCEPT ![g] = NoRow]
  /\ UNCHANGED <<rows, disk, phase, disp, stop, clock, crashes, contested>>

RunTask(g) ==
  \/ MarkRunning(g) \/ CreateWorktree(g) \/ RecordPath(g)
  \/ PassGates(g) \/ PromptFails(g) \/ GateStops(g)
  \/ ClaudeEdits(g) \/ ClaudeSucceeds(g) \/ ClaudeErrs(g)
  \/ QualityGate(g) \/ CreatePR(g) \/ MarkDone(g)
  \/ Fail(g) \/ Cancel(g) \/ HandOff(g) \/ RemoveWorktree(g) \/ Leave(g)

-----------------------------------------------------------------------------
(* Stopping a task, reclaiming a lease                                      *)

\* CancelTask: a no-op with ErrNotFound unless a goroutine is registered.
CancelTask(t) ==
  cancelled' = IF cancelMap[t] = NoWorker THEN cancelled
                                          ELSE cancelled \cup {cancelMap[t]}

SlackStop(t) ==
  /\ Serving
  /\ t \in SlackStops
  /\ CancelTask(t)
  /\ UNCHANGED <<rows, disk, phase, disp, sem, pc, job, mem, cancelMap, stop,
                 clock, crashes, contested>>

\* StopTask reads the row and decides by what it read ...
StopRead(t) ==
  /\ Serving
  /\ t \in ApiStops
  /\ stop[t].pc = "idle"
  /\ \/ /\ rows[t].status = "running"
        /\ stop' = [stop EXCEPT ![t].pc = "cancel"]
     \/ /\ rows[t].status = "queued"
        /\ stop' = [stop EXCEPT ![t] = [pc |-> "save", copy |-> rows[t]]]
  /\ UNCHANGED <<rows, disk, phase, disp, sem, pc, job, mem, cancelMap,
                 cancelled, clock, crashes, contested>>

StopCancel(t) ==
  /\ Serving
  /\ stop[t].pc = "cancel"
  /\ CancelTask(t)
  /\ stop' = [stop EXCEPT ![t] = IdleStop]
  /\ UNCHANGED <<rows, disk, phase, disp, sem, pc, job, mem, cancelMap, clock,
                 crashes, contested>>

\* ... and writes the whole row back, whatever has become of it.
StopSave(t) ==
  /\ Serving
  /\ stop[t].pc = "save"
  /\ \/ /\ rows' = Save(rows, t, [stop[t].copy EXCEPT !.status = "cancelled",
                                                      !.finished = TRUE])
        /\ contested' = IF rows[t].status = "queued" THEN contested
                                                     ELSE contested \cup {t}
     \/ DbMayFail /\ UNCHANGED <<rows, contested>>
  /\ stop' = [stop EXCEPT ![t] = IdleStop]
  /\ UNCHANGED <<disk, phase, disp, sem, pc, job, mem, cancelMap, cancelled,
                 clock, crashes>>

\* One cycle of the reclaimer; the cutoff lies anywhere in the past.
Reclaim(cutoff) ==
  /\ phase = "up"
  /\ LeaseExpires
  /\ Stale(rows, cutoff) # {}
  /\ rows' = ReclaimStale(rows, cutoff)
  /\ contested' = contested \cup Stale(rows, cutoff)
  /\ UNCHANGED <<disk, phase, memory, clock, crashes>>

-----------------------------------------------------------------------------
(* The process                                                              *)

\* Everything in memory is gone; rows, worktrees, branches and PRs remain.
Down ==
  /\ phase' = "down"
  /\ disp' = IdleDisp
  /\ sem' = 0
  /\ pc' = [g \in Workers |-> "idle"]
  /\ job' = [g \in Workers |-> NoTask]
  /\ mem' = [g \in Workers |-> NoRow]
  /\ cancelMap' = [t \in Tasks |-> NoWorker]
  /\ cancelled' = {}
  /\ stop' = [t \in Tasks |-> IdleStop]
  /\ UNCHANGED <<rows, disk, clock, contested>>

Crash ==
  /\ phase # "down"
  /\ crashes < MaxCrashes
  /\ crashes' = crashes + 1
  /\ Down

\* SIGTERM: schedCancel cancels every context.
Shutdown ==
  /\ phase = "up"
  /\ crashes < MaxCrashes
  /\ crashes' = crashes + 1
  /\ phase' = "stopping"
  /\ UNCHANGED <<rows, disk, memory, clock, contested>>

\* sched.Stop returns once no worker goroutine is left.
Exit ==
  /\ phase = "stopping"
  /\ Active = {}
  /\ Down
  /\ UNCHANGED crashes

Boot ==
  /\ phase = "down"
  /\ phase' = "booting"
  /\ UNCHANGED <<rows, disk, memory, clock, crashes, contested>>

\* Mutant: interrupted tasks are queued again.
RequeueOrphan(t) ==
  /\ phase = "booting"
  /\ rows[t].status = "running"
  /\ rows' = [rows EXCEPT ![t].status = "queued"]
  /\ UNCHANGED <<disk, phase, memory, clock, crashes, contested>>

\* RecoverOrphans, one row at a time, before anything else runs.  A git status
\* that fails counts as a clean worktree; the path of a ci-fix task may still be
\* its parent's, clean or not.
RecoverOrphan(t) ==
  /\ phase = "booting"
  /\ rows[t].status = "running"
  /\ \/ /\ rows[t].path /\ (worktree[t] = "dirty" \/ t \in FixTasks)
        /\ rows' = [rows EXCEPT ![t].status = "orphaned"]
     \/ /\ ~(rows[t].path /\ worktree[t] = "dirty") \/ GitMayFail
        /\ rows' = [rows EXCEPT ![t].status = "failed"]
  /\ UNCHANGED <<disk, phase, memory, clock, crashes, contested>>

\* A failed GetRunning or Update is only logged.
StartUp ==
  /\ phase = "booting"
  /\ WithStatus(rows, "running") = {} \/ DbMayFail
  /\ phase' = "up"
  /\ UNCHANGED <<rows, disk, memory, clock, crashes, contested>>

-----------------------------------------------------------------------------
Dispatcher ==
  \/ Tick \/ ReserveSlot \/ Load \/ GiveUp
  \/ \E t \in Tasks : Claim(t) \/ Identify(t)
  \/ \E g \in Workers : Spawn(g)

Process == Crash \/ Shutdown \/ Exit \/ Boot \/ StartUp

Next ==
  \/ Dispatcher
  \/ \E g \in Workers : RunTask(g)
  \/ \E t \in Tasks :
       \/ Enqueue(t)
       \/ SlackStop(t) \/ StopRead(t) \/ StopCancel(t) \/ StopSave(t)
       \/ RecoverOrphan(t)
  \/ \E cutoff \in 1..(clock + 1) : Reclaim(cutoff)
  \/ Process

Spec == Init /\ [][Next]_vars
-----------------------------------------------------------------------------
(* Safety                                                                   *)

\* At most one goroutine works in a repository, unless the claim of one of
\* the two tasks was taken away: reclaimed while it ran, overwritten by a
\* StopTask that had read the row while it was still queued, or handed to a
\* second goroutine (ClaimNextTask's NOT EXISTS, worker.go RunTask).
RepoSerial ==
  \A g, h \in Working :
    g # h /\ RepoOf[job[g]] = RepoOf[job[h]]
      => job[g] \in contested \/ job[h] \in contested

\* The same of the table, which outlives the process: two running rows of
\* one repository mean that a claim was lost (task.sql ClaimNextTask).
OneRunningRow ==
  \A t, u \in WithStatus(rows, "running") :
    t # u /\ RepoOf[t] = RepoOf[u] => t \in contested \/ u \in contested

\* Tokens in the semaphore are exactly the goroutines that have not run their
\* deferred release, plus the one the tick loop holds (scheduler.go tick,
\* dispatchOne): none leaks when ClaimNext fails, none is returned twice.
DispatcherHolds == disp.pc \in {"claim", "ident", "load", "spawn"}
SlotAccounting ==
  sem = Cardinality(Active) + (IF DispatcherHolds THEN 1 ELSE 0)

\* A registered CancelFunc belongs to a goroutine that still runs that task,
\* and a goroutine whose claim is uncontested can be cancelled.
CancelReachesRun ==
  /\ \A t \in Tasks : cancelMap[t] # NoWorker
                        => pc[cancelMap[t]] # "idle" /\ job[cancelMap[t]] = t
  /\ \A g \in Active : job[g] \notin contested => cancelMap[job[g]] = g

\* Whatever stops, faults and restarts happen, a row that says done has a
\* pull request on GitHub and the columns that point to it.
DoneHasPR ==
  \A t \in WithStatus(rows, "done") : t \in prs /\ rows[t].pr /\ rows[t].finished

\* No clean-up of another task, stop or failed gate deletes the worktree that
\* an uncontested run is working in.
WorktreeOutlivesRun ==
  \A g \in Workers :
    pc[g] \in {"path", "gates", "claude", "quality", "pr"} /\ job[g] \notin contested
      => worktree[job[g]] # "none"

\* A terminal status is final, unless the task was contested.
TerminalIsFinal ==
  [][\A t \in Tasks :
       rows[t].status \in Terminal /\ t \notin contested'
         => rows'[t].status = rows[t].status]_vars

\* With leases longer than runs, distinct claim instants and no StopTask,
\* no claim is ever contested: the second statement of ClaimNext returns the
\* row the first one changed.
NothingContested == contested = {}

\* While the process is up, a running row is in somebody's hands: the tick
\* loop's or a goroutine's.  A row for which this fails blocks its
\* repository until the lease or a restart ends it.
Held(t) ==
  \/ disp.pc = "ident" /\ disp.claimed = t
  \/ disp.pc \in {"load", "spawn"} /\ disp.task = t
  \/ \E g \in Working : job[g] = t
RunningIsHeld ==
  phase = "up" => \A t \in WithStatus(rows, "running") : Held(t)

\* The status column behaves as TaskLifecycle promises (whenever no claim can
\* be contested: long leases, distinct claim instants, no StopTask).
Lifecycle == INSTANCE TaskLifecycle WITH status <- [t \in Tasks |-> rows[t].status]
ImplementsLifecycle == Lifecycle!Spec

-----------------------------------------------------------------------------
(* Fairness and liveness                                                    *)

\* The tick loop keeps going and the gates open now and then; a goroutine's
\* commands end; a process that went down is started again.
Progress ==
  /\ WF_vars(Dispatcher)
  /\ \A g \in Workers : WF_vars(RunTask(g))
  /\ \A t \in Tasks : WF_vars(RecoverOrphan(t))
  /\ WF_vars(Exit) /\ WF_vars(Boot) /\ WF_vars(StartUp)

FairSpec == Spec /\ Progress

\* The reclaimer's ticker, once every lease has run out; no statement of
\* ClaimNext fails for ever.
ReclaimSpec ==
  /\ FairSpec
  /\ WF_vars(Reclaim(clock + 1))
  /\ SF_vars(\E t \in Tasks : Claim(t))
  /\ SF_vars(\E t \in Tasks : Identify(t))
  /\ SF_vars(Load)

\* A hung claude: the same, but nothing makes a run of claude end.
HungSpec ==
  /\ Spec
  /\ WF_vars(Dispatcher)
  /\ \A g \in Workers : WF_vars(RunTask(g) /\ pc[g] # "claude")

\* With a slot for every repository, a hung run delays the tasks of its own
\* repository only: ClaimNextTask skips the queued rows of a busy repository
\* instead of waiting for the oldest one.
HungRunBlocksNoOtherRepo ==
  \A r \in Repos :
    (\E t \in WithStatus(rows, "queued") : RepoOf[t] = r)
      ~> (\E t \in WithStatus(rows, "running") : RepoOf[t] = r)

\* Every queued task reaches a terminal status: no slot leak, no repository
\* left locked, no row skipped for ever, through crashes, restarts, stops and
\* lost writes, which the reclaimer makes up for.
EveryTaskEnds ==
  \A t \in Tasks : rows[t].status = "queued" ~> rows[t].status \in Terminal

\* No row stays running for ever: reclaimer.go, "so a crashed worker or hung
\* claude process doesn't permanently strand a row".
NoRowStranded ==
  \A t \in Tasks : rows[t].status = "running" ~> rows[t].status # "running"
-----------------------------------------------------------------------------
(* What the documentation says and the code does not do                     *)

\* claude-ops.md:62, stopping a task: its work is rolled back and no pull
\* request is made.  So none is opened for a task whose row says cancelled.
NoPRAfterStop ==
  [][\A t \in prs' \ prs : rows[t].status # "cancelled"]_vars

\* task.sql:48, ReclaimStaleTasks: "rows still being actively processed have a
\* fresher claimed_at and survive".
ReclaimSparesActive ==
  [][\A t \in Tasks :
       phase = "up" /\ rows[t].status = "running" /\ rows'[t].status = "orphaned"
         => \A g \in Working : job[g] # t]_vars

\* parallel-tasks.md:49, G2: a task is dispatched exactly once, whatever races
\* there are.
DispatchedOnce ==
  \A g, h \in Active : g # h => job[g] # job[h]

\* task_usecase.go:213, "StopTask cancels a running task": the stopped run
\* ends as cancelled, or as done or failed when it was quicker.
StopEndsRun ==
  \A t \in Tasks :
    stop[t].pc = "cancel" /\ cancelMap[t] # NoWorker
      ~> rows[t].status \in {"cancelled", "done", "failed"}
=============================================================================
