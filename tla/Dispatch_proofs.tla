--------------------------- MODULE Dispatch_proofs ---------------------------
(***************************************************************************)
(* Proofs about Dispatch, for every set of tasks, repositories and worker  *)
(* identities, every MaxParallel and every choice of environment.          *)
(***************************************************************************)
EXTENDS Dispatch, TLAPS, FiniteSetTheorems

\* TypeOK with sem only an integer, and the ids that a step will dereference.
IType ==
  /\ rows \in [Tasks -> Row]
  /\ worktree \in [Tasks -> {"none", "clean", "dirty"}]
  /\ branches \subseteq {Branch(t) : t \in Tasks}
  /\ prs \subseteq Tasks
  /\ phase \in {"booting", "up", "stopping", "down"}
  /\ disp \in [pc : {"idle", "reserve", "claim", "ident", "load", "spawn"},
               claimed : Tasks \cup {NoTask}, task : Tasks \cup {NoTask}, copy : Row]
  /\ sem \in Int
  /\ pc \in [Workers -> Labels]
  /\ job \in [Workers -> Tasks \cup {NoTask}]
  /\ mem \in [Workers -> Row]
  /\ cancelMap \in [Tasks -> Workers \cup {NoWorker}]
  /\ cancelled \subseteq Workers
  /\ stop \in [Tasks -> [pc : {"idle", "cancel", "save"}, copy : Row]]
  /\ clock \in Nat
  /\ crashes \in 0..MaxCrashes
  /\ contested \subseteq Tasks
  /\ \A g \in Workers : pc[g] # "idle" => job[g] \in Tasks
  /\ disp.pc = "ident" => disp.claimed \in Tasks
  /\ disp.pc \in {"load", "spawn"} => disp.task \in Tasks

LEMMA NoRowType == NoRow \in Row
  BY DEF NoRow, Row, Statuses

\* The statements keep the table typed.
LEMMA SaveType ==
  ASSUME NEW R \in [Tasks -> Row], NEW t \in Tasks, NEW copy \in Row
  PROVE  Save(R, t, copy) \in [Tasks -> Row]
  BY DEF Save

LEMMA ClaimType ==
  ASSUME NEW R \in [Tasks -> Row], NEW t \in Tasks, NEW n \in Nat
  PROVE  ClaimNextTask(R, t, n) \in [Tasks -> Row]
<1>1. [R[t] EXCEPT !.status = "running", !.owned = TRUE, !.claimedAt = n] \in Row
  BY DEF Row, Statuses
<1> QED BY <1>1 DEF ClaimNextTask

LEMMA ReclaimType ==
  ASSUME NEW R \in [Tasks -> Row], NEW n \in Nat
  PROVE  ReclaimStale(R, n) \in [Tasks -> Row]
  BY DEF ReclaimStale, Row, Statuses

LEMMA CIStatusType ==
  ASSUME NEW R \in [Tasks -> Row], NEW t \in Tasks
  PROVE  UpdateCIStatus(R, t, "watching") \in [Tasks -> Row]
  BY DEF UpdateCIStatus, Row

LEMMA InsertType ==
  ASSUME NEW R \in [Tasks -> Row], NEW t \in Tasks
  PROVE  Insert(R, t) \in [Tasks -> Row]
<1>1. Cardinality(Present(R)) + 1 \in Nat
  BY DispatchAssumption, FS_Subset, FS_CardinalityType DEF Present
<1> DEFINE row == [NoRow EXCEPT !.status = "queued", !.path = (t \in FixTasks),
                               !.created = Cardinality(Present(R)) + 1]
<1>2. row \in Row
  <2>1. \A fix \in BOOLEAN, n \in Nat :
          [NoRow EXCEPT !.status = "queued", !.path = fix, !.created = n] \in Row
    BY DEF NoRow, Row, Statuses
  <2>2. (t \in FixTasks) \in BOOLEAN
    OBVIOUS
  <2> QED BY ONLY <1>1, <2>1, <2>2, Zenon
<1>3. Insert(R, t) = [R EXCEPT ![t] = row]
  BY DEF Insert
<1> HIDE DEF row
<1> QED BY <1>2, <1>3

LEMMA TypeInit == Init => IType
  BY NoRowType, DispatchAssumption
  DEF Init, IType, IdleDisp, IdleStop, Labels
\* One case per action of the tick loop.
LEMMA TypeDispatcher == IType /\ Dispatcher => IType'
<1> SUFFICES ASSUME IType, Dispatcher PROVE IType'
  OBVIOUS
<1> USE DispatchAssumption, NoRowType DEF IType, disk
<1>1. CASE Tick
  BY <1>1 DEF Tick
<1>2. CASE ReserveSlot
  BY <1>2 DEF ReserveSlot, IdleDisp
<1>3. CASE Load
  BY <1>3 DEF Load
<1>4. CASE GiveUp
  BY <1>4 DEF GiveUp, IdleDisp
<1>5. ASSUME NEW t \in Tasks, Claim(t) PROVE IType'
  <2>1. clock' \in Nat
    BY <1>5 DEF Claim
  <2>2. rows' \in [Tasks -> Row]
    BY <1>5, <2>1, ClaimType DEF Claim
  <2> QED BY <1>5, <2>1, <2>2 DEF Claim
<1>6. ASSUME NEW t \in Tasks, Identify(t) PROVE IType'
  BY <1>6 DEF Identify
<1>7. ASSUME NEW g \in Workers, Spawn(g) PROVE IType'
  BY <1>7 DEF Spawn, IdleDisp, Labels, Pipeline
<1> QED BY <1>1, <1>2, <1>3, <1>4, <1>5, <1>6, <1>7 DEF Dispatcher

\* A worker step that moves on inside RunTask keeps the types if what it does
\* to the table, its memory and the disk is typed.
LEMMA GotoType ==
  ASSUME IType, NEW g \in Workers, pc[g] # "idle",
         NEW label \in Labels \ {"idle"}, Goto(g, label),
         rows' \in [Tasks -> Row], mem' \in [Workers -> Row],
         worktree' \in [Tasks -> {"none", "clean", "dirty"}],
         branches' \subseteq {Branch(t) : t \in Tasks}, prs' \subseteq Tasks
  PROVE  IType'
  BY DEF IType, Goto

\* What a goroutine's Update leaves in the table and in its memory.
LEMMA UpdateType ==
  ASSUME IType, NEW g \in Workers, pc[g] # "idle", NEW copy \in Row, Update(g, copy)
  PROVE  rows' \in [Tasks -> Row] /\ mem' \in [Workers -> Row]
<1>1. job[g] \in Tasks /\ rows \in [Tasks -> Row] /\ mem \in [Workers -> Row]
  BY DEF IType
<1>2. Save(rows, job[g], copy) \in [Tasks -> Row]
  BY <1>1, SaveType
<1>3. rows' = rows \/ rows' = Save(rows, job[g], copy)
  BY DEF Update, Saved, SaveLost
<1> QED BY <1>1, <1>2, <1>3 DEF Update

LEMMA CopyType ==
  ASSUME NEW R \in Row, NEW s \in Statuses
  PROVE  /\ [R EXCEPT !.status = s] \in Row
         /\ [R EXCEPT !.status = s, !.finished = TRUE] \in Row
         /\ [R EXCEPT !.path = TRUE] \in Row
         /\ [R EXCEPT !.pr = TRUE] \in Row
  BY DEF Row, Statuses

LEMMA TypeWorker ==
  ASSUME IType, NEW g \in Workers, RunTask(g)
  PROVE  IType'
<1>0. /\ pc[g] # "idle" => job[g] \in Tasks
      /\ mem[g] \in Row
      /\ rows \in [Tasks -> Row] /\ mem \in [Workers -> Row] /\ prs \subseteq Tasks
      /\ worktree \in [Tasks -> {"none", "clean", "dirty"}]
      /\ branches \subseteq {Branch(t) : t \in Tasks}
  BY DEF IType
<1>a. {"running", "done", "failed", "cancelled"} \subseteq Statuses
  BY DEF Statuses
<1>l. Labels \ {"idle"} = Pipeline \cup Epilogue
  BY DEF Labels, Pipeline, Epilogue
<1>1. CASE MarkRunning(g)
  <2>1. pc[g] # "idle" /\ [mem[g] EXCEPT !.status = "running"] \in Row
    BY <1>0, <1>1, <1>a, CopyType DEF MarkRunning, At
  <2>2. rows' \in [Tasks -> Row] /\ mem' \in [Workers -> Row]
    BY <1>1, <2>1, UpdateType DEF MarkRunning, Update
  <2>3. Goto(g, "worktree") \/ Goto(g, "leave")
    BY <1>1 DEF MarkRunning
  <2> QED BY <1>0, <1>1, <1>l, <2>1, <2>2, <2>3, GotoType
          DEF MarkRunning, disk, Pipeline, Epilogue
<1>2. CASE CreateWorktree(g)
  <2>1. pc[g] # "idle" /\ (Goto(g, "path") \/ Goto(g, "failing"))
    BY <1>2 DEF CreateWorktree, At
  <2>2. /\ worktree' \in [Tasks -> {"none", "clean", "dirty"}]
        /\ branches' \subseteq {Branch(t) : t \in Tasks}
    BY <1>0, <1>2, <2>1 DEF CreateWorktree
  <2>3. UNCHANGED <<rows, prs, mem>>
    BY <1>2 DEF CreateWorktree
  <2> QED BY <1>0, <1>l, <2>1, <2>2, <2>3, GotoType DEF Pipeline
<1>3. CASE RecordPath(g)
  <2>1. pc[g] # "idle" /\ [mem[g] EXCEPT !.path = TRUE] \in Row
    BY <1>0, <1>3, <1>a, CopyType DEF RecordPath, At
  <2>2. rows' \in [Tasks -> Row] /\ mem' \in [Workers -> Row]
    BY <1>3, <2>1, UpdateType DEF RecordPath
  <2>3. Goto(g, "cancelling") \/ Goto(g, "gates")
    BY <1>3 DEF RecordPath
  <2>4. UNCHANGED disk
    BY <1>3 DEF RecordPath
  <2> QED BY <1>0, <1>l, <2>1, <2>2, <2>3, <2>4, GotoType DEF disk, Pipeline
<1>4. CASE PassGates(g) \/ PromptFails(g) \/ ClaudeSucceeds(g) \/ ClaudeErrs(g) \/ QualityGate(g)
  <2>1. pc[g] # "idle" /\ \E l \in Pipeline : Goto(g, l)
    BY <1>4 DEF PassGates, PromptFails, ClaudeSucceeds, ClaudeErrs, QualityGate, At, Pipeline
  <2>2. UNCHANGED <<rows, mem, disk>>
    BY <1>4 DEF PassGates, PromptFails, ClaudeSucceeds, ClaudeErrs, QualityGate
  <2> QED BY <1>0, <1>l, <2>1, <2>2, GotoType DEF disk
<1>5. CASE GateStops(g)
  <2>1. pc[g] # "idle" /\ (Goto(g, "cancelling") \/ Goto(g, "failing"))
    BY <1>5 DEF GateStops, At
  <2>2. worktree' \in [Tasks -> {"none", "clean", "dirty"}]
    BY <1>0, <1>5, <2>1 DEF GateStops, Removed
  <2>3. UNCHANGED <<rows, mem, branches, prs>>
    BY <1>5 DEF GateStops
  <2> QED BY <1>0, <1>l, <2>1, <2>2, <2>3, GotoType DEF Pipeline
<1>6. CASE ClaudeEdits(g)
  BY <1>0, <1>6 DEF ClaudeEdits, memory, IType
<1>7. CASE CreatePR(g)
  <2>1. pc[g] # "idle" /\ (Goto(g, "markDone") \/ Goto(g, "failing"))
    BY <1>7 DEF CreatePR, At
  <2>2. worktree' \in [Tasks -> {"none", "clean", "dirty"}] /\ prs' \subseteq Tasks
    BY <1>0, <1>7, <2>1 DEF CreatePR, Removed
  <2>3. mem' \in [Workers -> Row]
    <3>1. [mem[g] EXCEPT !.pr = TRUE] \in Row
      BY <1>0, <1>a, CopyType
    <3>2. mem' = mem \/ mem' = [mem EXCEPT ![g] = [mem[g] EXCEPT !.pr = TRUE]]
      BY <1>7, <1>0 DEF CreatePR
    <3> QED BY <1>0, <3>1, <3>2
  <2>4. UNCHANGED <<rows, branches>>
    BY <1>7 DEF CreatePR
  <2> QED BY <1>0, <1>l, <2>1, <2>2, <2>3, <2>4, GotoType DEF Pipeline
<1>8. CASE MarkDone(g) \/ Fail(g) \/ Cancel(g)
  <2>1. PICK s \in {"done", "failed", "cancelled"} :
          Update(g, [mem[g] EXCEPT !.status = s, !.finished = TRUE])
    BY <1>8 DEF MarkDone, Fail, Cancel
  <2>2. pc[g] # "idle" /\ \E l \in Epilogue : Goto(g, l)
    BY <1>8 DEF MarkDone, Fail, Cancel, At, Epilogue
  <2>3. [mem[g] EXCEPT !.status = s, !.finished = TRUE] \in Row
    BY <1>0, <1>a, CopyType
  <2>4. rows' \in [Tasks -> Row] /\ mem' \in [Workers -> Row]
    BY <2>1, <2>2, <2>3, UpdateType
  <2>5. UNCHANGED disk
    BY <1>8 DEF MarkDone, Fail, Cancel
  <2> QED BY <1>0, <1>l, <2>2, <2>4, <2>5, GotoType DEF disk
<1>9. CASE HandOff(g)
  <2>1. pc[g] # "idle" /\ \E l \in Epilogue : Goto(g, l)
    BY <1>9 DEF HandOff, At, Epilogue
  <2>2. rows' \in [Tasks -> Row]
    BY <1>0, <1>9, <2>1, CIStatusType DEF HandOff, SaveLost
  <2>3. UNCHANGED <<mem, disk>>
    BY <1>9 DEF HandOff
  <2> QED BY <1>0, <1>l, <2>1, <2>2, <2>3, GotoType DEF disk
<1>10. CASE RemoveWorktree(g)
  <2>1. pc[g] # "idle" /\ \E l \in Epilogue : Goto(g, l)
    BY <1>10 DEF RemoveWorktree, At, Epilogue
  <2>2. worktree' \in [Tasks -> {"none", "clean", "dirty"}]
    BY <1>0, <1>10, <2>1 DEF RemoveWorktree, Removed
  <2>3. UNCHANGED <<rows, mem, branches, prs>>
    BY <1>10 DEF RemoveWorktree
  <2> QED BY <1>0, <1>l, <2>1, <2>2, <2>3, GotoType
<1>11. CASE Leave(g)
  <2>1. /\ pc' = [pc EXCEPT ![g] = "idle"] /\ job' = [job EXCEPT ![g] = NoTask]
        /\ cancelMap' = [cancelMap EXCEPT ![job[g]] = NoWorker]
        /\ mem' = [mem EXCEPT ![g] = NoRow]
        /\ cancelled' = cancelled \ {g} /\ sem' = sem - 1
        /\ UNCHANGED <<rows, worktree, branches, prs, phase, disp, stop, clock,
                       crashes, contested>>
    BY <1>11 DEF Leave, disk
  <2>2. /\ pc' \in [Workers -> Labels] /\ job' \in [Workers -> Tasks \cup {NoTask}]
        /\ cancelMap' \in [Tasks -> Workers \cup {NoWorker}]
        /\ mem' \in [Workers -> Row]
        /\ \A h \in Workers : pc'[h] # "idle" => job'[h] \in Tasks
    BY <2>1, NoRowType DEF IType, Labels
  <2> QED BY <2>1, <2>2 DEF IType
<1> QED BY <1>1, <1>2, <1>3, <1>4, <1>5, <1>6, <1>7, <1>8, <1>9, <1>10, <1>11
        DEF RunTask

LEMMA TypeStops ==
  ASSUME IType, NEW t \in Tasks, Enqueue(t) \/ SlackStop(t) \/ StopRead(t)
                                  \/ StopCancel(t) \/ StopSave(t) \/ RecoverOrphan(t)
  PROVE  IType'
<1> USE NoRowType DEF disk, IdleStop
<1>1. CASE Enqueue(t)
  BY <1>1, InsertType DEF Enqueue, memory, IType
<1>2. CASE SlackStop(t)
  BY <1>2 DEF SlackStop, CancelTask, IType
<1>3. CASE StopRead(t)
  BY <1>3 DEF StopRead, IType
<1>4. CASE StopCancel(t)
  BY <1>4 DEF StopCancel, CancelTask, IType
<1>5. CASE StopSave(t)
  <2>1. rows' \in [Tasks -> Row]
    <3>1. stop[t].copy \in Row /\ "cancelled" \in Statuses
      BY DEF IType, Statuses
    <3>2. [stop[t].copy EXCEPT !.status = "cancelled", !.finished = TRUE] \in Row
      BY <3>1, CopyType
    <3>3. Save(rows, t, [stop[t].copy EXCEPT !.status = "cancelled", !.finished = TRUE])
            \in [Tasks -> Row]
      BY <3>2, SaveType DEF IType
    <3> QED BY <1>5, <3>3 DEF StopSave, IType
  <2>2. contested' \subseteq Tasks
    BY <1>5 DEF StopSave, IType
  <2> QED BY <1>5, <2>1, <2>2 DEF StopSave, IType
<1>6. CASE RecoverOrphan(t)
  <2>1. PICK s \in {"orphaned", "failed"} :
          rows' = [rows EXCEPT ![t] = [rows[t] EXCEPT !.status = s]]
    BY <1>6 DEF RecoverOrphan, IType
  <2>2. [rows[t] EXCEPT !.status = s] \in Row
    BY CopyType DEF IType, Statuses
  <2>3. rows' \in [Tasks -> Row]
    BY <2>1, <2>2 DEF IType
  <2> QED BY <1>6, <2>3 DEF RecoverOrphan, memory, IType
<1> QED BY <1>1, <1>2, <1>3, <1>4, <1>5, <1>6

LEMMA TypeProcess ==
  ASSUME IType, Process \/ \E cutoff \in 1..(clock + 1) : Reclaim(cutoff)
  PROVE  IType'
<1> USE DispatchAssumption, NoRowType DEF disk, IdleDisp, IdleStop, Labels
<1>1. CASE Crash
  BY <1>1 DEF Crash, Down, IType
<1>2. CASE Shutdown
  BY <1>2 DEF Shutdown, memory, IType
<1>3. CASE Exit
  BY <1>3 DEF Exit, Down, IType
<1>4. CASE Boot \/ StartUp
  BY <1>4 DEF Boot, StartUp, memory, IType
<1>5. ASSUME NEW cutoff \in 1..(clock + 1), Reclaim(cutoff) PROVE IType'
  <2>1. cutoff \in Nat
    BY DEF IType
  <2>2. rows' \in [Tasks -> Row] /\ contested' \subseteq Tasks
    BY <1>5, <2>1, ReclaimType DEF Reclaim, Stale, WithStatus, IType
  <2> QED BY <1>5, <2>2 DEF Reclaim, memory, IType
<1> QED BY <1>1, <1>2, <1>3, <1>4, <1>5 DEF Process

LEMMA TypeNext == IType /\ [Next]_vars => IType'
<1> SUFFICES ASSUME IType, [Next]_vars PROVE IType'
  OBVIOUS
<1>1. CASE UNCHANGED vars
  BY <1>1 DEF vars, IType
<1>2. CASE Next
  BY <1>2, TypeDispatcher, TypeWorker, TypeStops, TypeProcess DEF Next
<1> QED BY <1>1, <1>2

THEOREM Typed == Spec => []IType
  BY TypeInit, TypeNext, PTL DEF Spec
-----------------------------------------------------------------------------
(* The semaphore                                                            *)

ISlots == SlotAccounting /\ sem =< MaxParallel

LEMMA ActiveFinite == IsFiniteSet(Active) /\ Cardinality(Active) \in Nat
<1>1. Active \subseteq Workers
  BY DEF Active
<1> QED BY <1>1, DispatchAssumption, FS_Subset, FS_CardinalityType

\* Steps that neither start nor end a goroutine and leave the tick loop's
\* token where it is.
LEMMA SlotsKept ==
  ASSUME ISlots, Active' = Active, DispatcherHolds' <=> DispatcherHolds, sem' = sem
  PROVE  ISlots'
  BY DEF ISlots, SlotAccounting

\* Inside RunTask a goroutine stays active.
LEMMA SlotsGoto ==
  ASSUME IType, ISlots, NEW g \in Workers, pc[g] # "idle",
         NEW label \in Labels \ {"idle"}, Goto(g, label)
  PROVE  ISlots'
<1>1. Active' = Active
  BY DEF Active, Goto, IType
<1>2. disp' = disp /\ sem' = sem
  BY DEF Goto
<1> QED BY <1>1, <1>2, SlotsKept DEF DispatcherHolds

LEMMA SlotsInit == Init => ISlots
<1> SUFFICES ASSUME Init PROVE ISlots
  OBVIOUS
<1>1. Active = {}
  BY DEF Init, Active
<1>2. Cardinality(Active) = 0
  BY <1>1, FS_EmptySet
<1> QED BY <1>2, DispatchAssumption DEF Init, IdleDisp, ISlots, SlotAccounting, DispatcherHolds

LEMMA SlotsDispatcher == IType /\ ISlots /\ Dispatcher => ISlots'
<1> SUFFICES ASSUME IType, ISlots, Dispatcher PROVE ISlots'
  OBVIOUS
<1> USE DispatchAssumption
<1>1. CASE Tick \/ Load \/ \E t \in Tasks : Claim(t) \/ Identify(t)
  <2>1. pc' = pc /\ sem' = sem
    BY <1>1 DEF Tick, Load, Claim, Identify
  <2>2. DispatcherHolds' <=> DispatcherHolds
    <3>1. CASE Tick \/ Load
      BY <3>1 DEF Tick, Load, DispatcherHolds, IType
    <3>2. ASSUME NEW t \in Tasks, Claim(t) \/ Identify(t)
          PROVE  DispatcherHolds' <=> DispatcherHolds
      BY <3>2 DEF Claim, Identify, DispatcherHolds, IType
    <3> QED BY <1>1, <3>1, <3>2
  <2> QED BY <2>1, <2>2, SlotsKept DEF Active
<1>2. CASE ReserveSlot
  <2>1. Active' = Active /\ ~DispatcherHolds
    BY <1>2 DEF ReserveSlot, Active, DispatcherHolds
  <2>2. CASE sem < MaxParallel
    <3>1. sem' = sem + 1 /\ DispatcherHolds'
      BY <1>2, <2>2 DEF ReserveSlot, DispatcherHolds, IType
    <3> QED BY <2>1, <2>2, <3>1, ActiveFinite DEF ISlots, SlotAccounting, IType
  <2>3. CASE ~(sem < MaxParallel)
    <3>1. sem' = sem /\ ~DispatcherHolds'
      BY <1>2, <2>3 DEF ReserveSlot, DispatcherHolds, IdleDisp, IType
    <3> QED BY <2>1, <3>1 DEF ISlots, SlotAccounting
  <2> QED BY <2>2, <2>3
<1>3. CASE GiveUp
  <2>1. Active' = Active /\ DispatcherHolds /\ ~DispatcherHolds' /\ sem' = sem - 1
    BY <1>3 DEF GiveUp, Active, DispatcherHolds, IdleDisp
  <2> QED BY <2>1, ActiveFinite DEF ISlots, SlotAccounting, IType
<1>4. ASSUME NEW g \in Workers, Spawn(g) PROVE ISlots'
  <2>1. Active' = Active \cup {g} /\ g \notin Active
    BY <1>4 DEF Spawn, Active, IType
  <2>2. Cardinality(Active') = Cardinality(Active) + 1
    BY <2>1, ActiveFinite, FS_AddElement
  <2>3. DispatcherHolds /\ ~DispatcherHolds' /\ sem' = sem
    BY <1>4 DEF Spawn, DispatcherHolds, IdleDisp
  <2> QED BY <2>2, <2>3, ActiveFinite DEF ISlots, SlotAccounting, IType
<1> QED BY <1>1, <1>2, <1>3, <1>4 DEF Dispatcher

LEMMA SlotsWorker ==
  ASSUME IType, ISlots, NEW g \in Workers, RunTask(g)
  PROVE  ISlots'
<1>1. CASE Leave(g)
  <2>1. Active' = Active \ {g} /\ g \in Active
    BY <1>1 DEF Leave, At, Active, IType
  <2>2. Cardinality(Active') = Cardinality(Active) - 1
    BY <2>1, ActiveFinite, FS_RemoveElement
  <2>3. disp' = disp /\ sem' = sem - 1
    BY <1>1 DEF Leave
  <2> QED BY <2>2, <2>3, ActiveFinite, DispatchAssumption
          DEF ISlots, SlotAccounting, DispatcherHolds, IType
<1>2. CASE ClaudeEdits(g)
  <2>1. pc' = pc /\ disp' = disp /\ sem' = sem
    BY <1>2 DEF ClaudeEdits, memory
  <2> QED BY <2>1, SlotsKept DEF Active, DispatcherHolds
<1>3. CASE ~Leave(g) /\ ~ClaudeEdits(g)
  <2>1. pc[g] # "idle" /\ \E l \in Pipeline \cup Epilogue : Goto(g, l)
    BY <1>3 DEF RunTask, MarkRunning, CreateWorktree, RecordPath, PassGates, PromptFails,
       GateStops, ClaudeSucceeds, ClaudeErrs, QualityGate, CreatePR, MarkDone, Fail,
       Cancel, HandOff, RemoveWorktree, At, Pipeline, Epilogue
  <2>2. Labels \ {"idle"} = Pipeline \cup Epilogue
    BY DEF Labels, Pipeline, Epilogue
  <2> QED BY <2>1, <2>2, SlotsGoto
<1> QED BY <1>1, <1>2, <1>3

LEMMA SlotsProcess == IType /\ ISlots /\ Process => ISlots'
<1> SUFFICES ASSUME IType, ISlots, Process PROVE ISlots'
  OBVIOUS
<1>1. CASE Down
  <2>1. Active' = {} /\ sem' = 0 /\ ~DispatcherHolds'
    BY <1>1 DEF Down, Active, DispatcherHolds, IdleDisp
  <2>2. Cardinality(Active') = 0
    BY <2>1, FS_EmptySet
  <2> QED BY <2>1, <2>2, DispatchAssumption DEF ISlots, SlotAccounting
<1>2. CASE ~Down
  <2>1. pc' = pc /\ disp' = disp /\ sem' = sem
    BY <1>2 DEF Process, Crash, Exit, Shutdown, Boot, StartUp, memory
  <2> QED BY <2>1, SlotsKept DEF Active, DispatcherHolds
<1> QED BY <1>1, <1>2

LEMMA SlotsNext == IType /\ ISlots /\ [Next]_vars => ISlots'
<1> SUFFICES ASSUME IType, ISlots, [Next]_vars PROVE ISlots'
  OBVIOUS
<1>1. CASE UNCHANGED <<pc, disp, sem>>
  BY <1>1, SlotsKept DEF Active, DispatcherHolds
<1>2. ASSUME NEW t \in Tasks, Enqueue(t) \/ SlackStop(t) \/ StopRead(t)
                                \/ StopCancel(t) \/ StopSave(t) \/ RecoverOrphan(t)
      PROVE  UNCHANGED <<pc, disp, sem>>
  BY <1>2 DEF Enqueue, SlackStop, StopRead, StopCancel, StopSave, RecoverOrphan, memory
<1>3. ASSUME NEW cutoff \in 1..(clock + 1), Reclaim(cutoff)
      PROVE  UNCHANGED <<pc, disp, sem>>
  BY <1>3 DEF Reclaim, memory
<1> QED BY <1>1, <1>2, <1>3, SlotsDispatcher, SlotsWorker, SlotsProcess DEF Next, vars

\* The semaphore counts the goroutines and the tick loop's token, exactly, in
\* every environment: no slot leaks and none is given back twice.
THEOREM SlotsSafe == Spec => []SlotAccounting
<1>1. Init => IType /\ ISlots
  BY TypeInit, SlotsInit
<1>2. IType /\ ISlots /\ [Next]_vars => IType' /\ ISlots'
  BY TypeNext, SlotsNext
<1>3. ISlots => SlotAccounting
  BY DEF ISlots
<1> QED BY <1>1, <1>2, <1>3, PTL DEF Spec

\* Every variable keeps its type; in particular the channel never holds more
\* than MaxParallel tokens.
THEOREM TypeSafe == Spec => []TypeOK
<1>1. Init => IType /\ ISlots
  BY TypeInit, SlotsInit
<1>2. IType /\ ISlots /\ [Next]_vars => IType' /\ ISlots'
  BY TypeNext, SlotsNext
<1>3. IType /\ ISlots => TypeOK
  <2> SUFFICES ASSUME IType, ISlots PROVE TypeOK
    OBVIOUS
  <2>1. sem \in 0..MaxParallel
    BY ActiveFinite, DispatchAssumption DEF ISlots, SlotAccounting, IType
  <2> QED BY <2>1 DEF TypeOK, IType
<1> QED BY <1>1, <1>2, <1>3, PTL DEF Spec
-----------------------------------------------------------------------------
(* Exclusive claims                                                         *)

\* A task in exactly one pair of hands, and its row says running.
RowRuns(t) == rows[t].status = "running"
NobodyRuns(t) == \A g \in Working : job[g] # t

\* The strengthening of RepoSerial.  An uncontested goroutine owns a running
\* row, shares it with nobody, and neither does the tick loop while it holds a
\* claim; and only an uncontested row keeps the others of its repository out.
IClaims ==
  /\ \A g \in Working : job[g] \notin contested => RowRuns(job[g])
  /\ \A g, h \in Working : g # h /\ job[g] = job[h] => job[g] \in contested
  /\ disp.pc = "ident" /\ disp.claimed \notin contested
       => RowRuns(disp.claimed) /\ NobodyRuns(disp.claimed)
  /\ disp.pc \in {"load", "spawn"} /\ disp.task \notin contested
       => RowRuns(disp.task) /\ NobodyRuns(disp.task)
  /\ OneRunningRow
  /\ phase \in {"booting", "down"} => Working = {} /\ disp.pc = "idle"
  /\ \A g \in Working : pc[g] # "start" => mem[g].status = "running"

LEMMA WorkingTyped == ASSUME IType, NEW g \in Working
                      PROVE  g \in Workers /\ pc[g] # "idle" /\ job[g] \in Tasks
  BY DEF Working, Pipeline, IType

\* Steps that change no status, no goroutine in its pipeline and no claim.
LEMMA ClaimsFrame ==
  ASSUME IType, IClaims,
         \A t \in Tasks : rows'[t].status = rows[t].status,
         Working' = Working,
         \A g \in Working : pc'[g] = pc[g] /\ job'[g] = job[g] /\ mem'[g] = mem[g],
         disp' = disp \/ disp'.pc \in {"idle", "reserve", "claim"},
         contested' = contested,
         phase' \in {"booting", "down"} => Working = {} /\ disp'.pc = "idle"
  PROVE  IClaims'
<1>1. \A g \in Working : job[g] \in Tasks
  BY WorkingTyped
<1>2. OneRunningRow'
  BY DEF IClaims, OneRunningRow, WithStatus
<1>3. disp.pc = "ident" => disp.claimed \in Tasks
  BY DEF IType
<1>4. disp.pc \in {"load", "spawn"} => disp.task \in Tasks
  BY DEF IType
<1> QED BY <1>1, <1>2, <1>3, <1>4 DEF IClaims, RowRuns, NobodyRuns

\* Somebody other than a goroutine takes rows out of running (never into it),
\* and contests the claims of those that were running.
LEMMA ClaimsTaken ==
  ASSUME IType, IClaims,
         \A t \in Tasks : \/ rows'[t].status = rows[t].status
                         \/ /\ rows'[t].status # "running"
                            /\ rows[t].status # "running" \/ t \in contested',
         contested \subseteq contested',
         UNCHANGED <<pc, job, mem, disp, phase>>
  PROVE  IClaims'
<1>1. Working' = Working /\ \A g \in Working : job[g] \in Tasks
  BY WorkingTyped DEF Working
<1>2. \A t \in Tasks \ contested' : RowRuns(t) => RowRuns(t)'
  BY DEF RowRuns
<1>3. OneRunningRow'
  BY DEF IClaims, OneRunningRow, WithStatus
<1>4. disp.pc = "ident" => disp.claimed \in Tasks
  BY DEF IType
<1>5. disp.pc \in {"load", "spawn"} => disp.task \in Tasks
  BY DEF IType
<1>6. \A t : NobodyRuns(t) => NobodyRuns(t)'
  BY <1>1 DEF NobodyRuns
<1> QED BY <1>1, <1>2, <1>3, <1>4, <1>5, <1>6 DEF IClaims

\* A goroutine's step inside its pipeline, or out of it: only its own row may
\* change, to running in the first case, to something else in the second.
LEMMA ClaimsGoto ==
  ASSUME IType, IClaims, NEW g \in Working, NEW label \in Labels \ {"idle"},
         Goto(g, label),
         \A t \in Tasks : t # job[g] => rows'[t].status = rows[t].status,
         IF label \in Pipeline
           THEN rows'[job[g]].status \in {rows[job[g]].status, "running"}
           ELSE rows'[job[g]].status = rows[job[g]].status
                  \/ rows'[job[g]].status # "running",
         label \in Pipeline /\ label # "start" => mem'[g].status = "running",
         \A h \in Working : h # g => mem'[h] = mem[h]
  PROVE  IClaims'
<1>0. g \in Workers /\ job[g] \in Tasks
  BY WorkingTyped
<1>1. UNCHANGED <<disp, phase, job, contested>> /\ pc' = [pc EXCEPT ![g] = label]
  BY DEF Goto
<1>2. Working' = IF label \in Pipeline THEN Working ELSE Working \ {g}
  BY <1>0, <1>1 DEF Working, IType
<1>3. \A h \in Working : job[h] \in Tasks
  BY WorkingTyped
<1>4. \A h \in Working' : job[h] \notin contested => RowRuns(job[h])'
  <2> SUFFICES ASSUME NEW h \in Working', job[h] \notin contested
               PROVE  RowRuns(job[h])'
    OBVIOUS
  <2>1. h \in Working /\ RowRuns(job[h])
    BY <1>2 DEF IClaims
  <2>2. CASE job[h] # job[g]
    BY <1>1, <1>3, <2>1, <2>2 DEF RowRuns
  <2>3. CASE job[h] = job[g]
    <3>1. h = g /\ label \in Pipeline
      BY <1>2, <2>1, <2>3 DEF IClaims
    <3> QED BY <1>1, <2>1, <3>1 DEF RowRuns
  <2> QED BY <2>2, <2>3
<1>5. \A t \in Tasks \ contested : NobodyRuns(t) /\ RowRuns(t) => NobodyRuns(t)' /\ RowRuns(t)'
  <2> SUFFICES ASSUME NEW t \in Tasks, NobodyRuns(t), RowRuns(t)
               PROVE  NobodyRuns(t)' /\ RowRuns(t)'
    OBVIOUS
  <2>1. job[g] # t
    BY DEF NobodyRuns
  <2> QED BY <1>1, <1>2, <2>1 DEF NobodyRuns, RowRuns
<1>6. OneRunningRow'
  <2> SUFFICES ASSUME NEW t \in WithStatus(rows, "running")', NEW u \in WithStatus(rows, "running")',
                      t # u, RepoOf[t] = RepoOf[u], t \notin contested, u \notin contested
               PROVE  FALSE
    BY <1>1 DEF OneRunningRow
  <2>1. ASSUME NEW v \in Tasks, v \notin contested, rows'[v].status = "running"
        PROVE  rows[v].status = "running"
    <3>1. CASE v # job[g]
      BY <2>1, <3>1
    <3>2. CASE v = job[g]
      BY <2>1, <3>2 DEF IClaims, RowRuns
    <3> QED BY <3>1, <3>2
  <2>2. t \in WithStatus(rows, "running") /\ u \in WithStatus(rows, "running")
    BY <2>1 DEF WithStatus
  <2> QED BY <2>2 DEF IClaims, OneRunningRow
<1>7. \A h \in Working' : pc'[h] # "start" => mem'[h].status = "running"
  <2> SUFFICES ASSUME NEW h \in Working', pc'[h] # "start" PROVE mem'[h].status = "running"
    OBVIOUS
  <2>1. CASE h = g
    BY <1>0, <1>1, <1>2, <2>1 DEF Working, IType
  <2>2. CASE h # g
    BY <1>0, <1>1, <1>2, <2>2 DEF IClaims, Working, IType
  <2> QED BY <2>1, <2>2
<1>8. disp.pc = "ident" => disp.claimed \in Tasks
  BY DEF IType
<1>9. disp.pc \in {"load", "spawn"} => disp.task \in Tasks
  BY DEF IType
<1>10. \A h, k \in Working' : h # k /\ job[h] = job[k] => job[h] \in contested
  BY <1>2 DEF IClaims
<1>11. phase \notin {"booting", "down"}
  BY DEF IClaims
<1> QED BY <1>1, <1>4, <1>5, <1>6, <1>7, <1>8, <1>9, <1>10, <1>11 DEF IClaims
\* Update, seen by the claims: the row of the goroutine's own task becomes the
\* copy or stays, its memory becomes the copy.
LEMMA UpdateEffect ==
  ASSUME IType, NEW g \in Working, NEW copy \in Row, Update(g, copy)
  PROVE  /\ \A t \in Tasks : t # job[g] => rows'[t] = rows[t]
         /\ rows'[job[g]] = rows[job[g]] \/ rows'[job[g]] = copy
         /\ mem'[g] = copy
         /\ \A h \in Working : h # g => mem'[h] = mem[h]
<1>1. g \in Workers /\ job[g] \in Tasks /\ Working \subseteq Workers
  BY WorkingTyped DEF Working
<1>2. rows' = rows \/ rows' = [rows EXCEPT ![job[g]] = copy]
  BY DEF Update, Saved, SaveLost, Save
<1> QED BY <1>1, <1>2 DEF Update, IType

LEMMA CopyStatus ==
  ASSUME NEW R \in Row, NEW s
  PROVE  /\ [R EXCEPT !.status = s].status = s
         /\ [R EXCEPT !.status = s, !.finished = TRUE].status = s
         /\ [R EXCEPT !.path = TRUE].status = R.status
         /\ [R EXCEPT !.pr = TRUE].status = R.status
         /\ \A c : [R EXCEPT !.ci = c].status = R.status
  BY DEF Row

LEMMA ClaimsWorker ==
  ASSUME IType, IClaims, NEW g \in Workers, RunTask(g)
  PROVE  IClaims'
<1>0. /\ mem[g] \in Row
      /\ \A h \in Working : h \in Workers
      /\ "running" \in Statuses /\ "done" \in Statuses
      /\ "failed" \in Statuses /\ "cancelled" \in Statuses
  BY DEF IType, Working, Statuses
<1>l. /\ Labels \ {"idle"} = Pipeline \cup Epilogue
      /\ Pipeline \cap Epilogue = {}
  BY DEF Labels, Pipeline, Epilogue
<1>w. ASSUME NEW l \in Pipeline, pc[g] = l PROVE g \in Working
  BY <1>w DEF Working
<1>1. CASE MarkRunning(g)
  <2>1. g \in Working
    BY <1>1, <1>w DEF MarkRunning, At, Pipeline
  <2>2. [mem[g] EXCEPT !.status = "running"] \in Row
    BY <1>0, CopyType
  <2>3. Update(g, [mem[g] EXCEPT !.status = "running"])
    BY <1>1 DEF MarkRunning, Update
  <2>4. /\ \A t \in Tasks : t # job[g] => rows'[t] = rows[t]
        /\ \A h \in Working : h # g => mem'[h] = mem[h]
        /\ mem'[g].status = "running"
        /\ rows'[job[g]].status \in {rows[job[g]].status, "running"}
    <3> DEFINE copy == [mem[g] EXCEPT !.status = "running"]
    <3>1. copy.status = "running"
      BY <1>0, CopyStatus
    <3> HIDE DEF copy
    <3> QED BY <2>1, <2>2, <2>3, <3>1, UpdateEffect DEF copy
  <2>5. CASE Goto(g, "worktree")
    BY <1>l, <2>1, <2>4, <2>5, ClaimsGoto DEF Pipeline
  <2>6. CASE Goto(g, "leave") /\ UNCHANGED rows
    BY <1>l, <2>1, <2>4, <2>6, ClaimsGoto DEF Pipeline, Epilogue
  <2> QED BY <1>1, <2>5, <2>6 DEF MarkRunning, SaveLost
<1>2. CASE RecordPath(g)
  <2>1. g \in Working /\ mem[g].status = "running"
    BY <1>2, <1>w DEF RecordPath, At, Pipeline, IClaims
  <2>2. [mem[g] EXCEPT !.path = TRUE] \in Row
    BY <1>0, CopyType
  <2>3. /\ \A t \in Tasks : t # job[g] => rows'[t] = rows[t]
        /\ \A h \in Working : h # g => mem'[h] = mem[h]
        /\ mem'[g].status = "running"
        /\ rows'[job[g]].status \in {rows[job[g]].status, "running"}
    <3>1. [mem[g] EXCEPT !.path = TRUE].status = "running"
      BY <1>0, <2>1, CopyStatus
    <3>2. Update(g, [mem[g] EXCEPT !.path = TRUE])
      BY <1>2 DEF RecordPath
    <3> QED BY <2>1, <2>2, <3>1, <3>2, UpdateEffect
  <2>4. Goto(g, "cancelling") \/ Goto(g, "gates")
    BY <1>2 DEF RecordPath
  <2> QED BY <1>l, <2>1, <2>3, <2>4, ClaimsGoto DEF Pipeline
<1>3. CASE \/ CreateWorktree(g) \/ PassGates(g) \/ PromptFails(g) \/ GateStops(g)
           \/ ClaudeSucceeds(g) \/ ClaudeErrs(g) \/ QualityGate(g) \/ CreatePR(g)
  <2>1. /\ g \in Working /\ mem[g].status = "running"
        /\ \E l \in Pipeline : Goto(g, l)
        /\ UNCHANGED rows
    BY <1>3, <1>w DEF CreateWorktree, PassGates, PromptFails, GateStops, ClaudeSucceeds,
       ClaudeErrs, QualityGate, CreatePR, At, Pipeline, IClaims
  <2>2. mem' = mem \/ mem' = [mem EXCEPT ![g] = [mem[g] EXCEPT !.pr = TRUE]]
    BY <1>3, <1>0 DEF CreateWorktree, PassGates, PromptFails, GateStops, ClaudeSucceeds,
       ClaudeErrs, QualityGate, CreatePR, IType
  <2>3. /\ mem'[g].status = "running"
        /\ \A h \in Working : h # g => mem'[h] = mem[h]
    <3>1. [mem[g] EXCEPT !.pr = TRUE].status = "running"
      BY <1>0, <2>1, CopyStatus
    <3> QED BY <1>0, <2>1, <2>2, <3>1 DEF IType
  <2> QED BY <1>l, <2>1, <2>3, ClaimsGoto
<1>4. CASE MarkDone(g) \/ Fail(g) \/ Cancel(g)
  <2>1. PICK s \in {"done", "failed", "cancelled"} :
          Update(g, [mem[g] EXCEPT !.status = s, !.finished = TRUE])
    BY <1>4 DEF MarkDone, Fail, Cancel
  <2>2. g \in Working /\ \E l \in Epilogue : Goto(g, l)
    BY <1>4, <1>w DEF MarkDone, Fail, Cancel, At, Pipeline, Epilogue
  <2>3. [mem[g] EXCEPT !.status = s, !.finished = TRUE] \in Row
    BY <1>0, CopyType
  <2>4. /\ \A t \in Tasks : t # job[g] => rows'[t] = rows[t]
        /\ \A h \in Working : h # g => mem'[h] = mem[h]
        /\ rows'[job[g]].status = rows[job[g]].status \/ rows'[job[g]].status # "running"
    <3>1. [mem[g] EXCEPT !.status = s, !.finished = TRUE].status # "running"
      BY <1>0, CopyStatus
    <3> QED BY <2>1, <2>2, <2>3, <3>1, UpdateEffect
  <2> QED BY <1>l, <2>2, <2>4, ClaimsGoto
<1>5. CASE HandOff(g) \/ RemoveWorktree(g) \/ Leave(g)
  <2>1. /\ g \notin Working /\ pc' = [pc EXCEPT ![g] = pc'[g]] /\ pc'[g] \notin Pipeline
        /\ \A h \in Workers : h # g => job'[h] = job[h] /\ mem'[h] = mem[h]
        /\ UNCHANGED <<phase, disp, contested>>
    BY <1>5 DEF HandOff, RemoveWorktree, Leave, Goto, At, Working, Pipeline, IType
  <2>2. \A t \in Tasks : rows'[t].status = rows[t].status
    <3>1. rows' = rows \/ rows' = [rows EXCEPT ![job[g]] = [rows[job[g]] EXCEPT !.ci = "watching"]]
      BY <1>5 DEF HandOff, RemoveWorktree, Leave, SaveLost, UpdateCIStatus
    <3>2. \A t \in Tasks : [rows[t] EXCEPT !.ci = "watching"].status = rows[t].status
      BY CopyStatus DEF IType
    <3>3. ASSUME NEW t \in Tasks PROVE rows'[t] \in {rows[t], [rows[t] EXCEPT !.ci = "watching"]}
      BY <3>1 DEF IType
    <3> QED BY <3>2, <3>3
  <2>3. Working' = Working /\ \A h \in Working : h # g /\ pc'[h] = pc[h]
    BY <2>1 DEF Working, IType
  <2> QED BY <1>0, <2>1, <2>2, <2>3, ClaimsFrame DEF IClaims
<1>6. CASE ClaudeEdits(g)
  <2>1. UNCHANGED <<rows, pc, job, mem, disp, phase, contested>>
    BY <1>6 DEF ClaudeEdits, memory
  <2> QED BY <2>1, ClaimsTaken
<1> QED BY <1>1, <1>2, <1>3, <1>4, <1>5, <1>6 DEF RunTask
LEMMA ClaimsInit == Init => IClaims
<1> SUFFICES ASSUME Init PROVE IClaims
  OBVIOUS
<1>1. Working = {} /\ disp.pc = "idle"
  BY DEF Init, Working, Pipeline, IdleDisp
<1>2. WithStatus(rows, "running") = {}
  BY DEF Init, WithStatus, NoRow
<1> QED BY <1>1, <1>2 DEF IClaims, OneRunningRow

\* The row a claim picks is queued, so nobody uncontested runs it, and its
\* repository has no running row.
LEMMA ClaimsClaim ==
  ASSUME IType, IClaims, NEW t \in Tasks, Claim(t)
  PROVE  IClaims'
<1>1. /\ rows[t].status = "queued"
      /\ \A u \in WithStatus(rows, "running") : RepoOf[u] # RepoOf[t]
  BY DEF Claim, Oldest, Claimable, WithStatus
<1>2. /\ rows' = [rows EXCEPT ![t] = [rows[t] EXCEPT !.status = "running", !.owned = TRUE,
                                                    !.claimedAt = clock']]
      /\ disp' = [disp EXCEPT !.pc = "ident", !.claimed = t]
      /\ UNCHANGED <<phase, pc, job, mem, contested>>
  BY DEF Claim, ClaimNextTask, IType
<1>3. /\ rows[t] \in Row
      /\ disp'.pc = "ident" /\ disp'.claimed = t
      /\ phase = "up"
  BY <1>2 DEF IType, Claim
<1>4. /\ rows'[t].status = "running"
      /\ \A u \in Tasks : u # t => rows'[u] = rows[u]
  BY <1>2, <1>3 DEF IType, Row
<1>5. Working' = Working /\ \A g \in Working : job[g] \in Tasks
  BY <1>2, WorkingTyped DEF Working
<1>6. \A g \in Working : job[g] = t => t \in contested
  BY <1>1 DEF IClaims, RowRuns
<1>7. OneRunningRow'
  <2>1. WithStatus(rows, "running")' = WithStatus(rows, "running") \cup {t}
    BY <1>1, <1>4 DEF WithStatus
  <2> QED BY <1>1, <1>2, <2>1 DEF IClaims, OneRunningRow
<1>8. \A g \in Working' : job'[g] \notin contested' => RowRuns(job[g])'
  BY <1>2, <1>4, <1>5 DEF IClaims, RowRuns
<1>9. disp'.claimed \notin contested' => RowRuns(disp.claimed)' /\ NobodyRuns(disp.claimed)'
  BY <1>2, <1>3, <1>4, <1>5, <1>6 DEF RowRuns, NobodyRuns
<1> QED BY <1>2, <1>3, <1>5, <1>7, <1>8, <1>9 DEF IClaims

LEMMA ClaimsDispatcher == IType /\ IClaims /\ Dispatcher => IClaims'
<1> SUFFICES ASSUME IType, IClaims, Dispatcher PROVE IClaims'
  OBVIOUS
<1>1. CASE Tick \/ ReserveSlot \/ GiveUp
  <2>1. /\ UNCHANGED <<rows, phase, pc, job, mem, contested>>
        /\ disp'.pc \in {"idle", "reserve", "claim"}
        /\ phase \notin {"booting", "down"}
    BY <1>1 DEF Tick, ReserveSlot, GiveUp, IdleDisp, Serving, IType, IClaims
  <2>2. Working' = Working
    BY <2>1 DEF Working
  <2> QED BY <2>1, <2>2, ClaimsFrame
<1>2. ASSUME NEW t \in Tasks, Claim(t) PROVE IClaims'
  BY <1>2, ClaimsClaim
<1>3. ASSUME NEW t \in Tasks, Identify(t) PROVE IClaims'
  <2>1. /\ UNCHANGED <<rows, phase, pc, job, mem>>
        /\ disp.pc = "ident" /\ disp'.pc = "load" /\ disp'.task = t
        /\ contested' = IF t = disp.claimed THEN contested ELSE contested \cup {t}
        /\ phase = "up"
    BY <1>3 DEF Identify, IType
  <2>2. Working' = Working
    BY <2>1 DEF Working
  <2>3. OneRunningRow'
    BY <2>1 DEF IClaims, OneRunningRow, WithStatus
  <2> QED BY <2>1, <2>2, <2>3 DEF IClaims, RowRuns, NobodyRuns
<1>4. CASE Load
  <2>1. /\ UNCHANGED <<rows, phase, pc, job, mem, contested>>
        /\ disp.pc = "load" /\ disp'.pc = "spawn" /\ disp'.task = disp.task
        /\ phase = "up"
    BY <1>4 DEF Load, IType
  <2>2. Working' = Working
    BY <2>1 DEF Working
  <2>3. OneRunningRow'
    BY <2>1 DEF IClaims, OneRunningRow, WithStatus
  <2> QED BY <2>1, <2>2, <2>3 DEF IClaims, RowRuns, NobodyRuns
<1>5. ASSUME NEW g \in Workers, Spawn(g) PROVE IClaims'
  <2>1. /\ UNCHANGED <<rows, phase, contested>>
        /\ disp.pc = "spawn" /\ disp'.pc = "reserve"
        /\ pc[g] = "idle" /\ pc' = [pc EXCEPT ![g] = "start"]
        /\ job' = [job EXCEPT ![g] = disp.task]
        /\ mem' = [mem EXCEPT ![g] = disp.copy]
        /\ phase \notin {"booting", "down"}
    BY <1>5 DEF Spawn, IdleDisp, Serving
  <2>2. Working' = Working \cup {g} /\ g \notin Working
    BY <2>1 DEF Working, Pipeline, IType
  <2>3. /\ job'[g] = disp.task /\ pc'[g] = "start"
        /\ \A h \in Working : job'[h] = job[h] /\ pc'[h] = pc[h] /\ mem'[h] = mem[h]
    BY <2>1, <2>2 DEF Working, IType
  <2>4. OneRunningRow'
    BY <2>1 DEF IClaims, OneRunningRow, WithStatus
  <2>5. disp.task \notin contested => RowRuns(disp.task) /\ NobodyRuns(disp.task)
    BY <2>1 DEF IClaims
  <2>6. \A h \in Working' : job'[h] \notin contested' => RowRuns(job[h])'
    BY <2>1, <2>2, <2>3, <2>5 DEF IClaims, RowRuns
  <2>7. \A h, k \in Working' : h # k /\ job'[h] = job'[k] => job'[h] \in contested'
    BY <2>1, <2>2, <2>3, <2>5 DEF IClaims, NobodyRuns
  <2>8. \A h \in Working' : pc'[h] # "start" => mem'[h].status = "running"
    BY <2>2, <2>3 DEF IClaims
  <2> QED BY <2>1, <2>4, <2>6, <2>7, <2>8 DEF IClaims
<1> QED BY <1>1, <1>2, <1>3, <1>4, <1>5 DEF Dispatcher

LEMMA ClaimsOthers ==
  ASSUME IType, IClaims, NEW t \in Tasks,
         Enqueue(t) \/ SlackStop(t) \/ StopRead(t) \/ StopCancel(t) \/ StopSave(t)
  PROVE  IClaims'
<1>1. UNCHANGED <<pc, job, mem, disp, phase>> /\ contested \subseteq contested'
  BY DEF Enqueue, SlackStop, StopRead, StopCancel, StopSave, memory
<1>2. CASE Enqueue(t)
  <2>1. \A u \in Tasks : u # t => rows'[u] = rows[u]
    BY <1>2 DEF Enqueue, Insert, IType
  <2>2. rows[t].status = "absent" /\ rows'[t].status = "queued"
    BY <1>2 DEF Enqueue, Insert, NoRow, IType
  <2> QED BY <1>1, <2>1, <2>2, ClaimsTaken
<1>3. CASE SlackStop(t) \/ StopRead(t) \/ StopCancel(t)
  <2>1. rows' = rows
    BY <1>3 DEF SlackStop, StopRead, StopCancel
  <2> QED BY <1>1, <2>1, ClaimsTaken
<1>4. CASE StopSave(t)
  <2>1. \A u \in Tasks : u # t => rows'[u] = rows[u]
    BY <1>4 DEF StopSave, Save, IType
  <2>2. stop[t].copy \in Row
    BY DEF IType
  <2>3. \/ rows' = rows
        \/ /\ rows'[t].status = "cancelled"
           /\ rows[t].status = "queued" \/ t \in contested'
    <3>1. [stop[t].copy EXCEPT !.status = "cancelled", !.finished = TRUE].status = "cancelled"
      BY <2>2, CopyStatus
    <3>2. CASE UNCHANGED rows
      BY <3>2
    <3>3. CASE /\ rows' = Save(rows, t, [stop[t].copy EXCEPT !.status = "cancelled",
                                                            !.finished = TRUE])
               /\ contested' = IF rows[t].status = "queued" THEN contested
                                                            ELSE contested \cup {t}
      BY <3>1, <3>3 DEF Save, IType
    <3> QED BY <1>4, <3>2, <3>3 DEF StopSave
  <2> QED BY <1>1, <2>1, <2>3, ClaimsTaken
<1> QED BY <1>2, <1>3, <1>4

LEMMA ClaimsRecover ==
  ASSUME IType, IClaims, NEW t \in Tasks, RecoverOrphan(t)
  PROVE  IClaims'
<1>1. /\ UNCHANGED <<pc, job, mem, disp, phase, contested>>
      /\ Working = {} /\ disp.pc = "idle"
  BY DEF RecoverOrphan, memory, IClaims
<1>2. \A u \in Tasks : rows'[u].status = "running" => rows[u].status = "running"
  BY DEF RecoverOrphan, IType
<1>3. OneRunningRow'
  BY <1>1, <1>2 DEF IClaims, OneRunningRow, WithStatus
<1>4. Working' = {}
  BY <1>1 DEF Working
<1> QED BY <1>1, <1>3, <1>4 DEF IClaims

LEMMA ClaimsReclaim ==
  ASSUME IType, IClaims, NEW cutoff \in Nat, Reclaim(cutoff)
  PROVE  IClaims'
<1>1. UNCHANGED <<pc, job, mem, disp, phase>> /\ contested \subseteq contested'
  BY DEF Reclaim, memory
<1>2. ASSUME NEW u \in Tasks
      PROVE  \/ rows'[u].status = rows[u].status
             \/ rows'[u].status = "orphaned" /\ u \in contested'
  <2>1. contested' = contested \cup Stale(rows, cutoff)
    BY DEF Reclaim
  <2>2. rows'[u] = IF u \in Stale(rows, cutoff)
                     THEN [rows[u] EXCEPT !.status = "orphaned", !.owned = FALSE]
                     ELSE rows[u]
    BY DEF Reclaim, ReclaimStale
  <2>3. [rows[u] EXCEPT !.status = "orphaned", !.owned = FALSE].status = "orphaned"
    <3>1. rows[u] \in Row
      BY DEF IType
    <3> QED BY <3>1 DEF Row
  <2> QED BY <2>1, <2>2, <2>3
<1> QED BY <1>1, <1>2, ClaimsTaken

LEMMA ClaimsProcess == IType /\ IClaims /\ Process => IClaims'
<1> SUFFICES ASSUME IType, IClaims, Process PROVE IClaims'
  OBVIOUS
<1>1. CASE Down
  <2>1. Working' = {} /\ disp'.pc = "idle" /\ rows' = rows /\ contested' = contested
    BY <1>1 DEF Down, Working, Pipeline, IdleDisp
  <2>2. OneRunningRow'
    BY <2>1 DEF IClaims, OneRunningRow, WithStatus
  <2> QED BY <2>1, <2>2 DEF IClaims
<1>2. CASE Shutdown \/ Boot \/ StartUp
  <2>1. /\ UNCHANGED <<rows, pc, job, mem, disp, contested>>
        /\ phase' \in {"booting", "down"} => phase \in {"booting", "down"}
    BY <1>2 DEF Shutdown, Boot, StartUp, memory
  <2>2. Working' = Working
    BY <2>1 DEF Working
  <2>3. phase' \in {"booting", "down"} => Working = {} /\ disp'.pc = "idle"
    BY <2>1 DEF IClaims
  <2> QED BY <2>1, <2>2, <2>3, ClaimsFrame
<1> QED BY <1>1, <1>2 DEF Process, Crash, Exit

LEMMA ClaimsNext == IType /\ IClaims /\ [Next]_vars => IClaims'
<1> SUFFICES ASSUME IType, IClaims, [Next]_vars PROVE IClaims'
  OBVIOUS
<1>1. CASE UNCHANGED vars
  <2>1. UNCHANGED <<rows, pc, job, mem, disp, phase, contested>>
    BY <1>1 DEF vars
  <2> QED BY <2>1, ClaimsTaken
<1>2. ASSUME NEW cutoff \in 1..(clock + 1), Reclaim(cutoff) PROVE IClaims'
  BY <1>2, ClaimsReclaim DEF IType
<1> QED BY <1>1, <1>2, ClaimsDispatcher, ClaimsWorker, ClaimsOthers, ClaimsRecover,
           ClaimsProcess DEF Next

LEMMA ClaimsInvariant == Spec => [](IType /\ IClaims)
<1>1. Init => IType /\ IClaims
  BY TypeInit, ClaimsInit
<1>2. IType /\ IClaims /\ [Next]_vars => IType' /\ IClaims'
  BY TypeNext, ClaimsNext
<1> QED BY <1>1, <1>2, PTL DEF Spec

\* Two goroutines work in one repository only if one of the two claims was
\* taken away from it: in every environment, whatever fails, stops or restarts.
THEOREM SerialRepos == Spec => []RepoSerial
<1>1. IType /\ IClaims => RepoSerial
  <2> SUFFICES ASSUME IType, IClaims, NEW g \in Working, NEW h \in Working, g # h,
                      RepoOf[job[g]] = RepoOf[job[h]],
                      job[g] \notin contested, job[h] \notin contested
               PROVE  FALSE
    BY DEF RepoSerial
  <2>1. job[g] # job[h]
    BY DEF IClaims
  <2>2. job[g] \in WithStatus(rows, "running") /\ job[h] \in WithStatus(rows, "running")
    BY WorkingTyped DEF IClaims, RowRuns, WithStatus
  <2> QED BY <2>1, <2>2 DEF IClaims, OneRunningRow
<1> QED BY <1>1, ClaimsInvariant, PTL

\* The same of the table, across restarts.
THEOREM SerialRows == Spec => []OneRunningRow
<1>1. IClaims => OneRunningRow
  BY DEF IClaims
<1> QED BY <1>1, ClaimsInvariant, PTL
-----------------------------------------------------------------------------
(* Final statuses                                                           *)

\* A goroutine changes the status of its own task only, and only while it is
\* in its pipeline.
LEMMA WorkerStatus ==
  ASSUME IType, NEW g \in Workers, RunTask(g), NEW t \in Tasks,
         rows'[t].status # rows[t].status
  PROVE  g \in Working /\ t = job[g]
<1>1. CASE \/ MarkRunning(g) \/ RecordPath(g) \/ MarkDone(g) \/ Fail(g) \/ Cancel(g)
  <2>1. g \in Working
    BY <1>1 DEF MarkRunning, RecordPath, MarkDone, Fail, Cancel, At, Working, Pipeline
  <2>2. rows' = rows \/ \E copy : rows' = Save(rows, job[g], copy)
    BY <1>1 DEF MarkRunning, RecordPath, MarkDone, Fail, Cancel, Update, Saved, SaveLost
  <2> QED BY <2>1, <2>2 DEF Save, IType
<1>2. CASE HandOff(g)
  <2>1. rows[t] \in Row
    BY DEF IType
  <2>2. rows' = rows \/ rows' = [rows EXCEPT ![job[g]] = [rows[job[g]] EXCEPT !.ci = "watching"]]
    BY <1>2 DEF HandOff, SaveLost, UpdateCIStatus
  <2>3. rows'[t] = rows[t] \/ rows'[t] = [rows[t] EXCEPT !.ci = "watching"]
    BY <2>2 DEF IType
  <2>4. [rows[t] EXCEPT !.ci = "watching"].status = rows[t].status
    BY <2>1, CopyStatus
  <2> QED BY <2>3, <2>4
<1>3. CASE rows' = rows
  BY <1>3
<1> QED BY <1>1, <1>2, <1>3 DEF RunTask, CreateWorktree, PassGates, PromptFails, GateStops,
           ClaudeEdits, ClaudeSucceeds, ClaudeErrs, QualityGate, CreatePR, RemoveWorktree, Leave

\* Once a row says done, failed, cancelled or orphaned, only a contested claim
\* ever changes that: no late write of an exclusive goroutine, no restart, no
\* reclaim and no later claim does.
THEOREM FinalStatus == Spec => TerminalIsFinal
<1>1. ASSUME IType, IClaims, [Next]_vars, NEW t \in Tasks,
             rows[t].status \in Terminal, t \notin contested'
      PROVE  rows'[t].status = rows[t].status
  <2>1. rows[t].status # "running" /\ rows[t].status # "queued" /\ rows[t].status # "absent"
    BY <1>1 DEF Terminal
  <2>2. CASE UNCHANGED rows
    BY <2>2
  <2>3. ASSUME NEW u \in Tasks, Claim(u) PROVE rows'[t].status = rows[t].status
    BY <1>1, <2>1, <2>3 DEF Claim, Oldest, Claimable, WithStatus, ClaimNextTask, IType
  <2>4. ASSUME NEW g \in Workers, RunTask(g) PROVE rows'[t].status = rows[t].status
    <3>1. contested' = contested
      BY <2>4 DEF RunTask, MarkRunning, CreateWorktree, RecordPath, PassGates, PromptFails,
         GateStops, ClaudeEdits, ClaudeSucceeds, ClaudeErrs, QualityGate, CreatePR, MarkDone,
         Fail, Cancel, HandOff, RemoveWorktree, Leave, Goto
    <3>2. g \in Working => t # job[g]
      BY <1>1, <2>1, <3>1 DEF IClaims, RowRuns
    <3> QED BY <1>1, <2>4, <3>2, WorkerStatus
  <2>5. ASSUME NEW u \in Tasks, Enqueue(u) PROVE rows'[t].status = rows[t].status
    BY <1>1, <2>1, <2>5 DEF Enqueue, Insert, IType
  <2>6. ASSUME NEW u \in Tasks, StopSave(u) PROVE rows'[t].status = rows[t].status
    BY <1>1, <2>1, <2>6 DEF StopSave, Save, IType
  <2>7. ASSUME NEW u \in Tasks, RecoverOrphan(u) PROVE rows'[t].status = rows[t].status
    BY <1>1, <2>1, <2>7 DEF RecoverOrphan, IType
  <2>8. ASSUME NEW cutoff \in 1..(clock + 1), Reclaim(cutoff)
        PROVE  rows'[t].status = rows[t].status
    BY <1>1, <2>1, <2>8 DEF Reclaim, ReclaimStale, Stale, WithStatus, IType
  <2>9. ASSUME NEW u \in Tasks, SlackStop(u) \/ StopRead(u) \/ StopCancel(u) \/ Identify(u)
        PROVE  UNCHANGED rows
    BY <2>9 DEF SlackStop, StopRead, StopCancel, Identify
  <2>10. ASSUME NEW g \in Workers, Spawn(g) PROVE UNCHANGED rows
    BY <2>10 DEF Spawn
  <2>11. CASE Tick \/ ReserveSlot \/ Load \/ GiveUp \/ Process
    BY <2>2, <2>11 DEF Tick, ReserveSlot, Load, GiveUp, Process, Crash, Shutdown, Exit, Down,
       Boot, StartUp
  <2> QED BY <1>1, <2>2, <2>3, <2>4, <2>5, <2>6, <2>7, <2>8, <2>9, <2>10, <2>11
          DEF Next, Dispatcher, vars
<1>2. IType /\ IClaims /\ [Next]_vars
        => [\A t \in Tasks : rows[t].status \in Terminal /\ t \notin contested'
              => rows'[t].status = rows[t].status]_vars
  BY <1>1
<1> QED BY <1>2, ClaimsInvariant, PTL DEF Spec, TerminalIsFinal
-----------------------------------------------------------------------------
(* When no claim can be contested                                           *)

Calm == ~LeaseExpires /\ ~Ties /\ ApiStops = {}

\* Between its two statements ClaimNext's row carries the newest claimed_at in
\* the table, and no goroutine is about to write an equal one.
Newest ==
  /\ clock > 0
  /\ rows[disp.claimed].owned
  /\ rows[disp.claimed].claimedAt = clock
  /\ \A t \in Tasks : t # disp.claimed => rows[t].claimedAt < clock
  /\ \A g \in Working : mem[g].claimedAt < clock

ICalm ==
  /\ contested = {}
  /\ \A t \in Tasks : stop[t].pc = "idle"
  /\ \A t \in Tasks : rows[t].claimedAt =< clock
  /\ \A g \in Workers : mem[g].claimedAt =< clock
  /\ disp.copy.claimedAt =< clock
  /\ disp.pc = "ident" => Newest

LEMMA CalmInit == Init => ICalm
<1> SUFFICES ASSUME Init PROVE ICalm
  OBVIOUS
<1>1. NoRow.claimedAt = 0 /\ IdleStop.pc = "idle" /\ IdleDisp.pc = "idle" /\ IdleDisp.copy = NoRow
  BY DEF NoRow, IdleStop, IdleDisp
<1>2. /\ \A t \in Tasks : rows[t] = NoRow /\ stop[t] = IdleStop
      /\ \A g \in Workers : mem[g] = NoRow
      /\ disp = IdleDisp /\ clock = 0 /\ contested = {}
  BY DEF Init
<1> QED BY <1>1, <1>2 DEF ICalm

\* A goroutine's step puts claimed_at values it has in memory, or none, into
\* its copy ...
LEMMA WorkerMem ==
  ASSUME IType, NEW g \in Workers, RunTask(g), NEW h \in Workers
  PROVE  mem'[h].claimedAt = mem[h].claimedAt \/ mem'[h].claimedAt = 0
<1>0. mem \in [Workers -> Row] /\ mem[g] \in Row
  BY DEF IType
<1>1. CASE MarkRunning(g) \/ RecordPath(g) \/ MarkDone(g) \/ Fail(g) \/ Cancel(g)
  <2>1. PICK copy : mem' = [mem EXCEPT ![g] = copy] /\ copy.claimedAt = mem[g].claimedAt
    <3>1. CASE MarkRunning(g)
      <4>1. mem' = [mem EXCEPT ![g] = [mem[g] EXCEPT !.status = "running"]]
        BY <3>1 DEF MarkRunning
      <4>2. [mem[g] EXCEPT !.status = "running"].claimedAt = mem[g].claimedAt
        BY <1>0 DEF Row
      <4> QED BY <4>1, <4>2
    <3>2. CASE RecordPath(g)
      <4>1. mem' = [mem EXCEPT ![g] = [mem[g] EXCEPT !.path = TRUE]]
        BY <3>2 DEF RecordPath, Update
      <4>2. [mem[g] EXCEPT !.path = TRUE].claimedAt = mem[g].claimedAt
        BY <1>0 DEF Row
      <4> QED BY <4>1, <4>2
    <3>3. CASE MarkDone(g) \/ Fail(g) \/ Cancel(g)
      <4>1. PICK s : mem' = [mem EXCEPT ![g] =
                               [mem[g] EXCEPT !.status = s, !.finished = TRUE]]
        BY <3>3 DEF MarkDone, Fail, Cancel, Update
      <4>2. [mem[g] EXCEPT !.status = s, !.finished = TRUE].claimedAt = mem[g].claimedAt
        BY <1>0 DEF Row
      <4> QED BY <4>1, <4>2
    <3> QED BY <1>1, <3>1, <3>2, <3>3
  <2> QED BY <1>0, <2>1
<1>2. CASE Leave(g)
  <2>1. mem' = [mem EXCEPT ![g] = NoRow] /\ NoRow.claimedAt = 0
    BY <1>2 DEF Leave, NoRow
  <2> QED BY <1>0, <2>1
<1>3. CASE CreatePR(g)
  <2>1. mem' = mem \/ mem' = [mem EXCEPT ![g] = [mem[g] EXCEPT !.pr = TRUE]]
    BY <1>0, <1>3 DEF CreatePR
  <2>2. [mem[g] EXCEPT !.pr = TRUE].claimedAt = mem[g].claimedAt
    BY <1>0 DEF Row
  <2> QED BY <1>0, <2>1, <2>2
<1>4. CASE \/ CreateWorktree(g) \/ PassGates(g) \/ PromptFails(g) \/ GateStops(g)
           \/ ClaudeEdits(g) \/ ClaudeSucceeds(g) \/ ClaudeErrs(g) \/ QualityGate(g)
           \/ RemoveWorktree(g) \/ HandOff(g)
  <2>1. UNCHANGED mem
    BY <1>4 DEF CreateWorktree, PassGates, PromptFails, GateStops, ClaudeEdits, memory,
       ClaudeSucceeds, ClaudeErrs, QualityGate, RemoveWorktree, HandOff
  <2> QED BY <2>1
<1> QED BY <1>1, <1>2, <1>3, <1>4 DEF RunTask

\* ... and from there into the row of its own task.
LEMMA WorkerRows ==
  ASSUME IType, NEW g \in Workers, RunTask(g), NEW t \in Tasks
  PROVE  \/ rows'[t].claimedAt = rows[t].claimedAt /\ rows'[t].owned = rows[t].owned
         \/ g \in Working /\ t = job[g] /\ rows'[t].claimedAt = mem[g].claimedAt
<1>0. /\ mem[g] \in Row /\ rows \in [Tasks -> Row] /\ rows[t] \in Row
  BY DEF IType
<1>1. CASE MarkRunning(g) \/ RecordPath(g) \/ MarkDone(g) \/ Fail(g) \/ Cancel(g)
  <2>1. g \in Working
    BY <1>1 DEF MarkRunning, RecordPath, MarkDone, Fail, Cancel, At, Working, Pipeline
  <2>2. PICK copy : /\ rows' = rows \/ rows' = [rows EXCEPT ![job[g]] = copy]
                    /\ copy.claimedAt = mem[g].claimedAt
    <3>1. CASE MarkRunning(g)
      <4>1. rows' = rows \/ rows' = [rows EXCEPT ![job[g]] = [mem[g] EXCEPT !.status = "running"]]
        BY <3>1 DEF MarkRunning, Saved, SaveLost, Save
      <4>2. [mem[g] EXCEPT !.status = "running"].claimedAt = mem[g].claimedAt
        BY <1>0 DEF Row
      <4> QED BY <4>1, <4>2
    <3>2. CASE RecordPath(g)
      <4>1. rows' = rows \/ rows' = [rows EXCEPT ![job[g]] = [mem[g] EXCEPT !.path = TRUE]]
        BY <3>2 DEF RecordPath, Update, Saved, SaveLost, Save
      <4>2. [mem[g] EXCEPT !.path = TRUE].claimedAt = mem[g].claimedAt
        BY <1>0 DEF Row
      <4> QED BY <4>1, <4>2
    <3>3. CASE MarkDone(g) \/ Fail(g) \/ Cancel(g)
      <4>1. PICK s : \/ rows' = rows
                     \/ rows' = [rows EXCEPT ![job[g]] =
                                   [mem[g] EXCEPT !.status = s, !.finished = TRUE]]
        BY <3>3 DEF MarkDone, Fail, Cancel, Update, Saved, SaveLost, Save
      <4>2. [mem[g] EXCEPT !.status = s, !.finished = TRUE].claimedAt = mem[g].claimedAt
        BY <1>0 DEF Row
      <4> QED BY <4>1, <4>2
    <3> QED BY <1>1, <3>1, <3>2, <3>3
  <2>3. CASE t = job[g]
    BY <1>0, <2>1, <2>2, <2>3
  <2>4. CASE t # job[g]
    BY <1>0, <2>2, <2>4
  <2> QED BY <2>3, <2>4
<1>2. CASE HandOff(g)
  <2>1. rows'[t] = rows[t] \/ rows'[t] = [rows[t] EXCEPT !.ci = "watching"]
    BY <1>0, <1>2 DEF HandOff, SaveLost, UpdateCIStatus
  <2>2. /\ [rows[t] EXCEPT !.ci = "watching"].claimedAt = rows[t].claimedAt
        /\ [rows[t] EXCEPT !.ci = "watching"].owned = rows[t].owned
    BY <1>0 DEF Row
  <2> QED BY <2>1, <2>2
<1>3. CASE \/ CreateWorktree(g) \/ PassGates(g) \/ PromptFails(g) \/ GateStops(g)
           \/ ClaudeEdits(g) \/ ClaudeSucceeds(g) \/ ClaudeErrs(g) \/ QualityGate(g)
           \/ RemoveWorktree(g) \/ CreatePR(g) \/ Leave(g)
  <2>1. UNCHANGED rows
    BY <1>3 DEF CreateWorktree, PassGates, PromptFails, GateStops, ClaudeEdits, CreatePR, Leave,
       ClaudeSucceeds, ClaudeErrs, QualityGate, RemoveWorktree
  <2> QED BY <2>1
<1> QED BY <1>1, <1>2, <1>3 DEF RunTask

\* No step of a goroutine takes it back into the pipeline.
LEMMA WorkingShrinks ==
  ASSUME IType, NEW g \in Workers, RunTask(g)
  PROVE  Working' \subseteq Working
<1>0. pc \in [Workers -> Labels]
  BY DEF IType
<1>1. CASE Leave(g)
  BY <1>0, <1>1 DEF Leave, Working, Pipeline
<1>2. CASE ClaudeEdits(g)
  BY <1>2 DEF ClaudeEdits, memory, Working
<1>3. CASE \/ MarkRunning(g) \/ CreateWorktree(g) \/ RecordPath(g) \/ PassGates(g)
           \/ PromptFails(g) \/ GateStops(g) \/ ClaudeSucceeds(g) \/ ClaudeErrs(g)
           \/ QualityGate(g) \/ CreatePR(g) \/ MarkDone(g) \/ Fail(g) \/ Cancel(g)
  <2>1. g \in Working
    BY <1>3 DEF MarkRunning, CreateWorktree, RecordPath, PassGates, PromptFails, GateStops,
       ClaudeSucceeds, ClaudeErrs, QualityGate, CreatePR, MarkDone, Fail, Cancel, At,
       Working, Pipeline
  <2>2. \A h \in Workers : h # g => pc'[h] = pc[h]
    BY <1>0, <1>3 DEF MarkRunning, CreateWorktree, RecordPath, PassGates, PromptFails,
       GateStops, ClaudeSucceeds, ClaudeErrs, QualityGate, CreatePR, MarkDone, Fail, Cancel,
       Goto
  <2> QED BY <2>1, <2>2 DEF Working
<1>4. CASE HandOff(g) \/ RemoveWorktree(g)
  <2>1. pc' = [pc EXCEPT ![g] = "drop"] \/ pc' = [pc EXCEPT ![g] = "leave"]
    BY <1>4 DEF HandOff, RemoveWorktree, Goto
  <2> QED BY <1>0, <2>1 DEF Working, Pipeline
<1> QED BY <1>1, <1>2, <1>3, <1>4 DEF RunTask

LEMMA CalmWorker ==
  ASSUME Calm, IType, IClaims, ICalm, NEW g \in Workers, RunTask(g)
  PROVE  ICalm'
<1>1. UNCHANGED <<disp, stop, clock, contested>>
  BY DEF RunTask, MarkRunning, CreateWorktree, RecordPath, PassGates, PromptFails, GateStops,
     ClaudeEdits, ClaudeSucceeds, ClaudeErrs, QualityGate, CreatePR, MarkDone, Fail, Cancel,
     HandOff, RemoveWorktree, Leave, Goto, memory
<1>2. clock \in Nat /\ \A h \in Workers : mem[h].claimedAt \in Nat
  BY DEF IType, Row
<1>3. Working' \subseteq Working /\ Working \subseteq Workers
  BY WorkingShrinks DEF Working
<1>4. \A h \in Workers : mem'[h].claimedAt =< clock
  BY <1>2, WorkerMem DEF ICalm
<1>5. \A t \in Tasks : rows'[t].claimedAt =< clock
  BY <1>2, WorkerRows DEF ICalm
<1>6. ASSUME disp.pc = "ident" PROVE Newest'
  <2>1. /\ Newest /\ disp.claimed \in Tasks
        /\ \A h \in Working : job[h] # disp.claimed
    BY <1>6 DEF IType, IClaims, ICalm, NobodyRuns
  <2>2. rows'[disp.claimed].owned /\ rows'[disp.claimed].claimedAt = clock
    BY <2>1, WorkerRows DEF Newest
  <2>3. \A t \in Tasks : t # disp.claimed => rows'[t].claimedAt < clock
    BY <2>1, WorkerRows DEF Newest
  <2>4. \A h \in Working' : mem'[h].claimedAt < clock
    BY <1>3, <2>1, WorkerMem DEF Newest
  <2> QED BY <1>1, <2>1, <2>2, <2>3, <2>4 DEF Newest
<1>7. contested' = {} /\ (\A t \in Tasks : stop'[t].pc = "idle") /\ disp'.copy.claimedAt =< clock'
  BY <1>1 DEF ICalm
<1> QED BY <1>1, <1>4, <1>5, <1>6, <1>7 DEF ICalm

LEMMA CalmDispatcher ==
  ASSUME Calm, IType, IClaims, ICalm, Dispatcher
  PROVE  ICalm'
<1>0. clock \in Nat /\ \A t \in Tasks : rows[t] \in Row
  BY DEF IType
<1>1. CASE Tick \/ ReserveSlot \/ GiveUp
  <2>1. /\ UNCHANGED <<rows, pc, mem, stop, clock, contested>>
        /\ disp'.pc # "ident"
        /\ disp'.copy = disp.copy \/ disp'.copy = NoRow
    BY <1>1 DEF Tick, ReserveSlot, GiveUp, IdleDisp, IType
  <2>2. NoRow.claimedAt =< clock
    BY <1>0 DEF NoRow
  <2> QED BY <2>1, <2>2 DEF ICalm
<1>2. ASSUME NEW t \in Tasks, Claim(t) PROVE ICalm'
  <2>1. /\ clock' = clock + 1
        /\ rows' = [rows EXCEPT ![t] = [rows[t] EXCEPT !.status = "running", !.owned = TRUE,
                                                      !.claimedAt = clock']]
        /\ disp' = [disp EXCEPT !.pc = "ident", !.claimed = t]
        /\ UNCHANGED <<pc, mem, stop, contested>>
    BY <1>2 DEF Claim, Calm, ClaimNextTask, IType
  <2>2. rows'[t].owned /\ rows'[t].claimedAt = clock'
    <3>1. rows'[t] = [rows[t] EXCEPT !.status = "running", !.owned = TRUE, !.claimedAt = clock']
      BY <2>1 DEF IType
    <3> QED BY <1>0, <3>1 DEF Row
  <2>3. \A u \in Tasks : u # t => rows'[u] = rows[u]
    BY <2>1 DEF IType
  <2>4. \A u \in Tasks : rows[u].claimedAt \in Nat
    BY <1>0 DEF Row
  <2>5. disp'.claimed = t /\ disp'.copy = disp.copy /\ disp.copy.claimedAt \in Nat
    BY <2>1 DEF IType, Row
  <2>6. Working' = Working /\ \A g \in Workers : mem[g].claimedAt \in Nat
    BY <2>1 DEF Working, IType, Row
  <2>7. Newest'
    BY <1>0, <2>1, <2>2, <2>3, <2>4, <2>5, <2>6 DEF Newest, ICalm, Working
  <2>8. \A u \in Tasks : rows'[u].claimedAt =< clock'
    BY <1>0, <2>1, <2>2, <2>3, <2>4 DEF ICalm
  <2> QED BY <1>0, <2>1, <2>5, <2>6, <2>7, <2>8 DEF ICalm
<1>3. ASSUME NEW t \in Tasks, Identify(t) PROVE ICalm'
  <2>1. disp.pc = "ident" /\ disp.claimed \in Tasks /\ RowRuns(disp.claimed) /\ Newest
    BY <1>3 DEF Identify, IType, IClaims, ICalm
  <2>2. rows[disp.claimed].claimedAt =< rows[t].claimedAt
    BY <1>3, <2>1 DEF Identify, GetClaimedTaskID, WithStatus, RowRuns, Newest
  <2>3. t = disp.claimed
    <3>1. rows[t].claimedAt \in Nat /\ rows[disp.claimed].claimedAt \in Nat
      BY <1>0, <2>1 DEF Row
    <3> QED BY <1>0, <2>1, <2>2, <3>1 DEF Newest
  <2>4. /\ UNCHANGED <<rows, pc, mem, stop, clock, contested>>
        /\ disp'.pc = "load" /\ disp'.copy = disp.copy
    BY <1>3, <2>3 DEF Identify, IType
  <2> QED BY <2>4 DEF ICalm
<1>4. CASE Load
  <2>1. /\ UNCHANGED <<rows, pc, mem, stop, clock, contested>>
        /\ disp'.pc = "spawn" /\ disp'.copy = rows[disp.task] /\ disp.task \in Tasks
    BY <1>4 DEF Load, IType
  <2> QED BY <2>1 DEF ICalm
<1>5. ASSUME NEW g \in Workers, Spawn(g) PROVE ICalm'
  <2>1. /\ UNCHANGED <<rows, stop, clock, contested>>
        /\ disp'.pc = "reserve" /\ disp'.copy = NoRow
        /\ mem' = [mem EXCEPT ![g] = disp.copy]
    BY <1>5 DEF Spawn, IdleDisp
  <2>2. NoRow.claimedAt =< clock
    BY <1>0 DEF NoRow
  <2>3. \A h \in Workers : mem'[h] = mem[h] \/ mem'[h] = disp.copy
    BY <2>1 DEF IType
  <2> QED BY <2>1, <2>2, <2>3 DEF ICalm
<1> QED BY <1>1, <1>2, <1>3, <1>4, <1>5 DEF Dispatcher

LEMMA CalmOthers ==
  ASSUME Calm, IType, IClaims, ICalm, NEW t \in Tasks,
         \/ Enqueue(t) \/ SlackStop(t) \/ StopRead(t) \/ StopCancel(t) \/ StopSave(t)
         \/ RecoverOrphan(t)
  PROVE  ICalm'
<1>0. clock \in Nat
  BY DEF IType
<1>1. CASE Enqueue(t)
  <2>1. UNCHANGED <<disp, pc, mem, stop, clock, contested>>
    BY <1>1 DEF Enqueue, memory
  <2>2. \A u \in Tasks : u # t => rows'[u] = rows[u]
    BY <1>1 DEF Enqueue, Insert, IType
  <2>3. rows'[t].claimedAt = 0 /\ rows[t].status = "absent"
    BY <1>1 DEF Enqueue, Insert, NoRow, IType
  <2>4. disp.pc = "ident" => t # disp.claimed
    BY <2>3 DEF IClaims, ICalm, RowRuns
  <2>5. disp.pc = "ident" => disp.claimed \in Tasks
    BY DEF IType
  <2>6. Working' = Working
    BY <2>1 DEF Working
  <2> QED BY <1>0, <2>1, <2>2, <2>3, <2>4, <2>5, <2>6 DEF ICalm, Newest
<1>2. CASE SlackStop(t) \/ StopRead(t) \/ StopCancel(t) \/ StopSave(t)
  <2>1. UNCHANGED <<rows, disp, pc, mem, stop, clock, contested>>
    BY <1>2 DEF SlackStop, StopRead, StopCancel, StopSave, Calm, ICalm
  <2> QED BY <2>1 DEF ICalm, Newest, Working
<1>3. CASE RecoverOrphan(t)
  <2>1. UNCHANGED <<disp, pc, mem, stop, clock, contested>> /\ disp.pc = "idle"
    BY <1>3 DEF RecoverOrphan, memory, IClaims
  <2>2. PICK s : rows' = [rows EXCEPT ![t] = [rows[t] EXCEPT !.status = s]]
    BY <1>3 DEF RecoverOrphan, IType
  <2>3. [rows[t] EXCEPT !.status = s].claimedAt = rows[t].claimedAt
    <3>1. rows[t] \in Row
      BY DEF IType
    <3> QED BY <3>1 DEF Row
  <2>4. \A u \in Tasks : rows'[u].claimedAt = rows[u].claimedAt
    BY <2>2, <2>3 DEF IType
  <2> QED BY <2>1, <2>4 DEF ICalm
<1> QED BY <1>1, <1>2, <1>3

LEMMA CalmProcess ==
  ASSUME Calm, IType, IClaims, ICalm, Process
  PROVE  ICalm'
<1>0. clock \in Nat
  BY DEF IType
<1>1. CASE Down
  <2>1. /\ UNCHANGED <<rows, clock, contested>>
        /\ disp' = IdleDisp /\ mem' = [g \in Workers |-> NoRow]
        /\ stop' = [u \in Tasks |-> IdleStop]
    BY <1>1 DEF Down
  <2>2. NoRow.claimedAt = 0 /\ IdleStop.pc = "idle" /\ IdleDisp.pc = "idle" /\ IdleDisp.copy = NoRow
    BY DEF NoRow, IdleStop, IdleDisp
  <2>3. /\ \A u \in Tasks : stop'[u] = IdleStop
        /\ \A g \in Workers : mem'[g] = NoRow
    BY <2>1
  <2> QED BY <1>0, <2>1, <2>2, <2>3 DEF ICalm
<1>2. CASE Shutdown \/ Boot \/ StartUp
  <2>1. UNCHANGED <<rows, disp, pc, mem, stop, clock, contested>>
    BY <1>2 DEF Shutdown, Boot, StartUp, memory
  <2> QED BY <2>1 DEF ICalm, Newest, Working
<1> QED BY <1>1, <1>2 DEF Process, Crash, Exit

LEMMA CalmNext == ASSUME Calm PROVE IType /\ IClaims /\ ICalm /\ [Next]_vars => ICalm'
<1> SUFFICES ASSUME IType, IClaims, ICalm, [Next]_vars PROVE ICalm'
  OBVIOUS
<1>1. CASE UNCHANGED vars
  <2>1. UNCHANGED <<rows, disp, pc, mem, stop, clock, contested>>
    BY <1>1 DEF vars
  <2> QED BY <2>1 DEF ICalm, Newest, Working
<1>2. ASSUME NEW cutoff \in 1..(clock + 1), Reclaim(cutoff) PROVE ICalm'
  BY <1>2 DEF Reclaim, Calm
<1> QED BY <1>1, <1>2, CalmDispatcher, CalmWorker, CalmOthers, CalmProcess DEF Next

\* While leases outlive runs, claims have distinct instants and StopTask is not
\* used, no claim is ever contested: repositories are strictly serial and
\* terminal statuses are final without exception.
THEOREM CalmClaims == ASSUME Calm PROVE Spec => []NothingContested
<1>1. Init => IType /\ IClaims /\ ICalm
  BY TypeInit, ClaimsInit, CalmInit
<1>2. IType /\ IClaims /\ ICalm /\ [Next]_vars => IType' /\ IClaims' /\ ICalm'
  BY TypeNext, ClaimsNext, CalmNext
<1>3. ICalm => NothingContested
  BY DEF ICalm, NothingContested
<1> QED BY <1>1, <1>2, <1>3, PTL DEF Spec
-----------------------------------------------------------------------------
(* What a goroutine writes, and where it goes                               *)

\* The value a step of goroutine g leaves in a row: the row as it was, g's
\* copy with a new status, or the row with a ci status.
LEMMA WorkerWrites ==
  ASSUME IType, IClaims, NEW g \in Workers, RunTask(g), NEW t \in Tasks
  PROVE  \/ rows'[t] = rows[t]
         \/ /\ g \in Working /\ t = job[g]
            /\ \/ rows'[t].status \in {"running", "failed", "cancelled"}
               \/ /\ pc[g] = "markDone"
                  /\ rows'[t] = [mem[g] EXCEPT !.status = "done", !.finished = TRUE]
         \/ rows'[t] = [rows[t] EXCEPT !.ci = "watching"]
<1>0. /\ mem[g] \in Row /\ rows \in [Tasks -> Row] /\ rows[t] \in Row
  BY DEF IType
<1>1. CASE MarkRunning(g) \/ RecordPath(g) \/ Fail(g) \/ Cancel(g)
  <2>1. g \in Working
    BY <1>1 DEF MarkRunning, RecordPath, Fail, Cancel, At, Working, Pipeline
  <2>2. PICK copy : /\ rows' = rows \/ rows' = [rows EXCEPT ![job[g]] = copy]
                    /\ copy.status \in {"running", "failed", "cancelled"}
    <3>1. CASE MarkRunning(g)
      <4>1. \/ rows' = rows
            \/ rows' = [rows EXCEPT ![job[g]] = [mem[g] EXCEPT !.status = "running"]]
        BY <3>1 DEF MarkRunning, Saved, SaveLost, Save
      <4>2. [mem[g] EXCEPT !.status = "running"].status = "running"
        BY <1>0, CopyStatus
      <4> QED BY <4>1, <4>2
    <3>2. CASE RecordPath(g)
      <4>1. \/ rows' = rows
            \/ rows' = [rows EXCEPT ![job[g]] = [mem[g] EXCEPT !.path = TRUE]]
        BY <3>2 DEF RecordPath, Update, Saved, SaveLost, Save
      <4>2. mem[g].status = "running"
        BY <3>2, <2>1 DEF RecordPath, At, IClaims
      <4>3. [mem[g] EXCEPT !.path = TRUE].status = "running"
        BY <1>0, <4>2, CopyStatus
      <4> QED BY <4>1, <4>3
    <3>3. CASE Fail(g) \/ Cancel(g)
      <4>1. PICK s \in {"failed", "cancelled"} :
              \/ rows' = rows
              \/ rows' = [rows EXCEPT ![job[g]] =
                            [mem[g] EXCEPT !.status = s, !.finished = TRUE]]
        BY <3>3 DEF Fail, Cancel, Update, Saved, SaveLost, Save
      <4>2. [mem[g] EXCEPT !.status = s, !.finished = TRUE].status = s
        BY <1>0, CopyStatus
      <4> QED BY <4>1, <4>2
    <3> QED BY <1>1, <3>1, <3>2, <3>3
  <2> QED BY <1>0, <2>1, <2>2
<1>2. CASE MarkDone(g)
  <2>1. \/ rows' = rows
        \/ rows' = [rows EXCEPT ![job[g]] =
                      [mem[g] EXCEPT !.status = "done", !.finished = TRUE]]
    BY <1>2 DEF MarkDone, Update, Saved, SaveLost, Save
  <2>2. g \in Working /\ pc[g] = "markDone"
    BY <1>2 DEF MarkDone, At, Working, Pipeline
  <2> QED BY <1>0, <2>1, <2>2
<1>3. CASE HandOff(g)
  BY <1>0, <1>3 DEF HandOff, SaveLost, UpdateCIStatus
<1>4. CASE rows' = rows
  BY <1>4
<1> QED BY <1>1, <1>2, <1>3, <1>4 DEF RunTask, CreateWorktree, PassGates, PromptFails, GateStops,
           ClaudeEdits, ClaudeSucceeds, ClaudeErrs, QualityGate, CreatePR, RemoveWorktree, Leave

\* Where a goroutine goes: on within RunTask, nowhere, or out of it.
LEMMA WorkerMoves ==
  ASSUME NEW g \in Workers, RunTask(g)
  PROVE  \/ UNCHANGED pc /\ UNCHANGED <<disp, phase, job, cancelMap, stop, clock, contested>>
         \/ /\ pc[g] # "idle"
            /\ \E label \in Labels \ {"idle"} : pc' = [pc EXCEPT ![g] = label]
            /\ UNCHANGED <<disp, phase, job, cancelMap, stop, clock, contested>>
         \/ Leave(g)
<1>1. CASE ClaudeEdits(g)
  BY <1>1 DEF ClaudeEdits, memory
<1>2. CASE ~Leave(g) /\ ~ClaudeEdits(g)
  <2>1. pc[g] # "idle" /\ \E l \in Pipeline \cup Epilogue : Goto(g, l)
    BY <1>2 DEF RunTask, MarkRunning, CreateWorktree, RecordPath, PassGates, PromptFails,
       GateStops, ClaudeSucceeds, ClaudeErrs, QualityGate, CreatePR, MarkDone, Fail,
       Cancel, HandOff, RemoveWorktree, At, Pipeline, Epilogue
  <2>2. Labels \ {"idle"} = Pipeline \cup Epilogue
    BY DEF Labels, Pipeline, Epilogue
  <2> QED BY <2>1, <2>2 DEF Goto
<1> QED BY <1>1, <1>2

\* The steps that do not belong to a goroutine, by what they do to the table.
LEMMA OtherWrites ==
  ASSUME IType, IClaims, NEW t \in Tasks,
         \/ Dispatcher \/ Process
         \/ \E u \in Tasks : \/ Enqueue(u) \/ SlackStop(u) \/ StopRead(u) \/ StopCancel(u)
                             \/ StopSave(u) \/ RecoverOrphan(u)
         \/ \E cutoff \in 1..(clock + 1) : Reclaim(cutoff)
  PROVE  \/ rows'[t] = rows[t]
         \/ rows[t].status = "absent" /\ rows'[t].status = "queued"
         \/ rows[t].status = "queued" /\ rows'[t].status = "running"
         \/ rows'[t].status \in {"failed", "cancelled", "orphaned"}
<1>0. rows \in [Tasks -> Row] /\ rows[t] \in Row
  BY DEF IType
<1>1. ASSUME NEW u \in Tasks, Claim(u)
      PROVE  rows'[t] = rows[t] \/ (rows[t].status = "queued" /\ rows'[t].status = "running")
  <2>1. /\ rows[u].status = "queued"
        /\ rows' = [rows EXCEPT ![u] = [rows[u] EXCEPT !.status = "running", !.owned = TRUE,
                                                      !.claimedAt = clock']]
    BY <1>1, <1>0 DEF Claim, Oldest, Claimable, WithStatus, ClaimNextTask
  <2>2. [rows[u] EXCEPT !.status = "running", !.owned = TRUE, !.claimedAt = clock'].status
          = "running"
    <3>1. rows[u] \in Row
      BY <1>0
    <3> QED BY <3>1 DEF Row
  <2> QED BY <1>0, <2>1, <2>2
<1>2. ASSUME NEW u \in Tasks, Enqueue(u)
      PROVE  rows'[t] = rows[t] \/ (rows[t].status = "absent" /\ rows'[t].status = "queued")
  BY <1>0, <1>2 DEF Enqueue, Insert, NoRow
<1>3. ASSUME NEW u \in Tasks, StopSave(u)
      PROVE  rows'[t] = rows[t] \/ rows'[t].status = "cancelled"
  <2>1. stop[u].copy \in Row
    BY DEF IType
  <2>2. [stop[u].copy EXCEPT !.status = "cancelled", !.finished = TRUE].status = "cancelled"
    BY <2>1, CopyStatus
  <2>3. \/ rows' = rows
        \/ rows' = [rows EXCEPT ![u] =
                      [stop[u].copy EXCEPT !.status = "cancelled", !.finished = TRUE]]
    BY <1>3 DEF StopSave, Save
  <2> QED BY <1>0, <2>2, <2>3
<1>4. ASSUME NEW u \in Tasks, RecoverOrphan(u)
      PROVE  rows'[t] = rows[t] \/ rows'[t].status \in {"failed", "orphaned"}
  <2>1. PICK s \in {"orphaned", "failed"} :
          rows' = [rows EXCEPT ![u] = [rows[u] EXCEPT !.status = s]]
    BY <1>4, <1>0 DEF RecoverOrphan
  <2>2. [rows[u] EXCEPT !.status = s].status = s
    <3>1. rows[u] \in Row
      BY <1>0
    <3> QED BY <3>1, CopyStatus
  <2> QED BY <1>0, <2>1, <2>2
<1>5. ASSUME NEW cutoff \in 1..(clock + 1), Reclaim(cutoff)
      PROVE  rows'[t] = rows[t] \/ rows'[t].status = "orphaned"
  <2>1. [rows[t] EXCEPT !.status = "orphaned", !.owned = FALSE].status = "orphaned"
    BY <1>0 DEF Row
  <2> QED BY <1>5, <2>1 DEF Reclaim, ReclaimStale
<1>6. CASE \/ Tick \/ ReserveSlot \/ Load \/ GiveUp \/ Process
           \/ \E g \in Workers : Spawn(g)
           \/ \E u \in Tasks : Identify(u) \/ SlackStop(u) \/ StopRead(u) \/ StopCancel(u)
  BY <1>6 DEF Tick, ReserveSlot, Load, GiveUp, Spawn, Identify, SlackStop, StopRead, StopCancel,
     Process, Crash, Shutdown, Exit, Down, Boot, StartUp
<1> QED BY <1>1, <1>2, <1>3, <1>4, <1>5, <1>6 DEF Dispatcher
-----------------------------------------------------------------------------
(* Done means a pull request                                                *)

\* The strengthening of DoneHasPR: a goroutine about to write done has its
\* pull request on GitHub and the columns in its copy.
IDone ==
  /\ DoneHasPR
  /\ \A g \in Workers : pc[g] = "markDone" => mem[g].pr /\ job[g] \in prs

\* prs never loses an element, and only a goroutine adds one.
LEMMA PRsStay ==
  ASSUME [Next]_vars
  PROVE  prs \subseteq prs' /\ (prs' = prs \/ \E g \in Workers : CreatePR(g))
<1>1. ASSUME NEW g \in Workers, RunTask(g), ~CreatePR(g) PROVE prs' = prs
  BY <1>1 DEF RunTask, MarkRunning, CreateWorktree, RecordPath, PassGates, PromptFails,
     GateStops, ClaudeEdits, ClaudeSucceeds, ClaudeErrs, QualityGate, MarkDone, Fail,
     Cancel, HandOff, RemoveWorktree, Leave, disk
<1>2. CASE Dispatcher \/ Process
  BY <1>2 DEF Dispatcher, Process, Tick, ReserveSlot, Load, GiveUp, Claim, Identify, Spawn,
     Crash, Shutdown, Exit, Down, Boot, StartUp, disk
<1>3. ASSUME NEW t \in Tasks, \/ Enqueue(t) \/ SlackStop(t) \/ StopRead(t) \/ StopCancel(t)
                              \/ StopSave(t) \/ RecoverOrphan(t)
      PROVE  prs' = prs
  BY <1>3 DEF Enqueue, SlackStop, StopRead, StopCancel, StopSave, RecoverOrphan, disk
<1>4. ASSUME NEW cutoff \in 1..(clock + 1), Reclaim(cutoff) PROVE prs' = prs
  BY <1>4 DEF Reclaim, disk
<1>5. ASSUME NEW g \in Workers, CreatePR(g) PROVE prs \subseteq prs'
  BY <1>5 DEF CreatePR
<1> QED BY <1>1, <1>2, <1>3, <1>4, <1>5 DEF Next, vars

\* The rows that say done after a step.
LEMMA DoneRows ==
  ASSUME IType, IClaims, IDone, [Next]_vars, NEW t \in Tasks, rows'[t].status = "done"
  PROVE  rows'[t].pr /\ rows'[t].finished /\ t \in prs
<1>0. rows[t] \in Row /\ \A g \in Workers : mem[g] \in Row
  BY DEF IType
<1>1. CASE rows'[t] = rows[t]
  BY <1>1 DEF IDone, DoneHasPR, WithStatus
<1>2. CASE rows'[t] = [rows[t] EXCEPT !.ci = "watching"]
  <2>1. /\ [rows[t] EXCEPT !.ci = "watching"].status = rows[t].status
        /\ [rows[t] EXCEPT !.ci = "watching"].pr = rows[t].pr
        /\ [rows[t] EXCEPT !.ci = "watching"].finished = rows[t].finished
    BY <1>0 DEF Row
  <2> QED BY <1>2, <2>1 DEF IDone, DoneHasPR, WithStatus
<1>3. ASSUME NEW g \in Workers, pc[g] = "markDone", t = job[g],
             rows'[t] = [mem[g] EXCEPT !.status = "done", !.finished = TRUE]
      PROVE  rows'[t].pr /\ rows'[t].finished /\ t \in prs
  <2>1. /\ [mem[g] EXCEPT !.status = "done", !.finished = TRUE].pr = mem[g].pr
        /\ [mem[g] EXCEPT !.status = "done", !.finished = TRUE].finished = TRUE
    BY <1>0 DEF Row
  <2> QED BY <1>3, <2>1 DEF IDone
<1>4. CASE UNCHANGED vars
  BY <1>1, <1>4 DEF vars
<1>5. ASSUME NEW g \in Workers, RunTask(g) PROVE rows'[t].pr /\ rows'[t].finished /\ t \in prs
  BY <1>1, <1>2, <1>3, <1>5, WorkerWrites
<1>6. CASE Next /\ ~\E g \in Workers : RunTask(g)
  <2>1. rows'[t] = rows[t]
    BY <1>6, OtherWrites DEF Next
  <2> QED BY <1>1, <2>1
<1> QED BY <1>4, <1>5, <1>6

LEMMA DoneNext == IType /\ IClaims /\ IDone /\ [Next]_vars => IDone'
<1> SUFFICES ASSUME IType, IClaims, IDone, [Next]_vars PROVE IDone'
  OBVIOUS
<1>0. prs \subseteq prs' /\ pc \in [Workers -> Labels]
  BY PRsStay DEF IType
<1>1. DoneHasPR'
  BY <1>0, DoneRows DEF DoneHasPR, WithStatus
<1>2. ASSUME NEW g \in Workers, pc'[g] = "markDone" PROVE mem'[g].pr /\ job'[g] \in prs'
  <2>1. CASE pc[g] = "markDone" /\ mem'[g] = mem[g] /\ job'[g] = job[g]
    BY <1>0, <2>1 DEF IDone
  <2>2. CASE UNCHANGED <<pc, mem, job>>
    BY <1>2, <2>1, <2>2
  <2>3. CASE \/ Process
             \/ \E t \in Tasks : \/ Enqueue(t) \/ SlackStop(t) \/ StopRead(t)
                                 \/ StopCancel(t) \/ StopSave(t) \/ RecoverOrphan(t)
             \/ \E cutoff \in 1..(clock + 1) : Reclaim(cutoff)
    BY <1>2, <2>2, <2>3 DEF Process, Crash, Shutdown, Exit, Down, Boot, StartUp, Enqueue,
       SlackStop, StopRead, StopCancel, StopSave, RecoverOrphan, Reclaim, memory
  <2>4. CASE Dispatcher
    <3>1. ASSUME NEW h \in Workers, Spawn(h) PROVE mem'[g].pr /\ job'[g] \in prs'
      <4>1. g # h
        BY <1>0, <1>2, <3>1 DEF Spawn
      <4> QED BY <1>0, <1>2, <2>1, <3>1, <4>1 DEF Spawn
    <3> QED BY <2>2, <2>4, <3>1 DEF Dispatcher, Tick, ReserveSlot, Load, GiveUp, Claim, Identify
  <2>5. ASSUME NEW h \in Workers, h # g, RunTask(h) PROVE mem'[g].pr /\ job'[g] \in prs'
    <3>1. pc'[g] = pc[g]
      BY <1>0, <2>5, WorkerMoves DEF Leave
    <3>2. job'[g] = job[g]
      BY <2>5, WorkerMoves DEF Leave, IType
    <3>3. mem'[g] = mem[g]
      BY <2>5 DEF RunTask, MarkRunning, CreateWorktree, RecordPath, PassGates, PromptFails,
         GateStops, ClaudeEdits, ClaudeSucceeds, ClaudeErrs, QualityGate, CreatePR, MarkDone,
         Fail, Cancel, HandOff, RemoveWorktree, Leave, Update, memory, IType
    <3> QED BY <1>2, <2>1, <3>1, <3>2, <3>3
  <2>6. CASE RunTask(g)
    <3>1. CASE CreatePR(g)
      <4>1. CASE Goto(g, "failing")
        BY <1>0, <1>2, <4>1 DEF Goto
      <4>2. CASE /\ Goto(g, "markDone") /\ prs' = prs \cup {job[g]}
                 /\ mem' = [mem EXCEPT ![g] = [mem[g] EXCEPT !.pr = TRUE]]
        <5>1. [mem[g] EXCEPT !.pr = TRUE].pr = TRUE
          <6>1. mem[g] \in Row
            BY DEF IType
          <6> QED BY <6>1 DEF Row
        <5>2. mem'[g] = [mem[g] EXCEPT !.pr = TRUE]
          BY <4>2 DEF IType
        <5> QED BY <4>2, <5>1, <5>2 DEF Goto
      <4> QED BY <3>1, <4>1, <4>2 DEF CreatePR
    <3>2. CASE ~CreatePR(g)
      BY <1>0, <1>2, <2>2, <2>6, <3>2 DEF RunTask, MarkRunning, CreateWorktree, RecordPath,
         PassGates, PromptFails, GateStops, ClaudeEdits, ClaudeSucceeds, ClaudeErrs, QualityGate,
         MarkDone, Fail, Cancel, HandOff, RemoveWorktree, Leave, Goto, At, memory
    <3> QED BY <3>1, <3>2
  <2> QED BY <2>2, <2>3, <2>4, <2>5, <2>6 DEF Next, vars
<1> QED BY <1>1, <1>2 DEF IDone

\* A row says done only if GitHub has the pull request and the row points to
\* it: through failed statements and commands, stops, reclaims and restarts.
THEOREM DoneIsPublished == Spec => []DoneHasPR
<1>1. Init => IDone
  <2> SUFFICES ASSUME Init PROVE IDone
    OBVIOUS
  <2>1. WithStatus(rows, "done") = {} /\ \A g \in Workers : pc[g] # "markDone"
    BY DEF Init, WithStatus, NoRow
  <2> QED BY <2>1 DEF IDone, DoneHasPR
<1>2. IDone => DoneHasPR
  BY DEF IDone
<1> QED BY <1>1, <1>2, ClaimsInvariant, DoneNext, PTL DEF Spec
-----------------------------------------------------------------------------
(* Registrations and worktrees                                              *)

\* Once claimed, a task never waits in the queue again.
Left(t) == rows[t].status \notin {"absent", "queued"}

LEMMA LeftStays ==
  ASSUME IType, IClaims, [Next]_vars, NEW t \in Tasks, Left(t)
  PROVE  Left(t)'
<1>0. rows[t] \in Row
  BY DEF IType
<1>1. CASE rows'[t] = rows[t]
  BY <1>1 DEF Left
<1>2. CASE rows'[t].status \notin {"absent", "queued"}
  BY <1>2 DEF Left
<1>3. ASSUME NEW g \in Workers, RunTask(g) PROVE Left(t)'
  <2>1. [rows[t] EXCEPT !.ci = "watching"].status = rows[t].status
    BY <1>0, CopyStatus
  <2>2. CASE rows'[t] = [rows[t] EXCEPT !.ci = "watching"]
    BY <2>1, <2>2 DEF Left
  <2>3. [mem[g] EXCEPT !.status = "done", !.finished = TRUE].status = "done"
    <3>1. mem[g] \in Row
      BY DEF IType
    <3> QED BY <3>1, CopyStatus
  <2>4. CASE rows'[t] = [mem[g] EXCEPT !.status = "done", !.finished = TRUE]
    BY <1>2, <2>3, <2>4
  <2> QED BY <1>1, <1>2, <1>3, <2>2, <2>4, WorkerWrites
<1>4. CASE Next /\ ~\E g \in Workers : RunTask(g)
  BY <1>1, <1>2, <1>4, OtherWrites DEF Next, Left
<1> QED BY <1>1, <1>3, <1>4 DEF vars

\* The strengthening of CancelReachesRun: the exclusiveness of claims extends
\* to goroutines in their epilogue, because a row never goes back to queued.
IActive ==
  /\ \A g \in Active : Left(job[g])
  /\ \A g, h \in Active : g # h /\ job[g] = job[h] => job[g] \in contested
  /\ disp.pc = "ident" => Left(disp.claimed) /\ \A g \in Active : job[g] # disp.claimed
  /\ disp.pc \in {"load", "spawn"}
       => /\ Left(disp.task)
          /\ disp.task \notin contested => \A g \in Active : job[g] # disp.task
  /\ CancelReachesRun

LEMMA ActiveTyped == ASSUME IType, NEW g \in Active
                     PROVE  g \in Workers /\ pc[g] # "idle" /\ job[g] \in Tasks
  BY DEF Active, IType

\* Steps that start and end no goroutine and leave the claim where it is.
LEMMA ActiveFrame ==
  ASSUME IType, IActive, \A t \in Tasks : Left(t) => Left(t)',
         Active' = Active, UNCHANGED <<job, cancelMap>>, contested \subseteq contested',
         \/ disp'.pc \in {"idle", "reserve", "claim"}
         \/ disp'.pc = disp.pc /\ disp'.claimed = disp.claimed /\ disp'.task = disp.task
  PROVE  IActive'
<1>1. \A g \in Active : g \in Workers /\ job[g] \in Tasks
  BY ActiveTyped
<1>2. /\ disp.pc = "ident" => disp.claimed \in Tasks
      /\ disp.pc \in {"load", "spawn"} => disp.task \in Tasks
  BY DEF IType
<1>3. CancelReachesRun'
  <2>1. \A t \in Tasks : cancelMap[t] # NoWorker => cancelMap[t] \in Active /\ job[cancelMap[t]] = t
    BY DEF IActive, CancelReachesRun, Active, IType
  <2>2. \A t \in Tasks : cancelMap'[t] # NoWorker
                           => pc'[cancelMap'[t]] # "idle" /\ job'[cancelMap'[t]] = t
    BY <2>1 DEF Active
  <2>3. \A g \in Active' : job'[g] \notin contested' => cancelMap'[job'[g]] = g
    BY DEF IActive, CancelReachesRun
  <2> QED BY <2>2, <2>3 DEF CancelReachesRun
<1> QED BY <1>1, <1>2, <1>3 DEF IActive

LEMMA ActiveDispatcher ==
  ASSUME IType, IActive, \A t \in Tasks : Left(t) => Left(t)', Dispatcher
  PROVE  IActive'
<1>1. CASE Tick \/ ReserveSlot \/ GiveUp
  <2>1. UNCHANGED <<pc, job, cancelMap, contested>> /\ disp'.pc \in {"idle", "reserve", "claim"}
    BY <1>1 DEF Tick, ReserveSlot, GiveUp, IdleDisp, IType
  <2>2. Active' = Active
    BY <2>1 DEF Active
  <2> QED BY <2>1, <2>2, ActiveFrame
<1>2. ASSUME NEW t \in Tasks, Claim(t) PROVE IActive'
  <2>1. /\ disp'.pc = "ident" /\ disp'.claimed = t
        /\ rows[t].status = "queued"
        /\ UNCHANGED <<pc, job, cancelMap, contested>>
    BY <1>2 DEF Claim, Oldest, Claimable, WithStatus, IType
  <2>2. Active' = Active
    BY <2>1 DEF Active
  <2>3. \A g \in Active : job[g] # t
    BY <2>1 DEF IActive, Left
  <2>4. Left(t)'
    <3>1. rows'[t] = [rows[t] EXCEPT !.status = "running", !.owned = TRUE, !.claimedAt = clock']
      BY <1>2 DEF Claim, ClaimNextTask, IType
    <3>2. rows[t] \in Row
      BY DEF IType
    <3>3. rows'[t].status = "running"
      BY <3>1, <3>2 DEF Row
    <3> QED BY <3>3 DEF Left
  <2>5. \A g \in Active : job[g] \in Tasks
    BY ActiveTyped
  <2>6. CancelReachesRun'
    BY <2>1, <2>2 DEF IActive, CancelReachesRun
  <2> QED BY <2>1, <2>2, <2>3, <2>4, <2>5, <2>6 DEF IActive
<1>3. ASSUME NEW t \in Tasks, Identify(t) PROVE IActive'
  <2>1. /\ disp.pc = "ident" /\ disp'.pc = "load" /\ disp'.task = t
        /\ rows[t].status = "running"
        /\ contested' = IF t = disp.claimed THEN contested ELSE contested \cup {t}
        /\ UNCHANGED <<rows, pc, job, cancelMap>>
    BY <1>3 DEF Identify, GetClaimedTaskID, WithStatus, IType
  <2>2. Active' = Active
    BY <2>1 DEF Active
  <2>3. Left(t)'
    BY <2>1 DEF Left
  <2>4. \A g \in Active : job[g] \in Tasks
    BY ActiveTyped
  <2>5. CancelReachesRun'
    BY <2>1, <2>2 DEF IActive, CancelReachesRun
  <2> QED BY <2>1, <2>2, <2>3, <2>4, <2>5 DEF IActive
<1>4. CASE Load
  <2>1. /\ disp.pc = "load" /\ disp'.pc = "spawn" /\ disp'.task = disp.task
        /\ disp.task \in Tasks
        /\ UNCHANGED <<pc, job, cancelMap, contested>>
    BY <1>4 DEF Load, IType
  <2>2. Active' = Active
    BY <2>1 DEF Active
  <2>3. \A g \in Active : job[g] \in Tasks
    BY ActiveTyped
  <2>4. CancelReachesRun'
    BY <2>1, <2>2 DEF IActive, CancelReachesRun
  <2> QED BY <2>1, <2>2, <2>3, <2>4 DEF IActive
<1>5. ASSUME NEW g \in Workers, Spawn(g) PROVE IActive'
  <2>1. /\ disp.pc = "spawn" /\ disp.task \in Tasks /\ pc[g] = "idle"
        /\ pc' = [pc EXCEPT ![g] = "start"]
        /\ job' = [job EXCEPT ![g] = disp.task]
        /\ cancelMap' = [cancelMap EXCEPT ![disp.task] = g]
        /\ contested' = contested /\ disp'.pc = "reserve"
    BY <1>5 DEF Spawn, IdleDisp, IType
  <2>2. Active' = Active \cup {g} /\ g \notin Active
    BY <2>1 DEF Active, IType
  <2>3. job'[g] = disp.task /\ \A h \in Active : job'[h] = job[h] /\ job[h] \in Tasks
    BY <2>1, <2>2, ActiveTyped DEF Active, IType
  <2>4. /\ Left(disp.task) /\ rows' = rows
        /\ disp.task \notin contested => \A h \in Active : job[h] # disp.task
    BY <1>5, <2>1 DEF IActive, Spawn
  <2>5. CancelReachesRun'
    <3>1. ASSUME NEW t \in Tasks, cancelMap'[t] # NoWorker
          PROVE  pc'[cancelMap'[t]] # "idle" /\ job'[cancelMap'[t]] = t
      <4>1. CASE t = disp.task
        BY <2>1, <2>3, <4>1 DEF IType
      <4>2. CASE t # disp.task
        <5>1. cancelMap'[t] = cancelMap[t] /\ cancelMap[t] \in Workers
          BY <2>1, <3>1, <4>2 DEF IType
        <5>2. pc[cancelMap[t]] # "idle" /\ job[cancelMap[t]] = t
          BY <3>1, <5>1 DEF IActive, CancelReachesRun
        <5> QED BY <2>1, <5>1, <5>2 DEF IType
      <4> QED BY <4>1, <4>2
    <3>2. ASSUME NEW h \in Active', job'[h] \notin contested' PROVE cancelMap'[job'[h]] = h
      <4>1. CASE h = g
        BY <2>1, <2>3, <4>1 DEF IType
      <4>2. CASE h # g
        <5>1. h \in Active /\ job'[h] = job[h] /\ job[h] # disp.task /\ job[h] \in Tasks
          BY <2>1, <2>2, <2>3, <2>4, <3>2, <4>2
        <5>2. cancelMap[job[h]] = h
          BY <2>1, <3>2, <5>1 DEF IActive, CancelReachesRun
        <5> QED BY <2>1, <5>1, <5>2 DEF IType
      <4> QED BY <4>1, <4>2
    <3> QED BY <3>1, <3>2 DEF CancelReachesRun
  <2>6. \A h \in Active' : Left(job[h])'
    BY <2>1, <2>2, <2>3, <2>4 DEF IActive, Left
  <2>7. \A h, k \in Active' : h # k /\ job'[h] = job'[k] => job'[h] \in contested'
    BY <2>1, <2>2, <2>3, <2>4 DEF IActive
  <2> QED BY <2>1, <2>5, <2>6, <2>7 DEF IActive
<1> QED BY <1>1, <1>2, <1>3, <1>4, <1>5 DEF Dispatcher

LEMMA ActiveLeave ==
  ASSUME IType, IActive, \A t \in Tasks : Left(t) => Left(t)', NEW g \in Workers, Leave(g)
  PROVE  IActive'
<1>1. /\ pc[g] # "idle" /\ pc' = [pc EXCEPT ![g] = "idle"]
      /\ job' = [job EXCEPT ![g] = NoTask]
      /\ cancelMap' = [cancelMap EXCEPT ![job[g]] = NoWorker]
      /\ UNCHANGED <<rows, disp, contested>>
  BY DEF Leave, At
<1>2. Active' = Active \ {g} /\ g \in Active /\ job[g] \in Tasks
  BY <1>1 DEF Active, IType
<1>3. \A h \in Active' : job'[h] = job[h] /\ job[h] \in Tasks
  BY <1>1, <1>2, ActiveTyped DEF Active, IType
<1>4. ASSUME NEW t \in Tasks, cancelMap'[t] # NoWorker
      PROVE  pc'[cancelMap'[t]] # "idle" /\ job'[cancelMap'[t]] = t
  <2>1. t # job[g] /\ cancelMap'[t] = cancelMap[t] /\ cancelMap[t] \in Workers
    BY <1>1, <1>2, <1>4 DEF IType
  <2>2. pc[cancelMap[t]] # "idle" /\ job[cancelMap[t]] = t
    BY <1>4, <2>1 DEF IActive, CancelReachesRun
  <2> QED BY <1>1, <2>1, <2>2 DEF IType
<1>5. ASSUME NEW h \in Active', job'[h] \notin contested' PROVE cancelMap'[job'[h]] = h
  <2>1. h \in Active /\ h # g /\ job'[h] = job[h] /\ job[h] \notin contested /\ job[h] \in Tasks
    BY <1>1, <1>2, <1>3, <1>5
  <2>2. cancelMap[job[h]] = h /\ job[h] # job[g]
    BY <1>2, <2>1 DEF IActive, CancelReachesRun
  <2> QED BY <1>1, <2>1, <2>2 DEF IType
<1>6. CancelReachesRun'
  BY <1>4, <1>5 DEF CancelReachesRun
<1>7. \A h \in Active' : Left(job[h])'
  BY <1>1, <1>2, <1>3 DEF IActive, Left
<1>8. /\ disp.pc = "ident" => disp.claimed \in Tasks
      /\ disp.pc \in {"load", "spawn"} => disp.task \in Tasks
  BY DEF IType
<1> QED BY <1>1, <1>2, <1>3, <1>6, <1>7, <1>8 DEF IActive

LEMMA ActiveNext == IType /\ IClaims /\ IActive /\ [Next]_vars => IActive'
<1> SUFFICES ASSUME IType, IClaims, IActive, [Next]_vars PROVE IActive'
  OBVIOUS
<1>0. \A t \in Tasks : Left(t) => Left(t)'
  BY LeftStays
<1>1. CASE /\ UNCHANGED <<pc, job, cancelMap, disp>>
           /\ contested \subseteq contested'
  <2>1. Active' = Active
    BY <1>1 DEF Active
  <2> QED BY <1>0, <1>1, <2>1, ActiveFrame
<1>2. ASSUME NEW g \in Workers, RunTask(g) PROVE IActive'
  <2>1. CASE pc[g] # "idle" /\ UNCHANGED <<disp, job, cancelMap, contested>>
    <3>1. ASSUME NEW label \in Labels \ {"idle"}, pc' = [pc EXCEPT ![g] = label]
          PROVE  Active' = Active
      BY <2>1, <3>1 DEF Active, IType
    <3>2. UNCHANGED pc \/ Leave(g) \/ Active' = Active
      BY <1>2, <3>1, WorkerMoves
    <3> QED BY <1>0, <1>1, <2>1, <3>2, ActiveFrame, ActiveLeave
  <2> QED BY <1>0, <1>1, <1>2, <2>1, WorkerMoves, ActiveLeave
<1>3. ASSUME NEW t \in Tasks, \/ Enqueue(t) \/ SlackStop(t) \/ StopRead(t) \/ StopCancel(t)
                              \/ StopSave(t) \/ RecoverOrphan(t)
      PROVE  IActive'
  BY <1>1, <1>3 DEF Enqueue, SlackStop, StopRead, StopCancel, StopSave, RecoverOrphan, memory
<1>4. ASSUME NEW cutoff \in 1..(clock + 1), Reclaim(cutoff) PROVE IActive'
  BY <1>1, <1>4 DEF Reclaim, memory
<1>5. CASE Down
  <2>1. /\ Active' = {} /\ disp'.pc = "idle" /\ \A t \in Tasks : cancelMap'[t] = NoWorker
    BY <1>5 DEF Down, Active, IdleDisp
  <2> QED BY <2>1 DEF IActive, CancelReachesRun
<1>6. CASE Shutdown \/ Boot \/ StartUp
  BY <1>1, <1>6 DEF Shutdown, Boot, StartUp, memory
<1>7. CASE UNCHANGED vars
  BY <1>1, <1>7 DEF vars
<1> QED BY <1>0, <1>2, <1>3, <1>4, <1>5, <1>6, <1>7, ActiveDispatcher
        DEF Next, Process, Crash, Exit

LEMMA ActiveInvariant == Spec => [](IType /\ IClaims /\ IActive)
<1>1. Init => IActive
  BY DEF Init, IActive, Active, CancelReachesRun, IdleDisp
<1> QED BY <1>1, ClaimsInvariant, ActiveNext, PTL DEF Spec

\* A stop finds the goroutine that runs the task, whatever was claimed,
\* reclaimed, stopped or restarted before: a registration never outlives its
\* goroutine, and an uncontested run is always registered.
THEOREM StopsAreDelivered == Spec => []CancelReachesRun
<1>1. IActive => CancelReachesRun
  BY DEF IActive
<1> QED BY <1>1, ActiveInvariant, PTL

\* The worktrees removed by a step are those of goroutines that stop using
\* them, and a goroutine starts using one by making it.
LEMMA WorktreeNext ==
  IType /\ IClaims /\ IActive /\ WorktreeOutlivesRun /\ [Next]_vars => WorktreeOutlivesRun'
<1> SUFFICES ASSUME IType, IClaims, IActive, WorktreeOutlivesRun, [Next]_vars
             PROVE  WorktreeOutlivesRun'
  OBVIOUS
<1> DEFINE Uses == {"path", "gates", "claude", "quality", "pr"}
<1>0. /\ pc \in [Workers -> Labels] /\ job \in [Workers -> Tasks \cup {NoTask}]
      /\ worktree \in [Tasks -> {"none", "clean", "dirty"}]
      /\ \A g \in Workers : pc[g] # "idle" => job[g] \in Tasks
  BY DEF IType
<1>1. CASE /\ UNCHANGED worktree /\ contested \subseteq contested'
           /\ \A g \in Workers : \/ pc'[g] \notin Uses
                                 \/ pc[g] \in Uses /\ job'[g] = job[g]
  BY <1>1 DEF WorktreeOutlivesRun
<1>2. CASE UNCHANGED <<pc, job, worktree>> /\ contested \subseteq contested'
  BY <1>1, <1>2
<1>3. CASE \/ UNCHANGED vars \/ Shutdown \/ Boot \/ StartUp
           \/ \E t \in Tasks : \/ Enqueue(t) \/ SlackStop(t) \/ StopRead(t)
                               \/ StopCancel(t) \/ StopSave(t) \/ RecoverOrphan(t)
           \/ \E cutoff \in 1..(clock + 1) : Reclaim(cutoff)
  BY <1>2, <1>3 DEF vars, Shutdown, Boot, StartUp, Enqueue, SlackStop, StopRead, StopCancel,
     StopSave, RecoverOrphan, Reclaim, memory, disk
<1>4. CASE Down
  BY <1>4 DEF Down, WorktreeOutlivesRun
<1>5. CASE Dispatcher
  <2>1. ASSUME NEW g \in Workers, Spawn(g) PROVE WorktreeOutlivesRun'
    BY <1>0, <1>1, <2>1 DEF Spawn, disk
  <2> QED BY <1>2, <1>5, <2>1 DEF Dispatcher, Tick, ReserveSlot, Load, GiveUp, Claim, Identify, disk
<1>6. ASSUME NEW g \in Workers, RunTask(g) PROVE WorktreeOutlivesRun'
  <2>1. \A h \in Workers : h # g => pc'[h] = pc[h] /\ job'[h] = job[h]
    BY <1>0, <1>6, WorkerMoves DEF Leave
  <2>2. contested' = contested
    BY <1>6, WorkerMoves DEF Leave
  <2>3. CASE pc[g] # "idle" /\ Removed(g) /\ pc'[g] \notin Uses
    <3> SUFFICES ASSUME NEW h \in Workers, pc'[h] \in Uses, job'[h] \notin contested
                 PROVE  worktree'[job'[h]] # "none"
      BY <2>2 DEF WorktreeOutlivesRun
    <3>1. h # g /\ pc[h] \in Uses /\ job'[h] = job[h] /\ job[h] \notin contested
      BY <2>1, <2>3
    <3>2. job[h] # job[g]
      BY <2>3, <3>1 DEF IActive, Active
    <3>3. job[h] \in Tasks /\ worktree[job[h]] # "none"
      BY <1>0, <3>1 DEF WorktreeOutlivesRun
    <3> QED BY <1>0, <2>3, <3>1, <3>2, <3>3 DEF Removed
  <2>4. CASE /\ pc[g] # "idle" /\ job'[g] = job[g]
             /\ worktree' = [worktree EXCEPT ![job[g]] = worktree'[job[g]]]
             /\ worktree'[job[g]] # "none"
    <3> SUFFICES ASSUME NEW h \in Workers, pc'[h] \in Uses, job'[h] \notin contested
                 PROVE  worktree'[job'[h]] # "none"
      BY <2>2 DEF WorktreeOutlivesRun
    <3>1. CASE job'[h] = job[g]
      BY <2>4, <3>1
    <3>2. CASE job'[h] # job[g]
      <4>1. h # g /\ pc[h] \in Uses /\ job'[h] = job[h] /\ worktree[job[h]] # "none"
        BY <2>1, <2>4, <3>2 DEF WorktreeOutlivesRun
      <4>2. job[h] \in Tasks
        BY <1>0, <4>1
      <4> QED BY <1>0, <2>4, <3>2, <4>1, <4>2
    <3> QED BY <3>1, <3>2
  <2>5. CASE CreateWorktree(g) \/ ClaudeEdits(g)
    <3>1. job'[g] = job[g] /\ pc[g] # "idle"
      BY <2>5 DEF CreateWorktree, ClaudeEdits, Goto, At, memory
    <3>2. \/ worktree' = [worktree EXCEPT ![job[g]] = "clean"]
          \/ worktree' = [worktree EXCEPT ![job[g]] = "dirty"]
          \/ UNCHANGED worktree /\ pc' = [pc EXCEPT ![g] = "failing"]
      BY <2>5 DEF CreateWorktree, ClaudeEdits, Goto
    <3>3. CASE UNCHANGED worktree /\ pc' = [pc EXCEPT ![g] = "failing"]
      BY <1>0, <1>1, <2>1, <2>2, <3>3
    <3> QED BY <1>0, <2>4, <3>1, <3>2, <3>3
  <2>6. CASE CreatePR(g)
    <3>1. pc[g] # "idle" /\ job'[g] = job[g]
      BY <2>6 DEF CreatePR, At, Goto
    <3>2. CASE worktree' = [worktree EXCEPT ![job[g]] = "clean"]
      BY <1>0, <2>4, <3>1, <3>2
    <3>3. CASE Removed(g) /\ Goto(g, "failing")
      BY <1>0, <2>3, <3>1, <3>3 DEF Goto
    <3> QED BY <2>6, <3>2, <3>3 DEF CreatePR
  <2>7. CASE GateStops(g) \/ RemoveWorktree(g)
    <3>1. /\ pc[g] # "idle"
          /\ Removed(g) \/ UNCHANGED worktree
          /\ \E l \in {"cancelling", "failing", "leave"} : pc' = [pc EXCEPT ![g] = l]
      BY <2>7 DEF GateStops, RemoveWorktree, At, Goto
    <3>2. pc'[g] \notin Uses
      BY <1>0, <3>1
    <3> QED BY <1>1, <2>1, <2>2, <2>3, <3>1, <3>2
  <2>8. CASE \/ MarkRunning(g) \/ RecordPath(g) \/ PassGates(g) \/ PromptFails(g)
             \/ ClaudeSucceeds(g) \/ ClaudeErrs(g) \/ QualityGate(g) \/ MarkDone(g)
             \/ Fail(g) \/ Cancel(g) \/ HandOff(g) \/ Leave(g)
    <3>1. UNCHANGED worktree
      BY <2>8 DEF MarkRunning, RecordPath, PassGates, PromptFails, ClaudeSucceeds, ClaudeErrs,
         QualityGate, MarkDone, Fail, Cancel, HandOff, Leave, disk
    <3>2. pc'[g] \notin Uses \/ (pc[g] \in Uses /\ job'[g] = job[g])
      BY <1>0, <2>8 DEF MarkRunning, RecordPath, PassGates, PromptFails, ClaudeSucceeds,
         ClaudeErrs, QualityGate, MarkDone, Fail, Cancel, HandOff, Leave, Goto, At
    <3> QED BY <1>1, <2>1, <2>2, <3>1, <3>2
  <2> QED BY <1>6, <2>5, <2>6, <2>7, <2>8 DEF RunTask
<1> QED BY <1>3, <1>4, <1>5, <1>6 DEF Next, Process, Crash, Exit

\* The clean-ups of other goroutines, earlier runs and failed gates never take
\* the worktree from under an uncontested run.
THEOREM WorktreesLast == Spec => []WorktreeOutlivesRun
<1>1. Init => WorktreeOutlivesRun
  BY DEF Init, WorktreeOutlivesRun
<1> QED BY <1>1, ActiveInvariant, WorktreeNext, PTL DEF Spec
-----------------------------------------------------------------------------
(* Running rows are in somebody's hands                                     *)

\* Calm, no statement fails and nobody presses stop: git commands may still fail,
\* processes may be shut down, crash and be started again.
Quiet == Calm /\ "db" \notin Faults /\ SlackStops = {}

\* While nothing is cancelled, a goroutine of a process that is up always gets
\* its final status into the table.
IHeld == cancelled = {} /\ RunningIsHeld

LEMMA HeldDispatcher ==
  ASSUME Quiet, IType, IClaims, ICalm, IHeld, phase' = "up", Dispatcher,
         NEW t \in Tasks, rows'[t].status = "running"
  PROVE  Held(t)'
<1>0. /\ phase = "up" /\ "db" \notin Faults
      /\ rows[t].status = "running" => Held(t)
      /\ Working \subseteq Workers
  BY DEF Dispatcher, Tick, ReserveSlot, Load, GiveUp, Claim, Identify, Spawn, Quiet, IHeld,
     RunningIsHeld, WithStatus, Working
<1>1. ASSUME UNCHANGED <<rows, pc, job>>, \E g \in Working : job[g] = t PROVE Held(t)'
  BY <1>1 DEF Held, Working
<1>2. CASE Tick \/ ReserveSlot \/ Load
  <2>1. /\ UNCHANGED <<rows, pc, job>>
        /\ disp.pc \in {"idle", "reserve"}
             \/ (disp.pc = "load" /\ disp'.pc = "spawn" /\ disp'.task = disp.task)
    BY <1>2 DEF Tick, ReserveSlot, Load, IType
  <2> QED BY <1>0, <1>1, <2>1 DEF Held
<1>3. CASE GiveUp
  <2>1. disp.pc = "ident" => disp.claimed \in GetClaimedTaskID(rows)
    <3> SUFFICES ASSUME disp.pc = "ident" PROVE disp.claimed \in GetClaimedTaskID(rows)
      OBVIOUS
    <3>0. \A u \in Tasks : rows[u] \in Row
      BY DEF IType
    <3>1. /\ disp.claimed \in Tasks /\ RowRuns(disp.claimed) /\ Newest
          /\ \A u \in Tasks : rows[u].claimedAt \in Nat
      BY <3>0 DEF IType, IClaims, ICalm, Row
    <3>2. clock \in Nat
      BY DEF IType
    <3> QED BY <3>1, <3>2 DEF GetClaimedTaskID, WithStatus, RowRuns, Newest
  <2>2. disp.pc = "claim" /\ UNCHANGED <<rows, pc, job>>
    BY <1>0, <1>3, <2>1 DEF GiveUp, DbMayFail
  <2> QED BY <1>0, <1>1, <2>2 DEF Held
<1>4. ASSUME NEW u \in Tasks, Claim(u) PROVE Held(t)'
  <2>1. disp.pc = "claim" /\ disp'.pc = "ident" /\ disp'.claimed = u /\ UNCHANGED <<pc, job>>
    BY <1>4 DEF Claim, IType
  <2>2. CASE t = u
    BY <2>1, <2>2 DEF Held
  <2>3. CASE t # u
    <3>1. rows'[t] = rows[t]
      BY <1>4, <2>3 DEF Claim, ClaimNextTask, IType
    <3>2. \E g \in Working : job[g] = t
      BY <1>0, <2>1, <3>1 DEF Held
    <3> QED BY <2>1, <3>2 DEF Held, Working
  <2> QED BY <2>2, <2>3
<1>5. ASSUME NEW u \in Tasks, Identify(u) PROVE Held(t)'
  <2>1. /\ disp.pc = "ident" /\ disp'.pc = "load" /\ disp'.task = u
        /\ contested' = {}
        /\ UNCHANGED <<rows, pc, job>>
    BY <1>5, CalmDispatcher DEF Identify, IType, ICalm, Quiet, Dispatcher
  <2>2. u = disp.claimed
    BY <1>5, <2>1 DEF Identify
  <2> QED BY <1>0, <1>1, <2>1, <2>2 DEF Held
<1>6. ASSUME NEW g \in Workers, Spawn(g) PROVE Held(t)'
  <2>1. /\ disp.pc = "spawn" /\ pc[g] = "idle"
        /\ pc' = [pc EXCEPT ![g] = "start"]
        /\ job' = [job EXCEPT ![g] = disp.task]
        /\ rows' = rows
    BY <1>6 DEF Spawn
  <2>2. Working' = Working \cup {g} /\ g \notin Working
    BY <2>1 DEF Working, Pipeline, IType
  <2>3. job'[g] = disp.task /\ \A h \in Working : job'[h] = job[h]
    BY <2>1, <2>2 DEF Working, IType
  <2>4. disp.task = t \/ \E h \in Working : job[h] = t
    BY <1>0, <2>1 DEF Held
  <2> QED BY <2>2, <2>3, <2>4 DEF Held
<1> QED BY <1>2, <1>3, <1>4, <1>5, <1>6 DEF Dispatcher

\* A goroutine leaves its pipeline only with a status that is not running.
LEMMA HeldWorker ==
  ASSUME Quiet, IType, IClaims, ICalm, IHeld, phase' = "up",
         NEW g \in Workers, RunTask(g), NEW t \in Tasks, rows'[t].status = "running"
  PROVE  Held(t)'
<1>0. /\ pc \in [Workers -> Labels] /\ job \in [Workers -> Tasks \cup {NoTask}]
      /\ rows \in [Tasks -> Row] /\ mem[g] \in Row
      /\ pc[g] # "idle" => job[g] \in Tasks
  BY DEF IType
<1>1. phase = "up" /\ ~ContextDone(g) /\ ~DbMayFail
  <2>1. phase = "up"
    BY WorkerMoves DEF Leave
  <2> QED BY <2>1 DEF ContextDone, DbMayFail, IHeld, Quiet
<1>2. UNCHANGED disp
  BY WorkerMoves DEF Leave
<1>3. \A h \in Workers : h # g => pc'[h] = pc[h] /\ job'[h] = job[h]
  BY <1>0, WorkerMoves DEF Leave
<1>4. CASE ~(g \in Working /\ job[g] = t)
  <2>1. rows[t].status = "running"
    BY <1>4, WorkerStatus
  <2>2. Held(t)
    BY <1>1, <2>1 DEF IHeld, RunningIsHeld, WithStatus
  <2>3. ASSUME NEW h \in Working, job[h] = t PROVE h \in Working' /\ job'[h] = t
    BY <1>3, <1>4, <2>3 DEF Working
  <2> QED BY <1>2, <2>2, <2>3 DEF Held
<1>5. CASE g \in Working /\ job[g] = t
  <2>1. CASE pc'[g] \in Pipeline /\ job'[g] = job[g]
    BY <1>5, <2>1 DEF Held, Working
  <2>2. CASE MarkDone(g) \/ Fail(g) \/ Cancel(g)
    <3>1. PICK s \in {"done", "failed", "cancelled"} :
            rows' = [rows EXCEPT ![job[g]] = [mem[g] EXCEPT !.status = s, !.finished = TRUE]]
      BY <1>1, <2>2 DEF MarkDone, Fail, Cancel, Update, Saved, SaveLost, Save
    <3>2. [mem[g] EXCEPT !.status = s, !.finished = TRUE].status = s
      BY <1>0, CopyStatus
    <3>3. rows'[t].status = s
      BY <1>0, <1>5, <3>1, <3>2
    <3> QED BY <3>3
  <2>3. CASE HandOff(g) \/ RemoveWorktree(g) \/ Leave(g)
    BY <1>5, <2>3 DEF HandOff, RemoveWorktree, Leave, At, Working, Pipeline
  <2>4. CASE ClaudeEdits(g)
    BY <1>5, <2>1, <2>4 DEF ClaudeEdits, memory, Working
  <2>5. CASE \/ MarkRunning(g) \/ CreateWorktree(g) \/ RecordPath(g) \/ PassGates(g)
             \/ PromptFails(g) \/ GateStops(g) \/ ClaudeSucceeds(g) \/ ClaudeErrs(g)
             \/ QualityGate(g) \/ CreatePR(g)
    <3>1. \E l \in Pipeline : Goto(g, l)
      BY <1>1, <2>5 DEF MarkRunning, CreateWorktree, RecordPath, PassGates, PromptFails,
         GateStops, ClaudeSucceeds, ClaudeErrs, QualityGate, CreatePR, SaveLost, Pipeline
    <3> QED BY <1>0, <2>1, <3>1 DEF Goto
  <2> QED BY <2>2, <2>3, <2>4, <2>5 DEF RunTask
<1> QED BY <1>4, <1>5

LEMMA NothingCancelled ==
  ASSUME Quiet, ICalm, cancelled = {}, [Next]_vars
  PROVE  cancelled' = {}
<1>1. ASSUME NEW g \in Workers, RunTask(g) PROVE cancelled' = {}
  BY <1>1 DEF RunTask, MarkRunning, CreateWorktree, RecordPath, PassGates, PromptFails, GateStops,
     ClaudeEdits, ClaudeSucceeds, ClaudeErrs, QualityGate, CreatePR, MarkDone, Fail, Cancel,
     HandOff, RemoveWorktree, Leave, Goto, memory
<1>2. ASSUME NEW t \in Tasks, \/ Enqueue(t) \/ SlackStop(t) \/ StopRead(t) \/ StopCancel(t)
                              \/ StopSave(t) \/ RecoverOrphan(t)
      PROVE  cancelled' = {}
  BY <1>2 DEF Enqueue, SlackStop, StopRead, StopCancel, StopSave, RecoverOrphan, memory, Quiet,
     ICalm
<1>3. CASE Dispatcher \/ Process \/ \E cutoff \in 1..(clock + 1) : Reclaim(cutoff)
  BY <1>3 DEF Dispatcher, Tick, ReserveSlot, Load, GiveUp, Claim, Identify, Spawn, Process,
     Crash, Shutdown, Exit, Down, Boot, StartUp, Reclaim, memory
<1> QED BY <1>1, <1>2, <1>3 DEF Next, vars

LEMMA HeldNext ==
  ASSUME Quiet PROVE IType /\ IClaims /\ ICalm /\ IHeld /\ [Next]_vars => IHeld'
<1> SUFFICES ASSUME IType, IClaims, ICalm, IHeld, [Next]_vars,
                    phase' = "up", NEW t \in Tasks, rows'[t].status = "running"
             PROVE  Held(t)'
  BY NothingCancelled DEF IHeld, RunningIsHeld, WithStatus
<1>1. CASE UNCHANGED <<rows, disp, pc, job, phase>>
  BY <1>1 DEF IHeld, RunningIsHeld, WithStatus, Held, Working
<1>2. CASE Process
  BY <1>2 DEF Process, Crash, Shutdown, Exit, Down, Boot, StartUp, Quiet, DbMayFail, WithStatus
<1>3. ASSUME NEW u \in Tasks, \/ SlackStop(u) \/ StopRead(u) \/ StopCancel(u)
                              \/ StopSave(u) \/ RecoverOrphan(u)
      PROVE  Held(t)'
  BY <1>3 DEF SlackStop, StopRead, StopCancel, StopSave, RecoverOrphan, Quiet, Calm, ICalm, memory
<1>4. ASSUME NEW u \in Tasks, Enqueue(u) PROVE Held(t)'
  <2>1. rows'[u].status = "queued" /\ (t # u => rows'[t] = rows[t])
    BY <1>4 DEF Enqueue, Insert, NoRow, IType
  <2>2. rows[t].status = "running" /\ UNCHANGED <<disp, pc, job, phase>>
    BY <1>4, <2>1 DEF Enqueue, memory
  <2> QED BY <2>2 DEF IHeld, RunningIsHeld, WithStatus, Held, Working
<1>5. ASSUME NEW cutoff \in 1..(clock + 1), Reclaim(cutoff) PROVE Held(t)'
  BY <1>5 DEF Reclaim, Quiet, Calm
<1> QED BY <1>1, <1>2, <1>3, <1>4, <1>5, HeldDispatcher, HeldWorker DEF Next, vars

\* In a process that is up, no running row is abandoned: as long as no statement
\* fails and nobody presses stop, a repository is never blocked by a row that
\* no goroutine will finish, whatever was shut down or crashed before and
\* whichever git commands failed.
THEOREM RunningRowsAreHeld == ASSUME Quiet PROVE Spec => []RunningIsHeld
<1>1. Init => IType /\ IClaims /\ ICalm /\ IHeld
  <2> SUFFICES ASSUME Init PROVE IHeld
    BY TypeInit, ClaimsInit, CalmInit
  <2> QED BY DEF Init, IHeld, RunningIsHeld
<1>2. IType /\ IClaims /\ ICalm /\ IHeld /\ [Next]_vars
        => IType' /\ IClaims' /\ ICalm' /\ IHeld'
  BY TypeNext, ClaimsNext, CalmNext, HeldNext DEF Quiet
<1>3. IHeld => RunningIsHeld
  BY DEF IHeld
<1> QED BY <1>1, <1>2, <1>3, PTL DEF Spec
-----------------------------------------------------------------------------
(* The refinement                                                           *)

\* The status column, as TaskLifecycle sees it.
column == [t \in Tasks |-> rows[t].status]

LEMMA OneStatus ==
  ASSUME NEW t \in Tasks, NEW s, rows'[t].status = s,
         \A u \in Tasks : u # t => rows'[u].status = rows[u].status
  PROVE  column' = [column EXCEPT ![t] = s]
  BY DEF column

\* Each step of the service is one of the promised steps, or leaves the column
\* alone.
LEMMA LifecycleStep ==
  ASSUME Calm, IType, IClaims, ICalm, [Next]_vars
  PROVE  [Lifecycle!Next]_column
<1> USE DEF Lifecycle!Next
<1>0. rows \in [Tasks -> Row]
  BY DEF IType
<1>1. CASE \A t \in Tasks : rows'[t].status = rows[t].status
  BY <1>1 DEF column
<1>2. ASSUME NEW t \in Tasks, Enqueue(t) PROVE Lifecycle!Submit(t)
  <2>1. rows[t].status = "absent" /\ rows'[t].status = "queued"
    BY <1>0, <1>2 DEF Enqueue, Insert, NoRow
  <2>2. \A u \in Tasks : u # t => rows'[u].status = rows[u].status
    BY <1>0, <1>2 DEF Enqueue, Insert
  <2> QED BY <2>1, <2>2, OneStatus DEF Lifecycle!Submit, column
<1>3. ASSUME NEW t \in Tasks, Claim(t) PROVE Lifecycle!Begin(t)
  <2>1. /\ rows[t].status = "queued"
        /\ \A u \in Tasks : RepoOf[u] = RepoOf[t] => rows[u].status # "running"
    BY <1>3 DEF Claim, Oldest, Claimable, WithStatus
  <2>2. /\ rows'[t] = [rows[t] EXCEPT !.status = "running", !.owned = TRUE, !.claimedAt = clock']
        /\ \A u \in Tasks : u # t => rows'[u] = rows[u]
    BY <1>0, <1>3 DEF Claim, ClaimNextTask
  <2>3. rows'[t].status = "running"
    <3>1. rows[t] \in Row
      BY <1>0
    <3> QED BY <2>2, <3>1 DEF Row
  <2> QED BY <2>1, <2>2, <2>3, OneStatus DEF Lifecycle!Begin, column
<1>4. ASSUME NEW t \in Tasks, RecoverOrphan(t)
      PROVE  \E s \in Lifecycle!Ends : Lifecycle!End(t, s)
  <2>1. PICK s \in {"orphaned", "failed"} :
          rows' = [rows EXCEPT ![t] = [rows[t] EXCEPT !.status = s]]
    BY <1>0, <1>4 DEF RecoverOrphan
  <2>2. rows[t].status = "running" /\ rows'[t].status = s
    <3>1. [rows[t] EXCEPT !.status = s].status = s
      BY <1>0, CopyStatus
    <3> QED BY <1>0, <1>4, <2>1, <3>1 DEF RecoverOrphan
  <2>3. \A u \in Tasks : u # t => rows'[u].status = rows[u].status
    BY <1>0, <2>1
  <2>4. Lifecycle!End(t, s)
    BY <2>2, <2>3, OneStatus DEF Lifecycle!End, column
  <2> QED BY <2>4 DEF Lifecycle!Ends
<1>5. ASSUME NEW g \in Workers, RunTask(g), NEW t \in Tasks, rows'[t].status # rows[t].status
      PROVE  \E s \in Lifecycle!Ends : Lifecycle!End(t, s)
  <2>1. g \in Working /\ t = job[g] /\ \A u \in Tasks : u # t => rows'[u].status = rows[u].status
    BY <1>5, WorkerStatus
  <2>2. rows[t].status = "running"
    BY <2>1 DEF IClaims, ICalm, RowRuns
  <2>3. PICK s \in {"done", "failed", "cancelled"} : rows'[t].status = s
    <3>1. /\ [rows[t] EXCEPT !.ci = "watching"].status = rows[t].status
          /\ [mem[g] EXCEPT !.status = "done", !.finished = TRUE].status = "done"
      <4>1. rows[t] \in Row /\ mem[g] \in Row
        BY DEF IType
      <4> QED BY <4>1, CopyStatus
    <3> QED BY <1>5, <2>2, <3>1, WorkerWrites
  <2>4. Lifecycle!End(t, s)
    BY <2>1, <2>2, <2>3, OneStatus DEF Lifecycle!End, column
  <2> QED BY <2>4 DEF Lifecycle!Ends
<1>6. ASSUME NEW g \in Workers, RunTask(g) PROVE [Lifecycle!Next]_column
  BY <1>1, <1>5, <1>6
<1>7. ASSUME NEW t \in Tasks, SlackStop(t) \/ StopRead(t) \/ StopCancel(t) \/ StopSave(t)
      PROVE  [Lifecycle!Next]_column
  BY <1>1, <1>7 DEF SlackStop, StopRead, StopCancel, StopSave, ICalm
<1>8. ASSUME NEW cutoff \in 1..(clock + 1), Reclaim(cutoff) PROVE FALSE
  BY <1>8 DEF Reclaim, Calm
<1>9. CASE \/ Tick \/ ReserveSlot \/ Load \/ GiveUp \/ Process \/ UNCHANGED vars
           \/ \E g \in Workers : Spawn(g)
           \/ \E t \in Tasks : Identify(t)
  BY <1>1, <1>9 DEF Tick, ReserveSlot, Load, GiveUp, Spawn, Identify, vars,
     Process, Crash, Shutdown, Exit, Down, Boot, StartUp
<1> QED BY <1>2, <1>3, <1>4, <1>6, <1>7, <1>8, <1>9 DEF Next, Dispatcher

\* The service implements its promise about the status of a task: queued once,
\* run at most once and alone in its repository, ended once.  The mapping reads
\* the status column; through faults, stops from Slack, crashes and restarts.
THEOREM LifecycleKept == ASSUME Calm PROVE Spec => ImplementsLifecycle
<1>1. Init => Lifecycle!Init
  <2> SUFFICES ASSUME Init PROVE Lifecycle!Init
    OBVIOUS
  <2>1. NoRow.status = "absent" /\ \A t \in Tasks : rows[t] = NoRow
    BY DEF Init, NoRow
  <2> QED BY <2>1 DEF Lifecycle!Init
<1>2. Init => IType /\ IClaims /\ ICalm
  BY TypeInit, ClaimsInit, CalmInit
<1>3. IType /\ IClaims /\ ICalm /\ [Next]_vars => IType' /\ IClaims' /\ ICalm'
  BY TypeNext, ClaimsNext, CalmNext
<1>4. IType /\ IClaims /\ ICalm /\ [Next]_vars => [Lifecycle!Next]_column
  BY LifecycleStep
<1> QED BY <1>1, <1>2, <1>3, <1>4, PTL DEF Spec, ImplementsLifecycle, Lifecycle!Spec, column
=============================================================================
