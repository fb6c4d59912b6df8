-------------------------- MODULE WorktreeGC_proofs --------------------------
(***************************************************************************)
(* What the worktree GC promises, for every set of tasks, every retention  *)
(* and page size, whatever fails and however often the process dies or is *)
(* stopped: a row does not lose its pointer while its directory is there,  *)
(* and changes that are there when the process ends are never swept.       *)
(***************************************************************************)
EXTENDS WorktreeGC, SequenceTheorems, TLAPS

USE DEF row, disk, sweeper, life

Swept == {"failed", "cancelled"}
AtWork == {"started", "created", "claude", "ending"}

\* TypeOK, but for what it says of the directory in hand.
Typed ==
  /\ status \in [Tasks -> {"queued", "running", "done", "failed", "cancelled", "orphaned"}]
  /\ path \in [Tasks -> BOOLEAN]
  /\ age \in [Tasks -> Unfinished..RetentionDays]
  /\ dir \in [Tasks -> {"absent", "clean", "dirty"}]
  /\ added \subseteq Tasks
  /\ worker \in [Tasks -> {"none", "cleanup"} \cup AtWork]
  /\ gc \in {"boot", "orphans", "list", "sweep", "idle"}
  /\ serving \in BOOLEAN
  /\ left \in Seq(Swept) /\ Len(left) =< 2
  /\ todo \subseteq Tasks
  /\ hand \in Tasks \cup {NoTask}
  /\ restarts \in 0..MaxRestarts
  /\ stopping \in BOOLEAN
  /\ unsaved \subseteq Tasks /\ stopped \subseteq Tasks

LEMMA Bounds ==
  /\ RetentionDays \in Nat \ {0} /\ MaxRestarts \in Nat /\ NoTask \notin Tasks
  /\ Unfinished \in Unfinished..RetentionDays /\ 0 \in Unfinished..RetentionDays
  BY WorktreeGCAssumption DEF WorktreeGCAssumption, Unfinished

LEMMA TypedInit == Init => Typed
<1> SUFFICES ASSUME Init PROVE Typed
  OBVIOUS
<1>1. age \in [Tasks -> Unfinished..RetentionDays]
  BY Bounds DEF Init
<1>2. left \in Seq(Swept) /\ Len(left) =< 2
  BY EmptySeq DEF Init
<1>3. restarts \in 0..MaxRestarts
  BY Bounds DEF Init
<1> QED
  BY <1>1, <1>2, <1>3 DEF Init, Typed

-----------------------------------------------------------------------------
(* What each operation leaves alone                                         *)

\* A write reaches one row, or is lost.
LEMMA UpdateTyped ==
  ASSUME Typed, NEW t \in Tasks, NEW p \in BOOLEAN, NEW a \in Unfinished..RetentionDays,
         NEW s \in {"queued", "running", "done", "failed", "cancelled", "orphaned"},
         Update(t, s, p, a)
  PROVE  /\ status' \in [Tasks -> {"queued", "running", "done", "failed", "cancelled", "orphaned"}]
         /\ path' \in [Tasks -> BOOLEAN]
         /\ age' \in [Tasks -> Unfinished..RetentionDays]
         /\ \A u \in Tasks : u # t => /\ status'[u] = status[u] /\ path'[u] = path[u]
                                      /\ age'[u] = age[u]
         /\ \/ status'[t] = status[t] /\ path'[t] = path[t] /\ age'[t] = age[t]
            \/ status'[t] = s /\ path'[t] = p /\ age'[t] = a
  BY DEF Typed, Update

\* The steps of one worker: its row, its directory and its own state.
Mine(t) ==
  /\ UNCHANGED <<sweeper, life>>
  /\ \A u \in Tasks : u # t => /\ status'[u] = status[u] /\ path'[u] = path[u]
                               /\ age'[u] = age[u] /\ dir'[u] = dir[u] /\ worker'[u] = worker[u]

LEMMA CreateTyped ==
  ASSUME Typed, NEW t \in Tasks, CreateWorktree(t)
  PROVE  /\ Typed' /\ Mine(t) /\ worker[t] = "started"
         /\ path'[t] = path[t]
         /\ \/ worker'[t] = "created" /\ status'[t] = status[t] /\ age'[t] = age[t]
            \/ /\ worker'[t] = "none"
               /\ \/ status'[t] = status[t] /\ age'[t] = age[t]
                  \/ status'[t] = "failed" /\ age'[t] = 0
<1>1. path[t] \in BOOLEAN
  BY DEF Typed
<1> DEFINE made == [dir EXCEPT ![t] = "clean"]
<1>2. CASE /\ dir' = made /\ added' = added \cup {t}
           /\ Goto(t, "created") /\ UNCHANGED row
  BY <1>2 DEF CreateWorktree, Goto, Typed, Mine, AtWork
<1>3. CASE /\ UNCHANGED disk \/ (added' = added \cup {t} /\ dir' \in {dir, made})
           /\ Update(t, "failed", path[t], 0) /\ Goto(t, "none")
  <2>1. worker' \in [Tasks -> {"none", "cleanup"} \cup AtWork] /\ worker'[t] = "none"
        /\ \A u \in Tasks : u # t => worker'[u] = worker[u]
    BY <1>3 DEF Goto, Typed
  <2>2. worker[t] = "started" /\ UNCHANGED <<sweeper, life>>
    BY DEF CreateWorktree
  <2>3. /\ dir' \in [Tasks -> {"absent", "clean", "dirty"}] /\ added' \subseteq Tasks
        /\ \A u \in Tasks : u # t => dir'[u] = dir[u]
    BY <1>3 DEF Typed
  <2> QED
    BY <1>1, <1>3, <2>1, <2>2, <2>3, Bounds, UpdateTyped DEF Typed, Mine
<1> QED
  BY <1>2, <1>3 DEF CreateWorktree

LEMMA StorePathTyped ==
  ASSUME Typed, NEW t \in Tasks, StorePath(t)
  PROVE  /\ Typed' /\ Mine(t) /\ worker[t] = "created" /\ worker'[t] = "claude"
         /\ path[t] => path'[t]
         /\ dir'[t] = dir[t]
         /\ \/ status'[t] = status[t] /\ age'[t] = age[t]
            \/ status'[t] = "running" /\ age'[t] = Unfinished
<1>1. /\ Update(t, "running", TRUE, Unfinished) /\ worker[t] = "created"
      /\ UNCHANGED <<disk, sweeper, life>>
  BY DEF StorePath
<1>2. /\ worker' \in [Tasks -> {"none", "cleanup"} \cup AtWork] /\ worker'[t] = "claude"
      /\ \A u \in Tasks : u # t => worker'[u] = worker[u]
  BY DEF StorePath, Goto, Typed, AtWork
<1> QED
  BY <1>1, <1>2, Bounds, UpdateTyped DEF Typed, Mine

LEMMA EndTyped ==
  ASSUME Typed, NEW t \in Tasks, NEW s \in {"done", "failed", "cancelled"}, End(t, s)
  PROVE  /\ Typed' /\ Mine(t) /\ worker[t] \in {"claude", "ending"}
         /\ worker'[t] \in {"none", "cleanup"}
         /\ path[t] => path'[t]
         /\ dir'[t] = dir[t]
         /\ \/ status'[t] = status[t] /\ age'[t] = age[t]
            \/ status'[t] = s /\ age'[t] = 0
<1>1. /\ Update(t, s, TRUE, 0) /\ worker[t] \in {"claude", "ending"}
      /\ UNCHANGED <<disk, sweeper, life>>
  BY DEF End
<1>2. /\ worker' \in [Tasks -> {"none", "cleanup"} \cup AtWork]
      /\ worker'[t] \in {"none", "cleanup"}
      /\ \A u \in Tasks : u # t => worker'[u] = worker[u]
  BY DEF End, Goto, Typed
<1>3. /\ status' \in [Tasks -> {"queued", "running", "done", "failed", "cancelled", "orphaned"}]
      /\ path' \in [Tasks -> BOOLEAN]
      /\ age' \in [Tasks -> Unfinished..RetentionDays]
      /\ \A u \in Tasks : u # t => /\ status'[u] = status[u] /\ path'[u] = path[u]
                                   /\ age'[u] = age[u]
      /\ \/ status'[t] = status[t] /\ path'[t] = path[t] /\ age'[t] = age[t]
         \/ status'[t] = s /\ path'[t] = TRUE /\ age'[t] = 0
  BY <1>1, Bounds, UpdateTyped
<1> QED
  BY <1>1, <1>2, <1>3 DEF Typed, Mine

\* The steps of a worker that write no row.
LEMMA DiskTyped ==
  ASSUME Typed, NEW t \in Tasks, Work(t) \/ Discard(t) \/ Cleanup(t)
  PROVE  /\ Typed' /\ Mine(t) /\ UNCHANGED row
         /\ worker[t] \in {"claude", "cleanup"}
         /\ worker'[t] \in AtWork => worker[t] \in AtWork
         /\ worker[t] = "cleanup" => dir'[t] \in {dir[t], "absent"}
<1>1. CASE Work(t)
  BY <1>1 DEF Work, Typed, Mine
<1>2. CASE Discard(t)
  BY <1>2 DEF Discard, RemoveDir, Goto, Typed, Mine, AtWork
<1>3. CASE Cleanup(t)
  BY <1>3 DEF Cleanup, RemoveDir, Goto, Typed, Mine, AtWork
<1> QED
  BY <1>1, <1>2, <1>3

LEMMA ClaimTyped ==
  ASSUME Typed, NEW t \in Tasks, Start(t) \/ Reclaim(t)
  PROVE  /\ Typed' /\ Mine(t) /\ UNCHANGED <<path, age, dir>> /\ serving
         /\ \/ status[t] = "queued" /\ status'[t] = "running"
            \/ status[t] = "running" /\ status'[t] = "orphaned" /\ worker'[t] = "none"
<1>1. CASE Start(t)
  BY <1>1 DEF Start, Goto, Typed, Mine, AtWork
<1>2. CASE Reclaim(t)
  BY <1>2 DEF Reclaim, Typed, Mine
<1> QED
  BY <1>1, <1>2

\* Recovery takes one row of its list; an interrupted run has no finished_at,
\* and is given none.
LEMMA ReconcileTyped ==
  ASSUME Typed, NEW t \in Tasks, Reconcile(t)
  PROVE  /\ Typed' /\ UNCHANGED <<age, disk, worker, gc, serving, left, hand, life>>
         /\ gc = "orphans" /\ t \in todo /\ todo' = todo \ {t}
         /\ \A u \in Tasks : /\ path[u] => path'[u]
                             /\ u # t => status'[u] = status[u]
         /\ status'[t] \in {status[t], "orphaned", "failed"}
<1>1. /\ UNCHANGED <<disk, worker, gc, serving, left, hand, life>>
      /\ gc = "orphans" /\ t \in todo /\ todo' = todo \ {t}
      /\ Update(t, "orphaned", TRUE, age[t]) \/ Update(t, "failed", path[t], age[t])
  BY DEF Reconcile
<1>2. path[t] \in BOOLEAN /\ age[t] \in Unfinished..RetentionDays
  BY DEF Typed
<1>3. CASE Update(t, "orphaned", TRUE, age[t])
  <2>1. /\ status' \in [Tasks -> {"queued", "running", "done", "failed", "cancelled", "orphaned"}]
        /\ path' \in [Tasks -> BOOLEAN]
        /\ age' = age
        /\ \A u \in Tasks : u # t => status'[u] = status[u] /\ path'[u] = path[u]
        /\ status'[t] \in {status[t], "orphaned"} /\ (path[t] => path'[t])
    BY <1>3 DEF Update, Typed
  <2> QED
    BY <1>1, <2>1 DEF Typed
<1>4. CASE Update(t, "failed", path[t], age[t])
  <2>1. /\ status' \in [Tasks -> {"queued", "running", "done", "failed", "cancelled", "orphaned"}]
        /\ path' = path
        /\ age' = age
        /\ \A u \in Tasks : u # t => status'[u] = status[u]
        /\ status'[t] \in {status[t], "failed"}
    BY <1>4 DEF Update, Typed
  <2> QED
    BY <1>1, <2>1 DEF Typed
<1> QED
  BY <1>1, <1>3, <1>4

LEMMA ClearTyped ==
  ASSUME Typed, Clear
  PROVE  /\ Typed' /\ UNCHANGED <<status, age, disk, worker, gc, serving, left, todo, life>>
         /\ hand \in Tasks /\ hand' = NoTask
         /\ \A u \in Tasks : u # hand => path'[u] = path[u]
<1>1. hand \in Tasks /\ hand # NoTask
  BY DEF Clear, Typed
<1>2. /\ status' = status /\ age' = age /\ path' \in [Tasks -> BOOLEAN]
      /\ \A u \in Tasks : u # hand => path'[u] = path[u]
  BY <1>1 DEF Clear, Update, Typed
<1> QED
  BY <1>1, <1>2 DEF Clear, Typed

LEMMA RemoveTyped ==
  ASSUME Typed, NEW t \in Tasks, Remove(t)
  PROVE  /\ Typed' /\ UNCHANGED <<row, added, worker, gc, serving, left, life>>
         /\ gc = "sweep" /\ t \in todo /\ todo' = todo \ {t} /\ hand = NoTask
         /\ \A u \in Tasks : u # t => dir'[u] = dir[u]
         /\ dir'[t] \in {dir[t], "absent"}
         /\ hand' # NoTask => hand' = t /\ dir'[t] = "absent"
  BY DEF Remove, Typed

LEMMA ListTyped ==
  ASSUME Typed, List
  PROVE  /\ Typed' /\ UNCHANGED <<row, disk, worker, hand, life>> /\ gc = "list"
         /\ \/ gc' = "idle" /\ serving'
            \/ /\ gc' = "sweep" /\ UNCHANGED serving
               /\ \A t \in todo' : status[t] \in Swept /\ Old(t)
<1>1. CASE left = <<>>
  BY <1>1 DEF List, Typed
<1>2. CASE left # <<>>
  <2>1. Head(left) \in Swept /\ Tail(left) \in Seq(Swept) /\ Len(Tail(left)) = Len(left) - 1
        /\ Len(left) \in Nat
    BY <1>2, HeadTailProperties, LenProperties DEF Typed
  <2>2. /\ gc' = "sweep" /\ left' = Tail(left) /\ UNCHANGED <<serving, row, disk, worker, hand, life>>
        /\ gc = "list"
        /\ todo' = {t \in Page(Head(left)) : Old(t)} \/ todo' = {}
    BY <1>2 DEF List
  <2>3. todo' \subseteq Tasks /\ \A t \in todo' : status[t] \in Swept /\ Old(t)
    BY <2>1, <2>2 DEF Page
  <2> QED
    BY <2>1, <2>2, <2>3 DEF Typed
<1> QED
  BY <1>1, <1>2

LEMMA DayTyped ==
  ASSUME Typed, Day
  PROVE  /\ Typed' /\ UNCHANGED <<status, path, disk, worker, sweeper, life>>
         /\ \A t \in Tasks : age'[t] = Unfinished <=> age[t] = Unfinished
<1>1. \A t \in Tasks : age[t] \in Unfinished..RetentionDays
  BY DEF Typed
<1>2. /\ age' = [t \in Tasks |-> IF age[t] \in 0..(RetentionDays - 1) THEN age[t] + 1 ELSE age[t]]
      /\ UNCHANGED <<status, path, disk, worker, sweeper, life>>
  BY DEF Day
<1>3. \A t \in Tasks : /\ age'[t] \in Unfinished..RetentionDays
                       /\ age'[t] = Unfinished <=> age[t] = Unfinished
  BY <1>1, <1>2, Bounds DEF Unfinished
<1>4. age' \in [Tasks -> Unfinished..RetentionDays]
  BY <1>2, <1>3
<1> QED
  BY <1>2, <1>3, <1>4 DEF Typed

LEMMA DownTyped ==
  ASSUME Typed, Crash \/ Exit
  PROVE  /\ Typed' /\ UNCHANGED <<row, disk>>
         /\ worker' = [t \in Tasks |-> "none"]
         /\ unsaved' = unsaved \cup Interrupted
         /\ gc' = "boot" /\ ~serving' /\ todo' = {} /\ hand' = NoTask
<1>1. restarts \in 0..MaxRestarts
  BY DEF Typed
<1>2. restarts' \in 0..MaxRestarts
  BY <1>1, Bounds DEF Crash, Exit
<1>3. Down
  BY DEF Crash, Exit
<1>4. left' \in Seq(Swept) /\ Len(left') =< 2
  <2>1. left' = <<>>
    BY <1>3 DEF Down
  <2> QED
    BY <2>1, EmptySeq
<1> QED
  BY <1>2, <1>3, <1>4 DEF Down, Interrupted, Typed

LEMMA ShutdownTyped ==
  ASSUME Typed, Shutdown
  PROVE  Typed' /\ UNCHANGED <<row, disk, worker, sweeper, unsaved>>
<1>1. restarts \in 0..MaxRestarts
  BY DEF Typed
<1>2. restarts' \in 0..MaxRestarts
  BY <1>1, Bounds DEF Shutdown
<1>3. UNCHANGED <<row, disk, worker, sweeper, unsaved>>
  BY DEF Shutdown
<1>4. stopping' \in BOOLEAN /\ stopped' \subseteq Tasks
  BY DEF Shutdown, Interrupted, Typed
<1> QED
  BY <1>2, <1>3, <1>4 DEF Typed

\* The steps of the sweeper that look at no row, but the list of running ones.
LEMMA SweeperTyped ==
  ASSUME Typed, Boot \/ StartSweep \/ EndOfList
  PROVE  /\ Typed' /\ UNCHANGED <<row, disk, worker, serving, hand, life>>
         /\ \/ gc = "boot" /\ gc' = "orphans"
            \/ gc \in {"orphans", "idle", "sweep"} /\ gc' = "list"
         /\ gc = "sweep" => hand = NoTask
<1>1. CASE Boot
  BY <1>1 DEF Boot, Typed
<1>2. CASE StartSweep
  <2>1. left' \in Seq(Swept) /\ Len(left') =< 2
    BY <1>2 DEF StartSweep, Swept
  <2> QED
    BY <1>2, <2>1 DEF StartSweep, Typed
<1>3. CASE EndOfList
  BY <1>3 DEF EndOfList, Typed
<1> QED
  BY <1>1, <1>2, <1>3

-----------------------------------------------------------------------------
(* The inductive invariant                                                  *)

\* Nobody works before the scheduler has been started.
BootAlone ==
  /\ gc \in {"boot", "orphans"} => ~serving
  /\ ~serving => \A t \in Tasks : worker[t] = "none"

\* A worker that touches its worktree has a running row; a row that is not over
\* has no finished_at.
RowsMatch ==
  \A t \in Tasks : /\ worker[t] \in AtWork => status[t] = "running"
                   /\ status[t] \in {"queued", "running"} => age[t] = Unfinished

\* What the sweep has picked is over, and has a finished_at.
Picked ==
  /\ hand # NoTask => gc = "sweep" /\ dir[hand] = "absent" /\ status[hand] \in Swept
  /\ gc = "sweep" => \A t \in todo : status[t] \in Swept /\ age[t] # Unfinished

\* An interrupted run is never worked on, finished or picked again.
Kept ==
  \A t \in unsaved : /\ dir[t] = "dirty" /\ worker[t] = "none" /\ age[t] = Unfinished
                     /\ status[t] \in {"running", "orphaned", "failed"}

IInv == BootAlone /\ RowsMatch /\ Picked /\ Kept

\* A step of one worker that has a running row, or of one that cleans up, keeps
\* the invariant if what it writes is in order.
LEMMA MineKeeps ==
  ASSUME Typed, IInv, NEW t \in Tasks, Mine(t), serving,
         t \notin unsaved,
         worker'[t] \in AtWork => status'[t] = "running",
         status'[t] \in {"queued", "running"} => age'[t] = Unfinished,
         status[t] \in Swept => status'[t] = status[t] /\ age'[t] = age[t],
         status[t] \in Swept => dir'[t] \in {dir[t], "absent"}
  PROVE  IInv'
<1> USE DEF IInv
<1>1. BootAlone'
  BY DEF BootAlone, Mine
<1>2. RowsMatch'
  BY DEF RowsMatch, Mine
<1>3. Picked'
  <2>1. hand # NoTask => dir'[hand] = "absent" /\ status'[hand] \in Swept
    BY DEF Picked, Mine, Typed
  <2>2. gc = "sweep" => \A u \in todo : status'[u] \in Swept /\ age'[u] # Unfinished
    BY DEF Picked, Mine, Typed
  <2> QED
    BY <2>1, <2>2 DEF Picked, Mine
<1>4. Kept'
  BY DEF Kept, Mine, Typed
<1> QED
  BY <1>1, <1>2, <1>3, <1>4

LEMMA AtWorkServes ==
  Typed /\ IInv => \A t \in Tasks : worker[t] # "none" => serving /\ t \notin unsaved
  BY DEF Typed, IInv, BootAlone, Kept

LEMMA WorkerKeeps ==
  ASSUME Typed, IInv, NEW t \in Tasks,
         \/ CreateWorktree(t) \/ StorePath(t) \/ Work(t) \/ Discard(t) \/ Cleanup(t)
         \/ \E s \in {"done", "failed", "cancelled"} : End(t, s)
  PROVE  IInv'
<1>1. CASE CreateWorktree(t) \/ StorePath(t)
  <2>1. /\ worker[t] \in AtWork /\ worker[t] # "none" /\ Mine(t)
        /\ worker'[t] \in AtWork => status'[t] \in {status[t], "running"}
        /\ \/ status'[t] = status[t] /\ age'[t] = age[t]
           \/ status'[t] = "running" /\ age'[t] = Unfinished
           \/ status'[t] = "failed" /\ age'[t] = 0
    BY <1>1, CreateTyped, StorePathTyped DEF AtWork
  <2>2. status[t] = "running" /\ age[t] = Unfinished /\ serving /\ t \notin unsaved
    BY <2>1, AtWorkServes DEF IInv, RowsMatch
  <2> QED
    BY <2>1, <2>2, MineKeeps DEF Swept
<1>2. CASE Work(t) \/ Discard(t) \/ Cleanup(t)
  <2>1. /\ Mine(t) /\ UNCHANGED row /\ worker[t] \in {"claude", "cleanup"}
        /\ worker'[t] \in AtWork => worker[t] \in AtWork
        /\ worker[t] = "cleanup" => dir'[t] \in {dir[t], "absent"}
    BY <1>2, DiskTyped
  <2>2. serving /\ t \notin unsaved
    BY <2>1, AtWorkServes
  <2>3. worker[t] = "claude" => status[t] = "running"
    BY DEF IInv, RowsMatch, AtWork
  <2>4. /\ worker'[t] \in AtWork => status'[t] = "running"
        /\ status'[t] \in {"queued", "running"} => age'[t] = Unfinished
    BY <2>1 DEF IInv, RowsMatch
  <2> QED
    BY <2>1, <2>2, <2>3, <2>4, MineKeeps DEF Swept
<1>3. ASSUME NEW s \in {"done", "failed", "cancelled"}, End(t, s)
      PROVE  IInv'
  <2>1. /\ worker[t] \in AtWork /\ worker[t] # "none" /\ Mine(t)
        /\ worker'[t] \notin AtWork
        /\ \/ status'[t] = status[t] /\ age'[t] = age[t]
           \/ status'[t] = s /\ age'[t] = 0
    BY <1>3, EndTyped DEF AtWork
  <2>2. status[t] = "running" /\ age[t] = Unfinished /\ serving /\ t \notin unsaved
    BY <2>1, AtWorkServes DEF IInv, RowsMatch
  <2> QED
    BY <2>1, <2>2, MineKeeps DEF Swept
<1> QED
  BY <1>1, <1>2, <1>3

LEMMA ClaimKeeps ==
  ASSUME Typed, IInv, NEW t \in Tasks, Start(t) \/ Reclaim(t)
  PROVE  IInv'
<1>1. /\ Mine(t) /\ UNCHANGED <<path, age, dir>> /\ serving
      /\ \/ status[t] = "queued" /\ status'[t] = "running"
         \/ status[t] = "running" /\ status'[t] = "orphaned" /\ worker'[t] = "none"
  BY ClaimTyped
<1>2. CASE status[t] = "queued" /\ status'[t] = "running"
  BY <1>1, <1>2, MineKeeps DEF IInv, RowsMatch, Kept, Swept
<1>3. CASE status[t] = "running" /\ status'[t] = "orphaned" /\ worker'[t] = "none"
  <2>1. BootAlone' /\ RowsMatch'
    BY <1>1, <1>3 DEF IInv, BootAlone, RowsMatch, Mine, AtWork
  <2>2. Picked'
    BY <1>1, <1>3 DEF IInv, Picked, Mine, Swept, Typed
  <2>3. Kept'
    BY <1>1, <1>3 DEF IInv, Kept, Mine, Typed
  <2> QED
    BY <2>1, <2>2, <2>3 DEF IInv
<1> QED
  BY <1>1, <1>2, <1>3

LEMMA SweepKeeps ==
  ASSUME Typed, IInv,
         \/ \E t \in Tasks : Reconcile(t) \/ Remove(t)
         \/ Boot \/ StartSweep \/ List \/ EndOfList \/ Clear
  PROVE  IInv'
<1> USE DEF IInv
<1>1. ASSUME NEW t \in Tasks, Reconcile(t)
      PROVE  IInv'
  <2>1. /\ UNCHANGED <<age, disk, worker, gc, serving, left, hand, life>>
        /\ gc = "orphans"
        /\ \A u \in Tasks : u # t => status'[u] = status[u]
        /\ status'[t] \in {status[t], "orphaned", "failed"}
    BY <1>1, ReconcileTyped
  <2>2. ~serving /\ hand = NoTask /\ \A u \in Tasks : worker[u] = "none"
    BY <2>1 DEF BootAlone, Picked
  <2> QED
    BY <2>1, <2>2 DEF BootAlone, RowsMatch, Picked, Kept, AtWork, Typed
<1>2. ASSUME NEW t \in Tasks, Remove(t)
      PROVE  IInv'
  <2>1. /\ UNCHANGED <<row, added, worker, gc, serving, left, life>>
        /\ gc = "sweep" /\ t \in todo /\ todo' = todo \ {t}
        /\ \A u \in Tasks : u # t => dir'[u] = dir[u]
        /\ hand' # NoTask => hand' = t /\ dir'[t] = "absent"
    BY <1>2, RemoveTyped
  <2>2. status[t] \in Swept /\ t \notin unsaved
    BY <2>1 DEF Picked, Kept
  <2>3. Kept'
    BY <2>1, <2>2 DEF Kept, Typed
  <2> QED
    BY <2>1, <2>2, <2>3 DEF BootAlone, RowsMatch, Picked
<1>3. CASE Boot \/ StartSweep \/ EndOfList
  <2>1. /\ UNCHANGED <<row, disk, worker, serving, hand, life>>
        /\ \/ gc = "boot" /\ gc' = "orphans"
           \/ gc \in {"orphans", "idle", "sweep"} /\ gc' = "list"
        /\ gc = "sweep" => hand = NoTask
    BY <1>3, SweeperTyped
  <2> QED
    BY <2>1 DEF BootAlone, RowsMatch, Picked, Kept
<1>4. CASE List
  <2>1. /\ UNCHANGED <<row, disk, worker, hand, life>> /\ gc = "list"
        /\ \/ gc' = "idle" /\ serving'
           \/ /\ gc' = "sweep" /\ UNCHANGED serving
              /\ \A t \in todo' : status[t] \in Swept /\ Old(t)
    BY <1>4, ListTyped
  <2>2. \A t \in Tasks : Old(t) => age[t] # Unfinished
    BY Bounds DEF Old, Unfinished
  <2>3. todo' \subseteq Tasks
    BY <1>4, ListTyped DEF Typed
  <2> QED
    BY <2>1, <2>2, <2>3 DEF BootAlone, RowsMatch, Picked, Kept
<1>5. CASE Clear
  BY <1>5, ClearTyped DEF BootAlone, RowsMatch, Picked, Kept
<1> QED
  BY <1>1, <1>2, <1>3, <1>4, <1>5

LEMMA DownKeeps ==
  ASSUME Typed, IInv, Crash \/ Exit
  PROVE  IInv'
<1>1. /\ UNCHANGED <<row, disk>> /\ worker' = [t \in Tasks |-> "none"]
      /\ unsaved' = unsaved \cup Interrupted
      /\ gc' = "boot" /\ ~serving' /\ hand' = NoTask
  BY DownTyped
<1>2. BootAlone' /\ RowsMatch' /\ Picked'
  BY <1>1 DEF IInv, BootAlone, RowsMatch, Picked, AtWork
<1>3. Kept'
  BY <1>1 DEF IInv, RowsMatch, Kept, Interrupted, IsDirty, Typed
<1> QED
  BY <1>2, <1>3 DEF IInv

LEMMA DayKeeps ==
  ASSUME Typed, IInv, Day
  PROVE  IInv'
<1>1. /\ UNCHANGED <<status, path, disk, worker, sweeper, life>>
      /\ \A t \in Tasks : age'[t] = Unfinished <=> age[t] = Unfinished
  BY DayTyped
<1> QED
  BY <1>1 DEF IInv, BootAlone, RowsMatch, Picked, Kept, Typed

LEMMA IInvNext == Typed /\ IInv /\ [Next]_vars => Typed' /\ IInv'
<1> SUFFICES ASSUME Typed, IInv, [Next]_vars
             PROVE  Typed' /\ IInv'
  OBVIOUS
<1>1. ASSUME NEW t \in Tasks,
             \/ CreateWorktree(t) \/ StorePath(t) \/ Work(t) \/ Discard(t) \/ Cleanup(t)
             \/ \E s \in {"done", "failed", "cancelled"} : End(t, s)
      PROVE  Typed' /\ IInv'
  BY <1>1, WorkerKeeps, CreateTyped, StorePathTyped, DiskTyped, EndTyped
<1>2. ASSUME NEW t \in Tasks, Start(t) \/ Reclaim(t)
      PROVE  Typed' /\ IInv'
  BY <1>2, ClaimKeeps, ClaimTyped
<1>3. ASSUME NEW t \in Tasks, Reconcile(t) \/ Remove(t)
      PROVE  Typed' /\ IInv'
  BY <1>3, SweepKeeps, ReconcileTyped, RemoveTyped
<1>4. CASE Boot \/ StartSweep \/ List \/ EndOfList \/ Clear
  BY <1>4, SweepKeeps, SweeperTyped, ListTyped, ClearTyped
<1>5. CASE Day \/ Crash \/ Exit
  BY <1>5, DayKeeps, DayTyped, DownKeeps, DownTyped
<1>6. CASE Shutdown
  BY <1>6, ShutdownTyped DEF IInv, BootAlone, RowsMatch, Picked, Kept
<1>7. CASE UNCHANGED vars
  BY <1>7 DEF vars, Typed, IInv, BootAlone, RowsMatch, Picked, Kept
<1> QED
  BY <1>1, <1>2, <1>3, <1>4, <1>5, <1>6, <1>7 DEF Next

LEMMA IInvAlways == Spec => [](Typed /\ IInv)
<1>1. Init => IInv
  BY DEF Init, IInv, BootAlone, RowsMatch, Picked, Kept, AtWork
<1> QED
  BY <1>1, TypedInit, IInvNext, PTL DEF Spec

-----------------------------------------------------------------------------
(* Theorems                                                                 *)

\* Every variable keeps its type, and what the sweep holds in hand has no
\* directory any more.
THEOREM TypeCorrect == Spec => []TypeOK
<1>1. Typed /\ IInv => TypeOK
  BY DEF Typed, IInv, Picked, TypeOK, AtWork, Swept
<1> QED
  BY <1>1, IInvAlways, PTL

\* What is uncommitted in the worktree of a running row when the process ends
\* stays there, whatever fails, restarts, shuts down or expires later: the row
\* has no finished_at, and without one the sweep passes over it (gc/runner.go
\* reconcileOrphan, SweepWorktrees).  It does not say that a worktree lives to
\* see the end: a shutdown may remove it (ShutdownKept).
THEOREM UnsavedIsKept == Spec => []UnsavedKept
<1>1. IInv => UnsavedKept
  BY DEF IInv, Kept, UnsavedKept
<1> QED
  BY <1>1, IInvAlways, PTL

LEMMA PointerStep ==
  ASSUME Typed, IInv, [Next]_vars, NEW t \in Tasks, path[t], ~path'[t]
  PROVE  dir'[t] = "absent"
<1>1. CASE Clear
  <2>1. hand = t /\ hand # NoTask /\ UNCHANGED disk
    BY <1>1, ClearTyped DEF Clear
  <2> QED
    BY <2>1 DEF IInv, Picked
<1>2. ASSUME NEW u \in Tasks,
             \/ Start(u) \/ CreateWorktree(u) \/ StorePath(u) \/ Work(u)
             \/ Discard(u) \/ Cleanup(u) \/ Reclaim(u)
             \/ \E s \in {"done", "failed", "cancelled"} : End(u, s)
      PROVE  FALSE
  <2>1. Mine(u) /\ (path[u] => path'[u])
    BY <1>2, ClaimTyped, CreateTyped, StorePathTyped, DiskTyped, EndTyped
  <2> QED
    BY <2>1 DEF Mine, Typed
<1>3. ASSUME NEW u \in Tasks, Reconcile(u) \/ Remove(u)
      PROVE  FALSE
  BY <1>3, ReconcileTyped, RemoveTyped
<1>4. CASE \/ Day \/ Crash \/ Exit \/ Shutdown \/ Boot \/ StartSweep \/ List \/ EndOfList
           \/ UNCHANGED vars
  BY <1>4, DayTyped, DownTyped, ShutdownTyped, SweeperTyped, ListTyped DEF vars
<1> QED
  BY <1>1, <1>2, <1>3, <1>4 DEF Next

\* A row loses its worktree_path only when the directory is gone, so that no
\* crash and no failing command leaves one behind that no sweep can find
\* (gc/runner.go removeWorktree returns before the row is written).
THEOREM PointerIsLast == Spec => PointerOutlivesDir
<1>1. Typed /\ IInv /\ [Next]_vars =>
        [\A t \in Tasks : path[t] /\ ~path'[t] => dir'[t] = "absent"]_vars
  BY PointerStep
<1> QED
  BY <1>1, IInvAlways, PTL DEF Spec, PointerOutlivesDir
=============================================================================
