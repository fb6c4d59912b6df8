--------------------------- MODULE Delivery_proofs ---------------------------
(***************************************************************************)
(* What the gate and the delivery promise, for every number of commands,   *)
(* every kind of helper and every fault: no signalled command passes, the  *)
(* output is settled when Run returns, no commit is lost on GitHub, a pull *)
(* request offers the whole work, and every step is one of Dispatch's.     *)
(***************************************************************************)
EXTENDS Delivery, TLAPS

USE DEF gateVars, branchVars

\* Only GateStep touches the variables of the gate.
LEMMA GateFrame ==
  ASSUME [Next]_vars
  PROVE  GateNext \/ UNCHANGED gateVars
<1>1. CASE GateStep
  BY <1>1 DEF GateStep
<1>2. CASE \E e \in {"command", "helper"} : Edit(e)
  BY <1>2 DEF Edit, KeepGate
<1>3. CASE Worker
  BY <1>3 DEF Worker, GatePasses, GateFails, CreatePR, Rollback, NotAllowed,
     StartProcess, GitAdd, GitCommit, GitPush, GitRebase, GhPrCreate, KeepGate
<1>4. CASE MergeElsewhere \/ PushElsewhere
  BY <1>4 DEF MergeElsewhere, PushElsewhere, KeepGate
<1>5. CASE UNCHANGED vars
  BY <1>5 DEF vars
<1> QED
  BY <1>1, <1>2, <1>3, <1>4, <1>5 DEF Next

LEMMA InitGate == Init => GateInit
  BY DEF Init

-----------------------------------------------------------------------------
(* A command that was sent a signal does not pass *)

\* Wherever the gate can still be passed, nothing has been signalled.
Unsignalled == gate \in {"next", "wait", "passed"} => signalled = {}

LEMMA UnsignalledStep ==
  ASSUME Unsignalled, GateNext
  PROVE  Unsignalled'
<1>1. CASE StartCommand \/ SpawnFails \/ Pass
  BY <1>1 DEF Unsignalled, StartCommand, SpawnFails, Pass
<1>2. CASE CommandEnds
  BY <1>2 DEF Unsignalled, CommandEnds
<1>3. CASE ContextEnds \/ EndsInGrace \/ KillGroup \/ EndsKilled
  BY <1>3 DEF Unsignalled, ContextEnds, EndsInGrace, KillGroup, EndsKilled
<1>4. CASE Processes \/ Stop
  BY <1>4 DEF Unsignalled, Processes, Fork, LeaderExits, HelperExits, TimerFires, Stop
<1> QED
  BY <1>1, <1>2, <1>3, <1>4 DEF GateNext, RunGate

\* A command that was told to end never counts as passed (gate.go Run, the
\* branch of ctx.Done).
THEOREM NoPassAfterSignal == Spec => []SignalledNeverPasses
<1>1. Init => Unsignalled
  BY InitGate DEF GateInit, Unsignalled
<1>2. Unsignalled /\ [Next]_vars => Unsignalled'
  BY GateFrame, UnsignalledStep DEF Unsignalled
<1>3. Unsignalled => SignalledNeverPasses
  BY DEF Unsignalled, SignalledNeverPasses
<1> QED
  BY <1>1, <1>2, <1>3, PTL DEF Spec

-----------------------------------------------------------------------------
(* Nobody writes to the output once Run has returned *)

\* A process that may not hold the output cannot hand it on.
LEMMA ForkKeepsSettled ==
  ASSUME OutputSettled, NEW kind \in HelperKinds, Fork(kind)
  PROVE  OutputSettled'
<1> SUFFICES ASSUME gate' \in {"next", "passed", "failed"}
             PROVE  leader' # "running" /\ \A h \in helpers' : ~HoldsOutput(h)'
  BY DEF OutputSettled
<1>1. gate \in {"next", "passed", "failed"} /\ leader' = leader /\ cmd' = cmd
  BY DEF Fork
<1>2. leader # "running" /\ \A h \in helpers : ~HoldsOutput(h)
  BY <1>1 DEF OutputSettled
<1>3. kind = "quiet"
  BY <1>2 DEF Fork
<1>4. \A h \in helpers' : h \in helpers \/ h[1] = "quiet"
  BY <1>3 DEF Fork
<1> QED
  BY <1>1, <1>2, <1>4 DEF HoldsOutput

LEMMA SettledStep ==
  ASSUME OutputSettled, GateNext
  PROVE  OutputSettled'
<1>1. CASE StartCommand \/ ContextEnds \/ KillGroup
  BY <1>1 DEF OutputSettled, StartCommand, ContextEnds, KillGroup
<1>2. CASE SpawnFails \/ Pass \/ TimerFires \/ Stop
  BY <1>2 DEF OutputSettled, HoldsOutput, SpawnFails, Pass, TimerFires, Stop
<1>3. CASE CommandEnds \/ EndsInGrace \/ EndsKilled
  BY <1>3 DEF OutputSettled, HoldsOutput, WaitReturned, CommandEnds, EndsInGrace, EndsKilled
<1>4. CASE \E kind \in HelperKinds : Fork(kind)
  BY <1>4, ForkKeepsSettled
<1>5. CASE LeaderExits \/ \E h \in helpers : HelperExits(h)
  BY <1>5 DEF OutputSettled, HoldsOutput, LeaderExits, HelperExits
<1> QED
  BY <1>1, <1>2, <1>3, <1>4, <1>5 DEF GateNext, RunGate, Processes

\* The buffer is read for the report only when nobody writes to it any more
\* (gate.go Run receives from done on every path).
THEOREM OutputIsSettled == Spec => []OutputSettled
<1>1. Init => OutputSettled
  BY InitGate DEF GateInit, OutputSettled
<1>2. OutputSettled /\ [Next]_vars => OutputSettled'
  BY GateFrame, SettledStep DEF OutputSettled, HoldsOutput
<1> QED
  BY <1>1, <1>2, PTL DEF Spec

-----------------------------------------------------------------------------
(* No commit disappears from the branch on GitHub *)

LEMMA RemoteGrows ==
  ASSUME [Next]_vars
  PROVE  remote \subseteq remote'
<1>1. CASE GitPush
  BY <1>1 DEF GitPush
<1>2. CASE PushElsewhere
  BY <1>2 DEF PushElsewhere
<1>3. CASE GateStep \/ MergeElsewhere \/ \E e \in {"command", "helper"} : Edit(e)
  BY <1>3 DEF GateStep, MergeElsewhere, Edit
<1>4. CASE NotAllowed \/ StartProcess \/ GitAdd \/ GitCommit \/ GitRebase \/ GhPrCreate
  BY <1>4 DEF NotAllowed, StartProcess, GitAdd, GitCommit, GitRebase, GhPrCreate
<1>5. CASE GatePasses \/ GateFails \/ Rollback
  BY <1>5 DEF GatePasses, GateFails, Rollback
<1>6. CASE UNCHANGED vars
  BY <1>6 DEF vars
<1> QED
  BY <1>1, <1>2, <1>3, <1>4, <1>5, <1>6 DEF Next, Worker, CreatePR

\* Not even between the two pushes, where the local branch is rewritten
\* (pr_creator.go CreatePR).
THEOREM RemoteKept == Spec => RemoteAppendOnly
<1>1. [Next]_vars => [remote \subseteq remote']_vars
  BY RemoteGrows
<1> QED
  BY <1>1, PTL DEF Spec, RemoteAppendOnly

-----------------------------------------------------------------------------
(* A pull request offers the whole work *)

LEMMA WorkGrows ==
  ASSUME NEW A, NEW B, A \subseteq B
  PROVE  WorkOf(A) \subseteq WorkOf(B)
  BY DEF WorkOf

LEMMA WorkOfOneMore ==
  ASSUME NEW A, NEW w, NEW b
  PROVE  WorkOf(A \cup {[work |-> w, base |-> b]}) = WorkOf(A) \cup w
<1>1. [work |-> w, base |-> b].work = w
  OBVIOUS
<1> QED
  BY <1>1 DEF WorkOf

\* A rebase moves commits and keeps what is in them.
LEMMA WorkRebased ==
  ASSUME NEW A \in SUBSET Commit, NEW m
  PROVE  WorkOf({[c EXCEPT !.base = m] : c \in A}) = WorkOf(A)
<1> DEFINE Moved(c) == [c EXCEPT !.base = m]
<1>1. \A c \in A : Moved(c).work = c.work
  BY DEF Commit
<1> HIDE DEF Moved
<1>2. WorkOf({Moved(c) : c \in A}) = WorkOf(A)
  BY <1>1 DEF WorkOf
<1> QED
  BY <1>2 DEF Moved

BranchTyped ==
  /\ tree \subseteq Edits
  /\ staged \subseteq Edits
  /\ local \subseteq Commit
  /\ main \in 0..MaxMain

LEMMA BranchTypedStep ==
  ASSUME BranchTyped, [Next]_vars
  PROVE  BranchTyped'
<1> USE DeliveryAssumption DEF BranchTyped
<1>1. CASE GitCommit
  <2>1. 0 \in 0..MaxMain
    BY DEF DeliveryAssumption
  <2>2. [work |-> staged, base |-> 0] \in Commit
    BY <2>1 DEF Commit
  <2> QED
    BY <1>1, <2>2 DEF GitCommit
<1>2. CASE GitRebase
  <2>1. \A c \in local : [c EXCEPT !.base = main] \in Commit
    BY DEF Commit
  <2> QED
    BY <1>2, <2>1 DEF GitRebase, KeepTree
<1>3. CASE MergeElsewhere
  BY <1>3 DEF MergeElsewhere, KeepTree, DeliveryAssumption
<1>4. CASE \E e \in {"command", "helper"} : Edit(e)
  BY <1>4 DEF Edit, Edits
<1>5. CASE GateStep \/ PushElsewhere \/ GatePasses \/ GateFails \/ Rollback
  BY <1>5 DEF GateStep, PushElsewhere, GatePasses, GateFails, Rollback, KeepTree
<1>6. CASE NotAllowed \/ StartProcess \/ GitAdd \/ GitPush \/ GhPrCreate
  BY <1>6 DEF NotAllowed, StartProcess, GitAdd, GitPush, GhPrCreate, KeepTree
<1>7. CASE UNCHANGED vars
  BY <1>7 DEF vars
<1> QED
  BY <1>1, <1>2, <1>3, <1>4, <1>5, <1>6, <1>7 DEF Next, Worker, CreatePR

\* Where the work that passed the gate is, step by step: in the worktree, in the
\* index, in the local branch, and then on GitHub.
WorkFollowed ==
  /\ step = "add" => checked.work \subseteq tree \cup WorkOf(local)
  /\ step = "commit" => checked.work \subseteq staged \cup WorkOf(local)
  /\ step \in {"push", "rebase", "pushAgain", "gh"} =>
       checked.work \cup staged \subseteq WorkOf(local)
  /\ step = "gh" => local \subseteq remote
  /\ OfferIsComplete

LEMMA FollowedByGit ==
  ASSUME BranchTyped, WorkFollowed, CreatePR
  PROVE  WorkFollowed'
<1> USE DEF WorkFollowed, OfferIsComplete, Goto, KeepTree
<1>1. CASE NotAllowed
  BY <1>1 DEF NotAllowed
<1>2. CASE StartProcess
  BY <1>2 DEF StartProcess, OnError, GitSteps, WorkOf
<1>3. CASE GitAdd
  BY <1>3 DEF GitAdd, WorkOf
<1>4. CASE GitCommit
  <2>1. CASE local' = local \cup {[work |-> staged, base |-> 0]} /\ staged' = staged
    <3>1. WorkOf(local') = WorkOf(local) \cup staged
      BY <2>1, WorkOfOneMore
    <3> QED
      BY <1>4, <2>1, <3>1 DEF GitCommit, WorkOf
  <2> QED
    BY <1>4, <2>1 DEF GitCommit
<1>5. CASE GitPush
  BY <1>5 DEF GitPush, OnError, WorkOf
<1>6. CASE GitRebase
  <2>1. CASE local' = {[c EXCEPT !.base = main] : c \in local}
    <3>1. WorkOf(local') = WorkOf(local)
      BY <2>1, WorkRebased DEF BranchTyped
    <3> QED
      BY <1>6, <3>1 DEF GitRebase, WorkOf
  <2> QED
    BY <1>6, <2>1 DEF GitRebase
<1>7. CASE GhPrCreate
  BY <1>7, WorkGrows DEF GhPrCreate, WorkOf
<1> QED
  BY <1>1, <1>2, <1>3, <1>4, <1>5, <1>6, <1>7 DEF CreatePR

LEMMA FollowedElsewhere ==
  ASSUME WorkFollowed, [Next]_vars, ~CreatePR
  PROVE  WorkFollowed'
<1> USE DEF WorkFollowed, OfferIsComplete, WorkOf
<1>1. CASE GateStep
  BY <1>1 DEF GateStep
<1>2. CASE \E e \in {"command", "helper"} : Edit(e)
  BY <1>2 DEF Edit, Ended
<1>3. CASE GatePasses \/ GateFails \/ Rollback
  BY <1>3 DEF GatePasses, GateFails, Rollback, Goto, KeepTree
<1>4. CASE MergeElsewhere \/ PushElsewhere
  BY <1>4 DEF MergeElsewhere, PushElsewhere, KeepTree, Ended
<1>5. CASE UNCHANGED vars
  BY <1>5 DEF vars
<1> QED
  BY <1>1, <1>2, <1>3, <1>4, <1>5 DEF Next, Worker

\* An open pull request has everything that passed the gate and everything git
\* took: no refused or lost push is passed over (pr_creator.go CreatePR).
THEOREM WholeWorkOffered == Spec => []OfferIsComplete
<1>1. Init => BranchTyped /\ WorkFollowed
  <2> SUFFICES ASSUME Init PROVE BranchTyped /\ WorkFollowed
    OBVIOUS
  <2>1. ClaudesCommit \in Commit
    BY DeliveryAssumption DEF ClaudesCommit, Commit, Edits, DeliveryAssumption
  <2> QED
    BY <2>1, DeliveryAssumption
    DEF Init, BranchTyped, WorkFollowed, OfferIsComplete, Edits, DeliveryAssumption
<1>2. BranchTyped /\ WorkFollowed /\ [Next]_vars => (BranchTyped /\ WorkFollowed)'
  BY BranchTypedStep, FollowedByGit, FollowedElsewhere
<1>3. WorkFollowed => OfferIsComplete
  BY DEF WorkFollowed
<1> QED
  BY <1>1, <1>2, <1>3, PTL DEF Spec

-----------------------------------------------------------------------------
(* Every step is one of Dispatch's worker, of its Slack button, or none *)

\* The worktree is there until the end, and what git took was not nothing from
\* the first push on; a pull request without the worker knowing takes a command
\* that broke.
Passing ==
  /\ step \in {"gate"} \cup GitSteps \cup {"rollback", "opened", "failed"}
  /\ step # "failed" => present
  /\ step \notin {"gate", "failed"} => gate = "passed"
  /\ step \in {"push", "rebase", "pushAgain", "gh"} => staged # {}
  /\ pr => step \in {"rollback", "opened", "failed"}
  /\ step = "rollback" /\ pr => MayBreak

LEMMA PassingNext ==
  ASSUME Passing, [Next]_vars
  PROVE  Passing'
<1> USE DEF Passing, GitSteps, Goto, KeepGate, KeepTree, MayBreak
<1>1. CASE GateStep
  <2>1. gate = "passed" => gate' = "passed"
    BY <1>1 DEF GateStep, GateNext, RunGate, Processes, StartCommand, SpawnFails, CommandEnds,
       ContextEnds, EndsInGrace, KillGroup, EndsKilled, Pass, Fork, LeaderExits, HelperExits,
       TimerFires, Stop
  <2>2. stopped => stopped'
    BY <1>1 DEF GateStep, GateNext, RunGate, Processes, StartCommand, SpawnFails, CommandEnds,
       ContextEnds, EndsInGrace, KillGroup, EndsKilled, Pass, Fork, LeaderExits, HelperExits,
       TimerFires, Stop
  <2> QED
    BY <1>1, <2>1, <2>2 DEF GateStep
<1>2. CASE \E e \in {"command", "helper"} : Edit(e)
  BY <1>2 DEF Edit
<1>3. CASE GatePasses \/ GateFails \/ Rollback
  BY <1>3 DEF GatePasses, GateFails, Rollback
<1>4. CASE NotAllowed \/ StartProcess
  BY <1>4 DEF NotAllowed, StartProcess, OnError
<1>5. CASE GitAdd \/ GitCommit
  BY <1>5 DEF GitAdd, GitCommit
<1>6. CASE GitPush \/ GitRebase
  BY <1>6 DEF GitPush, GitRebase, OnError
<1>7. CASE GhPrCreate
  BY <1>7 DEF GhPrCreate
<1>8. CASE MergeElsewhere \/ PushElsewhere
  BY <1>8 DEF MergeElsewhere, PushElsewhere
<1>9. CASE UNCHANGED vars
  BY <1>9 DEF vars
<1> QED
  BY <1>1, <1>2, <1>3, <1>4, <1>5, <1>6, <1>7, <1>8, <1>9 DEF Next, Worker, CreatePR

\* What Dispatch sees of a state is four things.
LEMMA NothingSeen ==
  ASSUME DispatchLabel' = DispatchLabel, DispatchWorktree' = DispatchWorktree,
         stopped' = stopped, (step = "opened")' <=> step = "opened",
         (pr /\ Ended)' <=> (pr /\ Ended)
  PROVE  (D!vars)' = D!vars
  BY DEF D!vars, D!disk, D!memory

\* Its task, in Dispatch's terms: what a stop, the gate, CreatePR and a write
\* change there.
LEMMA StopSeen ==
  ASSUME DispatchLabel' = DispatchLabel, DispatchWorktree' = DispatchWorktree,
         stopped', (step = "opened")' <=> step = "opened",
         (pr /\ Ended)' <=> (pr /\ Ended)
  PROVE  D!SlackStop("task")
  BY DEF D!SlackStop, D!Serving, D!CancelTask, D!disk, D!memory

LEMMA EditSeen ==
  ASSUME DispatchLabel = "quality", DispatchLabel' = "quality",
         DispatchWorktree = "clean", DispatchWorktree' = "dirty",
         stopped' = stopped, (step = "opened")' <=> step = "opened",
         (pr /\ Ended)' <=> (pr /\ Ended)
  PROVE  D!RunTask("worker")
<1>1. D!ClaudeEdits("worker")
  BY DEF D!ClaudeEdits, D!At, D!Serving, D!disk, D!memory
<1> QED
  BY <1>1 DEF D!RunTask

LEMMA GateSeen ==
  ASSUME DispatchLabel = "quality", DispatchLabel' \in {"pr", "failing"},
         DispatchWorktree' = DispatchWorktree,
         stopped' = stopped, (step = "opened")' <=> step = "opened",
         (pr /\ Ended)' <=> (pr /\ Ended)
  PROVE  D!RunTask("worker")
<1>1. D!QualityGate("worker")
  BY DEF D!QualityGate, D!Goto, D!At, D!Serving, D!disk, D!memory
<1> QED
  BY <1>1 DEF D!RunTask

LEMMA OfferSeen ==
  ASSUME DispatchLabel = "pr", DispatchLabel' = "markDone",
         DispatchWorktree = "dirty", DispatchWorktree' = "clean",
         ~stopped, stopped' = stopped, step # "opened", step' = "opened",
         pr', ~Ended, Ended'
  PROVE  D!RunTask("worker")
<1>1. D!CreatePR("worker")
  BY DEF D!CreatePR, D!Goto, D!At, D!Serving, D!ContextDone, D!disk, D!memory, RunningRow
<1> QED
  BY <1>1 DEF D!RunTask

LEMMA RollbackSeen ==
  ASSUME DispatchLabel = "pr", DispatchLabel' = "failing",
         \/ DispatchWorktree' = "none"
         \/ "git" \in Faults /\ DispatchWorktree' = DispatchWorktree,
         pr' => MayBreak,
         stopped' = stopped, step # "opened", step' # "opened", ~Ended, Ended'
  PROVE  D!RunTask("worker")
<1>1. D!CreatePR("worker")
  BY DEF D!CreatePR, D!Removed, D!GitMayFail, D!Goto, D!At, D!Serving, D!ContextDone,
     D!disk, D!memory, MayBreak
<1> QED
  BY <1>1 DEF D!RunTask

\* A step of the delivery shows in Dispatch as one of its own, or not at all.
Shows == (D!RunTask("worker") \/ D!SlackStop("task")) \/ (D!vars)' = D!vars

LEMMA GateShows ==
  ASSUME Passing, GateStep
  PROVE  Shows
<1>1. stopped' = stopped \/ stopped'
  BY DEF GateStep, GateNext, RunGate, Processes, StartCommand, SpawnFails, CommandEnds,
     ContextEnds, EndsInGrace, KillGroup, EndsKilled, Pass, Fork, LeaderExits, HelperExits,
     TimerFires, Stop
<1>2. gate = "passed" => gate' = "passed"
  BY DEF GateStep, GateNext, RunGate, Processes, StartCommand, SpawnFails, CommandEnds,
     ContextEnds, EndsInGrace, KillGroup, EndsKilled, Pass, Fork, LeaderExits, HelperExits,
     TimerFires, Stop
<1>3. UNCHANGED <<step, present, tree, staged, pr>> /\ ~Ended
  BY DEF GateStep
<1>4. DispatchLabel' = DispatchLabel
  BY <1>3 DEF DispatchLabel
<1>5. DispatchWorktree' = DispatchWorktree
  BY <1>2, <1>3 DEF DispatchWorktree, Passing, Ended
<1> QED
  BY <1>1, <1>3, <1>4, <1>5, NothingSeen, StopSeen DEF Shows, Ended

LEMMA EditShows ==
  ASSUME Passing, NEW e \in {"command", "helper"}, Edit(e)
  PROVE  Shows
<1>1. UNCHANGED <<step, present, staged, pr, stopped, gate>> /\ ~Ended /\ tree' # {}
  BY DEF Edit, KeepGate
<1>2. DispatchLabel' = DispatchLabel
  BY <1>1 DEF DispatchLabel
<1>3. CASE step \in {"gate", "add"}
  <2>1. DispatchLabel = "quality"
    BY <1>3 DEF DispatchLabel, GitSteps
  <2>2. DispatchWorktree' = "dirty" /\ DispatchWorktree \in {"clean", "dirty"}
    BY <1>1, <1>3 DEF DispatchWorktree, Passing
  <2> QED
    BY <1>1, <1>2, <2>1, <2>2, NothingSeen, EditSeen DEF Shows, Ended
<1>4. CASE step \notin {"gate", "add"}
  <2>1. gate = "passed"
    BY <1>1, <1>4 DEF Passing, Ended
  <2>2. DispatchWorktree' = DispatchWorktree
    BY <1>1, <1>4, <2>1 DEF DispatchWorktree
  <2> QED
    BY <1>1, <1>2, <2>2, NothingSeen DEF Shows, Ended
<1> QED
  BY <1>3, <1>4

LEMMA GateEndShows ==
  ASSUME Passing, GatePasses \/ GateFails
  PROVE  Shows
<1> USE DEF Goto, KeepGate, KeepTree
<1>1. CASE GatePasses
  <2>1. DispatchLabel = "quality" /\ DispatchLabel' = "quality"
    BY <1>1 DEF GatePasses, DispatchLabel, GitSteps
  <2>2. DispatchWorktree' = DispatchWorktree
    BY <1>1 DEF GatePasses, DispatchWorktree
  <2> QED
    BY <1>1, <2>1, <2>2, NothingSeen DEF GatePasses, Shows, Ended
<1>2. CASE GateFails
  <2>1. DispatchLabel = "quality" /\ DispatchLabel' = "failing"
    BY <1>2 DEF GateFails, DispatchLabel, GitSteps
  <2>2. DispatchWorktree' = DispatchWorktree
    BY <1>2 DEF GateFails, DispatchWorktree
  <2>3. stopped' = stopped /\ step # "opened" /\ step' # "opened" /\ ~pr /\ ~pr'
    BY <1>2 DEF GateFails, Passing
  <2> QED
    BY <2>1, <2>2, <2>3, GateSeen DEF Shows
<1> QED
  BY <1>1, <1>2

\* The commands of CreatePR between two of its labels in Dispatch.
LEMMA CommandShows ==
  ASSUME Passing, NotAllowed \/ StartProcess \/ GitAdd \/ GitCommit \/ GitPush \/ GitRebase
  PROVE  Shows
<1> USE DEF Goto, KeepGate, KeepTree
<1>1. UNCHANGED <<gate, stopped, present, pr>> /\ gate = "passed" /\ present /\ ~Ended /\ ~Ended'
  BY DEF NotAllowed, StartProcess, GitAdd, GitCommit, GitPush, GitRebase, Passing, GitSteps,
     OnError, Ended
<1>2. \/ step = "add" /\ step' \in {"commit", "rollback"} /\ staged' = tree
      \/ step' = step /\ step \in GitSteps /\ staged' = staged /\ tree' = tree
      \/ /\ step \in (GitSteps \ {"add"}) \cup {"rollback"}
         /\ step' \in (GitSteps \ {"add"}) \cup {"rollback"}
         /\ staged' = staged
  BY DEF NotAllowed, StartProcess, GitAdd, GitCommit, GitPush, GitRebase, GitSteps, OnError
<1>3. DispatchWorktree' = DispatchWorktree
  BY <1>1, <1>2 DEF DispatchWorktree, GitSteps
<1>4. DispatchLabel' = DispatchLabel \/ (DispatchLabel = "quality" /\ DispatchLabel' = "pr")
  BY <1>2 DEF DispatchLabel, GitSteps
<1> QED
  BY <1>1, <1>3, <1>4, NothingSeen, GateSeen DEF Shows, Ended

LEMMA PullRequestShows ==
  ASSUME Passing, GhPrCreate
  PROVE  Shows
<1> USE DEF Goto, KeepGate, KeepTree, GhPrCreate
<1>1. DispatchLabel = "pr" /\ DispatchWorktree = "dirty"
  BY DEF DispatchLabel, DispatchWorktree, Passing, GitSteps
<1>2. CASE step' = "opened"
  <2>1. DispatchLabel' = "markDone" /\ DispatchWorktree' = "clean"
    BY <1>2 DEF DispatchLabel, DispatchWorktree, Passing, GitSteps
  <2> QED
    BY <1>1, <1>2, <2>1, OfferSeen DEF Shows, Ended
<1>3. CASE step' = "rollback"
  <2>1. DispatchLabel' = "pr" /\ DispatchWorktree' = "dirty"
    BY <1>3 DEF DispatchLabel, DispatchWorktree, Passing, GitSteps
  <2> QED
    BY <1>1, <1>3, <2>1, NothingSeen DEF Shows, Ended
<1> QED
  BY <1>2, <1>3

LEMMA RollbackShows ==
  ASSUME Passing, Rollback
  PROVE  Shows
<1> USE DEF Goto, KeepGate, Rollback
<1>1. DispatchLabel = "pr" /\ DispatchLabel' = "failing"
  BY DEF DispatchLabel, GitSteps
<1>2. \/ DispatchWorktree' = "none"
      \/ "git" \in Faults /\ DispatchWorktree' = DispatchWorktree
  BY DEF DispatchWorktree, Passing
<1>3. pr' => MayBreak
  BY DEF Passing
<1> QED
  BY <1>1, <1>2, <1>3, RollbackSeen DEF Shows, Ended

\* The worker's steps between claude and its final write are the ones Dispatch
\* lets it take, each once and in that order, however many commands run, fail,
\* hang or are killed within one of them (gate.go Run, pr_creator.go CreatePR).
THEOREM DispatchImplemented == Spec => ImplementsDispatch
<1>1. Init => Passing
  BY DEF Init, Passing
<1>2. Passing /\ [Next]_vars => Shows
  <2>1. ASSUME UNCHANGED vars PROVE Shows
    BY <2>1, NothingSeen DEF vars, DispatchLabel, DispatchWorktree, Ended, Shows
  <2>2. ASSUME MergeElsewhere \/ PushElsewhere PROVE Shows
    <3>1. UNCHANGED <<gate, stopped, step, present, tree, staged, pr>>
      BY <2>2 DEF MergeElsewhere, PushElsewhere, KeepGate, KeepTree
    <3> QED
      BY <3>1, NothingSeen DEF DispatchLabel, DispatchWorktree, Ended, Shows
  <2> QED
    BY <2>1, <2>2, GateShows, EditShows, GateEndShows, CommandShows, PullRequestShows,
       RollbackShows DEF Next, Worker, CreatePR
<1>3. Passing /\ [Next]_vars => [D!RunTask("worker") \/ D!SlackStop("task")]_(D!vars)
  BY <1>2 DEF Shows
<1> QED
  BY <1>1, <1>3, PassingNext, PTL DEF Spec, ImplementsDispatch
=============================================================================
