------------------------------ MODULE Delivery ------------------------------
(***************************************************************************)
(* From the end of claude's run to a pull request: the quality gate, and   *)
(* then CreatePR (github/pr_creator.go) with the worktree, the branch in   *)
(* the local clone and the branch on GitHub, which other people push to.   *)
(*                                                                         *)
(* A branch is the set of its commits since the default branch; a commit   *)
(* is the edits it holds and the version of the default branch it stands   *)
(* on.  git and gh run under the worker's context: a command is not        *)
(* started when it is done, and killed at any point when it becomes so.    *)
(***************************************************************************)
EXTENDS QualityGate

CONSTANTS
  Faults,   \* "git": git and gh may fail; "allowlist": the repository is unknown
  MaxMain   \* bound on the commits that others merge to the default branch

ASSUME DeliveryAssumption == MaxMain \in Nat

Edits == {"claude", "command", "helper", "other"}

Commit == [work : SUBSET Edits, base : 0..MaxMain]

ClaudesCommit == [work |-> {"claude"}, base |-> 0]
ForeignCommit == [work |-> {"other"}, base |-> 0]

VARIABLES
  step,    \* where the worker is
  busy,    \* the git or gh process of this step has been started
  present, \* the worktree directory exists
  tree,    \* edits in it that are not committed
  staged,  \* edits that git add took, or was to take when it failed
  local,   \* commits of the local branch
  remote,  \* commits of the branch on GitHub, {} when it does not exist
  main,    \* version of the default branch on GitHub
  pr,      \* a pull request is open for the branch
  checked  \* history: the edits, and the base, that passed the gate

branchVars == <<local, remote, main, pr>>
vars == <<gate, cmd, leader, helpers, expired, stopped, signalled,
          step, busy, present, tree, staged, local, remote, main, pr, checked>>

GitSteps == {"add", "commit", "push", "rebase", "pushAgain", "gh"}

NotChecked == [work |-> {}, base |-> MaxMain + 1]

TypeOK ==
  /\ GateTypeOK
  /\ step \in {"gate"} \cup GitSteps \cup {"rollback", "opened", "failed"}
  /\ busy \in BOOLEAN /\ (busy => step \in GitSteps)
  /\ present \in BOOLEAN
  /\ tree \subseteq Edits /\ staged \subseteq Edits
  /\ local \subseteq Commit /\ remote \subseteq Commit
  /\ main \in 0..MaxMain
  /\ pr \in BOOLEAN
  /\ checked.work \subseteq Edits /\ checked.base \in 0..(MaxMain + 1)

\* Claude left edits, a commit (its prompt allows that), both or nothing; an
\* earlier try on another machine may have left the branch on GitHub.
Init ==
  /\ GateInit
  /\ step = "gate"
  /\ busy = FALSE
  /\ present = TRUE
  /\ tree \in {{}, {"claude"}}
  /\ staged = {}
  /\ local \in {{}, {ClaudesCommit}}
  /\ remote \in {{}, {ForeignCommit}}
  /\ main = 0
  /\ pr = FALSE
  /\ checked = NotChecked

WorkOf(branch) == UNION {c.work : c \in branch}

Ended == step \in {"opened", "failed"}

Goto(s) == step' = s /\ busy' = FALSE

KeepGate == UNCHANGED gateVars
KeepTree == UNCHANGED <<present, tree, staged, checked>>

\* A started command may fail, having had its effect on GitHub or not, when
\* its process is killed or its faults are on.
MayBreak == stopped \/ "git" \in Faults

-----------------------------------------------------------------------------
(* The gate and what runs in it *)

GateStep ==
  /\ ~Ended
  /\ GateNext
  /\ UNCHANGED <<step, busy, present, tree, staged, branchVars, checked>>

\* A command, or a helper that outlives it, writes to the worktree.
Edit(e) ==
  /\ ~Ended /\ present
  /\ \/ e = "command" /\ leader = "running"
     \/ e = "helper" /\ helpers # {}
  /\ tree' = tree \cup {e}
  /\ KeepGate
  /\ UNCHANGED <<step, busy, present, staged, branchVars, checked>>

GatePasses ==
  /\ step = "gate" /\ gate = "passed"
  /\ Goto("add")
  /\ checked' = [work |-> tree \cup WorkOf(local), base |-> 0]
  /\ KeepGate
  /\ UNCHANGED <<present, tree, staged, branchVars>>

\* Mutant: the worktree goes, as after a CreatePR that failed.
GateFailsRemoving ==
  /\ step = "gate" /\ gate = "failed"
  /\ Goto("failed")
  /\ present' = FALSE /\ tree' = {}
  /\ KeepGate /\ UNCHANGED <<staged, branchVars, checked>>

\* The worktree stays for inspection.
GateFails ==
  /\ step = "gate" /\ gate = "failed"
  /\ Goto("failed")
  /\ KeepGate /\ KeepTree /\ UNCHANGED branchVars

-----------------------------------------------------------------------------
(* CreatePR *)

\* A failed push is followed by a rebase, every other error ends CreatePR.
OnError == IF step = "push" THEN "rebase" ELSE "rollback"

NotAllowed ==
  /\ step = "add" /\ ~busy
  /\ "allowlist" \in Faults
  /\ Goto("rollback")
  /\ staged' = tree
  /\ KeepGate
  /\ UNCHANGED <<present, tree, branchVars, checked>>

\* exec.CommandContext does not start a process when its context is done.
StartProcess ==
  /\ step \in GitSteps /\ ~busy
  /\ IF stopped THEN Goto(OnError) ELSE busy' = TRUE /\ UNCHANGED step
  /\ staged' = IF step = "add" /\ stopped THEN tree ELSE staged
  /\ KeepGate
  /\ UNCHANGED <<present, tree, branchVars, checked>>

GitAdd ==
  /\ step = "add" /\ busy
  /\ staged' = tree
  /\ Goto("commit") \/ (MayBreak /\ Goto("rollback"))
  /\ KeepGate
  /\ UNCHANGED <<present, tree, branchVars, checked>>

\* With nothing staged git exits 1, although claude may have committed.
GitCommit ==
  /\ step = "commit" /\ busy
  /\ \/ /\ staged # {}
        /\ local' = local \cup {[work |-> staged, base |-> 0]}
        /\ tree' = tree \ staged
        /\ \/ Goto("push")
           \/ MayBreak /\ Goto("rollback")
     \/ /\ staged = {} \/ MayBreak
        /\ Goto("rollback")
        /\ UNCHANGED <<local, tree>>
  /\ KeepGate
  /\ UNCHANGED <<present, staged, remote, main, pr, checked>>

\* Mutants: push --force; the error of the second push is only logged.
GitPushForce ==
  /\ step \in {"push", "pushAgain"} /\ busy
  /\ \/ remote' = local /\ Goto("gh")
     \/ MayBreak /\ Goto(OnError) /\ remote' \in {remote, local}
  /\ KeepGate /\ KeepTree
  /\ UNCHANGED <<local, main, pr>>
GitPushIgnored ==
  /\ step \in {"push", "pushAgain"} /\ busy
  /\ \/ remote \subseteq local /\ remote' = local /\ Goto("gh")
     \/ /\ ~(remote \subseteq local) \/ MayBreak
        /\ Goto(IF step = "push" THEN "rebase" ELSE "gh")
        /\ remote' \in {remote} \cup IF remote \subseteq local THEN {local} ELSE {}
  /\ KeepGate /\ KeepTree
  /\ UNCHANGED <<local, main, pr>>

\* GitHub takes a push that loses no commit of its branch.
GitPush ==
  /\ step \in {"push", "pushAgain"} /\ busy
  /\ \/ remote \subseteq local /\ remote' = local /\ Goto("gh")
     \/ /\ ~(remote \subseteq local) \/ MayBreak
        /\ Goto(OnError)
        /\ remote' \in {remote} \cup IF remote \subseteq local THEN {local} ELSE {}
  /\ KeepGate /\ KeepTree
  /\ UNCHANGED <<local, main, pr>>

\* git pull --rebase origin <default>: onto the default branch, not onto the
\* branch that was pushed to.  Late edits and conflicts make it fail.
GitRebase ==
  /\ step = "rebase" /\ busy
  /\ \/ local' = {[c EXCEPT !.base = main] : c \in local} /\ Goto("pushAgain")
     \/ /\ MayBreak \/ tree # {} \/ main > 0
        /\ Goto("rollback") /\ UNCHANGED local
  /\ KeepGate /\ KeepTree
  /\ UNCHANGED <<remote, main, pr>>

GhPrCreate ==
  /\ step = "gh" /\ busy
  /\ \/ pr' = TRUE /\ ~stopped /\ Goto("opened")
     \/ MayBreak /\ pr' \in {pr, TRUE} /\ Goto("rollback")
  /\ KeepGate /\ KeepTree
  /\ UNCHANGED <<local, remote, main>>

\* CreatePR failed: the worker removes the worktree, without a context.
Rollback ==
  /\ step = "rollback"
  /\ Goto("failed")
  /\ \/ present' = FALSE /\ tree' = {}
     \/ "git" \in Faults /\ UNCHANGED <<present, tree>>
  /\ KeepGate
  /\ UNCHANGED <<staged, branchVars, checked>>

-----------------------------------------------------------------------------
(* Other people *)

MergeElsewhere ==
  /\ ~Ended
  /\ main < MaxMain
  /\ main' = main + 1
  /\ KeepGate /\ KeepTree
  /\ UNCHANGED <<step, busy, local, remote, pr>>

PushElsewhere ==
  /\ ~Ended
  /\ remote # {} /\ ForeignCommit \notin remote
  /\ remote' = remote \cup {ForeignCommit}
  /\ KeepGate /\ KeepTree
  /\ UNCHANGED <<step, busy, local, main, pr>>

CreatePR ==
  \/ NotAllowed \/ StartProcess
  \/ GitAdd \/ GitCommit \/ GitPush \/ GitRebase \/ GhPrCreate

Worker == GatePasses \/ GateFails \/ CreatePR \/ Rollback

Next ==
  \/ GateStep
  \/ \E e \in {"command", "helper"} : Edit(e)
  \/ Worker
  \/ MergeElsewhere \/ PushElsewhere

Spec == Init /\ [][Next]_vars
-----------------------------------------------------------------------------
(* What the delivery promises *)

\* An open pull request has the whole work of the run: what claude left in the
\* worktree or had committed, and what the commands made of it before git add.
\* A push that was refused or got lost never leads to a pull request for what
\* was on the branch before (pr_creator.go CreatePR).
OfferIsComplete ==
  step = "opened" =>
    /\ pr
    /\ WorkOf(local) \cup staged \subseteq WorkOf(remote)
    /\ checked.work \subseteq WorkOf(remote)

\* Nobody's commits disappear from the branch on GitHub, although CreatePR
\* rewrites the local one between its two pushes.
RemoteAppendOnly == [][remote \subseteq remote']_vars

-----------------------------------------------------------------------------
(* Dispatch takes the gate and CreatePR as one step each *)

DispatchLabel ==
  CASE step \in {"gate", "add"} -> "quality"
    [] step \in (GitSteps \ {"add"}) \cup {"rollback"} -> "pr"
    [] step = "opened" -> "markDone"
    [] step = "failed" -> "failing"

\* What git would commit: the worktree up to git add, from then on what it took.
DispatchWorktree ==
  LET open == IF step \in {"gate", "add"} \/ gate = "failed" THEN tree ELSE staged
  IN  CASE ~present -> "none"
        [] present /\ (open = {} \/ step = "opened") -> "clean"
        [] OTHER -> "dirty"

RunningRow == [status |-> "running", owned |-> TRUE, claimedAt |-> 1, created |-> 1,
               path |-> TRUE, pr |-> FALSE, finished |-> FALSE, ci |-> ""]

D == INSTANCE Dispatch WITH
  Tasks <- {"task"}, Repos <- {"repo"}, RepoOf <- [t \in {"task"} |-> "repo"],
  IssueOf <- [t \in {"task"} |-> 1], FixTasks <- {}, Workers <- {"worker"},
  MaxParallel <- 1, CIFixEnabled <- TRUE, ApiStops <- {}, SlackStops <- {"task"},
  LeaseExpires <- FALSE, Ties <- FALSE, MaxCrashes <- 0,
  Faults <- Faults, NoTask <- "none", NoWorker <- "nobody",
  rows <- [t \in {"task"} |-> RunningRow],
  worktree <- [t \in {"task"} |-> DispatchWorktree],
  branches <- {<<"repo", 1>>},
  prs <- IF pr /\ Ended THEN {"task"} ELSE {},
  phase <- "up",
  disp <- [pc |-> "idle", claimed |-> "none", task |-> "none", copy |-> RunningRow],
  sem <- 1,
  pc <- [g \in {"worker"} |-> DispatchLabel],
  job <- [g \in {"worker"} |-> "task"],
  mem <- [g \in {"worker"} |-> [RunningRow EXCEPT !.pr = step = "opened"]],
  cancelMap <- [t \in {"task"} |-> "worker"],
  cancelled <- IF stopped THEN {"worker"} ELSE {},
  stop <- [t \in {"task"} |-> [pc |-> "idle", copy |-> RunningRow]],
  clock <- 1, crashes <- 0, contested <- {}

\* Every step here is a step of Dispatch's worker, its Slack button or none: what
\* Dispatch lets happen in one step is what the commands make happen in many.
ImplementsDispatch == [][D!RunTask("worker") \/ D!SlackStop("task")]_(D!vars)

-----------------------------------------------------------------------------
(* Fairness and liveness *)

\* Timers fire, the kernel kills, git and gh end, and so does a process that has
\* left the group.  Nothing makes a command or a helper of its group end.
FairSpec ==
  /\ Spec
  /\ WF_vars(GateStep /\ RunGate)
  /\ WF_vars(GateStep /\ TimerFires)
  /\ \A h \in Helpers : h[1] = "escaped" => WF_vars(GateStep /\ HelperExits(h))
  /\ WF_vars(Worker)

\* The same with processes that leave the group for good.
DaemonSpec ==
  /\ Spec
  /\ WF_vars(GateStep /\ RunGate)
  /\ WF_vars(GateStep /\ TimerFires)
  /\ WF_vars(Worker)

\* However long a command hangs and whoever ignores SIGTERM, the worker gets past
\* the gate and CreatePR: the group is killed, not the shell alone.
DeliveryEnds == <>Ended
-----------------------------------------------------------------------------
(* What the documentation says and the code does not do *)

\* gate.go:3, "so broken code never reaches review": what the run offers is what
\* the commands passed on.
OfferIsChecked ==
  step = "opened" =>
    /\ WorkOf(local) \subseteq checked.work
    /\ \A c \in local : c.base = checked.base

\* claude-ops.md:95: when no pull request can be made the work is kept.
WorkKept ==
  step = "failed" /\ "claude" \in checked.work => "claude" \in tree \cup WorkOf(local)

\* feature.tmpl:19 lets claude commit and leaves the pull request to the service:
\* without faults, stops or foreign pushes, what passed the gate is offered.
CommitsAreOffered ==
  step = "failed" /\ gate = "passed" /\ ~stopped /\ Faults = {} /\ ForeignCommit \notin remote
    => checked.work = {}
=============================================================================
