------------------------------ MODULE CIWatcher ------------------------------
(***************************************************************************)
(* The CI loop: a worker hands its pull request to the watcher, which polls *)
(* the checks, gives a verdict or enqueues a ci-fix child (ci/watcher.go,   *)
(* ci/checks.go, the hook at the end of worker.go, EnqueueFixTask).         *)
(*                                                                         *)
(* The watcher is one goroutine; a gh call, a statement and a notification  *)
(* are steps of their own, between which GitHub moves and the process may   *)
(* die.  Slack messages other than the verdicts are left out.               *)
(***************************************************************************)
EXTENDS Naturals, FiniteSets

CONSTANTS
  Tasks,       \* tasks that open a pull request
  MaxAttempts, \* ci_fix.max_attempts
  PollTimeout, \* ci_fix.poll_timeout, in units of time
  Outcomes,    \* the sets of conclusions a pull request's checks may end with
  MaxHead,     \* bound on pushes: heads are numbered from 1
  Faults,      \* what may fail: "gh", "db"
  MaxCrashes,
  NoTask

Failing == {"failure", "timed_out", "cancelled"}
Green == {"success", "skipped", "neutral"}
Pending == {"pending"}    \* a check that is not completed

ASSUME CIWatcherAssumption ==
  /\ MaxAttempts \in 1..5
  /\ PollTimeout \in Nat \ {0}
  /\ MaxHead \in Nat \ {0}
  /\ Outcomes \subseteq (SUBSET (Failing \cup Green \cup {"action_required", "stale"})) \ {{}}
  /\ Faults \subseteq {"gh", "db"}
  /\ MaxCrashes \in Nat
  /\ NoTask \notin Tasks

Verdicts == {"passed", "stuck", "timeout"}    \* announced on Slack
Terminal == Verdicts \cup {"closed", "exhausted"}

VARIABLES
  pr,        \* GitHub: [open, head, checks] of each pull request
  worker,    \* running, hook (done, about to hand over), over
  ci,        \* ci_status
  headSHA,   \* head_sha; 0 is empty
  idle,      \* time since updated_at, up to PollTimeout + 1
  children,  \* ci-fix rows; copy tells rows apart that agree in the rest
  tree,      \* tasks whose worktree is on disk
  branches,  \* tasks whose branch exists in the clone
  todo,      \* ids the tick has still to process
  task,      \* the one in hand, or NoTask
  step,
  seen,      \* view.HeadRefOid
  crashes,
  told       \* history: what the last announcement found on its row: a
             \* verdict (stored), or none since the write was lost (unstored)

rows == <<ci, headSHA, idle>>
disk == <<tree, branches>>
local == <<todo, task, step, seen>>
vars == <<pr, worker, rows, children, disk, local, crashes, told>>

Child == [parent : Tasks, head : 1..MaxHead, attempt : Nat,
          status : {"queued", "running", "failed"}, copy : Nat]

TypeOK ==
  /\ \A t \in Tasks : /\ pr[t].open \in BOOLEAN /\ pr[t].head \in 1..MaxHead
                      /\ pr[t].checks \in Outcomes \cup {{}, Pending}
  /\ worker \in [Tasks -> {"running", "hook", "over"}]
  /\ ci \in [Tasks -> {"", "watching"} \cup Terminal]
  /\ \A t \in Tasks : ci[t] # "" => worker[t] = "over"
  /\ headSHA \in [Tasks -> 0..MaxHead]
  /\ idle \in [Tasks -> 0..(PollTimeout + 1)]
  /\ children \subseteq Child
  /\ tree \subseteq branches /\ branches \subseteq Tasks
  /\ todo \subseteq Tasks /\ task \in Tasks \cup {NoTask}
  /\ step \in {"idle", "view", "checks", "failure", "enqueue", "notify"}
  /\ (task = NoTask) <=> (step = "idle")
  /\ task # NoTask => task \notin todo
  /\ seen \in 0..MaxHead
  /\ crashes \in 0..MaxCrashes
  /\ told \in [Tasks -> {"never", "unstored", "stored"}]

Init ==
  /\ pr = [t \in Tasks |-> [open |-> TRUE, head |-> 1, checks |-> {}]]
  /\ worker = [t \in Tasks |-> "running"]
  /\ ci = [t \in Tasks |-> ""]
  /\ headSHA = [t \in Tasks |-> 0]
  /\ idle = [t \in Tasks |-> 0]
  /\ children = {}
  /\ tree = {} /\ branches = {}
  /\ todo = {} /\ task = NoTask /\ step = "idle" /\ seen = 0
  /\ crashes = 0
  /\ told = [t \in Tasks |-> "never"]

-----------------------------------------------------------------------------
(* GitHub and time                                                          *)

ChecksStart(t) ==
  /\ worker[t] # "running" /\ pr[t].checks = {}
  /\ pr' = [pr EXCEPT ![t].checks = Pending]
  /\ UNCHANGED <<worker, rows, children, disk, local, crashes, told>>

ChecksFinish(t) ==
  /\ pr[t].checks = Pending
  /\ \E outcome \in Outcomes : pr' = [pr EXCEPT ![t].checks = outcome]
  /\ UNCHANGED <<worker, rows, children, disk, local, crashes, told>>

\* Somebody pushes to the branch, or merges or closes the pull request.
Push(t) ==
  /\ worker[t] # "running" /\ pr[t].open /\ pr[t].head < MaxHead
  /\ pr' = [pr EXCEPT ![t].head = @ + 1, ![t].checks = {}]
  /\ UNCHANGED <<worker, rows, children, disk, local, crashes, told>>

Close(t) ==
  /\ worker[t] # "running" /\ pr[t].open
  /\ pr' = [pr EXCEPT ![t].open = FALSE]
  /\ UNCHANGED <<worker, rows, children, disk, local, crashes, told>>

Age(t) ==
  /\ idle[t] =< PollTimeout
  /\ idle' = [idle EXCEPT ![t] = @ + 1]
  /\ UNCHANGED <<pr, worker, ci, headSHA, children, disk, local, crashes, told>>

-----------------------------------------------------------------------------
(* The worker                                                               *)

\* The task's run up to "mark done", with a pull request.
MarkDone(t) ==
  /\ worker[t] = "running"
  /\ worker' = [worker EXCEPT ![t] = "hook"]
  /\ tree' = tree \cup {t} /\ branches' = branches \cup {t}
  /\ UNCHANGED <<pr, rows, children, local, crashes, told>>

\* UpdateCIStatus; its error is dropped by most callers.
UpdateCIStatus(t, status, head) ==
  \/ /\ ci' = [ci EXCEPT ![t] = status]
     /\ headSHA' = [headSHA EXCEPT ![t] = head]
     /\ idle' = [idle EXCEPT ![t] = 0]
  \/ "db" \in Faults /\ UNCHANGED rows

\* The ci-fix hook keeps the worktree and hands the row over.
Hook(t) ==
  /\ worker[t] = "hook"
  /\ worker' = [worker EXCEPT ![t] = "over"]
  /\ UpdateCIStatus(t, "watching", headSHA[t])
  /\ UNCHANGED <<pr, children, disk, local, crashes, told>>

\* A child is dispatched: its worker adds a worktree with a new branch named
\* after the issue, as the parent's worker did.
RunChild(c) ==
  /\ c.status = "queued"
  /\ children' = (children \ {c}) \cup
       {[c EXCEPT !.status = IF c.parent \in branches THEN "failed" ELSE "running"]}
  /\ UNCHANGED <<pr, worker, rows, disk, local, crashes, told>>

-----------------------------------------------------------------------------
(* The watcher                                                              *)

\* Mutant: a check that is still running is not waited for.
AggregateEarly(checks) ==
  IF checks \cap Failing # {} THEN "failed"
  ELSE IF "action_required" \in checks THEN "stuck"
  ELSE "passed"

AggregateConclusion(checks) ==
  IF checks = {} \/ "pending" \in checks THEN "watching"
  ELSE IF checks \cap Failing # {} THEN "failed"
  ELSE IF "action_required" \in checks THEN "stuck"
  ELSE "passed"

Goto(label) == step' = label /\ UNCHANGED <<todo, task>>
NextTask == task' = NoTask /\ step' = "idle" /\ UNCHANGED todo

\* Mutant: rows with a verdict are still listed.
TickAll ==
  /\ step = "idle" /\ todo = {}
  /\ todo' = {t \in Tasks : ci[t] # ""}
  /\ todo' # {}
  /\ UNCHANGED <<pr, worker, rows, children, disk, task, step, seen, crashes, told>>

Tick ==
  /\ step = "idle" /\ todo = {}
  /\ todo' = {t \in Tasks : ci[t] = "watching"}
  /\ todo' # {}
  /\ UNCHANGED <<pr, worker, rows, children, disk, task, step, seen, crashes, told>>

\* A verdict ends the watch; the row is written before anybody is told.
Conclude(status, head) ==
  /\ UpdateCIStatus(task, status, head)
  /\ IF status \in Verdicts THEN Goto("notify") ELSE NextTask

\* GetByID of the next id; the ids are taken in any order.
Load ==
  /\ step = "idle"
  /\ \E t \in todo :
       /\ todo' = todo \ {t}
       /\ \/ task' = t /\ step' = "view"
          \/ "db" \in Faults /\ UNCHANGED <<task, step>>
  /\ UNCHANGED <<pr, worker, rows, children, disk, seen, crashes, told>>

\* A row that nobody has written for too long; else gh pr view.
View ==
  /\ step = "view"
  /\ \/ /\ idle[task] > PollTimeout
        /\ Conclude("timeout", headSHA[task])
        /\ UNCHANGED seen
     \/ /\ idle[task] =< PollTimeout
        /\ \/ "gh" \in Faults /\ NextTask /\ UNCHANGED <<rows, seen>>
           \/ ~pr[task].open /\ Conclude("closed", pr[task].head) /\ UNCHANGED seen
           \/ pr[task].open /\ seen' = pr[task].head /\ Goto("checks") /\ UNCHANGED rows
  /\ UNCHANGED <<pr, worker, children, disk, crashes, told>>

\* gh pr checks.
Checks ==
  LET status == AggregateConclusion(pr[task].checks) IN
  /\ step = "checks"
  /\ \/ "gh" \in Faults /\ NextTask /\ UNCHANGED rows
     \/ status = "failed" /\ Goto("failure") /\ UNCHANGED rows
     \/ status # "failed" /\ Conclude(status, seen)
  /\ UNCHANGED <<pr, worker, children, disk, seen, crashes, told>>

\* The message goes out whether or not the verdict could be stored.
Notify ==
  /\ step = "notify"
  /\ told' = [told EXCEPT ![task] = IF ci[task] \in Verdicts THEN "stored" ELSE "unstored"]
  /\ NextTask
  /\ UNCHANGED <<pr, worker, rows, children, disk, seen, crashes>>

FixChildOf(t, head) == {c \in children : c.parent = t /\ c.head = head}

\* fix_attempt_count of the row that is watched: only children are given one.
FixAttemptCount(t) == 0

\* Mutant: a duplicate refreshes the row.
HandleFailureTouching ==
  /\ step = "failure"
  /\ \/ /\ FixChildOf(task, seen) # {}
        /\ UpdateCIStatus(task, "watching", seen)
        /\ NextTask
     \/ /\ FixChildOf(task, seen) = {} \/ "db" \in Faults
        /\ IF FixAttemptCount(task) >= MaxAttempts
             THEN Conclude("exhausted", seen)
             ELSE Goto("enqueue") /\ UNCHANGED rows
  /\ UNCHANGED <<pr, worker, children, disk, seen, crashes, told>>

\* FindFixChild, whose error counts as "none", and the attempts of the row.
HandleFailure ==
  /\ step = "failure"
  /\ \/ FixChildOf(task, seen) # {} /\ NextTask /\ UNCHANGED rows
     \/ /\ FixChildOf(task, seen) = {} \/ "db" \in Faults
        /\ IF FixAttemptCount(task) >= MaxAttempts
             THEN Conclude("exhausted", seen)
             ELSE Goto("enqueue") /\ UNCHANGED rows
  /\ UNCHANGED <<pr, worker, children, disk, seen, crashes, told>>

FixTask(copy) ==
  [parent |-> task, head |-> seen, attempt |-> FixAttemptCount(task) + 1,
   status |-> "queued", copy |-> copy]

\* Mutant: no unique index on (parent_task_id, head_sha).
EnqueueFixUnindexed ==
  /\ step = "enqueue"
  /\ children' = children \cup {FixTask(Cardinality(FixChildOf(task, seen)))}
  /\ UpdateCIStatus(task, "watching", seen)
  /\ NextTask
  /\ UNCHANGED <<pr, worker, disk, seen, crashes, told>>

\* The log is fetched, the prompt rendered, the child created: the unique index
\* on (parent_task_id, head_sha) refuses a second one.
EnqueueFix ==
  /\ step = "enqueue"
  /\ \/ /\ FixChildOf(task, seen) = {}
        /\ children' = children \cup {FixTask(0)}
        /\ UpdateCIStatus(task, "watching", seen)
     \/ /\ FixChildOf(task, seen) # {} \/ "db" \in Faults
        /\ UNCHANGED <<children, rows>>
  /\ NextTask
  /\ UNCHANGED <<pr, worker, disk, seen, crashes, told>>

\* The process dies; the rows survive.  A running task is ended by
\* RecoverOrphans, a done one whose hook did not run is never watched.
Crash ==
  /\ crashes < MaxCrashes
  /\ crashes' = crashes + 1
  /\ worker' = [t \in Tasks |-> IF worker[t] = "hook" THEN "over" ELSE worker[t]]
  /\ todo' = {} /\ task' = NoTask /\ step' = "idle" /\ seen' = 0
  /\ UNCHANGED <<pr, rows, children, disk, told>>

-----------------------------------------------------------------------------
Watcher == Tick \/ Load \/ View \/ Checks \/ Notify \/ HandleFailure \/ EnqueueFix

Next ==
  \/ \E t \in Tasks : \/ ChecksStart(t) \/ ChecksFinish(t) \/ Push(t) \/ Close(t)
                      \/ Age(t) \/ MarkDone(t) \/ Hook(t)
  \/ \E c \in children : RunChild(c)
  \/ Tick \/ Load \/ View \/ Checks \/ Notify \/ HandleFailure \/ EnqueueFix
  \/ Crash

Spec == Init /\ [][Next]_vars

\* The ticker ticks and the watcher's goroutine goes on; time passes; a worker
\* reaches its hook.
WatcherFairness ==
  /\ WF_vars(Watcher)
  /\ \A t \in Tasks : WF_vars(Age(t)) /\ WF_vars(Hook(t))

\* Checks may hang for ever.
HungSpec == Spec /\ WatcherFairness

\* Checks start and finish, and a statement does not fail for ever.
FairSpec ==
  /\ HungSpec
  /\ SF_vars(Load /\ task' # NoTask)
  /\ SF_vars(View /\ \E t \in Tasks : ci[t] = "watching" /\ ci'[t] = "timeout")
  /\ \A t \in Tasks : WF_vars(ChecksStart(t)) /\ WF_vars(ChecksFinish(t))

-----------------------------------------------------------------------------
\* At most one ci-fix task exists for a pull request and a head, also when the
\* look-up fails or the process dies half way (FindFixChild, the unique index).
OneFixPerHead ==
  \A c, d \in children : c.parent = d.parent /\ c.head = d.head => c = d

\* Nobody announces a verdict again after an announcement that found it on its
\* row, which has left ListWatchingIDs (the row is written first).  Every
\* announcement counts: one is repeated only while each before it stood for a
\* verdict whose write was lost; a crash may swallow the last.
ToldOnceStored == step = "notify" => told[task] # "stored"

\* A row is passed only when, at the poll that said so, every check had
\* completed and none had failed or was stale (AggregateConclusion).
PassedMeansGreen ==
  [][\A t \in Tasks : ci[t] # "passed" /\ ci'[t] = "passed"
       => pr[t].checks # {} /\ pr[t].checks \subseteq Green]_vars

\* Every watch ends, whatever the checks say and however often gh fails: a
\* verdict, a close, or the poll timeout once nothing refreshes the row.
WatchEnds == \A t \in Tasks : ci[t] = "watching" ~> ci[t] # "watching"

\* ci-fix-loop.md:99: a verdict is stored and polling ends, and Slack is told: what
\* is announced is on the row.
AnnouncedIsStored == step = "notify" => ci[task] \in Verdicts

\* A pull request gets at most MaxAttempts fixes (handleFailure).
FixesBounded == \A t \in Tasks : Cardinality({c \in children : c.parent = t}) =< MaxAttempts

\* A ci-fix task gets as far as claude: its worktree can be entered
\* (EnqueueFixTask, createWorktree).
FixReachesClaude == \A c \in children : c.status # "failed"

\* The worktree of a watched task is removed once the watch is over (the hook
\* leaves it to the watcher).
WorktreeFreed == \A t \in Tasks : ci[t] \in Terminal ~> t \notin tree
=============================================================================
