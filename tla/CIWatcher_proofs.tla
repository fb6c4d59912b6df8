--------------------------- MODULE CIWatcher_proofs ---------------------------
(***************************************************************************)
(* What the CI loop promises, for every set of pull requests, every number *)
(* of pushes and crashes and whatever fails: one fix for a head, no message *)
(* after one whose verdict is on the row, and no green verdict for checks   *)
(* that are not.                                                           *)
(***************************************************************************)
EXTENDS CIWatcher, TLAPS

USE DEF rows, disk, local

InHand == {"view", "checks", "failure", "enqueue"}

PullRequest == [open : BOOLEAN, head : 1..MaxHead, checks : Outcomes \cup {{}, Pending}]

\* TypeOK with the records spelled out, and the head a poll has seen.
Typed ==
  /\ pr \in [Tasks -> PullRequest]
  /\ worker \in [Tasks -> {"running", "hook", "over"}]
  /\ ci \in [Tasks -> {"", "watching"} \cup Terminal]
  /\ headSHA \in [Tasks -> 0..MaxHead]
  /\ idle \in [Tasks -> 0..(PollTimeout + 1)]
  /\ children \subseteq Child
  /\ tree \subseteq branches /\ branches \subseteq Tasks
  /\ todo \subseteq Tasks /\ task \in Tasks \cup {NoTask}
  /\ step \in {"idle", "notify"} \cup InHand
  /\ (task = NoTask) <=> (step = "idle")
  /\ task # NoTask => task \notin todo
  /\ seen \in 0..MaxHead
  /\ step \in InHand \ {"view"} => seen # 0
  /\ crashes \in 0..MaxCrashes
  /\ told \in [Tasks -> {"never", "unstored", "stored"}]

LEMMA Bounds == MaxHead \in Nat \ {0} /\ PollTimeout \in Nat \ {0} /\ MaxCrashes \in Nat
  BY CIWatcherAssumption DEF CIWatcherAssumption

LEMMA TypedInit == Init => Typed
<1> SUFFICES ASSUME Init PROVE Typed
  OBVIOUS
<1>1. [open |-> TRUE, head |-> 1, checks |-> {}] \in PullRequest
  BY Bounds DEF PullRequest
<1>2. /\ headSHA \in [Tasks -> 0..MaxHead] /\ seen \in 0..MaxHead
      /\ crashes \in 0..MaxCrashes
  <2>1. 0 \in 0..MaxHead /\ 0 \in 0..MaxCrashes
    BY Bounds
  <2> QED
    BY <2>1 DEF Init
<1>3. idle \in [Tasks -> 0..(PollTimeout + 1)]
  <2>1. 0 \in 0..(PollTimeout + 1)
    BY Bounds
  <2> QED
    BY <2>1 DEF Init
<1>4. pr \in [Tasks -> PullRequest]
  BY <1>1 DEF Init
<1>5. ci \in [Tasks -> {"", "watching"} \cup Terminal] /\ told \in [Tasks -> {"never", "unstored", "stored"}]
  BY DEF Init
<1>6. worker \in [Tasks -> {"running", "hook", "over"}]
  BY DEF Init
<1>7. children \subseteq Child /\ tree \subseteq branches /\ branches \subseteq Tasks
  BY DEF Init
<1>8. todo \subseteq Tasks /\ task = NoTask /\ step = "idle"
  BY DEF Init
<1>9. /\ step \in {"idle", "notify"} \cup InHand
      /\ (task = NoTask) <=> (step = "idle")
      /\ step \in InHand \ {"view"} => seen # 0
  BY <1>8 DEF InHand
<1> QED
  BY <1>2, <1>3, <1>4, <1>5, <1>6, <1>7, <1>8, <1>9 DEF Typed

-----------------------------------------------------------------------------
(* One lemma for what each actor leaves alone and keeps typed               *)

\* GitHub, time and the worker.
LEMMA OutsideTyped ==
  ASSUME Typed, NEW t \in Tasks,
         \/ ChecksStart(t) \/ ChecksFinish(t) \/ Push(t) \/ Close(t)
         \/ Age(t) \/ MarkDone(t)
  PROVE  Typed' /\ UNCHANGED <<ci, headSHA, children, local, told>>
<1>0. pr[t] \in PullRequest
  BY DEF Typed
<1>1. CASE ChecksStart(t)
  <2>1. [pr[t] EXCEPT !.checks = Pending] \in PullRequest
    BY <1>0 DEF PullRequest
  <2> QED
    BY <1>1, <2>1 DEF Typed, ChecksStart
<1>2. CASE ChecksFinish(t)
  <2>1. PICK outcome \in Outcomes : pr' = [pr EXCEPT ![t].checks = outcome]
    BY <1>2 DEF ChecksFinish
  <2>2. [pr[t] EXCEPT !.checks = outcome] \in PullRequest
    BY <1>0 DEF PullRequest
  <2> QED
    BY <1>2, <2>1, <2>2 DEF Typed, ChecksFinish
<1>3. CASE Push(t)
  <2>0. pr[t].head \in 1..MaxHead /\ pr[t].head < MaxHead
    BY <1>0, <1>3 DEF Push, PullRequest
  <2>. pr[t].head + 1 \in 1..MaxHead
    BY <2>0, Bounds
  <2>1. [pr[t] EXCEPT !.head = pr[t].head + 1, !.checks = {}] \in PullRequest
    BY <1>0 DEF PullRequest
  <2>2. pr' = [pr EXCEPT ![t] = [pr[t] EXCEPT !.head = pr[t].head + 1, !.checks = {}]]
    BY <1>0, <1>3 DEF Push, PullRequest, Typed
  <2>3. pr' \in [Tasks -> PullRequest]
    BY <2>1, <2>2 DEF Typed
  <2>4. UNCHANGED <<worker, rows, children, disk, local, crashes, told>>
    BY <1>3 DEF Push
  <2> QED
    BY <2>3, <2>4 DEF Typed
<1>4. CASE Close(t)
  <2>1. [pr[t] EXCEPT !.open = FALSE] \in PullRequest
    BY <1>0 DEF PullRequest
  <2> QED
    BY <1>4, <2>1 DEF Typed, Close
<1>5. CASE Age(t)
  <2>0. idle[t] \in 0..(PollTimeout + 1) /\ idle[t] =< PollTimeout
    BY <1>5 DEF Age, Typed
  <2>1. idle[t] + 1 \in 0..(PollTimeout + 1)
    BY <2>0, Bounds
  <2> QED
    BY <1>5, <2>1 DEF Typed, Age
<1>6. CASE MarkDone(t)
  BY <1>6 DEF Typed, MarkDone
<1> QED
  BY <1>1, <1>2, <1>3, <1>4, <1>5, <1>6

\* A statement that succeeds writes one row, one that fails none.
LEMMA UpdateTyped ==
  ASSUME Typed, NEW t \in Tasks, NEW status \in {"watching"} \cup Terminal,
         NEW head \in 0..MaxHead, UpdateCIStatus(t, status, head)
  PROVE  /\ ci' \in [Tasks -> {"", "watching"} \cup Terminal]
         /\ headSHA' \in [Tasks -> 0..MaxHead]
         /\ idle' \in [Tasks -> 0..(PollTimeout + 1)]
         /\ \/ UNCHANGED ci
            \/ ci' = [ci EXCEPT ![t] = status]
<1>1. 0 \in 0..(PollTimeout + 1)
  BY Bounds
<1> QED
  BY <1>1 DEF Typed, UpdateCIStatus

LEMMA HookTyped ==
  ASSUME Typed, NEW t \in Tasks, Hook(t)
  PROVE  /\ Typed' /\ UNCHANGED <<children, local, told>>
         /\ worker[t] = "hook"
         /\ UNCHANGED ci \/ ci' = [ci EXCEPT ![t] = "watching"]
         /\ worker' = [worker EXCEPT ![t] = "over"]
<1>1. headSHA[t] \in 0..MaxHead
  BY DEF Typed
<1>2. UpdateCIStatus(t, "watching", headSHA[t])
  BY DEF Hook
<1> QED
  BY <1>1, <1>2, UpdateTyped DEF Hook, Typed

LEMMA RunChildTyped ==
  ASSUME Typed, NEW c \in children, RunChild(c)
  PROVE  /\ Typed' /\ UNCHANGED <<ci, worker, local, told>>
         /\ \E d \in Child : /\ d.parent = c.parent /\ d.head = c.head
                             /\ children' = (children \ {c}) \cup {d}
<1> DEFINE d == [c EXCEPT !.status = IF c.parent \in branches THEN "failed" ELSE "running"]
<1>1. c \in Child
  BY DEF Typed
<1>2. d \in Child /\ d.parent = c.parent /\ d.head = c.head
  BY <1>1 DEF Child
<1>3. children' = (children \ {c}) \cup {d}
  BY DEF RunChild
<1>4. UNCHANGED <<pr, worker, rows, disk, local, crashes, told>>
  BY DEF RunChild
<1> QED
  BY <1>2, <1>3, <1>4 DEF Typed

\* A verdict, a close or another poll: one row at most, and the task leaves the
\* hand unless somebody is to be told.
LEMMA ConcludeTyped ==
  ASSUME Typed, step \in InHand,
         NEW status \in {"watching"} \cup Terminal, NEW head \in 0..MaxHead,
         Conclude(status, head), UNCHANGED <<pr, worker, children, disk, crashes, told>>,
         seen' \in 0..MaxHead
  PROVE  /\ Typed'
         /\ UNCHANGED ci \/ ci' = [ci EXCEPT ![task] = status]
         /\ UNCHANGED todo
         /\ IF status \in Verdicts THEN step' = "notify" /\ task' = task
                                   ELSE step' = "idle" /\ task' = NoTask
<1>1. task \in Tasks /\ NoTask \notin Tasks
  BY CIWatcherAssumption DEF Typed, InHand, CIWatcherAssumption
<1>2. UpdateCIStatus(task, status, head)
  BY DEF Conclude
<1>3. /\ UNCHANGED todo
      /\ IF status \in Verdicts THEN step' = "notify" /\ task' = task
                                ELSE step' = "idle" /\ task' = NoTask
  BY DEF Conclude, Goto, NextTask
<1> QED
  BY <1>1, <1>2, <1>3, UpdateTyped DEF Typed, InHand

LEMMA PullRequestHead == Typed => \A t \in Tasks : pr[t].head \in 0..MaxHead /\ pr[t].head # 0
<1> SUFFICES ASSUME Typed, NEW t \in Tasks
             PROVE  pr[t].head \in 0..MaxHead /\ pr[t].head # 0
  OBVIOUS
<1>1. pr[t].head \in 1..MaxHead
  BY DEF Typed, PullRequest
<1> QED
  BY <1>1, Bounds

LEMMA HandTyped == Typed /\ step # "idle" => task \in Tasks
  BY DEF Typed

LEMMA AggregateTyped ==
  \A checks : AggregateConclusion(checks) \in {"watching", "failed", "stuck", "passed"}
  BY DEF AggregateConclusion

\* What a poll does to the watch: it stores a status for the task in hand, or
\* goes on with it, or lets it go.
Concludes(status) ==
  /\ UNCHANGED ci \/ ci' = [ci EXCEPT ![task] = status]
  /\ IF status \in Verdicts THEN step' = "notify" /\ task' = task
                            ELSE step' = "idle" /\ task' = NoTask
GoesOn ==
  /\ UNCHANGED ci
  /\ \/ step' \in InHand /\ task' = task
     \/ step' = "idle" /\ task' = NoTask

LEMMA ViewTyped ==
  ASSUME Typed, View
  PROVE  /\ Typed' /\ UNCHANGED <<worker, children, todo, told>>
         /\ (\E status \in {"timeout", "closed"} : Concludes(status)) \/ GoesOn
<1>0. step = "view" /\ step \in InHand /\ task \in Tasks
  BY HandTyped DEF View, InHand
<1>1. CASE Conclude("timeout", headSHA[task]) /\ UNCHANGED seen
  <2>1. headSHA[task] \in 0..MaxHead /\ seen' \in 0..MaxHead
    BY <1>0, <1>1 DEF Typed
  <2> QED
    BY <1>0, <1>1, <2>1, ConcludeTyped DEF View, Concludes, Terminal, Verdicts
<1>2. CASE Conclude("closed", pr[task].head) /\ UNCHANGED seen
  <2>1. pr[task].head \in 0..MaxHead /\ seen' \in 0..MaxHead
    BY <1>0, <1>2, PullRequestHead DEF Typed
  <2> QED
    BY <1>0, <1>2, <2>1, ConcludeTyped DEF View, Concludes, Terminal, Verdicts
<1>3. CASE NextTask /\ UNCHANGED <<rows, seen>>
  BY <1>0, <1>3, CIWatcherAssumption DEF View, NextTask, Typed, GoesOn, InHand, CIWatcherAssumption
<1>4. CASE seen' = pr[task].head /\ Goto("checks") /\ UNCHANGED rows
  BY <1>0, <1>4, PullRequestHead DEF View, Goto, Typed, GoesOn, InHand
<1> QED
  BY <1>1, <1>2, <1>3, <1>4 DEF View

LEMMA ChecksTyped ==
  ASSUME Typed, Checks
  PROVE  /\ Typed' /\ UNCHANGED <<worker, children, todo, told>>
         /\ \/ /\ AggregateConclusion(pr[task].checks) # "failed"
               /\ Concludes(AggregateConclusion(pr[task].checks))
            \/ GoesOn
<1> DEFINE status == AggregateConclusion(pr[task].checks)
<1>0. step = "checks" /\ step \in InHand /\ task \in Tasks /\ seen \in 0..MaxHead
  BY HandTyped DEF Checks, InHand, Typed
<1>1. CASE status # "failed" /\ Conclude(status, seen)
  <2>1. status \in {"watching"} \cup Terminal
    BY <1>1, AggregateTyped DEF Terminal, Verdicts
  <2>2. UNCHANGED <<pr, worker, children, disk, seen, crashes, told>>
    BY DEF Checks
  <2> HIDE DEF status
  <2>3. Typed' /\ Concludes(status) /\ UNCHANGED todo
    BY <1>0, <1>1, <2>1, <2>2, ConcludeTyped DEF Concludes
  <2> QED
    BY <1>1, <2>2, <2>3 DEF status
<1>2. CASE NextTask /\ UNCHANGED rows
  BY <1>0, <1>2, CIWatcherAssumption DEF Checks, NextTask, Typed, GoesOn, InHand, CIWatcherAssumption
<1>3. CASE Goto("failure") /\ UNCHANGED rows
  BY <1>0, <1>3 DEF Checks, Goto, Typed, GoesOn, InHand
<1> QED
  BY <1>1, <1>2, <1>3 DEF Checks

LEMMA HandleFailureTyped ==
  ASSUME Typed, HandleFailure
  PROVE  /\ Typed' /\ UNCHANGED <<worker, children, todo, told>>
         /\ Concludes("exhausted") \/ GoesOn
<1>0. step = "failure" /\ step \in InHand /\ task \in Tasks /\ seen \in 0..MaxHead
  BY HandTyped DEF HandleFailure, InHand, Typed
<1>1. CASE Conclude("exhausted", seen)
  BY <1>0, <1>1, ConcludeTyped DEF HandleFailure, Concludes, Terminal, Verdicts
<1>2. CASE NextTask /\ UNCHANGED rows
  BY <1>0, <1>2, CIWatcherAssumption DEF HandleFailure, NextTask, Typed, GoesOn, InHand, CIWatcherAssumption
<1>3. CASE Goto("enqueue") /\ UNCHANGED rows
  BY <1>0, <1>3 DEF HandleFailure, Goto, Typed, GoesOn, InHand
<1> QED
  BY <1>1, <1>2, <1>3 DEF HandleFailure

LEMMA EnqueueFixTyped ==
  ASSUME Typed, EnqueueFix
  PROVE  /\ Typed' /\ UNCHANGED <<worker, todo, told>>
         /\ Concludes("watching")
         /\ \/ UNCHANGED children
            \/ /\ FixChildOf(task, seen) = {}
               /\ \E d \in Child : /\ d.parent = task /\ d.head = seen
                                   /\ children' = children \cup {d}
<1>0. /\ step = "enqueue" /\ step \in InHand /\ task \in Tasks
      /\ seen \in 0..MaxHead /\ seen # 0
  BY HandTyped DEF EnqueueFix, InHand, Typed
<1>1. FixTask(0) \in Child /\ FixTask(0).parent = task /\ FixTask(0).head = seen
  BY <1>0, Bounds DEF FixTask, Child, FixAttemptCount
<1>2. /\ NextTask /\ UNCHANGED <<pr, worker, disk, seen, crashes, told>>
      /\ \/ UNCHANGED <<children, rows>>
         \/ /\ FixChildOf(task, seen) = {}
            /\ children' = children \cup {FixTask(0)}
            /\ UpdateCIStatus(task, "watching", seen)
  BY DEF EnqueueFix
<1>3. Concludes("watching") /\ UNCHANGED todo
  BY <1>0, <1>2, UpdateTyped DEF NextTask, Concludes, Verdicts
<1>4. children' \subseteq Child
  BY <1>1, <1>2 DEF Typed
<1>5. /\ ci' \in [Tasks -> {"", "watching"} \cup Terminal]
      /\ headSHA' \in [Tasks -> 0..MaxHead]
      /\ idle' \in [Tasks -> 0..(PollTimeout + 1)]
  BY <1>0, <1>2, UpdateTyped DEF Typed
<1>6. Typed'
  BY <1>0, <1>2, <1>4, <1>5, CIWatcherAssumption DEF Typed, NextTask, InHand, CIWatcherAssumption
<1> QED
  BY <1>1, <1>2, <1>3, <1>6

LEMMA OthersTyped ==
  ASSUME Typed, Tick \/ Load \/ Notify \/ Crash \/ UNCHANGED vars
  PROVE  Typed' /\ UNCHANGED <<ci, children>>
<1>0. NoTask \notin Tasks /\ 0 \in 0..MaxHead
  BY CIWatcherAssumption, Bounds DEF CIWatcherAssumption
<1>1. CASE Tick
  BY <1>1 DEF Tick, Typed
<1>2. CASE Load
  <2>1. PICK t \in todo : /\ todo' = todo \ {t}
                          /\ \/ task' = t /\ step' = "view"
                             \/ UNCHANGED <<task, step>>
    BY <1>2 DEF Load
  <2> QED
    BY <1>0, <1>2, <2>1 DEF Load, Typed, InHand
<1>3. CASE Notify
  <2>1. told' \in [Tasks -> {"never", "unstored", "stored"}]
    BY <1>3 DEF Notify, Typed
  <2> QED
    BY <1>0, <1>3, <2>1 DEF Notify, NextTask, Typed, InHand
<1>4. CASE Crash
  <2>1. crashes' \in 0..MaxCrashes
    <3>1. crashes < MaxCrashes /\ crashes' = crashes + 1
      BY <1>4 DEF Crash
    <3>2. crashes \in 0..MaxCrashes
      BY DEF Typed
    <3> QED
      BY <3>1, <3>2, Bounds
  <2>2. worker' \in [Tasks -> {"running", "hook", "over"}]
    BY <1>4 DEF Crash, Typed
  <2> QED
    BY <1>0, <1>4, <2>1, <2>2 DEF Crash, Typed, InHand
<1>5. CASE UNCHANGED vars
  BY <1>5 DEF vars, Typed
<1> QED
  BY <1>1, <1>2, <1>3, <1>4, <1>5

\* The actions of Next, by the lemma that speaks of them.
LEMMA StepKinds ==
  ASSUME [Next]_vars
  PROVE  \/ \E t \in Tasks : \/ ChecksStart(t) \/ ChecksFinish(t) \/ Push(t) \/ Close(t)
                             \/ Age(t) \/ MarkDone(t)
         \/ \E t \in Tasks : Hook(t)
         \/ \E c \in children : RunChild(c)
         \/ View \/ Checks \/ HandleFailure \/ EnqueueFix
         \/ Tick \/ Load \/ Notify \/ Crash \/ UNCHANGED vars
  BY DEF Next

LEMMA TypedNext == Typed /\ [Next]_vars => Typed'
<1> SUFFICES ASSUME Typed, [Next]_vars
             PROVE  Typed'
  OBVIOUS
<1>1. CASE \E t \in Tasks : \/ ChecksStart(t) \/ ChecksFinish(t) \/ Push(t) \/ Close(t)
                            \/ Age(t) \/ MarkDone(t)
  BY <1>1, OutsideTyped
<1>2. CASE \E t \in Tasks : Hook(t)
  BY <1>2, HookTyped
<1>3. CASE \E c \in children : RunChild(c)
  BY <1>3, RunChildTyped
<1>4. CASE View \/ Checks \/ HandleFailure \/ EnqueueFix
  BY <1>4, ViewTyped, ChecksTyped, HandleFailureTyped, EnqueueFixTyped
<1>5. CASE Tick \/ Load \/ Notify \/ Crash \/ UNCHANGED vars
  BY <1>5, OthersTyped
<1> QED
  BY <1>1, <1>2, <1>3, <1>4, <1>5, StepKinds

LEMMA TypedAlways == Spec => []Typed
  BY TypedInit, TypedNext, PTL DEF Spec

-----------------------------------------------------------------------------
(* One fix for a pull request and a head                                    *)

LEMMA OneFixNext == Typed /\ OneFixPerHead /\ [Next]_vars => OneFixPerHead'
<1> SUFFICES ASSUME Typed, OneFixPerHead, [Next]_vars
             PROVE  OneFixPerHead'
  OBVIOUS
<1> USE DEF OneFixPerHead
<1>1. CASE \E c \in children : RunChild(c)
  <2>1. PICK c \in children, d \in Child :
             /\ d.parent = c.parent /\ d.head = c.head
             /\ children' = (children \ {c}) \cup {d}
    BY <1>1, RunChildTyped
  <2> QED
    BY <2>1
<1>2. CASE EnqueueFix
  <2>1. CASE /\ FixChildOf(task, seen) = {}
             /\ \E d \in Child : /\ d.parent = task /\ d.head = seen
                                 /\ children' = children \cup {d}
    BY <2>1 DEF FixChildOf
  <2> QED
    BY <1>2, <2>1, EnqueueFixTyped
<1>3. CASE UNCHANGED children
  BY <1>3
<1>4. UNCHANGED children \/ EnqueueFix \/ \E c \in children : RunChild(c)
  BY StepKinds, OutsideTyped, HookTyped, ViewTyped, ChecksTyped, HandleFailureTyped, OthersTyped
<1> QED
  BY <1>1, <1>2, <1>3, <1>4

\* At most one ci-fix task exists for a pull request and a head, whatever the
\* look-up says and wherever the process dies (FindFixChild, the unique index
\* on parent_task_id and head_sha).
THEOREM FixesAreUnique == Spec => []OneFixPerHead
<1>1. Init => OneFixPerHead
  BY DEF Init, OneFixPerHead
<1> QED
  BY <1>1, TypedAlways, OneFixNext, PTL DEF Spec

-----------------------------------------------------------------------------
(* No message after one whose verdict is stored                             *)

\* Only the row of a worker that is over has a CI status; the tick works on
\* rows that are watched until it writes their verdict; a verdict that was
\* announced and stored stays on the row, and the row out of hand.
Watched ==
  /\ \A t \in Tasks : ci[t] # "" => worker[t] = "over"
  /\ \A t \in todo : ci[t] = "watching"
  /\ step \in InHand => ci[task] = "watching"
  /\ \A t \in Tasks : told[t] = "stored" => ci[t] \in Verdicts /\ task # t

LEMMA WatchedConcludes ==
  ASSUME Typed, Watched, step \in InHand, NEW status \in {"watching"} \cup Terminal,
         Concludes(status) \/ GoesOn, UNCHANGED <<worker, todo, told>>
  PROVE  Watched'
<1>1. task \in Tasks /\ NoTask \notin Tasks /\ task \notin todo /\ ci[task] = "watching"
  BY CIWatcherAssumption DEF Typed, InHand, Watched, CIWatcherAssumption
<1>2. told[task] # "stored" /\ worker[task] = "over"
  BY <1>1 DEF Watched, Verdicts
<1>3. \A t \in Tasks : t # task => ci'[t] = ci[t]
  BY DEF Concludes, GoesOn, Typed
<1>4. \A t \in Tasks : ci'[t] # "" => worker'[t] = "over"
  BY <1>1, <1>2, <1>3 DEF Watched
<1>5. \A t \in todo' : ci'[t] = "watching"
  BY <1>1, <1>3 DEF Watched, Typed
<1>6. step' \in InHand => ci'[task'] = "watching"
  BY <1>1 DEF Concludes, GoesOn, InHand
<1>7. \A t \in Tasks : told'[t] = "stored" => ci'[t] \in Verdicts /\ task' # t
  BY <1>1, <1>2, <1>3 DEF Watched, Concludes, GoesOn
<1> QED
  BY <1>4, <1>5, <1>6, <1>7 DEF Watched

LEMMA WatchedNext == Typed /\ Watched /\ [Next]_vars => Watched'
<1> SUFFICES ASSUME Typed, Watched, [Next]_vars
             PROVE  Watched'
  OBVIOUS
<1>0. NoTask \notin Tasks
  BY CIWatcherAssumption DEF CIWatcherAssumption
<1>1. ASSUME NEW t \in Tasks,
             \/ ChecksStart(t) \/ ChecksFinish(t) \/ Push(t) \/ Close(t)
             \/ Age(t) \/ MarkDone(t)
      PROVE  Watched'
  <2>1. UNCHANGED <<ci, local, told>>
    BY <1>1, OutsideTyped
  <2>2. \A u \in Tasks : worker[u] = "over" => worker'[u] = "over"
    BY <1>1 DEF Typed, ChecksStart, ChecksFinish, Push, Close, Age, MarkDone
  <2> QED
    BY <2>1, <2>2 DEF Watched
<1>2. ASSUME NEW t \in Tasks, Hook(t)
      PROVE  Watched'
  <2>1. ci[t] = "" /\ told[t] # "stored"
    BY <1>2, HookTyped DEF Watched, Verdicts
  <2>2. /\ UNCHANGED <<local, told>>
        /\ UNCHANGED ci \/ ci' = [ci EXCEPT ![t] = "watching"]
        /\ worker' = [worker EXCEPT ![t] = "over"]
    BY <1>2, HookTyped
  <2>3. \A u \in Tasks : (u # t => ci'[u] = ci[u]) /\ (worker[u] = "over" => worker'[u] = "over")
    BY <2>2 DEF Typed
  <2>4. worker'[t] = "over" /\ t \notin todo /\ (step \in InHand => task # t)
    BY <2>1, <2>2 DEF Typed, Watched
  <2>5. step \in InHand => task \in Tasks
    BY DEF Typed, InHand
  <2> QED
    BY <2>1, <2>2, <2>3, <2>4, <2>5 DEF Watched, Typed
<1>3. CASE \E c \in children : RunChild(c)
  BY <1>3, RunChildTyped DEF Watched
<1>4. CASE View \/ Checks \/ HandleFailure \/ EnqueueFix
  <2>1. step \in InHand
    BY <1>4 DEF View, Checks, HandleFailure, EnqueueFix, InHand
  <2>2. /\ UNCHANGED <<worker, todo, told>>
        /\ (\E status \in {"watching"} \cup Terminal : Concludes(status)) \/ GoesOn
    <3>1. CASE Checks
      <4>1. \/ AggregateConclusion(pr[task].checks) \in {"watching"} \cup Terminal
            \/ AggregateConclusion(pr[task].checks) = "failed"
        BY AggregateTyped DEF Terminal, Verdicts
      <4> QED
        BY <3>1, <4>1, ChecksTyped
    <3> QED
      BY <1>4, <3>1, ViewTyped, HandleFailureTyped, EnqueueFixTyped DEF Terminal, Verdicts
  <2> QED
    BY <2>1, <2>2, WatchedConcludes
<1>5. CASE Tick
  BY <1>5 DEF Tick, Watched, InHand
<1>6. CASE Load
  <2>1. PICK t \in todo : /\ todo' = todo \ {t}
                          /\ \/ task' = t /\ step' = "view"
                             \/ UNCHANGED <<task, step>>
    BY <1>6 DEF Load
  <2>2. t \in Tasks /\ ci[t] = "watching" /\ told[t] # "stored"
    BY <2>1 DEF Watched, Typed, Verdicts
  <2> QED
    BY <1>6, <2>1, <2>2 DEF Load, Watched
<1>7. CASE Notify
  <2>1. task \in Tasks
    BY <1>7, HandTyped DEF Notify
  <2>2. /\ told'[task] = "stored" => ci[task] \in Verdicts
        /\ \A t \in Tasks \ {task} : told'[t] = told[t]
    BY <1>7, <2>1 DEF Notify, Typed
  <2>3. task' = NoTask /\ step' = "idle" /\ UNCHANGED <<ci, worker, todo>>
    BY <1>7 DEF Notify, NextTask
  <2> QED
    BY <1>0, <2>1, <2>2, <2>3 DEF Watched, Typed, InHand
<1>8. CASE Crash
  <2>1. \A t \in Tasks : worker[t] = "over" => worker'[t] = "over"
    BY <1>8 DEF Crash
  <2> QED
    BY <1>0, <1>8, <2>1 DEF Crash, Watched, InHand
<1>9. CASE UNCHANGED vars
  BY <1>9 DEF vars, Watched
<1> QED
  BY <1>1, <1>2, <1>3, <1>4, <1>5, <1>6, <1>7, <1>8, <1>9, StepKinds

LEMMA WatchedAlways == Spec => []Watched
<1>1. Init => Watched
  BY DEF Init, Watched, InHand
<1> QED
  BY <1>1, TypedAlways, WatchedNext, PTL DEF Spec

\* Every announcement counts, those included whose verdict was not stored.  One
\* is repeated only as long as each before it stood for a verdict whose write was
\* lost (watcher.go:191): once an announced verdict is on the row the row has left
\* ListWatchingIDs, and no failure, crash or push brings it back to the tick.
THEOREM NoneAfterAStoredVerdict == Spec => []ToldOnceStored
<1>1. Typed /\ Watched => ToldOnceStored
  <2> SUFFICES ASSUME Typed, Watched, step = "notify"
               PROVE  told[task] # "stored"
    BY DEF ToldOnceStored
  <2>1. task \in Tasks
    BY HandTyped
  <2> QED
    BY <2>1 DEF Watched
<1> QED
  BY <1>1, TypedAlways, WatchedAlways, PTL

-----------------------------------------------------------------------------
(* Passed means green                                                       *)

\* No check is ever marked stale (GitHub does so after 14 days); without this
\* the verdict may be wrong, as the run MCCIWatcher_stale shows.
NoStale == \A outcome \in Outcomes : "stale" \notin outcome

\* The order of the tests in AggregateConclusion leaves only green ones.
LEMMA PassedChecks ==
  ASSUME NoStale, NEW checks \in Outcomes \cup {{}, Pending},
         AggregateConclusion(checks) = "passed"
  PROVE  checks # {} /\ checks \subseteq Green
<1>1. /\ checks # {} /\ "pending" \notin checks
      /\ checks \cap Failing = {} /\ "action_required" \notin checks
  BY DEF AggregateConclusion
<1>2. checks \in Outcomes
  BY <1>1 DEF Pending
<1>3. checks \subseteq Failing \cup Green \cup {"action_required", "stale"}
  BY <1>2, CIWatcherAssumption DEF CIWatcherAssumption
<1> QED
  BY <1>1, <1>2, <1>3 DEF NoStale

LEMMA PassedStep ==
  ASSUME NoStale, Typed, [Next]_vars, NEW t \in Tasks, ci[t] # "passed", ci'[t] = "passed"
  PROVE  pr[t].checks # {} /\ pr[t].checks \subseteq Green
<1>1. ~ UNCHANGED ci
  OBVIOUS
<1>2. \A status : ci' = [ci EXCEPT ![task] = status] => status = "passed" /\ t = task
  BY DEF Typed
<1>3. ~ \E status \in {"timeout", "closed", "exhausted", "watching"} : Concludes(status)
  BY <1>1, <1>2 DEF Concludes
<1>4. ~ GoesOn
  BY <1>1 DEF GoesOn
<1>5. ~ \E u \in Tasks : Hook(u)
  <2> SUFFICES ASSUME NEW u \in Tasks, Hook(u)
               PROVE  FALSE
    OBVIOUS
  <2>1. UNCHANGED ci \/ ci' = [ci EXCEPT ![u] = "watching"]
    BY HookTyped
  <2> QED
    BY <2>1 DEF Typed
<1>6. Checks
  BY <1>1, <1>3, <1>4, <1>5, StepKinds, OutsideTyped, RunChildTyped, OthersTyped,
     ViewTyped, HandleFailureTyped, EnqueueFixTyped
<1>7. Concludes(AggregateConclusion(pr[task].checks))
  BY <1>4, <1>6, ChecksTyped
<1>8. AggregateConclusion(pr[task].checks) = "passed" /\ t = task
  BY <1>1, <1>2, <1>7 DEF Concludes
<1>9. pr[t].checks \in Outcomes \cup {{}, Pending}
  BY DEF Typed, PullRequest
<1> QED
  BY <1>8, <1>9, PassedChecks

\* As long as no check goes stale, a row is passed only by a poll that found
\* every check completed and none failed (checks.go AggregateConclusion).
THEOREM PassedIsGreen ==
  ASSUME NoStale
  PROVE  Spec => PassedMeansGreen
<1>1. Typed /\ [Next]_vars =>
        [\A t \in Tasks : ci[t] # "passed" /\ ci'[t] = "passed"
           => pr[t].checks # {} /\ pr[t].checks \subseteq Green]_vars
  BY PassedStep
<1> QED
  BY <1>1, TypedAlways, PTL DEF Spec, PassedMeansGreen
=============================================================================
