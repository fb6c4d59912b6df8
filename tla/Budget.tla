------------------------------- MODULE Budget -------------------------------
(***************************************************************************)
(* The budget gate: task counters of the current day and week, runtime     *)
(* overrides of their caps and the rate-limit block (budget_usecase.go,    *)
(* budget_gate.go), and its three kinds of callers: the scheduler's tick,  *)
(* which only looks, the worker before it starts claude, and the cron jobs *)
(* of maintenance_usecase.go with their own sub-caps.                      *)
(*                                                                         *)
(* A caller reads the clock first and takes the use case's mutex later; a  *)
(* method under the mutex is one step.  Day and week keys are numbered in  *)
(* the order of time (Calendar says when WeekKey does that).               *)
(***************************************************************************)
EXTENDS Naturals, FiniteSets

CONSTANTS
  LastInstant, \* the clock runs from 1 to LastInstant
  DayOf,       \* DateKey of each instant
  WeekOf,      \* WeekKey of each instant
  Issues,      \* tasks that come from GitHub issues or the API
  Fires,       \* firings of cron jobs, named as the task they may create
  Jobs,        \* maintenance_tasks of the configuration
  JobOf,       \* the job of each firing
  DailyMax,    \* configured caps, 0 is no limit
  WeeklyMax,
  SubCap,      \* budget_sub_cap of each job, 0 is no limit
  Overrides,   \* bodies that PATCH /modes/limits may carry
  Signals,     \* resetsAt of the rate-limit signals claude may emit, 0 unknown
  SlowCalls,   \* TRUE: midnight may pass between a clock reading and its use
  Faults,      \* TRUE: statements on app_state and tasks may fail
  MaxCrashes   \* bound on crashes of the process

Instants == 1..LastInstant
Calls == Issues \cup Fires
Cap == [daily : Nat, weekly : Nat]
Counters == [daily : Nat, dayKey : Nat, weekly : Nat, weekKey : Nat]

ASSUME BudgetAssumption ==
  /\ LastInstant \in Nat \ {0}
  /\ DayOf \in [Instants -> Nat \ {0}]
  /\ WeekOf \in [Instants -> Nat \ {0}]
  /\ \A i, j \in Instants : i =< j => DayOf[i] =< DayOf[j] /\ WeekOf[i] =< WeekOf[j]
  /\ IsFiniteSet(Calls)
  /\ Issues \cap Fires = {}
  /\ JobOf \in [Fires -> Jobs]
  /\ DailyMax \in Nat /\ WeeklyMax \in Nat
  /\ SubCap \in [Jobs -> Cap]
  /\ Overrides \subseteq Cap
  /\ Signals \subseteq Nat
  /\ SlowCalls \in BOOLEAN /\ Faults \in BOOLEAN
  /\ MaxCrashes \in Nat

VARIABLES
  now,
  counters,  \* app_state task_counters; key 0 is the empty key
  override,  \* app_state limits_override
  block,     \* app_state rate_limit_block: blocked_until, 0 is none
  sub,       \* app_state maintenance_counters:<name>
  pc,        \* where each call is
  at,        \* the clock reading it holds, 0 when none
  look,      \* the reading of a snapshot that has not got the mutex, or 0
  crashes,
  charged,   \* history: slots taken, [task, by, day, week]
  created,   \* history: maintenance tasks created, [task, day, week]
  reported   \* history: the latest reset time any run was told

stored == <<counters, override, block, sub>>
history == <<charged, created, reported>>
vars == <<now, stored, pc, at, look, crashes, history>>

Holding == {"gate", "global", "subcap"}   \* labels with a reading in hand

NoCounters == [daily |-> 0, dayKey |-> 0, weekly |-> 0, weekKey |-> 0]

TypeOK ==
  /\ now \in Instants
  /\ counters \in Counters
  /\ override \in Cap
  /\ block \in Nat
  /\ sub \in [Jobs -> Counters]
  /\ pc \in [Calls -> {"armed", "queued", "claimed", "claude", "ended"} \cup Holding]
  /\ at \in [Calls -> 0..LastInstant]
  /\ \A c \in Calls : at[c] # 0 <=> pc[c] \in Holding
  /\ look \in 0..LastInstant
  /\ crashes \in 0..MaxCrashes
  /\ charged \subseteq [task : Calls, by : {"worker", "cron"}, day : Nat, week : Nat]
  /\ created \subseteq [task : Fires, day : Nat, week : Nat]
  /\ reported \in Nat

Init ==
  /\ now = 1
  /\ counters = NoCounters
  /\ override = [daily |-> 0, weekly |-> 0]
  /\ block = 0
  /\ sub = [j \in Jobs |-> NoCounters]
  /\ pc = [c \in Calls |-> IF c \in Fires THEN "armed" ELSE "queued"]
  /\ at = [c \in Calls |-> 0]
  /\ look = 0
  /\ crashes = 0
  /\ charged = {}
  /\ created = {}
  /\ reported = 0

-----------------------------------------------------------------------------
(* budget_gate.go                                                           *)

Effective ==
  [daily  |-> IF override.daily > 0 THEN override.daily ELSE DailyMax,
   weekly |-> IF override.weekly > 0 THEN override.weekly ELSE WeeklyMax]

\* Mutant: a new day resets the week as well.
RolloverBoth(i, k) ==
  IF k.dayKey = DayOf[i] THEN k
  ELSE [daily |-> 0, dayKey |-> DayOf[i], weekly |-> 0, weekKey |-> WeekOf[i]]

\* A key other than the reading's, older or newer, starts a new bucket.
RolloverCounters(i, k) ==
  [daily   |-> IF k.dayKey = DayOf[i] THEN k.daily ELSE 0,
   dayKey  |-> DayOf[i],
   weekly  |-> IF k.weekKey = WeekOf[i] THEN k.weekly ELSE 0,
   weekKey |-> WeekOf[i]]

Incremented(k) == [k EXCEPT !.daily = @ + 1, !.weekly = @ + 1]

\* 0 is no limit.
Reached(max, count) == max > 0 /\ count >= max
WithinCap(cap, k) == ~Reached(cap.daily, k.daily) /\ ~Reached(cap.weekly, k.weekly)

\* Mutants: the block is not looked at; a cap is one too high.
EvaluateUnblocked(i, k) == WithinCap(Effective, k)
EvaluateOneMore(i, k) ==
  i >= block /\ (Effective.daily = 0 \/ k.daily =< Effective.daily)
             /\ ~Reached(Effective.weekly, k.weekly)

\* EvaluateBudget = "": allowed.
EvaluateBudget(i, k) == i >= block /\ WithinCap(Effective, k)

-----------------------------------------------------------------------------
(* budget_usecase.go, under the mutex                                       *)

\* Mutant: the tick looks at counters that nobody rolled over.
SnapshotUnrolled(i, allowed) ==
  /\ allowed = EvaluateBudget(i, counters)
  /\ UNCHANGED counters

\* Snapshot: rolls the stored counters over and evaluates them.
Snapshot(i, allowed) ==
  /\ allowed = EvaluateBudget(i, RolloverCounters(i, counters))
  /\ counters' = RolloverCounters(i, counters)

\* A statement of Snapshot fails, before or after it took effect.
SnapshotErrs(i) == Faults /\ counters' \in {counters, RolloverCounters(i, counters)}

\* CheckAndIncrement: allowed, refused, or an error that leaves the counters
\* as they were, rolled over, or incremented.
Admits(i) ==
  LET k == RolloverCounters(i, counters)
  IN  EvaluateBudget(i, k) /\ counters' = Incremented(k)

Refuses(i) == Snapshot(i, FALSE)

CheckErrs(i) == SnapshotErrs(i) \/ (Faults /\ Admits(i))

\* Every signal overwrites the block; 0 is read back as "none".
RecordRateLimitBlock(resetsAt) ==
  block' = resetsAt \/ (Faults /\ UNCHANGED block)

-----------------------------------------------------------------------------
(* The callers                                                              *)

Goto(c, label) == pc' = [pc EXCEPT ![c] = label]
Reading(c, i) == at' = [at EXCEPT ![c] = i]

\* Midnight, or the start of a week, passes under a reading only if calls
\* may be slow.
AdvanceClock ==
  /\ now < LastInstant
  /\ \/ SlowCalls
     \/ \A i \in {at[c] : c \in Calls} \cup {look} :
          i # 0 => DayOf[i] = DayOf[now + 1] /\ WeekOf[i] = WeekOf[now + 1]
  /\ now' = now + 1
  /\ UNCHANGED <<stored, pc, at, look, crashes, history>>

\* tick, GET and PATCH /modes/limits: a Snapshot is about to be taken.
Look ==
  /\ look = 0
  /\ look' = now
  /\ UNCHANGED <<now, stored, pc, at, crashes, history>>

\* The snapshot of a request, or of a tick that is blocked.
Looked ==
  /\ look # 0
  /\ (\E allowed \in BOOLEAN : Snapshot(look, allowed)) \/ SnapshotErrs(look)
  /\ look' = 0
  /\ UNCHANGED <<now, override, block, sub, pc, at, crashes, history>>

\* The snapshot of a tick that is allowed, or fails: it claims queued tasks
\* until the slots or the queue are exhausted.
Dispatch(tasks) ==
  /\ look # 0
  /\ tasks # {}
  /\ \A c \in tasks : pc[c] = "queued"
  /\ Snapshot(look, TRUE) \/ SnapshotErrs(look)
  /\ look' = 0
  /\ pc' = [c \in Calls |-> IF c \in tasks THEN "claimed" ELSE pc[c]]
  /\ UNCHANGED <<now, override, block, sub, at, crashes, history>>

\* The worker reaches its last gate and reads the clock, or fails before that.
ReachGate(c) ==
  /\ pc[c] = "claimed"
  /\ \/ Goto(c, "gate") /\ Reading(c, now)
     \/ Goto(c, "ended") /\ UNCHANGED at
  /\ UNCHANGED <<now, stored, look, crashes, history>>

Charge(c, who) ==
  charged' = charged \cup
    {[task |-> c, by |-> who, day |-> DayOf[at[c]], week |-> WeekOf[at[c]]]}

\* A refused task is cancelled, a failed check fails it.
WorkerGate(c) ==
  /\ pc[c] = "gate"
  /\ \/ Admits(at[c]) /\ Goto(c, "claude") /\ Charge(c, "worker")
     \/ Refuses(at[c]) /\ Goto(c, "ended") /\ UNCHANGED charged
     \/ CheckErrs(at[c]) /\ Goto(c, "ended") /\ UNCHANGED charged
  /\ Reading(c, 0)
  /\ UNCHANGED <<now, override, block, sub, look, crashes, created, reported>>

ClaudeEnds(c) ==
  /\ pc[c] = "claude"
  /\ Goto(c, "ended")
  /\ UNCHANGED <<now, stored, at, look, crashes, history>>

\* claude hits the plan's limit.  maybeRecordRateLimit may fail like any
\* statement; a run that is told the reset time is told one in the future.
RateLimited(c, resetsAt) ==
  /\ pc[c] = "claude"
  /\ resetsAt = 0 \/ resetsAt > now
  /\ RecordRateLimitBlock(resetsAt)
  /\ reported' = IF resetsAt > reported /\ block' = resetsAt THEN resetsAt ELSE reported
  /\ Goto(c, "ended")
  /\ UNCHANGED <<now, counters, override, sub, at, look, crashes, charged, created>>

\* A cron job fires inside the active window.
Fire(f) ==
  /\ pc[f] = "armed"
  /\ Goto(f, "global")
  /\ Reading(f, now)
  /\ UNCHANGED <<now, stored, look, crashes, history>>

\* EnqueueMaintenance, first the global gate ...
GlobalGate(f) ==
  /\ pc[f] = "global"
  /\ \/ Admits(at[f]) /\ Goto(f, "subcap") /\ Charge(f, "cron") /\ UNCHANGED at
     \/ /\ Refuses(at[f]) \/ CheckErrs(at[f])
        /\ Goto(f, "ended")
        /\ Reading(f, 0)
        /\ UNCHANGED charged
  /\ UNCHANGED <<now, override, block, sub, look, crashes, created, reported>>

\* Mutant: the sub-cap counters are checked and not stored.
SubGateUncounted(f) ==
  LET j == JobOf[f] IN
  /\ pc[f] = "subcap"
  /\ Reading(f, 0)
  /\ IF WithinCap(SubCap[j], RolloverCounters(at[f], sub[j]))
       THEN /\ Goto(f, "queued")
            /\ created' = created \cup
                 {[task |-> f, day |-> DayOf[at[f]], week |-> WeekOf[at[f]]]}
       ELSE Goto(f, "ended") /\ UNCHANGED created
  /\ UNCHANGED <<now, stored, look, crashes, charged, reported>>

\* ... then, under the maintenance mutex, the sub-cap and Create.  A refusal
\* does not store the rollover, a failed Create keeps the increment.
SubGate(f) ==
  LET j == JobOf[f]
      k == RolloverCounters(at[f], sub[j])
      Counted == sub' = IF SubCap[j] = [daily |-> 0, weekly |-> 0] THEN sub
                        ELSE [sub EXCEPT ![j] = Incremented(k)]
  IN
  /\ pc[f] = "subcap"
  /\ Reading(f, 0)
  /\ \/ /\ WithinCap(SubCap[j], k)
        /\ Counted
        /\ Goto(f, "queued")
        /\ created' = created \cup
             {[task |-> f, day |-> DayOf[at[f]], week |-> WeekOf[at[f]]]}
     \/ /\ ~WithinCap(SubCap[j], k)
        /\ Goto(f, "ended")
        /\ UNCHANGED <<sub, created>>
     \/ /\ Faults
        /\ (WithinCap(SubCap[j], k) /\ Counted) \/ UNCHANGED sub
        /\ Goto(f, "ended")
        /\ UNCHANGED created
  /\ UNCHANGED <<now, counters, override, block, look, crashes, charged, reported>>

\* PATCH /modes/limits: both fields are written, an omitted one as 0.
SetLimits(o) ==
  /\ ~(o.daily > 0 /\ o.weekly > 0 /\ o.daily > o.weekly)
  /\ override' = o
  /\ UNCHANGED <<now, counters, block, sub, pc, at, look, crashes, history>>

\* What is in memory is lost; a claimed or running task is ended by
\* RecoverOrphans, a firing in progress is forgotten.
Crash ==
  /\ crashes < MaxCrashes
  /\ crashes' = crashes + 1
  /\ pc' = [c \in Calls |-> IF pc[c] \in {"armed", "queued"} THEN pc[c] ELSE "ended"]
  /\ at' = [c \in Calls |-> 0]
  /\ look' = 0
  /\ UNCHANGED <<now, stored, history>>

-----------------------------------------------------------------------------
Next ==
  \/ AdvanceClock \/ Look \/ Looked \/ Crash
  \/ \E tasks \in SUBSET Calls : Dispatch(tasks)
  \/ \E c \in Calls : \/ ReachGate(c) \/ WorkerGate(c) \/ ClaudeEnds(c)
                      \/ \E s \in Signals : RateLimited(c, s)
  \/ \E f \in Fires : Fire(f) \/ GlobalGate(f) \/ SubGate(f)
  \/ \E o \in Overrides : SetLimits(o)

Spec == Init /\ [][Next]_vars

\* Time passes (calls that are not slow hold it up for a moment only), the
\* ticker ticks, a tick whose snapshot says "allowed" claims what is queued,
\* and a goroutine that was started reaches its end.
FairSpec ==
  /\ Spec
  /\ SF_vars(AdvanceClock) /\ WF_vars(Look)
  /\ WF_vars(Looked \/ \E tasks \in SUBSET Calls : Dispatch(tasks))
  /\ \A c \in Calls :
       /\ SF_vars(\E tasks \in SUBSET Calls :
                     c \in tasks /\ Dispatch(tasks) /\ Snapshot(look, TRUE))
       /\ WF_vars(ReachGate(c)) /\ WF_vars(WorkerGate(c)) /\ WF_vars(ClaudeEnds(c))
  /\ \A f \in Fires : WF_vars(GlobalGate(f)) /\ WF_vars(SubGate(f))
-----------------------------------------------------------------------------
ChargedOn(d) == {c \in charged : c.day = d}
ChargedIn(w) == {c \in charged : c.week = w}

\* No call takes a slot once the slots taken that day or that week have
\* reached the cap in force, whatever crashes, lost writes, overrides and
\* other callers came in between (CheckAndIncrement's single mutex).
CapsHold ==
  [][\A c \in charged' \ charged :
       /\ ~Reached(Effective.daily, Cardinality(ChargedOn(c.day)))
       /\ ~Reached(Effective.weekly, Cardinality(ChargedIn(c.week)))]_vars

\* The stored counters never fall behind the slots taken in their own bucket,
\* and no slot belongs to a later one (RolloverCounters keeps what it must).
CountersCover ==
  /\ counters.daily >= Cardinality(ChargedOn(counters.dayKey))
  /\ counters.weekly >= Cardinality(ChargedIn(counters.weekKey))
  /\ \A c \in charged : c.day =< counters.dayKey /\ c.week =< counters.weekKey

\* Firings of one job, concurrent or not, create no more tasks per day and per
\* week than its budget_sub_cap (checkAndIncrementSubCap).
SubCapsHold ==
  [][\A c \in created' \ created :
       LET same == {e \in created : JobOf[e.task] = JobOf[c.task]}
           cap  == SubCap[JobOf[c.task]]
       IN  /\ ~Reached(cap.daily, Cardinality({e \in same : e.day = c.day}))
           /\ ~Reached(cap.weekly, Cardinality({e \in same : e.week = c.week}))]_vars

\* claude-ops.md:66, US-12: no call is admitted before the reset time that an
\* earlier run was told and stored.
BlockHonoured ==
  [][\A c \in charged' \ charged : at[c.task] >= reported]_vars

\* claude-ops.md:66: dispatch resumes by itself, after a block and after a full
\* day.  A task stays queued for ever only if the last day the clock reaches
\* is full.
DispatchResumes ==
  \A c \in Calls :
    pc[c] = "queued" ~>
      \/ pc[c] # "queued"
      \/ counters.dayKey = DayOf[LastInstant] /\ ~WithinCap(Effective, counters)

\* config.example.yaml:75: a maintenance task counts toward the global limit:
\* it takes one slot.
OneSlotPerTask ==
  \A c, e \in charged : c.task = e.task => c = e
=============================================================================
