------------------------------ MODULE CostWarn ------------------------------
(***************************************************************************)
(* Cost warnings: after a task is done its worker compares the cost of the  *)
(* day and of the week with their limits and warns at 80% and at 100%       *)
(* (budget_usecase.go EvaluateCostWarn, usage_repository.go, slack client). *)
(*                                                                         *)
(* One call at a time holds the mutex; the sums, each store of the flags    *)
(* and each message are steps of their own, between which tasks finish and  *)
(* the process may die.                                                     *)
(***************************************************************************)
EXTENDS Calendar, FiniteSets, Functions

CONSTANTS
  FirstInstant, LastInstant,
  Runs,        \* tasks
  CostOf,      \* total_cost_usd of each
  DailyMax,    \* limits.daily_max_cost_usd, weekly_max_cost_usd; 0 is none
  WeeklyMax,
  SlowCalls,   \* TRUE: a bucket may end between finished_at and the mutex
  Faults,      \* what may fail: "row", "load", "sum", "store", "message"
  MaxCrashes,
  NoRun

ASSUME CostWarnAssumption ==
  /\ FirstInstant \in Nat \ {0} /\ LastInstant \in Nat /\ FirstInstant =< LastInstant
  /\ Faults \subseteq {"row", "load", "sum", "store", "message"}
  /\ SlowCalls \in BOOLEAN /\ MaxCrashes \in Nat
  /\ CostOf \in [Runs -> Nat]
  /\ DailyMax \in Nat /\ WeeklyMax \in Nat
  /\ NoRun \notin Runs /\ IsFiniteSet(Runs)

Scopes == {"daily", "weekly"}
Levels == {80, 100}

VARIABLES
  now,
  pc,      \* each task: running, waiting for the mutex or holding it, over
  at,      \* finishedAt of its worker, 0 before
  done,    \* finished_at of the rows with status done, 0 for the others
  failed,  \* finished_at of the failed rows that carry a cost, likewise
  stored,  \* app_state cost_warn_state
  flags,   \* the copy of the call that holds the mutex
  holder,  \* that call, or NoRun
  step,    \* what it does next
  pending, \* the message it is about to send: one, or none
  crashes,
  smooth,  \* history: no statement or message has failed, no crash so far
  sent     \* history: [scope, key, level, pct, run]

vars == <<now, pc, at, done, failed, stored, flags, holder, step, pending, crashes, smooth, sent>>

Flags == [key : [Scopes -> Int], warned : [Scopes -> SUBSET Levels]]
NoFlags == [key |-> [s \in Scopes |-> -1], warned |-> [s \in Scopes |-> {}]]

TypeOK ==
  /\ now \in FirstInstant..LastInstant
  /\ pc \in [Runs -> {"running", "waiting", "over"}]
  /\ at \in [Runs -> 0..LastInstant] /\ done \in [Runs -> 0..LastInstant]
  /\ failed \in [Runs -> 0..LastInstant]
  /\ stored \in Flags /\ flags \in Flags
  /\ holder \in Runs \cup {NoRun}
  /\ step \in {"none", "daily", "weekly", "last"}
  /\ (holder = NoRun) <=> (step = "none")
  /\ holder # NoRun => pc[holder] = "waiting"
  /\ crashes \in 0..MaxCrashes
  /\ smooth \in BOOLEAN
  /\ \A m \in sent \cup pending : m.scope \in Scopes /\ m.level \in Levels

Init ==
  /\ now = FirstInstant
  /\ pc = [r \in Runs |-> "running"]
  /\ at = [r \in Runs |-> 0]
  /\ done = [r \in Runs |-> 0]
  /\ failed = [r \in Runs |-> 0]
  /\ stored = NoFlags
  /\ flags = NoFlags
  /\ holder = NoRun
  /\ step = "none"
  /\ pending = {}
  /\ crashes = 0
  /\ smooth = TRUE
  /\ sent = {}

-----------------------------------------------------------------------------
MaxOf(scope) == IF scope = "daily" THEN DailyMax ELSE WeeklyMax

CostOfRuns(S) == SumFunctionOnSet(CostOf, S)

DoneRuns == {r \in Runs : done[r] # 0}

\* SumDailyCost, SumWeeklyCost: done rows finished in the range of the key.
SumCost(scope, key) ==
  LET range == RangeOf(scope, key)
  IN  CostOfRuns({r \in DoneRuns : done[r] >= range.from /\ done[r] < range.to})

\* In tenths, rounded half up.
Percent(cost, max) == (2000 * cost + max) \div (2 * max)

\* The flags of a bucket other than the reading's are cleared.
ResetFlags(i, f) ==
  [key    |-> [s \in Scopes |-> KeyOf(s, i)],
   warned |-> [s \in Scopes |-> IF f.key[s] = KeyOf(s, i) THEN f.warned[s] ELSE {}]]

\* Mutant: 80% is looked at first.
CrossedLowFirst(pct, warned) ==
  IF pct >= 800 /\ 80 \notin warned THEN {80}
  ELSE IF pct >= 1000 /\ 100 \notin warned THEN {100} ELSE {}

\* The flag to set: that of 100%, else that of 80%, or none.
Crossed(pct, warned) ==
  IF pct >= 1000 /\ 100 \notin warned THEN {100}
  ELSE IF pct >= 800 /\ 80 \notin warned THEN {80} ELSE {}

\* A statement or a message of this kind fails, or nothing does.
Fails(kind) == kind \in Faults /\ smooth' = FALSE
Works == UNCHANGED smooth

-----------------------------------------------------------------------------
AdvanceClock ==
  /\ now < LastInstant
  /\ \/ SlowCalls
     \/ \A r \in Runs, s \in Scopes :
          pc[r] = "waiting" => KeyOf(s, at[r]) = KeyOf(s, now + 1)
  /\ now' = now + 1
  /\ UNCHANGED <<pc, at, done, failed, stored, flags, holder, step, pending, crashes, smooth, sent>>

\* The task is marked done, a failing Update is logged only, and its worker
\* calls EvaluateCostWarn.  A task that fails has no part in any sum, but its
\* row keeps the cost when claude had sent its result.
Finish(r) ==
  /\ pc[r] = "running"
  /\ \/ /\ pc' = [pc EXCEPT ![r] = "waiting"]
        /\ at' = [at EXCEPT ![r] = now]
        /\ \/ done' = [done EXCEPT ![r] = now] /\ Works
           \/ UNCHANGED done /\ Fails("row")
        /\ UNCHANGED failed
     \/ /\ pc' = [pc EXCEPT ![r] = "over"]
        /\ failed' \in {failed, [failed EXCEPT ![r] = now]}
        /\ UNCHANGED <<at, done, smooth>>
  /\ UNCHANGED <<now, stored, flags, holder, step, pending, crashes, sent>>

\* The mutex is taken, the flags are loaded and reset; an error ends the call.
Enter(r) ==
  /\ pc[r] = "waiting"
  /\ holder = NoRun
  /\ \/ /\ holder' = r
        /\ step' = "daily"
        /\ flags' = ResetFlags(at[r], stored)
        /\ UNCHANGED pc /\ Works
     \/ /\ Fails("load")
        /\ pc' = [pc EXCEPT ![r] = "over"]
        /\ UNCHANGED <<holder, step, flags>>
  /\ UNCHANGED <<now, at, done, failed, stored, pending, crashes, sent>>

Persist ==
  \/ stored' = flags' /\ Works
  \/ UNCHANGED stored /\ Fails("store")

\* Mutant: the flag is stored with the others at the end.
EvaluateUnstored(scope, next) ==
  LET key == flags.key[scope]
      pct == Percent(SumCost(scope, key), MaxOf(scope))
      new == IF MaxOf(scope) = 0 THEN {} ELSE Crossed(pct, flags.warned[scope])
  IN
  /\ step = scope
  /\ pending = {}
  /\ flags' = [flags EXCEPT !.warned[scope] = @ \cup new]
  /\ pending' = {[scope |-> scope, key |-> key, level |-> l, pct |-> pct, run |-> holder] : l \in new}
  /\ step' = next
  /\ UNCHANGED <<now, pc, at, done, failed, stored, holder, crashes, smooth, sent>>

\* The sum is compared with the limit; the flag of a threshold crossed for the
\* first time is stored before the message is sent.  A sum that fails is
\* skipped.
Evaluate(scope, next) ==
  LET key == flags.key[scope]
      pct == Percent(SumCost(scope, key), MaxOf(scope))
      new == IF MaxOf(scope) = 0 THEN {} ELSE Crossed(pct, flags.warned[scope])
  IN
  /\ step = scope
  /\ pending = {}
  /\ step' = next
  /\ \/ /\ new # {}
        /\ flags' = [flags EXCEPT !.warned[scope] = @ \cup new]
        /\ Persist
        /\ pending' = {[scope |-> scope, key |-> key, level |-> l, pct |-> pct, run |-> holder] : l \in new}
     \/ /\ (new = {} /\ Works) \/ Fails("sum")
        /\ UNCHANGED <<flags, stored, pending>>
  /\ UNCHANGED <<now, pc, at, done, failed, holder, crashes, sent>>

NotifyCostWarning ==
  /\ pending # {}
  /\ pending' = {}
  /\ \/ sent' = sent \cup pending /\ Works
     \/ UNCHANGED sent /\ Fails("message")
  /\ UNCHANGED <<now, pc, at, done, failed, stored, flags, holder, step, crashes>>

\* The reset flags are stored and the mutex is released.
Leave ==
  /\ step = "last"
  /\ pending = {}
  /\ UNCHANGED flags /\ Persist
  /\ pc' = [pc EXCEPT ![holder] = "over"]
  /\ holder' = NoRun
  /\ step' = "none"
  /\ UNCHANGED <<now, at, done, failed, pending, crashes, sent>>

\* The process dies; RecoverOrphans ends the tasks it was running.
Crash ==
  /\ crashes < MaxCrashes
  /\ crashes' = crashes + 1
  /\ smooth' = FALSE
  /\ pc' \in [Runs -> {"running", "over"}]
  /\ \A r \in Runs : at[r] # 0 \/ pc[r] = "over" => pc'[r] = "over"
  /\ holder' = NoRun
  /\ step' = "none"
  /\ pending' = {}
  /\ UNCHANGED <<now, at, done, failed, stored, flags, sent>>

-----------------------------------------------------------------------------
Next ==
  \/ AdvanceClock
  \/ \E r \in Runs : Finish(r) \/ Enter(r)
  \/ Evaluate("daily", "weekly") \/ Evaluate("weekly", "last")
  \/ NotifyCostWarning \/ Leave \/ Crash

Spec == Init /\ [][Next]_vars

-----------------------------------------------------------------------------
\* A warning is sent once in a bucket: a second task that finds the same
\* threshold crossed says nothing, after a restart either
\* (EvaluateCostWarn: flags set, stored, then the message).
AtMostOnce ==
  \A m, n \in sent : m.scope = n.scope /\ m.key = n.key /\ m.level = n.level => m = n

\* When nothing has failed and every worker has returned, a bucket whose cost
\* is at its limit has been announced as such, whichever order the tasks
\* finished and evaluated in (EvaluateCostWarn).
CapAnnounced ==
  smooth /\ (\A r \in Runs : pc[r] # "waiting") =>
    \A s \in Scopes :
      LET key == KeyOf(s, now)
          spent == CostOfRuns({r \in DoneRuns : KeyOf(s, done[r]) = key})
      IN  MaxOf(s) # 0 /\ spent >= MaxOf(s)
            => \E m \in sent : m.scope = s /\ m.key = key /\ m.level = 100

\* The cost of a bucket is that of the tasks finished in it: DateKey and WeekKey
\* name the bucket, dayKeyToRange and weekKeyToRange turn the name into the
\* range that is summed.
BucketsAgree ==
  \A s \in Scopes :
    LET key == KeyOf(s, now)
    IN  SumCost(s, key) = CostOfRuns({r \in DoneRuns : KeyOf(s, done[r]) = key})

\* The Slack text "cap reached", which NotifyCostWarning chooses by the
\* percentage, is sent once in a bucket.
CapReachedOnce ==
  \A m, n \in sent :
    m.scope = n.scope /\ m.key = n.key /\ m.pct >= 1000 /\ n.pct >= 1000 => m = n
=============================================================================
