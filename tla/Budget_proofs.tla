---------------------------- MODULE Budget_proofs ----------------------------
(***************************************************************************)
(* Proofs about Budget, for every set of calls, every pair of caps, every   *)
(* override and any calendar whose keys follow the clock.  The caps hold    *)
(* under the assumption that no clock reading is used after the end of its  *)
(* day or week (~SlowCalls); what Config lets through about the two caps.   *)
(***************************************************************************)
EXTENDS Budget, Config, TLAPS, FiniteSetTheorems

USE DEF Instants, Calls, Holding

LEMMA RolloverType ==
  ASSUME NEW i \in Instants, NEW k \in Counters
  PROVE  RolloverCounters(i, k) \in Counters
  BY BudgetAssumption DEF RolloverCounters, Counters

LEMMA IncrementType ==
  ASSUME NEW k \in Counters
  PROVE  /\ Incremented(k) \in Counters
         /\ Incremented(k).daily = k.daily + 1 /\ Incremented(k).weekly = k.weekly + 1
         /\ Incremented(k).dayKey = k.dayKey /\ Incremented(k).weekKey = k.weekKey
<1>1. k.daily + 1 \in Nat /\ k.weekly + 1 \in Nat
  BY DEF Counters
<1> QED BY <1>1 DEF Incremented, Counters

\* Whatever CheckAndIncrement or Snapshot does leaves typed counters.
LEMMA CheckType ==
  ASSUME TypeOK, NEW i \in Instants,
         \/ Admits(i) \/ Refuses(i) \/ CheckErrs(i) \/ SnapshotErrs(i)
         \/ \E allowed \in BOOLEAN : Snapshot(i, allowed)
  PROVE  counters' \in Counters
<1>1. counters \in Counters /\ RolloverCounters(i, counters) \in Counters
  BY RolloverType DEF TypeOK
<1>2. Incremented(RolloverCounters(i, counters)) \in Counters
  BY <1>1, IncrementType
<1> QED BY <1>1, <1>2 DEF Admits, Refuses, CheckErrs, SnapshotErrs, Snapshot

LEMMA ChargeType ==
  ASSUME TypeOK, NEW c \in Calls, at[c] # 0, NEW who \in {"worker", "cron"}, Charge(c, who)
  PROVE  charged' \subseteq [task : Calls, by : {"worker", "cron"}, day : Nat, week : Nat]
  BY BudgetAssumption DEF TypeOK, Charge

\* A call that moves to another label and holds a reading there or not.
CallsTyped ==
  /\ pc \in [Calls -> {"armed", "queued", "claimed", "claude", "ended"} \cup Holding]
  /\ at \in [Calls -> 0..LastInstant]
  /\ \A c \in Calls : at[c] # 0 <=> pc[c] \in Holding

LEMMA MoveType ==
  ASSUME CallsTyped, NEW c \in Calls, NEW i \in 0..LastInstant,
         NEW label \in {"armed", "queued", "claimed", "claude", "ended"} \cup Holding,
         i # 0 <=> label \in Holding,
         Goto(c, label), Reading(c, i) \/ (at' = at /\ at[c] = i)
  PROVE  CallsTyped'
<1>1. at' = [at EXCEPT ![c] = i]
  BY DEF Reading, CallsTyped
<1> QED BY <1>1 DEF CallsTyped, Goto

\* A call that leaves the mutex for good drops its reading.
LEMMA DropType ==
  ASSUME CallsTyped, NEW c \in Calls, Reading(c, 0),
         NEW label \in {"armed", "queued", "claimed", "claude", "ended"}, Goto(c, label)
  PROVE  CallsTyped'
<1>1. 0 \in 0..LastInstant
  BY BudgetAssumption
<1>2. label \notin Holding
  OBVIOUS
<1> QED BY <1>1, <1>2, MoveType

LEMMA TypeInit == Init => TypeOK
  BY BudgetAssumption DEF Init, TypeOK, NoCounters, Counters, Cap

LEMMA TypeNext == TypeOK /\ [Next]_vars => TypeOK'
<1> SUFFICES ASSUME TypeOK, [Next]_vars PROVE TypeOK'
  OBVIOUS
<1> USE BudgetAssumption DEF stored, history
<1>0. CASE UNCHANGED vars
  BY <1>0 DEF vars, TypeOK
<1>1. CASE AdvanceClock
  BY <1>1 DEF AdvanceClock, TypeOK
<1>2. CASE Look
  BY <1>2 DEF Look, TypeOK
<1>3. CASE Looked
  <2>1. counters' \in Counters
    BY <1>3, CheckType DEF Looked, TypeOK
  <2> QED BY <1>3, <2>1 DEF Looked, TypeOK
<1>4. CASE Crash
  BY <1>4 DEF Crash, TypeOK
<1>5. ASSUME NEW tasks \in SUBSET Calls, Dispatch(tasks) PROVE TypeOK'
  <2>1. look \in Instants
    BY <1>5 DEF Dispatch, TypeOK
  <2>2. counters' \in Counters
    BY <1>5, <2>1, CheckType DEF Dispatch
  <2>3. CallsTyped'
    BY <1>5 DEF Dispatch, TypeOK, CallsTyped
  <2> QED BY <1>5, <2>2, <2>3 DEF Dispatch, TypeOK, CallsTyped
<1>6. ASSUME NEW c \in Calls, ReachGate(c) PROVE TypeOK'
  <2>1. CallsTyped /\ now \in 0..LastInstant /\ now # 0
    BY DEF TypeOK, CallsTyped
  <2>3. pc[c] = "claimed"
    BY <1>6 DEF ReachGate
  <2>4. at[c] = 0
    BY <2>1, <2>3 DEF CallsTyped
  <2>2. CallsTyped'
    BY <1>6, <2>1, <2>4, MoveType DEF ReachGate
  <2> QED BY <1>6, <2>2 DEF ReachGate, TypeOK, CallsTyped
<1>7. ASSUME NEW c \in Calls, WorkerGate(c) PROVE TypeOK'
  <2>1. at[c] \in Instants /\ at[c] # 0
    BY <1>7 DEF WorkerGate, TypeOK
  <2>2. counters' \in Counters
    BY <1>7, <2>1, CheckType DEF WorkerGate
  <2>3. charged' \subseteq [task : Calls, by : {"worker", "cron"}, day : Nat, week : Nat]
    BY <1>7, <2>1, ChargeType DEF WorkerGate, TypeOK
  <2>4. CallsTyped'
    <3>1. CallsTyped /\ Reading(c, 0) /\ (Goto(c, "claude") \/ Goto(c, "ended"))
      BY <1>7 DEF WorkerGate, TypeOK, CallsTyped
    <3> QED BY <3>1, DropType
  <2> QED BY <1>7, <2>2, <2>3, <2>4 DEF WorkerGate, TypeOK, CallsTyped
<1>8. ASSUME NEW c \in Calls, ClaudeEnds(c) PROVE TypeOK'
  BY <1>8 DEF ClaudeEnds, Goto, TypeOK
<1>9. ASSUME NEW c \in Calls, NEW s \in Signals, RateLimited(c, s) PROVE TypeOK'
  BY <1>9 DEF RateLimited, RecordRateLimitBlock, Goto, TypeOK
<1>10. ASSUME NEW f \in Fires, Fire(f) PROVE TypeOK'
  BY <1>10 DEF Fire, Goto, Reading, TypeOK
<1>11. ASSUME NEW f \in Fires, GlobalGate(f) PROVE TypeOK'
  <2>1. at[f] \in Instants /\ at[f] # 0
    BY <1>11 DEF GlobalGate, TypeOK
  <2>2. counters' \in Counters
    BY <1>11, <2>1, CheckType DEF GlobalGate
  <2>3. charged' \subseteq [task : Calls, by : {"worker", "cron"}, day : Nat, week : Nat]
    BY <1>11, <2>1, ChargeType DEF GlobalGate, TypeOK
  <2>4. CallsTyped'
    <3>1. /\ CallsTyped
          /\ \/ Goto(f, "subcap") /\ UNCHANGED at
             \/ Goto(f, "ended") /\ Reading(f, 0)
      BY <1>11 DEF GlobalGate, TypeOK, CallsTyped
    <3>2. CASE Goto(f, "subcap") /\ UNCHANGED at
      BY <2>1, <3>1, <3>2, MoveType
    <3>3. CASE Goto(f, "ended") /\ Reading(f, 0)
      BY <3>1, <3>3, DropType
    <3> QED BY <3>1, <3>2, <3>3
  <2> QED BY <1>11, <2>2, <2>3, <2>4 DEF GlobalGate, TypeOK, CallsTyped
<1>12. ASSUME NEW f \in Fires, SubGate(f) PROVE TypeOK'
  <2> DEFINE j == JobOf[f]
             k == RolloverCounters(at[f], sub[j])
  <2>1. at[f] \in Instants /\ j \in Jobs
    BY <1>12 DEF SubGate, TypeOK
  <2>2. Incremented(k) \in Counters
    BY <2>1, RolloverType, IncrementType DEF TypeOK
  <2>3. sub' = sub \/ sub' = [sub EXCEPT ![j] = Incremented(k)]
    BY <1>12 DEF SubGate
  <2>4. sub' \in [Jobs -> Counters]
    BY <2>1, <2>2, <2>3 DEF TypeOK
  <2>5. created' \subseteq [task : Fires, day : Nat, week : Nat]
    BY <1>12, <2>1 DEF SubGate, TypeOK
  <2>6. CallsTyped'
    <3>1. CallsTyped /\ Reading(f, 0) /\ (Goto(f, "queued") \/ Goto(f, "ended"))
      BY <1>12 DEF SubGate, TypeOK, CallsTyped
    <3>2. f \in Calls
      OBVIOUS
    <3> HIDE DEF j, k
    <3> QED BY <3>1, <3>2, DropType
  <2> QED BY <1>12, <2>4, <2>5, <2>6 DEF SubGate, TypeOK, CallsTyped
<1>13. ASSUME NEW o \in Overrides, SetLimits(o) PROVE TypeOK'
  BY <1>13 DEF SetLimits, TypeOK
<1> QED BY <1>0, <1>1, <1>2, <1>3, <1>4, <1>5, <1>6, <1>7, <1>8, <1>9, <1>10,
           <1>11, <1>12, <1>13 DEF Next

\* Every variable keeps its type; a call holds a clock reading exactly between
\* reading the clock and leaving the mutex (budget_usecase.go, all methods).
THEOREM BudgetTyped == Spec => []TypeOK
  BY TypeInit, TypeNext, PTL DEF Spec
-----------------------------------------------------------------------------
(* The caps                                                                 *)

\* What counters k owe to a set S of slots taken.
Covers(k, S) ==
  /\ k.daily >= Cardinality({c \in S : c.day = k.dayKey})
  /\ k.weekly >= Cardinality({c \in S : c.week = k.weekKey})
  /\ \A c \in S : c.day =< k.dayKey /\ c.week =< k.weekKey

\* A reading in hand is of the current day and week.
Fresh(i) == i # 0 => DayOf[i] = DayOf[now] /\ WeekOf[i] = WeekOf[now]

ICaps ==
  /\ IsFiniteSet(charged)
  /\ Covers(counters, charged)
  /\ counters.dayKey =< DayOf[now] /\ counters.weekKey =< WeekOf[now]
  /\ Fresh(look)
  /\ \A c \in Calls : Fresh(at[c])

\* Rolling over to the current day and week loses no slot of theirs.
LEMMA RolloverCovers ==
  ASSUME TypeOK, ICaps, NEW i \in Instants, Fresh(i)
  PROVE  /\ Covers(RolloverCounters(i, counters), charged)
         /\ RolloverCounters(i, counters).dayKey = DayOf[now]
         /\ RolloverCounters(i, counters).weekKey = WeekOf[now]
<1> DEFINE k == RolloverCounters(i, counters)
<1>1. /\ k.dayKey = DayOf[now] /\ k.weekKey = WeekOf[now]
      /\ DayOf[now] \in Nat /\ WeekOf[now] \in Nat
      /\ k.daily = IF counters.dayKey = DayOf[now] THEN counters.daily ELSE 0
      /\ k.weekly = IF counters.weekKey = WeekOf[now] THEN counters.weekly ELSE 0
  BY BudgetAssumption DEF Fresh, RolloverCounters, TypeOK
<1>2. counters.dayKey \in Nat /\ counters.weekKey \in Nat
  BY DEF TypeOK, Counters
<1>3. \A c \in charged : c.day \in Nat /\ c.week \in Nat
                         /\ c.day =< counters.dayKey /\ c.week =< counters.weekKey
  BY DEF ICaps, Covers, TypeOK
<1>4. k.daily >= Cardinality({c \in charged : c.day = k.dayKey})
  <2>1. CASE counters.dayKey = DayOf[now]
    BY <1>1, <2>1 DEF ICaps, Covers
  <2>2. CASE counters.dayKey # DayOf[now]
    <3>1. counters.dayKey < DayOf[now]
      BY <1>1, <1>2, <2>2 DEF ICaps
    <3>2. {c \in charged : c.day = k.dayKey} = {}
      BY <1>1, <1>2, <1>3, <3>1
    <3>3. k.daily = 0
      BY <1>1, <2>2
    <3> HIDE DEF k
    <3>4. Cardinality({c \in charged : c.day = k.dayKey}) = 0
      BY <3>2, FS_EmptySet
    <3> QED BY <3>3, <3>4
  <2> QED BY <2>1, <2>2
<1>5. k.weekly >= Cardinality({c \in charged : c.week = k.weekKey})
  <2>1. CASE counters.weekKey = WeekOf[now]
    BY <1>1, <2>1 DEF ICaps, Covers
  <2>2. CASE counters.weekKey # WeekOf[now]
    <3>1. counters.weekKey < WeekOf[now]
      BY <1>1, <1>2, <2>2 DEF ICaps
    <3>2. {c \in charged : c.week = k.weekKey} = {}
      BY <1>1, <1>2, <1>3, <3>1
    <3>3. k.weekly = 0
      BY <1>1, <2>2
    <3> HIDE DEF k
    <3>4. Cardinality({c \in charged : c.week = k.weekKey}) = 0
      BY <3>2, FS_EmptySet
    <3> QED BY <3>3, <3>4
  <2> QED BY <2>1, <2>2
<1>6. \A c \in charged : c.day =< k.dayKey /\ c.week =< k.weekKey
  BY <1>1, <1>2, <1>3 DEF ICaps
<1> QED BY <1>1, <1>4, <1>5, <1>6 DEF Covers

\* Adding one slot adds at most one to any count of slots.
LEMMA OneMore ==
  ASSUME NEW S, IsFiniteSet(S), NEW x, NEW P, P \subseteq S \cup {x}
  PROVE  Cardinality(P) =< Cardinality(P \ {x}) + 1 /\ IsFiniteSet(P \ {x})
         /\ Cardinality(P \ {x}) \in Nat
<1>1. IsFiniteSet(S \cup {x})
  BY FS_AddElement
<1>2. IsFiniteSet(P) /\ IsFiniteSet(P \ {x})
  BY <1>1, FS_Subset, FS_RemoveElement
<1>3. CASE x \in P
  BY <1>2, <1>3, FS_RemoveElement, FS_CardinalityType
<1>4. CASE x \notin P
  <2>1. P \ {x} = P
    BY <1>4
  <2>2. Cardinality(P) \in Nat
    BY <1>2, FS_CardinalityType
  <2>3. Cardinality(P) =< Cardinality(P) + 1
    BY <2>2
  <2> QED BY <1>2, <2>1, <2>2, <2>3
<1> QED BY <1>3, <1>4

\* A slot of the bucket of k may be added if the counters are.
LEMMA IncrementCovers ==
  ASSUME NEW k \in Counters, NEW S, IsFiniteSet(S), Covers(k, S), NEW x,
         x.day = k.dayKey, x.week = k.weekKey
  PROVE  Covers(Incremented(k), S \cup {x}) /\ IsFiniteSet(S \cup {x})
<1> DEFINE n == Incremented(k)
           D(T) == {c \in T : c.day = k.dayKey}
           W(T) == {c \in T : c.week = k.weekKey}
<1>1. n.daily = k.daily + 1 /\ n.weekly = k.weekly + 1 /\ n.dayKey = k.dayKey /\ n.weekKey = k.weekKey
      /\ k.daily \in Nat /\ k.weekly \in Nat /\ k.dayKey \in Nat /\ k.weekKey \in Nat
  BY IncrementType DEF Counters
<1>2. IsFiniteSet(S \cup {x}) /\ IsFiniteSet(D(S)) /\ IsFiniteSet(W(S))
  BY FS_AddElement, FS_Subset
<1>3. D(S \cup {x}) \ {x} \subseteq D(S) /\ W(S \cup {x}) \ {x} \subseteq W(S)
  OBVIOUS
<1>4. /\ Cardinality(D(S \cup {x}) \ {x}) =< Cardinality(D(S)) /\ Cardinality(D(S)) \in Nat
      /\ Cardinality(W(S \cup {x}) \ {x}) =< Cardinality(W(S)) /\ Cardinality(W(S)) \in Nat
  BY <1>2, <1>3, FS_Subset, FS_CardinalityType
<1>5. /\ Cardinality(D(S \cup {x})) =< Cardinality(D(S \cup {x}) \ {x}) + 1
      /\ Cardinality(D(S \cup {x}) \ {x}) \in Nat
  <2> HIDE DEF D
  <2>1. D(S \cup {x}) \subseteq S \cup {x}
    BY DEF D
  <2> QED BY <2>1, OneMore
<1>6. /\ Cardinality(W(S \cup {x})) =< Cardinality(W(S \cup {x}) \ {x}) + 1
      /\ Cardinality(W(S \cup {x}) \ {x}) \in Nat
  <2> HIDE DEF W
  <2>1. W(S \cup {x}) \subseteq S \cup {x}
    BY DEF W
  <2> QED BY <2>1, OneMore
<1>7. /\ Cardinality(D(S \cup {x})) \in Nat /\ Cardinality(W(S \cup {x})) \in Nat
  BY <1>2, FS_Subset, FS_CardinalityType
<1>8. k.daily >= Cardinality(D(S)) /\ k.weekly >= Cardinality(W(S))
  BY DEF Covers
<1>9. n.daily >= Cardinality(D(S \cup {x})) /\ n.weekly >= Cardinality(W(S \cup {x}))
  <2> HIDE DEF D, W, n
  <2> QED BY <1>1, <1>4, <1>5, <1>6, <1>7, <1>8
<1>10. \A c \in S \cup {x} : c.day =< n.dayKey /\ c.week =< n.weekKey
  BY <1>1 DEF Covers
<1> QED BY <1>1, <1>2, <1>9, <1>10 DEF Covers

\* What CheckAndIncrement and Snapshot leave behind for a fresh reading.
LEMMA CheckCovers ==
  ASSUME TypeOK, ICaps, NEW i \in Instants, Fresh(i),
         \/ Refuses(i) \/ CheckErrs(i) \/ SnapshotErrs(i)
         \/ \E allowed \in BOOLEAN : Snapshot(i, allowed)
  PROVE  Covers(counters', charged) /\ counters'.dayKey =< DayOf[now]
                                   /\ counters'.weekKey =< WeekOf[now]
<1> DEFINE k == RolloverCounters(i, counters)
<1>1. Covers(k, charged) /\ k.dayKey = DayOf[now] /\ k.weekKey = WeekOf[now] /\ k \in Counters
  BY RolloverCovers, RolloverType DEF TypeOK
<1>2. DayOf[now] \in Nat /\ WeekOf[now] \in Nat
  BY BudgetAssumption DEF TypeOK
<1> HIDE DEF k
<1>3. counters' \in {counters, k, Incremented(k)}
  BY DEF Refuses, CheckErrs, SnapshotErrs, Snapshot, Admits, k
<1>4. CASE counters' = Incremented(k)
  <2>1. /\ Incremented(k).daily = k.daily + 1 /\ Incremented(k).weekly = k.weekly + 1
        /\ Incremented(k).dayKey = k.dayKey /\ Incremented(k).weekKey = k.weekKey
        /\ k.daily \in Nat /\ k.weekly \in Nat
    BY <1>1, IncrementType DEF Counters
  <2>2. /\ Cardinality({c \in charged : c.day = k.dayKey}) \in Nat
        /\ Cardinality({c \in charged : c.week = k.weekKey}) \in Nat
    BY FS_Subset, FS_CardinalityType DEF ICaps
  <2> QED BY <1>1, <1>2, <1>4, <2>1, <2>2 DEF Covers
<1>5. CASE counters' = k
  BY <1>1, <1>2, <1>5
<1>6. CASE counters' = counters
  BY <1>6 DEF ICaps
<1> QED BY <1>3, <1>4, <1>5, <1>6

\* An admitted call: the cap was not reached, and one slot is added to both.
LEMMA AdmitCovers ==
  ASSUME TypeOK, ICaps, NEW c \in Calls, at[c] # 0, NEW who \in {"worker", "cron"},
         Admits(at[c]), Charge(c, who)
  PROVE  /\ Covers(counters', charged') /\ IsFiniteSet(charged')
         /\ counters'.dayKey =< DayOf[now] /\ counters'.weekKey =< WeekOf[now]
         /\ \A x \in charged' \ charged :
              /\ ~Reached(Effective.daily, Cardinality(ChargedOn(x.day)))
              /\ ~Reached(Effective.weekly, Cardinality(ChargedIn(x.week)))
<1> DEFINE i == at[c]
           k == RolloverCounters(i, counters)
           x == [task |-> c, by |-> who, day |-> DayOf[i], week |-> WeekOf[i]]
<1>1. i \in Instants /\ Fresh(i) /\ DayOf[i] = DayOf[now] /\ WeekOf[i] = WeekOf[now]
      /\ DayOf[now] \in Nat /\ WeekOf[now] \in Nat
  BY BudgetAssumption DEF TypeOK, ICaps, Fresh
<1>2. Covers(k, charged) /\ k.dayKey = DayOf[now] /\ k.weekKey = WeekOf[now] /\ k \in Counters
  BY <1>1, RolloverCovers, RolloverType DEF TypeOK
<1>3. charged' = charged \cup {x} /\ x.day = k.dayKey /\ x.week = k.weekKey
  BY <1>1, <1>2 DEF Charge
<1>4. WithinCap(Effective, k) /\ counters' = Incremented(k)
  BY DEF Admits, EvaluateBudget
<1> HIDE DEF k, x, i
<1>5. Covers(counters', charged') /\ IsFiniteSet(charged')
  BY <1>2, <1>3, <1>4, IncrementCovers DEF ICaps
<1>6. counters'.dayKey = DayOf[now] /\ counters'.weekKey = WeekOf[now]
  BY <1>2, <1>4, IncrementType
<1>7. /\ k.daily >= Cardinality(ChargedOn(x.day)) /\ Cardinality(ChargedOn(x.day)) \in Nat
      /\ k.weekly >= Cardinality(ChargedIn(x.week)) /\ Cardinality(ChargedIn(x.week)) \in Nat
      /\ k.daily \in Nat /\ k.weekly \in Nat
  BY <1>2, <1>3, FS_Subset, FS_CardinalityType
  DEF Covers, ChargedOn, ChargedIn, ICaps, Counters
<1>8. Effective.daily \in Nat /\ Effective.weekly \in Nat
  BY BudgetAssumption DEF Effective, TypeOK, Cap
<1>9. ~Reached(Effective.daily, k.daily) /\ ~Reached(Effective.weekly, k.weekly)
  BY <1>4 DEF WithinCap
<1>10. /\ ~Reached(Effective.daily, Cardinality(ChargedOn(x.day)))
       /\ ~Reached(Effective.weekly, Cardinality(ChargedIn(x.week)))
  BY <1>7, <1>8, <1>9 DEF Reached
<1> QED BY <1>1, <1>3, <1>5, <1>6, <1>10

\* The part of ICaps that speaks of readings.
ReadingsFresh == Fresh(look) /\ \A c \in Calls : Fresh(at[c])

LEMMA CapsInit == Init => ICaps
<1> SUFFICES ASSUME Init PROVE ICaps
  OBVIOUS
<1>1. IsFiniteSet({}) /\ Cardinality({}) = 0
  BY FS_EmptySet
<1>2. {c \in charged : c.day = 0} = {} /\ {c \in charged : c.week = 0} = {}
  BY DEF Init
<1>3. DayOf[1] \in Nat /\ WeekOf[1] \in Nat
  BY BudgetAssumption
<1> QED BY <1>1, <1>2, <1>3 DEF Init, ICaps, Covers, NoCounters, Fresh

\* A reading of the present, or none, is fresh while the clock stands still.
LEMMA MoveFresh ==
  ASSUME TypeOK, ReadingsFresh, UNCHANGED now, look' \in {look, now, 0},
         \/ UNCHANGED at
         \/ \E c \in Calls : Reading(c, 0) \/ Reading(c, now)
         \/ at' = [c \in Calls |-> 0]
  PROVE  ReadingsFresh'
<1>1. Fresh(look)'
  BY DEF ReadingsFresh, Fresh
<1>2. \A c \in Calls : at'[c] \in {at[c], 0, now}
  BY DEF TypeOK, Reading
<1>3. \A c \in Calls : Fresh(at[c])'
  BY <1>2 DEF ReadingsFresh, Fresh
<1> QED BY <1>1, <1>3 DEF ReadingsFresh

\* No slot is taken and the counters still cover: nothing else to show.
LEMMA CapsFrame ==
  ASSUME ICaps, UNCHANGED <<charged, now>>, Covers(counters', charged),
         counters'.dayKey =< DayOf[now], counters'.weekKey =< WeekOf[now], ReadingsFresh'
  PROVE  ICaps'
<1>1. Covers(counters, charged)'
  BY DEF Covers
<1> QED BY <1>1 DEF ICaps, ReadingsFresh

CapsStep ==
  \A c \in charged' \ charged :
    /\ ~Reached(Effective.daily, Cardinality(ChargedOn(c.day)))
    /\ ~Reached(Effective.weekly, Cardinality(ChargedIn(c.week)))

\* One case per action; only the two gates take slots.
LEMMA CapsNext ==
  ASSUME ~SlowCalls PROVE TypeOK /\ ICaps /\ [Next]_vars => ICaps' /\ CapsStep
<1> SUFFICES ASSUME TypeOK, ICaps, [Next]_vars PROVE ICaps' /\ CapsStep
  OBVIOUS
<1> USE DEF stored, history
<1>a. ReadingsFresh /\ Covers(counters, charged)
      /\ counters.dayKey =< DayOf[now] /\ counters.weekKey =< WeekOf[now]
  BY DEF ICaps, ReadingsFresh
\* A step that leaves the counters, the slots and the clock alone.
<1>b. ASSUME UNCHANGED <<counters, charged, now>>, look' \in {look, now, 0},
             \/ UNCHANGED at
             \/ \E c \in Calls : Reading(c, 0) \/ Reading(c, now)
             \/ at' = [c \in Calls |-> 0]
      PROVE  ICaps' /\ CapsStep
  <2>1. ReadingsFresh'
    BY <1>a, <1>b, MoveFresh
  <2>2. ICaps'
    BY <1>a, <1>b, <2>1, CapsFrame
  <2> QED BY <1>b, <2>2 DEF CapsStep
\* A step that takes no slot and may roll the counters over.
<1>c. ASSUME NEW i \in Instants, Fresh(i), UNCHANGED <<charged, now>>, look' \in {look, 0},
             \/ UNCHANGED at
             \/ \E c \in Calls : Reading(c, 0),
             \/ Refuses(i) \/ CheckErrs(i) \/ SnapshotErrs(i)
             \/ \E allowed \in BOOLEAN : Snapshot(i, allowed)
      PROVE  ICaps' /\ CapsStep
  <2>1. ReadingsFresh'
    BY <1>a, <1>c, MoveFresh
  <2>2. Covers(counters', charged) /\ counters'.dayKey =< DayOf[now]
                                  /\ counters'.weekKey =< WeekOf[now]
    BY <1>c, CheckCovers
  <2>3. ICaps'
    BY <1>c, <2>1, <2>2, CapsFrame
  <2> QED BY <1>c, <2>3 DEF CapsStep
\* A call that is admitted.
<1>d. ASSUME NEW c \in Calls, at[c] # 0, NEW who \in {"worker", "cron"},
             Admits(at[c]), Charge(c, who), UNCHANGED <<now, look>>,
             UNCHANGED at \/ Reading(c, 0)
      PROVE  ICaps' /\ CapsStep
  <2>1. ReadingsFresh'
    BY <1>a, <1>d, MoveFresh
  <2>2. /\ Covers(counters', charged') /\ IsFiniteSet(charged')
        /\ counters'.dayKey =< DayOf[now] /\ counters'.weekKey =< WeekOf[now]
        /\ CapsStep
    BY <1>d, AdmitCovers DEF CapsStep
  <2>3. Covers(counters, charged)'
    BY <2>2 DEF Covers
  <2>4. ICaps'
    BY <1>d, <2>1, <2>2, <2>3 DEF ICaps, ReadingsFresh
  <2> QED BY <2>2, <2>4
<1>0. CASE UNCHANGED vars
  BY <1>0, <1>b DEF vars
<1>1. CASE AdvanceClock
  <2>1. now \in Instants /\ now' \in Instants /\ now' = now + 1
    BY <1>1, BudgetAssumption DEF AdvanceClock, TypeOK
  <2>2. DayOf[now] =< DayOf[now'] /\ WeekOf[now] =< WeekOf[now']
        /\ DayOf[now] \in Nat /\ WeekOf[now] \in Nat
        /\ DayOf[now'] \in Nat /\ WeekOf[now'] \in Nat
    BY <2>1, BudgetAssumption
  <2>3. counters'.dayKey =< DayOf[now'] /\ counters'.weekKey =< WeekOf[now']
    <3>1. counters.dayKey \in Nat /\ counters.weekKey \in Nat
      BY DEF TypeOK, Counters
    <3> QED BY <1>a, <1>1, <2>2, <3>1 DEF AdvanceClock
  <2>4. ReadingsFresh'
    BY <1>1, <2>1 DEF AdvanceClock, ReadingsFresh, Fresh
  <2>5. UNCHANGED <<counters, charged>>
    BY <1>1 DEF AdvanceClock
  <2>6. Covers(counters, charged)' /\ IsFiniteSet(charged)'
    BY <1>a, <2>5 DEF ICaps, Covers
  <2> QED BY <2>3, <2>4, <2>5, <2>6 DEF ICaps, ReadingsFresh, CapsStep
<1>2. CASE Look
  BY <1>2, <1>b DEF Look
<1>3. CASE Looked
  <2>1. look \in Instants /\ Fresh(look)
    BY <1>3, <1>a DEF Looked, TypeOK, ReadingsFresh
  <2> QED BY <1>3, <2>1, <1>c DEF Looked
<1>4. CASE Crash
  BY <1>4, <1>b DEF Crash
<1>5. ASSUME NEW tasks \in SUBSET Calls, Dispatch(tasks) PROVE ICaps' /\ CapsStep
  <2>1. look \in Instants /\ Fresh(look)
    BY <1>5, <1>a DEF Dispatch, TypeOK, ReadingsFresh
  <2> QED BY <1>5, <2>1, <1>c DEF Dispatch
<1>6. ASSUME NEW c \in Calls, ReachGate(c) PROVE ICaps' /\ CapsStep
  BY <1>6, <1>b DEF ReachGate
<1>7. ASSUME NEW c \in Calls, WorkerGate(c) PROVE ICaps' /\ CapsStep
  <2>1. at[c] \in Instants /\ at[c] # 0 /\ Fresh(at[c])
    BY <1>7, <1>a DEF WorkerGate, TypeOK, ReadingsFresh
  <2>2. CASE Admits(at[c]) /\ Charge(c, "worker")
    BY <1>7, <2>1, <2>2, <1>d DEF WorkerGate
  <2>3. CASE (Refuses(at[c]) \/ CheckErrs(at[c])) /\ UNCHANGED charged
    BY <1>7, <2>1, <2>3, <1>c DEF WorkerGate
  <2> QED BY <1>7, <2>2, <2>3 DEF WorkerGate
<1>8. ASSUME NEW c \in Calls, ClaudeEnds(c) PROVE ICaps' /\ CapsStep
  BY <1>8, <1>b DEF ClaudeEnds
<1>9. ASSUME NEW c \in Calls, NEW s \in Signals, RateLimited(c, s) PROVE ICaps' /\ CapsStep
  BY <1>9, <1>b DEF RateLimited
<1>10. ASSUME NEW f \in Fires, Fire(f) PROVE ICaps' /\ CapsStep
  BY <1>10, <1>b DEF Fire
<1>11. ASSUME NEW f \in Fires, GlobalGate(f) PROVE ICaps' /\ CapsStep
  <2>1. at[f] \in Instants /\ at[f] # 0 /\ Fresh(at[f])
    BY <1>11, <1>a DEF GlobalGate, TypeOK, ReadingsFresh
  <2>2. CASE Admits(at[f]) /\ Charge(f, "cron") /\ UNCHANGED at
    BY <1>11, <2>1, <2>2, <1>d DEF GlobalGate
  <2>3. CASE (Refuses(at[f]) \/ CheckErrs(at[f])) /\ UNCHANGED charged /\ Reading(f, 0)
    BY <1>11, <2>1, <2>3, <1>c DEF GlobalGate
  <2> QED BY <1>11, <2>2, <2>3 DEF GlobalGate
<1>12. ASSUME NEW f \in Fires, SubGate(f) PROVE ICaps' /\ CapsStep
  BY <1>12, <1>b DEF SubGate
<1>13. ASSUME NEW o \in Overrides, SetLimits(o) PROVE ICaps' /\ CapsStep
  BY <1>13, <1>b DEF SetLimits
<1> QED BY <1>0, <1>1, <1>2, <1>3, <1>4, <1>5, <1>6, <1>7, <1>8, <1>9, <1>10,
           <1>11, <1>12, <1>13 DEF Next

\* CheckAndIncrement's mutex and the rollover together keep both caps, through
\* crashes, failed statements and changes of the caps, as long as no reading is
\* used after its day or week.
THEOREM CapsSafe == ASSUME ~SlowCalls PROVE Spec => CapsHold
<1>1. Spec => [](TypeOK /\ ICaps)
  BY TypeInit, TypeNext, CapsInit, CapsNext, PTL DEF Spec
<1>2. TypeOK /\ ICaps /\ [Next]_vars => [CapsStep]_vars
  BY CapsNext
<1>3. [][CapsStep]_vars <=> CapsHold
  BY DEF CapsStep, CapsHold
<1> QED BY <1>1, <1>2, <1>3, PTL DEF Spec

\* The stored counters are never behind the slots taken in their bucket
\* (RolloverCounters).
THEOREM CountersSafe == ASSUME ~SlowCalls PROVE Spec => []CountersCover
<1>1. Spec => [](TypeOK /\ ICaps)
  BY TypeInit, TypeNext, CapsInit, CapsNext, PTL DEF Spec
<1>2. ICaps => CountersCover
  BY DEF ICaps, Covers, CountersCover, ChargedOn, ChargedIn
<1> QED BY <1>1, <1>2, PTL
-----------------------------------------------------------------------------
(* The sub-caps                                                             *)

CreatedBy(j) == {e \in created : JobOf[e.task] = j}
Uncapped(j) == SubCap[j] = [daily |-> 0, weekly |-> 0]

\* The counters of a job with a cap cover the tasks it has created.
ISub ==
  /\ IsFiniteSet(created)
  /\ \A j \in Jobs : ~Uncapped(j) =>
       /\ Covers(sub[j], CreatedBy(j))
       /\ sub[j].dayKey =< DayOf[now] /\ sub[j].weekKey =< WeekOf[now]

\* Rolling over loses nothing of the present bucket, whatever is counted.
LEMMA RolloverCoversAny ==
  ASSUME TypeOK, NEW k0 \in Counters, NEW S \in SUBSET created, Covers(k0, S),
         k0.dayKey =< DayOf[now], k0.weekKey =< WeekOf[now],
         NEW i \in Instants, Fresh(i)
  PROVE  LET k == RolloverCounters(i, k0)
         IN  /\ k \in Counters /\ Covers(k, S)
             /\ k.dayKey = DayOf[now] /\ k.weekKey = WeekOf[now]
<1> DEFINE k == RolloverCounters(i, k0)
<1>1. /\ k.dayKey = DayOf[now] /\ k.weekKey = WeekOf[now]
      /\ DayOf[now] \in Nat /\ WeekOf[now] \in Nat
      /\ k.daily = IF k0.dayKey = DayOf[now] THEN k0.daily ELSE 0
      /\ k.weekly = IF k0.weekKey = WeekOf[now] THEN k0.weekly ELSE 0
  BY BudgetAssumption DEF Fresh, RolloverCounters, TypeOK
<1>2. k0.dayKey \in Nat /\ k0.weekKey \in Nat
  BY DEF Counters
<1>3. \A c \in S : c.day \in Nat /\ c.week \in Nat /\ c.day =< k0.dayKey /\ c.week =< k0.weekKey
  BY DEF Covers, TypeOK
<1>4. k \in Counters
  BY RolloverType
<1> HIDE DEF k
<1>5. k.daily >= Cardinality({c \in S : c.day = k.dayKey})
  <2>1. CASE k0.dayKey = DayOf[now]
    BY <1>1, <2>1 DEF Covers
  <2>2. CASE k0.dayKey # DayOf[now]
    <3>1. {c \in S : c.day = k.dayKey} = {}
      BY <1>1, <1>2, <1>3, <2>2
    <3>2. Cardinality({c \in S : c.day = k.dayKey}) = 0
      BY <3>1, FS_EmptySet
    <3> QED BY <1>1, <2>2, <3>2
  <2> QED BY <2>1, <2>2
<1>6. k.weekly >= Cardinality({c \in S : c.week = k.weekKey})
  <2>1. CASE k0.weekKey = WeekOf[now]
    BY <1>1, <2>1 DEF Covers
  <2>2. CASE k0.weekKey # WeekOf[now]
    <3>1. {c \in S : c.week = k.weekKey} = {}
      BY <1>1, <1>2, <1>3, <2>2
    <3>2. Cardinality({c \in S : c.week = k.weekKey}) = 0
      BY <3>1, FS_EmptySet
    <3> QED BY <1>1, <2>2, <3>2
  <2> QED BY <2>1, <2>2
<1>7. \A c \in S : c.day =< k.dayKey /\ c.week =< k.weekKey
  BY <1>1, <1>2, <1>3
<1> QED BY <1>1, <1>4, <1>5, <1>6, <1>7 DEF Covers, k

\* A number that covers the slots does so when it is one higher.
LEMMA IncrementedStill ==
  ASSUME NEW k \in Counters, NEW S, IsFiniteSet(S), Covers(k, S)
  PROVE  Covers(Incremented(k), S)
<1>1. /\ Incremented(k).daily = k.daily + 1 /\ Incremented(k).weekly = k.weekly + 1
      /\ Incremented(k).dayKey = k.dayKey /\ Incremented(k).weekKey = k.weekKey
      /\ k.daily \in Nat /\ k.weekly \in Nat
  BY IncrementType DEF Counters
<1>2. /\ Cardinality({c \in S : c.day = k.dayKey}) \in Nat
      /\ Cardinality({c \in S : c.week = k.weekKey}) \in Nat
  BY FS_Subset, FS_CardinalityType
<1> QED BY <1>1, <1>2 DEF Covers

SubCapsStep ==
  \A c \in created' \ created :
    LET same == {e \in created : JobOf[e.task] = JobOf[c.task]}
        cap  == SubCap[JobOf[c.task]]
    IN  /\ ~Reached(cap.daily, Cardinality({e \in same : e.day = c.day}))
        /\ ~Reached(cap.weekly, Cardinality({e \in same : e.week = c.week}))

LEMMA SubInit == Init => ISub
<1> SUFFICES ASSUME Init PROVE ISub
  OBVIOUS
<1>1. IsFiniteSet({}) /\ Cardinality({}) = 0
  BY FS_EmptySet
<1>2. DayOf[1] \in Nat /\ WeekOf[1] \in Nat
  BY BudgetAssumption
<1>3. ASSUME NEW j \in Jobs
      PROVE  /\ Covers(sub[j], CreatedBy(j))
             /\ sub[j].dayKey =< DayOf[now] /\ sub[j].weekKey =< WeekOf[now]
  <2>1. CreatedBy(j) = {} /\ sub[j] = NoCounters /\ now = 1
    BY DEF Init, CreatedBy
  <2>2. {c \in CreatedBy(j) : c.day = 0} = {} /\ {c \in CreatedBy(j) : c.week = 0} = {}
    BY <2>1
  <2> QED BY <1>1, <1>2, <2>1, <2>2 DEF Covers, NoCounters
<1> QED BY <1>1, <1>3 DEF Init, ISub

\* Only SubGate touches what ISub speaks of; the clock only moves the keys on.
LEMMA SubFrame ==
  ASSUME TypeOK, TypeOK', ISub, UNCHANGED <<sub, created>>,
         now' = now \/ (now' \in Instants /\ now' = now + 1)
  PROVE  ISub' /\ SubCapsStep
<1>1. DayOf[now] =< DayOf[now'] /\ WeekOf[now] =< WeekOf[now']
      /\ DayOf[now] \in Nat /\ WeekOf[now] \in Nat
      /\ DayOf[now'] \in Nat /\ WeekOf[now'] \in Nat
  BY BudgetAssumption DEF TypeOK
<1>2. \A j \in Jobs : sub[j].dayKey \in Nat /\ sub[j].weekKey \in Nat
  BY DEF TypeOK, Counters
<1>3. ASSUME NEW j \in Jobs, ~Uncapped(j)
      PROVE  /\ Covers(sub[j], CreatedBy(j))'
             /\ sub'[j].dayKey =< DayOf[now'] /\ sub'[j].weekKey =< WeekOf[now']
  BY <1>1, <1>2, <1>3 DEF ISub, Covers, CreatedBy
<1>4. SubCapsStep
  BY DEF SubCapsStep
<1> QED BY <1>3, <1>4 DEF ISub

LEMMA SubGateKeeps ==
  ASSUME TypeOK, ISub, ReadingsFresh, NEW f \in Fires, SubGate(f)
  PROVE  ISub' /\ SubCapsStep
<1> DEFINE j == JobOf[f]
           k == RolloverCounters(at[f], sub[j])
           x == [task |-> f, day |-> DayOf[at[f]], week |-> WeekOf[at[f]]]
<1>1. /\ j \in Jobs /\ at[f] \in Instants /\ Fresh(at[f]) /\ sub[j] \in Counters
      /\ sub \in [Jobs -> Counters] /\ UNCHANGED now
      /\ DayOf[now] \in Nat /\ WeekOf[now] \in Nat
  BY BudgetAssumption DEF SubGate, TypeOK, ReadingsFresh
<1>2. DayOf[at[f]] = DayOf[now] /\ WeekOf[at[f]] = WeekOf[now]
  BY <1>1, BudgetAssumption DEF Fresh
<1>3. IsFiniteSet(CreatedBy(j))
  BY FS_Subset DEF ISub, CreatedBy
<1>4. ~Uncapped(j) => /\ k \in Counters /\ Covers(k, CreatedBy(j))
                      /\ k.dayKey = DayOf[now] /\ k.weekKey = WeekOf[now]
  <2>1. CreatedBy(j) \in SUBSET created
    BY DEF CreatedBy
  <2> QED BY <1>1, <2>1, RolloverCoversAny DEF ISub
<1>5. x.task = f /\ x.day = DayOf[now] /\ x.week = WeekOf[now]
  BY <1>2
<1>6. /\ \/ created' = created \cup {x} /\ WithinCap(SubCap[j], k)
         \/ UNCHANGED created
      /\ \/ Uncapped(j) /\ UNCHANGED sub
         \/ ~Uncapped(j) /\ sub' = [sub EXCEPT ![j] = Incremented(k)]
         \/ UNCHANGED sub /\ UNCHANGED created
  BY DEF SubGate, Uncapped
<1> HIDE DEF k, x, j
<1>7. \A e \in created' : e \in created \/ (e = x /\ JobOf[e.task] = j)
  BY <1>5, <1>6 DEF j
<1>8. ASSUME NEW i \in Jobs, i # j, ~Uncapped(i)
      PROVE  /\ Covers(sub[i], CreatedBy(i))'
             /\ sub'[i].dayKey =< DayOf[now'] /\ sub'[i].weekKey =< WeekOf[now']
  <2>1. CreatedBy(i)' = CreatedBy(i)
    BY <1>6, <1>7, <1>8 DEF CreatedBy
  <2>2. sub'[i] = sub[i]
    BY <1>1, <1>6, <1>8
  <2> QED BY <1>1, <1>8, <2>1, <2>2 DEF ISub, Covers
<1>9. ASSUME ~Uncapped(j)
      PROVE  /\ Covers(sub[j], CreatedBy(j))'
             /\ sub'[j].dayKey =< DayOf[now'] /\ sub'[j].weekKey =< WeekOf[now']
  <2>1. CASE UNCHANGED sub /\ UNCHANGED created
    <3>1. CreatedBy(j)' = CreatedBy(j)
      BY <2>1 DEF CreatedBy
    <3> QED BY <1>1, <1>9, <2>1, <3>1 DEF ISub, Covers
  <2>2. CASE sub' = [sub EXCEPT ![j] = Incremented(k)]
    <3>1. /\ sub'[j] = Incremented(k)
          /\ Incremented(k).dayKey = k.dayKey /\ Incremented(k).weekKey = k.weekKey
      BY <1>1, <1>4, <1>9, <2>2, IncrementType
    <3>2. CASE UNCHANGED created
      <4>1. CreatedBy(j)' = CreatedBy(j)
        BY <3>2 DEF CreatedBy
      <4>2. Covers(Incremented(k), CreatedBy(j))
        BY <1>3, <1>4, <1>9, IncrementedStill
      <4> QED BY <1>1, <1>4, <1>9, <3>1, <4>1, <4>2 DEF Covers
    <3>3. CASE created' = created \cup {x}
      <4>1. CreatedBy(j)' = CreatedBy(j) \cup {x}
        BY <1>5, <3>3 DEF CreatedBy, j
      <4>2. Covers(Incremented(k), CreatedBy(j) \cup {x})
        BY <1>3, <1>4, <1>5, <1>9, IncrementCovers
      <4> QED BY <1>1, <1>4, <1>9, <3>1, <4>1, <4>2 DEF Covers
    <3> QED BY <1>6, <3>2, <3>3
  <2> QED BY <1>6, <1>9, <2>1, <2>2
<1>10. IsFiniteSet(created')
  BY <1>6, FS_AddElement DEF ISub
<1>11. ISub'
  BY <1>8, <1>9, <1>10 DEF ISub, Uncapped
<1>12. SubCapsStep
  <2> SUFFICES ASSUME NEW c \in created' \ created
               PROVE  /\ ~Reached(SubCap[j].daily, Cardinality({e \in CreatedBy(j) : e.day = c.day}))
                      /\ ~Reached(SubCap[j].weekly, Cardinality({e \in CreatedBy(j) : e.week = c.week}))
    BY <1>7 DEF SubCapsStep, CreatedBy
  <2>1. c = x /\ WithinCap(SubCap[j], k)
    BY <1>6
  <2>2. CASE Uncapped(j)
    BY <2>2 DEF Uncapped, Reached
  <2>3. CASE ~Uncapped(j)
    <3>1. /\ k.daily >= Cardinality({e \in CreatedBy(j) : e.day = c.day})
          /\ k.weekly >= Cardinality({e \in CreatedBy(j) : e.week = c.week})
          /\ k.daily \in Nat /\ k.weekly \in Nat
      BY <1>4, <1>5, <2>1, <2>3 DEF Covers, Counters
    <3>2. /\ Cardinality({e \in CreatedBy(j) : e.day = c.day}) \in Nat
          /\ Cardinality({e \in CreatedBy(j) : e.week = c.week}) \in Nat
      BY <1>3, FS_Subset, FS_CardinalityType
    <3>3. SubCap[j].daily \in Nat /\ SubCap[j].weekly \in Nat
      BY <1>1, BudgetAssumption DEF Cap
    <3> QED BY <2>1, <3>1, <3>2, <3>3 DEF WithinCap, Reached
  <2> QED BY <2>2, <2>3
<1> QED BY <1>11, <1>12

LEMMA SubNext == TypeOK /\ ReadingsFresh /\ ISub /\ [Next]_vars => ISub' /\ SubCapsStep
<1> SUFFICES ASSUME TypeOK, TypeOK', ReadingsFresh, ISub, [Next]_vars PROVE ISub' /\ SubCapsStep
  BY TypeNext
<1>1. CASE \E f \in Fires : SubGate(f)
  BY <1>1, SubGateKeeps
<1>2. CASE ~\E f \in Fires : SubGate(f)
  <2>1. /\ UNCHANGED <<sub, created>>
        /\ now' = now \/ now' = now + 1
    BY <1>2 DEF Next, vars, AdvanceClock, Look, Looked, Crash, Dispatch, ReachGate, WorkerGate,
                ClaudeEnds, RateLimited, Fire, GlobalGate, SetLimits, stored, history
  <2> QED BY <2>1, SubFrame DEF TypeOK
<1> QED BY <1>1, <1>2

\* Firings of a job create no more tasks in a day or a week than its own cap, in
\* any interleaving and through statements that fail, as long as no reading is
\* used after its day or week (checkAndIncrementSubCap under the mutex).
THEOREM SubCapsSafe == ASSUME ~SlowCalls PROVE Spec => SubCapsHold
<1>1. Spec => [](TypeOK /\ ICaps)
  BY TypeInit, TypeNext, CapsInit, CapsNext, PTL DEF Spec
<1>2. ICaps => ReadingsFresh
  BY DEF ICaps, ReadingsFresh
<1>3. TypeOK /\ ReadingsFresh /\ ISub /\ [Next]_vars => ISub'
  BY SubNext
<1>4. TypeOK /\ ReadingsFresh /\ ISub /\ [Next]_vars => [SubCapsStep]_vars
  BY SubNext
<1>5. [][SubCapsStep]_vars <=> SubCapsHold
  BY DEF SubCapsStep, SubCapsHold
<1> QED BY <1>1, <1>2, <1>3, <1>4, <1>5, SubInit, PTL DEF Spec
-----------------------------------------------------------------------------
(* What Validate and ResolvedLimits guarantee, for every configuration       *)

\* Budget's two caps are both there or both missing, and the day's is never above
\* the week's (validate.go ResolvedLimits).
THEOREM AcceptedCapsInOrder ==
  ASSUME NEW s \in [Options -> Int], ValidLimits(s)
  PROVE  CapsInOrder(s)
<1> DEFINE daily == s["limits.daily_max_tasks"]
           weekly == s["limits.weekly_max_tasks"]
<1>1. daily \in Nat /\ weekly \in Nat /\ (daily > 0 /\ weekly > 0 => daily =< weekly)
  BY DEF ValidLimits, Options, Defaults
<1> HIDE DEF daily, weekly
<1>2. CASE daily = 0 /\ weekly > 0
  <2>1. (weekly + 6) \div 7 \in Nat \ {0} /\ (weekly + 6) \div 7 =< weekly
    BY <1>1, <1>2
  <2> QED
    BY <1>1, <1>2, <2>1 DEF CapsInOrder, ResolvedLimits, daily, weekly
<1>3. CASE daily > 0 /\ weekly = 0
  BY <1>1, <1>3 DEF CapsInOrder, ResolvedLimits, daily, weekly
<1>4. CASE (daily > 0 /\ weekly > 0) \/ (daily = 0 /\ weekly = 0)
  BY <1>1, <1>4 DEF CapsInOrder, ResolvedLimits, daily, weekly
<1> QED
  BY <1>1, <1>2, <1>3, <1>4

\* The derived cap is the smallest daily one that lets the week be used up
\* (validate.go:173, "daily = ceil(weekly / 7)").
THEOREM DerivedCapFits ==
  ASSUME NEW s \in [Options -> Int], ValidLimits(s)
  PROVE  WeekReachable(s)
<1> DEFINE daily == s["limits.daily_max_tasks"]
           weekly == s["limits.weekly_max_tasks"]
<1>1. daily \in Nat /\ weekly \in Nat
  BY DEF ValidLimits, Options, Defaults
<1> HIDE DEF daily, weekly
<1>2. CASE daily = 0 /\ weekly > 0
  <2> DEFINE derived == (weekly + 6) \div 7
  <2>1. derived \in Nat /\ weekly =< 7 * derived /\ 7 * derived < weekly + 7
    BY <1>1, <1>2
  <2> HIDE DEF derived
  <2>2. ResolvedLimits(s) = [daily |-> derived, weekly |-> weekly]
    BY <1>1, <1>2 DEF ResolvedLimits, daily, weekly, derived
  <2> QED
    BY <2>1, <2>2 DEF WeekReachable
<1>3. CASE weekly = 0
  BY <1>1, <1>3 DEF WeekReachable, ResolvedLimits, daily, weekly
<1>4. CASE daily > 0 /\ weekly > 0
  BY <1>1, <1>4 DEF WeekReachable, daily, weekly
<1> QED
  BY <1>1, <1>2, <1>3, <1>4

\* config.go:58 does not hold of a file with a weekly cap alone: Load has put the
\* default daily cap there, so that the file is refused or its day capped at 5.
THEOREM WeeklyAloneKeepsDefault ==
  ASSUME NEW weekly \in Nat \ {0}
  PROVE  WeeklyAlone(weekly)
<1> DEFINE s == Load([option \in {"limits.weekly_max_tasks"} |-> weekly])
<1>1. Defaults["limits.daily_max_tasks"] = 5
  BY Zenon DEF Defaults
<1>2. /\ Defaults["limits.daily_max_cost_usd"] = 0
      /\ Defaults["limits.weekly_max_cost_usd"] = 0
  BY Zenon DEF Defaults
<1>3. {"limits.daily_max_tasks", "limits.weekly_max_tasks",
       "limits.daily_max_cost_usd", "limits.weekly_max_cost_usd"} \subseteq Options
  BY DEF Options, Defaults
<1>4. /\ s["limits.daily_max_tasks"] = 5
      /\ s["limits.weekly_max_tasks"] = weekly
      /\ s["limits.daily_max_cost_usd"] = 0
      /\ s["limits.weekly_max_cost_usd"] = 0
  BY <1>1, <1>2, <1>3 DEF Load
<1> HIDE DEF s
<1>5. ResolvedLimits(s).daily = 5
  BY <1>4 DEF ResolvedLimits
<1>6. IF weekly \in 1..4 THEN ~ValidLimits(s) ELSE ValidLimits(s)
  BY <1>4 DEF ValidLimits
<1> QED
  BY <1>5, <1>6 DEF WeeklyAlone, s
=============================================================================
