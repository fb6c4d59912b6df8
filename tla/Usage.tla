-------------------------------- MODULE Usage --------------------------------
(***************************************************************************)
(* The usage dashboard: GET /usage, /usage/by-model and /usage/limits       *)
(* (usage_usecase.go, usage_repository.go, usage.sql), as functions of the  *)
(* rows that CostWarn's tasks leave behind.                                 *)
(*                                                                         *)
(* A date is a day number in UTC, as ParseFromTo reads it; a bucket name is *)
(* the number of its day, ISO week or month.  Of the sums a row carries,    *)
(* the cost stands for the four token columns, which are summed alike.      *)
(***************************************************************************)
EXTENDS CostWarn

CONSTANTS
  MonthLength,  \* days of a month: every month is as long here
  MaxRangeDays, \* maxRangeDays
  DefaultDays,  \* length of a range whose start is not given
  ModelUsageOf  \* model_usage_json of each task: cost per model id

\* claude's result adds up; a result may have no breakdown.
ASSUME UsageAssumption ==
  /\ MonthLength \in Nat \ {0} /\ MaxRangeDays \in Nat
  /\ DefaultDays \in 0..MaxRangeDays
  /\ DOMAIN ModelUsageOf = Runs
  /\ \A r \in Runs :
       LET models == DOMAIN ModelUsageOf[r]
       IN  /\ ModelUsageOf[r] \in [models -> Nat] /\ IsFiniteSet(models)
           /\ models = {} \/ SumFunction(ModelUsageOf[r]) = CostOf[r]

Kinds == {"day", "week", "month"}

Month(d) == d \div MonthLength

\* COALESCE(finished_at, created_at) of the rows that carry a cost.
Stamp(r) == IF done[r] # 0 THEN done[r] ELSE failed[r]

RowsBetween(from, to) ==
  {r \in Runs : Stamp(r) # 0 /\ Stamp(r) >= from * U /\ Stamp(r) < to * U}

\* One row of the result: failed_cost_usd is kept apart.
SumOf(S) ==
  [tasks  |-> Cardinality(S \cap DoneRuns),
   cost   |-> CostOfRuns(S \cap DoneRuns),
   failed |-> CostOfRuns(S \ DoneRuns)]

\* DATE_FORMAT of the stamp: '%Y-%m-%d', '%x-W%v', '%Y-%m'.
BucketOf(kind, i) ==
  LET d == i \div U
  IN  CASE kind = "day" -> d [] kind = "week" -> IsoWeek(d) [] kind = "month" -> Month(d)

\* GROUP BY bucket, over a half-open range of dates.
SumByBucket(kind, from, to) ==
  LET S == RowsBetween(from, to)
  IN  [k \in {BucketOf(kind, Stamp(r)) : r \in S} |->
         SumOf({r \in S : BucketOf(kind, Stamp(r)) = k})]

\* The names gapFill walks through; the week is that of the task counters.
KeysBetween(kind, from, to) ==
  CASE kind = "day"   -> from..to
    [] kind = "week"  -> {WeekKey(d * U) : d \in from..to}
    [] kind = "month" -> Month(from)..Month(to)

\* A row whose name is not walked through is not in the result.
GapFill(kind, from, to, rows) ==
  [k \in KeysBetween(kind, from, to) |-> IF k \in DOMAIN rows THEN rows[k] ELSE SumOf({})]

Plus(b, totals) == [f \in DOMAIN totals |-> totals[f] + b[f]]
ComputeTotals(buckets) == FoldFunction(Plus, SumOf({}), buckets)

\* Mutant: the last day is left out.
AggregateExclusive(kind, from, to) == GapFill(kind, from, to, SumByBucket(kind, from, to))

\* The range of a request includes its last day.
Aggregate(kind, from, to) == GapFill(kind, from, to, SumByBucket(kind, from, to + 1))

ValidRange(from, to) == from =< to /\ to - from =< MaxRangeDays

ModelIds(r) == IF DOMAIN ModelUsageOf[r] = {} THEN {"unknown"} ELSE DOMAIN ModelUsageOf[r]
ModelCost(r, m) == IF DOMAIN ModelUsageOf[r] = {} THEN CostOf[r] ELSE ModelUsageOf[r][m]
ModelName(m) == IF m = "" THEN "unknown" ELSE m

\* The pairs the query returns, and their costs added up for each name.
Entries(S) == UNION {{<<r, m>> : m \in ModelIds(r)} : r \in S}

CostByName(entries) ==
  LET cost == [e \in entries |-> ModelCost(e[1], e[2])]
  IN  [name \in {ModelName(e[2]) : e \in entries} |->
         SumFunctionOnSet(cost, {e \in entries : ModelName(e[2]) = name})]

\* Mutant: a task without a breakdown is passed over.
ByModelKnown(from, to) ==
  CostByName(Entries({r \in RowsBetween(from, to + 1) \cap DoneRuns : DOMAIN ModelUsageOf[r] # {}}))

\* Every model of every done task, and "unknown" for what has no name.
ByModel(from, to) == CostByName(Entries(RowsBetween(from, to + 1) \cap DoneRuns))

\* The range of a request; a date is <<d>>, or <<>> when it is left out.  Today is
\* that of UTC, like the stamps of the rows.
ParseFromTo(fromQuery, toQuery) ==
  LET to == IF toQuery = <<>> THEN now \div U ELSE toQuery[1]
  IN  <<IF fromQuery = <<>> THEN to - DefaultDays ELSE fromQuery[1], to>>

\* The totals of GET /usage and the models of GET /usage/by-model; a range that is
\* turned down is answered 400.
GetUsage(kind, range) == ComputeTotals(Aggregate(kind, range[1], range[2]))
GetUsageByModel(range) == ByModel(range[1], range[2])

\* The costs of Limits, by the keys of the task counters.
Limits == [s \in Scopes |-> SumCost(s, KeyOf(s, now))]

-----------------------------------------------------------------------------
Dates == (FirstInstant \div U)..(LastInstant \div U)
Queries == {<<>>} \cup {<<d>> : d \in Dates}
Ranges == {range \in {ParseFromTo(f, t) : f, t \in Queries} : ValidRange(range[1], range[2])}

Ended == {r \in Runs : Stamp(r) # 0}

\* Whatever the granularity and whichever dates are left out, the totals of a
\* request are the sums of the rows that ended in its range: no row falls between
\* two buckets or out of the first or the last one, which may be cut by the range
\* (usage-dashboard.md:54, US-2; parseFromTo, Aggregate, gapFill, computeTotals).
TotalsComplete ==
  \A kind \in Kinds, range \in Ranges :
    GetUsage(kind, range) = SumOf({r \in Ended : Stamp(r) \div U \in range[1]..range[2]})

\* The views of one range show the same figures: the cost of /usage/limits is that
\* of the bucket of that name in /usage, although one selects by a range of
\* instants and the other groups by a formatted date, the costs of
\* /usage/by-model add up to the total of /usage, and a request without dates
\* leaves out nothing that ended lately (Limits, SumByBucket, ByModel,
\* parseFromTo; usage-dashboard.md:55, US-3: what has no model id is "unknown").
FiguresAgree ==
  LET day == DateKey(now)
      week == WeekKey(now)
  IN  /\ Limits["daily"] = Aggregate("day", day, day)[day].cost
      /\ Limits["weekly"] = Aggregate("week", 7 * week, 7 * week + 6)[week].cost
      /\ \A range \in Ranges :
           SumFunction(GetUsageByModel(range)) = GetUsage("day", range).cost
      /\ GetUsage("day", ParseFromTo(<<>>, <<>>))
           = SumOf({r \in Ended : Stamp(r) \div U >= now \div U - DefaultDays})
=============================================================================
