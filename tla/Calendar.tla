------------------------------ MODULE Calendar ------------------------------
(***************************************************************************)
(* Day and week buckets (budget_gate.go) and the time ranges the usage      *)
(* repository sums costs over (usage_repository.go).                        *)
(*                                                                         *)
(* An instant is counted in units of 1/U day from a Monday 00:00 UTC that   *)
(* begins ISO week 0; week w of a year-week pair is the w-th such week.     *)
(***************************************************************************)
EXTENDS Integers

CONSTANTS
  U,           \* units per day
  Zone,        \* reset_tz: local time minus UTC, in units
  WeekStartsOn \* week_starts_on: 0 is Monday, 6 Sunday

ASSUME CalendarAssumption ==
  /\ U \in Nat \ {0}
  /\ Zone \in (-U)..U
  /\ WeekStartsOn \in 0..6

LocalDay(i) == (i + Zone) \div U      \* local date, as a day number
Weekday(d) == d % 7
IsoWeek(d) == d \div 7

DateKey(i) == LocalDay(i)

WeekKey(i) ==
  LET d == LocalDay(i)
      offset == (Weekday(d) - WeekStartsOn + 7) % 7
  IN  IsoWeek(d - offset)

\* Half-open ranges of UTC instants, anchored on Monday.
DayKeyToRange(k) == [from |-> k * U, to |-> (k + 1) * U]
WeekKeyToRange(k) == [from |-> 7 * k * U, to |-> 7 * (k + 1) * U]

RangeOf(scope, key) == IF scope = "daily" THEN DayKeyToRange(key) ELSE WeekKeyToRange(key)
KeyOf(scope, i) == IF scope = "daily" THEN DateKey(i) ELSE WeekKey(i)
=============================================================================
