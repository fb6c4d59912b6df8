------------------------------ MODULE MCBudget ------------------------------
(***************************************************************************)
(* Small instances of Budget for TLC.                                      *)
(***************************************************************************)
EXTENDS Budget, Config

CONSTANTS i1, i2, i3, f1, f2, j1

\* A day of two instants, then two of one; the week ends with the second day.
Days == <<1, 1, 2, 3>>
Weeks == <<1, 1, 1, 2>>

OneJob == [f \in Fires |-> j1]
DailyOnce == [j \in Jobs |-> [daily |-> 1, weekly |-> 0]]

\* The caps come from a file that sets the weekly one: 2 a week, 1 a day.
LimitsFile(daily, weekly) ==
  [option \in {"limits.daily_max_tasks", "limits.weekly_max_tasks"} |->
     IF option = "limits.daily_max_tasks" THEN daily ELSE weekly]
Limits == ResolvedLimits(Load(LimitsFile(0, 2)))
ConfiguredDaily == Limits.daily
ConfiguredWeekly == Limits.weekly

\* Defaults pass Validate, with the CI watcher on or off.
ASSUME DefaultsAccepted ==
  \A on \in BOOLEAN :
    Validate([scalars |-> Load(<<>>), ciFix |-> on,
              windows |-> <<>>, repos |-> <<>>, jobs |-> <<>>])

\* What Budget_proofs proves of every file, of the small ones.
ASSUME ConfigChecked ==
  /\ \A daily, weekly \in -1..30 :
       LET s == Load(LimitsFile(daily, weekly))
       IN  ValidLimits(s) => CapsInOrder(s) /\ WeekReachable(s)
  /\ \A weekly \in 1..30 : WeeklyAlone(weekly)

Raise == {[daily |-> 2, weekly |-> 0]}
=============================================================================
