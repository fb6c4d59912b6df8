------------------------------- MODULE Config -------------------------------
(***************************************************************************)
(* The configuration (config/config.go, config/validate.go): what the      *)
(* service makes of a YAML file before anything runs.  The other modules   *)
(* take their CONSTANTS from it: DailyMax and WeeklyMax of Budget, Thresh- *)
(* olds of CostWarn, MaxParallel of Dispatch, MaxAttempts of CIWatcher,    *)
(* the windows of Intake, the commands of QualityGate.                     *)
(*                                                                         *)
(* A file is a function from the options it sets; durations are seconds,   *)
(* costs are cents.  A name is what is left of it after TrimSpace, and     *)
(* whether there was anything to trim.  Time zones, weekday names and cron *)
(* specifications are taken as parsed.                                     *)
(***************************************************************************)
EXTENDS Integers, Sequences

Minute == 60

\* SetDefault; an option without one has Go's zero value.
Defaults ==
  [option \in {"runtime.tick_interval", "github.poll_interval",
               "limits.daily_max_tasks", "limits.weekly_max_tasks",
               "limits.daily_max_cost_usd", "limits.weekly_max_cost_usd",
               "concurrency.max_parallel_tasks", "concurrency.lease_timeout",
               "concurrency.reclaim_interval", "ci_fix.max_attempts",
               "ci_fix.poll_interval", "ci_fix.poll_timeout"} |->
     CASE option = "runtime.tick_interval"          -> 30
       [] option = "github.poll_interval"           -> Minute
       [] option = "limits.daily_max_tasks"         -> 5
       [] option = "concurrency.max_parallel_tasks" -> 1
       [] option = "concurrency.lease_timeout"      -> 60 * Minute
       [] option = "concurrency.reclaim_interval"   -> 10 * Minute
       [] option = "ci_fix.max_attempts"            -> 2
       [] option = "ci_fix.poll_interval"           -> Minute
       [] option = "ci_fix.poll_timeout"            -> 30 * Minute
       [] OTHER                                     -> 0]

Options == DOMAIN Defaults

\* Viper puts a default wherever the file is silent, so that nothing below can
\* tell an option that was left out from one that was set to its default.
Load(file) == [option \in Options |->
                 IF option \in DOMAIN file THEN file[option] ELSE Defaults[option]]

-----------------------------------------------------------------------------
(* Validate, section by section; s is what Load made of the scalar options *)

ValidIntervals(s) == s["runtime.tick_interval"] > 0 /\ s["github.poll_interval"] > 0

ValidLimits(s) ==
  /\ s["limits.daily_max_tasks"] >= 0
  /\ s["limits.weekly_max_tasks"] >= 0
  /\ s["limits.daily_max_tasks"] > 0 /\ s["limits.weekly_max_tasks"] > 0 =>
       s["limits.daily_max_tasks"] =< s["limits.weekly_max_tasks"]
  /\ s["limits.daily_max_cost_usd"] >= 0
  /\ s["limits.weekly_max_cost_usd"] >= 0

ValidConcurrency(s) ==
  /\ s["concurrency.max_parallel_tasks"] \in 1..10
  /\ s["concurrency.reclaim_interval"] > 0
  /\ s["concurrency.reclaim_interval"] < s["concurrency.lease_timeout"]

ValidCIFix(s) ==
  /\ s["ci_fix.max_attempts"] \in 1..5
  /\ s["ci_fix.poll_interval"] > 0
  /\ s["ci_fix.poll_interval"] < s["ci_fix.poll_timeout"]

\* A window of a day: start and end in minutes, days as weekday numbers.
ValidWindow(w) ==
  /\ w.start \in 0..(24 * 60 - 1) /\ w.end \in 0..(24 * 60 - 1)
  /\ w.start < w.end
  /\ w.days # {} /\ w.days \subseteq 0..6

\* A repository: trimmed name, format, branch, and its quality-gate commands.
ValidRepos(repos) ==
  /\ \A i \in 1..Len(repos) :
       /\ repos[i].ownerAndRepo
       /\ \A j \in 1..Len(repos[i].commands) : repos[i].commands[j] # ""
  /\ \A i, j \in 1..Len(repos) : repos[i].name = repos[j].name => i = j

\* What Validate fills in while it looks, and Lookup of the gate's adapter again.
Completed(repo) ==
  [repo EXCEPT !.branch = IF @ = "" THEN "main" ELSE @,
               !.timeout = IF Len(repo.commands) > 0 /\ @ =< 0 THEN 5 * Minute ELSE @]

\* The allowlist has the names as they are in the file; the job's is trimmed here,
\* but not by EnqueueMaintenance.
Allowlist(repos) == {repos[i].name : i \in {k \in 1..Len(repos) : ~repos[k].padded}}

ValidJobs(jobs, repos) ==
  /\ \A i \in 1..Len(jobs) :
       /\ jobs[i].name # "" /\ jobs[i].cronParses /\ jobs[i].template # ""
       /\ jobs[i].repo \in Allowlist(repos)
       /\ jobs[i].daily >= 0 /\ jobs[i].weekly >= 0
  /\ \A i, j \in 1..Len(jobs) : jobs[i].name = jobs[j].name => i = j

\* A configuration: the scalar options, ciFix (ci_fix.enabled) and three lists.
Validate(c) ==
  /\ \A i \in 1..Len(c.windows) : ValidWindow(c.windows[i])
  /\ ValidRepos(c.repos)
  /\ ValidIntervals(c.scalars)
  /\ ValidLimits(c.scalars)
  /\ ValidJobs(c.jobs, c.repos)
  /\ ValidConcurrency(c.scalars)
  /\ c.ciFix => ValidCIFix(c.scalars)

-----------------------------------------------------------------------------
(* What the parts of the service are given *)

\* The caps of the budget: the one that is 0 is derived from the other.
ResolvedLimits(s) ==
  LET daily  == s["limits.daily_max_tasks"]
      weekly == s["limits.weekly_max_tasks"]
  IN  [daily  |-> IF daily = 0 /\ weekly > 0 THEN (weekly + 6) \div 7 ELSE daily,
       weekly |-> IF weekly = 0 /\ daily > 0 THEN daily * 7 ELSE weekly]

\* The commands of the gate for a task's repository; <<>> skips the gate.
LookUp(repos, name) ==
  LET known == {k \in 1..Len(repos) : ~repos[k].padded /\ repos[k].name = name}
  IN  IF known = {} THEN <<>> ELSE repos[CHOOSE k \in known : TRUE].commands

-----------------------------------------------------------------------------
(* What the rest of the service relies on *)

\* Budget takes 0 for no cap: an accepted file has two caps or none, and the day's
\* is never above the week's (ResolvedLimits, which derives one from the other).
CapsInOrder(s) ==
  LET r == ResolvedLimits(s)
  IN  /\ r.daily \in Nat /\ r.weekly \in Nat
      /\ r.daily = 0 <=> r.weekly = 0
      /\ r.daily =< r.weekly

\* A weekly cap can be used up by days at the daily cap, whichever was derived.
WeekReachable(s) ==
  LET r == ResolvedLimits(s)
  IN  s["limits.daily_max_tasks"] = 0 \/ s["limits.weekly_max_tasks"] = 0
        => r.weekly =< 7 * r.daily /\ 7 * r.daily < r.weekly + 7

\* config.go:58 "defaults derive the missing one from the other": not so for a
\* file with a weekly cap alone, which keeps the default daily cap of 5.
WeeklyAlone(weekly) ==
  LET s == Load([option \in {"limits.weekly_max_tasks"} |-> weekly])
  IN  IF weekly \in 1..4 THEN ~ValidLimits(s)
      ELSE ValidLimits(s) /\ ResolvedLimits(s).daily = 5
=============================================================================
