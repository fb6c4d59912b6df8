# Verification of claude-ops

claude-ops is a Go service that turns GitHub issues into pull requests.  Issues
reach a MySQL table through a webhook, a poller, an HTTP API and cron jobs; a
scheduler claims queued rows; worker goroutines run the `claude` CLI in a git
worktree, check the result and open a PR with `gh`; a watcher follows the PR's
CI and queues fixes.  This directory holds TLA+ models of that control logic,
TLC instances of them, and proofs checked by TLAPS.

Paths below are relative to `src/`.  `PROJECT.json` has the machine-readable
form: components, runs, mutants, theorems, hazards, and for every definition the
lines it translates.

## 1. Inventory

| component | state it keeps | operations | interacts with |
| --- | --- | --- | --- |
| Task table (`repository/task_repository.go`, `db/query/task.sql`) | rows: status, claim, worktree path, PR, CI status | Create, Save (whole row), ClaimNext (3 statements), ReclaimStale, UpdateCIStatus, List | everything; each statement is atomic, no two are |
| Scheduler (`scheduler/scheduler.go`) | semaphore, cancel map, tick loop | tick, dispatchOne, CancelTask, Stop | table, worker, budget and window gates |
| Worker (`scheduler/worker.go`) | its copy of the row, its context | RunTask and its exits fail, cancel, hand-off | table, git, runner, quality gate, `gh`, budget, Slack |
| Stop (`usecase/task_usecase.go`, `slack/interactions.go`) | a row read earlier | StopTask, the Slack button | table, cancel map |
| Reclaimer (`scheduler/reclaimer.go`) | none | one UPDATE per cycle | table |
| Boot and GC (`gc/runner.go`, `cmd/claude-ops/main.go`) | none | RecoverOrphans, SweepWorktrees, start and stop order | table, disk |
| Budget (`usecase/budget_usecase.go`, `scheduler/budget_gate.go`) | `app_state`: counters, override, block | Snapshot, CheckAndIncrement, RecordRateLimitBlock, SetLimits | tick, worker, cron jobs, limits API |
| Maintenance (`scheduler/maintenance.go`, `usecase/maintenance_usecase.go`) | sub-cap counters | fire, EnqueueMaintenance | budget, table |
| Cost warnings (`usecase/budget_usecase.go`) | `app_state` flags | EvaluateCostWarn | usage queries, Slack |
| Usage dashboard (`usecase/usage_usecase.go`, `repository/usage_repository.go`) | none | Aggregate, ByModel, Limits | table |
| CI watcher (`ci/watcher.go`, `ci/checks.go`) | `ci_status`, `head_sha` of the rows | tick, handleFailure, EnqueueFixTask | `gh`, table, worker's hook, Slack |
| Intake (`github/webhook_*.go`, `github/poller.go`, `POST /tasks`) | delivery cache, full mode | HandleWebhook, Poll, EnqueueFromIssue | table, windows |
| Runner (`claude/runner.go`, `claude/stream/parser.go`) | process, two pipes, a channel, three goroutines | Run, ParseStream | worker |
| Quality gate (`qualitygate/`) | each command's shell, process group and helpers, two timers | Lookup, Run | worker, worktree |
| PR creation (`github/pr_creator.go`) | worktree, index, local branch, branch on GitHub | CreatePR: add, commit, push, rebase, second push, `gh pr create` | worker, git, GitHub, other people's pushes |
| Configuration (`config/`) | none after start-up | Load, Validate, ResolvedLimits | everything that takes a limit or an interval |
| Slack (`slack/`), metrics, read endpoints, `claude-opsctl` | none that decides anything | | |

What is hard here, and what has to hold in spite of it:

* **Claiming takes three statements**, and StopTask and the reclaimer write to
  the same row between them: one goroutine per repository, one running row per
  repository, a terminal status is final.
* **Contexts are cancelled** by a stop, by shutdown, by nothing at all when the
  process dies; the final write uses the cancelled context: slots must come
  back exactly once, no row may be left running without anybody holding it.
* **Several callers, one budget**: the clock is read before the mutex is taken,
  statements fail half way: caps hold, the block is honoured, and the gate
  opens again.
* **Flags stored before messages, rows before announcements**, with crashes in
  between: a warning at most once, a verdict not again once it is stored.
* **Sources that race** for one issue and retry what was done: one live task per
  source, and an open issue gets a task in the end.
* **Deleting directories** by rows that lag behind them: work that is uncommitted
  when the process ends is kept from then on (a shutdown may delete it before,
  section 6), old worktrees go, no pointer is lost before its directory.
* **Goroutines waiting for one another** around a process that may be silent,
  talk too much, or leave a child: Run returns and loses nothing it reports.
* **Commands that hang, fork or ignore SIGTERM**, in the gate: the worker gets
  past them, nothing that was told to end counts as passed, and the output is
  read only when nobody writes to it any more.
* **A branch shared with other people**, and six commands between the gate and
  the pull request, each of which may fail before or after its effect: nobody's
  commits are lost, and what is offered is the whole work.

## 2. Modules

| module | models | stands on |
| --- | --- | --- |
| `TaskStore` | the rows and the statements as operators on the table | |
| `Dispatch` | tick loop, workers, stop, reclaimer, boot, crash, shutdown | `TaskStore` |
| `TaskLifecycle` | what the status column promises to readers: the abstract specification that `Dispatch` implements | |
| `Dispatch_proofs` | theorems about `Dispatch` | `Dispatch` |
| `Budget` | counters, override, block; tick, worker, cron and API as callers | |
| `Budget_proofs` | theorems about `Budget`, and about what a configuration file that is accepted gives it | `Budget`, `Config` |
| `Calendar` | day and week keys, and the ranges summed for them | |
| `CostWarn` | EvaluateCostWarn, task by task | `Calendar` |
| `Usage` | the dashboard's queries over the rows of `CostWarn` | `CostWarn` |
| `CostWarn_proofs` | theorems about the keys, sums, warnings and dashboard | `Usage` |
| `CIWatcher` | pull requests and checks, the watcher's tick, fixes, the worker's hook | |
| `CIWatcher_proofs` | theorems about `CIWatcher` | `CIWatcher` |
| `Intake` | deliveries and their cache, the poller, `POST /tasks`, windows, full mode | |
| `Intake_proofs` | theorems about `Intake` | `Intake` |
| `WorktreeGC` | worktrees and rows, boot recovery, daily sweep, the end of the process | |
| `WorktreeGC_proofs` | theorems about `WorktreeGC` | `WorktreeGC` |
| `ClaudeRunner` | one run of claude: process, child, pipes, channel, goroutines | |
| `ClaudeRunner_proofs` | theorems about `ClaudeRunner` | `ClaudeRunner` |
| `QualityGate` | Gate.Run: shells, process groups, helpers, timer, SIGTERM, SIGKILL | |
| `Delivery` | from the end of claude's run to a pull request: gate, add, commit, push, rebase, push, gh; shown to implement `Dispatch`'s worker | `QualityGate`, `Dispatch` |
| `Delivery_proofs` | theorems about `Delivery` | `Delivery` |
| `Config` | defaults, validation, derived limits, the gate's look-up | |
| `MC*` | instances for TLC; `MCBudget` and `MCDelivery` take their bounds from `Config` | |

They were written in that order, the claim protocol first because everything
else relies on it.  `Dispatch` over `TaskStore`, `Delivery` over
`QualityGate` and `Usage` over `CostWarn` over `Calendar` are compositions; the
others meet at the table and at `app_state`, and each has only the rows and
columns it reads or writes.  An effect of another component is an action of its
own there (a row changes status, a task ends) and is marked external in the map
when it is not code of this repository.

### How state and actions correspond to the code

* *A step is what runs without anybody in between*: one statement, one command,
  one change under a mutex.  A function becomes a chain of labels (`pc`), and
  what it read in one step is a local copy (`mem`, `stop[t].copy`, `flags`,
  `at`, `picked`) in the next.
* *GORM's `Save` writes every column of the caller's copy* (`TaskStore!Save`),
  so a late write undoes what happened meanwhile; a sqlc statement changes only
  the columns it names.
* *A statement may fail* when its fault is in `Faults` or when its context is
  done.  Most callers log it and go on, as the model does.
* *A crash* clears every variable that lives in memory and keeps rows, worktrees,
  branches and pull requests.  Boot runs `RecoverOrphans` before the scheduler.
* *Instants* are small numbers.  Two claims in one millisecond (`Ties`), a lease
  that runs out (`LeaseExpires`) and a call that spans midnight (`SlowCalls`)
  are switches, so that a run says which of them it needs.
* *Data is abstract*: tasks, repositories and heads are identities, a line of
  claude's output is one of ten kinds, costs are small integers.  A commit is the
  set of edits it holds (claude's, a gate command's, a helper's, another
  person's) and the version of the default branch it stands on; a branch is a
  set of commits.
* *A process* under a context that is done is not started, or killed at any
  point: its effect outside has happened or not, and its error is the same.  A
  `git worktree add` that breaks off leaves nothing, the branch, or the branch and
  the directory.
* *A ci-fix task* is inserted with the worktree path of its parent
  (`task_usecase.go:176`).  The worker stores its own before it reads it; what
  recovery makes of the row until then depends on the parent's directory, and
  `Dispatch` allows both outcomes.
* *A configuration file* is a function from the options it sets.  `Load` and
  `Validate` are operators, since nothing of them is left once the service runs.
* *History variables* (`contested`, `charged`, `reported`, `sent`, `smooth`,
  `unsaved`, `stopped`, `known`, `parsed`, `limitSeen`, `told`, `signalled`, `checked`) are written and never read
  by an action's guard.
* `Dispatch` leaves the window, full mode and budget gates open or shut at any
  time; `Intake` and `Budget` say when they are.  What happens inside
  `claude`, the quality gate and CreatePR is an outcome there; `ClaudeRunner` and
  `Delivery` say how it comes about.
* `Delivery`'s refinement mapping (`DispatchLabel`, `DispatchWorktree`, `D`)
  gives `Dispatch` one task, held by one worker, whose row is *running*: a
  command that is under way is still the label before it, and uncommitted edits
  are a dirty worktree until git takes them.

Definitions marked *Mutant* are variants of the definition below them, each the
way a plausible mistake would have it.  No specification uses them; they show
that each property can be violated.

## 3. Runs

`tlc -config <cfg> <module>` in this directory; each listed run ends within two
minutes or so with two workers.  What a switch leaves out in one run is on in
another.

| run | instance | what it asks |
| --- | --- | --- |
| `contended` | 2 tasks of 1 repository, 2 workers, StopTask on one task, leases run out, two claims in one millisecond | with everything that can take a claim away, is there still one goroutine and one running row per repository unless a claim was in fact taken (`RepoSerial`, `OneRunningRow`); does a stop reach the run it names (`CancelReachesRun`); does no exit remove a worktree claude goes on to use (`WorktreeOutlivesRun`); is a terminal status of an uncontested task final (`TerminalIsFinal`) |
| `faults` | the same with failing statements and git commands, the Slack button on both tasks, a crash, a shutdown | are tokens and goroutines equal at every moment (`SlotAccounting`), does every done row have a PR (`DoneHasPR`), does the status column follow `TaskLifecycle` (`ImplementsLifecycle`) |
| `tworepos` | 3 tasks of 2 repositories, no run of claude has to end | is a claim never taken away when leases are long, instants distinct and nobody calls StopTask (`NothingContested`); is a running row then always held by somebody (`RunningIsHeld`); does a hung run leave the other repository alone (`HungRunBlocksNoOtherRepo`) |
| `lease` | 2 tasks of one issue, so that they share a branch, the second of them a ci-fix task, 1 worker, the Slack button on one of them, failing statements and git, a crash, leases run out | does every queued task end, whatever write was lost and whoever held the slot (`EveryTaskEnds`) |
| `stop_race` | 2 tasks, StopTask, no faults | violated: section 6 |
| `budget_calls` | an issue's task and two fires of one cron job; four instants in three days and two weeks; caps 1 a day and 2 a week, resolved from a configuration file, and 1 for the job; an override that raises them; one rate limit; failing statements, a crash | caps and sub-caps hold, counters cover the slots taken, a block is honoured, dispatch resumes |
| `costwarn_warn` | 3 tasks costing 8, 3 and 9 with limits 10 a day and 20 a week; Sunday, Monday, Tuesday; lost rows, flags, sums and messages, a crash | a warning once (`AtMostOnce`), none missed (`CapAnnounced`), the dashboard's totals are complete and its views agree for every range that can be asked for, none given included (`TotalsComplete`, `FiguresAgree`) |
| `ci_watch` | 1 pull request, 2 heads, 1 fix, failing gh calls and statements, a crash | one fix for a head (`OneFixPerHead`), no announcement after one whose verdict is on the row (`ToldOnceStored`), passed means green, every watch ends |
| `intake_sources` | 1 issue, a delivery of it that is sent again and one that is filtered, 2 webhook goroutines and 1 request, a repository that always fails before the one of the issue, a cache that forgets after one instant, failing gh and statements, a crash | one live task per source (`SourceOnce`), an open issue gets its task (`IssuePickedUp`) |
| `gc_sweep` | 2 tasks, one whose directory cannot be removed, failing statements, git and rm, a crash or a shutdown | what is uncommitted in the worktree of a running row when the process ends survives from then on (`UnsavedKept`), pointers outlive directories, what is old and removable goes (`OldSwept`) |
| `claude_run` | at most 3 lines of ten kinds, a pipe and a channel of capacity 1, a child that holds stderr, a stop at any time | nothing collected is lost, a limit is reported, Run returns after a stop and otherwise too |
| `delivery_pr` | the two commands of a configured repository, which hang, fork, leave their group or trap SIGTERM; then the commands of CreatePR with failures, a stop, one merge and one push by somebody else at any step; a repository that is or is not allowed | what was signalled never passes (`SignalledNeverPasses`), the output is settled when it is read (`OutputSettled`), the pull request has the whole work (`OfferIsComplete`), no commit disappears from GitHub (`RemoteAppendOnly`), the worker gets to an end (`DeliveryEnds`), every step is one that `Dispatch` allows (`ImplementsDispatch`) |

### Why the bounds are enough

* *Two tasks of one repository* are the least that can violate serial execution;
  a third task of a second repository is the least that can be starved by it.
  Workers are interchangeable (`WorkerSymmetry`, used where there is no
  liveness property that names one); two fill the semaphore and overlap.
* *One crash* puts a restart between any two steps; a second one meets the same
  states, since a crash leaves nothing in memory.  In `gc_sweep` the one restart
  is a crash or a shutdown, which goes on for as long as a worker does.
* *Budget*: the days are two instants, one and one long, and the week ends with
  the second day, so that both rollovers occur apart and together; three calls
  exceed every cap by one.
* *Costs* 8, 3, 9: 8 reaches 80% of the day, 8 + 3 reaches 100%, 9 + 3 both at
  once, all three the week's 100%; every order of finishing is explored.  The
  days 6 to 8 hold a week's end and, with months of eight days, a month's.
* *Two heads* are a push; `MaxAttempts = 1` makes the second failure one too many.
* *A pipe of one line* makes every write one that may block; three lines are a
  talker that outruns the parser, and the result after a limit.
* *Two commands* let a helper of the first outlive it into the second and into
  CreatePR; one helper of each kind and command is enough, since only their
  presence is looked at.  One merge (`MaxMain = 1`) makes a rebase move commits,
  one foreign commit makes a push be refused.
* *`DefaultDays = 1`* stands for the 30 days of a request without dates, so that
  such a request cuts off some of the three days.
* Costs, heads, instants, deliveries, merges and crashes are the only unbounded counters
  of the program in these models; each is capped by the constant named above, in
  the guard of the action that advances it (`AdvanceClock`, `Push`, `Day`,
  `Crash`, `Shutdown`, `Say`, `MergeElsewhere`).

Every module's type invariant holds on the same instances (add `TypeOK` to the
INVARIANTS); they say what each variable holds, and no run is spent on them.
Those of `Dispatch`, `Budget`, `CostWarn`, `Intake` and `WorktreeGC` are theorems.

`CHECK_DEADLOCK FALSE` stands where the modelled part comes to rest: all tasks
have been evaluated, the watch is over, Run has returned, the tasks are swept.

## 4. Fairness

| specification | what is assumed | why |
| --- | --- | --- |
| `Dispatch!FairSpec` | weak fairness of the dispatcher, each worker, boot and recovery | a ticker fires again and again, a goroutine with something to do runs; claude ends (`LimitEndsRun` and `StopReturns` in section 6 have the exceptions); a crashed service is started again by its supervisor |
| `Dispatch!ReclaimSpec` | the same and the reclaimer with its largest cutoff; strong fairness of the three statements of a claim | its ticker, after every lease has run out; a statement that fails now and then does not fail for ever, although each failure makes the tick start over |
| `Dispatch!HungSpec` | the same without any claim that claude ends | nothing bounds a run of claude |
| `Budget!FairSpec` | strong fairness of the clock, and of a dispatch of each call whose snapshot succeeds | time passes although calls keep coming; `CheckAndIncrement` does not fail for ever |
| `CIWatcher!FairSpec` | the watcher's tick, ageing, checks that end; strong fairness of a load and of a timeout write that succeed | ticker; GitHub's own limits on checks; a statement does not fail for ever |
| `CIWatcher!HungSpec` | without the checks' end | section 6 |
| `Intake!FairSpec` | time, calls; strong fairness of a tick inside the window and of a list, look-up and insert that succeed | windows recur every week; a repository in `FailingRepos` is not covered and may fail for ever |
| `WorktreeGC!FairSpec` | days, the sweep's steps; a shutdown comes to its end (`WindUp`, `Exit`); strong fairness of a list, a removal and a clear that succeed | the 24 h ticker; a worker whose context is done ends, or the supervisor ends the process; a directory in `Stuck` is not covered |
| `ClaudeRunner!FairSpec` | each goroutine, claude's exit, the kernel's writes; the child's exit | the Go scheduler and the kernel; `DaemonSpec` drops the child's exit |
| `Delivery!FairSpec` | the gate's goroutine, its timer, the git and gh commands, the exit of a helper that has left the group | the Go scheduler and the kernel; git and gh end.  No command of the gate and no helper inside its group is assumed to end; `DaemonSpec` drops the escaped helper's exit |

No fairness is assumed of stops, shutdowns, pushes, merges, deliveries, cron firings,
faults or crashes.

## 5. Proofs

`tlapm <module>` checks them.  All hold for every value of the constants that
satisfies the named assumption.  Every invariant a passing run checks is the
conclusion of a theorem here, and so is every refinement and every action property
but `BlockHonoured`, of which there is nothing to prove: with more than one
rate-limit signal it is false.  Where a theorem has a hypothesis of its own, a configuration shows what happens
without it:

| hypothesis | theorems | what it says | without it |
| --- | --- | --- | --- |
| `Calm` | `CalmClaims`, `LifecycleKept` | leases outlive runs, claims have distinct instants, StopTask is not used | `MCDispatch_claim_tie`, `MCDispatch_stop_race`; run `contended` |
| `Quiet` | `RunningRowsAreHeld` | `Calm`, no statement fails and nobody presses *Stop* (git commands may fail) | `MCDispatch_stop_lost`: the final write is lost |
| `~SlowCalls` (`Budget`) | `CapsSafe`, `CountersSafe`, `SubCapsSafe` | no clock reading is used after its day | `MCBudget_midnight` |
| `~SlowCalls`, `"store" \notin Faults` (`CostWarn`) | `WarnedOnce` | no call outlives its bucket, and the flags can be stored | `MCCostWarn_stale` |
| `Zone = 0`, `WeekStartsOn = 0` | `WeekRange`, `CapIsAnnounced`, `TotalsAdd`, `FiguresMatch` | days in UTC, weeks from Monday (`DayRange` needs the zone only) | `MCCostWarn_zone`, `MCCostWarn_dashboard` |
| `NoStale` | `PassedIsGreen` | GitHub marks no check *stale* | `MCCIWatcher_stale` |
| `~SlowCalls` (`Intake`) | `SourcesOnce` | no request outlives the delivery cache's TTL | run `intake_sources` with `SlowCalls = TRUE`: a delivery the cache has forgotten is let in while its first request goes on |

**`Dispatch_proofs`** (from `DispatchAssumption`: finite sets of tasks and workers,
a positive `MaxParallel`, sentinels outside their sets).

* `TypeSafe`: `TypeOK` is not inductive as it stands, since a goroutine's action
  writes the row of its `job`; `IType` adds that a goroutine which is not idle
  has a task and that the dispatcher has one between claim and spawn.  That the
  semaphore stays within `MaxParallel` comes from `ISlots`.
* `SlotsSafe`: `ISlots` ties the semaphore to the set of goroutines that live,
  as a cardinality; Spawn turns the tick's token into a goroutine's, Leave
  returns it, and a crash clears both sides.
* `SerialRepos`, `SerialRows`, `FinalStatus`: `IClaims`.  The row of a working
  goroutine, of a claim being identified and of a task being spawned is running
  unless it is contested; nobody works on a row between its claim and its spawn;
  two goroutines with one task make it contested; nobody works while the service
  is down or booting.  None of the three is inductive without the others: a claim
  keeps rows of a repository apart only if every working goroutine's row is
  running, and it stays running only if no one else writes to it.
* `DoneIsPublished`: `IDone` follows the goroutine's copy of the row: one that is
  about to write *done* has its pull request on GitHub and the columns that say
  so.  A whole-row save that takes the columns away again takes the status with it.
* `StopsAreDelivered`, `WorktreesLast`: `IActive` extends the exclusiveness of
  claims to goroutines in their epilogue, which have given up the row but not yet
  their registration or their directory.  It rests on a fact of its own: no write
  ever puts a row back to *queued* (`Left`), so a task whose goroutine is still
  cleaning up is not claimed a second time unless it is contested.
* `CalmClaims`: under `Calm` nothing is ever contested, so that the guarantees
  above hold without exception.  `ICalm` says that the look-up after a claim
  finds the row just claimed (`Newest`).
* `RunningRowsAreHeld`: `IHeld`: while nothing is cancelled a goroutine always
  gets its final status into the table, so a row that says running is in the tick
  loop's or a goroutine's hands, whatever crashed or was shut down before.
* `LifecycleKept`: `Dispatch` implements `TaskLifecycle` under `Calm`: each step
  changes the status of at most one task, by an edge of the
  lifecycle, and starts a task only where no other of its repository runs.

**`Budget_proofs`** (from `BudgetAssumption`: days and weeks do not decrease; finite sets of calls; caps are natural numbers, 0 for none).

* `BudgetTyped`.
* `CapsSafe` and `CountersSafe` under `~SlowCalls`: `ICaps` says that the stored
  counters are at least the slots taken in the day and week they name
  (`Covers`), that those are never in the future, and that a reading in hand is
  of the current day and week (`Fresh`).  `Fresh` is what the code takes for granted and
  `~SlowCalls` provides: without it `CapsHold` is false (section 6).
* `SubCapsSafe`: `ISub` is `Covers` for each job's counters and the tasks it has
  created; the check, the row and the increment are one step under the mutex.
* `AcceptedCapsInOrder` and `DerivedCapFits` for every accepted file (no
  assumption), and `WeeklyAloneKeepsDefault`, which says for every weekly
  cap that config.go:58 is not what the code does (section 6).

**`CostWarn_proofs`** (from `CalendarAssumption`, `CostWarnAssumption`: finitely many
tasks with natural costs, a first instant not after the last; `UsageAssumption`: the
breakdown of a result by model, where there is one, adds up to its cost).

* `WeekStep`, for every zone, resolution and week start; `DayRange`, `WeekRange`.
* *Sums*: a sum over a set is a recursive function in the community modules, and
  the library's induction theorems cannot be used (they take an operator).  The
  induction is done over sets of sets instead: a family of subsets of a finite
  set that is not all of them has a smallest one outside (`SmallestExists`), hence
  `SubsetInduction` and `FirstInduction`.  From these: the recursion has exactly
  one solution (`SumsExist`, `SumFirst`), sums do not depend on the order
  (`SumRemove`), add up over disjoint sets (`SumUnion`) and over the classes of a
  partition (`SumPartition`).
* `WarnedOnce`: `IOnce`.  Every message sent or pending belongs to a bucket that is
  over or has its flag stored (`Told`); the copy in the hands of the caller that
  holds the mutex is what is stored (`CopyFresh`); a waiting caller's bucket is the
  present one (`Prompt`).
* `CapIsAnnounced`: `ICap`.  A bucket at its limit is announced, or some worker is
  still to evaluate it (`Expected`): the last worker to finish sees the whole sum.
* `TotalsAdd`: every row of a range has its bucket among the names `gapFill` walks
  through (`KeysCover`), and buckets that split up a set of rows have that set's
  sums as their totals (`TotalsAre`).
* `FiguresMatch`: the rows behind a limit and behind a bucket are the same ones
  (`DaysOfRange`, `BucketCost`); the pairs of task and model are partitioned by
  model name and by task, with the same sum (`ModelsAddUp`); no stamp is in the
  future (`IStamp`), so that the default range is open above.

**`CIWatcher_proofs`** (from `CIWatcherAssumption`).

* `FixesAreUnique` rests on the unique index alone, whatever the look-up says.
* `NoneAfterAStoredVerdict`: `Watched` says that the tick works on watched rows
  until it writes their verdict, and that a row whose verdict was announced and
  stored has it, and is out of the tick's hands.  Announcements of verdicts that
  could not be stored are counted and not excluded: there may be any number of
  them, each before the stored one (`AnnouncedIsStored`, section 6).
* `PassedIsGreen` under `NoStale`: only a poll makes a row *passed*, and the order
  of the tests in `AggregateConclusion` leaves only green checks for it.

**`Intake_proofs`** (from `IntakeAssumption`: finite sets of issues and repositories).
`SourcesOnce`: `IOnce` says that a delivery in hand is in the cache (`Remembered`),
that no two requests are for one delivery (`Alone`), and that a look-up that found
nothing stays true until the insert (`Missing`); the second follows from the first,
and the third from the second.

**`WorktreeGC_proofs`** (from `WorktreeGCAssumption`).  `UnsavedIsKept`: `IInv`.  A row
that was running over uncommitted changes when the process ended has no
`finished_at`, and nobody works on it (`Kept`); what
the sweep has picked has one (`Picked`); a worker that touches a directory has a
running row (`RowsMatch`); nobody works during boot (`BootAlone`).  The history
starts where the process ends: what its workers remove after SIGTERM and before
that is not covered, and `ShutdownKept` (section 6) shows that they do.
`PointerIsLast` is an action property from `Picked`.

**`ClaudeRunner_proofs`** (from `ClaudeRunnerAssumption`: positive capacities, any
number of lines).  `ResultIsCollected`: the signals the collector has, followed by
those in the channel, are those the parser sent, in order (`InOrder`), and the
order in which Run waits is the order in which they are closed (`Channelled`).
`LimitIsReported`: `Reporting` ties the parser's error to the limit it met.

**`Delivery_proofs`** (from `DeliveryAssumption`: `MaxMain` is a natural number;
for any number of commands, helpers and faults).

* `NoPassAfterSignal`: `Unsignalled` says that wherever the gate can still be
  passed nothing has been signalled; the property alone is about the last step.
* `OutputIsSettled`: inductive as it stands; the step that matters is a fork,
  since a process can only hand on the output it holds (`ForkKeepsSettled`).
* `RemoteKept`: an action property, from what a push takes.
* `WholeWorkOffered`: `WorkFollowed` says where the work that passed the gate is
  at every step, in the worktree, in the index, in the local branch, on GitHub;
  `WorkRebased` says that a rebase keeps what is in the commits it moves, and
  needs them typed (`BranchTyped`).
* `DispatchImplemented`: every step is one of `Dispatch`'s worker, of its Slack
  button, or none, under the refinement mapping of section 2.  `Passing` says that
  the worktree is there until the end, that the gate is behind whatever git does,
  and that a pull request the worker does not know of takes a command that broke.
  There is one lemma for each of the steps `Dispatch` can see (`StopSeen`,
  `EditSeen`, `GateSeen`, `OfferSeen`, `RollbackSeen`) and one for those it cannot.

**Model-checked only.**  The liveness properties: `HungRunBlocksNoOtherRepo`,
`EveryTaskEnds`, `DispatchResumes`, `WatchEnds`, `IssuePickedUp`, `OldSwept`,
`StopReturns`, `RunReturns`, `DeliveryEnds`.  Temporal induction under fairness and
`ENABLED` are outside of what the prover does.  And `BlockHonoured`, for one
rate-limit signal.  The violations of section 6 are
counterexamples, and one theorem.  No module declares a RECURSIVE operator.

## 6. Where the code and its documents disagree

Each property below says what the quoted line says, and TLC finds it violated.
`stop_race` is a listed run; a row that names a configuration (`MC...`) is
reproduced with it as it is, and a row that names a run by putting the property
in the place of the properties of that run's configuration.  Quotations from the
Korean specifications in `docs/specs/` are paraphrased.

| where | property | the document | the code |
| --- | --- | --- | --- |
| `MCDispatch_stop_race` | `NoPRAfterStop` | claude-ops.md:62, US-8: a stopped task is rolled back, no PR | StopTask reads a queued row, the row is claimed, StopTask writes *cancelled* without cancelling the run (`task_usecase.go:229`); the worker goes on, opens a PR and writes *done* |
| run `contended`, without its SYMMETRY | `ReclaimSparesActive` | task.sql:48: rows being processed have a fresher `claimed_at` | nothing renews `claimed_at`: a run longer than the lease is reclaimed |
| `MCDispatch_claim_tie` | `DispatchedOnce` | parallel-tasks.md:49, G2: dispatched exactly once | `GetClaimedTaskID` takes the newest `claimed_at`, and two claims may share a millisecond (`task_repository.go:275`) |
| `MCDispatch_stop_lost` | `StopEndsRun` | task_usecase.go:213: StopTask cancels a running task | the final write uses the cancelled context (`worker.go:356`), fails, and the row stays running until it is orphaned |
| `MCDispatch_null_lease` | `NoRowStranded` | reclaimer.go:13: no row is stranded for good | a whole-row `Save` of a copy read before the claim writes `claimed_at = NULL` (`task_repository.go:186`), and the reclaimer passes over the row |
| `MCBudget_midnight` | `CapsHold` | budget_usecase.go:71: one mutex keeps increment after rollover free of races | the clock is read before the mutex: a call of yesterday that gets it after one of today rolls the counters back (`budget_gate.go:97`) |
| `MCBudget_erased` | `BlockHonoured` | claude-ops.md:66, US-12: no dispatch before the reset time | a result that says *rate limited* has no reset time (`parser.go:158`) and overwrites a stored block |
| run `budget_calls` | `OneSlotPerTask` | config.example.yaml:75: a maintenance task counts toward the limit | it counts at enqueueing (`maintenance_usecase.go:74`) and again in the worker (`worker.go:184`) |
| `MCCostWarn_stale` | `AtMostOnce` | budget_usecase.go:319: calls in one bucket never re-send | a call with yesterday's clock reading resets the flags of today |
| run `costwarn_warn` | `CapReachedOnce` | usage-dashboard.md:57, US-5: "cap reached" once a day | a jump past both thresholds leaves the 80% flag; the next task sets it, and the text goes by the percentage (`slack/client.go:77`) |
| `MCCostWarn_zone` | `BucketsAgree` | usage.sql:64: the caller resolves the day in the configured zone | `dayKeyToRange` is UTC (`usage_repository.go:243`) |
| `MCCostWarn_dashboard` | `TotalsComplete` | usage-dashboard.md:54, US-2: no key is left out | rows are grouped by ISO week and looked up by `WeekKey` (`usage_usecase.go:185`): with a week start other than Monday a row is in no bucket and in no total |
| `MCCIWatcher_hung` | `WatchEnds` | config.example.yaml:42: the watch is given up after the timeout | every poll that finds checks refreshes `updated_at`, from which the age is taken (`watcher.go:160`) |
| run `ci_watch` | `AnnouncedIsStored` | ci-fix-loop.md:99: a verdict is stored, polling ends, Slack is told | the error of the write is dropped (`watcher.go:191`): what was not stored is announced all the same, and again by the next tick |
| run `ci_watch` | `FixesBounded` | ci-fix-loop.md:51, G2: two attempts for a PR at most | the parent's own count is compared, which nothing increments (`watcher.go:217`) |
| run `ci_watch` | `FixReachesClaude` | ci-fix.tmpl:7: the PR's worktree is there as it was | a child is given a worktree of its own with `-b` and the branch of its issue, which exists already (`worker.go:405`) |
| `MCCIWatcher_stale` | `PassedMeansGreen` | checks.go:46: only *action_required* or *stale* means stuck | *stale* falls through to passed (`checks.go:75`) |
| run `ci_watch` | `WorktreeFreed` | worker.go:301: cleanup is left to the watcher | the watcher removes nothing; the sweep asks for failed and cancelled rows only (`gc/runner.go:171`) |
| run `intake_sources` | `OneTaskPerIssue` | github-webhook.md:29, G2: one row, also when both sources see the issue at once | look-up and insert are two statements, no index forbids the second row (line 122 concedes it for a first version) |
| run `intake_sources` | `PollerSkipsKnown` | github-webhook.md:101: the poller skips an issue that has a row | only queued and running rows count, so an open issue is taken again after its task ended |
| run `intake_sources` | `DeliveryLetIn` | github-webhook.md:32, G5: queued whatever the window | `EnqueueFromIssue` answers `ErrOutsideActiveWindow`, and the handler 500 |
| `MCIntake_page` | `IssuePickedUp` | github-webhook.md:60, US-5: the poller recovers what was missed | only the first 50 open issues are looked at (`poller.go:56`) |
| `MCWorktreeGC_page` | `OldSwept` | config.example.yaml:17: removed after these days | the sweep asks for 500 rows, `List` makes that the 50 newest (`task_repository.go:216`), swept ones included |
| `MCWorktreeGC_shutdown` | `ShutdownKept` | gc/runner.go:102: a task that was running at shutdown with a dirty worktree is *orphaned*, for a human to judge | on SIGTERM the run's context is done: `RunTask` calls `cancel` (`worker.go:228`), whose write is lost, and which then removes the worktree without a context (`worker.go:361`); a CreatePR that breaks off does the same (`:269`).  The row stays *running*, and the next boot finds no worktree and fails it |
| run `gc_sweep` | `FailedSwept` | config.example.yaml:17 | a row failed by recovery has no `finished_at` (`gc/runner.go:136`), which the sweep wants (`:177`) |
| run `gc_sweep` | `NothingLeaked` | gc/runner.go:56 | a crash between `git worktree add` and the write of the path leaves a directory no row names (`worker.go:138`) |
| run `claude_run` | `LimitEndsRun` | claude-ops.md:94: a limit fails the task and is stored | the parser returns at once, nobody reads stdout any more, claude blocks in a write and Run waits for stderr (`runner.go:154`) |
| `MCClaudeRunner_group` | `StopReturns` | claude-ops.md:62, US-8: SIGTERM to the process group | only claude is killed; a child that holds stderr keeps Run from returning.  `Canceller` has no caller |
| run `claude_run` | `UsageKept` | usage-dashboard.md:24, G1: the cost of every result is kept | a run that ends in an error drops it (`runner.go:169`) |
| run `delivery_pr` | `OfferIsChecked` | gate.go:3: broken code never reaches review | a helper that a command left behind with its output redirected goes on writing between the gate and `git add`; and after a refused or lost push the rebase moves the commits onto a default branch the commands never saw (`pr_creator.go:71`).  With `Faults = {}` and `HelperKinds = {"piped", "escaped"}` the property holds |
| run `delivery_pr` | `WorkKept` | claude-ops.md:95: when no PR can be made the worktree is kept for another try | the worker removes it (`worker.go:269`), and what `git commit` had not taken is gone |
| run `delivery_pr`, with `Faults = {}` | `CommitsAreOffered` | feature.tmpl:20: claude may commit, the service makes the PR | `git commit` with nothing staged exits 1 and CreatePR ends there (`pr_creator.go:64`): a run that committed everything itself fails |
| run `delivery_pr`, with `DaemonSpec` | `DeliveryEnds` | gate.go:32: a runner honours the cancellation of its context | `<-done` after SIGKILL (`gate.go:85`) waits for the output to be closed, which a helper that has left the group need never do; nothing bounds the worker then |
| `Budget_proofs`, theorem `WeeklyAloneKeepsDefault` | `WeeklyAlone` | config.go:58 and claude-ops.md:65, US-11: a cap that is not set is derived from the other | a weekly cap alone leaves the daily one at its default of 5 (`config.go:184`), not at a seventh of the week; below 5 the file is refused |

Seen while reading, without a configuration:

* After a 500, GitHub's redelivery within five minutes is answered *duplicate*,
  against github-webhook.md:95.  Delivery ids are not kept in `app_state` (:59).
  Webhook tasks are always *feature*, against :57.
* A task without `modelUsage` counts as *unknown* (usage-dashboard.md:55 and the
  code), although :78 says that it does not affect the sums.
* claude-ops.md:57 says, against :95, that a failed PR creation is rolled back.
* Repository names are trimmed for the checks of `validate.go:231` and used as
  they are by the allowlist and the gate's look-up: a quoted name with a blank is
  accepted and then matches nothing (`Allowlist`, `LookUp`).
* `git worktree add` runs in the repository's clone (`worker.go:405`), `git worktree
  remove` in the directory the service was started in (`:418`).
* `metrics.go:55` says that nothing is written during a scrape; the snapshot it
  takes stores a rollover (`budget_usecase.go:219`).
* A prompt that cannot be read makes `run` return (`main.go:318`) when the
  scheduler has been started already.

## 7. Not modelled

* *Texts*: titles and bodies of pull requests, prompts, reports, the tail of a
  command's output, logging.
* *Slack*: the Stop button, warnings and verdicts are; texts, signatures and
  retries of the HTTP client are not.
* *Metrics, read endpoints and server-sent events, `claude-opsctl`, server set-up*:
  they read, format or wire, and change no state that another part relies on.
* *Names* of time zones, weekdays and cron specifications, which the
  configuration parses, and its secrets.
* *`Canceller`*: has no caller.
* *Generated code* (`db/sqlc`, mocks, swagger): the statements are modelled where
  they are used, the usage queries in `Usage` and `CostWarn`.
* *MySQL itself*: statements are atomic and isolated, as the code takes for
  granted; replication and lost commits are outside.
* *Several processes on one table*: the deployment has one.

## 8. What comes next

1. *Composition*: `ClaudeRunner` shown to implement `Dispatch`'s step of claude,
   as `Delivery` does for the steps after it; then the two proved together.
2. *Refinement*: `Budget` and `Intake` as what `Dispatch` sees of them, gates that
   open and shut and rows that appear; what `LifecycleKept` says when claims are
   contested, for the tasks that are not.
3. *Hypotheses that could be weakened*: `CapIsAnnounced` for the day alone needs
   the zone and not the start of the week, `FiguresMatch` for the daily figures
   neither.
4. *Hazards without a property* (`PROJECT.json`): a budget of fixes that is handed
   from parent to child, and the paths on disk that no row knows of, need a model
   in which a property of this kind holds; the code has none yet.
