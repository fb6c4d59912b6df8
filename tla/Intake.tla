-------------------------------- MODULE Intake --------------------------------
(***************************************************************************)
(* How issues become queued tasks: the GitHub webhook with its delivery     *)
(* cache, the poller inside the scheduler's tick, POST /tasks, the active   *)
(* windows and full mode (webhook_handler.go, webhook_dedup.go, poller.go,  *)
(* EnqueueFromIssue, mode_usecase.go, window.go).                           *)
(*                                                                         *)
(* A request is a goroutine, the poller is the tick loop's.  The look-up of *)
(* an existing task, the gate and the INSERT are steps of their own.  What  *)
(* becomes of a queued task is Dispatch's matter: here it ends some day.    *)
(***************************************************************************)
EXTENDS Naturals, FiniteSets

CONSTANTS
  Week,         \* the instants of a week are 0..Week - 1
  DayLength,    \* instants of a day
  ActiveWindows,\* active_windows: [days, start, end] after Validate
  Repos,        \* numbered in the order of the configuration
  Issues,       \* numbered: a larger issue is newer
  RepoOf,
  FailingRepos, \* repositories whose issues cannot be listed
  PageSize,     \* PerPage
  Deliveries,   \* X-GitHub-Delivery ids
  IssueOf,      \* what each delivery is about, or NoIssue: nothing to enqueue
  TTL,          \* of the delivery cache, in instants
  Calls,        \* request goroutines
  ApiCalls,     \* those of POST /tasks
  SlowCalls,    \* TRUE: a request may outlive the TTL
  Faults,       \* "gh": listing fails now and then; "db": a statement fails
  MaxCrashes,
  NoIssue, API, Poll

ASSUME IntakeAssumption ==
  /\ Week \in Nat \ {0} /\ DayLength \in 1..Week /\ TTL \in Nat \ {0}
  /\ PageSize \in Nat \ {0} /\ MaxCrashes \in Nat
  /\ \A w \in ActiveWindows : w.days \subseteq Nat /\ w.days # {} /\ w.start < w.end
  /\ Issues \subseteq Nat /\ IsFiniteSet(Issues)
  /\ Repos \subseteq Nat /\ IsFiniteSet(Repos)
  /\ RepoOf \in [Issues -> Repos] /\ FailingRepos \subseteq Repos
  /\ NoIssue \notin Issues
  /\ IssueOf \in [Deliveries -> Issues \cup {NoIssue}]
  /\ API \notin Deliveries /\ Poll \notin Deliveries /\ API # Poll
  /\ ApiCalls \subseteq Calls /\ SlowCalls \in BOOLEAN
  /\ Faults \subseteq {"gh", "db"}

Sources == Deliveries \cup {API, Poll}

VARIABLES
  now,      \* instant of the week
  open,     \* issues that are open and carry the labels
  fullMode, \* app_state full_mode
  tasks,    \* queued and running rows: how many for each issue and source
  known,    \* history: issues that have had a row
  cache,    \* time left of each delivery id, 0 when unknown or expired
  pc,       \* of each call: idle, exists, gate, duplicate, create
  source,   \* what the call is: a delivery or API
  about,    \* the issue of the call
  poll,     \* the poller: idle, list, issues, create
  repos,    \* repositories it has still to list
  page,     \* issues it has still to look at
  picked,   \* the issue it is about to create a task for
  crashes

env == <<now, open>>
calls == <<pc, source, about>>
poller == <<poll, repos, page, picked>>
vars == <<env, fullMode, tasks, known, cache, calls, poller, crashes>>

TypeOK ==
  /\ now \in 0..(Week - 1)
  /\ open \subseteq Issues /\ known \subseteq Issues
  /\ fullMode \in BOOLEAN
  /\ tasks \in [Issues -> [Sources -> Nat]]
  /\ cache \in [Deliveries -> 0..TTL]
  /\ pc \in [Calls -> {"idle", "exists", "gate", "duplicate", "create"}]
  /\ source \in [Calls -> Deliveries \cup {API}]
  /\ about \in [Calls -> Issues \cup {NoIssue}]
  /\ \A c \in Calls : /\ (pc[c] = "idle") <=> (about[c] = NoIssue)
                      /\ pc[c] = "exists" => source[c] # API
  /\ poll \in {"idle", "list", "issues", "create"}
  /\ repos \subseteq Repos
  /\ page \subseteq Issues
  /\ picked \in Issues \cup {NoIssue}
  /\ (poll = "create") <=> (picked # NoIssue)
  /\ crashes \in 0..MaxCrashes

Init ==
  /\ now = 0
  /\ open = {} /\ known = {}
  /\ fullMode = FALSE
  /\ tasks = [i \in Issues |-> [s \in Sources |-> 0]]
  /\ cache = [d \in Deliveries |-> 0]
  /\ pc = [c \in Calls |-> "idle"]
  /\ source = [c \in Calls |-> API]
  /\ about = [c \in Calls |-> NoIssue]
  /\ poll = "idle" /\ repos = {} /\ page = {} /\ picked = NoIssue
  /\ crashes = 0

-----------------------------------------------------------------------------
\* ActiveWindow.Contains: the day of the week and a half-open range of it.
Contains(w, t) ==
  /\ t \div DayLength \in w.days
  /\ t % DayLength >= w.start
  /\ t % DayLength < w.end

AllowNow(t, full) == full \/ \E w \in ActiveWindows : Contains(w, t)

\* ExistsByRepoAndIssue: a task that is queued or running.
Exists(i) == \E s \in Sources : tasks[i][s] > 0

\* A statement may fail.
StatementFails == "db" \in Faults

\* Create, by the source s.
Create(i, s) ==
  /\ tasks' = [tasks EXCEPT ![i][s] = @ + 1]
  /\ known' = known \cup {i}

-----------------------------------------------------------------------------
(* GitHub, the clock, and the rest of the system                            *)

InFlight(d) == \E c \in Calls : pc[c] # "idle" /\ source[c] = d

\* A minute passes; entries of the delivery cache grow older and lapse.
AdvanceClock ==
  /\ SlowCalls \/ \A d \in Deliveries : cache[d] = 1 => ~InFlight(d)
  /\ now' = (now + 1) % Week
  /\ cache' = [d \in Deliveries |-> IF cache[d] > 0 THEN cache[d] - 1 ELSE 0]
  /\ UNCHANGED <<open, fullMode, tasks, known, calls, poller, crashes>>

OpenIssue(i) ==
  /\ i \notin open
  /\ open' = open \cup {i}
  /\ UNCHANGED <<now, fullMode, tasks, known, cache, calls, poller, crashes>>

CloseIssue(i) ==
  /\ i \in open
  /\ open' = open \ {i}
  /\ UNCHANGED <<now, fullMode, tasks, known, cache, calls, poller, crashes>>

\* A task is done, failed or cancelled.
TaskEnds(i, s) ==
  /\ tasks[i][s] > 0
  /\ tasks' = [tasks EXCEPT ![i][s] = @ - 1]
  /\ UNCHANGED <<env, fullMode, known, cache, calls, poller, crashes>>

\* POST /modes/full.
SetFullMode(enabled) ==
  /\ fullMode' = enabled
  /\ UNCHANGED <<env, tasks, known, cache, calls, poller, crashes>>

-----------------------------------------------------------------------------
(* Requests                                                                 *)

Start(c, s, i, label) ==
  /\ pc' = [pc EXCEPT ![c] = label]
  /\ source' = [source EXCEPT ![c] = s]
  /\ about' = [about EXCEPT ![c] = i]

Goto(c, label) == pc' = [pc EXCEPT ![c] = label] /\ UNCHANGED <<source, about>>
Answer(c) == Start(c, API, NoIssue, "idle")

\* CheckAndAdd accepts: unknown or lapsed, and recorded, under one lock.
CheckAndAdd(d) == cache[d] = 0 /\ cache' = [cache EXCEPT ![d] = TTL]

\* A delivery with a valid signature, for the first time or again.  One that
\* is filtered (no task to make of it) is answered after its id was recorded.
Deliver(c, d) ==
  /\ pc[c] = "idle" /\ c \notin ApiCalls
  /\ CheckAndAdd(d)
  /\ IF IssueOf[d] = NoIssue THEN UNCHANGED calls ELSE Start(c, d, IssueOf[d], "exists")
  /\ UNCHANGED <<env, fullMode, tasks, known, poller, crashes>>

\* HandleWebhook's own look-up.
CheckExists(c) ==
  /\ pc[c] = "exists"
  /\ \/ ~Exists(about[c]) /\ Goto(c, "gate")
     \/ (Exists(about[c]) \/ StatementFails) /\ Answer(c)
  /\ UNCHANGED <<env, fullMode, tasks, known, cache, poller, crashes>>

\* POST /tasks for an issue of an allowed repository.
Request(c, i) ==
  /\ pc[c] = "idle" /\ c \in ApiCalls
  /\ Start(c, API, i, "gate")
  /\ UNCHANGED <<env, fullMode, tasks, known, cache, poller, crashes>>

\* EnqueueFromIssue, first full mode and the window ...
Gate(c) ==
  /\ pc[c] = "gate"
  /\ \/ AllowNow(now, fullMode) /\ Goto(c, "duplicate")
     \/ (~AllowNow(now, fullMode) \/ StatementFails) /\ Answer(c)
  /\ UNCHANGED <<env, fullMode, tasks, known, cache, poller, crashes>>

\* ... then its look-up ...
CheckDuplicate(c) ==
  /\ pc[c] = "duplicate"
  /\ \/ ~Exists(about[c]) /\ Goto(c, "create")
     \/ (Exists(about[c]) \/ StatementFails) /\ Answer(c)
  /\ UNCHANGED <<env, fullMode, tasks, known, cache, poller, crashes>>

\* ... and the INSERT.
CreateTask(c) ==
  /\ pc[c] = "create"
  /\ \/ Create(about[c], source[c])
     \/ StatementFails /\ UNCHANGED <<tasks, known>>
  /\ Answer(c)
  /\ UNCHANGED <<env, fullMode, cache, poller, crashes>>

-----------------------------------------------------------------------------
(* The poller                                                               *)

\* A tick inside the window or in full mode; a full mode that cannot be read
\* counts as off.
StartPoll ==
  /\ poll = "idle"
  /\ AllowNow(now, fullMode)
  /\ poll' = "list"
  /\ repos' = Repos
  /\ UNCHANGED <<env, fullMode, tasks, known, cache, calls, page, picked, crashes>>

NextRepo == CHOOSE r \in repos : \A q \in repos : r =< q
NextIssue == CHOOSE i \in page : \A j \in page : i >= j

\* The first page of the open issues, newest first; nobody asks for the next.
FirstPage(r) ==
  LET issues == {i \in open : RepoOf[i] = r}
  IN  {i \in issues : Cardinality({j \in issues : j > i}) < PageSize}

\* Mutant: a repository that cannot be listed ends the poll.
ListOrReturn ==
  /\ poll = "list"
  /\ IF repos = {}
       THEN poll' = "idle" /\ UNCHANGED <<repos, page>>
       ELSE \/ /\ NextRepo \notin FailingRepos
               /\ poll' = "issues" /\ page' = FirstPage(NextRepo)
               /\ repos' = repos \ {NextRepo}
            \/ /\ NextRepo \in FailingRepos \/ "gh" \in Faults
               /\ poll' = "idle" /\ repos' = {} /\ UNCHANGED page
  /\ UNCHANGED <<env, fullMode, tasks, known, cache, calls, picked, crashes>>

\* ListByRepo of the next repository; one that fails is skipped.
List ==
  /\ poll = "list"
  /\ IF repos = {}
       THEN poll' = "idle" /\ UNCHANGED <<repos, page>>
       ELSE /\ repos' = repos \ {NextRepo}
            /\ \/ /\ NextRepo \notin FailingRepos
                  /\ poll' = "issues" /\ page' = FirstPage(NextRepo)
               \/ /\ NextRepo \in FailingRepos \/ "gh" \in Faults
                  /\ UNCHANGED <<poll, page>>
  /\ UNCHANGED <<env, fullMode, tasks, known, cache, calls, picked, crashes>>

\* Mutant: a look-up that fails counts as none.
PollIssueAnyway ==
  /\ poll = "issues"
  /\ IF page = {}
       THEN poll' = "list" /\ UNCHANGED <<page, picked>>
       ELSE /\ page' = page \ {NextIssue}
            /\ \/ /\ ~Exists(NextIssue) \/ StatementFails
                  /\ poll' = "create" /\ picked' = NextIssue
               \/ Exists(NextIssue) /\ UNCHANGED <<poll, picked>>
  /\ UNCHANGED <<env, fullMode, tasks, known, cache, calls, repos, crashes>>

\* The look-up for the next issue of the page; one that fails skips it.
PollIssue ==
  /\ poll = "issues"
  /\ IF page = {}
       THEN poll' = "list" /\ UNCHANGED <<page, picked>>
       ELSE /\ page' = page \ {NextIssue}
            /\ \/ ~Exists(NextIssue) /\ poll' = "create" /\ picked' = NextIssue
               \/ /\ Exists(NextIssue) \/ StatementFails
                  /\ UNCHANGED <<poll, picked>>
  /\ UNCHANGED <<env, fullMode, tasks, known, cache, calls, repos, crashes>>

PollCreate ==
  /\ poll = "create"
  /\ \/ Create(picked, Poll)
     \/ StatementFails /\ UNCHANGED <<tasks, known>>
  /\ poll' = "issues" /\ picked' = NoIssue
  /\ UNCHANGED <<env, fullMode, cache, calls, repos, page, crashes>>

\* The process dies and starts again: the delivery cache is memory.
Crash ==
  /\ crashes < MaxCrashes
  /\ crashes' = crashes + 1
  /\ cache' = [d \in Deliveries |-> 0]
  /\ pc' = [c \in Calls |-> "idle"]
  /\ source' = [c \in Calls |-> API]
  /\ about' = [c \in Calls |-> NoIssue]
  /\ poll' = "idle" /\ repos' = {} /\ page' = {} /\ picked' = NoIssue
  /\ UNCHANGED <<env, fullMode, tasks, known>>

-----------------------------------------------------------------------------
Next ==
  \/ AdvanceClock \/ Crash
  \/ \E enabled \in BOOLEAN : SetFullMode(enabled)
  \/ \E i \in Issues : \/ OpenIssue(i) \/ CloseIssue(i)
                      \/ \E s \in Sources : TaskEnds(i, s)
  \/ \E c \in Calls : \/ \E d \in Deliveries : Deliver(c, d)
                     \/ \E i \in Issues : Request(c, i)
                     \/ CheckExists(c) \/ Gate(c) \/ CheckDuplicate(c) \/ CreateTask(c)
  \/ StartPoll \/ List \/ PollIssue \/ PollCreate

Spec == Init /\ [][Next]_vars

\* Time passes; the ticker ticks many times while a window is open; the poller
\* and the requests go on; neither gh nor the database fails for ever, but a
\* repository in FailingRepos does.
FairSpec ==
  /\ Spec
  /\ WF_vars(AdvanceClock)
  /\ SF_vars(StartPoll)
  /\ WF_vars(List \/ PollIssue \/ PollCreate)
  /\ \A r \in Repos : SF_vars(List /\ repos # {} /\ NextRepo = r /\ poll' = "issues")
  /\ \A i \in Issues : /\ SF_vars(PollIssue /\ page # {} /\ NextIssue = i /\ ~Exists(i) /\ poll' = "create")
                      /\ SF_vars(PollCreate /\ picked = i /\ tasks' # tasks)
  /\ \A c \in Calls : WF_vars(CheckExists(c) \/ Gate(c) \/ CheckDuplicate(c) \/ CreateTask(c))

-----------------------------------------------------------------------------
\* github-webhook.md:59, as far as each source goes: a delivery, however often
\* and whenever it is sent again, and the poller have at most one live task for
\* an issue, through restarts that forget the delivery cache.
SourceOnce ==
  \A i \in Issues, s \in Sources \ {API} : tasks[i][s] =< 1

\* github-webhook.md:32 and :60: an issue that stays open gets a task, although
\* webhooks are lost or answered 500 and another repository cannot be listed;
\* a task that ended without closing the issue is followed by another one.
IssuePickedUp ==
  \A i \in Issues :
    RepoOf[i] \notin FailingRepos =>
      ((i \in open /\ ~Exists(i)) ~> (i \notin open \/ Exists(i)))

-----------------------------------------------------------------------------
(* What the documentation says and the code does not do                     *)

\* github-webhook.md:29, G2: exactly one row, also when poller and webhook find
\* the issue at the same time.
OneTaskPerIssue ==
  \A i \in Issues : \A s, z \in Sources : tasks[i][s] > 0 /\ tasks[i][z] > 0 => s = z

\* github-webhook.md:101: the poller passes over an issue that already has a
\* row.
PollerSkipsKnown ==
  [][\A i \in Issues : tasks'[i][Poll] > tasks[i][Poll] => i \notin known]_vars

\* github-webhook.md:32, G5: a delivery is queued whatever the window.
DeliveryLetIn ==
  [][\A c \in Calls : pc[c] = "gate" /\ source[c] # API => pc'[c] # "idle"]_vars
=============================================================================
