------------------------------ MODULE TaskStore ------------------------------
(***************************************************************************)
(* The `tasks` table and the statements the program issues against it.     *)
(*                                                                         *)
(* A row keeps the columns that some statement filters on or that the      *)
(* worker decides by; titles, URLs, token counts and log tails are left    *)
(* out.  A statement is an operator on the whole table: MySQL runs each    *)
(* one atomically, and the components that use this module put their own   *)
(* steps between two statements.                                           *)
(***************************************************************************)
EXTENDS Naturals, FiniteSets

CONSTANTS Tasks,      \* task ids (the primary key)
          Repos,      \* repo_full_name values
          RepoOf,     \* the repository of each task
          FixTasks    \* the tasks of type ci-fix

ASSUME StoreAssumption ==
  /\ RepoOf \in [Tasks -> Repos]
  /\ FixTasks \subseteq Tasks

Statuses == {"queued", "running", "done", "failed", "cancelled", "orphaned"}

Terminal == {"done", "failed", "cancelled", "orphaned"}

\* "absent" stands for a primary key that has no row yet.  claimedAt = 0 is
\* SQL NULL; other values are instants in the order of the NOW(3) readings.
Row == [status    : Statuses \cup {"absent"},
        owned     : BOOLEAN,            \* worker_id IS NOT NULL
        claimedAt : Nat,
        created   : Nat,                \* rank of created_at
        path      : BOOLEAN,            \* worktree_path <> ''
        pr        : BOOLEAN,            \* pr_number > 0
        finished  : BOOLEAN,            \* finished_at IS NOT NULL
        ci        : {"", "watching"}]

NoRow == [status |-> "absent", owned |-> FALSE, claimedAt |-> 0, created |-> 0,
          path |-> FALSE, pr |-> FALSE, finished |-> FALSE, ci |-> ""]

Present(rows) == {t \in Tasks : rows[t].status # "absent"}

WithStatus(rows, s) == {t \in Tasks : rows[t].status = s}

-----------------------------------------------------------------------------
(* GORM statements *)

\* Create: a fresh queued row.  A ci-fix task is born with the worktree path of
\* its parent (task_usecase.go:176), until its worker stores its own.
Insert(rows, t) ==
  [rows EXCEPT ![t] = [NoRow EXCEPT !.status = "queued",
                                    !.path = (t \in FixTasks),
                                    !.created = Cardinality(Present(rows)) + 1]]

\* Update is GORM's Save: every column is written from the caller's copy.
Save(rows, t, copy) == [rows EXCEPT ![t] = copy]

-----------------------------------------------------------------------------
(* db/query/task.sql *)

\* Mutants: without the NOT EXISTS clause; only the head of the queue.
AnyQueued(rows) == WithStatus(rows, "queued")
HeadOfQueue(rows) ==
  {t \in WithStatus(rows, "queued") :
     /\ \A u \in WithStatus(rows, "queued") : rows[t].created =< rows[u].created
     /\ \A u \in WithStatus(rows, "running") : RepoOf[u] # RepoOf[t]}

\* Queued rows whose repository has no running row.
Claimable(rows) ==
  {t \in WithStatus(rows, "queued") :
     \A u \in WithStatus(rows, "running") : RepoOf[u] # RepoOf[t]}

\* ORDER BY created_at ASC LIMIT 1
Oldest(rows, S) == {t \in S : \A u \in S : rows[t].created =< rows[u].created}

ClaimNextTask(rows, t, instant) ==
  [rows EXCEPT ![t] = [@ EXCEPT !.status = "running", !.owned = TRUE,
                                !.claimedAt = instant]]

\* Mutant: ORDER BY claimed_at ASC.
EarliestClaimed(rows) ==
  LET mine == {t \in WithStatus(rows, "running") : rows[t].owned}
  IN  {t \in mine : \A u \in mine : rows[t].claimedAt =< rows[u].claimedAt}

\* The rows the follow-up SELECT may return: worker_id = me AND running,
\* ORDER BY claimed_at DESC LIMIT 1.  There is more than one when two claims
\* fell in the same millisecond.
GetClaimedTaskID(rows) ==
  LET mine == {t \in WithStatus(rows, "running") : rows[t].owned}
  IN  {t \in mine : \A u \in mine : rows[u].claimedAt =< rows[t].claimedAt}

\* Mutant: only rows that nobody owns.
StaleUnowned(rows, cutoff) ==
  {t \in WithStatus(rows, "running") :
     ~rows[t].owned /\ rows[t].claimedAt # 0 /\ rows[t].claimedAt < cutoff}

Stale(rows, cutoff) ==
  {t \in WithStatus(rows, "running") :
     rows[t].claimedAt # 0 /\ rows[t].claimedAt < cutoff}

ReclaimStale(rows, cutoff) ==
  [t \in Tasks |-> IF t \in Stale(rows, cutoff)
                     THEN [rows[t] EXCEPT !.status = "orphaned", !.owned = FALSE]
                     ELSE rows[t]]

UpdateCIStatus(rows, t, ci) == [rows EXCEPT ![t].ci = ci]
=============================================================================
