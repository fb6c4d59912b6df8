----------------------------- MODULE MCDispatch -----------------------------
(***************************************************************************)
(* Small instances of Dispatch for TLC.                                    *)
(***************************************************************************)
EXTENDS Dispatch, TLC

CONSTANTS t1, t2, t3, r1, r2, w1, w2

\* Two tasks of one repository.
OneRepo == [t \in Tasks |-> r1]

\* t3 in a repository of its own.
TwoRepos == [t \in Tasks |-> IF t = t3 THEN r2 ELSE r1]

\* Every task for an issue of its own.
OwnIssues == (t1 :> 1) @@ (t2 :> 2) @@ (t3 :> 3)

\* t2 is a second task for the issue of t1: a ci-fix child of it, or a retry.
SharedIssue == (t1 :> 1) @@ (t2 :> 1) @@ (t3 :> 3)

\* Goroutine identities are interchangeable; so are the two tasks of r1.
WorkerSymmetry == Permutations(Workers)
=============================================================================
