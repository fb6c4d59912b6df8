------------------------------ MODULE MCIntake ------------------------------
(* Instances of Intake for TLC. *)
EXTENDS Intake, TLC

CONSTANTS d1, d2, c1, c2, c3

\* A week of two days; the window is the second half of the first.
FirstDay == {[days |-> {0}, start |-> 1, end |-> 2]}

\* All issues in the second repository.
SecondRepo == [i \in Issues |-> 2]

\* d2 is filtered: a pull request, another action, labels that do not match.
OneFiltered == [d \in Deliveries |-> IF d = d1 THEN 1 ELSE NoIssue]
=============================================================================
