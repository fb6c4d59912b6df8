----------------------------- MODULE MCCostWarn -----------------------------
(* Instances of CostWarn and of Usage on top of it for TLC. *)
EXTENDS Usage, TLC

CONSTANTS r1, r2, r3

\* Two tasks that reach 80% together with a third that goes over.
Costs == (r1 :> 8) @@ (r2 :> 3) @@ (r3 :> 9)

\* A task with two models, one without a breakdown, one with a nameless model.
Models == (r1 :> ("opus" :> 5 @@ "sonnet" :> 3)) @@ (r2 :> <<>>) @@ (r3 :> ("opus" :> 7 @@ "" :> 2))
=============================================================================
