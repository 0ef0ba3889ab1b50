-------------------------- MODULE MCPlanExecution --------------------------
(* PlanExecution on a small instance: a plan of two steps. *)
EXTENDS PlanExecution, TLC

CONSTANTS k1, k2

DistinctKeys == 1 :> k1 @@ 2 :> k2

Symmetry == Permutations(Runners) \cup Permutations(Callers)

=============================================================================
