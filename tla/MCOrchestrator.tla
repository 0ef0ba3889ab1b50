-------------------------- MODULE MCOrchestrator ---------------------------
(* Orchestrator on a small instance. *)
EXTENDS Orchestrator, TLC

Symmetry == Permutations(Callers) \cup Permutations(Plans)

=============================================================================
