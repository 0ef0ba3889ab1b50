---------------------------- MODULE MCAuditChain ---------------------------
(* AuditChain on a small instance. *)
EXTENDS AuditChain, TLC

Symmetry == Permutations(Writers) \cup Permutations(Events)

=============================================================================
