--------------------------- MODULE MCSupervisor ----------------------------
(* Supervisor with small sets; receipts are interchangeable.               *)
EXTENDS Supervisor, TLC

Symmetry == Permutations(Receipts) \cup Permutations(Workers) \cup Permutations(Keys)
=============================================================================
