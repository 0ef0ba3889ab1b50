--------------------------- MODULE MCUnitOfWork ----------------------------
(* UnitOfWork on a small instance. *)
EXTENDS UnitOfWork, TLC

Symmetry == Permutations(Units)

=============================================================================
