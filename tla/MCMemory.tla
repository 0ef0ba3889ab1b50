------------------------------ MODULE MCMemory ------------------------------
(***************************************************************************)
(* Instance of Memory: a task and a turn of one profile, beside a memory   *)
(* of that profile and one of another.                                     *)
(***************************************************************************)
EXTENDS Memory

MCMaxItems == [s \in Sources |-> 1]

MCProfile == [s \in Sources \cup Before |-> IF s = "foreign" THEN "q" ELSE "p"]

=============================================================================
