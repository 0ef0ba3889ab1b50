------------------------------ MODULE MCIntake ------------------------------
(* Two requests: a crash or a sweep can hit one in planning and the other    *)
(* anywhere.                                                                 *)
EXTENDS Intake
=============================================================================
