----------------------------- MODULE MCAppPlane -----------------------------
(* Every contract on every platform, one change by another program, and a    *)
(* redirect that may be followed.                                            *)
EXTENDS AppPlane
=============================================================================
