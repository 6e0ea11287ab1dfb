------------------------- MODULE MCChildSupervisor -------------------------
(* Model-checking instance of ChildSupervisor.                             *)
EXTENDS ChildSupervisor

CONSTANTS i1, i2
=============================================================================
