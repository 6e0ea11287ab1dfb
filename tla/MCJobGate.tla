------------------------------ MODULE MCJobGate ------------------------------
(* Model-checking instance of JobGate.                                     *)
EXTENDS JobGate

CONSTANTS l1, l2, o1, o2
=============================================================================
