--------------------------- MODULE MCInstallQueue ---------------------------
(* Model-checking instance of InstallQueue.                                *)
EXTENDS InstallQueue

CONSTANTS i1, i2, d1, d2
=============================================================================
