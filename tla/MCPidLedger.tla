---------------------------- MODULE MCPidLedger -----------------------------
\* Small instances of PidLedger: two launchers, and fewer PIDs than processes.
EXTENDS PidLedger, TLC

MCPids == {1, 2, 3}
MCSymmetry == Permutations(Sessions)
=============================================================================
