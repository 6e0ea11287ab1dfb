SPECIFICATION Spec
CONSTANTS
    Sessions = {s1, s2}
    Pids <- MCPids
    Fingerprints = TRUE
    Legacy = TRUE
    MaxBorn = 5
    MaxErrors = 1
SYMMETRY MCSymmetry
INVARIANTS
    RecordedTreeKeepsRow
    SweepReapsOrphans
PROPERTY SweepSparesStrangers
CHECK_DEADLOCK FALSE
