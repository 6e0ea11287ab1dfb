SPECIFICATION Spec
CONSTANTS
    Versions = {1, 2}
    Sources = {"a", "b"}
    Larger = {"a"}
    Outside <- FoundOutside
    Nodes = {"bundled"}
    Threads = {t1, t2}
    MaxCommands = 3
    MaxCrashes = 1
SYMMETRY Symmetry
INVARIANTS
    BootsWholeRuntime
CHECK_DEADLOCK FALSE
