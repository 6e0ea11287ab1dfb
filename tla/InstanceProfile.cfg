SPECIFICATION Spec
CONSTANTS
    Pkgs = {b, u, s}
    FirstParty = {s}
    Skins = {s}
    Renamed = {s}
    Unbuilt = {u}
    MaxJobs = 3
    MaxCommands = 1
    MaxCrashes = 1
INVARIANTS
    KnownGoodKept
    LibraryMatchesDisk
PROPERTY SafeBootLeavesProfile
CHECK_DEADLOCK FALSE
