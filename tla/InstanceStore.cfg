SPECIFICATION Spec
CONSTANTS
    Tasks = {t1, t2}
    Plugins = {"p"}
    Skills = {"s"}
    Catalogue = {"s"}
    Foreign = {"p", "s"}
    MaxIds = 3
    MaxCommands = 4
    MaxRows = 1
    MaxCrashes = 1
SYMMETRY Symmetry
INVARIANTS
    InstanceStays
    ImportIsWhole
PROPERTY SomeInstanceRemains
CHECK_DEADLOCK FALSE
