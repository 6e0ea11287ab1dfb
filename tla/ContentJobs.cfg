SPECIFICATION Spec
CONSTANTS
    Ids = {"r1", "r2"}
    Servers = {"npm", "source", "remote"}
    Pkgs = {"skin", "client"}
    Skills = {"skill", "pinned"}
    Themes = {"skin"}
    Bundles = {"client"}
    Clients = {"client"}
    RowIds <- MCRowIds
    Catalog <- MCCatalog
    NeedsToken = {}
    Toolbox = {"git", "npm", "uv"}
    Provider = FALSE
    Root <- MCRoot
    Alike <- MCAlike
    Pinned = {"pinned"}
    Files = {"a", "b"}
    FilesOf <- MCFilesOf
    Families <- MCFamilies
    MaxJobs = 3
    MaxCrashes = 1
INVARIANTS
    TypeOK
    PatchIsArray
    BootMountsOnlyBuiltBundles
    McpRowsAreRecords
    RollbackLeavesNothing
    InstallLandsOff
    FirstInstallIsWhole
    SuccessIsExact
PROPERTY RemovedOnlyIfAsked
