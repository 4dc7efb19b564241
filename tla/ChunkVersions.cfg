SPECIFICATION FairSpec
CONSTANTS
    MaxGen = 4
    PrimaryCounts = {1}
    MaxSlots = 1
    ImplicitSlots = {}
    Producers = {p1, p2}
    Fences = {f1, f2}
    BatchSize = 1
    Kinds = {"plain"}
    EmissionSettings = {FALSE}
    MaxVersion = 1
    MaxOwners = 3
    MaxThrows = 1
    NoBuild = NoBuild
CHECK_DEADLOCK FALSE
INVARIANTS
    NoForeignBuild
    NoLostBuild
    FencePool
PROPERTIES
    ImplementsLatestWins
    AcceptedBuildIsPublished
