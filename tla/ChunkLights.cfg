SPECIFICATION Spec
CONSTANTS
    MaxGen = 4
    PrimaryCounts = {0, 1}
    MaxSlots = 2
    ImplicitSlots = {0, 1}
    Producers = {p1}
    Fences = {f1}
    BatchSize = 2
    Kinds = {"empty", "emissive"}
    EmissionSettings = {TRUE, FALSE}
    MaxVersion = 1
    MaxOwners = 2
    MaxThrows = 0
    NoBuild = NoBuild
CHECK_DEADLOCK FALSE
INVARIANTS
    NoForeignBuild
    PackedLightIsLive
    QueuedHasData
    EmissionOff
