SPECIFICATION Spec
CONSTANTS
    Keys = {k1, k2}
    Models = {m1, m2}
    Revisions = {r1, r2}
    MaxResident = 1
    MaxIdle = 0
    BuildsPerFrame = 1
    MaxTokens = 2
    MaxGeneration = 2
    MaxClouds = 2
    None = None
SYMMETRY Interchangeable
CHECK_DEADLOCK FALSE
INVARIANTS
    TracedIsBuilt
    InstancesAreOwned
