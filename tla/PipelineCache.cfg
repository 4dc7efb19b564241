SPECIFICATION CacheSpec
CONSTANTS
    Procs = {p1, p2}
    Pipelines = {x1, x2}
    MaxSize = 1
    MaxFiles = 3
    MaxLosses = 1
SYMMETRY Interchangeable
CHECK_DEADLOCK FALSE
PROPERTIES
    WholeIsFound
    PersistedStays
