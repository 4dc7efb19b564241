SPECIFICATION FailureSpec
CONSTANTS
    Threads = {t1, t2, t3}
    None = None
    Generic = Generic
SYMMETRY Interchangeable
CHECK_DEADLOCK FALSE
INVARIANTS
    LossIsObserved
    ReportsAreConsistent
    RefusalsAreExplained
PROPERTIES
    FirstCauseStays
