SPECIFICATION Spec
CONSTANTS
    Views = {1, 2, 3}
    Sizes = {1, 2}
    Contexts = 3
    Engines = {e1, e2, e3}
    ReloadMidFrame = FALSE
    None = None
SYMMETRY Interchangeable
CHECK_DEADLOCK FALSE
INVARIANTS
    HistoriesInUseAreOpen
    HistoryIsOwn
