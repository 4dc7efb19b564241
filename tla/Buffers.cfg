SPECIFICATION Spec
CONSTANTS
    Names = {n1}
    OverlayNames = {o1}
    Storage = {b1, b2, b3, b4}
    Cells = {c1, c2}
    Contexts = {f1, f2}
    MaxTicket = 2
    MaxWrites = 2
    None = None
SYMMETRY Interchangeable
CHECK_DEADLOCK FALSE
INVARIANTS
    DrawsWhatWasWritten
    UsedIsOwned
    OpenIsUnrecorded
