SPECIFICATION Spec
CONSTANTS
    Limit = 4
    Staging = {s1, s2, s3}
    Fences = {f1, f2}
    Samplers = {nearest, linear}
    Nearest = nearest
    MaxImages = 2
    MaxWrites = 2
    None = None
    Absent = Absent
    Alias = Alias
CHECK_DEADLOCK FALSE
INVARIANTS
    SlotsAreCurrent
    UploadsArrive
    InFlightIsHeld
