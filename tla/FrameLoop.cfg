SPECIFICATION Spec
CONSTANTS
    ImageCounts = {2, 3}
    Resources = {r1, r2}
    MaxFrames = 6
SYMMETRY Interchangeable
CHECK_DEADLOCK FALSE
INVARIANTS
    NoUseAfterFree
    HeldOnce
    SignaledMeansComplete
    FencesComeBack
    HeldGroupsBounded
