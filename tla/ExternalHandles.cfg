CONSTANTS
    MaxGen = 3
    PrimaryCounts = {1, 2}
    MaxSlots = 4
SPECIFICATION TableSpec
INVARIANTS
    ResolvesExactlyLive
    OneOwnerPerSlot
    RecentlyReleasedStaysDead
