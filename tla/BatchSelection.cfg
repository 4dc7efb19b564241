SPECIFICATION FairSpec
CONSTANTS
    Sections = {1, 2, 3}
    Distance <- MCDistance
    Bytes <- MCBytes
    MaxBatchSize = 2
    TotalBatches = 2
    BackgroundWait = 1
    FairnessAge = 1
    UploadBudget = 2
    InFlightBudget = 3
INVARIANTS
    LanesShare
    InFlightBounded
PROPERTIES
    NoStarvation
