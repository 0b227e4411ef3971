SPECIFICATION FairSpec
CONSTANTS
    Callers = {c1, c2}
    Closer = closer
    Nobody = nobody
    LinesCap = 1
    PipeCap = 1
    MaxSignals = 3
    MaxCalls = 3
INVARIANTS
    StreamInStep
    CloseTellsTruth
PROPERTIES
    OnlyWedgedAreKilled
    WaitsEnd
