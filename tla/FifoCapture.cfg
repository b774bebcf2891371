SPECIFICATION FairSpec
CONSTANTS
    MaxRuns = 2
    MaxChunks = 2
    ReadSize = 2
INVARIANTS
    OutputInOrder
    FifoStaysByFailure
PROPERTIES
    WaitsForFirstData
    CaptureEnds
