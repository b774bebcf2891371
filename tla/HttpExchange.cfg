SPECIFICATION FairSpec
CONSTANTS
    MaxBody = 3
    ChunkSize = 2
INVARIANTS
    BodyExact
PROPERTIES
    TimeoutJustified
    CallReturns
\* The call has returned, or waits without a timeout for a silent peer.
CHECK_DEADLOCK FALSE
