SPECIFICATION FairSpec
CONSTANTS
    Dialer = {d1, d2}
    MaxAttempts = 2
    Backlog = 2
    MaxData = 1
INVARIANTS
    OkIsAcknowledged
    StreamPristine
    TemporaryRetried
PROPERTIES
    DialReturns
