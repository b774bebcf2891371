SPECIFICATION FairSpec
CONSTANTS
    Handlers <- MCHandlers
    MaxChildren = 1
    MaxCleanups = 0
    Forwards = TRUE
    MayCancel = FALSE
    MayRestart = FALSE
INVARIANTS
    FailedStartLeavesNothing
    StartErrorReported
PROPERTIES
    ReapedPidUnregistered
    FatalErrorFinal
    CallsReturn
