SPECIFICATION Spec
CONSTANTS
    Handlers <- MCHandlers
    MaxChildren = 2
    MaxCleanups = 2
    Forwards = TRUE
    MayCancel = TRUE
    MayRestart = TRUE
INVARIANTS
    CleanupNotForgotten
PROPERTIES
    ImplementsContract
