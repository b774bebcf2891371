SPECIFICATION ChainSpec
CONSTANTS
    UserHandler = {u1, u2}
    MaxEdits = 2
INVARIANTS
    ChainInOrder
    ValidatedFirst
    StartedOnce
\* start() has returned.
CHECK_DEADLOCK FALSE
