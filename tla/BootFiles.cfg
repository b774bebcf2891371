SPECIFICATION Spec
CONSTANTS
    Machine = {m1, m2}
    Files <- MCFiles
    Config <- MCConfig
CHECK_DEADLOCK FALSE
INVARIANTS
    OwnFiles
    BootComplete
PROPERTIES
    RewrittenPathsLinked
