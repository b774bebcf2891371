SPECIFICATION Spec
CONSTANTS
    Vm = {v1, v2}
    Plugins = 2
    Forced = {v1}
    MaxRuns = 2
INVARIANTS
    PluginsFormPrefix
    AddOnClean
    LeftoversExplained
    NetworkUntilDeleted
CHECK_DEADLOCK FALSE
