SPECIFICATION Spec
CONSTANTS
    Config <- MCConfig
    KeyOrder <- MCKeyOrder
    CniResult <- MCCniResult
    VmId = "vm"
    MaxCalls = 1
CHECK_DEADLOCK FALSE
INVARIANTS
    ConversionExact
    BootArgsAsConfigured
    InterfacesAsConfigured
