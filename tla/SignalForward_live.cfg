SPECIFICATION FairSpec
CONSTANTS
    Machine = {m1, m2}
    s1 = s1
    s2 = s2
    refused = refused
    invalid = invalid
    Signal = {s1}
    Refused = {}
    Invalid = {invalid}
    Requests <- MCShortRequests
    Handler = {h1}
    Fd = {f1, f2}
    PipeCapacity = 1
    ReadSize = 2
    None = None
\* A state in which everybody waits would violate CallsReturn.
CHECK_DEADLOCK FALSE
PROPERTIES
    SignalForwarded
    CallsReturn
