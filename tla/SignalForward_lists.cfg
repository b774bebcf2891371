SPECIFICATION Spec
CONSTANTS
    Machine = {m1, m2}
    s1 = s1
    s2 = s2
    refused = refused
    invalid = invalid
    Signal = {s1, s2}
    Refused = {refused}
    Invalid = {invalid}
    Requests <- MCRequests
    Handler = {h1}
    Fd = {f1, f2}
    PipeCapacity = 2
    ReadSize = 1
    None = None
SYMMETRY Symmetry
INVARIANTS
    TypeOK
    RefsMatch
    HeldSignalsStayCaught
    QuiescentRestores
