SPECIFICATION Spec
CONSTANTS
    a = a
    b = b
    Addr = {a, b}
    Outside = Outside
    StartVa = a
    MaxSteps = 5
    MaxVmInsns = 3
    Code <- AllCode
    SafeCode = {b, Outside}
    VpcValue = {1, 2}
    Unknown = Unknown
INVARIANTS
    TypeOK
    WorkBounded
    DispatchesMove
    CatalogMatchesTrace
CHECK_DEADLOCK FALSE
