SPECIFICATION Spec
CONSTANTS
    Bits = 2
    Slot = 1
    MaxInstrs = 3
    GPR <- TwoRegisters
    Code <- AllForms
    Rooms <- SomeRooms
    Starts <- TwoStarts
    StaleIds <- SomeIds
INVARIANTS
    TypeOK
    StateMatches
    ConditionIsNotZero
    JumpsMatch
CHECK_DEADLOCK FALSE
