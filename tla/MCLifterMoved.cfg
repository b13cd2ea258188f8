SPECIFICATION Spec
CONSTANTS
    Bits = 2
    Slot = 1
    MaxInstrs = 3
    GPR <- TwoRegisters
    Code <- Calls
    Rooms <- NoRoom
    Starts <- TwoStarts
    StaleIds <- SomeIds
INVARIANTS
    StackPointerMatches
CHECK_DEADLOCK FALSE
