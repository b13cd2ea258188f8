SPECIFICATION Spec
CONSTANTS
    Bits = 2
    MaxBlocks = 6
    Sources <- CountingLoop
    Inputs <- FourInputs
    Memories <- OneMemory
INVARIANTS
    SameExecution
CHECK_DEADLOCK FALSE
