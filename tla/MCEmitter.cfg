SPECIFICATION Spec
CONSTANTS
    Bits = 2
    MaxBlocks = 6
    Sources <- AllSources
    Inputs <- FourInputs
    Memories <- OneMemory
INVARIANTS
    SingleAssignment
    OneTerminator
    SameExecution
CHECK_DEADLOCK FALSE
