SPECIFICATION OptimizerSpec
CONSTANTS
    Bits = 2
    PromoteRounds = 3
    MaxIters <- DefaultIters
    Memories <- TwoMemories
    Programs = {}
    Seeded <- AnyFirstWord
    More <- ReadFirstMore
    Image <- SecondWord
    SafeRanges <- SomeRanges
    Questions = {}
INVARIANTS
    ValuesPreserved
CHECK_DEADLOCK FALSE
