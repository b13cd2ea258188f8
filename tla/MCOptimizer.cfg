SPECIFICATION OptimizerSpec
CONSTANTS
    Bits = 2
    PromoteRounds = 3
    MaxIters <- DefaultIters
    Memories <- TwoMemories
    Programs <- Functions
    Seeded <- AnyFirstWord
    More <- WrittenMore
    Image <- SecondWord
    SafeRanges <- SomeRanges
    Questions <- VirtualJumps
INVARIANTS
    TypeOK
    ValuesPreserved
    EffectsPreserved
    MemoryUpToDate
    TargetsAreExact
PROPERTIES
    ChangesSimplify
CHECK_DEADLOCK FALSE
