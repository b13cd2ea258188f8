SPECIFICATION FairSpec
CONSTANTS
    Vpc <- ThreeVpcsAndEntry
    EntryVa = 10
    StopVa <- TwoStops
    SegmentIds <- SomeInstructions
    MaxBlocks = 3
INVARIANTS
    TypeOK
    RunsFollowDiscovery
    EdgesDescribeTerms
    ArmsReenterDispatcher
    IdsUnique
PROPERTIES
    ImplementsWalk
    Termination
CHECK_DEADLOCK FALSE
