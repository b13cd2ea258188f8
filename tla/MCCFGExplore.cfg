SPECIFICATION FairSpec
CONSTANTS
    v1 = v1
    v2 = v2
    v3 = v3
    v4 = v4
    v5 = v5
    v6 = v6
    r1 = r1
    c1 = c1
    Vpc <- SixVpcs
    EntryVpc = v1
    Reg = {}
    Const = {}
    TrackedRegs = {}
    FullSSA = FALSE
    MaxBlocks = 3
    InitialState <- NoState
    OutDomains <- NoRegisters
INVARIANTS
    DiscoveryOrder
    CyclesFlagged
    EdgesMatchIncoming
    TermMatchesEdges
    BlockBound
PROPERTIES
    ImplementsWalk
CHECK_DEADLOCK FALSE
