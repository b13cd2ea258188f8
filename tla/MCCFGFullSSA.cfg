SPECIFICATION FairSpec
CONSTANTS
    v1 = v1
    v2 = v2
    v3 = v3
    v4 = v4
    v5 = v5
    v6 = v6
    r1 = r1
    c1 = c1
    Vpc <- ThreeVpcs
    EntryVpc = v1
    Reg = {r1}
    Const = {c1}
    TrackedRegs = {r1}
    FullSSA = TRUE
    MaxBlocks = 8
    InitialState <- FromCaller
    OutDomains <- AllDefined
INVARIANTS
    TypeOK
    NoEntrySymbolLeft
    EntryValuesSound
    ResolveOrderIrrelevant
PROPERTIES
    Termination
CHECK_DEADLOCK FALSE
