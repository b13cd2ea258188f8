SPECIFICATION NativeSpec
CONSTANTS
    Ax = Ax
    Vpc <- Words4
    EntryVpc = 0
    Reg = {Ax}
    Const <- Constants
    TrackedRegs = {}
    FullSSA = FALSE
    MaxBlocks = 7
    InitialState <- NoState
    OutDomains <- OnlyAx
    ImageLen = 9
    Window = 3
    MaxPasses = 8
    Words = 16
    Images <- AllImages
INVARIANTS
    CoversReachableCode
    TwoPassesSettle
    SplitAtLeaders
    PassesFindLeaders
    DriveIsFirstEdge
CHECK_DEADLOCK FALSE
