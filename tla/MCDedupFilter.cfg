SPECIFICATION Spec
CONSTANTS
    u1 = u1
    u2 = u2
    u3 = u3
    u4 = u4
    Uids <- MCUids
    MaxSizeArg = 3
    NumBits = 5
    NumHashes = 2
    SizeMod = 8
    H1 <- MCH1
    H2 <- MCH2
    MaxCalls = 7
INVARIANTS
    TypeOK
    ListMapAgree
    BloomExact
    WindowExact
PROPERTY ImplementsDedupSet
CHECK_DEADLOCK FALSE
