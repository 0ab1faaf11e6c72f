SPECIFICATION Spec
CONSTANTS
    i1 = i1
    i2 = i2
    u1 = u1
    u2 = u2
    t1 = t1
    t2 = t2
    Instances = {i1, i2}
    Uids = {u1, u2}
    Tasks = {t1, t2}
    GroupSizes = {1, 2}
    DedupModes = {TRUE}
    MaxGroupsArgs = {0}
    Batches <- MCBatches
    IoFaults = {"spill", "load", "remove"}
    DedupMax = 3
    SpillThreshold = 0
    SpillTarget = 0
    BloomBytes = 0
    UidBytes = 0
    SizeMod = 16
    MaxStores = 1
    NoGroup = NoGroup
VIEW View
SYMMETRY Symmetry
INVARIANTS
    TypeOK
    EntryExclusive
    OffsetsMatch
    ReadersGetReady
    CrashCauses
PROPERTIES
    SpillsToStore
CHECK_DEADLOCK FALSE
