SPECIFICATION SerialSpec
CONSTANTS
    i1 = i1
    i2 = i2
    u1 = u1
    u2 = u2
    t1 = t1
    Instances = {i1, i2}
    Uids = {u1, u2}
    Tasks = {t1}
    GroupSizes = {2}
    DedupModes = {FALSE}
    MaxGroupsArgs = {0, 1}
    Batches = {}
    IoFaults = {}
    DedupMax = 1
    SpillThreshold = 1
    SpillTarget = 1
    BloomBytes = 0
    UidBytes = 0
    SizeMod = 16
    MaxStores = 2
    NoGroup = NoGroup
SYMMETRY Symmetry
INVARIANTS
    AckedIsStored
CHECK_DEADLOCK FALSE
