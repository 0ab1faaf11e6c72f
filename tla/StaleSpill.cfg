SPECIFICATION Spec
CONSTANTS
    i1 = i1
    i2 = i2
    u1 = u1
    u2 = u2
    u3 = u3
    t1 = t1
    t2 = t2
    t3 = t3
    Instances = {i1, i2}
    Uids = {u1, u2, u3}
    Tasks = {t1, t2, t3}
    GroupSizes = {2}
    DedupModes = {TRUE}
    MaxGroupsArgs = {0, 1}
    Batches = {}
    IoFaults = {}
    DedupMax = 4
    SpillThreshold = 1
    SpillTarget = 1
    BloomBytes = 0
    UidBytes = 0
    SizeMod = 16
    MaxStores = 1
    NoGroup = NoGroup
SYMMETRY Symmetry
INVARIANTS
    DeliveredAtMostOnce
CHECK_DEADLOCK FALSE
