SPECIFICATION SerialFairSpec
CONSTANTS
    i1 = i1
    i2 = i2
    u1 = u1
    u2 = u2
    t1 = t1
    Instances = {i1, i2}
    Uids = {u1, u2}
    Tasks = {t1}
    GroupSizes = {2}
    DedupModes = {TRUE, FALSE}
    MaxGroupsArgs = {0, 1}
    Batches = {}
    IoFaults = {"spill"}
    DedupMax = 1
    SpillThreshold = 3
    SpillTarget = 2
    BloomBytes = 0
    UidBytes = 1
    SizeMod = 16
    MaxStores = 2
    NoGroup = NoGroup
INVARIANTS
    StatisticsExact
    SpillStopsAtTarget
PROPERTIES
    ImplementsGroupQueue
    SpillReclaims
    ReadyGroupsLeave
CHECK_DEADLOCK FALSE
