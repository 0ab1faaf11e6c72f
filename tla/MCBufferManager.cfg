\* Two overlapping calls; group_size 1 or 2, uid_dedup on or off.
SPECIFICATION Spec
CONSTANTS
    a = a
    b = b
    c = c
    NumShards = 2
    Instances = {a, b, c}
    Uids = {1, 2}
    Tasks = {t1, t2}
    shard_for <- TwoShards
    GroupSizes = {1, 2}
    start_config <- StartConfig
    ConfigRequests <- TwoRequests
    MaxGroupsArgs = {0, 1}
    Inputs <- ThreeInputs
    Batches <- TwoBatches
    MaxWrites = 2
    MaxVersions = 2
INVARIANTS TypeOK SweepsComplete EarlyEmptyIsOvertaken FirstShardNeverLoses
    BatchIsStored StatusConsistent
VIEW View
SYMMETRY TaskSymmetry
CHECK_DEADLOCK FALSE
