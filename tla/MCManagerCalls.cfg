\* Two overlapping calls, among them two updates of the configuration.
SPECIFICATION FairSpec
CONSTANTS
    a = a
    c = c
    NumShards = 2
    Instances = {a, c}
    Uids = {1}
    Tasks = {t1, t2}
    shard_for <- ShardOf
    GroupSizes = {1, 2}
    start_config <- StartConfig
    ConfigRequests <- Requests
    MaxGroupsArgs = {1}
    Inputs <- EachInput
    Batches <- OneBatch
    MaxWrites = 1
    MaxVersions = 3
INVARIANT ConfigSettles
PROPERTY CallsReturn
CHECK_DEADLOCK FALSE
