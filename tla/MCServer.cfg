SPECIFICATION FairSpec

CONSTANTS
    r1 = r1
    h1 = h1
    g1 = g1
    g2 = g2
    g3 = g3
    Rpc = {r1}
    Http = {h1}
    Groups = {g1, g2, g3}
    NumShards = 2
    Prefetches = {0, 2}
    MaxGroupsArgs = {1}
    RolloutLimit = 100

INVARIANTS
 
 
 OneBatchWasted
    ManagerOutlivesUsers

PROPERTY
    StopCompletes

CHECK_DEADLOCK FALSE
