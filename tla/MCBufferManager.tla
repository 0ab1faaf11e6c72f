--------------------------- MODULE MCBufferManager ---------------------------
\* Two shards: one holds instances a and b, the other c.
EXTENDS BufferManager, TLC
CONSTANTS a, b, c

TwoShards == (a :> 0) @@ (b :> 0) @@ (c :> 1)
StartConfig == [group_size |-> 1, uid_dedup |-> TRUE]
TwoRequests == {<<2, FALSE>>}
ThreeInputs == {<<a, 1>>, <<b, 2>>, <<c, 1>>}
TwoBatches == {<<<<a, 1>>, <<b, 2>>>>, <<<<a, 1>>, <<c, 1>>>>}
TaskSymmetry == Permutations(Tasks)
\* out is written by actions but never read
View == <<held, seen, totals, stored, config_vars, history, calls, watch>>
==============================================================================
