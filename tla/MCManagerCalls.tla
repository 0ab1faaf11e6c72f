---------------------------- MODULE MCManagerCalls ----------------------------
\* Two shards with one instance each, and few trajectories: the calls.
EXTENDS BufferManager, TLC
CONSTANTS a, c

ShardOf == (a :> 0) @@ (c :> 1)
StartConfig == [group_size |-> 1, uid_dedup |-> TRUE]
Requests == {<<2, FALSE>>}
EachInput == {<<a, 1>>, <<c, 1>>}
OneBatch == {<<<<a, 1>>>>}
==============================================================================
