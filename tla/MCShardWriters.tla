--------------------------- MODULE MCShardWriters ----------------------------
(* Three overlapping writers on two instances and four uids. *)
EXTENDS ShardRegimes, TLC

CONSTANTS i1, i2, u1, u2, u3, u4, t1, t2, t3

Symmetry == Permutations({i1, i2}) \union Permutations({u1, u2, u3, u4})
              \union Permutations({t1, t2, t3})
=============================================================================
