--------------------------- MODULE MCShardReaders ----------------------------
(* Three overlapping calls (and deletes and resets) on two instances.      *)
EXTENDS ShardRegimes, TLC

CONSTANTS i1, i2, u1, u2, u3, t1, t2, t3

Symmetry == Permutations({i1, i2}) \union Permutations({u1, u2, u3})
              \union Permutations({t1, t2, t3})

\* The statistics and the history of deletions are written but never read by
\* the actions and by the property, and a read that fails again and again
\* changes them without end.
View == <<groups, dedup_filter, config, disk, ops, crashed, stored, acked, out>>
=============================================================================
