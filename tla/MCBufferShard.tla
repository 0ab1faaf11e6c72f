---------------------------- MODULE MCBufferShard ----------------------------
(* Every interleaving of two calls on a shard of two instances.            *)
EXTENDS BufferShard, TLC

CONSTANTS i1, i2, u1, u2, t1, t2

Pairs == {i1, i2} \X {u1, u2}
MCBatches == {<<p, q>> : p \in Pairs, q \in Pairs}

Symmetry == Permutations({i1, i2}) \union Permutations({u1, u2})
              \union Permutations({t1, t2})

\* The statistics and the history of deliveries and deletions are written but
\* never read by the actions, and no property of this run relates them; a read
\* that fails again and again changes them without end.
View == <<groups, dedup_filter, config, disk, ops, crashed, stored, acked,
          read_failed>>
=============================================================================
