---------------------------- MODULE MCShardSerial ----------------------------
(* One call at a time on two instances.  Two uids are written twice each,  *)
(* and the dedup filter remembers one, so that duplicates and forgotten    *)
(* uids both occur.                                                        *)
EXTENDS ShardRegimes, TLC

CONSTANTS i1, i2, u1, u2, t1

\* for the run that has no liveness property
Symmetry == Permutations({i1, i2}) \union Permutations({u1, u2})
=============================================================================
