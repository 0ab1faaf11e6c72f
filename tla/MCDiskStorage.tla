---------------------------- MODULE MCDiskStorage ----------------------------
(* Two calls at a time on one directory, groups of one and of two blocks.  *)
EXTENDS DiskStorage, TLC

CONSTANTS g1, g2, t1, t2

MCSizeOf(g) == IF g = g1 THEN 10 ELSE 5000

Symmetry == Permutations({t1, t2})
=============================================================================
