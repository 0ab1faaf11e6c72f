------------------------------ MODULE MCServer ------------------------------
(* One peer of either kind.  prefetch_groups 0 is taken for 1, a read may   *)
(* get one group or all, and one may be cut off.                            *)
EXTENDS Server

CONSTANTS r1, h1, g1, g2, g3
=============================================================================
