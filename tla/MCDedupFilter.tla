---------------------------- MODULE MCDedupFilter ----------------------------
(* DedupFilter on four uids, three of them remembered, and a bloom filter  *)
(* of five bits in which uids overlap (u1 and u2 share bits, u3 and u4     *)
(* share all of theirs) and in which the double hash wraps.                *)
EXTENDS DedupFilter, TLC

CONSTANTS u1, u2, u3, u4

MCUids == {u1, u2, u3, u4}
MCH1 == (u1 :> 1) @@ (u2 :> 2) @@ (u3 :> 7) @@ (u4 :> 7)
MCH2 == (u1 :> 1) @@ (u2 :> 1) @@ (u3 :> 4) @@ (u4 :> 4)
=============================================================================
