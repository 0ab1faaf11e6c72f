------------------------------ MODULE DedupSet ------------------------------
(***************************************************************************)
(* What a DedupFilter promises the shard that owns it: a bounded memory of *)
(* uids.  A uid it remembers is a duplicate; a uid it does not remember is *)
(* accepted and remembered, and when that overflows the bound one OTHER    *)
(* remembered uid, unspecified which, is forgotten.  DedupFilter is shown  *)
(* to implement this module, and BufferShard uses nothing else of it.      *)
(***************************************************************************)
EXTENDS Naturals, FiniteSets

CONSTANTS Uids,      \* the uids trajectories carry
          MaxSize    \* how many uids are remembered

VARIABLE seen        \* the uids remembered

(***************************************************************************)
(* The memories that may result from accepting u.                          *)
(***************************************************************************)
AfterInsert(S, u) ==
    IF Cardinality(S \union {u}) <= MaxSize
    THEN {S \union {u}}
    ELSE {(S \union {u}) \ {v} : v \in S}

Insert(u) == u \notin seen /\ seen' \in AfterInsert(seen, u)

Clear == seen' = {}

Init == seen = {}

Next == Clear \/ \E u \in Uids : Insert(u)

Spec == Init /\ [][Next]_seen
=============================================================================
