----------------------------- MODULE DedupFilter -----------------------------
(***************************************************************************)
(* The uid filter of a shard: an exact LRU set (a list, newest first, with *)
(* a map from uid to list node) behind a bloom filter over the same uids.  *)
(*                                                                         *)
(* The bit vector is the set of the positions that are set.  An iterator   *)
(* in lru_map_ is the list node that holds the uid, so the map is its set  *)
(* of keys and NodeOf finds the node.  std::hash and the FNV loop are the  *)
(* constants H1 and H2.                                                    *)
(***************************************************************************)
EXTENDS Integers, Sequences, FiniteSets

CONSTANTS Uids,         \* uids that may be inserted
          MaxSizeArg,   \* the constructor's max_size
          NumBits,      \* bloom_bits_.size()
          NumHashes,    \* bloom_num_hashes_
          SizeMod,      \* 2^w of size_t, where h1 + i * h2 wraps
          H1, H2,       \* the two hash functions
          MaxCalls      \* bound: inserts and clears of a behaviour

ASSUME UidsAssumption == IsFiniteSet(Uids)
ASSUME SizeAssumption ==
    /\ MaxSizeArg \in Nat
    /\ NumBits \in Nat \ {0}
    /\ NumHashes \in Nat \ {0}
    /\ SizeMod \in Nat \ {0}
    /\ MaxCalls \in Nat
ASSUME HashAssumption == H1 \in [Uids -> Nat] /\ H2 \in [Uids -> Nat]

VARIABLES lru_list,     \* front = newest
          lru_map,      \* uids that have a list node
          bloom_bits,   \* positions that are set
          clock,        \* history: calls so far
          last          \* history: call of the latest insert(u) since the
                        \* latest clear(), 0 if there was none

impl == <<lru_list, lru_map, bloom_bits>>
vars == <<lru_list, lru_map, bloom_bits, clock, last>>

max_size == IF MaxSizeArg > 1 THEN MaxSizeArg ELSE 1

-----------------------------------------------------------------------------
(* Bloom filter *)

bloom_hash(u, i) == ((H1[u] + i * H2[u]) % SizeMod) % NumBits

Hashes(u) == {bloom_hash(u, i) : i \in 0 .. NumHashes - 1}

bloom_add(bits, u) == bits \union Hashes(u)

bloom_maybe_contains(u) == Hashes(u) \subseteq bloom_bits

\* mutant: does not clear the bits first
bloom_rebuild_KeepsBits(list) ==
    bloom_bits \union UNION {Hashes(list[i]) : i \in DOMAIN list}

bloom_rebuild(list) == UNION {Hashes(list[i]) : i \in DOMAIN list}

contains(u) == bloom_maybe_contains(u) /\ u \in lru_map

-----------------------------------------------------------------------------
(* LRU list *)

NodeOf(u) == CHOOSE k \in DOMAIN lru_list : lru_list[k] = u

\* mutant: a duplicate is not promoted
SpliceToFront_Not(list, k) == list

\* splice of node k to the front of the list
SpliceToFront(list, k) ==
    [j \in DOMAIN list |-> IF j = 1 THEN list[k]
                           ELSE IF j <= k THEN list[j - 1] ELSE list[j]]

PushFront(list, u) == <<u>> \o list

\* nodes are popped from the back until n are left
EvictTo(list, n) ==
    /\ lru_list' = SubSeq(list, 1, n)
    /\ lru_map' = (lru_map \union {list[1]}) \ {list[i] : i \in n + 1 .. Len(list)}
    /\ bloom_bits' = bloom_rebuild(lru_list')

\* mutant: stops one node early
evict_oldest_Early(list) == EvictTo(list, max_size + 1)

\* mutant: stops one node late
evict_oldest_Late(list) == EvictTo(list, max_size - 1)

\* mutant: pops nodes and leaves their uids in the map
evict_oldest_KeepsMap(list) ==
    /\ lru_list' = SubSeq(list, 1, max_size)
    /\ lru_map' = lru_map \union {list[1]}
    /\ bloom_bits' = bloom_rebuild(lru_list')

evict_oldest(list) == EvictTo(list, max_size)

-----------------------------------------------------------------------------
Init ==
    /\ lru_list = <<>> /\ lru_map = {} /\ bloom_bits = {}
    /\ clock = 0 /\ last = [u \in Uids |-> 0]

Called(u) ==
    /\ clock < MaxCalls
    /\ clock' = clock + 1
    /\ last' = [last EXCEPT ![u] = clock + 1]

\* insert(uid) of a uid on the list: promoted to newest, returns false
InsertDuplicate(u) ==
    /\ u \in lru_map
    /\ lru_list' = SpliceToFront(lru_list, NodeOf(u))
    /\ UNCHANGED <<lru_map, bloom_bits>>
    /\ Called(u)

\* insert(uid) of a new uid with room left, returns true
InsertNew(u) ==
    /\ u \notin lru_map
    /\ Cardinality(lru_map) + 1 <= max_size
    /\ lru_list' = PushFront(lru_list, u)
    /\ lru_map' = lru_map \union {u}
    /\ bloom_bits' = bloom_add(bloom_bits, u)
    /\ Called(u)

\* insert(uid) of a new uid that overflows the set, returns true
InsertEvict(u) ==
    /\ u \notin lru_map
    /\ Cardinality(lru_map) + 1 > max_size
    /\ evict_oldest(PushFront(lru_list, u))
    /\ Called(u)

Clear ==
    /\ clock < MaxCalls
    /\ lru_list' = <<>> /\ lru_map' = {} /\ bloom_bits' = {}
    /\ clock' = clock + 1 /\ last' = [u \in Uids |-> 0]

Next ==
    \/ \E u \in Uids : InsertDuplicate(u) \/ InsertNew(u) \/ InsertEvict(u)
    \/ Clear

Spec == Init /\ [][Next]_vars

-----------------------------------------------------------------------------
(* Properties *)

(***************************************************************************)
(* Every variable has its type; the list never outgrows max_size_.         *)
(***************************************************************************)
TypeOK ==
    /\ lru_list \in Seq(Uids) /\ Len(lru_list) <= max_size
    /\ lru_map \in SUBSET Uids
    /\ bloom_bits \in SUBSET (0 .. NumBits - 1)
    /\ clock \in 0 .. MaxCalls
    /\ last \in [Uids -> 0 .. clock]

(***************************************************************************)
(* Map and list hold the same uids, each once: the iterator insert()       *)
(* splices with always points at the one node of its uid.                  *)
(***************************************************************************)
ListMapAgree ==
    /\ lru_map = {lru_list[i] : i \in DOMAIN lru_list}
    /\ \A i, j \in DOMAIN lru_list : lru_list[i] = lru_list[j] => i = j

(***************************************************************************)
(* The quick answer of contains() is never wrong about a remembered uid:   *)
(* through any mix of inserts, evictions with their rebuilds, and clears,  *)
(* contains(u) is exactly membership in the LRU set.                       *)
(***************************************************************************)
ContainsExact == \A u \in Uids : contains(u) <=> u \in lru_map

(***************************************************************************)
(* No stale bits: what the bloom filter has set is what the remembered     *)
(* uids set, so an evicted uid stops costing false positives.              *)
(***************************************************************************)
BloomExact == bloom_bits = UNION {Hashes(u) : u \in lru_map}

\* the uids inserted more recently than u
NewerThan(u) == {v \in Uids : last[v] > last[u]}

(***************************************************************************)
(* The deduplication window, stated without the list: a uid is remembered  *)
(* iff it was inserted since the last clear() and fewer than max_size_     *)
(* different uids were inserted after it.  So insert() calls a uid a       *)
(* duplicate exactly within that window, and a repeated insert renews it.  *)
(***************************************************************************)
WindowExact ==
    \A u \in Uids : u \in lru_map <=>
                      last[u] > 0 /\ Cardinality(NewerThan(u)) < max_size

(***************************************************************************)
(* The list is sorted by recency, and a forgotten uid is older than every  *)
(* remembered one and was forgotten only because the list is full.  This   *)
(* is the strengthening that makes WindowExact inductive.                  *)
(***************************************************************************)
RecencyOrder ==
    /\ \A i \in DOMAIN lru_list : last[lru_list[i]] > 0
    /\ \A i, j \in DOMAIN lru_list :
         i < j => last[lru_list[i]] > last[lru_list[j]]
    /\ \A u \in Uids \ lru_map : last[u] > 0 =>
         /\ Len(lru_list) = max_size
         /\ \A i \in DOMAIN lru_list : last[u] < last[lru_list[i]]

Abstract == INSTANCE DedupSet WITH seen <- lru_map, MaxSize <- max_size

(***************************************************************************)
(* The filter implements the bounded memory the shard relies on.           *)
(***************************************************************************)
ImplementsDedupSet == Abstract!Spec
=============================================================================
