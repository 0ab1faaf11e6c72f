-------------------------- MODULE DedupFilterProofs --------------------------
(***************************************************************************)
(* DedupFilter, for every set of uids, capacity, bloom filter geometry and *)
(* pair of hash functions.  IndInv is inductive; everything else follows.  *)
(***************************************************************************)
EXTENDS DedupFilter, FiniteSetTheorems, SequenceTheorems, TLAPS

IndInv == TypeOK /\ ListMapAgree /\ BloomExact /\ RecencyOrder

\* The capacity is positive: the constructor rounds 0 up to 1.
LEMMA MaxSizePositive == max_size \in Nat /\ max_size >= 1
  BY SizeAssumption DEF max_size

\* Every hash of a uid is a position of the bit vector.
LEMMA HashesInRange ==
  ASSUME NEW u \in Uids
  PROVE  Hashes(u) \subseteq 0 .. NumBits - 1
<1>1. SUFFICES ASSUME NEW i \in 0 .. NumHashes - 1
               PROVE  bloom_hash(u, i) \in 0 .. NumBits - 1
  BY DEF Hashes
<1> DEFINE h == H1[u] + i * H2[u]
<1>2. H1[u] \in Nat /\ H2[u] \in Nat
  BY HashAssumption
<1>7. NumHashes \in Nat /\ i \in Nat
  BY SizeAssumption
<1>8. i * H2[u] \in Nat
  BY <1>2, <1>7
<1>3. h \in Nat
  BY <1>2, <1>8
<1>4. SizeMod \in Nat \ {0} /\ NumBits \in Nat \ {0}
  BY SizeAssumption
<1> HIDE DEF h
<1>5. h % SizeMod \in Nat
  BY <1>3, <1>4
<1>6. (h % SizeMod) % NumBits \in 0 .. NumBits - 1
  BY <1>4, <1>5
<1> QED BY <1>6 DEF bloom_hash, h

\* A list without repetitions has as many members as nodes.
LEMMA NoRepetitionCard ==
  ASSUME NEW s \in Seq(Uids),
         \A i, j \in DOMAIN s : s[i] = s[j] => i = j
  PROVE  /\ IsFiniteSet({s[i] : i \in DOMAIN s})
         /\ Cardinality({s[i] : i \in DOMAIN s}) = Len(s)
<1> DEFINE R == {s[i] : i \in DOMAIN s}
<1>1. Len(s) \in Nat /\ DOMAIN s = 1 .. Len(s)
  BY LenProperties
<1>2. s \in Bijection(1 .. Len(s), R)
  <2>1. s \in [1 .. Len(s) -> R]
    BY <1>1
  <2>2. s \in Injection(1 .. Len(s), R)
    BY <1>1, <2>1 DEF Injection, IsInjective
  <2>3. s \in Surjection(1 .. Len(s), R)
    BY <1>1, <2>1 DEF Surjection
  <2> QED BY <2>2, <2>3 DEF Bijection
<1>3. ExistsBijection(1 .. Len(s), R)
  BY <1>2 DEF ExistsBijection
<1>4. IsFiniteSet(1 .. Len(s)) /\ Cardinality(1 .. Len(s)) = Len(s)
  BY <1>1, FS_Interval
<1> QED BY <1>3, <1>4, FS_Bijection

\* The size insert() compares with max_size_ is the length of the list.
LEMMA MapSize ==
  ASSUME TypeOK, ListMapAgree
  PROVE  IsFiniteSet(lru_map) /\ Cardinality(lru_map) = Len(lru_list)
  BY NoRepetitionCard DEF TypeOK, ListMapAgree

-----------------------------------------------------------------------------
(* The invariant is inductive: one lemma per operation *)

\* The empty filter a constructor or clear() leaves satisfies IndInv.
LEMMA EmptyFilter ==
  ASSUME lru_list = <<>>, lru_map = {}, bloom_bits = {},
         clock \in 0 .. MaxCalls, last = [u \in Uids |-> 0]
  PROVE  IndInv
<1>1. TypeOK
  BY MaxSizePositive, SizeAssumption DEF TypeOK
<1>2. ListMapAgree /\ BloomExact
  BY DEF ListMapAgree, BloomExact
<1>3. RecencyOrder
  BY DEF RecencyOrder
<1> QED BY <1>1, <1>2, <1>3 DEF IndInv

\* What a call does to the history: u becomes the most recent uid.
LEMMA CalledEffect ==
  ASSUME TypeOK, NEW u \in Uids, Called(u)
  PROVE  /\ clock' \in 0 .. MaxCalls
         /\ last' \in [Uids -> 0 .. clock']
         /\ last'[u] > 0
         /\ \A v \in Uids \ {u} : last'[v] = last[v] /\ last'[u] > last[v]
  BY SizeAssumption DEF TypeOK, Called

\* insert() of a remembered uid: the splice permutes the list.
LEMMA InsertDuplicateStep ==
  ASSUME IndInv, NEW u \in Uids, InsertDuplicate(u)
  PROVE  IndInv'
<1> DEFINE k == NodeOf(u)
<1>0. TypeOK /\ ListMapAgree /\ BloomExact /\ RecencyOrder
  BY DEF IndInv
<1>1. /\ lru_list \in Seq(Uids) /\ Len(lru_list) \in Nat
      /\ DOMAIN lru_list = 1 .. Len(lru_list)
  BY <1>0, LenProperties DEF TypeOK
<1>2. k \in 1 .. Len(lru_list) /\ lru_list[k] = u
  BY <1>0, <1>1 DEF ListMapAgree, InsertDuplicate, NodeOf
<1> HIDE DEF k
<1>3. /\ lru_list' = [j \in 1 .. Len(lru_list) |->
                        IF j = 1 THEN lru_list[k]
                        ELSE IF j <= k THEN lru_list[j - 1] ELSE lru_list[j]]
      /\ lru_map' = lru_map /\ bloom_bits' = bloom_bits
  BY <1>1 DEF InsertDuplicate, SpliceToFront, k
<1>4. \A i \in 1 .. Len(lru_list) : lru_list[i] \in Uids
  BY <1>1, ElementOfSeq
<1>5. /\ lru_list' \in Seq(Uids) /\ Len(lru_list') = Len(lru_list)
      /\ DOMAIN lru_list' = 1 .. Len(lru_list)
  BY <1>1, <1>2, <1>3, <1>4
<1>6. \A j \in 1 .. Len(lru_list) :
        lru_list'[j] = IF j = 1 THEN u
                       ELSE IF j <= k THEN lru_list[j - 1] ELSE lru_list[j]
  BY <1>2, <1>3
<1>7. TypeOK'
  BY <1>0, <1>3, <1>5, CalledEffect DEF TypeOK, InsertDuplicate
<1>8. ListMapAgree'
  <2>1. ASSUME NEW i \in DOMAIN lru_list', NEW j \in DOMAIN lru_list',
               lru_list'[i] = lru_list'[j]
        PROVE  i = j
    <3> DEFINE src(n) == IF n = 1 THEN k ELSE IF n <= k THEN n - 1 ELSE n
    <3>1. /\ src(i) \in 1 .. Len(lru_list) /\ lru_list'[i] = lru_list[src(i)]
          /\ src(j) \in 1 .. Len(lru_list) /\ lru_list'[j] = lru_list[src(j)]
      BY <1>1, <1>2, <1>5, <1>6
    <3>2. src(i) = src(j)
      BY <1>0, <1>1, <2>1, <3>1 DEF ListMapAgree
    <3> QED BY <1>1, <1>2, <1>5, <3>2
  <2>2. ASSUME NEW v \in lru_map
        PROVE  \E j \in DOMAIN lru_list' : lru_list'[j] = v
    <3>1. PICK i \in 1 .. Len(lru_list) : lru_list[i] = v
      BY <1>0, <1>1 DEF ListMapAgree
    <3>2. CASE i = k
      BY <1>2, <1>5, <1>6, <3>1, <3>2
    <3>3. CASE i < k
      <4>1. i + 1 \in 1 .. Len(lru_list) /\ i + 1 # 1 /\ i + 1 <= k /\ (i + 1) - 1 = i
        BY <1>1, <1>2, <3>3
      <4> QED BY <1>5, <1>6, <3>1, <4>1
    <3>4. CASE i > k
      BY <1>2, <1>5, <1>6, <3>1, <3>4
    <3> QED BY <1>2, <3>2, <3>3, <3>4
  <2>3. ASSUME NEW j \in DOMAIN lru_list'
        PROVE  lru_list'[j] \in lru_map
    BY <1>0, <1>1, <1>2, <1>5, <1>6 DEF ListMapAgree
  <2>4. lru_map' = {lru_list'[i] : i \in DOMAIN lru_list'}
    BY <1>3, <2>2, <2>3
  <2> QED BY <2>1, <2>4 DEF ListMapAgree
<1>9. BloomExact'
  BY <1>0, <1>3 DEF BloomExact
<1>10. RecencyOrder'
  <2>1. /\ last'[u] > 0 /\ last' \in [Uids -> Nat] /\ last \in [Uids -> Nat]
        /\ \A v \in Uids \ {u} : last'[v] = last[v] /\ last'[u] > last[v]
    BY <1>0, CalledEffect DEF InsertDuplicate, TypeOK
  <2>2. \A j \in 2 .. Len(lru_list) : lru_list'[j] \in Uids \ {u}
    BY <1>0, <1>1, <1>2, <1>4, <1>6 DEF ListMapAgree
  <2>3. ASSUME NEW i \in 1 .. Len(lru_list)
        PROVE  last'[lru_list'[i]] > 0
    <3>1. CASE i = 1
      BY <1>6, <2>1, <3>1
    <3>2. CASE i # 1
      <4> DEFINE pi == IF i <= k THEN i - 1 ELSE i
      <4>1. /\ pi \in 1 .. Len(lru_list) /\ lru_list'[i] = lru_list[pi]
            /\ lru_list'[i] \in Uids \ {u}
        BY <1>1, <1>2, <1>6, <2>2, <3>2
      <4>2. last[lru_list[pi]] > 0
        BY <1>0, <1>1, <4>1 DEF RecencyOrder
      <4> QED BY <2>1, <4>1, <4>2
    <3> QED BY <3>1, <3>2
  <2>4. ASSUME NEW i \in 1 .. Len(lru_list), NEW j \in 1 .. Len(lru_list), i < j
        PROVE  last'[lru_list'[i]] > last'[lru_list'[j]]
    <3>1. j \in 2 .. Len(lru_list) /\ lru_list'[j] \in Uids \ {u}
      BY <1>1, <2>2, <2>4
    <3>2. CASE i = 1
      BY <1>6, <2>1, <3>1, <3>2
    <3>3. CASE i # 1
      <4> DEFINE pi == IF i <= k THEN i - 1 ELSE i
                 pj == IF j <= k THEN j - 1 ELSE j
      <4>1. /\ pi \in 1 .. Len(lru_list) /\ pj \in 1 .. Len(lru_list) /\ pi < pj
            /\ lru_list'[i] = lru_list[pi] /\ lru_list'[j] = lru_list[pj]
        BY <1>1, <1>2, <1>6, <2>4, <3>1, <3>3
      <4>2. i \in 2 .. Len(lru_list) /\ lru_list'[i] \in Uids \ {u}
        BY <1>1, <2>2, <3>3
      <4>3. last[lru_list[pi]] > last[lru_list[pj]]
        BY <1>0, <1>1, <4>1 DEF RecencyOrder
      <4> QED BY <2>1, <3>1, <4>1, <4>2, <4>3
    <3> QED BY <3>2, <3>3
  <2>5. ASSUME NEW w \in Uids \ lru_map', last'[w] > 0
        PROVE  /\ Len(lru_list') = max_size
               /\ \A i \in DOMAIN lru_list' : last'[w] < last'[lru_list'[i]]
    <3>1. w \in Uids \ lru_map /\ w # u /\ last'[w] = last[w]
      BY <1>3, <2>1, <2>5 DEF InsertDuplicate
    <3>2. Len(lru_list) = max_size /\ \A i \in 1 .. Len(lru_list) : last[w] < last[lru_list[i]]
      BY <1>0, <1>1, <2>5, <3>1 DEF RecencyOrder
    <3>3. ASSUME NEW i \in 1 .. Len(lru_list)
          PROVE  last'[w] < last'[lru_list'[i]]
      <4>1. CASE i = 1
        BY <1>6, <2>1, <3>1, <4>1
      <4>2. CASE i # 1
        <5> DEFINE pi == IF i <= k THEN i - 1 ELSE i
        <5>1. /\ pi \in 1 .. Len(lru_list) /\ lru_list'[i] = lru_list[pi]
              /\ lru_list'[i] \in Uids \ {u}
          BY <1>1, <1>2, <1>6, <2>2, <4>2
        <5>2. last[w] < last[lru_list[pi]]
          BY <3>2, <5>1
        <5> QED BY <2>1, <3>1, <5>1, <5>2
      <4> QED BY <4>1, <4>2
    <3> QED BY <1>5, <3>2, <3>3
  <2> QED BY <1>5, <2>3, <2>4, <2>5 DEF RecencyOrder
<1> QED BY <1>7, <1>8, <1>9, <1>10 DEF IndInv

\* What the two ways to insert a new uid have in common: the list is shifted
\* by one behind u to n nodes, and either keeps every old node or, being
\* full, drops the oldest one; the map and the bits follow the list.
Shifted(u, n) ==
    /\ n >= 1 /\ n <= max_size
    /\ n = Len(lru_list) + 1 \/ (n = Len(lru_list) /\ n = max_size)
    /\ lru_list' \in Seq(Uids) /\ Len(lru_list') = n
    /\ lru_list'[1] = u
    /\ \A j \in 2 .. n : lru_list'[j] = lru_list[j - 1]
    /\ lru_map' = {lru_list'[i] : i \in DOMAIN lru_list'}
    /\ bloom_bits' = UNION {Hashes(lru_list'[i]) : i \in DOMAIN lru_list'}

\* A shift preserves the invariant.
LEMMA FrontStep ==
  ASSUME IndInv, NEW u \in Uids, u \notin lru_map, Called(u),
         NEW n \in Nat, Shifted(u, n)
  PROVE  IndInv'
<1>0. TypeOK /\ ListMapAgree /\ BloomExact /\ RecencyOrder
  BY DEF IndInv
<1>1. /\ lru_list \in Seq(Uids) /\ Len(lru_list) \in Nat
      /\ DOMAIN lru_list = 1 .. Len(lru_list) /\ DOMAIN lru_list' = 1 .. n
      /\ max_size \in Nat
  BY <1>0, LenProperties, MaxSizePositive DEF TypeOK, Shifted
<1>11. /\ n >= 1
       /\ n <= max_size
       /\ \/ n = Len(lru_list) + 1
          \/ n = Len(lru_list) /\ n = max_size
  BY DEF Shifted
<1>13. Len(lru_list) \in Nat /\ max_size \in Nat
  BY <1>1
<1>14. n >= 1
  BY DEF Shifted
<1>12. /\ lru_list'[1] = u
      /\ lru_map' = {lru_list'[i] : i \in 1 .. n}
      /\ bloom_bits' = UNION {Hashes(lru_list'[i]) : i \in 1 .. n}
  BY <1>1 DEF Shifted
<1>2. ASSUME NEW j \in 2 .. n
      PROVE  /\ j - 1 \in 1 .. Len(lru_list) /\ lru_list'[j] = lru_list[j - 1]
             /\ lru_list'[j] \in lru_map /\ lru_list'[j] \in Uids \ {u}
  <2>11. j - 1 \in 1 .. Len(lru_list)
    BY <1>11, <1>13
  <2>1. j - 1 \in 1 .. Len(lru_list) /\ lru_list'[j] = lru_list[j - 1]
    BY <2>11 DEF Shifted
  <2>2. lru_list[j - 1] \in lru_map /\ lru_list[j - 1] \in Uids
    BY <1>0, <1>1, <2>1, ElementOfSeq DEF ListMapAgree
  <2> QED BY <2>1, <2>2
<1>3. \A i \in 1 .. n : lru_list'[i] \in Uids /\ (i = 1 \/ i \in 2 .. n)
  BY <1>2, <1>12
<1>4. /\ last'[u] > 0 /\ last' \in [Uids -> Nat] /\ last \in [Uids -> Nat]
      /\ \A v \in Uids \ {u} : last'[v] = last[v] /\ last'[u] > last[v]
  BY <1>0, CalledEffect DEF TypeOK
<1>5. TypeOK'
  <2>1. lru_map' \in SUBSET Uids
    BY <1>3, <1>12
  <2>2. bloom_bits' \in SUBSET (0 .. NumBits - 1)
    <3>1. \A i \in 1 .. n : Hashes(lru_list'[i]) \subseteq 0 .. NumBits - 1
      BY <1>3, HashesInRange
    <3> QED BY <1>12, <3>1
  <2>3. max_size' = max_size
    BY DEF max_size
  <2> QED BY <1>0, <1>11, <2>1, <2>2, <2>3, CalledEffect DEF TypeOK, Shifted
<1>6. ListMapAgree'
  <2>1. ASSUME NEW i \in 1 .. n, NEW j \in 1 .. n, lru_list'[i] = lru_list'[j]
        PROVE  i = j
    <3>1. CASE i = 1 \/ j = 1
      BY <1>2, <1>3, <1>12, <2>1, <3>1
    <3>2. CASE i \in 2 .. n /\ j \in 2 .. n
      <4>1. i - 1 = j - 1
        BY <1>0, <1>1, <1>2, <2>1, <3>2 DEF ListMapAgree
      <4> QED BY <4>1
    <3> QED BY <1>3, <3>1, <3>2
  <2> QED BY <1>1, <1>12, <2>1 DEF ListMapAgree
<1>7. BloomExact'
  BY <1>12 DEF BloomExact
<1>8. RecencyOrder'
  <2>1. ASSUME NEW i \in 1 .. n
        PROVE  last'[lru_list'[i]] > 0
    <3>1. CASE i = 1
      BY <1>4, <1>12, <3>1
    <3>2. CASE i \in 2 .. n
      <4>1. last[lru_list[i - 1]] > 0
        BY <1>0, <1>1, <1>2, <3>2 DEF RecencyOrder
      <4> QED BY <1>2, <1>4, <3>2, <4>1
    <3> QED BY <1>3, <3>1, <3>2
  <2>2. ASSUME NEW i \in 1 .. n, NEW j \in 1 .. n, i < j
        PROVE  last'[lru_list'[i]] > last'[lru_list'[j]]
    <3>1. j \in 2 .. n
      BY <2>2
    <3>2. CASE i = 1
      BY <1>2, <1>4, <1>12, <3>1, <3>2
    <3>3. CASE i \in 2 .. n
      <4>1. i - 1 < j - 1
        BY <2>2
      <4>2. last[lru_list[i - 1]] > last[lru_list[j - 1]]
        BY <1>0, <1>1, <1>2, <3>1, <3>3, <4>1 DEF RecencyOrder
      <4> QED BY <1>2, <1>4, <3>1, <3>3, <4>2
    <3> QED BY <1>3, <3>2, <3>3
  <2>3. ASSUME NEW w \in Uids \ lru_map', last'[w] > 0
        PROVE  n = max_size /\ \A i \in 1 .. n : last'[w] < last'[lru_list'[i]]
    <3>10. 1 \in 1 .. n
      BY <1>14
    <3>11. u \in lru_map'
      BY <1>12, <3>10
    <3>12. w # u
      BY <2>3, <3>11
    <3>1. w # u /\ last'[w] = last[w] /\ last[w] > 0 /\ last[w] < last'[u]
      BY <1>4, <2>3, <3>12
    <3>2. CASE w \notin lru_map
      <4>1. /\ Len(lru_list) = max_size
            /\ \A i \in 1 .. Len(lru_list) : last[w] < last[lru_list[i]]
        BY <1>0, <1>1, <3>1, <3>2 DEF RecencyOrder
      <4>2. n = max_size
        BY <1>1, <1>11, <4>1
      <4>3. ASSUME NEW i \in 1 .. n
            PROVE  last'[w] < last'[lru_list'[i]]
        <5>1. CASE i = 1
          BY <1>12, <3>1, <5>1
        <5>2. CASE i \in 2 .. n
          BY <1>2, <1>4, <3>1, <4>1, <5>2
        <5> QED BY <1>3, <5>1, <5>2
      <4> QED BY <4>2, <4>3
    <3>3. CASE w \in lru_map
      <4>1. PICK m \in 1 .. Len(lru_list) : lru_list[m] = w
        BY <1>0, <1>1, <3>3 DEF ListMapAgree
      <4>2. m + 1 > n
        <5>1. SUFFICES ASSUME m + 1 \in 2 .. n PROVE FALSE
          BY <1>1, <4>1
        <5>2. m + 1 \in 1 .. n /\ lru_list'[m + 1] = lru_list[(m + 1) - 1] /\ (m + 1) - 1 = m
          BY <1>2, <5>1
        <5>3. lru_list'[m + 1] \in lru_map'
          BY <1>12, <5>2
        <5> QED BY <2>3, <4>1, <5>2, <5>3
      <4>3. m = Len(lru_list) /\ n = Len(lru_list) /\ n = max_size
        BY <1>11, <1>13, <4>2
      <4>4. ASSUME NEW i \in 1 .. n
            PROVE  last'[w] < last'[lru_list'[i]]
        <5>1. CASE i = 1
          BY <1>12, <3>1, <5>1
        <5>2. CASE i \in 2 .. n
          <6>1. i - 1 < m /\ i - 1 \in 1 .. Len(lru_list)
            BY <4>1, <4>3, <5>2
          <6>2. last[lru_list[i - 1]] > last[w]
            BY <1>0, <1>1, <4>1, <6>1 DEF RecencyOrder
          <6> QED BY <1>2, <1>4, <3>1, <5>2, <6>2
        <5> QED BY <1>3, <5>1, <5>2
      <4> QED BY <4>3, <4>4
    <3> QED BY <3>2, <3>3
  <2>4. max_size' = max_size
    BY DEF max_size
  <2> QED BY <1>1, <2>1, <2>2, <2>3, <2>4 DEF RecencyOrder
<1> QED BY <1>5, <1>6, <1>7, <1>8 DEF IndInv

\* The list after push_front.
LEMMA PushFrontProperties ==
  ASSUME TypeOK, NEW u \in Uids
  PROVE  /\ PushFront(lru_list, u) \in Seq(Uids)
         /\ Len(PushFront(lru_list, u)) = Len(lru_list) + 1
         /\ PushFront(lru_list, u)[1] = u
         /\ \A j \in 2 .. Len(lru_list) + 1 :
              PushFront(lru_list, u)[j] = lru_list[j - 1]
<1>1. lru_list \in Seq(Uids) /\ Len(lru_list) \in Nat
  BY LenProperties DEF TypeOK
<1>2. <<u>> \in Seq(Uids) /\ Len(<<u>>) = 1 /\ <<u>>[1] = u
  OBVIOUS
<1>3. /\ Len(<<u>> \o lru_list) = 1 + Len(lru_list)
      /\ <<u>> \o lru_list \in Seq(Uids)
      /\ \A j \in 1 .. 1 + Len(lru_list) : (<<u>> \o lru_list)[j] =
            IF j <= 1 THEN <<u>>[j] ELSE lru_list[j - 1]
  BY <1>1, <1>2, ConcatProperties
<1> QED BY <1>1, <1>2, <1>3 DEF PushFront

\* insert() of a new uid with room left.
LEMMA InsertNewStep ==
  ASSUME IndInv, NEW u \in Uids, InsertNew(u)
  PROVE  IndInv'
<1> DEFINE n == Len(lru_list) + 1
<1>0. TypeOK /\ ListMapAgree /\ BloomExact
  BY DEF IndInv
<1>1. Len(lru_list) \in Nat /\ max_size \in Nat
  BY <1>0, LenProperties, MaxSizePositive DEF TypeOK
<1>2. n >= 1 /\ n <= max_size
  BY <1>0, <1>1, MapSize DEF InsertNew
<1>3. /\ lru_list' \in Seq(Uids) /\ Len(lru_list') = n /\ lru_list'[1] = u
      /\ \A j \in 2 .. n : lru_list'[j] = lru_list[j - 1]
  BY <1>0, PushFrontProperties DEF InsertNew
<1>4. DOMAIN lru_list' = 1 .. n /\ DOMAIN lru_list = 1 .. Len(lru_list)
  BY <1>0, <1>3, LenProperties DEF TypeOK
<1>5. lru_map' = {lru_list'[i] : i \in 1 .. n}
  <2>1. ASSUME NEW v \in lru_map
        PROVE  \E i \in 1 .. n : lru_list'[i] = v
    <3>1. PICK i \in 1 .. Len(lru_list) : lru_list[i] = v
      BY <1>0, <1>4 DEF ListMapAgree
    <3>2. i + 1 \in 2 .. n /\ i + 1 \in 1 .. n /\ (i + 1) - 1 = i
      BY <1>1
    <3> QED BY <1>3, <3>1, <3>2
  <2>2. ASSUME NEW i \in 1 .. n
        PROVE  lru_list'[i] = u \/ lru_list'[i] \in lru_map
    <3>1. CASE i = 1
      BY <1>3, <3>1
    <3>2. CASE i # 1
      <4>1. i \in 2 .. n /\ i - 1 \in 1 .. Len(lru_list)
        BY <1>1, <3>2
      <4> QED BY <1>0, <1>3, <1>4, <4>1 DEF ListMapAgree
    <3> QED BY <3>1, <3>2
  <2>3. lru_map' = lru_map \union {u} /\ 1 \in 1 .. n
    BY <1>1 DEF InsertNew
  <2> QED BY <1>3, <2>1, <2>2, <2>3
<1>6. bloom_bits' = UNION {Hashes(lru_list'[i]) : i \in 1 .. n}
  <2>1. bloom_bits' = UNION {Hashes(v) : v \in lru_map'}
    BY <1>0 DEF BloomExact, InsertNew, bloom_add
  <2> QED BY <1>5, <2>1
<1>7. Shifted(u, n)
  BY <1>2, <1>3, <1>4, <1>5, <1>6 DEF Shifted
<1> QED BY <1>1, <1>7, FrontStep DEF InsertNew

\* insert() of a new uid into a full set: exactly one uid is evicted.
LEMMA InsertEvictStep ==
  ASSUME IndInv, NEW u \in Uids, InsertEvict(u)
  PROVE  /\ IndInv'
         /\ \E v \in lru_map : lru_map' = (lru_map \union {u}) \ {v}
<1> DEFINE L == PushFront(lru_list, u)
<1>0. TypeOK /\ ListMapAgree /\ BloomExact
  BY DEF IndInv
<1>1. Len(lru_list) \in Nat /\ max_size \in Nat /\ max_size >= 1
  BY <1>0, LenProperties, MaxSizePositive DEF TypeOK
<1>2. Len(lru_list) = max_size
  BY <1>0, <1>1, MapSize DEF InsertEvict, TypeOK
<1>3. /\ L \in Seq(Uids) /\ Len(L) = max_size + 1 /\ L[1] = u
      /\ \A j \in 2 .. max_size + 1 : L[j] = lru_list[j - 1]
  BY <1>0, <1>2, PushFrontProperties
<1>4. DOMAIN lru_list = 1 .. max_size
  BY <1>0, <1>2, LenProperties DEF TypeOK
<1>5. /\ lru_list' = SubSeq(L, 1, max_size)
      /\ lru_map' = (lru_map \union {u}) \ {L[i] : i \in max_size + 1 .. max_size + 1}
      /\ bloom_bits' = bloom_rebuild(lru_list')
  BY <1>3 DEF InsertEvict, evict_oldest, EvictTo
<1> HIDE DEF L
<1>6. \A i \in 1 .. max_size : L[i] \in Uids
  BY <1>1, <1>3, ElementOfSeq
<1>7. /\ lru_list' \in Seq(Uids) /\ Len(lru_list') = max_size
      /\ DOMAIN lru_list' = 1 .. max_size
      /\ \A i \in 1 .. max_size : lru_list'[i] = L[i]
  <2>1. lru_list' \in Seq(Uids) /\ Len(lru_list') = max_size
    BY <1>1, <1>5, <1>6, SubSeqProperties
  <2>2. ASSUME NEW i \in 1 .. max_size
        PROVE  lru_list'[i] = L[i]
    BY <1>1, <1>5, <1>6, SubSeqProperties
  <2> QED BY <2>1, <2>2, LenProperties
<1>8. lru_list'[1] = u /\ \A j \in 2 .. max_size : lru_list'[j] = lru_list[j - 1]
  BY <1>1, <1>3, <1>7
<1>9. lru_map' = (lru_map \union {u}) \ {lru_list[max_size]}
  <2>1. max_size + 1 .. max_size + 1 = {max_size + 1}
    BY <1>1
  <2>2. L[max_size + 1] = lru_list[max_size]
    BY <1>1, <1>3
  <2> QED BY <1>5, <2>1, <2>2
<1>10. lru_map' = {lru_list'[i] : i \in 1 .. max_size}
  <2>1. u # lru_list[max_size] /\ max_size \in DOMAIN lru_list
    BY <1>0, <1>1, <1>4 DEF ListMapAgree, InsertEvict
  <2>2. ASSUME NEW v \in lru_map'
        PROVE  \E i \in 1 .. max_size : lru_list'[i] = v
    <3>1. CASE v = u
      BY <1>1, <1>8, <3>1
    <3>2. CASE v # u
      <4>1. PICK i \in 1 .. max_size : lru_list[i] = v
        BY <1>0, <1>4, <1>9, <2>2, <3>2 DEF ListMapAgree
      <4>2. i # max_size
        BY <1>9, <2>2, <4>1
      <4>3. i + 1 \in 2 .. max_size /\ i + 1 \in 1 .. max_size /\ (i + 1) - 1 = i
        BY <1>1, <4>2
      <4> QED BY <1>8, <4>1, <4>3
    <3> QED BY <3>1, <3>2
  <2>3. ASSUME NEW i \in 1 .. max_size
        PROVE  lru_list'[i] \in lru_map'
    <3>1. CASE i = 1
      BY <1>8, <1>9, <2>1, <3>1
    <3>2. CASE i # 1
      <4>1. i \in 2 .. max_size /\ i - 1 \in 1 .. max_size /\ i - 1 # max_size
        BY <1>1, <3>2
      <4>2. lru_list'[i] = lru_list[i - 1] /\ lru_list[i - 1] \in lru_map
        BY <1>0, <1>4, <1>8, <4>1 DEF ListMapAgree
      <4>3. lru_list[i - 1] # lru_list[max_size]
        BY <1>0, <1>4, <2>1, <4>1 DEF ListMapAgree
      <4> QED BY <1>9, <4>2, <4>3
    <3> QED BY <3>1, <3>2
  <2> QED BY <2>2, <2>3
<1>11. bloom_bits' = UNION {Hashes(lru_list'[i]) : i \in 1 .. max_size}
  BY <1>5, <1>7 DEF bloom_rebuild
<1>12. Shifted(u, max_size)
  BY <1>1, <1>2, <1>7, <1>8, <1>10, <1>11 DEF Shifted
<1>13. lru_list[max_size] \in lru_map
  BY <1>0, <1>1, <1>4 DEF ListMapAgree
<1> QED BY <1>1, <1>9, <1>12, <1>13, FrontStep DEF InsertEvict

\* clear() leaves an empty filter.
LEMMA ClearStep ==
  ASSUME IndInv, Clear
  PROVE  IndInv'
<1>1. clock' \in 0 .. MaxCalls
  BY SizeAssumption DEF Clear, IndInv, TypeOK
<1>2. TypeOK'
  BY <1>1, MaxSizePositive DEF Clear, TypeOK, max_size
<1>3. ListMapAgree' /\ BloomExact' /\ RecencyOrder'
  BY DEF Clear, ListMapAgree, BloomExact, RecencyOrder
<1> QED BY <1>2, <1>3 DEF IndInv

-----------------------------------------------------------------------------
(* Theorems *)

(***************************************************************************)
(* The inductive invariant holds in every reachable state of the filter.   *)
(***************************************************************************)
THEOREM Inductive == Spec => []IndInv
<1>1. Init => IndInv
  BY EmptyFilter, SizeAssumption DEF Init
<1>2. IndInv /\ [Next]_vars => IndInv'
  <2>1. SUFFICES ASSUME IndInv, [Next]_vars PROVE IndInv'
    OBVIOUS
  <2>2. ASSUME NEW u \in Uids, InsertDuplicate(u) PROVE IndInv'
    BY <2>1, <2>2, InsertDuplicateStep
  <2>3. ASSUME NEW u \in Uids, InsertNew(u) PROVE IndInv'
    BY <2>1, <2>3, InsertNewStep
  <2>4. ASSUME NEW u \in Uids, InsertEvict(u) PROVE IndInv'
    BY <2>1, <2>4, InsertEvictStep
  <2>5. CASE Clear
    BY <2>1, <2>5, ClearStep
  <2>6. CASE UNCHANGED vars
    BY <2>1, <2>6 DEF vars, IndInv, TypeOK, ListMapAgree, BloomExact,
                      RecencyOrder, max_size
  <2> QED BY <2>1, <2>2, <2>3, <2>4, <2>5, <2>6 DEF Next
<1> QED BY <1>1, <1>2, PTL DEF Spec

(***************************************************************************)
(* Every variable has its type; the list stays within the capacity however *)
(* many uids are inserted.  (insert, clear)                                *)
(***************************************************************************)
THEOREM Types == Spec => []TypeOK
  BY Inductive, PTL DEF IndInv

(***************************************************************************)
(* List and map never diverge: they hold the same uids, each once.         *)
(* (insert, clear)                                                         *)
(***************************************************************************)
THEOREM Structure == Spec => []ListMapAgree
  BY Inductive, PTL DEF IndInv

(***************************************************************************)
(* The bloom filter has no stale bits and contains() has no false          *)
(* negatives, whatever the hash functions are.                             *)
(***************************************************************************)
THEOREM Lookup == Spec => [](BloomExact /\ ContainsExact)
<1>1. IndInv => BloomExact /\ ContainsExact
  BY DEF IndInv, BloomExact, ContainsExact, contains, bloom_maybe_contains
<1> QED BY <1>1, Inductive, PTL

(***************************************************************************)
(* insert() recognises as duplicates exactly the last max_size_ different  *)
(* uids it was called with.                                                *)
(***************************************************************************)
THEOREM Window == Spec => []WindowExact
<1>1. IndInv => WindowExact
  <2>1. SUFFICES ASSUME IndInv, NEW u \in Uids
                 PROVE  u \in lru_map <=>
                          last[u] > 0 /\ Cardinality(NewerThan(u)) < max_size
    BY DEF WindowExact
  <2>2. TypeOK /\ ListMapAgree /\ RecencyOrder
    BY <2>1 DEF IndInv
  <2>3. /\ IsFiniteSet(lru_map) /\ Cardinality(lru_map) = Len(lru_list)
        /\ Len(lru_list) \in Nat /\ Len(lru_list) <= max_size /\ max_size \in Nat
        /\ DOMAIN lru_list = 1 .. Len(lru_list)
    BY <2>2, MapSize, MaxSizePositive, LenProperties DEF TypeOK
  <2>4. last \in [Uids -> Nat]
    BY <2>2 DEF TypeOK
  <2>5. NewerThan(u) \subseteq Uids /\ IsFiniteSet(NewerThan(u))
        /\ Cardinality(NewerThan(u)) \in Nat
    BY UidsAssumption, FS_Subset, FS_CardinalityType DEF NewerThan
  <2>6. ASSUME u \in lru_map
        PROVE  last[u] > 0 /\ Cardinality(NewerThan(u)) < max_size
    <3>1. last[u] > 0
      BY <2>2, <2>6 DEF ListMapAgree, RecencyOrder
    <3>2. NewerThan(u) \subseteq lru_map \ {u}
      <4>1. SUFFICES ASSUME NEW v \in Uids, last[v] > last[u]
                     PROVE  v \in lru_map \ {u}
        BY DEF NewerThan
      <4>2. last[v] > 0 /\ v # u
        BY <2>4, <3>1, <4>1
      <4>3. PICK i \in DOMAIN lru_list : lru_list[i] = u
        BY <2>2, <2>6 DEF ListMapAgree
      <4>4. v \notin lru_map => last[v] < last[u]
        BY <2>2, <4>2, <4>3 DEF RecencyOrder
      <4> QED BY <2>4, <4>1, <4>2, <4>4
    <3>3. IsFiniteSet(lru_map \ {u})
          /\ Cardinality(lru_map \ {u}) = Cardinality(lru_map) - 1
      BY <2>3, <2>6, FS_RemoveElement
    <3>4. Cardinality(NewerThan(u)) <= Cardinality(lru_map \ {u})
      BY <3>2, <3>3, FS_Subset
    <3> QED BY <2>3, <2>5, <3>1, <3>3, <3>4
  <2>7. ASSUME u \notin lru_map, last[u] > 0
        PROVE  ~(Cardinality(NewerThan(u)) < max_size)
    <3>1. Len(lru_list) = max_size
          /\ \A i \in DOMAIN lru_list : last[u] < last[lru_list[i]]
      BY <2>2, <2>7 DEF RecencyOrder
    <3>2. lru_map \subseteq NewerThan(u)
      BY <2>2, <2>4, <3>1 DEF ListMapAgree, TypeOK, NewerThan
    <3>3. Cardinality(lru_map) <= Cardinality(NewerThan(u))
      BY <2>5, <3>2, FS_Subset
    <3> QED BY <2>3, <2>5, <3>1, <3>3
  <2> QED BY <2>6, <2>7
<1> QED BY <1>1, Inductive, PTL

\* The instance's copy of Cardinality is Cardinality.
LEMMA SameCardinality == \A S : Abstract!Cardinality(S) = Cardinality(S)
  BY DEF Abstract!Cardinality, Cardinality

(***************************************************************************)
(* DedupFilter implements DedupSet: what BufferShard assumes of its filter *)
(* is what the LRU list, the map and the bloom filter provide.             *)
(***************************************************************************)
THEOREM Refinement == Spec => ImplementsDedupSet
<1>1. Init => Abstract!Init
  BY DEF Init, Abstract!Init
<1>2. IndInv /\ [Next]_vars => [Abstract!Next]_lru_map
  <2>1. SUFFICES ASSUME IndInv, [Next]_vars
                 PROVE  Abstract!Next \/ UNCHANGED lru_map
    OBVIOUS
  <2>2. /\ IsFiniteSet(lru_map) /\ Cardinality(lru_map) \in Nat
        /\ max_size \in Nat
    BY <2>1, MapSize, MaxSizePositive, FS_CardinalityType DEF IndInv
  <2>3. ASSUME NEW u \in Uids, u \notin lru_map
        PROVE  Cardinality(lru_map \union {u}) = Cardinality(lru_map) + 1
    BY <2>2, <2>3, FS_AddElement
  <2>4. ASSUME NEW u \in Uids, InsertDuplicate(u)
        PROVE  UNCHANGED lru_map
    BY <2>4 DEF InsertDuplicate
  <2>5. ASSUME NEW u \in Uids, InsertNew(u)
        PROVE  Abstract!Insert(u)
    BY <2>2, <2>3, <2>5, SameCardinality
    DEF InsertNew, Abstract!Insert, Abstract!AfterInsert
  <2>6. ASSUME NEW u \in Uids, InsertEvict(u)
        PROVE  Abstract!Insert(u)
    <3>1. u \notin lru_map /\ ~(Cardinality(lru_map \union {u}) <= max_size)
      BY <2>2, <2>3, <2>6 DEF InsertEvict
    <3>2. PICK v \in lru_map : lru_map' = (lru_map \union {u}) \ {v}
      BY <2>1, <2>6, InsertEvictStep
    <3> QED BY <3>1, <3>2, SameCardinality DEF Abstract!Insert, Abstract!AfterInsert
  <2>7. CASE Clear
    BY <2>7 DEF Clear, Abstract!Next, Abstract!Clear
  <2>8. CASE UNCHANGED vars
    BY <2>8 DEF vars
  <2> QED BY <2>1, <2>4, <2>5, <2>6, <2>7, <2>8 DEF Next, Abstract!Next
<1> QED BY <1>1, <1>2, Inductive, PTL DEF Spec, Abstract!Spec, ImplementsDedupSet
=============================================================================
