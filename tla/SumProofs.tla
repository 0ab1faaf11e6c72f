----------------------------- MODULE SumProofs -------------------------------
(***************************************************************************)
(* Sums over a finite set: the counters of a shard, the trajectories of an *)
(* answer and the statistics of the manager are such sums.                 *)
(*                                                                         *)
(* SumFunctionOnSet of the community modules folds over the set in an      *)
(* order of CHOOSE's.  The lemmas say that the order does not matter, and  *)
(* what an element more or less does to the sum.  They need induction over *)
(* the set.  The induction theorems of the library have an operator as     *)
(* parameter; WFMin, from which they follow, has a set instead: the set of *)
(* counterexamples has a least element.                                    *)
(***************************************************************************)
EXTENDS Integers, FiniteSets, Functions, FiniteSetTheorems, TLAPS

\* the element with which the fold begins
Some(s) == CHOOSE x \in s : TRUE

\* it sums f over each set of D
Sums(it, f, D) ==
    it = [s \in D |-> IF s = {} THEN 0 ELSE f[Some(s)] + it[s \ {Some(s)}]]

(* The sum is the value at S of a function that sums f over the subsets of *)
(* S.                                                                      *)
LEMMA SumIs ==
    ASSUME NEW f, NEW S
    PROVE  SumFunctionOnSet(f, S) = (CHOOSE it : Sums(it, f, SUBSET S))[S]
BY Zenon DEF SumFunctionOnSet, FoldFunctionOnSet, MapThenFoldSet, Sums, Some

(* A set of numbers that is not empty has a least one.  *)
LEMMA LeastNumber ==
    ASSUME NEW B \in SUBSET Nat, B # {}
    PROVE  \E n \in B : \A m \in B : n <= m
<1>1. PICK n \in B : \A m \in B : <<m, n>> \notin OpToRel(<, Nat)
  BY NatLessThanWellFounded, WFMin
<1>2. \A m \in B : ~(m < n)
  BY <1>1 DEF OpToRel
<1> QED
  BY <1>2

(* A set of finite sets that is not empty has a least one.  *)
LEMMA LeastSet ==
    ASSUME NEW S, IsFiniteSet(S), NEW B \in SUBSET SUBSET S, B # {}
    PROVE  \E T \in B : \A U \in (SUBSET T) \ {T} : U \notin B
<1>1. FiniteSubsetsOf(S) = SUBSET S
  BY FS_FiniteSubsetsOfFinite
<1>2. IsWellFoundedOn(StrictSubsetOrdering(S), SUBSET S)
  BY <1>1, FS_StrictSubsetOrderingWellFounded
<1>3. PICK T \in B : \A U \in B : <<U, T>> \notin StrictSubsetOrdering(S)
  BY <1>2, WFMin
<1>4. \A U \in B : ~(U \subseteq T /\ U # T)
  BY <1>3 DEF StrictSubsetOrdering
<1> QED
  BY <1>4

\* the subsets of at most n elements
Small(S, n) == {s \in SUBSET S : Cardinality(s) <= n}

(* What a set and the choice of an element do to a cardinality.  *)
LEMMA SmallSets ==
    ASSUME NEW S, IsFiniteSet(S)
    PROVE  \A s \in SUBSET S :
             /\ Cardinality(s) \in Nat
             /\ Cardinality(s) = 0 <=> s = {}
             /\ s # {} => /\ Some(s) \in s
                          /\ Cardinality(s \ {Some(s)}) = Cardinality(s) - 1
<1> SUFFICES ASSUME NEW s \in SUBSET S
             PROVE  /\ Cardinality(s) \in Nat
                    /\ Cardinality(s) = 0 <=> s = {}
                    /\ s # {} => /\ Some(s) \in s
                                 /\ Cardinality(s \ {Some(s)}) = Cardinality(s) - 1
  OBVIOUS
<1>1. IsFiniteSet(s)
  BY FS_Subset
<1>2. s # {} => Some(s) \in s
  BY DEF Some
<1> QED
  BY <1>1, <1>2, FS_CardinalityType, FS_EmptySet, FS_RemoveElement

(* There is such a function for the sets of each cardinality.  *)
LEMMA SumsTo ==
    ASSUME NEW S, IsFiniteSet(S), NEW f, \A x \in S : f[x] \in Int, NEW n \in Nat
    PROVE  \E it \in [Small(S, n) -> Int] : Sums(it, f, Small(S, n))
<1> DEFINE Done(k) == \E it \in [Small(S, k) -> Int] : Sums(it, f, Small(S, k))
           B == {k \in Nat : ~Done(k)}
<1>0. \A s \in SUBSET S :
        /\ Cardinality(s) \in Nat
        /\ Cardinality(s) = 0 <=> s = {}
        /\ s # {} => /\ Some(s) \in s
                     /\ Cardinality(s \ {Some(s)}) = Cardinality(s) - 1
  BY SmallSets
<1>1. Done(0)
  <2>1. Small(S, 0) = {{}}
    <3>1. ASSUME NEW s \in SUBSET S PROVE Cardinality(s) <= 0 <=> s = {}
      <4>1. Cardinality(s) \in Nat /\ (Cardinality(s) = 0 <=> s = {})
        BY <1>0, Zenon
      <4> QED
        BY <4>1
    <3> QED
      BY <3>1 DEF Small
  <2>2. Sums([s \in {{}} |-> 0], f, {{}})
    BY DEF Sums
  <2>3. [s \in {{}} |-> 0] \in [{{}} -> Int]
    OBVIOUS
  <2> QED
    BY <2>1, <2>2, <2>3
<1>2. ASSUME NEW k \in Nat, Done(k)
      PROVE  Done(k + 1)
  <2>1. PICK it \in [Small(S, k) -> Int] : Sums(it, f, Small(S, k))
    BY <1>2
  <2> DEFINE next == [s \in Small(S, k + 1) |->
                        IF s = {} THEN 0 ELSE f[Some(s)] + it[s \ {Some(s)}]]
  <2>2. \A s \in Small(S, k + 1) : s # {} =>
           /\ Some(s) \in S /\ s \ {Some(s)} \in Small(S, k)
    BY <1>0 DEF Small
  <2>3. next \in [Small(S, k + 1) -> Int]
    BY <2>1, <2>2
  <2>4. ASSUME NEW s \in Small(S, k)
        PROVE  next[s] = it[s]
    <3>1. s \in Small(S, k + 1)
      <4>1. s \in SUBSET S /\ Cardinality(s) <= k
        BY DEF Small
      <4>2. Cardinality(s) \in Nat
        BY <4>1, <1>0, Zenon
      <4> QED
        BY <4>1, <4>2 DEF Small
    <3> QED
      BY <2>1, <3>1 DEF Sums
  <2>5. Sums(next, f, Small(S, k + 1))
    BY <2>2, <2>4 DEF Sums
  <2> QED
    BY <2>3, <2>5
<1> HIDE DEF Done
<1>3. SUFFICES ASSUME B # {} PROVE FALSE
  BY <1>3 DEF Done
<1>4. PICK k \in B : \A m \in B : k <= m
  BY <1>3, LeastNumber
<1>5. k # 0 /\ k \in Nat
  BY <1>1, <1>4
<1>6. Done(k - 1)
  BY <1>4, <1>5
<1>7. Done((k - 1) + 1)
  BY <1>2, <1>5, <1>6
<1> QED
  BY <1>4, <1>5, <1>7

(* So there is one for all subsets of a finite set.  *)
LEMMA SumsExists ==
    ASSUME NEW S, IsFiniteSet(S), NEW f, \A x \in S : f[x] \in Int
    PROVE  \E it \in [SUBSET S -> Int] : Sums(it, f, SUBSET S)
<1>1. Cardinality(S) \in Nat /\ Small(S, Cardinality(S)) = SUBSET S
  BY FS_Subset, FS_CardinalityType DEF Small
<1>2. \E it \in [Small(S, Cardinality(S)) -> Int] : Sums(it, f, Small(S, Cardinality(S)))
  BY <1>1, SumsTo
<1> QED
  BY <1>1, <1>2

(* Two such functions agree where the functions they sum agree.  *)
LEMMA SumsUnique ==
    ASSUME NEW S, IsFiniteSet(S), NEW T \in SUBSET S, NEW f, NEW g, 
           \A x \in T : f[x] = g[x], NEW it, NEW jt,
           Sums(it, f, SUBSET S), Sums(jt, g, SUBSET T)
    PROVE  it[T] = jt[T]
<1> DEFINE B == {U \in SUBSET T : it[U] # jt[U]}
<1> SUFFICES ASSUME B # {} PROVE FALSE
  OBVIOUS
<1>1. IsFiniteSet(T)
  BY FS_Subset
<1>2. PICK U \in B : \A V \in (SUBSET U) \ {U} : V \notin B
  <2>1. B \in SUBSET SUBSET T
    OBVIOUS
  <2> HIDE DEF B
  <2> QED
    BY <1>1, <2>1, LeastSet
<1>3. CASE U = {}
  BY <1>2, <1>3 DEF Sums
<1>4. CASE U # {}
  <2>1. Some(U) \in U
    BY <1>4 DEF Some
  <2>2. it[U \ {Some(U)}] = jt[U \ {Some(U)}]
    BY <1>2, <2>1
  <2>3. it[U] = f[Some(U)] + it[U \ {Some(U)}]
    BY <1>2, <1>4, <2>1 DEF Sums
  <2>4. jt[U] = g[Some(U)] + jt[U \ {Some(U)}]
    BY <1>2, <1>4, <2>1 DEF Sums
  <2> QED
    BY <2>1, <2>2, <2>3, <2>4, <1>2
<1> QED
  BY <1>3, <1>4

(* Induction over a finite set, with a set for the predicate.  *)
LEMMA SetInduction ==
    ASSUME NEW S, IsFiniteSet(S), NEW Good, {} \in Good,
           \A T \in SUBSET S : \A x \in S \ T : T \in Good => T \union {x} \in Good
    PROVE  S \in Good
<1> DEFINE B == (SUBSET S) \ Good
<1>1. SUFFICES ASSUME S \notin Good PROVE FALSE
  OBVIOUS
<1>2. B \in SUBSET SUBSET S /\ B # {}
  BY <1>1
<1>3. PICK T \in B : \A U \in (SUBSET T) \ {T} : U \notin B
  <2> HIDE DEF B
  <2> QED
    BY <1>2, LeastSet
<1>4. PICK x \in T : TRUE
  BY <1>3
<1>5. /\ T \ {x} \in SUBSET S /\ x \in S \ (T \ {x})
      /\ T \ {x} \in (SUBSET T) \ {T} /\ (T \ {x}) \union {x} = T
  BY <1>3, <1>4
<1>6. T \ {x} \in Good
  BY <1>3, <1>5
<1>7. T \in Good
  BY <1>5, <1>6
<1> QED
  BY <1>3, <1>7

-----------------------------------------------------------------------------
(* The sums *)

IntOn(f, S) == \A x \in S : f[x] \in Int

\* it has the sum over each subset
Table(it, f, S) ==
    /\ it \in [SUBSET S -> Int] /\ Sums(it, f, SUBSET S)
    /\ \A T \in SUBSET S : SumFunctionOnSet(f, T) = it[T]

(* One function gives the sums over all subsets of a finite set.  *)
LEMMA SumTable ==
    ASSUME NEW S, IsFiniteSet(S), NEW f, IntOn(f, S)
    PROVE  \E it : Table(it, f, S)
<1>1. PICK it \in [SUBSET S -> Int] : Sums(it, f, SUBSET S)
  BY SumsExists DEF IntOn
<1>2. ASSUME NEW T \in SUBSET S
      PROVE  SumFunctionOnSet(f, T) = it[T]
  <2> DEFINE jt == CHOOSE jt : Sums(jt, f, SUBSET T)
  <2>1. IsFiniteSet(T) /\ \A x \in T : f[x] \in Int
    BY FS_Subset DEF IntOn
  <2>2. \E kt : Sums(kt, f, SUBSET T)
    BY <2>1, SumsExists
  <2>3. Sums(jt, f, SUBSET T)
    BY <2>2
  <2>4. SumFunctionOnSet(f, T) = jt[T]
    BY SumIs
  <2> HIDE DEF jt
  <2> QED
    BY <1>1, <2>3, <2>4, SumsUnique
<1> QED
  BY <1>1, <1>2 DEF Table

(* A sum of integers is an integer.  *)
LEMMA SumType ==
    ASSUME NEW S, IsFiniteSet(S), NEW f, IntOn(f, S)
    PROVE  SumFunctionOnSet(f, S) \in Int
<1>1. PICK it : Table(it, f, S)
  BY SumTable
<1> QED
  BY <1>1 DEF Table

(* The sum over no element is 0.  *)
LEMMA SumEmpty == ASSUME NEW f PROVE SumFunctionOnSet(f, {}) = 0
<1>1. IsFiniteSet({}) /\ IntOn(f, {})
  BY FS_EmptySet DEF IntOn
<1>2. PICK it : Table(it, f, {})
  BY <1>1, SumTable
<1> QED
  BY <1>2 DEF Table, Sums

(* Only the values on the set count.  *)
LEMMA SumSame ==
    ASSUME NEW S, IsFiniteSet(S), NEW f, NEW g, IntOn(f, S), \A x \in S : f[x] = g[x]
    PROVE  SumFunctionOnSet(f, S) = SumFunctionOnSet(g, S)
<1>1. IntOn(g, S) /\ S \in SUBSET S
  BY DEF IntOn
<1>2. PICK it : Table(it, f, S)
  BY <1>1, SumTable
<1>3. PICK jt : Table(jt, g, S)
  BY <1>1, SumTable
<1>4. it[S] = jt[S]
  BY <1>1, <1>2, <1>3, SumsUnique DEF Table
<1> QED
  BY <1>1, <1>2, <1>3, <1>4 DEF Table

(* Whichever element is taken out of the set, the sum is its value and the *)
(* sum of the rest.                                                        *)
LEMMA SumRemove ==
    ASSUME NEW S, IsFiniteSet(S), NEW f, IntOn(f, S), NEW x \in S
    PROVE  SumFunctionOnSet(f, S) = f[x] + SumFunctionOnSet(f, S \ {x})
<1>0. PICK it : Table(it, f, S)
  BY SumTable
<1>1. /\ it \in [SUBSET S -> Int] /\ Sums(it, f, SUBSET S)
      /\ \A T \in SUBSET S : SumFunctionOnSet(f, T) = it[T]
  BY <1>0 DEF Table
<1>2. \A T \in SUBSET S : T # {} =>
         Some(T) \in T /\ it[T] = f[Some(T)] + it[T \ {Some(T)}]
  BY <1>1 DEF Sums, Some
<1> DEFINE B == {T \in SUBSET S : \E y \in T : it[T] # f[y] + it[T \ {y}]}
<1>3. SUFFICES ASSUME B # {} PROVE FALSE
  <2>1. x \in S /\ S \in SUBSET S /\ S \ {x} \in SUBSET S
    OBVIOUS
  <2>2. CASE B = {}
    <3>1. it[S] = f[x] + it[S \ {x}]
      BY <2>1, <2>2
    <3> QED
      BY <1>1, <2>1, <3>1
  <2> QED
    BY <2>2
<1>4. PICK T \in B : \A U \in (SUBSET T) \ {T} : U \notin B
  <2>1. B \in SUBSET SUBSET S
    OBVIOUS
  <2> HIDE DEF B
  <2> QED
    BY <1>3, <2>1, LeastSet
<1>5. PICK y \in T : it[T] # f[y] + it[T \ {y}]
  BY <1>4
<1> DEFINE c == Some(T)
<1>6. T \in SUBSET S /\ c \in T /\ it[T] = f[c] + it[T \ {c}]
  BY <1>2, <1>4, <1>5
<1> HIDE DEF c
<1>7. c # y
  BY <1>5, <1>6
<1>8. it[T \ {c}] = f[y] + it[(T \ {c}) \ {y}]
  <2>1. T \ {c} \in (SUBSET T) \ {T} /\ T \ {c} \in SUBSET S /\ y \in T \ {c}
    BY <1>5, <1>6, <1>7
  <2> QED
    BY <1>4, <2>1
<1>9. it[T \ {y}] = f[c] + it[(T \ {y}) \ {c}]
  <2>1. T \ {y} \in (SUBSET T) \ {T} /\ T \ {y} \in SUBSET S /\ c \in T \ {y}
    BY <1>5, <1>6, <1>7
  <2> QED
    BY <1>4, <2>1
<1>10. (T \ {c}) \ {y} = (T \ {y}) \ {c} /\ (T \ {c}) \ {y} \in SUBSET S
  BY <1>6
<1>11. f[y] \in Int /\ f[c] \in Int /\ it[(T \ {c}) \ {y}] \in Int
  BY <1>1, <1>5, <1>6, <1>10 DEF IntOn
<1>12. it[T] = f[c] + (f[y] + it[(T \ {c}) \ {y}])
  BY <1>6, <1>8
<1>13. it[T] # f[y] + (f[c] + it[(T \ {c}) \ {y}])
  BY <1>5, <1>9, <1>10
<1> QED
  BY <1>11, <1>12, <1>13

(* An element more adds its value.  *)
LEMMA SumAdd ==
    ASSUME NEW S, IsFiniteSet(S), NEW f, NEW x, x \notin S, IntOn(f, S \union {x})
    PROVE  SumFunctionOnSet(f, S \union {x}) = f[x] + SumFunctionOnSet(f, S)
<1>1. IsFiniteSet(S \union {x}) /\ (S \union {x}) \ {x} = S /\ x \in S \union {x}
  BY FS_AddElement
<1> HIDE DEF IntOn
<1>2. SumFunctionOnSet(f, S \union {x}) = f[x] + SumFunctionOnSet(f, (S \union {x}) \ {x})
  BY <1>1, SumRemove
<1> QED
  BY <1>1, <1>2

(* The sums over two disjoint sets add up to that over their union.  *)
LEMMA SumUnion ==
    ASSUME NEW S, IsFiniteSet(S), NEW T, IsFiniteSet(T), S \intersect T = {},
           NEW f, IntOn(f, S \union T)
    PROVE  SumFunctionOnSet(f, S \union T) = SumFunctionOnSet(f, S) + SumFunctionOnSet(f, T)
<1> DEFINE Good == {U \in SUBSET T : SumFunctionOnSet(f, S \union U)
                                      = SumFunctionOnSet(f, S) + SumFunctionOnSet(f, U)}
<1>1. {} \in Good
  <2>1. SumFunctionOnSet(f, S) \in Int
    BY SumType DEF IntOn
  <2> QED
    BY <2>1, SumEmpty
<1>2. ASSUME NEW U \in SUBSET T, NEW x \in T \ U, U \in Good
      PROVE  U \union {x} \in Good
  <2>1. IsFiniteSet(U) /\ IsFiniteSet(S \union U)
    BY FS_Subset, FS_Union
  <2>2. /\ IntOn(f, U \union {x}) /\ IntOn(f, (S \union U) \union {x})
        /\ IntOn(f, S) /\ IntOn(f, U) /\ f[x] \in Int
    BY DEF IntOn
  <2>3. x \notin S \union U /\ S \union (U \union {x}) = (S \union U) \union {x}
    OBVIOUS
  <2>4. SumFunctionOnSet(f, (S \union U) \union {x}) = f[x] + SumFunctionOnSet(f, S \union U)
    BY <2>1, <2>2, <2>3, SumAdd
  <2>5. SumFunctionOnSet(f, U \union {x}) = f[x] + SumFunctionOnSet(f, U)
    BY <2>1, <2>2, SumAdd
  <2>6. SumFunctionOnSet(f, S) \in Int /\ SumFunctionOnSet(f, U) \in Int
    BY <2>1, <2>2, SumType
  <2>7. SumFunctionOnSet(f, S \union U) = SumFunctionOnSet(f, S) + SumFunctionOnSet(f, U)
    BY <1>2
  <2>8. SumFunctionOnSet(f, S \union (U \union {x}))
          = SumFunctionOnSet(f, S) + SumFunctionOnSet(f, U \union {x})
    <3>1. ASSUME NEW a \in Int, NEW b \in Int, NEW c \in Int
          PROVE  c + (a + b) = a + (c + b)
      OBVIOUS
    <3> QED
      <4>1. f[x] + (SumFunctionOnSet(f, S) + SumFunctionOnSet(f, U))
              = SumFunctionOnSet(f, S) + (f[x] + SumFunctionOnSet(f, U))
        BY <2>2, <2>6, <3>1
      <4> QED
        BY <2>3, <2>4, <2>5, <2>7, <4>1, Zenon
  <2> QED
    BY <2>8
<1>3. T \in Good
  <2> HIDE DEF Good
  <2> QED
    BY <1>1, <1>2, SetInduction
<1> QED
  BY <1>3

(* The sum of a pointwise sum is the sum of the sums.  *)
LEMMA SumPlus ==
    ASSUME NEW S, IsFiniteSet(S), NEW f, NEW g, NEW h, IntOn(f, S), IntOn(g, S),
           \A x \in S : h[x] = f[x] + g[x]
    PROVE  SumFunctionOnSet(h, S) = SumFunctionOnSet(f, S) + SumFunctionOnSet(g, S)
<1> DEFINE Good == {T \in SUBSET S : SumFunctionOnSet(h, T)
                                      = SumFunctionOnSet(f, T) + SumFunctionOnSet(g, T)}
<1>1. {} \in Good
  BY SumEmpty
<1>2. ASSUME NEW T \in SUBSET S, NEW x \in S \ T, T \in Good
      PROVE  T \union {x} \in Good
  <2>1. IsFiniteSet(T)
    BY FS_Subset
  <2>2. /\ IntOn(f, T \union {x}) /\ IntOn(g, T \union {x}) /\ IntOn(h, T \union {x})
        /\ IntOn(f, T) /\ IntOn(g, T) /\ f[x] \in Int /\ g[x] \in Int
    BY DEF IntOn
  <2>3. /\ SumFunctionOnSet(f, T \union {x}) = f[x] + SumFunctionOnSet(f, T)
        /\ SumFunctionOnSet(g, T \union {x}) = g[x] + SumFunctionOnSet(g, T)
        /\ SumFunctionOnSet(h, T \union {x}) = h[x] + SumFunctionOnSet(h, T)
    BY <2>1, <2>2, SumAdd
  <2>4. SumFunctionOnSet(f, T) \in Int /\ SumFunctionOnSet(g, T) \in Int
    BY <2>1, <2>2, SumType
  <2>5. SumFunctionOnSet(h, T) = SumFunctionOnSet(f, T) + SumFunctionOnSet(g, T)
    BY <1>2
  <2>6. SumFunctionOnSet(h, T \union {x})
          = SumFunctionOnSet(f, T \union {x}) + SumFunctionOnSet(g, T \union {x})
    BY <2>2, <2>3, <2>4, <2>5
  <2> QED
    BY <2>6
<1>3. S \in Good
  <2> HIDE DEF Good
  <2> QED
    BY <1>1, <1>2, SetInduction
<1> QED
  BY <1>3

(* Smaller values have a smaller sum.  *)
LEMMA SumLeq ==
    ASSUME NEW S, IsFiniteSet(S), NEW f, NEW g, IntOn(f, S), IntOn(g, S),
           \A x \in S : f[x] <= g[x]
    PROVE  SumFunctionOnSet(f, S) <= SumFunctionOnSet(g, S)
<1> DEFINE Good == {T \in SUBSET S : SumFunctionOnSet(f, T) <= SumFunctionOnSet(g, T)}
<1>1. {} \in Good
  BY SumEmpty
<1>2. ASSUME NEW T \in SUBSET S, NEW x \in S \ T, T \in Good
      PROVE  T \union {x} \in Good
  <2>1. IsFiniteSet(T)
    BY FS_Subset
  <2>2. /\ IntOn(f, T \union {x}) /\ IntOn(g, T \union {x})
        /\ IntOn(f, T) /\ IntOn(g, T) /\ f[x] \in Int /\ g[x] \in Int
    BY DEF IntOn
  <2>3. /\ SumFunctionOnSet(f, T \union {x}) = f[x] + SumFunctionOnSet(f, T)
        /\ SumFunctionOnSet(g, T \union {x}) = g[x] + SumFunctionOnSet(g, T)
    BY <2>1, <2>2, SumAdd
  <2>4. SumFunctionOnSet(f, T) \in Int /\ SumFunctionOnSet(g, T) \in Int
    BY <2>1, <2>2, SumType
  <2>5. SumFunctionOnSet(f, T) <= SumFunctionOnSet(g, T) /\ f[x] <= g[x]
    BY <1>2
  <2>6. SumFunctionOnSet(f, T \union {x}) <= SumFunctionOnSet(g, T \union {x})
    BY <2>2, <2>3, <2>4, <2>5
  <2> QED
    BY <2>6
<1>3. S \in Good
  <2> HIDE DEF Good
  <2> QED
    BY <1>1, <1>2, SetInduction
<1> QED
  BY <1>3

(* A sum of zeros is 0.  *)
LEMMA SumZero ==
    ASSUME NEW S, IsFiniteSet(S), NEW f, \A x \in S : f[x] = 0
    PROVE  SumFunctionOnSet(f, S) = 0
<1>1. IntOn(f, S)
  BY DEF IntOn
<1>2. SumFunctionOnSet(f, S) = SumFunctionOnSet(f, S) + SumFunctionOnSet(f, S)
  BY <1>1, SumPlus
<1>3. SumFunctionOnSet(f, S) \in Int
  BY <1>1, SumType
<1>4. \A n \in Int : n = n + n => n = 0
  OBVIOUS
<1> QED
  BY <1>2, <1>3, <1>4

(* A sum of natural numbers is one.  *)
LEMMA SumNat ==
    ASSUME NEW S, IsFiniteSet(S), NEW f, \A x \in S : f[x] \in Nat
    PROVE  SumFunctionOnSet(f, S) \in Nat
<1> DEFINE z == [x \in S |-> 0]
<1>1. /\ IntOn(f, S) /\ IntOn(z, S) /\ \A x \in S : z[x] <= f[x]
      /\ \A x \in S : z[x] = 0
  BY DEF IntOn
<1> HIDE DEF z
<1>2. SumFunctionOnSet(z, S) = 0 /\ SumFunctionOnSet(z, S) <= SumFunctionOnSet(f, S)
  BY <1>1, SumLeq, SumZero
<1>3. SumFunctionOnSet(f, S) \in Int
  BY <1>1, SumType
<1> QED
  BY <1>2, <1>3

(* As many as there are, if each counts for one at least.  *)
LEMMA SumCard ==
    ASSUME NEW S, IsFiniteSet(S), NEW f, \A x \in S : f[x] \in Nat \ {0}
    PROVE  Cardinality(S) <= SumFunctionOnSet(f, S)
<1> DEFINE Good == {T \in SUBSET S : Cardinality(T) <= SumFunctionOnSet(f, T)}
<1>1. {} \in Good
  BY SumEmpty, FS_EmptySet
<1>2. ASSUME NEW T \in SUBSET S, NEW x \in S \ T, T \in Good
      PROVE  T \union {x} \in Good
  <2>1. IsFiniteSet(T) /\ Cardinality(T) \in Nat
        /\ Cardinality(T \union {x}) = Cardinality(T) + 1
    BY FS_Subset, FS_CardinalityType, FS_AddElement
  <2>2. IntOn(f, T \union {x}) /\ IntOn(f, T) /\ f[x] \in Nat \ {0}
    BY DEF IntOn
  <2>3. SumFunctionOnSet(f, T \union {x}) = f[x] + SumFunctionOnSet(f, T)
    BY <2>1, <2>2, SumAdd
  <2>4. SumFunctionOnSet(f, T) \in Int
    BY <2>1, <2>2, SumType
  <2>5. Cardinality(T) <= SumFunctionOnSet(f, T)
    BY <1>2
  <2> QED
    BY <2>1, <2>2, <2>3, <2>4, <2>5
<1>3. S \in Good
  <2> HIDE DEF Good
  <2> QED
    BY <1>1, <1>2, SetInduction
<1> QED
  BY <1>3

(* The sum over a set is that over a part of it and that over the rest.  *)
LEMMA SumSplit ==
    ASSUME NEW S, IsFiniteSet(S), NEW T \in SUBSET S, NEW f, IntOn(f, S)
    PROVE  /\ SumFunctionOnSet(f, S) = SumFunctionOnSet(f, T) + SumFunctionOnSet(f, S \ T)
           /\ SumFunctionOnSet(f, T) \in Int /\ SumFunctionOnSet(f, S \ T) \in Int
<1>1. IsFiniteSet(T) /\ IsFiniteSet(S \ T)
  BY FS_Subset
<1>2. T \union (S \ T) = S /\ T \intersect (S \ T) = {}
  OBVIOUS
<1>3. IntOn(f, T) /\ IntOn(f, S \ T)
  BY DEF IntOn
<1>4. SumFunctionOnSet(f, T \union (S \ T)) = SumFunctionOnSet(f, T) + SumFunctionOnSet(f, S \ T)
  BY <1>1, <1>2, SumUnion
<1> QED
  BY <1>1, <1>2, <1>3, <1>4, SumType

(* There are not more images than elements.  *)
LEMMA ImageFinite ==
    ASSUME NEW S, IsFiniteSet(S), NEW m
    PROVE  IsFiniteSet({m[x] : x \in S})
<1>1. [x \in S |-> m[x]] \in Surjection(S, {m[x] : x \in S})
  BY DEF Surjection
<1> QED
  BY <1>1, FS_Surjection

(* Renaming the elements does not change the sum.  *)
LEMMA SumImage ==
    ASSUME NEW S, IsFiniteSet(S), NEW m, NEW f, NEW g,
           \A x, y \in S : m[x] = m[y] => x = y,
           \A x \in S : g[x] = f[m[x]], IntOn(g, S)
    PROVE  SumFunctionOnSet(g, S) = SumFunctionOnSet(f, {m[x] : x \in S})
<1> DEFINE Im(T) == {m[x] : x \in T}
           Good == {T \in SUBSET S : SumFunctionOnSet(g, T) = SumFunctionOnSet(f, Im(T))}
<1>1. {} \in Good
  <2>1. Im({}) = {}
    OBVIOUS
  <2> QED
    BY <2>1, SumEmpty
<1>2. ASSUME NEW T \in SUBSET S, NEW x \in S \ T, T \in Good
      PROVE  T \union {x} \in Good
  <2>1. IsFiniteSet(T) /\ IsFiniteSet(Im(T))
    BY FS_Subset, ImageFinite
  <2>2. Im(T \union {x}) = Im(T) \union {m[x]} /\ m[x] \notin Im(T)
    OBVIOUS
  <2>3. IntOn(g, T \union {x}) /\ IntOn(f, Im(T) \union {m[x]})
    BY DEF IntOn
  <2> HIDE DEF Im
  <2>4. SumFunctionOnSet(g, T \union {x}) = g[x] + SumFunctionOnSet(g, T)
    BY <2>1, <2>3, SumAdd
  <2>5. SumFunctionOnSet(f, Im(T) \union {m[x]}) = f[m[x]] + SumFunctionOnSet(f, Im(T))
    BY <2>1, <2>2, <2>3, SumAdd
  <2>6. g[x] = f[m[x]] /\ SumFunctionOnSet(g, T) = SumFunctionOnSet(f, Im(T))
    BY <1>2
  <2>7. SumFunctionOnSet(g, T \union {x}) = SumFunctionOnSet(f, Im(T \union {x}))
    BY <2>2, <2>4, <2>5, <2>6, Zenon
  <2> QED
    BY <2>7
<1>3. S \in Good
  <2> HIDE DEF Good
  <2> QED
    BY <1>1, <1>2, SetInduction
<1> QED
  BY <1>3

(* If each value is at most that of an element it is exchanged with, the   *)
(* sum is at most what it was.                                             *)
LEMMA SumExchange ==
    ASSUME NEW S, IsFiniteSet(S), NEW m \in [S -> S], \A x \in S : m[m[x]] = x,
           NEW f, NEW g, IntOn(f, S), IntOn(g, S), \A x \in S : f[x] <= g[m[x]]
    PROVE  SumFunctionOnSet(f, S) <= SumFunctionOnSet(g, S)
<1> DEFINE h == [x \in S |-> g[m[x]]]
<1>1. IntOn(h, S) /\ \A x \in S : h[x] = g[m[x]]
  BY DEF IntOn
<1>2. \A x \in S : f[x] <= h[x]
  OBVIOUS
<1>3. \A x, y \in S : m[x] = m[y] => x = y
  OBVIOUS
<1>4. {m[x] : x \in S} = S
  OBVIOUS
<1> HIDE DEF h
<1>5. SumFunctionOnSet(h, S) = SumFunctionOnSet(g, {m[x] : x \in S})
  BY <1>1, <1>3, SumImage
<1>6. SumFunctionOnSet(f, S) <= SumFunctionOnSet(h, S)
  BY <1>1, <1>2, SumLeq
<1> QED
  BY <1>4, <1>5, <1>6

=============================================================================
