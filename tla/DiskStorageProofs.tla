-------------------------- MODULE DiskStorageProofs --------------------------
(***************************************************************************)
(* What holds of the spill directory for any number of calls and groups    *)
(* and however clock and counter advance: the types, and that no two files *)
(* share a name.                                                           *)
(*                                                                         *)
(* The argument: an id is the sum of two numbers that never decrease, and  *)
(* the counter grows whenever an id is taken.  So every id there is lies   *)
(* below the present sum, and a new one is not among them.                 *)
(***************************************************************************)
EXTENDS DiskStorage, TLAPS

\* an operation, given the files written, the ids returned and the next id
OpGood(op, con, ret, sum) ==
    /\ OpOK(op, ret)
    /\ op.kind = "spill" => \A n \in DOMAIN op.offs : op.offs[n] \in DOMAIN con
    /\ \A id \in TakenIds(op) : id < sum /\ id \notin DOMAIN con

ContentOK(con, sum) ==
    /\ DOMAIN con \in SUBSET (Nat \ {0})
    /\ con \in [DOMAIN con -> [group : Groups, size : Nat]]
    /\ \A id \in DOMAIN con : id < sum

Disjoint(os) ==
    \A t \in Tasks : \A s \in Tasks \ {t} : TakenIds(os[t]) \intersect TakenIds(os[s]) = {}

OpsGood(os, con, ret, sum) ==
    /\ DOMAIN os = Tasks
    /\ \A t \in Tasks : OpGood(os[t], con, ret, sum)
    /\ Disjoint(os)

PlaceOK ==
    /\ path \in {"absent", "directory", "file"} /\ initialized \in BOOLEAN
    /\ dir \in SUBSET (Nat \ {0})

IndInv ==
    /\ PlaceOK
    /\ clock \in Nat \ {0} /\ counter \in Nat
    /\ ContentOK(content, clock + counter)
    /\ OpsGood(ops, content, returned, clock + counter)
    /\ returned \in SUBSET DOMAIN content

-----------------------------------------------------------------------------
(* One task goes on to a good operation that takes no id of another's.     *)
(* (every step of a call)                                                  *)
LEMMA OpsUpdate ==
    ASSUME NEW os, NEW con, NEW ret, NEW sum, NEW t \in Tasks, NEW op,
           OpsGood(os, con, ret, sum), OpGood(op, con, ret, sum),
           \A s \in Tasks \ {t} : TakenIds(op) \intersect TakenIds(os[s]) = {}
    PROVE  OpsGood([os EXCEPT ![t] = op], con, ret, sum)
<1>1. DOMAIN os = Tasks /\ \A s \in Tasks :
         [os EXCEPT ![t] = op][s] = IF s = t THEN op ELSE os[s]
  BY DEF OpsGood
<1>2. Disjoint(os) /\ \A s \in Tasks : OpGood(os[s], con, ret, sum)
  BY DEF OpsGood
<1>3. Disjoint([os EXCEPT ![t] = op])
  BY <1>1, <1>2 DEF Disjoint
<1> QED
  BY <1>1, <1>2, <1>3 DEF OpsGood

(* The same for an operation that takes no id at all.  *)
LEMMA OpsUpdateFree ==
    ASSUME NEW os, NEW con, NEW ret, NEW sum, NEW t \in Tasks, NEW op,
           OpsGood(os, con, ret, sum), OpGood(op, con, ret, sum), TakenIds(op) = {}
    PROVE  OpsGood([os EXCEPT ![t] = op], con, ret, sum)
BY OpsUpdate

(* Idle and init() are good.  *)
LEMMA SimpleGood ==
    ASSUME NEW con, NEW ret, NEW sum, NEW op \in {Idle, InitOp}
    PROVE  OpGood(op, con, ret, sum) /\ TakenIds(op) = {}
BY DEF OpGood, OpOK, TakenIds, Idle, InitOp

(* Good operations stay good when time passes, when others take numbers    *)
(* and when more ids are returned.  (steady_clock, counter, spill_batch)   *)
LEMMA OpsGrow ==
    ASSUME NEW os, NEW con, NEW ret, NEW ret2, NEW sum \in Nat, NEW sum2 \in Nat,
           OpsGood(os, con, ret, sum), sum <= sum2, ret \subseteq ret2
    PROVE  OpsGood(os, con, ret2, sum2)
<1>1. ASSUME NEW t \in Tasks
      PROVE  OpGood(os[t], con, ret2, sum2)
  <2>1. OpGood(os[t], con, ret, sum)
    BY DEF OpsGood
  <2>2. OpOK(os[t], ret2)
    <3>1. Seq(ret) \subseteq Seq(ret2)
      OBVIOUS
    <3> QED
      BY <2>1, <3>1 DEF OpGood, OpOK
  <2>3. \A id \in TakenIds(os[t]) : id \in Nat
    BY <2>1 DEF OpGood, OpOK, TakenIds, Idle, InitOp, SpillOp, LoadOp
  <2>4. \A id \in TakenIds(os[t]) : id < sum2
    BY <2>1, <2>3 DEF OpGood
  <2> QED
    BY <2>1, <2>2, <2>4 DEF OpGood
<1> QED
  BY <1>1 DEF OpsGood

(* What is known of a pending spill.  *)
LEMMA SpillShape ==
    ASSUME IndInv, NEW t \in Tasks, ops[t].kind = "spill"
    PROVE  /\ ops[t] = SpillOp(ops[t].rest, ops[t].offs, ops[t].id, ops[t].opened)
           /\ ops[t].rest \in Seq(Groups) /\ ops[t].offs \in Seq(Nat \ {0})
           /\ ops[t].id \in Nat /\ ops[t].opened \in BOOLEAN
           /\ ops[t].id # 0 => ops[t].rest # <<>>
           /\ ops[t].opened => ops[t].id # 0
           /\ \A n \in DOMAIN ops[t].offs : ops[t].offs[n] \in DOMAIN content
           /\ ops[t].id # 0 => /\ ops[t].id < clock + counter
                               /\ ops[t].id \notin DOMAIN content
<1>1. OpOK(ops[t], returned) /\ OpGood(ops[t], content, returned, clock + counter)
  BY DEF IndInv, OpsGood, OpGood
<1> QED
  BY <1>1 DEF OpOK, OpGood, TakenIds, Idle, InitOp, SpillOp, LoadOp

(* What is known of a pending load.  *)
LEMMA LoadShape ==
    ASSUME IndInv, NEW t \in Tasks, ops[t].kind = "load"
    PROVE  /\ ops[t] = LoadOp(ops[t].offsets, ops[t].results, ops[t].opened)
           /\ ops[t].offsets \in Seq(returned) /\ ops[t].results \in Seq(Groups)
           /\ Len(ops[t].results) <= Len(ops[t].offsets)
<1>1. OpOK(ops[t], returned)
  BY DEF IndInv, OpsGood, OpGood
<1> QED
  BY <1>1 DEF OpOK, Idle, InitOp, SpillOp, LoadOp

(* A step of a call that changes no file, number or answer keeps the       *)
(* invariant if the operation it goes on to is good.                       *)
LEMMA StepInv ==
    ASSUME IndInv, PlaceOK', OpsGood(ops', content, returned, clock + counter),
           UNCHANGED <<content, clock, counter, returned>>
    PROVE  IndInv'
BY DEF IndInv

-----------------------------------------------------------------------------
(* Spilling *)

(* A batch starts with no id.  (spill_batch) *)
LEMMA SpillBatchInv ==
    ASSUME IndInv, NEW t \in Tasks, NEW gs \in Seq(Groups), spill_batch(t, gs)
    PROVE  IndInv'
<1>1. /\ ops' = [ops EXCEPT ![t] = SpillOp(gs, <<>>, 0, FALSE)]
      /\ UNCHANGED <<path, initialized, dir, content, clock, counter, returned>>
  BY DEF spill_batch, Pending
<1>2. /\ OpGood(SpillOp(gs, <<>>, 0, FALSE), content, returned, clock + counter)
      /\ TakenIds(SpillOp(gs, <<>>, 0, FALSE)) = {}
  BY DEF OpGood, OpOK, TakenIds, SpillOp
<1>3. OpsGood(ops', content, returned, clock + counter)
  BY <1>1, <1>2, OpsUpdateFree DEF IndInv
<1> QED
  BY <1>1, <1>3, StepInv DEF IndInv, PlaceOK

(* The id a spill takes is new.  (spill) *)
LEMMA SpillIdInv ==
    ASSUME IndInv, NEW t \in Tasks, SpillId(t)
    PROVE  IndInv'
<1> DEFINE id == clock + counter
           next == [ops[t] EXCEPT !.id = id]
<1>1. /\ ops[t].kind = "spill" /\ ops[t].rest # <<>> /\ ops[t].id = 0
      /\ counter' = counter + 1 /\ ops' = [ops EXCEPT ![t] = next]
      /\ UNCHANGED <<path, initialized, dir, content, clock, returned>>
  BY DEF SpillId, Pending
<1>2. /\ id \in Nat \ {0} /\ id + 1 \in Nat /\ clock' + counter' = id + 1
      /\ id < id + 1 /\ id <= id + 1 /\ counter' \in Nat
  BY <1>1 DEF IndInv
<1>3. ContentOK(content, id) /\ OpsGood(ops, content, returned, id)
  BY DEF IndInv
<1>4. next = SpillOp(ops[t].rest, ops[t].offs, id, ops[t].opened)
      /\ ~ops[t].opened
  <2>1. ops[t] = SpillOp(ops[t].rest, ops[t].offs, ops[t].id, ops[t].opened)
        /\ ~ops[t].opened
    BY <1>1, SpillShape
  <2> QED
    BY <2>1 DEF SpillOp
<1> HIDE DEF id, next
<1>5. id \notin DOMAIN content
  BY <1>2, <1>3 DEF ContentOK
<1>6. OpGood(next, content, returned, id + 1)
  BY <1>1, <1>2, <1>4, <1>5, SpillShape DEF OpGood, OpOK, TakenIds, SpillOp
<1>7. \A s \in Tasks : TakenIds(next) \intersect TakenIds(ops[s]) = {}
  <2>1. TakenIds(next) \subseteq {id}
    BY <1>4 DEF TakenIds, SpillOp
  <2>2. \A s \in Tasks : id \notin TakenIds(ops[s])
    BY <1>2, <1>3 DEF OpsGood, OpGood
  <2> QED
    BY <2>1, <2>2
<1>8. OpsGood(ops, content, returned, id + 1)
  BY <1>2, <1>3, OpsGrow
<1>9. OpsGood(ops', content, returned, id + 1)
  BY <1>1, <1>6, <1>7, <1>8, OpsUpdate
<1>10. ContentOK(content, id + 1)
  BY <1>2, <1>3 DEF ContentOK
<1> QED
  BY <1>1, <1>2, <1>9, <1>10 DEF IndInv, PlaceOK

(* Creating or truncating the file takes nothing from the files there are, *)
(* for its id is not one of theirs.  (spill)                               *)
LEMMA SpillOpenInv ==
    ASSUME IndInv, NEW t \in Tasks, SpillOpen(t)
    PROVE  IndInv'
<1> DEFINE next == SpillOp(ops[t].rest, ops[t].offs, ops[t].id, TRUE)
<1>1. /\ ops[t].kind = "spill" /\ ops[t].id # 0
      /\ dir' = dir \union {ops[t].id}
      /\ content' = [x \in DOMAIN content \ {ops[t].id} |-> content[x]]
      /\ ops' = [ops EXCEPT ![t] = next]
      /\ UNCHANGED <<path, initialized, clock, counter, returned>>
  BY DEF SpillOpen, Pending
<1>2. content' = content
  BY <1>1, SpillShape DEF IndInv, ContentOK
<1>3. next = SpillOp(ops[t].rest, ops[t].offs, ops[t].id, TRUE)
  OBVIOUS
<1> HIDE DEF next
<1>4. OpGood(next, content, returned, clock + counter)
  BY <1>1, <1>3, SpillShape DEF OpGood, OpOK, TakenIds, SpillOp
<1>5. \A s \in Tasks \ {t} : TakenIds(next) \intersect TakenIds(ops[s]) = {}
  <2>1. TakenIds(next) = TakenIds(ops[t])
    BY <1>1, <1>3 DEF TakenIds, SpillOp
  <2> QED
    BY <2>1 DEF IndInv, OpsGood, Disjoint
<1>6. OpsGood(ops', content, returned, clock + counter)
  BY <1>1, <1>4, <1>5, OpsUpdate DEF IndInv
<1>7. PlaceOK'
  BY <1>1, SpillShape DEF IndInv, PlaceOK
<1> QED
  BY <1>1, <1>2, <1>6, <1>7, StepInv

(* A file that has been written takes its id away from the pending ones.   *)
(* (spill)                                                                 *)
LEMMA SpillWriteInv ==
    ASSUME IndInv, NEW t \in Tasks, SpillWrite(t)
    PROVE  IndInv'
<1> DEFINE id == ops[t].id
           g == Head(ops[t].rest)
           next == SpillOp(Tail(ops[t].rest), Append(ops[t].offs, id), 0, FALSE)
           sum == clock + counter
<1>1. PICK blocks \in Written(g) :
        /\ content' = [x \in DOMAIN content \union {id} |->
             IF x = id THEN [group |-> g, size |-> blocks * Align] ELSE content[x]]
        /\ ops' = [ops EXCEPT ![t] = next]
  BY DEF SpillWrite, Pending
<1>2. /\ ops[t].kind = "spill" /\ ops[t].opened
      /\ UNCHANGED <<path, initialized, dir, clock, counter, returned>>
  BY DEF SpillWrite
<1>3. /\ id \in Nat \ {0} /\ id < sum /\ id \notin DOMAIN content
      /\ ops[t].rest \in Seq(Groups) /\ ops[t].rest # <<>>
      /\ ops[t].offs \in Seq(Nat \ {0})
      /\ \A n \in DOMAIN ops[t].offs : ops[t].offs[n] \in DOMAIN content
  BY <1>2, SpillShape
<1>4. g \in Groups /\ Tail(ops[t].rest) \in Seq(Groups)
  BY <1>3
<1>5. blocks * Align \in Nat
  <2>1. aligned_blocks(g) \in Nat
    <3>1. HeaderBytes + SizeOf(g) + Align - 1 \in Nat /\ Align \in Nat \ {0}
      BY <1>4, SizeAssumption, BlockAssumption
    <3> QED
      BY <3>1 DEF aligned_blocks
  <2>2. blocks \in Nat
    BY <2>1 DEF Written
  <2> QED
    BY <2>2, BlockAssumption
<1>6. ContentOK(content', sum)
  BY <1>1, <1>3, <1>4, <1>5 DEF IndInv, ContentOK
<1>7. OpGood(next, content', returned, sum) /\ TakenIds(next) = {}
  <2>1. Append(ops[t].offs, id) \in Seq(Nat \ {0})
    BY <1>3
  <2>2. \A n \in DOMAIN Append(ops[t].offs, id) :
          Append(ops[t].offs, id)[n] \in DOMAIN content \union {id}
    BY <1>3
  <2>3. DOMAIN content' = DOMAIN content \union {id}
    BY <1>1
  <2> QED
    BY <1>4, <2>1, <2>2, <2>3 DEF OpGood, OpOK, TakenIds, SpillOp
<1>8. OpsGood(ops', content', returned, sum)
  <2>1. DOMAIN ops = Tasks /\ Disjoint(ops)
        /\ \A s \in Tasks : OpGood(ops[s], content, returned, sum)
    BY DEF IndInv, OpsGood
  <2>2. TakenIds(ops[t]) = {id}
    BY <1>2, <1>3 DEF TakenIds
  <2>3. ASSUME NEW s \in Tasks \ {t}
        PROVE  OpGood(ops[s], content', returned, sum)
    <3>1. id \notin TakenIds(ops[s])
      BY <2>1, <2>2 DEF Disjoint
    <3>2. DOMAIN content' = DOMAIN content \union {id}
      BY <1>1
    <3>3. OpGood(ops[s], content, returned, sum)
      BY <2>1
    <3> QED
      BY <3>1, <3>2, <3>3 DEF OpGood
  <2> HIDE DEF next
  <2>4. \A s \in Tasks : ops'[s] = IF s = t THEN next ELSE ops[s]
    BY <1>1, <2>1
  <2>5. Disjoint(ops')
    BY <1>7, <2>1, <2>4 DEF Disjoint
  <2>6. DOMAIN ops' = Tasks
    BY <1>1, <2>1
  <2> QED
    BY <1>7, <2>3, <2>4, <2>5, <2>6 DEF OpsGood
<1>9. returned \in SUBSET DOMAIN content'
  BY <1>1 DEF IndInv
<1> QED
  BY <1>2, <1>6, <1>8, <1>9 DEF IndInv, PlaceOK

(* Only ids of written files are returned.  (spill_batch) *)
LEMMA SpillDoneInv ==
    ASSUME IndInv, NEW t \in Tasks, SpillDone(t)
    PROVE  IndInv'
<1> DEFINE ret == returned \union ToSet(ops[t].offs)
           sum == clock + counter
<1>1. /\ ops[t].kind = "spill" /\ returned' = ret /\ ops' = [ops EXCEPT ![t] = Idle]
      /\ UNCHANGED <<path, initialized, dir, content, clock, counter>>
  BY DEF SpillDone, Returns, Pending
<1>2. ret \in SUBSET DOMAIN content
  BY <1>1, SpillShape DEF IndInv, ToSet
<1>3. OpsGood(ops, content, ret, sum)
  <2>1. sum \in Nat /\ sum <= sum /\ returned \subseteq ret
    BY DEF IndInv
  <2> HIDE DEF ret, sum
  <2>2. OpsGood(ops, content, returned, sum)
    BY DEF IndInv, sum
  <2> QED
    BY <2>1, <2>2, OpsGrow
<1> HIDE DEF ret
<1>4. OpsGood(ops', content, ret, sum)
  BY <1>1, <1>3, SimpleGood, OpsUpdateFree
<1> QED
  BY <1>1, <1>2, <1>4 DEF IndInv, PlaceOK

-----------------------------------------------------------------------------
(* Loading, removing and the rest *)

(* A batch to load is made of returned ids.  (load_batch) *)
LEMMA LoadBatchInv ==
    ASSUME IndInv, NEW t \in Tasks, NEW offsets \in Seq(returned), load_batch(t, offsets)
    PROVE  IndInv'
<1> DEFINE next == LoadOp(offsets, <<>>, FALSE)
<1>1. /\ ops' = [ops EXCEPT ![t] = next]
      /\ UNCHANGED <<path, initialized, dir, content, clock, counter, returned>>
  BY DEF load_batch, Pending
<1>2. OpGood(next, content, returned, clock + counter) /\ TakenIds(next) = {}
  BY DEF OpGood, OpOK, TakenIds, LoadOp
<1> HIDE DEF next
<1>3. OpsGood(ops', content, returned, clock + counter)
  BY <1>1, <1>2, OpsUpdateFree DEF IndInv
<1> QED
  BY <1>1, <1>3, StepInv DEF IndInv, PlaceOK

(* Opening a file to load changes only the call.  (load) *)
LEMMA LoadOpenInv ==
    ASSUME IndInv, NEW t \in Tasks, LoadOpen(t)
    PROVE  IndInv'
<1> DEFINE next == LoadOp(ops[t].offsets, ops[t].results, TRUE)
<1>1. /\ ops[t].kind = "load" /\ ops' = [ops EXCEPT ![t] = next]
      /\ UNCHANGED <<path, initialized, dir, content, clock, counter, returned>>
  BY DEF LoadOpen, Loading, Pending
<1>2. next = LoadOp(ops[t].offsets, ops[t].results, TRUE)
  OBVIOUS
<1> HIDE DEF next
<1>3. OpGood(next, content, returned, clock + counter) /\ TakenIds(next) = {}
  BY <1>1, <1>2, LoadShape DEF OpGood, OpOK, TakenIds, LoadOp
<1>4. OpsGood(ops', content, returned, clock + counter)
  BY <1>1, <1>3, OpsUpdateFree DEF IndInv
<1> QED
  BY <1>1, <1>4, StepInv DEF IndInv, PlaceOK

(* A group that has been read is a group.  (load) *)
LEMMA LoadReadInv ==
    ASSUME IndInv, NEW t \in Tasks, LoadRead(t)
    PROVE  IndInv'
<1> DEFINE g == content[Wanted(t)].group
           more == Append(ops[t].results, g)
           next == LoadOp(ops[t].offsets, more, FALSE)
<1>1. /\ ops[t].kind = "load" /\ Len(ops[t].results) < Len(ops[t].offsets)
      /\ Wanted(t) \in DOMAIN content /\ ops' = [ops EXCEPT ![t] = next]
      /\ UNCHANGED <<path, initialized, dir, content, clock, counter, returned>>
  BY DEF LoadRead, Loading, Pending, Whole
<1>2. g \in Groups
  BY <1>1 DEF IndInv, ContentOK
<1> HIDE DEF g
<1>3. more \in Seq(Groups) /\ Len(more) <= Len(ops[t].offsets)
  <2>1. ops[t].results \in Seq(Groups) /\ ops[t].offsets \in Seq(returned)
    BY <1>1, LoadShape
  <2>2. more \in Seq(Groups) /\ Len(more) = Len(ops[t].results) + 1
    BY <1>2, <2>1
  <2>3. Len(ops[t].results) \in Nat /\ Len(ops[t].offsets) \in Nat
    BY <2>1
  <2> QED
    BY <1>1, <2>2, <2>3
<1> HIDE DEF more
<1>4. OpGood(next, content, returned, clock + counter) /\ TakenIds(next) = {}
  BY <1>1, <1>3, LoadShape DEF OpGood, OpOK, TakenIds, LoadOp
<1> HIDE DEF next
<1>5. OpsGood(ops', content, returned, clock + counter)
  BY <1>1, <1>4, OpsUpdateFree DEF IndInv
<1> QED
  BY <1>1, <1>5, StepInv DEF IndInv, PlaceOK

(* A call that fails or returns, or starts init(), keeps the invariant.  *)
LEMMA SimpleInv ==
    ASSUME IndInv, NEW t \in Tasks, NEW op \in {Idle, InitOp},
           ops' = [ops EXCEPT ![t] = op], PlaceOK',
           UNCHANGED <<content, clock, counter, returned>>
    PROVE  IndInv'
<1>1. OpsGood(ops', content, returned, clock + counter)
  BY SimpleGood, OpsUpdateFree DEF IndInv
<1> QED
  BY <1>1, StepInv

(* Time and other cores only raise the sum.  *)
LEMMA TimeInv ==
    ASSUME IndInv, Tick \/ OtherCore
    PROVE  IndInv'
<1>1. /\ clock \in Nat \ {0} /\ counter \in Nat
      /\ clock' \in Nat \ {0} /\ counter' \in Nat
      /\ clock + counter <= clock' + counter'
      /\ clock + counter \in Nat /\ clock' + counter' \in Nat
  BY DEF IndInv, Tick, OtherCore
<1>2. UNCHANGED <<path, initialized, dir, content, ops, returned>>
  BY DEF Tick, OtherCore
<1>3. OpsGood(ops, content, returned, clock' + counter')
  BY <1>1, OpsGrow DEF IndInv
<1>4. ContentOK(content, clock' + counter')
  BY <1>1 DEF IndInv, ContentOK
<1> QED
  BY <1>1, <1>2, <1>3, <1>4 DEF IndInv, PlaceOK

(* The directory starts consistent.  (the constructor) *)
LEMMA InitInv == Init => IndInv
<1> SUFFICES ASSUME Init PROVE IndInv
  OBVIOUS
<1>1. clock \in Nat \ {0} /\ counter = 0
  BY ClockAssumption DEF Init
<1>2. PlaceOK
  <2>1. Boot \in Nat \ {0} /\ Boot + 1 \in Nat \ {0}
    BY ClockAssumption
  <2>2. dir \in SUBSET {Boot, Boot + 1}
    BY DEF Init
  <2>3. path \in {"absent", "directory", "file"} /\ initialized = FALSE
    BY DEF Init
  <2> QED
    BY <2>1, <2>2, <2>3 DEF PlaceOK
<1>3. ContentOK(content, clock + counter) /\ returned \in SUBSET DOMAIN content
  BY DEF Init, ContentOK
<1>4. OpsGood(ops, content, returned, clock + counter)
  BY SimpleGood DEF Init, OpsGood, Disjoint
<1> QED
  BY <1>1, <1>2, <1>3, <1>4 DEF IndInv

(* A continuation keeps the invariant.  (every step of a call) *)
LEMMA ContinueInv ==
    ASSUME IndInv, NEW t \in Tasks, Continue(t)
    PROVE  IndInv'
<1>1. CASE MakeDirectory(t)
  <2>1. PlaceOK' /\ UNCHANGED <<content, clock, counter, returned>>
    BY <1>1 DEF MakeDirectory, IndInv, PlaceOK
  <2>2. CASE ops' = ops
    BY <2>1, <2>2, StepInv DEF IndInv
  <2>3. CASE ops' = [ops EXCEPT ![t] = Idle]
    BY <2>1, <2>3, SimpleInv
  <2> QED
    BY <1>1, <2>2, <2>3 DEF MakeDirectory, Returns, Pending
<1>2. CASE InitDone(t)
  BY <1>2, SimpleInv DEF InitDone, Returns, Pending, IndInv, PlaceOK
<1>3. CASE SpillFails(t)
  BY <1>3, SimpleInv DEF SpillFails, Returns, Pending, IndInv, PlaceOK
<1>4. CASE LoadFails(t)
  BY <1>4, SimpleInv DEF LoadFails, Returns, Pending, IndInv, PlaceOK
<1>5. CASE LoadDone(t)
  BY <1>5, SimpleInv DEF LoadDone, Returns, Pending, IndInv, PlaceOK
<1> QED
  BY <1>1, <1>2, <1>3, <1>4, <1>5, SpillIdInv, SpillOpenInv, SpillWriteInv,
     SpillDoneInv, LoadOpenInv, LoadReadInv DEF Continue

(* A call keeps the invariant.  *)
LEMMA RequestInv ==
    ASSUME IndInv, Request
    PROVE  IndInv'
<1>1. ASSUME NEW t \in Tasks, init(t) PROVE IndInv'
  BY <1>1, SimpleInv DEF init, Pending, IndInv, PlaceOK
<1>2. ASSUME NEW t \in Tasks, NEW n \in 1 .. MaxBatch, NEW gs \in [1 .. n -> Groups],
             spill_batch(t, gs)
      PROVE  IndInv'
  <2>1. gs \in Seq(Groups)
    OBVIOUS
  <2> QED
    BY <1>2, <2>1, SpillBatchInv
<1>3. ASSUME NEW t \in Tasks, NEW n \in 1 .. MaxBatch,
             NEW offsets \in Injection(1 .. n, returned), load_batch(t, offsets)
      PROVE  IndInv'
  <2>1. offsets \in Seq(returned)
    BY DEF Injection
  <2> QED
    BY <1>3, <2>1, LoadBatchInv
<1>4. ASSUME NEW id, remove(id) PROVE IndInv'
  BY <1>4, StepInv DEF remove, IndInv, PlaceOK
<1>5. CASE shutdown
  BY <1>5, StepInv DEF shutdown, IndInv, PlaceOK
<1> QED
  BY <1>1, <1>2, <1>3, <1>4, <1>5 DEF Request

-----------------------------------------------------------------------------
(* IndInv holds of every behaviour of the directory.  *)
THEOREM Inductive == Spec => []IndInv
<1>1. IndInv /\ UNCHANGED vars => IndInv'
  BY DEF IndInv, PlaceOK, vars
<1>2. IndInv /\ [Next]_vars => IndInv'
  BY <1>1, RequestInv, ContinueInv, TimeInv DEF Next
<1> QED
  BY InitInv, <1>2, PTL DEF Spec

(* Every variable has its type, and every id is positive.  (DiskStorage) *)
THEOREM Types == Spec => []TypeOK
<1>1. IndInv => TypeOK
  BY DEF IndInv, PlaceOK, ContentOK, OpsGood, OpGood, TypeOK
<1> QED
  BY Inductive, <1>1, PTL

(* The id a spill takes is no other file's, for any number of concurrent   *)
(* spills, however slowly the clock runs and however many numbers other    *)
(* cores take in between.  (spill: "timestamp + counter")                  *)
THEOREM Unique == Spec => []UniqueIds
<1>1. IndInv => UniqueIds
  BY DEF IndInv, OpsGood, OpGood, Disjoint, UniqueIds
<1> QED
  BY Inductive, <1>1, PTL

-----------------------------------------------------------------------------
(* The refinement of SpillStore *)

\* what an operation has read and what it has open, given the contents
ReadOf(op, con) ==
    IF op.kind # "load" THEN {}
    ELSE {<<op.offsets[k], op.results[k]>> : k \in DOMAIN op.results}
           \union IF op.opened
                  THEN LET id == op.offsets[Len(op.results) + 1]
                       IN  {<<id, con[id].group>>}
                  ELSE {}

Files == [id \in dir \intersect DOMAIN content |-> content[id].group]
Loaded == [t \in Tasks |-> Read(t)]

\* a file that is being written is in the directory, and a file that is open
\* to be read is one that is still wanted
OpenGood(op, d) ==
    /\ op.kind = "spill" /\ op.opened => op.id \in d
    /\ op.kind = "load" /\ op.opened => Len(op.results) < Len(op.offsets)

OpenInv == \A t \in Tasks : OpenGood(ops[t], dir)

(* Read looks at the operation and the contents only.  *)
LEMMA ReadIs ==
    ASSUME NEW t \in Tasks
    PROVE  Read(t) = ReadOf(ops[t], content) /\ Read(t)' = ReadOf(ops'[t], content')
BY DEF Read, ReadOf, Wanted

(* An operation that is good goes on to one that is, the others stay, and  *)
(* the directory grows.                                                    *)
LEMMA OpenUpdate ==
    ASSUME IndInv, OpenInv, NEW t \in Tasks, NEW op, ops' = [ops EXCEPT ![t] = op],
           dir \subseteq dir', OpenGood(op, dir')
    PROVE  OpenInv'
<1>1. \A s \in Tasks : ops'[s] = IF s = t THEN op ELSE ops[s]
  BY DEF IndInv, OpsGood
<1> QED
  BY <1>1 DEF OpenInv, OpenGood

(* Idle operations, and those that have just begun, have nothing open.  *)
LEMMA ShutGood ==
    ASSUME NEW d
    PROVE  /\ OpenGood(Idle, d) /\ OpenGood(InitOp, d)
           /\ \A rest, offs, id : OpenGood(SpillOp(rest, offs, id, FALSE), d)
           /\ \A offsets, results : OpenGood(LoadOp(offsets, results, FALSE), d)
           /\ \A op : ~op.opened => OpenGood(op, d)
BY DEF OpenGood, Idle, InitOp, SpillOp, LoadOp

(* Opening and closing.  (spill, load, remove) *)
LEMMA OpenNext ==
    ASSUME IndInv, OpenInv, Next
    PROVE  OpenInv'
<1>1. ASSUME NEW t \in Tasks, MakeDirectory(t) PROVE OpenInv'
  BY <1>1, ShutGood, OpenUpdate DEF MakeDirectory, Returns, Pending, OpenInv
<1>2. ASSUME NEW t \in Tasks,
             InitDone(t) \/ SpillFails(t) \/ SpillDone(t) \/ LoadFails(t) \/ LoadDone(t)
      PROVE  OpenInv'
  <2>1. ops' = [ops EXCEPT ![t] = Idle] /\ dir' = dir
    BY <1>2 DEF InitDone, SpillFails, SpillDone, LoadFails, LoadDone, Returns, Pending
  <2> QED
    BY <2>1, ShutGood, OpenUpdate
<1>3. ASSUME NEW t \in Tasks, SpillId(t) PROVE OpenInv'
  <2>1. ops' = [ops EXCEPT ![t] = [ops[t] EXCEPT !.id = clock + counter]] /\ dir' = dir
        /\ ops[t].kind = "spill" /\ ops[t].id = 0
    BY <1>3 DEF SpillId, Pending
  <2>2. OpenGood([ops[t] EXCEPT !.id = clock + counter], dir)
    <3>1. ops[t] = SpillOp(ops[t].rest, ops[t].offs, ops[t].id, ops[t].opened) /\ ~ops[t].opened
      BY <2>1, SpillShape
    <3>2. ~[ops[t] EXCEPT !.id = clock + counter].opened
      BY <3>1 DEF SpillOp
    <3> QED
      BY <3>2, ShutGood
  <2> QED
    BY <2>1, <2>2, OpenUpdate
<1>4. ASSUME NEW t \in Tasks, SpillOpen(t) PROVE OpenInv'
  <2> DEFINE op == SpillOp(ops[t].rest, ops[t].offs, ops[t].id, TRUE)
  <2>1. ops' = [ops EXCEPT ![t] = op] /\ dir' = dir \union {ops[t].id}
    BY <1>4 DEF SpillOpen, Pending
  <2>2. OpenGood(op, dir')
    BY <2>1 DEF OpenGood, SpillOp
  <2> QED
    BY <2>1, <2>2, OpenUpdate
<1>5. ASSUME NEW t \in Tasks, SpillWrite(t) PROVE OpenInv'
  <2>1. ops' = [ops EXCEPT ![t] =
          SpillOp(Tail(ops[t].rest), Append(ops[t].offs, ops[t].id), 0, FALSE)] /\ dir' = dir
    BY <1>5 DEF SpillWrite, Pending
  <2> QED
    BY <2>1, ShutGood, OpenUpdate
<1>6. ASSUME NEW t \in Tasks, LoadOpen(t) PROVE OpenInv'
  <2> DEFINE op == LoadOp(ops[t].offsets, ops[t].results, TRUE)
  <2>1. ops' = [ops EXCEPT ![t] = op] /\ dir' = dir
        /\ Len(ops[t].results) < Len(ops[t].offsets)
    BY <1>6 DEF LoadOpen, Loading, Pending
  <2>2. OpenGood(op, dir')
    BY <2>1 DEF OpenGood, LoadOp
  <2> QED
    BY <2>1, <2>2, OpenUpdate
<1>7. ASSUME NEW t \in Tasks, LoadRead(t) PROVE OpenInv'
  <2>1. ops' = [ops EXCEPT ![t] = LoadOp(ops[t].offsets,
                  Append(ops[t].results, content[Wanted(t)].group), FALSE)] /\ dir' = dir
    BY <1>7 DEF LoadRead, Pending
  <2> QED
    BY <2>1, ShutGood, OpenUpdate
<1>8. ASSUME NEW t \in Tasks, init(t) PROVE OpenInv'
  <2>1. ops' = [ops EXCEPT ![t] = InitOp] /\ dir' = dir
    BY <1>8 DEF init, Pending
  <2> QED
    BY <2>1, ShutGood, OpenUpdate
<1>9. ASSUME NEW t \in Tasks, NEW gs, spill_batch(t, gs) PROVE OpenInv'
  <2>1. ops' = [ops EXCEPT ![t] = SpillOp(gs, <<>>, 0, FALSE)] /\ dir' = dir
    BY <1>9 DEF spill_batch, Pending
  <2> QED
    BY <2>1, ShutGood, OpenUpdate
<1>10. ASSUME NEW t \in Tasks, NEW offsets, load_batch(t, offsets) PROVE OpenInv'
  <2>1. ops' = [ops EXCEPT ![t] = LoadOp(offsets, <<>>, FALSE)] /\ dir' = dir
    BY <1>10 DEF load_batch, Pending
  <2> QED
    BY <2>1, ShutGood, OpenUpdate
<1>11. ASSUME NEW id \in returned, remove(id) PROVE OpenInv'
  <2>1. id \in DOMAIN content /\ dir' = dir \ {id} /\ ops' = ops
    BY <1>11 DEF remove, IndInv
  <2>2. \A t \in Tasks : ops[t].kind = "spill" /\ ops[t].opened => ops[t].id # id
    BY <2>1, SpillShape
  <2> QED
    BY <2>1, <2>2 DEF OpenInv, OpenGood
<1>12. CASE shutdown \/ Tick \/ OtherCore
  BY <1>12 DEF shutdown, Tick, OtherCore, OpenInv, OpenGood
<1> QED
  BY <1>1, <1>2, <1>3, <1>4, <1>5, <1>6, <1>7, <1>8, <1>9, <1>10, <1>11, <1>12
     DEF Next, Request, Continue

(* A step that leaves files, ids and answers alone is a stutter.  *)
StoreStutters == Files' = Files /\ (DOMAIN content)' = DOMAIN content /\ Loaded' = Loaded

(* An operation that is replaced by one that has read the same changes no  *)
(* answer, if contents are only added.                                     *)
LEMMA LoadedSame ==
    ASSUME IndInv, OpenInv, NEW t \in Tasks, NEW op, ops' = [ops EXCEPT ![t] = op],
           \A id \in DOMAIN content : id \in DOMAIN content' /\ content'[id] = content[id]
    PROVE  /\ ReadOf(op, content') = ReadOf(ops[t], content) => Loaded' = Loaded
           /\ \A r : ReadOf(op, content') = r => Loaded' = [Loaded EXCEPT ![t] = r]
<1>1. \A s \in Tasks : ops'[s] = IF s = t THEN op ELSE ops[s]
  BY DEF IndInv, OpsGood
<1>2. ASSUME NEW s \in Tasks PROVE ReadOf(ops[s], content') = ReadOf(ops[s], content)
  <2>1. CASE ops[s].kind = "load" /\ ops[s].opened
    <3>1. Len(ops[s].results) + 1 \in DOMAIN ops[s].offsets /\ ops[s].offsets \in Seq(returned)
      BY <2>1, LoadShape DEF OpenInv, OpenGood
    <3>2. ops[s].offsets[Len(ops[s].results) + 1] \in DOMAIN content
      BY <3>1 DEF IndInv
    <3> QED
      BY <3>2 DEF ReadOf
  <2> QED
    BY <2>1 DEF ReadOf
<1>3. \A s \in Tasks : Read(s)' = IF s = t THEN ReadOf(op, content') ELSE Read(s)
  BY <1>1, <1>2, ReadIs
<1>4. Loaded' = [s \in Tasks |-> IF s = t THEN ReadOf(op, content') ELSE Read(s)]
  BY <1>3 DEF Loaded
<1>5. Read(t) = ReadOf(ops[t], content)
  BY ReadIs
<1> QED
  BY <1>4, <1>5 DEF Loaded

(* Nothing has been read by an operation that does not load, or has just   *)
(* begun to.                                                               *)
LEMMA NothingRead ==
    ASSUME NEW con
    PROVE  /\ \A op : op.kind # "load" => ReadOf(op, con) = {}
           /\ \A offsets : ReadOf(LoadOp(offsets, <<>>, FALSE), con) = {}
BY DEF ReadOf, LoadOp

(* Steps of a call that read and keep nothing.  *)
LEMMA QuietSteps ==
    ASSUME IndInv, OpenInv, NEW t \in Tasks, NEW op, ops' = [ops EXCEPT ![t] = op],
           Files' = Files, content' = content, ops[t].kind # "load",
           ReadOf(op, content) = {}
    PROVE  StoreStutters
<1>1. ReadOf(op, content') = ReadOf(ops[t], content)
  BY NothingRead
<1>2. Loaded' = Loaded
  BY <1>1, LoadedSame
<1> QED
  BY <1>2 DEF StoreStutters

(* A new file is a group kept under a fresh id.  (spill) *)
LEMMA WriteKeeps ==
    ASSUME IndInv, OpenInv, NEW t \in Tasks, SpillWrite(t)
    PROVE  \E id \in DOMAIN content' : Store!Keep(id)
<1>0. PICK id : id = ops[t].id
  OBVIOUS
<1> DEFINE g == Head(ops[t].rest)
           op == SpillOp(Tail(ops[t].rest), Append(ops[t].offs, id), 0, FALSE)
<1>1. PICK blocks \in Written(g) :
        /\ content' = [x \in DOMAIN content \union {id} |->
             IF x = id THEN [group |-> g, size |-> blocks * Align] ELSE content[x]]
        /\ ops' = [ops EXCEPT ![t] = op]
  BY <1>0 DEF SpillWrite, Pending
<1>2. ops[t].kind = "spill" /\ ops[t].opened /\ dir' = dir
  BY DEF SpillWrite
<1>3. id \notin DOMAIN content /\ id \in dir /\ g \in Groups
  <2>1. ops[t].rest \in Seq(Groups) /\ ops[t].rest # <<>> /\ id \notin DOMAIN content
    BY <1>0, <1>2, SpillShape
  <2> QED
    BY <1>2, <2>1, <1>0 DEF OpenInv, OpenGood
<1>4. Files' = [x \in (dir \intersect DOMAIN content) \union {id} |->
                  IF x = id THEN g ELSE content[x].group]
  <2>1. dir \intersect (DOMAIN content \union {id}) = (dir \intersect DOMAIN content) \union {id}
    BY <1>3
  <2>2. Files' = [x \in dir \intersect (DOMAIN content \union {id}) |-> content'[x].group]
    BY <1>1, <1>2 DEF Files
  <2>3. \A x \in dir \intersect (DOMAIN content \union {id}) :
           content'[x].group = IF x = id THEN g ELSE content[x].group
    BY <1>1
  <2> HIDE DEF g, op
  <2> QED
    BY <2>1, <2>2, <2>3
<1>5. Loaded' = Loaded
  <2>1. ReadOf(op, content') = {} /\ ReadOf(ops[t], content) = {}
    BY <1>2, NothingRead DEF SpillOp
  <2>2. \A x \in DOMAIN content : x \in DOMAIN content' /\ content'[x] = content[x]
    BY <1>1, <1>3
  <2> HIDE DEF op
  <2> QED
    BY <1>1, <2>1, <2>2, LoadedSame
<1>6. DOMAIN content' = DOMAIN content \union {id}
  BY <1>1
<1>7. Store!Keep(id)
  BY <1>3, <1>4, <1>5, <1>6 DEF Store!Keep, Files, Loaded
<1> QED
  BY <1>6, <1>7, Zenon

(* Opening a file is what reads it: its contents stay, whoever unlinks it. *)
(* (load)                                                                  *)
LEMMA OpenLoads ==
    ASSUME IndInv, OpenInv, NEW t \in Tasks, LoadOpen(t)
    PROVE  Wanted(t) \in DOMAIN Files /\ Store!Load(t, Wanted(t))
<1> DEFINE op == LoadOp(ops[t].offsets, ops[t].results, TRUE)
<1>1. /\ ops[t].kind = "load" /\ Len(ops[t].results) < Len(ops[t].offsets)
      /\ ~ops[t].opened /\ Wanted(t) \in dir
      /\ ops' = [ops EXCEPT ![t] = op]
      /\ UNCHANGED <<dir, content>>
  BY DEF LoadOpen, Loading, Pending
<1>2. Wanted(t) \in DOMAIN content
  BY <1>1, LoadShape DEF IndInv, Wanted
<1>3. ReadOf(op, content') = Read(t) \union {<<Wanted(t), content[Wanted(t)].group>>}
  BY <1>1, ReadIs DEF ReadOf, Wanted, LoadOp
<1>4. Loaded' = [Loaded EXCEPT ![t] = Read(t) \union {<<Wanted(t), content[Wanted(t)].group>>}]
  <2> HIDE DEF op
  <2> QED
    BY <1>1, <1>3, LoadedSame
<1>5. Loaded[t] = Read(t) /\ Files[Wanted(t)] = content[Wanted(t)].group
      /\ Wanted(t) \in DOMAIN Files
  BY <1>1, <1>2 DEF Loaded, Files
<1>6. Loaded' = [Loaded EXCEPT ![t] = @ \union {<<Wanted(t), Files[Wanted(t)]>>}]
  BY <1>4, <1>5
<1>7. Files' = Files /\ (DOMAIN content)' = DOMAIN content
  BY <1>1 DEF Files
<1> QED
  BY <1>5, <1>6, <1>7 DEF Store!Load, Files, Loaded

(* Reading what is open adds nothing to it.  (load) *)
LEMMA ReadStutters ==
    ASSUME IndInv, OpenInv, NEW t \in Tasks, LoadRead(t)
    PROVE  StoreStutters
<1> DEFINE g == content[Wanted(t)].group
           more == Append(ops[t].results, g)
           op == LoadOp(ops[t].offsets, more, FALSE)
<1>1. /\ ops[t].kind = "load" /\ ops[t].opened /\ ops' = [ops EXCEPT ![t] = op]
      /\ UNCHANGED <<dir, content>>
  BY DEF LoadRead, Loading, Pending
<1>2. ops[t].results \in Seq(Groups) /\ ops[t].offsets \in Seq(returned)
  BY <1>1, LoadShape
<1>20. g \in Groups
  BY DEF LoadRead, Whole, IndInv, ContentOK
<1> DEFINE n == Len(ops[t].results)
<1>3. /\ DOMAIN more = DOMAIN ops[t].results \union {n + 1} /\ more[n + 1] = g
      /\ \A k \in DOMAIN ops[t].results : more[k] = ops[t].results[k]
  <2> HIDE DEF g
  <2>1. n \in Nat /\ DOMAIN ops[t].results = 1 .. n
    BY <1>2
  <2>2. Len(more) = n + 1 /\ more \in Seq(Groups)
    BY <1>2, <1>20
  <2>3. DOMAIN more = 1 .. (n + 1)
    BY <2>2
  <2>4. 1 .. (n + 1) = (1 .. n) \union {n + 1}
    BY <2>1
  <2>5. more[n + 1] = g /\ \A k \in 1 .. n : more[k] = ops[t].results[k]
    BY <1>2, <1>20, <2>1
  <2> QED
    BY <2>1, <2>3, <2>4, <2>5
<1>4. ReadOf(op, content') = {<<ops[t].offsets[k], more[k]>> : k \in DOMAIN more}
  BY DEF ReadOf, LoadOp
<1>5. ReadOf(ops[t], content) = {<<ops[t].offsets[k], ops[t].results[k]>> :
                                    k \in DOMAIN ops[t].results}
                                  \union {<<ops[t].offsets[n + 1], g>>}
  BY <1>1 DEF ReadOf, Wanted
<1> HIDE DEF more, g, n, op
<1>6. ReadOf(op, content') = ReadOf(ops[t], content)
  BY <1>3, <1>4, <1>5
<1>7. Loaded' = Loaded
  BY <1>1, <1>6, LoadedSame
<1> QED
  BY <1>1, <1>7 DEF StoreStutters, Files

(* A load that ends, either way, gives its answer.  (load_batch) *)
LEMMA LoadAnswers ==
    ASSUME IndInv, OpenInv, NEW t \in Tasks, LoadFails(t) \/ LoadDone(t)
    PROVE  Store!Answer(t)
<1>1. ops' = [ops EXCEPT ![t] = Idle] /\ UNCHANGED <<dir, content>>
  BY DEF LoadFails, LoadDone, Returns, Pending
<1>2. ReadOf(Idle, content') = {}
  BY NothingRead DEF Idle
<1>3. Loaded' = [Loaded EXCEPT ![t] = {}]
  BY <1>1, <1>2, LoadedSame
<1>4. Files' = Files /\ (DOMAIN content)' = DOMAIN content
  BY <1>1 DEF Files
<1> QED
  BY <1>3, <1>4 DEF Store!Answer, Files, Loaded

(* Removing a file takes its id from the store.  (remove) *)
LEMMA RemoveRemoves ==
    ASSUME IndInv, NEW id \in returned, remove(id)
    PROVE  id \in DOMAIN Files /\ Store!Remove(id)
<1>1. /\ id \in dir /\ id \in DOMAIN content /\ dir' = dir \ {id}
      /\ UNCHANGED <<content, ops>>
  BY DEF remove, IndInv
<1>2. Files' = [x \in DOMAIN Files \ {id} |-> Files[x]] /\ id \in DOMAIN Files
  <2>1. (dir \ {id}) \intersect DOMAIN content = (dir \intersect DOMAIN content) \ {id}
    OBVIOUS
  <2>2. Files' = [x \in (dir \ {id}) \intersect DOMAIN content |-> content[x].group]
    BY <1>1 DEF Files
  <2> QED
    BY <1>1, <2>1, <2>2 DEF Files
<1>3. Loaded' = Loaded
  BY <1>1, ReadIs DEF Loaded
<1> QED
  BY <1>1, <1>2, <1>3 DEF Store!Remove, Files, Loaded

(* Every continuation is a step of the store, or no step of it.  *)
LEMMA ContinueImplements ==
    ASSUME IndInv, OpenInv, NEW t \in Tasks, Continue(t)
    PROVE  Store!Next \/ StoreStutters
<1>1. CASE SpillWrite(t)
  <2>1. \E id \in DOMAIN content' : Store!Keep(id)
    BY <1>1, WriteKeeps
  <2> QED
    BY <2>1, Zenon DEF Store!Next
<1>2. CASE LoadOpen(t)
  <2> DEFINE names == DOMAIN [id \in dir \intersect DOMAIN content |-> content[id].group]
  <2>1. Wanted(t) \in names /\ Store!Load(t, Wanted(t))
    BY <1>2, OpenLoads DEF Files
  <2> HIDE DEF names
  <2>2. \E id \in names : Store!Load(t, id)
    BY <2>1, Zenon
  <2>3. \E u \in Tasks : Store!Answer(u) \/ \E id \in names : Store!Load(u, id)
    BY <2>2, Zenon
  <2> QED
    BY <2>3, Zenon DEF Store!Next, names
<1>3. CASE LoadRead(t)
  BY <1>3, ReadStutters
<1>4. CASE LoadFails(t) \/ LoadDone(t)
  BY <1>4, LoadAnswers DEF Store!Next
<1>5. CASE InitDone(t) \/ SpillFails(t) \/ SpillDone(t)
  <2>1. /\ ops' = [ops EXCEPT ![t] = Idle] /\ UNCHANGED <<dir, content>>
        /\ ops[t].kind # "load"
    BY <1>5 DEF InitDone, SpillFails, SpillDone, Returns, Pending, InitOp
  <2>2. ReadOf(Idle, content) = {}
    BY NothingRead DEF Idle
  <2> QED
    BY <2>1, <2>2, QuietSteps DEF Files
<1>6. CASE MakeDirectory(t)
  <2>1. UNCHANGED <<dir, content>> /\ ops[t].kind # "load"
        /\ (ops' = ops \/ ops' = [ops EXCEPT ![t] = Idle])
    BY <1>6 DEF MakeDirectory, Returns, Pending, InitOp
  <2>2. CASE ops' = ops
    BY <2>1, <2>2, ReadIs DEF StoreStutters, Files, Loaded
  <2>3. CASE ops' = [ops EXCEPT ![t] = Idle]
    <3>1. ReadOf(Idle, content) = {}
      BY NothingRead DEF Idle
    <3> QED
      BY <2>1, <2>3, <3>1, QuietSteps DEF Files
  <2> QED
    BY <2>1, <2>2, <2>3
<1>7. CASE SpillId(t)
  <2>1. /\ ops' = [ops EXCEPT ![t] = [ops[t] EXCEPT !.id = clock + counter]]
        /\ UNCHANGED <<dir, content>> /\ ops[t].kind = "spill"
    BY <1>7 DEF SpillId, Pending
  <2>2. [ops[t] EXCEPT !.id = clock + counter].kind = "spill"
    BY <2>1, SpillShape DEF SpillOp
  <2>3. ReadOf([ops[t] EXCEPT !.id = clock + counter], content) = {}
    BY <2>2, NothingRead
  <2> QED
    BY <2>1, <2>3, QuietSteps DEF Files
<1>8. CASE SpillOpen(t)
  <2>1. /\ ops' = [ops EXCEPT ![t] = SpillOp(ops[t].rest, ops[t].offs, ops[t].id, TRUE)]
        /\ ops[t].kind = "spill" /\ ops[t].id # 0 /\ dir' = dir \union {ops[t].id}
        /\ content' = [x \in DOMAIN content \ {ops[t].id} |-> content[x]]
    BY <1>8 DEF SpillOpen, Pending
  <2>2. ops[t].id \notin DOMAIN content
    BY <2>1, SpillShape
  <2>3. content' = content
    BY <2>1, <2>2 DEF IndInv, ContentOK
  <2>4. dir' \intersect DOMAIN content = dir \intersect DOMAIN content
    BY <2>1, <2>2
  <2>5. ReadOf(SpillOp(ops[t].rest, ops[t].offs, ops[t].id, TRUE), content) = {}
    BY NothingRead DEF SpillOp
  <2> QED
    BY <2>1, <2>3, <2>4, <2>5, QuietSteps DEF Files
<1> QED
  BY <1>1, <1>2, <1>3, <1>4, <1>5, <1>6, <1>7, <1>8 DEF Continue

(* So is every call.  *)
LEMMA RequestImplements ==
    ASSUME IndInv, OpenInv, Request
    PROVE  Store!Next \/ StoreStutters
<1>1. ASSUME NEW t \in Tasks, NEW op, ops[t] = Idle, ops' = [ops EXCEPT ![t] = op],
             UNCHANGED <<dir, content>>, ReadOf(op, content) = {}
      PROVE  StoreStutters
  <2>1. Files' = Files
    BY <1>1 DEF Files
  <2>2. ops[t].kind # "load"
    BY <1>1 DEF Idle
  <2> QED
    BY <1>1, <2>1, <2>2, QuietSteps
<1>2. ASSUME NEW t \in Tasks, init(t) PROVE StoreStutters
  <2>1. /\ ops[t] = Idle /\ ops' = [ops EXCEPT ![t] = InitOp]
        /\ UNCHANGED <<dir, content>>
    BY <1>2 DEF init, Pending
  <2>2. ReadOf(InitOp, content) = {}
    BY NothingRead DEF InitOp
  <2> QED
    BY <1>1, <2>1, <2>2
<1>3. ASSUME NEW t \in Tasks, NEW gs, spill_batch(t, gs) PROVE StoreStutters
  <2>1. /\ ops[t] = Idle /\ ops' = [ops EXCEPT ![t] = SpillOp(gs, <<>>, 0, FALSE)]
        /\ UNCHANGED <<dir, content>>
    BY <1>3 DEF spill_batch, Pending
  <2>2. ReadOf(SpillOp(gs, <<>>, 0, FALSE), content) = {}
    BY NothingRead DEF SpillOp
  <2> QED
    BY <1>1, <2>1, <2>2
<1>4. ASSUME NEW t \in Tasks, NEW offsets, load_batch(t, offsets) PROVE StoreStutters
  BY <1>1, <1>4, NothingRead DEF load_batch, Pending
<1>5. ASSUME NEW id \in returned, remove(id) PROVE Store!Next
  BY <1>5, RemoveRemoves DEF Store!Next, Files
<1>6. CASE shutdown
  BY <1>6, ReadIs DEF shutdown, StoreStutters, Files, Loaded
<1> QED
  BY <1>2, <1>3, <1>4, <1>5, <1>6 DEF Request

(* The directory is a store with fresh ids: whatever calls interleave,     *)
(* a load gets under each id the group that was spilled under it.          *)
(* (DiskStorage)                                                           *)
THEOREM Implements == Spec => ImplementsSpillStore
<1>1. Init => OpenInv
  BY ShutGood DEF Init, OpenInv
<1>2. IndInv /\ OpenInv /\ [Next]_vars => OpenInv'
  BY OpenNext DEF vars, OpenInv, OpenGood
<1>3. Init => Store!Init
  <2> SUFFICES ASSUME Init PROVE Store!Init
    OBVIOUS
  <2>1. DOMAIN content = {} /\ \A t \in Tasks : Read(t) = {}
    BY DEF Init, Read, Idle
  <2> QED
    BY <2>1 DEF Store!Init
<1>4. IndInv /\ OpenInv /\ [Next]_vars => [Store!Next]_<<Files, DOMAIN content, Loaded>>
  <2>1. ASSUME IndInv, OpenInv, UNCHANGED vars PROVE StoreStutters
    BY <2>1, ReadIs DEF vars, StoreStutters, Files, Loaded
  <2>2. ASSUME IndInv, OpenInv, Tick \/ OtherCore PROVE StoreStutters
    BY <2>2, ReadIs DEF Tick, OtherCore, StoreStutters, Files, Loaded
  <2>3. StoreStutters => UNCHANGED <<Files, DOMAIN content, Loaded>>
    BY DEF StoreStutters
  <2> QED
    BY <2>1, <2>2, <2>3, ContinueImplements, RequestImplements DEF Next
<1>5. IndInv /\ OpenInv /\ [Next]_vars =>
        [Store!Next]_<<[id \in dir \intersect DOMAIN content |-> content[id].group],
                       DOMAIN content, [t \in Tasks |-> Read(t)]>>
  BY <1>4 DEF Files, Loaded
<1> QED
  BY Inductive, <1>1, <1>2, <1>3, <1>5, PTL DEF Spec, ImplementsSpillStore, Store!Spec
=============================================================================
