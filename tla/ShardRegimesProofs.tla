------------------------- MODULE ShardRegimesProofs --------------------------
(***************************************************************************)
(* What the disciplines of ShardRegimes buy, for every number of           *)
(* instances, uids and tasks.                                              *)
(*                                                                         *)
(* IndInv of BufferShardProofs says that offsets never lead to a group of  *)
(* another instance; it cannot say that they lead to any group at all, for *)
(* without a discipline they need not.  OrderInv does: every group that no *)
(* read has claimed is where its entry says, in memory or in a file that   *)
(* nobody is removing, and what spills have copied and reads have loaded   *)
(* is that same group.  Only a failing read that holds groups, or the end  *)
(* of the process, breaks it.  From it follow what a process can die of,   *)
(* and that the shard is a ShardQueue.  StatInv adds up what the gauges    *)
(* should show, and ReadersInv what readers may still be handed: a         *)
(* trajectory is never on its way to two of them.                          *)
(***************************************************************************)
EXTENDS ShardRegimes, BufferShardProofs, SumProofs

\* a read is not made to fail, and no vector of trajectories is written: after
\* either, groups are lost or the process dies (see CrashCausesAlone), and neither
\* the queue nor the statistics are what they were
ReliableReads == Batches = {} /\ IoFaults \intersect {"load", "remove"} = {}

\* the serial discipline and that of the writers in one
OrderlyNext ==
    \/ Continuing
    \/ Unlinking
    \/ Quiet /\ Request
    \/ /\ Kinds \subseteq {"idle", "spill"}
       /\ \E t \in Tasks, i \in Instances, u \in Uids :
            ops[t] = Idle /\ Collecting(i) /\ Write(t, i, u)

\* calls are pending one at a time, except that spills overlap
Calm(os) ==
    \A s, t \in Tasks : s # t =>
        \/ os[s] = Idle \/ os[t] = Idle
        \/ os[s].kind = "spill" /\ os[t].kind = "spill"

Reads(op) == op.kind \in {"load", "unlink"}

\* the instances whose entries a pending read has claimed
Claimed(os) == UNION {os[t].ids : t \in {s \in Tasks : Reads(os[s])}}

\* entry e has its group in memory, or in a file that nobody is removing
InPlace(e, fs, un) == e.group_ptr = NoGroup => e.disk_offset \in DOMAIN fs \ un

\* the group that entry e stands for
Stands(e, fs) == IF e.group_ptr # NoGroup THEN e.group_ptr
                 ELSE IF e.disk_offset \in DOMAIN fs THEN fs[e.disk_offset]
                 ELSE NoGroup

\* what pending call op has captured is still so
OpHolds(op, gs, fs, un) ==
    /\ op.kind = "spill" =>
         /\ \A k \in DOMAIN op.snaps :
              /\ k \in DOMAIN gs /\ InPlace(gs[k], fs, un)
              /\ Stands(gs[k], fs) = op.snaps[k]
         /\ \A k \in DOMAIN op.offs :
              op.offs[k] \in DOMAIN fs \ un /\ fs[op.offs[k]] = op.snaps[k]
    /\ op.kind = "load" =>
         /\ op.ids \subseteq DOMAIN gs
         /\ DOMAIN op.result \intersect DOMAIN op.offsets = {}
         /\ \A i \in DOMAIN op.offsets :
              /\ gs[i].group_ptr = NoGroup /\ gs[i].disk_offset = op.offsets[i]
              /\ op.offsets[i] \in DOMAIN fs \ un
         /\ \A i \in DOMAIN op.loaded :
              i \in DOMAIN op.offsets /\ op.loaded[i] = fs[op.offsets[i]]
    /\ op.kind = "unlink" =>
         /\ op.ids \subseteq DOMAIN gs
         /\ op.rest \subseteq DOMAIN fs \ un
         /\ \A i \in DOMAIN gs \ op.ids : gs[i].disk_offset \notin op.rest
    /\ op.kind = "reset" => DOMAIN gs = {}

Holds4(os, gs, fs, un) == \A t \in Tasks : OpHolds(os[t], gs, fs, un)

Placed(os, gs, fs, un) == \A i \in DOMAIN gs \ Claimed(os) : InPlace(gs[i], fs, un)

OrderInv ==
    /\ ~crashed
    /\ Calm(ops)
    /\ Holds4(ops, groups, files, unlinking)
    /\ Placed(ops, groups, files, unlinking)

-----------------------------------------------------------------------------
(* The abstract queue *)

InReadOf(os, i) == {os[t].result[i] : t \in {s \in Tasks :
                       Reads(os[s]) /\ i \in DOMAIN os[s].result}}

GroupIn(os, gs, fs, i) ==
    IF InReadOf(os, i) # {} THEN CHOOSE g \in InReadOf(os, i) : TRUE
    ELSE Stands(gs[i], fs)

\* the counts that the queue keeps
tallies == <<out, total_trajectories, gone>>

\* the groups of the queue
Held(os, gs, fs) == [i \in DOMAIN gs |-> GroupIn(os, gs, fs, i)]

\* those groups when a read holds result
HeldBy(result, gs, fs) ==
    [i \in DOMAIN gs |-> IF i \in DOMAIN result THEN result[i] ELSE Stands(gs[i], fs)]

(* The queue counts as the shard does: what GroupQueue takes from the      *)
(* library modules is what the shard takes from them.                      *)
LEMMA QueueCounts ==
    /\ \A S : Queue!Cardinality(S) = Cardinality(S)
    /\ \A f : Queue!SumFunction(f) = SumFunction(f)
<1>1. \A S : Queue!Cardinality(S) = Cardinality(S)
  BY Zenon DEF Queue!Cardinality, Cardinality
<1>2. \A f : Queue!SumFunction(f) = SumFunction(f)
  BY Zenon DEF Queue!SumFunction, SumFunction, Queue!SumFunctionOnSet, SumFunctionOnSet,
               FoldFunctionOnSet, Queue!FoldFunctionOnSet, MapThenFoldSet,
               Queue!MapThenFoldSet
<1> QED
  BY <1>1, <1>2

(* The groups of the queue, before and after a step, in terms of the state. *)
LEMMA HeldIs ==
    /\ [i \in DOMAIN groups |-> GroupOf(i)] = Held(ops, groups, files)
    /\ [i \in DOMAIN groups |-> GroupOf(i)]' = Held(ops', groups', files')
BY DEF Held, GroupIn, InReadOf, GroupOf, InRead, Stands, Reads

(* Who is not idle excludes the others.  *)
LEMMA OthersIdle ==
    ASSUME NEW os, Calm(os), NEW t \in Tasks, os[t] # Idle
    PROVE  /\ os[t].kind # "spill" => \A s \in Tasks \ {t} : os[s] = Idle
           /\ \A s \in Tasks \ {t} : os[s] = Idle \/ os[s].kind = "spill"
BY DEF Calm

(* A step of one call keeps the discipline.  (Pending) *)
LEMMA CalmUpdate ==
    ASSUME NEW os, Calm(os), DOMAIN os = Tasks, NEW t \in Tasks, NEW op,
           \/ op = Idle
           \/ \A s \in Tasks \ {t} : os[s] = Idle
           \/ op.kind = "spill" /\ \A s \in Tasks \ {t} : os[s] = Idle \/ os[s].kind = "spill"
    PROVE  Calm([os EXCEPT ![t] = op])
<1>1. \A s \in Tasks : [os EXCEPT ![t] = op][s] = IF s = t THEN op ELSE os[s]
  OBVIOUS
<1> QED
  BY <1>1 DEF Calm

(* Where nobody reads nothing is claimed, and each entry stands for its    *)
(* own group.                                                              *)
LEMMA NoReader ==
    ASSUME NEW os, \A s \in Tasks : ~Reads(os[s])
    PROVE  /\ Claimed(os) = {}
           /\ \A gs, fs : Held(os, gs, fs) = [i \in DOMAIN gs |-> Stands(gs[i], fs)]
<1>1. Claimed(os) = {}
  BY DEF Claimed
<1>2. \A i : InReadOf(os, i) = {}
  BY DEF InReadOf
<1> QED
  BY <1>1, <1>2 DEF Held, GroupIn

(* Where task t reads, the entries it has claimed are claimed, and what it *)
(* holds is what they stand for.                                           *)
LEMMA OneReader ==
    ASSUME NEW os, Calm(os), NEW t \in Tasks, Reads(os[t])
    PROVE  /\ Claimed(os) = os[t].ids
           /\ \A gs, fs : Held(os, gs, fs) = HeldBy(os[t].result, gs, fs)
<1>1. \A s \in Tasks : Reads(os[s]) <=> s = t
  BY DEF Calm, Reads, Idle
<1>2. Claimed(os) = os[t].ids
  <2>1. {s \in Tasks : Reads(os[s])} = {t}
    BY <1>1
  <2> QED
    BY <2>1 DEF Claimed
<1>3. \A i : InReadOf(os, i) = IF i \in DOMAIN os[t].result THEN {os[t].result[i]} ELSE {}
  BY <1>1 DEF InReadOf
<1>4. ASSUME NEW gs, NEW fs, NEW i
      PROVE  GroupIn(os, gs, fs, i) = IF i \in DOMAIN os[t].result THEN os[t].result[i]
                                      ELSE Stands(gs[i], fs)
  <2>1. CASE i \in DOMAIN os[t].result
    <3>1. InReadOf(os, i) = {os[t].result[i]}
      BY <1>3, <2>1
    <3> QED
      BY <2>1, <3>1 DEF GroupIn
  <2>2. CASE i \notin DOMAIN os[t].result
    <3>1. InReadOf(os, i) = {}
      BY <1>3, <2>2
    <3> QED
      BY <2>2, <3>1 DEF GroupIn
  <2> QED
    BY <2>1, <2>2
<1> QED
  BY <1>2, <1>4 DEF Held, HeldBy

\* files that nobody is removing stay
Grows(fs, un, fs2, un2) ==
    \A o \in DOMAIN fs \ un : o \in DOMAIN fs2 \ un2 /\ fs2[o] = fs[o]

(* Entries stand for the same group as long as their files stay.  *)
LEMMA PlaceGrows ==
    ASSUME NEW e, NEW fs, NEW un, NEW fs2, NEW un2, Grows(fs, un, fs2, un2),
           InPlace(e, fs, un)
    PROVE  InPlace(e, fs2, un2) /\ Stands(e, fs2) = Stands(e, fs)
BY DEF Grows, InPlace, Stands

(* What a pending call has captured stays so as long as the files stay.    *)
(* (SpillFile, Unlink)                                                     *)
LEMMA HoldsGrows ==
    ASSUME NEW op, NEW gs, NEW fs, NEW un, NEW fs2, NEW un2, Grows(fs, un, fs2, un2),
           OpHolds(op, gs, fs, un)
    PROVE  OpHolds(op, gs, fs2, un2)
<1>1. CASE op.kind = "spill"
  <2>1. \A k \in DOMAIN op.snaps : /\ k \in DOMAIN gs /\ InPlace(gs[k], fs2, un2)
                                   /\ Stands(gs[k], fs2) = op.snaps[k]
    BY <1>1, PlaceGrows DEF OpHolds
  <2>2. \A k \in DOMAIN op.offs : op.offs[k] \in DOMAIN fs2 \ un2 /\ fs2[op.offs[k]] = op.snaps[k]
    BY <1>1 DEF OpHolds, Grows
  <2> QED
    BY <1>1, <2>1, <2>2 DEF OpHolds
<1>2. CASE op.kind # "spill"
  BY <1>2 DEF OpHolds, Grows
<1> QED
  BY <1>1, <1>2

(* An idle task has captured nothing.  *)
LEMMA IdleHolds == ASSUME NEW gs, NEW fs, NEW un PROVE OpHolds(Idle, gs, fs, un)
BY DEF OpHolds, Idle

(* Nor has a batch of trajectories still to be written.  (batch_write) *)
LEMMA BatchHolds ==
    ASSUME NEW op, op.kind = "batch", NEW gs, NEW fs, NEW un
    PROVE  OpHolds(op, gs, fs, un)
BY DEF OpHolds

(* One call goes on, the others stay where they are.  *)
LEMMA HoldsUpdate ==
    ASSUME NEW os, DOMAIN os = Tasks, NEW t \in Tasks, NEW op, NEW gs, NEW fs, NEW un,
           OpHolds(op, gs, fs, un),
           \A s \in Tasks \ {t} : OpHolds(os[s], gs, fs, un)
    PROVE  Holds4([os EXCEPT ![t] = op], gs, fs, un)
<1>1. \A s \in Tasks : [os EXCEPT ![t] = op][s] = IF s = t THEN op ELSE os[s]
  OBVIOUS
<1> QED
  BY <1>1 DEF Holds4

\* nobody reads or resets
WritesOnly(os) == \A s \in Tasks : os[s] = Idle \/ os[s].kind \in {"spill", "batch"}

(* While nobody reads, every entry has its group.  *)
LEMMA AllInPlace ==
    ASSUME OrderInv, WritesOnly(ops)
    PROVE  /\ \A s \in Tasks : ~Reads(ops[s])
           /\ \A i \in DOMAIN groups : InPlace(groups[i], files, unlinking)
           /\ Held(ops, groups, files) = [i \in DOMAIN groups |-> Stands(groups[i], files)]
<1>1. \A s \in Tasks : ~Reads(ops[s])
  BY DEF WritesOnly, Reads, Idle
<1> QED
  BY <1>1, NoReader DEF OrderInv, Placed

(* A state without readers keeps the discipline.  *)
LEMMA SpillsOrder ==
    ASSUME WritesOnly(ops'), Calm(ops'), ~crashed', Holds4(ops', groups', files', unlinking'),
           \A i \in DOMAIN groups' : InPlace(groups'[i], files', unlinking')
    PROVE  /\ OrderInv'
           /\ Held(ops', groups', files') = [i \in DOMAIN groups' |-> Stands(groups'[i], files')]
<1>1. \A s \in Tasks : ~Reads(ops'[s])
  BY DEF WritesOnly, Reads, Idle
<1> QED
  BY <1>1, NoReader DEF OrderInv, Placed

\* the queue does not see it
HeldStays == Held(ops', groups', files') = Held(ops, groups, files) /\ UNCHANGED tallies

(* A write that goes on leaves its task among those that only write.       *)
LEMMA WritesUpdate ==
    ASSUME NEW os, DOMAIN os = Tasks, Calm(os), WritesOnly(os), NEW t \in Tasks, NEW op,
           \/ op = Idle
           \/ op.kind = "spill" /\ \A s \in Tasks \ {t} : os[s] = Idle \/ os[s].kind = "spill"
           \/ op.kind = "batch" /\ \A s \in Tasks \ {t} : os[s] = Idle
    PROVE  WritesOnly([os EXCEPT ![t] = op]) /\ Calm([os EXCEPT ![t] = op])
<1>1. \A s \in Tasks : [os EXCEPT ![t] = op][s] = IF s = t THEN op ELSE os[s]
  OBVIOUS
<1>2. WritesOnly([os EXCEPT ![t] = op])
  BY <1>1 DEF WritesOnly
<1> QED
  BY <1>2, CalmUpdate

-----------------------------------------------------------------------------
(* Writing *)

\* task t may write to instance i: the others at most spill, other groups
MayWrite(t, i) ==
    /\ ops[t] = Idle \/ ops[t].kind = "batch"
    /\ \A s \in Tasks \ {t} : ops[s] = Idle \/ ops[s].kind = "spill"
    /\ Collecting(i) \/ \A s \in Tasks : ops[s].kind # "spill"

(* Such a task finds every entry with its group.  (write, batch_write)     *)
LEMMA MayWriteAlone ==
    ASSUME OrderInv, NEW t \in Tasks, NEW i, MayWrite(t, i)
    PROVE  /\ WritesOnly(ops)
           /\ ops[t].kind = "batch" => \A s \in Tasks \ {t} : ops[s] = Idle
<1>1. WritesOnly(ops)
  BY DEF WritesOnly, MayWrite
<1>2. ops[t].kind = "batch" => ops[t] # Idle
  BY DEF Idle
<1> QED
  BY <1>1, <1>2 DEF OrderInv, Calm

(* No pending spill has copied a group that is written to.  (write) *)
LEMMA NotCopied ==
    ASSUME IndInv, OrderInv, NEW t \in Tasks, NEW i \in Instances, MayWrite(t, i),
           NEW s \in Tasks, ops[s].kind = "spill"
    PROVE  i \notin DOMAIN ops[s].snaps
<1> SUFFICES ASSUME i \in DOMAIN ops[s].snaps PROVE FALSE
  OBVIOUS
<1>2. i \notin Ready
  BY DEF MayWrite, Collecting
<1>3. /\ i \in DOMAIN groups /\ Stands(groups[i], files) = ops[s].snaps[i]
      /\ InPlace(groups[i], files, unlinking)
  BY DEF OrderInv, Holds4, OpHolds
<1>4. ops[s].snaps[i].is_complete
  BY SpillShape DEF ReadyFor
<1>5. IsComplete(groups[i])
  BY <1>3, <1>4 DEF IsComplete, Stands
<1> QED
  BY <1>2, <1>3, <1>5 DEF Ready

\* the group that a write to instance i extends, and what it makes of it
Growing(i) ==
    IF EntryOf(i).group_ptr # NoGroup THEN EntryOf(i).group_ptr
    ELSE [instance_id |-> i, trajectories |-> <<>>,
          group_size |-> config.group_size, is_complete |-> FALSE]

Grown(g, u) ==
    [g EXCEPT !.trajectories = Append(g.trajectories, u),
              !.is_complete = @ \/ Len(Append(g.trajectories, u)) >= g.group_size]

(* A write appends one trajectory to a group in memory.  (write) *)
LEMMA AppendedGroup ==
    ASSUME IndInv, NEW i \in Instances, NEW u \in Uids
    PROVE  /\ Appended(i, u) = [EntryOf(i) EXCEPT !.group_ptr = Grown(Growing(i), u)]
           /\ EntryOf(i) \in Entry /\ Growing(i) \in Group
           /\ Grown(Growing(i), u) \in Group
           /\ Appended(i, u).group_ptr = Grown(Growing(i), u)
           /\ Size(Grown(Growing(i), u)) = Size(Growing(i)) + 1
<1>1. EntryOf(i) \in Entry
  BY DEF EntryOf, NewEntry, Entry, IndInv, GroupsGood, Partial
<1>2. Growing(i) \in Group
  <2>1. config.group_size \in Nat
    BY ConfigAssumption DEF IndInv, SettingsOK
  <2> QED
    BY <1>1, <2>1 DEF Growing, Entry, Group
<1>3. Appended(i, u) = [EntryOf(i) EXCEPT !.group_ptr = Grown(Growing(i), u)]
  BY DEF Appended, Grown, Growing
<1>4. ASSUME NEW g \in Group
      PROVE  Grown(g, u) \in Group /\ Size(Grown(g, u)) = Size(g) + 1
  <2>1. g.trajectories \in Seq(Uids)
    BY DEF Group
  <2>2. /\ Append(g.trajectories, u) \in Seq(Uids)
        /\ Len(Append(g.trajectories, u)) = Len(g.trajectories) + 1
    BY <2>1
  <2> QED
    BY <2>2 DEF Grown, Group, Size
<1>5. [EntryOf(i) EXCEPT !.group_ptr = Grown(Growing(i), u)].group_ptr = Grown(Growing(i), u)
  BY <1>1 DEF Entry
<1> QED
  BY <1>1, <1>2, <1>3, <1>4, <1>5

(* Storing a trajectory gives an entry a group in memory and disturbs no   *)
(* pending spill.  (write)                                                 *)
LEMMA StoresHolds ==
    ASSUME IndInv, OrderInv, NEW t \in Tasks, NEW i \in Instances, NEW u \in Uids,
           MayWrite(t, i), Stores(t, i, u)
    PROVE  /\ \A s \in Tasks : OpHolds(ops[s], groups', files, unlinking)
           /\ \A j \in DOMAIN groups' : InPlace(groups'[j], files, unlinking)
           /\ groups' = Put(groups, i, Appended(i, u))
           /\ Appended(i, u).group_ptr \in Group
           /\ UNCHANGED <<files, unlinking, out, gone, last_id>>
<1>1. /\ groups' = Put(groups, i, Appended(i, u)) /\ ~IsOnDisk(EntryOf(i))
      /\ UNCHANGED <<files, unlinking, out, gone, last_id>>
  BY DEF Stores, disk
<1>2. /\ Appended(i, u) \in Entry /\ EntryGood(Appended(i, u), i, files, last_id)
  BY <1>1, AppendedGood
<1>3. Appended(i, u).group_ptr \in Group
  BY AppendedGroup
<1>4. ASSUME NEW j \in DOMAIN groups' PROVE InPlace(groups'[j], files, unlinking)
  <2>1. j # i => j \in DOMAIN groups /\ groups'[j] = groups[j]
    BY <1>1 DEF Put
  <2>2. j = i => groups'[j] = Appended(i, u)
    BY <1>1 DEF Put
  <2>3. Appended(i, u).group_ptr # NoGroup
    BY <1>3, NoGroupAssumption
  <2> QED
    BY <2>1, <2>2, <2>3, MayWriteAlone, AllInPlace DEF InPlace
<1>5. ASSUME NEW s \in Tasks PROVE OpHolds(ops[s], groups', files, unlinking)
  <2>1. CASE ops[s] = Idle
    BY <2>1, IdleHolds
  <2>2. CASE ops[s].kind = "spill"
    <3>1. i \notin DOMAIN ops[s].snaps
      BY <2>2, NotCopied
    <3>2. \A j \in DOMAIN groups \ {i} : j \in DOMAIN groups' /\ groups'[j] = groups[j]
      BY <1>1 DEF Put
    <3>3. OpHolds(ops[s], groups, files, unlinking)
      BY DEF OrderInv, Holds4
    <3> QED
      BY <2>2, <3>1, <3>2, <3>3 DEF OpHolds
  <2>3. CASE ops[s].kind = "batch"
    BY <2>3, BatchHolds
  <2> QED
    BY <2>1, <2>2, <2>3, MayWriteAlone DEF WritesOnly
<1> QED
  BY <1>1, <1>3, <1>4, <1>5

\* the queue has collected u for instance i
Collects(i, u) ==
    LET h == Held(ops, groups, files)
        g == IF i \in DOMAIN h THEN h[i]
             ELSE [instance_id |-> i, trajectories |-> <<>>,
                   group_size |-> config.group_size, is_complete |-> FALSE]
    IN  /\ Len(Append(g.trajectories, u)) = Len(g.trajectories) + 1
        /\ Held(ops', groups', files') = Put(h, i, Grown(g, u))
        /\ total_trajectories' = [total_trajectories EXCEPT ![i] = @ + 1]
        /\ UNCHANGED <<out, gone>>

(* A write that stores a trajectory is what the queue calls collecting it. *)
(* (write)                                                                 *)
LEMMA StoresOrder ==
    ASSUME IndInv, OrderInv, NEW t \in Tasks, NEW i \in Instances, NEW u \in Uids,
           MayWrite(t, i), Stores(t, i, u), NEW op, ops' = [ops EXCEPT ![t] = op],
           \/ op = Idle \/ op.kind = "spill"
           \/ op.kind = "batch" /\ ops[t].kind = "batch",
           OpHolds(op, groups', files, unlinking), UNCHANGED crashed
    PROVE  OrderInv' /\ Collects(i, u)
<1>1. /\ \A s \in Tasks : OpHolds(ops[s], groups', files, unlinking)
      /\ \A j \in DOMAIN groups' : InPlace(groups'[j], files, unlinking)
      /\ groups' = Put(groups, i, Appended(i, u))
      /\ Appended(i, u).group_ptr \in Group
      /\ UNCHANGED <<files, unlinking, out, gone, last_id>>
  BY StoresHolds
<1>2. DOMAIN ops = Tasks /\ ~IsOnDisk(EntryOf(i))
  BY DEF IndInv, OpsGood, Stores
<1>3. Holds4(ops', groups', files', unlinking')
  BY <1>1, <1>2, HoldsUpdate
<1>4. WritesOnly(ops') /\ Calm(ops')
  BY <1>2, MayWriteAlone, WritesUpdate DEF MayWrite, OrderInv
<1>5. /\ OrderInv'
      /\ Held(ops', groups', files') = [j \in DOMAIN groups' |-> Stands(groups'[j], files')]
  BY <1>1, <1>3, <1>4, SpillsOrder DEF OrderInv
<1>6. /\ Held(ops, groups, files) = [j \in DOMAIN groups |-> Stands(groups[j], files)]
      /\ \A j \in DOMAIN groups : InPlace(groups[j], files, unlinking)
  BY MayWriteAlone, AllInPlace
<1>7. Appended(i, u).group_ptr = Grown(Growing(i), u) /\ EntryOf(i) \in Entry
  BY AppendedGroup
<1>8. Stands(groups'[i], files') = Grown(Growing(i), u)
  <2>1. groups'[i] = Appended(i, u)
    BY <1>1 DEF Put
  <2>2. Appended(i, u).group_ptr # NoGroup
    BY <1>1, NoGroupAssumption
  <2> QED
    BY <1>7, <2>1, <2>2 DEF Stands
<1>9. i \in DOMAIN groups => Growing(i) = Stands(groups[i], files)
  <2> SUFFICES ASSUME i \in DOMAIN groups PROVE Growing(i) = Stands(groups[i], files)
    OBVIOUS
  <2>1. EntryOf(i) = groups[i]
    BY DEF EntryOf
  <2>2. groups[i].group_ptr # NoGroup
    <3>1. InPlace(groups[i], files, unlinking) /\ groups[i].disk_offset \in Nat
      BY <1>6, <1>7, <2>1 DEF Entry
    <3>2. 0 \notin DOMAIN files
      BY DEF IndInv, FilesGood, Partial
    <3> QED
      BY <1>2, <2>1, <3>1, <3>2 DEF InPlace, IsOnDisk
  <2> QED
    BY <2>1, <2>2 DEF Growing, Stands
<1>10. i \notin DOMAIN groups =>
         Growing(i) = [instance_id |-> i, trajectories |-> <<>>,
                       group_size |-> config.group_size, is_complete |-> FALSE]
  BY DEF Growing, EntryOf, NewEntry
<1>11. /\ DOMAIN groups' = DOMAIN groups \union {i}
       /\ \A j \in DOMAIN groups \ {i} : Stands(groups'[j], files') = Stands(groups[j], files)
  BY <1>1 DEF Put
<1>12. Held(ops', groups', files') = Put(Held(ops, groups, files), i, Grown(Growing(i), u))
  <2> DEFINE gg == Grown(Growing(i), u)
  <2> HIDE DEF gg
  <2>1. Stands(groups'[i], files') = gg
    BY <1>8 DEF gg
  <2>2. Held(ops', groups', files') = Put(Held(ops, groups, files), i, gg)
    BY <1>5, <1>6, <1>11, <2>1 DEF Put
  <2> QED
    BY <2>2 DEF gg
<1>13. Growing(i) = IF i \in DOMAIN Held(ops, groups, files) THEN Held(ops, groups, files)[i]
                    ELSE [instance_id |-> i, trajectories |-> <<>>,
                          group_size |-> config.group_size, is_complete |-> FALSE]
  BY <1>6, <1>9, <1>10
<1>14. Len(Append(Growing(i).trajectories, u)) = Len(Growing(i).trajectories) + 1
  <2>1. Growing(i).trajectories \in Seq(Uids)
    BY AppendedGroup DEF Group
  <2> QED
    BY <2>1
<1> QED
  BY <1>1, <1>5, <1>12, <1>13, <1>14 DEF Collects, Stores

(* A write that stores nothing is not seen, whether it returns or has more *)
(* to write.  (write, batch_write, SpillFails)                             *)
LEMMA WritesReturn ==
    ASSUME IndInv, OrderInv, WritesOnly(ops), NEW t \in Tasks, NEW op,
           op = Idle \/ (op.kind = "batch" /\ \A s \in Tasks \ {t} : ops[s] = Idle),
           ops' = [ops EXCEPT ![t] = op],
           UNCHANGED <<groups, files, unlinking, crashed, tallies>>
    PROVE  OrderInv' /\ HeldStays
<1>1. DOMAIN ops = Tasks
  BY DEF IndInv, OpsGood
<1>2. WritesOnly(ops') /\ Calm(ops')
  BY <1>1, WritesUpdate DEF OrderInv
<1>3. Holds4(ops', groups', files', unlinking')
  BY <1>1, IdleHolds, BatchHolds, HoldsUpdate DEF OrderInv, Holds4
<1>4. OrderInv'
      /\ Held(ops', groups', files') = [i \in DOMAIN groups |-> Stands(groups[i], files)]
  BY <1>2, <1>3, AllInPlace, SpillsOrder DEF OrderInv
<1> QED
  BY <1>4, AllInPlace DEF HeldStays

\* batch_write has called get() on a future that was not ready
Aborted == crashed /\ \E t \in Tasks : ops[t].kind = "batch"

(* What is left of a call when one of its writes is done.  (batch_write)   *)
LEMMA RestShape ==
    ASSUME NEW t \in Tasks, ops[t] = Idle \/ ops[t].kind = "batch"
    PROVE  Rest(t) = Idle \/ (Rest(t).kind = "batch" /\ ops[t].kind = "batch")
BY DEF Rest, BatchOp

(* Every way a write can go collects its trajectory or is not seen, but    *)
(* for the spill that a batch_write cannot wait for.  (write, batch_write) *)
LEMMA WriteOrder ==
    ASSUME IndInv, OrderInv, NEW t \in Tasks, NEW i \in Instances, NEW u \in Uids,
           MayWrite(t, i), Write(t, i, u)
    PROVE  (OrderInv' /\ (HeldStays \/ Collects(i, u))) \/ Aborted'
<1>1. Rest(t) = Idle \/ (Rest(t).kind = "batch" /\ ops[t].kind = "batch")
  BY RestShape DEF MayWrite
<1>2. CASE WriteDuplicate(t, i, u) \/ WriteOnDisk(t, i, u)
  <2>1. /\ ops' = [ops EXCEPT ![t] = Rest(t)]
        /\ UNCHANGED <<groups, files, unlinking, crashed, tallies>>
    BY <1>2 DEF WriteDuplicate, WriteOnDisk, Pending, disk, hist, stats, tallies
  <2> QED
    BY <1>1, <2>1, MayWriteAlone, WritesReturn
<1>3. CASE WriteInMemory(t, i, u)
  <2>1. Stores(t, i, u) /\ ops' = [ops EXCEPT ![t] = Rest(t)] /\ UNCHANGED crashed
    BY <1>3 DEF WriteInMemory, Pending
  <2>2. OpHolds(Rest(t), groups', files, unlinking)
    BY <1>1, IdleHolds, BatchHolds
  <2> QED
    BY <1>1, <2>1, <2>2, StoresOrder
<1>4. CASE WriteSpills(t, i, u)
  <2>1. Stores(t, i, u) /\ UNCHANGED crashed
    BY <1>4 DEF WriteSpills
  <2>2. PICK K \in ToSpill :
          ops' = [ops EXCEPT ![t] = SpillOp(u, [k \in K |-> groups'[k].group_ptr],
                                            [k \in {} |-> 0])]
    BY <1>4 DEF WriteSpills, Pending
  <2> DEFINE op == SpillOp(u, [k \in K |-> groups'[k].group_ptr], [k \in {} |-> 0])
  <2>3. \A k \in K : k \in DOMAIN groups' /\ groups'[k].group_ptr # NoGroup
    BY <2>2 DEF ToSpill, SpillChoices, Spillable, InMemory
  <2>4. op.kind = "spill" /\ OpHolds(op, groups', files, unlinking)
    BY <2>3 DEF OpHolds, SpillOp, InPlace, Stands
  <2> HIDE DEF op
  <2>5. ops' = [ops EXCEPT ![t] = op]
    BY <2>2 DEF op
  <2> QED
    BY <2>1, <2>4, <2>5, StoresOrder
<1>5. CASE WriteAborts(t, i, u)
  BY <1>5 DEF WriteAborts, Aborted, MayWrite
<1> QED
  BY <1>2, <1>3, <1>4, <1>5 DEF Write

-----------------------------------------------------------------------------
(* The rest of try_spill_groups *)

(* While a spill is pending, nobody reads.  *)
LEMMA SpillExcludes ==
    ASSUME OrderInv, NEW t \in Tasks, ops[t].kind = "spill"
    PROVE  /\ WritesOnly(ops)
           /\ \A s \in Tasks \ {t} : ops[s] = Idle \/ ops[s].kind = "spill"
BY OthersIdle DEF OrderInv, WritesOnly, Idle

(* Writing one file is not seen: its id is new, and it holds the group its *)
(* entry stands for.  (spill_batch)                                        *)
LEMMA SpillFileOrder ==
    ASSUME IndInv, OrderInv, NEW t \in Tasks, NEW k \in Instances, SpillFile(t, k)
    PROVE  OrderInv' /\ HeldStays
<1> DEFINE id == last_id + 1
           offs == Put(ops[t].offs, k, id)
           op == [ops[t] EXCEPT !.offs = offs]
<1>1. /\ ops[t].kind = "spill" /\ k \in DOMAIN ops[t].snaps
      /\ files' = Put(files, id, ops[t].snaps[k]) /\ ops' = [ops EXCEPT ![t] = op]
      /\ UNCHANGED <<groups, unlinking, crashed, tallies>>
  BY DEF SpillFile, Resumes, Pending, hist, stats, tallies
<1>2. id \notin DOMAIN files /\ id \notin unlinking /\ DOMAIN ops = Tasks
  BY DEF IndInv, FilesGood, Partial, OpsGood
<1>3. op = SpillOp(ops[t].uid, ops[t].snaps, offs)
  <2>1. ops[t] = SpillOp(ops[t].uid, ops[t].snaps, ops[t].offs)
    BY <1>1, SpillShape
  <2> QED
    BY <2>1 DEF SpillOp
<1>4. Grows(files, unlinking, files', unlinking) /\ files'[id] = ops[t].snaps[k]
      /\ id \in DOMAIN files'
  BY <1>1, <1>2 DEF Grows, Put
<1>5. \A s \in Tasks : OpHolds(ops[s], groups, files', unlinking)
  BY <1>4, HoldsGrows DEF OrderInv, Holds4
<1> HIDE DEF id
<1>6. OpHolds(op, groups, files', unlinking)
  <2>1. OpHolds(ops[t], groups, files', unlinking)
    BY <1>5
  <2>2. \A j \in DOMAIN offs : offs[j] \in DOMAIN files' \ unlinking
                               /\ files'[offs[j]] = ops[t].snaps[j]
    BY <1>1, <1>2, <1>4, <2>1 DEF OpHolds, Put
  <2> HIDE DEF offs
  <2> QED
    BY <1>1, <1>3, <2>1, <2>2 DEF OpHolds, SpillOp
<1>7. op.kind = "spill"
  BY <1>3 DEF SpillOp
<1> HIDE DEF op
<1>8. WritesOnly(ops') /\ Calm(ops')
  BY <1>1, <1>2, <1>7, SpillExcludes, WritesUpdate DEF OrderInv
<1>12. Holds4(ops', groups', files', unlinking')
  BY <1>1, <1>2, <1>5, <1>6, HoldsUpdate
<1>9. \A i \in DOMAIN groups : /\ InPlace(groups[i], files', unlinking)
                               /\ Stands(groups[i], files') = Stands(groups[i], files)
  BY <1>1, <1>4, SpillExcludes, AllInPlace, PlaceGrows
<1>10. OrderInv'
       /\ Held(ops', groups', files') = [i \in DOMAIN groups |-> Stands(groups[i], files')]
  BY <1>1, <1>8, <1>9, <1>12, SpillsOrder DEF OrderInv
<1>11. Held(ops, groups, files) = [i \in DOMAIN groups |-> Stands(groups[i], files)]
  BY <1>1, SpillExcludes, AllInPlace
<1> QED
  BY <1>1, <1>9, <1>10, <1>11 DEF HeldStays

(* Turning entries into on-disk ones is not seen: each file holds the      *)
(* group its entry stood for, also if another spill has turned it before.  *)
(* (try_spill_groups)                                                      *)
LEMMA SpillDoneOrder ==
    ASSUME IndInv, OrderInv, NEW t \in Tasks, SpillDone(t)
    PROVE  OrderInv' /\ HeldStays
<1> DEFINE spilled == DOMAIN ops[t].offs \intersect DOMAIN groups
<1>1. /\ groups' = [i \in DOMAIN groups |-> IF i \in spilled THEN Spilled(t, i)
                                            ELSE groups[i]]
      /\ ops[t].kind = "spill" /\ ops' = [ops EXCEPT ![t] = Idle]
      /\ DOMAIN ops[t].offs = DOMAIN ops[t].snaps
      /\ UNCHANGED <<files, unlinking, crashed, tallies>>
  BY DEF SpillDone, Resumes, Returns, Pending, disk, tallies
<1>2. OpHolds(ops[t], groups, files, unlinking) /\ WritesOnly(ops) /\ DOMAIN ops = Tasks
  BY <1>1, SpillExcludes DEF OrderInv, Holds4, IndInv, OpsGood
<1>3. ASSUME NEW i \in DOMAIN groups
      PROVE  /\ InPlace(groups'[i], files, unlinking)
             /\ Stands(groups'[i], files) = Stands(groups[i], files)
  <2>1. InPlace(groups[i], files, unlinking)
    BY <1>2, AllInPlace
  <2>2. CASE i \in spilled
    <3>1. /\ ops[t].offs[i] \in DOMAIN files \ unlinking
          /\ files[ops[t].offs[i]] = ops[t].snaps[i]
          /\ Stands(groups[i], files) = ops[t].snaps[i]
      BY <1>1, <1>2, <2>2 DEF OpHolds
    <3>2. groups'[i].group_ptr = NoGroup /\ groups'[i].disk_offset = ops[t].offs[i]
      BY <1>1, <2>2 DEF Spilled
    <3> QED
      BY <3>1, <3>2 DEF InPlace, Stands
  <2>3. CASE i \notin spilled
    BY <1>1, <2>1, <2>3
  <2> QED
    BY <2>2, <2>3
<1> HIDE DEF spilled
<1>4. DOMAIN groups' = DOMAIN groups
  BY <1>1
<1>5. \A s \in Tasks : OpHolds(ops[s], groups', files, unlinking)
  <2>1. ASSUME NEW s \in Tasks, ops[s].kind = "spill"
        PROVE  OpHolds(ops[s], groups', files, unlinking)
    <3>1. OpHolds(ops[s], groups, files, unlinking)
      BY DEF OrderInv, Holds4
    <3> QED
      BY <1>3, <1>4, <2>1, <3>1 DEF OpHolds
  <2> QED
    BY <1>2, <2>1, IdleHolds, BatchHolds DEF WritesOnly
<1>6. WritesOnly(ops') /\ Calm(ops') /\ Holds4(ops', groups', files', unlinking')
  BY <1>1, <1>2, <1>5, IdleHolds, WritesUpdate, HoldsUpdate DEF OrderInv
<1>7. OrderInv'
      /\ Held(ops', groups', files') = [i \in DOMAIN groups' |-> Stands(groups'[i], files')]
  BY <1>1, <1>3, <1>4, <1>6, SpillsOrder DEF OrderInv
<1>8. Held(ops, groups, files) = [i \in DOMAIN groups |-> Stands(groups[i], files)]
  BY <1>2, AllInPlace
<1> QED
  BY <1>1, <1>3, <1>4, <1>7, <1>8 DEF HeldStays

-----------------------------------------------------------------------------
(* read_ready_groups *)

(* While a read or a reset is pending, no other call is.  *)
LEMMA ReadExcludes ==
    ASSUME OrderInv, NEW t \in Tasks, Reads(ops[t]) \/ ops[t].kind = "reset"
    PROVE  \A s \in Tasks \ {t} : ops[s] = Idle
<1>1. ops[t] # Idle /\ ops[t].kind # "spill"
  BY DEF Reads, Idle
<1> QED
  BY <1>1, OthersIdle DEF OrderInv

(* The state in which task t alone is pending, reading.  *)
LEMMA ReadsOrder ==
    ASSUME DOMAIN ops = Tasks, NEW t \in Tasks, \A s \in Tasks \ {t} : ops[s] = Idle,
           NEW op, ops' = [ops EXCEPT ![t] = op], Reads(op), ~crashed',
           OpHolds(op, groups', files', unlinking'),
           \A i \in DOMAIN groups' \ op.ids : InPlace(groups'[i], files', unlinking')
    PROVE  /\ OrderInv'
           /\ Held(ops', groups', files') = HeldBy(op.result, groups', files')
<1>1. ops'[t] = op /\ \A s \in Tasks \ {t} : ops'[s] = Idle
  OBVIOUS
<1>2. Calm(ops')
  BY <1>1 DEF Calm
<1>3. /\ Claimed(ops') = op.ids
      /\ Held(ops', groups', files') = HeldBy(op.result, groups', files')
  <2> DEFINE os == ops'
  <2>1. os[t] = op /\ Reads(os[t]) /\ Calm(os)
    BY <1>1, <1>2
  <2> HIDE DEF os
  <2>2. /\ Claimed(os) = os[t].ids
        /\ \A gs, fs : Held(os, gs, fs) = HeldBy(os[t].result, gs, fs)
    BY <2>1, OneReader
  <2>3. /\ Claimed(os) = op.ids
        /\ Held(os, groups', files') = HeldBy(op.result, groups', files')
    BY <2>1, <2>2
  <2> QED
    BY <2>3 DEF os
<1>4. Holds4(ops', groups', files', unlinking')
  BY <1>1, IdleHolds DEF Holds4
<1> QED
  BY <1>2, <1>3, <1>4 DEF OrderInv, Placed

(* The state in which task t alone is pending, before it goes on.  *)
LEMMA ReadsBefore ==
    ASSUME OrderInv, NEW t \in Tasks, Reads(ops[t])
    PROVE  /\ OpHolds(ops[t], groups, files, unlinking)
           /\ \A i \in DOMAIN groups \ ops[t].ids : InPlace(groups[i], files, unlinking)
           /\ Held(ops, groups, files) = HeldBy(ops[t].result, groups, files)
BY OneReader DEF OrderInv, Holds4, Placed

(* A scan is not seen: what it moves out of memory the read still holds.   *)
(* (read_ready_groups)                                                     *)
LEMMA ReadScanOrder ==
    ASSUME IndInv, OrderInv, NEW t \in Tasks, NEW max, Quiet, ReadScan(t, max)
    PROVE  OrderInv' /\ HeldStays
<1>0. WritesOnly(ops) /\ DOMAIN ops = Tasks /\ \A s \in Tasks \ {t} : ops[s] = Idle
  BY DEF Quiet, WritesOnly, IndInv, OpsGood
<1>1. PICK ids \in Scans(max) \ {{}} :
        LET inmem == ids \intersect InMemory(groups)
        IN  /\ groups' = [i \in DOMAIN groups |->
                 IF i \in inmem THEN [groups[i] EXCEPT !.group_ptr = NoGroup]
                 ELSE groups[i]]
            /\ ops' = [ops EXCEPT ![t] =
                 LoadOp(ids, [i \in inmem |-> groups[i].group_ptr],
                        [i \in ids \ inmem |-> groups[i].disk_offset],
                        [i \in {} |-> NoGroup])]
  BY DEF ReadScan, Pending
<1> DEFINE inmem == ids \intersect InMemory(groups)
           result == [i \in inmem |-> groups[i].group_ptr]
           offsets == [i \in ids \ inmem |-> groups[i].disk_offset]
           none == [i \in {} |-> NoGroup]
           op == LoadOp(ids, result, offsets, none)
<1>2. UNCHANGED <<files, unlinking, crashed, tallies>>
  BY DEF ReadScan, disk, hist, tallies
<1>3. ids \subseteq DOMAIN groups
  BY DEF Scans, Ready
<1>4. /\ \A i \in DOMAIN groups : InPlace(groups[i], files, unlinking)
      /\ Held(ops, groups, files) = [i \in DOMAIN groups |-> Stands(groups[i], files)]
  BY <1>0, AllInPlace
<1>5. /\ DOMAIN groups' = DOMAIN groups
      /\ \A i \in DOMAIN groups \ inmem : groups'[i] = groups[i]
      /\ \A i \in ids : groups[i].group_ptr # NoGroup <=> i \in inmem
  BY <1>1, <1>3 DEF InMemory
<1> HIDE DEF inmem
<1>6. OpHolds(op, groups', files, unlinking)
  <2>1. \A i \in ids \ inmem : /\ groups'[i].group_ptr = NoGroup
                               /\ groups'[i].disk_offset = groups[i].disk_offset
                               /\ groups[i].disk_offset \in DOMAIN files \ unlinking
    BY <1>3, <1>4, <1>5 DEF InPlace
  <2>2. DOMAIN result = inmem /\ DOMAIN offsets = ids \ inmem /\ DOMAIN none = {}
    OBVIOUS
  <2>3. \A i \in DOMAIN offsets : offsets[i] = groups[i].disk_offset
    OBVIOUS
  <2> HIDE DEF result, offsets, none
  <2> QED
    BY <1>3, <1>5, <2>1, <2>2, <2>3 DEF OpHolds, LoadOp
<1>7. op.ids = ids /\ op.result = result /\ Reads(op)
  BY DEF LoadOp, Reads
<1>8. ops' = [ops EXCEPT ![t] = op]
  BY <1>1 DEF inmem
<1>9. \A i \in DOMAIN groups' \ ids : InPlace(groups'[i], files, unlinking)
  BY <1>4, <1>5, <1>3 DEF inmem
<1> HIDE DEF op
<1>10. /\ OrderInv'
       /\ Held(ops', groups', files') = HeldBy(result, groups', files')
  <2> HIDE DEF result
  <2> QED
    BY <1>0, <1>2, <1>6, <1>7, <1>8, <1>9, ReadsOrder DEF OrderInv
<1>11. \A i \in DOMAIN groups :
         (IF i \in DOMAIN result THEN result[i] ELSE Stands(groups'[i], files'))
           = Stands(groups[i], files)
  <2>1. ASSUME NEW i \in inmem PROVE Stands(groups[i], files) = groups[i].group_ptr
    BY <1>5, <2>1 DEF Stands, inmem
  <2> QED
    BY <1>2, <1>5, <2>1
<1> HIDE DEF result
<1> QED
  BY <1>2, <1>4, <1>5, <1>10, <1>11 DEF HeldStays, HeldBy

(* Loading a file is not seen.  (load_batch) *)
LEMMA ReadLoadOrder ==
    ASSUME IndInv, OrderInv, NEW t \in Tasks, NEW i \in Instances, ReadLoad(t, i)
    PROVE  OrderInv' /\ HeldStays
<1> DEFINE loaded == Put(ops[t].loaded, i, files[ops[t].offsets[i]])
           op == [ops[t] EXCEPT !.loaded = loaded]
<1>1. /\ ops[t].kind = "load" /\ i \in DOMAIN ops[t].offsets
      /\ ops' = [ops EXCEPT ![t] = op] /\ DOMAIN ops = Tasks
      /\ UNCHANGED <<groups, files, unlinking, crashed, tallies>>
  BY DEF ReadLoad, Resumes, Pending, disk, hist, stats, tallies, IndInv, OpsGood
<1>2. op = LoadOp(ops[t].ids, ops[t].result, ops[t].offsets, loaded)
  <2>1. ops[t] = LoadOp(ops[t].ids, ops[t].result, ops[t].offsets, ops[t].loaded)
    BY <1>1, LoadShape
  <2> QED
    BY <2>1 DEF LoadOp
<1>3. Reads(ops[t])
  BY <1>1 DEF Reads
<1>4. \A j \in DOMAIN loaded : /\ j \in DOMAIN ops[t].offsets
                               /\ loaded[j] = files[ops[t].offsets[j]]
  BY <1>1, <1>3, ReadsBefore DEF OpHolds, Put
<1> HIDE DEF loaded
<1>5. OpHolds(op, groups, files, unlinking)
  <2>1. OpHolds(ops[t], groups, files, unlinking)
    BY <1>3, ReadsBefore
  <2>2. /\ op.kind = "load" /\ op.ids = ops[t].ids /\ op.result = ops[t].result
        /\ op.offsets = ops[t].offsets /\ op.loaded = loaded
    BY <1>2 DEF LoadOp
  <2> HIDE DEF op
  <2> QED
    BY <1>1, <1>4, <2>1, <2>2 DEF OpHolds
<1>6. Reads(op) /\ op.ids = ops[t].ids /\ op.result = ops[t].result
  BY <1>2 DEF LoadOp, Reads
<1> HIDE DEF op
<1>7. /\ OrderInv'
      /\ Held(ops', groups', files') = HeldBy(ops[t].result, groups, files)
  BY <1>1, <1>3, <1>5, <1>6, ReadExcludes, ReadsBefore, ReadsOrder DEF OrderInv
<1> QED
  BY <1>1, <1>3, <1>7, ReadsBefore DEF HeldStays

(* Two entries that share a file do not exist.  (OffsetsMatch) *)
LEMMA OwnFile ==
    ASSUME IndInv, NEW i \in DOMAIN groups, NEW j \in DOMAIN groups,
           groups[i].disk_offset = groups[j].disk_offset,
           groups[i].disk_offset \in DOMAIN files
    PROVE  i = j
BY DEF IndInv, GroupsGood, EntryGood, Leads

(* Putting what was loaded into the result is not seen.                    *)
(* (read_ready_groups)                                                     *)
LEMMA ReadMergeOrder ==
    ASSUME IndInv, OrderInv, NEW t \in Tasks, ReadMerge(t)
    PROVE  OrderInv' /\ HeldStays
<1> DEFINE cur == ops[t]
           result == [i \in cur.ids |-> IF i \in DOMAIN cur.loaded THEN cur.loaded[i]
                                        ELSE cur.result[i]]
           rest == {cur.offsets[i] : i \in DOMAIN cur.offsets}
           op == UnlinkOp(cur.ids, result, rest)
<1>1. /\ cur.kind = "load" /\ DOMAIN cur.loaded = DOMAIN cur.offsets
      /\ ops' = [ops EXCEPT ![t] = op] /\ DOMAIN ops = Tasks
      /\ UNCHANGED <<groups, files, unlinking, crashed, tallies>>
  BY DEF ReadMerge, Resumes, Pending, disk, hist, stats, tallies, IndInv, OpsGood
<1>2. Reads(cur) /\ cur.ids = DOMAIN cur.result \union DOMAIN cur.offsets
  BY <1>1, LoadShape DEF Reads
<1>3. /\ cur.ids \subseteq DOMAIN groups
      /\ DOMAIN cur.result \intersect DOMAIN cur.offsets = {}
      /\ \A i \in DOMAIN cur.offsets :
           /\ groups[i].group_ptr = NoGroup /\ groups[i].disk_offset = cur.offsets[i]
           /\ cur.offsets[i] \in DOMAIN files \ unlinking
           /\ cur.loaded[i] = files[cur.offsets[i]]
  BY <1>1, <1>2, ReadsBefore DEF OpHolds
<1>4. rest \subseteq DOMAIN files \ unlinking
  BY <1>3
<1>5. \A i \in DOMAIN groups \ cur.ids : groups[i].disk_offset \notin rest
  BY <1>2, <1>3, OwnFile
<1>6. \A i \in DOMAIN groups :
        (IF i \in DOMAIN result THEN result[i] ELSE Stands(groups[i], files))
          = IF i \in DOMAIN cur.result THEN cur.result[i] ELSE Stands(groups[i], files)
  <2>1. \A i \in DOMAIN cur.offsets : Stands(groups[i], files) = cur.loaded[i]
    BY <1>3 DEF Stands
  <2> QED
    BY <1>1, <1>2, <1>3, <2>1
<1> HIDE DEF result, rest
<1>7. OpHolds(op, groups, files, unlinking)
  BY <1>3, <1>4, <1>5 DEF OpHolds, UnlinkOp
<1>8. Reads(op) /\ op.ids = cur.ids /\ op.result = result
  BY DEF UnlinkOp, Reads
<1> HIDE DEF op
<1>9. /\ OrderInv'
      /\ Held(ops', groups', files') = HeldBy(result, groups, files)
  BY <1>1, <1>2, <1>7, <1>8, ReadExcludes, ReadsBefore, ReadsOrder DEF OrderInv
<1>10. Held(ops, groups, files) = HeldBy(cur.result, groups, files)
  BY <1>2, ReadsBefore
<1> QED
  BY <1>1, <1>6, <1>9, <1>10 DEF HeldStays, HeldBy

(* Removing a file that was read is not seen.  (remove) *)
LEMMA ReadRemoveOrder ==
    ASSUME IndInv, OrderInv, NEW t \in Tasks, NEW o, ReadRemove(t, o)
    PROVE  OrderInv' /\ HeldStays
<1> DEFINE op == [ops[t] EXCEPT !.rest = @ \ {o}]
<1>1. /\ ops[t].kind = "unlink" /\ o \in ops[t].rest /\ files' = Drop(files, {o})
      /\ ops' = [ops EXCEPT ![t] = op] /\ DOMAIN ops = Tasks
      /\ UNCHANGED <<groups, unlinking, crashed, tallies>>
  BY DEF ReadRemove, Resumes, Pending, hist, stats, tallies, IndInv, OpsGood
<1>2. Reads(ops[t]) /\ ops[t].result \in [ops[t].ids -> Group]
  BY <1>1, UnlinkShape DEF Reads
<1>3. op = UnlinkOp(ops[t].ids, ops[t].result, ops[t].rest \ {o})
  <2>1. ops[t] = UnlinkOp(ops[t].ids, ops[t].result, ops[t].rest)
    BY <1>1, UnlinkShape
  <2> QED
    BY <2>1 DEF UnlinkOp
<1>4. /\ ops[t].ids \subseteq DOMAIN groups /\ ops[t].rest \subseteq DOMAIN files \ unlinking
      /\ \A i \in DOMAIN groups \ ops[t].ids : groups[i].disk_offset \notin ops[t].rest
      /\ \A i \in DOMAIN groups \ ops[t].ids : InPlace(groups[i], files, unlinking)
  BY <1>1, <1>2, ReadsBefore DEF OpHolds
<1>5. \A i \in DOMAIN groups \ ops[t].ids : /\ InPlace(groups[i], files', unlinking)
                                            /\ Stands(groups[i], files') = Stands(groups[i], files)
  BY <1>1, <1>4 DEF InPlace, Stands, Drop
<1>6. OpHolds(op, groups, files', unlinking)
  BY <1>1, <1>3, <1>4 DEF OpHolds, UnlinkOp, Drop
<1>7. Reads(op) /\ op.ids = ops[t].ids /\ op.result = ops[t].result
  BY <1>3 DEF UnlinkOp, Reads
<1> HIDE DEF op
<1>8. /\ OrderInv'
      /\ Held(ops', groups', files') = HeldBy(ops[t].result, groups, files')
  BY <1>1, <1>2, <1>5, <1>6, <1>7, ReadExcludes, ReadsOrder DEF OrderInv
<1>9. Held(ops, groups, files) = HeldBy(ops[t].result, groups, files)
  BY <1>2, ReadsBefore
<1>10. \A j \in DOMAIN groups :
         (IF j \in DOMAIN ops[t].result THEN ops[t].result[j] ELSE Stands(groups[j], files'))
           = IF j \in DOMAIN ops[t].result THEN ops[t].result[j] ELSE Stands(groups[j], files)
  BY <1>2, <1>5
<1> QED
  BY <1>1, <1>8, <1>9, <1>10 DEF HeldStays, HeldBy

\* the queue hands over the groups of S
Gives(S) ==
    LET h == Held(ops, groups, files)
    IN  /\ S \in SUBSET DOMAIN h /\ \A i \in S : h[i].is_complete
        /\ Held(ops', groups', files') = [i \in DOMAIN h \ S |-> h[i]]
        /\ out' = [u \in Uids |-> out[u] + SumFunction([i \in S |-> Queue!Times(u, h[i])])]
        /\ UNCHANGED <<total_trajectories, gone>>

(* Erasing the entries is where the groups of the read leave the queue,    *)
(* all of them ready.  (read_ready_groups)                                 *)
LEMMA ReadEraseOrder ==
    ASSUME IndInv, OrderInv, NEW t \in Tasks, ReadErase(t)
    PROVE  OrderInv' /\ Gives(ops[t].ids)
<1>1. /\ ops[t].kind = "unlink" /\ groups' = Drop(groups, ops[t].ids)
      /\ out' = [u \in Uids |-> out[u] + Count(u, ops[t].result)]
      /\ ops' = [ops EXCEPT ![t] = Idle] /\ DOMAIN ops = Tasks
      /\ UNCHANGED <<files, unlinking, crashed, total_trajectories, gone>>
  BY DEF ReadErase, Resumes, Returns, Pending, disk, stats, IndInv, OpsGood
<1>2. /\ Reads(ops[t]) /\ ops[t].result \in [ops[t].ids -> Group]
      /\ \A i \in DOMAIN ops[t].result : ReadyFor(ops[t].result[i], i)
  BY <1>1, UnlinkShape DEF Reads
<1>3. /\ ops[t].ids \subseteq DOMAIN groups
      /\ \A i \in DOMAIN groups \ ops[t].ids : InPlace(groups[i], files, unlinking)
      /\ Held(ops, groups, files) = HeldBy(ops[t].result, groups, files)
  BY <1>1, <1>2, ReadsBefore DEF OpHolds
<1>4. PICK ids : ids = ops[t].ids
  OBVIOUS
<1>5. \A s \in Tasks : ops'[s] = Idle
  BY <1>1, <1>2, ReadExcludes
<1>6. WritesOnly(ops') /\ Calm(ops') /\ Holds4(ops', groups', files', unlinking')
  BY <1>5, IdleHolds DEF WritesOnly, Calm, Holds4
<1>7. /\ DOMAIN groups' = DOMAIN groups \ ids
      /\ \A i \in DOMAIN groups \ ids : groups'[i] = groups[i]
  BY <1>1, <1>4 DEF Drop
<1>8. OrderInv'
      /\ Held(ops', groups', files') = [i \in DOMAIN groups' |-> Stands(groups'[i], files')]
  BY <1>1, <1>3, <1>4, <1>6, <1>7, SpillsOrder DEF OrderInv
<1>9. /\ DOMAIN Held(ops, groups, files) = DOMAIN groups
      /\ \A i \in ids : Held(ops, groups, files)[i] = ops[t].result[i]
      /\ \A i \in DOMAIN groups \ ids : Held(ops, groups, files)[i] = Stands(groups[i], files)
  BY <1>2, <1>3, <1>4 DEF HeldBy
<1>10. ASSUME NEW u \in Uids
       PROVE  Count(u, ops[t].result)
                = SumFunction([i \in ids |-> Queue!Times(u, Held(ops, groups, files)[i])])
  <2> DEFINE times(g) == Cardinality({n \in DOMAIN g.trajectories : g.trajectories[n] = u})
  <2>0. \A g : Queue!Times(u, g) = times(g)
    BY QueueCounts DEF Queue!Times
  <2>1. [i \in DOMAIN ops[t].result |-> times(ops[t].result[i])]
          = [i \in ids |-> Queue!Times(u, Held(ops, groups, files)[i])]
    <3> HIDE DEF times
    <3> QED
      BY <1>2, <1>4, <1>9, <2>0
  <2> QED
    BY <2>1 DEF Count
<1>11. Gives(ids)
  <2>1. Held(ops', groups', files')
          = [i \in DOMAIN Held(ops, groups, files) \ ids |-> Held(ops, groups, files)[i]]
    BY <1>1, <1>7, <1>8, <1>9
  <2>2. \A i \in ids : Held(ops, groups, files)[i].is_complete
    BY <1>2, <1>4, <1>9 DEF ReadyFor
  <2>3. out' = [u \in Uids |-> out[u]
                 + SumFunction([i \in ids |-> Queue!Times(u, Held(ops, groups, files)[i])])]
    BY <1>1, <1>10
  <2> QED
    BY <1>1, <1>3, <1>4, <1>9, <2>1, <2>2, <2>3 DEF Gives
<1> QED
  BY <1>4, <1>8, <1>11

-----------------------------------------------------------------------------
(* Management *)

(* A call that starts between two calls finds every group in its place.    *)
LEMMA QuietBefore ==
    ASSUME IndInv, OrderInv, Quiet
    PROVE  /\ WritesOnly(ops) /\ DOMAIN ops = Tasks
           /\ \A i \in DOMAIN groups : InPlace(groups[i], files, unlinking)
           /\ Held(ops, groups, files) = [i \in DOMAIN groups |-> Stands(groups[i], files)]
<1>1. WritesOnly(ops) /\ DOMAIN ops = Tasks
  BY DEF Quiet, WritesOnly, IndInv, OpsGood
<1> QED
  BY <1>1, AllInPlace

(* A call that returns at once leaves the shard between two calls.  *)
LEMMA QuietOrder ==
    ASSUME Quiet, UNCHANGED <<ops, crashed>>, OrderInv,
           \A i \in DOMAIN groups' : InPlace(groups'[i], files', unlinking')
    PROVE  /\ OrderInv'
           /\ Held(ops', groups', files') = [i \in DOMAIN groups' |-> Stands(groups'[i], files')]
<1>1. \A s \in Tasks : ops'[s] = Idle
  BY DEF Quiet
<1>2. WritesOnly(ops') /\ Calm(ops') /\ Holds4(ops', groups', files', unlinking')
  BY <1>1, IdleHolds DEF WritesOnly, Calm, Holds4
<1> QED
  BY <1>2, SpillsOrder DEF OrderInv

\* the queue forgets the group of i, and books it
Deletes(i) ==
    LET h == Held(ops, groups, files)
    IN  /\ i \in DOMAIN h
        /\ Held(ops', groups', files') = [j \in DOMAIN h \ {i} |-> h[j]]
        /\ gone' = [gone EXCEPT ![i] = @ + Size(h[i])]
        /\ UNCHANGED <<total_trajectories, out>>

(* Deleting an instance takes its group from the queue; the file that is   *)
(* to be removed belongs to no other entry.  (delete_instance)             *)
LEMMA DeleteOrder ==
    ASSUME IndInv, OrderInv, Quiet, NEW i \in Instances, delete_instance(i)
    PROVE  OrderInv' /\ Deletes(i)
<1>1. /\ i \in DOMAIN groups /\ groups' = Drop(groups, {i})
      /\ gone' = [gone EXCEPT ![i] = @ + Holds(groups[i])]
      /\ UNCHANGED <<files, ops, crashed, total_trajectories, out>>
      /\ unlinking' \subseteq unlinking \union {groups[i].disk_offset}
  BY DEF delete_instance
<1>2. /\ DOMAIN groups' = DOMAIN groups \ {i}
      /\ \A j \in DOMAIN groups \ {i} : groups'[j] = groups[j]
  BY <1>1 DEF Drop
<1>3. ASSUME NEW j \in DOMAIN groups' PROVE InPlace(groups'[j], files', unlinking')
  <2>1. InPlace(groups[j], files, unlinking)
    BY <1>2, QuietBefore
  <2>2. groups[j].disk_offset \in DOMAIN files => groups[j].disk_offset # groups[i].disk_offset
    BY <1>1, <1>2, OwnFile
  <2> QED
    BY <1>1, <1>2, <2>1, <2>2 DEF InPlace
<1>4. OrderInv'
      /\ Held(ops', groups', files') = [j \in DOMAIN groups' |-> Stands(groups'[j], files')]
  BY <1>1, <1>3, QuietOrder
<1>5. Held(ops, groups, files) = [j \in DOMAIN groups |-> Stands(groups[j], files)]
  BY QuietBefore
<1>6. Holds(groups[i]) = Size(Held(ops, groups, files)[i])
  <2>1. InPlace(groups[i], files, unlinking)
    BY <1>1, QuietBefore
  <2>2. Holds(groups[i]) = Size(Stands(groups[i], files))
    BY <2>1 DEF Holds, Stands, InPlace
  <2> QED
    BY <1>1, <1>5, <2>2
<1>7. Held(ops', groups', files')
        = [j \in DOMAIN Held(ops, groups, files) \ {i} |-> Held(ops, groups, files)[j]]
  BY <1>1, <1>2, <1>4, <1>5
<1>8. Deletes(i)
  BY <1>1, <1>5, <1>6, <1>7 DEF Deletes
<1> QED
  BY <1>4, <1>8

\* the queue forgets every group, and closes its books
Resets ==
    /\ Held(ops', groups', files') = [i \in {} |-> Held(ops, groups, files)[i]]
    /\ total_trajectories' = Zero /\ gone' = Zero
    /\ UNCHANGED out

(* Clearing the shard empties the queue.  (reset) *)
LEMMA ResetOrder ==
    ASSUME IndInv, OrderInv, Quiet, NEW t \in Tasks, reset(t)
    PROVE  OrderInv' /\ Resets
<1>1. /\ DOMAIN groups' = {} /\ UNCHANGED <<files, unlinking, crashed, out>>
      /\ total_trajectories' = Zero /\ gone' = Zero
      /\ ops' = ops \/ \E rest : ops' = [ops EXCEPT ![t] = ResetOp(rest, FALSE)]
  BY DEF reset, Pending, disk
<1>2. \A s \in Tasks : /\ ops'[s] = Idle \/ (s = t /\ \E rest : ops'[s] = ResetOp(rest, FALSE))
                       /\ OpHolds(ops'[s], groups', files', unlinking')
  <2>1. \A rest : OpHolds(ResetOp(rest, FALSE), groups', files', unlinking')
    BY <1>1 DEF OpHolds, ResetOp
  <2>2. \A s \in Tasks : ops[s] = Idle
    BY DEF Quiet
  <2>3. \A s \in Tasks : ops'[s] = Idle \/ (s = t /\ \E rest : ops'[s] = ResetOp(rest, FALSE))
    BY <1>1, <2>2, QuietBefore
  <2> QED
    BY <2>1, <2>3, IdleHolds
<1>3. Calm(ops')
  BY <1>2 DEF Calm
<1>4. \A s \in Tasks : ~Reads(ops'[s])
  <2>1. ~Reads(Idle) /\ \A rest : ~Reads(ResetOp(rest, FALSE))
    BY DEF Reads, Idle, ResetOp
  <2> HIDE DEF Idle
  <2> QED
    BY <1>2, <2>1
<1>5. OrderInv'
  BY <1>1, <1>2, <1>3 DEF OrderInv, Holds4, Placed
<1>6. DOMAIN Held(ops', groups', files') = {}
  BY <1>1 DEF Held
<1>7. Held(ops', groups', files') = [i \in {} |-> Held(ops, groups, files)[i]]
  BY <1>1, <1>6 DEF Held
<1> QED
  BY <1>1, <1>5, <1>7 DEF Resets

(* While a reset is pending there is no group, whatever file it removes.   *)
(* (reset)                                                                 *)
LEMMA ResetGoesOn ==
    ASSUME IndInv, OrderInv, NEW t \in Tasks, ResetRemove(t) \/ ResetFails(t)
    PROVE  OrderInv' /\ HeldStays
<1>1. /\ ops[t].kind = "reset" /\ UNCHANGED <<groups, unlinking, crashed, tallies>>
      /\ \E op : ops' = [ops EXCEPT ![t] = op] /\ (op = Idle \/ \E rest : op = ResetOp(rest, TRUE))
  BY Zenon DEF ResetRemove, ResetFails, Resumes, Pending, Returns, disk, hist, stats, tallies
<1>2. DOMAIN groups = {}
  BY <1>1 DEF OrderInv, Holds4, OpHolds
<1>3. DOMAIN ops = Tasks /\ \A s \in Tasks \ {t} : ops[s] = Idle
  BY <1>1, ReadExcludes DEF IndInv, OpsGood
<1>4. \A s \in Tasks : /\ ops'[s] = Idle \/ (s = t /\ \E rest : ops'[s] = ResetOp(rest, TRUE))
                       /\ OpHolds(ops'[s], groups', files', unlinking')
  <2>1. \A rest : OpHolds(ResetOp(rest, TRUE), groups', files', unlinking')
    BY <1>1, <1>2 DEF OpHolds, ResetOp
  <2>2. \A s \in Tasks : ops'[s] = Idle \/ (s = t /\ \E rest : ops'[s] = ResetOp(rest, TRUE))
    BY <1>1, <1>3
  <2> QED
    BY <2>1, <2>2, IdleHolds
<1>5. Calm(ops')
  BY <1>4 DEF Calm
<1>6. OrderInv'
  BY <1>1, <1>2, <1>4, <1>5 DEF OrderInv, Holds4, Placed
<1>7. Held(ops', groups', files') = Held(ops, groups, files)
  BY <1>1, <1>2 DEF Held
<1> QED
  BY <1>1, <1>6, <1>7 DEF HeldStays

\* the queue lets the groups of S become ready
Expires(S) ==
    LET h == Held(ops, groups, files)
    IN  /\ S \in SUBSET DOMAIN h
        /\ Held(ops', groups', files') = [i \in DOMAIN h |->
             IF i \in S THEN [h[i] EXCEPT !.is_complete = TRUE] ELSE h[i]]
        /\ UNCHANGED tallies

(* Old groups become ready in the queue as in the shard.                   *)
(* (check_group_timeouts)                                                  *)
LEMMA TimeoutsOrder ==
    ASSUME IndInv, OrderInv, Quiet, check_group_timeouts
    PROVE  OrderInv' /\ \E S : Expires(S)
<1>1. PICK old \in SUBSET (DOMAIN groups \ Ready) :
        groups' = [i \in DOMAIN groups |->
            IF i \in old THEN [groups[i] EXCEPT !.group_ptr.is_complete = TRUE]
            ELSE groups[i]]
  BY DEF check_group_timeouts
<1>2. UNCHANGED <<files, unlinking, ops, crashed, tallies>>
  BY DEF check_group_timeouts, disk, hist, stats, tallies
<1>3. ASSUME NEW i \in DOMAIN groups
      PROVE  /\ InPlace(groups'[i], files, unlinking)
             /\ Stands(groups'[i], files) =
                  IF i \in old THEN [Stands(groups[i], files) EXCEPT !.is_complete = TRUE]
                  ELSE Stands(groups[i], files)
  <2>1. InPlace(groups[i], files, unlinking) /\ groups[i] \in Entry
    BY QuietBefore DEF IndInv, GroupsGood, Partial
  <2>2. CASE i \in old
    <3> DEFINE g == groups[i].group_ptr
               h == [g EXCEPT !.is_complete = TRUE]
    <3>1. g \in Group /\ g # NoGroup
      BY <2>1, <2>2 DEF Ready, IsComplete, Entry
    <3>2. groups'[i] = [groups[i] EXCEPT !.group_ptr = h]
      BY <1>1, <2>2
    <3>3. h \in Group
      BY <3>1 DEF Group
    <3>4. Stands(groups[i], files) = g
      BY <3>1 DEF Stands
    <3> HIDE DEF g
    <3>5. groups'[i].group_ptr = h /\ h # NoGroup
      <4> HIDE DEF h
      <4> QED
        BY <2>1, <3>2, <3>3, NoGroupAssumption DEF Entry
    <3> QED
      BY <2>2, <3>4, <3>5 DEF InPlace, Stands
  <2>3. CASE i \notin old
    BY <1>1, <2>1, <2>3
  <2> QED
    BY <2>2, <2>3
<1>4. DOMAIN groups' = DOMAIN groups
  BY <1>1
<1>5. OrderInv'
      /\ Held(ops', groups', files') = [i \in DOMAIN groups' |-> Stands(groups'[i], files')]
  BY <1>2, <1>3, <1>4, QuietOrder
<1>6. Expires(old)
  BY <1>2, <1>3, <1>4, <1>5, QuietBefore DEF Expires
<1> QED
  BY <1>5, <1>6

(* The removal that nobody waits for is not seen: no entry and no pending  *)
(* call goes by its id.  (delete_instance)                                 *)
LEMMA UnlinkOrder ==
    ASSUME IndInv, OrderInv, NEW o, Unlink(o)
    PROVE  OrderInv' /\ HeldStays
<1>1. /\ o \in unlinking /\ unlinking' = unlinking \ {o}
      /\ files' = files \/ files' = Drop(files, {o})
      /\ UNCHANGED <<groups, ops, crashed, tallies>>
  BY DEF Unlink, hist, stats, tallies
<1>2. Grows(files, unlinking, files', unlinking')
  BY <1>1 DEF Grows, Drop
<1>3. \A s \in Tasks : OpHolds(ops[s], groups, files', unlinking')
  BY <1>2, HoldsGrows DEF OrderInv, Holds4
<1>4. \A i \in DOMAIN groups \ Claimed(ops) :
        /\ InPlace(groups[i], files', unlinking')
        /\ Stands(groups[i], files') = Stands(groups[i], files)
  BY <1>2, PlaceGrows DEF OrderInv, Placed
<1>5. OrderInv'
  BY <1>1, <1>3, <1>4 DEF OrderInv, Holds4, Placed
<1>6. Held(ops', groups', files') = Held(ops, groups, files)
  <2>1. CASE \E t \in Tasks : Reads(ops[t])
    <3>1. PICK t \in Tasks : Reads(ops[t])
      BY <2>1
    <3>2. \A fs : Held(ops, groups, fs) = HeldBy(ops[t].result, groups, fs)
      BY <3>1, OneReader DEF OrderInv
    <3>3. OpHolds(ops[t], groups, files, unlinking) /\ Claimed(ops) = ops[t].ids
      BY <3>1, OneReader DEF OrderInv, Holds4
    <3>4. ASSUME NEW i \in ops[t].ids, i \notin DOMAIN ops[t].result
          PROVE  Stands(groups[i], files') = Stands(groups[i], files)
      <4>1. ops[t].kind = "load" /\ i \in DOMAIN ops[t].offsets
        BY <3>1, <3>4, LoadShape, UnlinkShape DEF Reads
      <4>2. InPlace(groups[i], files, unlinking)
        BY <3>3, <4>1 DEF OpHolds, InPlace
      <4> QED
        BY <1>2, <4>2, PlaceGrows
    <3>5. HeldBy(ops[t].result, groups, files') = HeldBy(ops[t].result, groups, files)
      BY <1>4, <3>3, <3>4 DEF HeldBy
    <3> QED
      BY <1>1, <3>2, <3>5
  <2>2. CASE \A t \in Tasks : ~Reads(ops[t])
    <3>1. /\ Claimed(ops) = {}
          /\ \A fs : Held(ops, groups, fs) = [i \in DOMAIN groups |-> Stands(groups[i], fs)]
      BY <2>2, NoReader
    <3> QED
      BY <1>1, <1>4, <3>1
  <2> QED
    BY <2>1, <2>2
<1> QED
  BY <1>1, <1>5, <1>6 DEF HeldStays

-----------------------------------------------------------------------------
(* The disciplines as a whole *)

\* what the queue sees of a step
QueueStep ==
    \/ HeldStays
    \/ \E i \in Instances, u \in Uids : Collects(i, u)
    \/ \E S : Gives(S) \/ Expires(S)
    \/ \E i \in Instances : Deletes(i)
    \/ Resets

\* what breaks the discipline for good: a read has failed that held groups,
\* or the process is dead
Excused == read_failed \/ Aborted

(* A read that fails before it holds a group leaves every group in its     *)
(* place.  (read_ready_groups)                                             *)
LEMMA ReadFailsOrder ==
    ASSUME IndInv, OrderInv, NEW t \in Tasks, Reads(ops[t]), ReadFails(t)
    PROVE  (OrderInv' /\ HeldStays) \/ Excused'
<1>1. CASE DOMAIN ops[t].result # {}
  BY <1>1 DEF ReadFails, Excused
<1>2. CASE DOMAIN ops[t].result = {}
  <2>1. /\ ops' = [ops EXCEPT ![t] = Idle] /\ DOMAIN ops = Tasks
        /\ UNCHANGED <<groups, files, unlinking, crashed, tallies>>
    BY DEF ReadFails, Returns, Pending, disk, stats, tallies, IndInv, OpsGood
  <2>2. \A s \in Tasks : ops'[s] = Idle
    BY <2>1, ReadExcludes
  <2>3. WritesOnly(ops') /\ Calm(ops') /\ Holds4(ops', groups', files', unlinking')
    BY <2>2, IdleHolds DEF WritesOnly, Calm, Holds4
  <2>4. /\ OpHolds(ops[t], groups, files, unlinking)
        /\ \A i \in DOMAIN groups \ ops[t].ids : InPlace(groups[i], files, unlinking)
        /\ Held(ops, groups, files) = HeldBy(ops[t].result, groups, files)
    BY ReadsBefore
  <2>5. ASSUME NEW i \in DOMAIN groups PROVE InPlace(groups[i], files, unlinking)
    <3>1. i \in ops[t].ids => ops[t].kind = "load" /\ i \in DOMAIN ops[t].offsets
      BY <1>2, LoadShape, UnlinkShape DEF Reads
    <3> QED
      BY <2>4, <3>1 DEF OpHolds, InPlace
  <2>6. /\ OrderInv'
        /\ Held(ops', groups', files') = [i \in DOMAIN groups |-> Stands(groups[i], files)]
    BY <2>1, <2>3, <2>5, SpillsOrder DEF OrderInv
  <2> QED
    BY <1>2, <2>1, <2>4, <2>6 DEF HeldStays, HeldBy
<1> QED
  BY <1>1, <1>2

(* A continuation keeps the discipline, and only the erasing of what was   *)
(* read and the writes of a batch are seen, unless it ends in one of the   *)
(* two ways that break it.                                                 *)
LEMMA ContinueOrder ==
    ASSUME IndInv, OrderInv, NEW t \in Tasks, Continue(t)
    PROVE  (OrderInv' /\ QueueStep) \/ Excused'
<1>2. ASSUME NEW i \in Instances, NEW u \in Uids, ops[t].kind = "batch", Write(t, i, u)
      PROVE  (OrderInv' /\ QueueStep) \/ Excused'
  <2>1. \A s \in Tasks \ {t} : ops[s] = Idle
    BY <1>2 DEF OrderInv, Calm, Idle
  <2>2. MayWrite(t, i)
    BY <1>2, <2>1 DEF MayWrite, Idle
  <2> QED
    BY <1>2, <2>2, WriteOrder DEF QueueStep, Excused
<1>3. ASSUME NEW k \in Instances, SpillFile(t, k) PROVE OrderInv' /\ QueueStep
  BY <1>3, SpillFileOrder DEF QueueStep
<1>4. CASE SpillFails(t)
  <2>1. /\ ops' = [ops EXCEPT ![t] = Idle] /\ ops[t].kind = "spill"
        /\ UNCHANGED <<groups, files, unlinking, crashed, tallies>>
    BY <1>4 DEF SpillFails, Resumes, Returns, Pending, disk, hist, stats, tallies
  <2> QED
    BY <2>1, SpillExcludes, WritesReturn DEF QueueStep
<1>5. CASE SpillDone(t)
  BY <1>5, SpillDoneOrder DEF QueueStep
<1>6. ASSUME NEW i \in Instances, ReadLoad(t, i) PROVE OrderInv' /\ QueueStep
  BY <1>6, ReadLoadOrder DEF QueueStep
<1>7. ASSUME NEW i \in Instances, ReadLoadFails(t, i)
      PROVE  (OrderInv' /\ QueueStep) \/ Excused'
  BY <1>7, ReadFailsOrder DEF ReadLoadFails, Resumes, Reads, QueueStep
<1>8. CASE ReadMerge(t)
  BY <1>8, ReadMergeOrder DEF QueueStep
<1>9. ASSUME NEW o, ReadRemove(t, o) PROVE OrderInv' /\ QueueStep
  BY <1>9, ReadRemoveOrder DEF QueueStep
<1>10. ASSUME NEW o, ReadRemoveFails(t, o)
       PROVE  (OrderInv' /\ QueueStep) \/ Excused'
  BY <1>10, ReadFailsOrder DEF ReadRemoveFails, Resumes, Reads, QueueStep
<1>11. CASE ReadErase(t)
  BY <1>11, ReadEraseOrder DEF QueueStep
<1>12. CASE ResetRemove(t) \/ ResetFails(t)
  BY <1>12, ResetGoesOn DEF QueueStep
<1> QED
  BY <1>2, <1>3, <1>4, <1>5, <1>6, <1>7, <1>8, <1>9, <1>10, <1>11, <1>12 DEF Continue

(* A call that starts when no other is pending keeps the discipline; no    *)
(* scan meets an entry without a group.                                    *)
LEMMA RequestOrder ==
    ASSUME IndInv, OrderInv, Quiet, Request
    PROVE  (OrderInv' /\ QueueStep) \/ Aborted'
<1>1. WritesOnly(ops) /\ \A i \in DOMAIN groups : InPlace(groups[i], files, unlinking)
  BY QuietBefore
<1>2. CASE Managing
  <2>1. ASSUME NEW t \in Tasks, reset(t) PROVE OrderInv' /\ QueueStep
    BY <2>1, ResetOrder DEF QueueStep
  <2>2. ASSUME NEW i \in Instances, delete_instance(i) PROVE OrderInv' /\ QueueStep
    BY <2>2, DeleteOrder DEF QueueStep
  <2>3. CASE check_group_timeouts
    BY <2>3, TimeoutsOrder DEF QueueStep
  <2>4. ASSUME NEW size, NEW dedup, UpdateConfig(size, dedup) PROVE OrderInv' /\ QueueStep
    <3>1. UNCHANGED <<groups, files, unlinking, ops, crashed, tallies>>
      BY <2>4 DEF UpdateConfig, disk, hist, stats, tallies
    <3> QED
      BY <1>1, <3>1, QuietBefore, QuietOrder DEF QueueStep, HeldStays
  <2> QED
    BY <1>2, <2>1, <2>2, <2>3, <2>4 DEF Managing
<1>3. ASSUME NEW t \in Tasks, NEW i \in Instances, NEW u \in Uids, Write(t, i, u)
      PROVE  (OrderInv' /\ QueueStep) \/ Aborted'
  <2>1. MayWrite(t, i)
    BY DEF MayWrite, Quiet, Idle
  <2> QED
    BY <1>3, <2>1, WriteOrder DEF QueueStep
<1>4. ASSUME NEW t \in Tasks, NEW b, batch_write(t, b) PROVE OrderInv' /\ QueueStep
  <2>1. /\ ops' = [ops EXCEPT ![t] = BatchOp(b)]
        /\ UNCHANGED <<groups, files, unlinking, crashed, tallies>>
    BY <1>4 DEF batch_write, Pending, disk, hist, stats, tallies
  <2>2. BatchOp(b).kind = "batch" /\ \A s \in Tasks \ {t} : ops[s] = Idle
    BY DEF BatchOp, Quiet
  <2> QED
    BY <1>1, <2>1, <2>2, WritesReturn DEF QueueStep
<1>5. ASSUME NEW t \in Tasks, Reading(t) PROVE OrderInv' /\ QueueStep
  <2>1. ASSUME NEW max, ReadNull(t, max) PROVE FALSE
    <3>1. PICK i \in DOMAIN groups : groups[i].group_ptr = NoGroup /\ groups[i].disk_offset = 0
      BY <2>1 DEF ReadNull, Scans, Ready, IsGhost
    <3>2. 0 \in DOMAIN files
      BY <1>1, <3>1 DEF InPlace
    <3> QED
      BY <3>2 DEF IndInv, FilesGood, Partial
  <2> QED
    BY <1>5, <2>1, ReadScanOrder DEF Reading, QueueStep
<1> QED
  BY <1>2, <1>3, <1>4, <1>5 DEF Request, Writing

(* A step under either discipline keeps it, or breaks it in one of the two *)
(* ways.                                                                   *)
LEMMA OrderlyStep ==
    ASSUME IndInv, OrderInv, OrderlyNext
    PROVE  (OrderInv' /\ QueueStep) \/ Excused'
<1>1. CASE Unlinking
  BY <1>1, UnlinkOrder DEF Unlinking, QueueStep
<1>2. ASSUME Kinds \subseteq {"idle", "spill"}, NEW t \in Tasks, NEW i \in Instances,
             NEW u \in Uids, ops[t] = Idle, Collecting(i), Write(t, i, u)
      PROVE  (OrderInv' /\ QueueStep) \/ Excused'
  <2>1. ASSUME NEW s \in Tasks, ops[s].kind # "spill" PROVE ops[s] = Idle
    <3>1. ops[s].kind = "idle"
      BY <1>2, <2>1 DEF Kinds
    <3>2. OpOK(ops[s], last_id)
      BY DEF IndInv, OpsGood
    <3> QED
      BY <3>1, <3>2 DEF OpOK
  <2>2. MayWrite(t, i)
    BY <1>2, <2>1 DEF MayWrite
  <2> QED
    BY <1>2, <2>2, WriteOrder DEF QueueStep, Excused
<1> QED
  BY <1>1, <1>2, ContinueOrder, RequestOrder DEF OrderlyNext, Continuing, Excused

(* The shard starts in order.  *)
LEMMA InitOrder == Init => OrderInv
<1> SUFFICES ASSUME Init PROVE OrderInv
  OBVIOUS
<1>1. (\A s \in Tasks : ops[s] = Idle) /\ DOMAIN groups = {} /\ ~crashed
  BY DEF Init
<1> QED
  BY <1>1, IdleHolds DEF OrderInv, Calm, Holds4, Placed

(* What the disciplines have in common is a discipline, and each step of   *)
(* it is a step of the shard.                                              *)
LEMMA Disciplines ==
    /\ SerialNext => OrderlyNext
    /\ WritersNext => OrderlyNext
    /\ OrderlyNext => Next
<1>1. SerialNext => OrderlyNext
  BY DEF SerialNext, OrderlyNext
<1>2. WritersNext => OrderlyNext
  BY Zenon DEF WritersNext, OrderlyNext, Request
<1>3. OrderlyNext => Next
  BY Zenon DEF OrderlyNext, Next, Request, Writing, Continuing
<1> QED
  BY <1>1, <1>2, <1>3

(* What the queue sees of a step is a step of the queue.  *)
LEMMA QueueSteps ==
    ASSUME IndInv, QueueStep
    PROVE  Queue!Next \/ UNCHANGED <<[i \in DOMAIN groups |-> GroupOf(i)], out, Queue!books>>
<1> DEFINE held == [i \in DOMAIN groups |-> GroupOf(i)]
<1>0. held = Held(ops, groups, files) /\ held' = Held(ops', groups', files')
  BY HeldIs
<1>1. CASE HeldStays
  BY <1>0, <1>1 DEF HeldStays, tallies, Queue!books
<1>2. ASSUME NEW i \in Instances, NEW u \in Uids, Collects(i, u) PROVE Queue!Next
  <2>1. PICK size \in GroupSizes : size = config.group_size
    BY DEF IndInv, SettingsOK
  <2> DEFINE h == Held(ops, groups, files)
             g == IF i \in DOMAIN h THEN h[i]
                  ELSE [instance_id |-> i, trajectories |-> <<>>,
                        group_size |-> size, is_complete |-> FALSE]
             more == [g EXCEPT !.trajectories = Append(@, u),
                               !.is_complete = @ \/ Len(g.trajectories) + 1 >= g.group_size]
  <2>2. /\ Len(Append(g.trajectories, u)) = Len(g.trajectories) + 1
        /\ Held(ops', groups', files') = Put(h, i, Grown(g, u))
        /\ total_trajectories' = [total_trajectories EXCEPT ![i] = @ + 1]
        /\ out' = out /\ gone' = gone
    BY <1>2, <2>1 DEF Collects
  <2>3. Grown(g, u) = more
    BY <2>2 DEF Grown
  <2>4. Put(h, i, more) = [j \in DOMAIN h \union {i} |-> IF j # i THEN h[j] ELSE more]
    <3> HIDE DEF h, more
    <3> QED
      BY DEF Put
  <2>5. held' = [j \in DOMAIN held \union {i} |-> IF j # i THEN held[j] ELSE more]
    <3> HIDE DEF more
    <3>1. Held(ops', groups', files')
            = [j \in DOMAIN h \union {i} |-> IF j # i THEN h[j] ELSE more]
      BY <2>2, <2>3, <2>4
    <3>2. h = held
      BY <1>0
    <3> HIDE DEF h
    <3> QED
      BY <1>0, <3>1, <3>2
  <2>6. Queue!Collect(i, u, size)
    BY <1>0, <2>2, <2>5, Zenon DEF Queue!Collect
  <2>7. Queue!Accept(i, u, size)
    BY <2>2, <2>6, Zenon DEF Queue!Accept
  <2> QED
    BY <2>7, Zenon DEF Queue!Next
<1>3. ASSUME NEW S, Gives(S) PROVE Queue!Next
  <2>1. S \in SUBSET Queue!TheReady
    BY <1>0, <1>3 DEF Gives, Queue!TheReady
  <2>2. held' = Queue!Without(S)
    BY <1>0, <1>3, Zenon DEF Gives, Queue!Without
  <2>3. out' = [u \in Uids |-> out[u]
                 + Queue!SumFunction([i \in S |-> Queue!Times(u, held[i])])]
    BY <1>0, <1>3, QueueCounts, Zenon DEF Gives
  <2>4. Queue!HandOver(S)
    BY <2>2, <2>3, Zenon DEF Queue!HandOver
  <2>5. UNCHANGED Queue!books
    BY <1>3 DEF Gives, Queue!books
  <2> QED
    BY <2>1, <2>4, <2>5, Zenon DEF Queue!Next
<1>4. ASSUME NEW i \in Instances, Deletes(i) PROVE Queue!Next
  <2>1. i \in DOMAIN held
    BY <1>0, <1>4 DEF Deletes
  <2>2. held' = Queue!Without({i}) /\ out' = out
    BY <1>0, <1>4, Zenon DEF Deletes, Queue!Without
  <2>3. /\ gone' = [gone EXCEPT ![i] = @ + Len(held[i].trajectories)]
        /\ UNCHANGED total_trajectories
    BY <1>0, <1>4 DEF Deletes, Size
  <2>4. Queue!Delete(i)
    BY <2>1, <2>2, <2>3, Zenon DEF Queue!Delete, Queue!Discard
  <2> QED
    BY <2>1, <2>4, Zenon DEF Queue!Next
<1>5. CASE Resets
  <2>1. held' = Queue!Without(DOMAIN held)
    BY <1>0, <1>5 DEF Resets, Queue!Without
  <2>2. total_trajectories' = Queue!Nothing /\ gone' = Queue!Nothing /\ out' = out
    BY <1>5 DEF Resets, Zero, Queue!Nothing
  <2>3. Queue!Reset
    BY <2>1, <2>2, Zenon DEF Queue!Reset, Queue!Discard
  <2> QED
    BY <2>3, Zenon DEF Queue!Next
<1>6. ASSUME NEW S, Expires(S) PROVE Queue!Next
  <2>1. Queue!Expire(S) /\ S \in SUBSET DOMAIN held
    BY <1>0, <1>6 DEF Queue!Expire, Expires, tallies
  <2>2. UNCHANGED Queue!books
    BY <1>6 DEF Expires, tallies, Queue!books
  <2> QED
    BY <2>1, <2>2, Zenon DEF Queue!Next
<1> QED
  BY <1>1, <1>2, <1>3, <1>4, <1>5, <1>6 DEF QueueStep

OrderlySpec == Init /\ [][OrderlyNext]_vars

(* Nothing changes, and the invariants stay.  *)
LEMMA Stuttering ==
    ASSUME IndInv, UNCHANGED vars
    PROVE  IndInv' /\ (OrderInv => OrderInv' /\ HeldStays)
<1>1. UNCHANGED <<groups, files, unlinking, last_id, ops, crashed, tallies>>
  BY DEF vars, disk, hist, stats, tallies
<1>2. IndInv'
  BY DEF IndInv, CountersOK, SettingsOK, vars, stats, disk, hist
<1>3. OrderInv => OrderInv' /\ HeldStays
  BY <1>1 DEF OrderInv, HeldStays
<1> QED
  BY <1>2, <1>3

(* What has broken the discipline stays: a dead shard takes no step, and   *)
(* no step forgets that a read has failed.                                 *)
LEMMA ExcusedStays ==
    ASSUME Excused, [Next]_vars
    PROVE  Excused'
<1>1. CASE UNCHANGED vars
  <2>1. ops' = ops /\ crashed' = crashed /\ read_failed' = read_failed
    BY <1>1 DEF vars, hist
  <2> QED
    BY <2>1 DEF Excused, Aborted
<1>2. ASSUME NEW t \in Tasks, NEW i \in Instances, NEW u \in Uids, Write(t, i, u)
      PROVE  ~crashed /\ (read_failed => read_failed')
  BY <1>2 DEF Write, WriteDuplicate, WriteOnDisk, WriteInMemory, WriteSpills, WriteAborts,
              Stores, Writes, Starts, Resumes, Core, hist
<1>3. ASSUME NEW t \in Tasks, NEW b, batch_write(t, b)
      PROVE  ~crashed /\ (read_failed => read_failed')
  BY <1>3 DEF batch_write, Starts, Core, hist
<1>4. ASSUME NEW t \in Tasks, Reading(t) PROVE ~crashed /\ (read_failed => read_failed')
  BY <1>4 DEF Reading, ReadScan, ReadNull, Starts, Core, hist
<1>5. ASSUME Managing PROVE ~crashed /\ (read_failed => read_failed')
  <2>1. ASSUME NEW t \in Tasks, reset(t) PROVE ~crashed /\ (read_failed => read_failed')
    BY <2>1 DEF reset, Starts, Core
  <2>2. ASSUME NEW i \in Instances, delete_instance(i)
        PROVE  ~crashed /\ (read_failed => read_failed')
    BY <2>2 DEF delete_instance, CoreFree
  <2> QED
    BY <1>5, <2>1, <2>2 DEF Managing, check_group_timeouts, UpdateConfig, CoreFree, hist
<1>6. ASSUME Unlinking PROVE ~crashed /\ (read_failed => read_failed')
  BY <1>6 DEF Unlinking, Unlink, hist
<1>7. ASSUME NEW t \in Tasks, Continue(t)
      PROVE  ~crashed /\ (read_failed => read_failed')
  <2>1. ASSUME NEW i, ReadLoadFails(t, i) \/ ReadRemoveFails(t, i)
        PROVE  ~crashed /\ (read_failed => read_failed')
    BY <2>1 DEF ReadLoadFails, ReadRemoveFails, ReadFails, Resumes, Core
  <2>2. ASSUME NEW i, ReadLoad(t, i) \/ ReadRemove(t, i) \/ SpillFile(t, i)
        PROVE  ~crashed /\ (read_failed => read_failed')
    BY <2>2 DEF ReadLoad, ReadRemove, SpillFile, Resumes, Core, hist
  <2>3. ASSUME SpillFails(t) \/ SpillDone(t) \/ ReadMerge(t) \/ ReadErase(t) \/ ResetFails(t)
        PROVE  ~crashed /\ (read_failed => read_failed')
    BY <2>3 DEF SpillFails, SpillDone, ReadMerge, ReadErase, ResetFails, Resumes, Core, hist
  <2>4. ASSUME ResetRemove(t) PROVE ~crashed /\ (read_failed => read_failed')
    BY <2>4, Zenon DEF ResetRemove, Resumes, Core, hist
  <2> QED
    BY <1>2, <1>7, <2>1, <2>2, <2>3, <2>4, Zenon DEF Continue
<1>8. CASE Next
  <2>1. ~crashed /\ (read_failed => read_failed')
    <3>1. CASE Request
      BY <1>2, <1>3, <1>4, <1>5, <3>1, Zenon DEF Request, Writing
    <3>2. CASE Unlinking \/ \E t \in Tasks : Continue(t)
      BY <1>6, <1>7, <3>2, Zenon
    <3> QED
      BY <1>8, <3>1, <3>2, Zenon DEF Next
  <2> QED
    BY <2>1 DEF Excused, Aborted
<1> QED
  BY <1>1, <1>8

(* The two disciplines are cases of the common one.  *)
LEMMA SerialIsOrderly == SerialSpec => OrderlySpec
<1>1. [SerialNext]_vars => [OrderlyNext]_vars
  BY Disciplines
<1> QED
  BY <1>1, PTL DEF SerialSpec, OrderlySpec

(* The same of the writers.  *)
LEMMA WritersAreOrderly == WritersSpec => OrderlySpec
<1>1. [WritersNext]_vars => [OrderlyNext]_vars
  BY Disciplines
<1> QED
  BY <1>1, PTL DEF WritersSpec, OrderlySpec

(* Where calls do not overlap, or only writers do, the process dies of a   *)
(* batch_write that makes the shard spill, or of a scan after a read has   *)
(* failed that held groups, and of nothing else, whatever I/O fails        *)
(* (read_ready_groups, batch_write).                                       *)
THEOREM NoCrash == (SerialSpec \/ WritersSpec) => []CrashCausesAlone
<1>1. Init => IndInv /\ (OrderInv \/ Excused)
  BY InitInv, InitOrder
<1>2. IndInv /\ (OrderInv \/ Excused) /\ [OrderlyNext]_vars => (IndInv /\ (OrderInv \/ Excused))'
  <2> SUFFICES ASSUME IndInv, OrderInv \/ Excused, [OrderlyNext]_vars
               PROVE  IndInv' /\ (OrderInv \/ Excused)'
    OBVIOUS
  <2>1. [Next]_vars
    BY Disciplines
  <2>2. IndInv'
    BY <2>1, NextInv, Stuttering
  <2> QED
    BY <2>1, <2>2, OrderlyStep, Stuttering, ExcusedStays
<1>3. (OrderInv \/ Excused) => CrashCausesAlone
  BY DEF OrderInv, Excused, Aborted, CrashCausesAlone
<1>4. OrderlySpec => []CrashCausesAlone
  BY <1>1, <1>2, <1>3, PTL DEF OrderlySpec
<1> QED
  BY <1>4, SerialIsOrderly, WritersAreOrderly, PTL

-----------------------------------------------------------------------------
(* Reliable reads *)

\* no read has failed, and no vector of trajectories is being written
Reliable == ~read_failed /\ \A t \in Tasks : ops[t].kind # "batch"

(* A continuation is not a batch, and no read fails.  *)
LEMMA ContinueReliable ==
    ASSUME ReliableReads, IndInv, OrderInv, Reliable, NEW t \in Tasks, Continue(t)
    PROVE  Reliable'
<1>0. DOMAIN ops = Tasks /\ OpHolds(ops[t], groups, files, unlinking)
  BY DEF IndInv, OpsGood, OrderInv, Holds4
<1>1. ASSUME NEW op, ops' = [ops EXCEPT ![t] = op], op.kind # "batch", ~read_failed'
      PROVE  Reliable'
  BY <1>0, <1>1 DEF Reliable
<1>2. Idle.kind # "batch" /\ \A rest : ResetOp(rest, TRUE).kind # "batch"
  BY DEF Idle, ResetOp
<1>3. ASSUME NEW k \in Instances, SpillFile(t, k) PROVE Reliable'
  <2>1. ops[t] = SpillOp(ops[t].uid, ops[t].snaps, ops[t].offs)
    BY <1>3, SpillShape DEF SpillFile, Resumes
  <2>2. [ops[t] EXCEPT !.offs = Put(@, k, last_id')].kind = "spill"
    BY <2>1 DEF SpillOp
  <2> QED
    BY <1>1, <1>3, <2>2 DEF SpillFile, Pending, hist, Reliable
<1>4. ASSUME NEW i \in Instances, ReadLoad(t, i) PROVE Reliable'
  <2>1. ops[t] = LoadOp(ops[t].ids, ops[t].result, ops[t].offsets, ops[t].loaded)
    BY <1>4, LoadShape DEF ReadLoad, Resumes
  <2>2. [ops[t] EXCEPT !.loaded = Put(@, i, files[ops[t].offsets[i]])].kind = "load"
    BY <2>1 DEF LoadOp
  <2> QED
    BY <1>1, <1>4, <2>2 DEF ReadLoad, Pending, hist, Reliable
<1>5. ASSUME NEW o, ReadRemove(t, o) PROVE Reliable'
  <2>1. ops[t] = UnlinkOp(ops[t].ids, ops[t].result, ops[t].rest)
    BY <1>5, UnlinkShape DEF ReadRemove, Resumes
  <2>2. [ops[t] EXCEPT !.rest = @ \ {o}].kind = "unlink"
    BY <2>1 DEF UnlinkOp
  <2> QED
    BY <1>1, <1>5, <2>2 DEF ReadRemove, Pending, hist, Reliable
<1>6. CASE ReadMerge(t)
  <2>1. \A ids, result, rest : UnlinkOp(ids, result, rest).kind # "batch"
    BY DEF UnlinkOp
  <2>2. PICK op : /\ ops' = [ops EXCEPT ![t] = op]
                  /\ \E ids, result, rest : op = UnlinkOp(ids, result, rest)
    BY <1>6, Zenon DEF ReadMerge, Pending
  <2>3. ~read_failed'
    BY <1>6 DEF ReadMerge, hist, Reliable
  <2>4. op.kind # "batch"
    BY <2>1, <2>2
  <2> QED
    BY <1>1, <2>2, <2>3, <2>4, Zenon
<1>7. CASE SpillFails(t) \/ SpillDone(t) \/ ReadErase(t) \/ ResetFails(t)
  BY <1>1, <1>2, <1>7 DEF SpillFails, SpillDone, ReadErase, ResetFails, Returns, Pending, hist, Reliable
<1>8. CASE ResetRemove(t)
  <2>1. ~read_failed'
    BY <1>8 DEF ResetRemove, hist, Reliable
  <2>2. PICK op : ops' = [ops EXCEPT ![t] = op] /\ (op = Idle \/ \E rest : op = ResetOp(rest, TRUE))
    BY <1>8, Zenon DEF ResetRemove, Pending
  <2>3. op.kind # "batch"
    BY <1>2, <2>2
  <2> QED
    BY <1>1, <2>1, <2>2, <2>3, Zenon
<1>9. ASSUME NEW i, ReadLoadFails(t, i) \/ ReadRemoveFails(t, i) PROVE FALSE
  BY <1>0, <1>9 DEF ReadLoadFails, ReadRemoveFails, Resumes, ReliableReads, OpHolds
<1> QED
  BY <1>3, <1>4, <1>5, <1>6, <1>7, <1>8, <1>9 DEF Continue, Reliable

(* Where reads do not fail and no vector is written, that stays so.  *)
LEMMA ReliableStep ==
    ASSUME ReliableReads, IndInv, OrderInv, Reliable, OrderlyNext
    PROVE  Reliable'
<1>0. DOMAIN ops = Tasks
  BY DEF IndInv, OpsGood
<1>1. ASSUME NEW t \in Tasks, NEW op, ops' = [ops EXCEPT ![t] = op], op.kind # "batch",
             ~read_failed'
      PROVE  Reliable'
  BY <1>0, <1>1 DEF Reliable
<1>2. ASSUME UNCHANGED ops, ~read_failed' PROVE Reliable'
  BY <1>2 DEF Reliable
<1>3. ASSUME NEW t \in Tasks, NEW i \in Instances, NEW u \in Uids, Write(t, i, u),
             ops[t] = Idle
      PROVE  Reliable'
  <2>1. Rest(t) = Idle /\ Idle.kind # "batch" /\ \A snaps, offs : SpillOp(u, snaps, offs).kind # "batch"
    BY <1>3 DEF Rest, Idle, SpillOp
  <2>2. ~read_failed'
    BY <1>3 DEF Write, WriteDuplicate, WriteOnDisk, WriteInMemory, WriteSpills, WriteAborts,
                Stores, hist, Reliable
  <2>3. CASE WriteDuplicate(t, i, u) \/ WriteOnDisk(t, i, u) \/ WriteInMemory(t, i, u)
    BY <1>1, <2>1, <2>2, <2>3 DEF WriteDuplicate, WriteOnDisk, WriteInMemory, Pending
  <2>4. CASE WriteSpills(t, i, u)
    BY <1>1, <2>1, <2>2, <2>4 DEF WriteSpills, Pending
  <2> QED
    BY <1>3, <2>3, <2>4 DEF Write, WriteAborts
<1>4. CASE Managing
  <2>1. ASSUME NEW t \in Tasks, reset(t) PROVE Reliable'
    <3>1. \A rest : ResetOp(rest, FALSE).kind # "batch"
      BY DEF ResetOp
    <3>2. ~read_failed'
      BY <2>1 DEF reset, Reliable
    <3>3. ops' # ops => \E op : /\ ops' = [ops EXCEPT ![t] = op]
                                /\ \E rest : op = ResetOp(rest, FALSE)
      BY <2>1, Zenon DEF reset, Pending
    <3> QED
      BY <1>1, <1>2, <3>1, <3>2, <3>3, Zenon
  <2> QED
    BY <1>2, <1>4, <2>1 DEF Managing, delete_instance, check_group_timeouts, UpdateConfig, hist, Reliable
<1>5. ASSUME NEW t \in Tasks, Reading(t) PROVE Reliable'
  <2>1. \A ids, result, offsets, loaded : LoadOp(ids, result, offsets, loaded).kind # "batch"
    BY DEF LoadOp
  <2>2. ~read_failed'
    BY <1>5 DEF Reading, ReadScan, ReadNull, hist, Reliable
  <2>3. ops' # ops =>
          \E op : /\ ops' = [ops EXCEPT ![t] = op]
                  /\ \E ids, result, offsets, loaded : op = LoadOp(ids, result, offsets, loaded)
    <3>1. ASSUME NEW max, ReadNull(t, max) PROVE ops' = ops
      BY <3>1 DEF ReadNull
    <3>2. ASSUME NEW max, ReadScan(t, max)
          PROVE  \E ids, result, offsets, loaded :
                   ops' = [ops EXCEPT ![t] = LoadOp(ids, result, offsets, loaded)]
      BY <3>2, Zenon DEF ReadScan, Pending
    <3> QED
      BY <1>5, <3>1, <3>2 DEF Reading
  <2> QED
    BY <1>1, <1>2, <2>1, <2>2, <2>3, Zenon
<1>6. CASE Unlinking
  BY <1>2, <1>6 DEF Unlinking, Unlink, hist, Reliable
<1>7. CASE Quiet /\ Request
  BY <1>3, <1>4, <1>5, <1>7 DEF Request, Writing, ReliableReads
<1> QED
  BY <1>3, <1>6, <1>7, ContinueReliable DEF OrderlyNext, Continuing

(* Under a discipline, and if reads do not fail, every group that no read  *)
(* has claimed is where its entry says (the members groups_ and            *)
(* disk_storage_).                                                         *)
THEOREM Orderly ==
    ASSUME ReliableReads
    PROVE  OrderlySpec => [](IndInv /\ OrderInv /\ Reliable)
<1>1. Init => IndInv /\ OrderInv /\ Reliable
  BY InitInv, InitOrder DEF Init, Reliable, Idle
<1>2. IndInv /\ OrderInv /\ Reliable /\ [OrderlyNext]_vars => (IndInv /\ OrderInv /\ Reliable)'
  <2> SUFFICES ASSUME IndInv, OrderInv, Reliable, [OrderlyNext]_vars
               PROVE  IndInv' /\ OrderInv' /\ Reliable'
    OBVIOUS
  <2>1. CASE OrderlyNext
    BY <2>1, NextInv, OrderlyStep, ReliableStep, Disciplines DEF Excused, Aborted, Reliable
  <2>2. CASE UNCHANGED vars
    BY <2>2, Stuttering DEF Reliable, vars, hist
  <2> QED
    BY <2>1, <2>2
<1> QED
  BY <1>1, <1>2, PTL DEF OrderlySpec

(* The initial shard is an empty queue.  *)
LEMMA InitQueue == Init => Queue!Init
<1> SUFFICES ASSUME Init PROVE Queue!Init
  OBVIOUS
<1>1. /\ DOMAIN groups = {} /\ out = [u \in Uids |-> 0]
      /\ total_trajectories = Zero /\ gone = Zero
  BY DEF Init
<1> QED
  BY <1>1 DEF Queue!Init, Queue!Nothing, Zero

(* Under the common discipline the shard is a ShardQueue: every step of it *)
(* is one step of the queue or none.                                       *)
THEOREM QueueImplements ==
    ASSUME ReliableReads
    PROVE  OrderlySpec => ImplementsGroupQueue
<1> DEFINE seen == <<[i \in DOMAIN groups |-> GroupOf(i)], out, Queue!books>>
<1>1. IndInv /\ OrderInv /\ Reliable /\ [OrderlyNext]_vars => [Queue!Next]_seen
  <2> SUFFICES ASSUME IndInv, OrderInv, Reliable, [OrderlyNext]_vars
               PROVE  Queue!Next \/ UNCHANGED seen
    OBVIOUS
  <2>1. QueueStep
    <3>1. CASE OrderlyNext
      BY <3>1, OrderlyStep, ReliableStep DEF Excused, Aborted, Reliable
    <3>2. CASE UNCHANGED vars
      BY <3>2, Stuttering DEF QueueStep
    <3> QED
      BY <3>1, <3>2
  <2> QED
    BY <2>1, QueueSteps
<1> HIDE DEF seen
<1> QED
  BY <1>1, InitQueue, Orderly, PTL DEF OrderlySpec, ImplementsGroupQueue, Queue!Spec, seen

(* One call at a time, the shard is a ShardQueue: spilling, loading,       *)
(* unlinking and erasing are invisible, and no group is lost, duplicated,  *)
(* split or handed over early.                                             *)
THEOREM SerialImplements ==
    ASSUME ReliableReads
    PROVE  SerialSpec => ImplementsGroupQueue
BY QueueImplements, SerialIsOrderly, PTL

(* So it is among overlapping writers that leave complete groups alone,    *)
(* although one group may then be spilled twice (try_spill_groups).        *)
THEOREM WritersImplement ==
    ASSUME ReliableReads
    PROVE  WritersSpec => ImplementsGroupQueue
BY QueueImplements, WritersAreOrderly, PTL

-----------------------------------------------------------------------------
(* What the statistics of the serial discipline rest on *)

\* at most one call is pending
Alone(os) == \A s, t \in Tasks : s # t => os[s] = Idle \/ os[t] = Idle

\* the instances whose group the pending read has counted as consumed
Counted(os) == UNION {DOMAIN os[t].result : t \in {s \in Tasks : Reads(os[s])}}

\* how many trajectories of instance i are there and not yet consumed, the
\* queue being h
Left(h, counted, i) == IF i \in DOMAIN h \ counted THEN Size(h[i]) ELSE 0

\* what entry i adds to disk_usage_bytes
OnDisk(gs, claimed, i) ==
    IF i \in DOMAIN gs \ claimed /\ gs[i].group_ptr = NoGroup
    THEN gs[i].cached_bytes ELSE 0

Totals(total, consumed, deleted, h, counted) ==
    \A i \in Instances : total[i] = consumed[i] + Left(h, counted, i) + deleted[i]

Usage(usage, gs, claimed) == \A i \in Instances : usage[i] = OnDisk(gs, claimed, i)

\* the sizes of spilled groups
Cached(gs, claimed, h) ==
    \A i \in DOMAIN gs \ claimed : gs[i].group_ptr = NoGroup =>
        gs[i].cached_size = Size(h[i]) /\ gs[i].cached_bytes = Size(h[i])

\* the keys a pending spill has are still those it would choose
Chosen(os, gs, uids, dedup_on) ==
    \A t \in Tasks : os[t].kind = "spill" =>
        DOMAIN os[t].snaps \in SpillChoices(gs, uids, dedup_on)

StatInv ==
    /\ Alone(ops)
    /\ Totals(total_trajectories, total_consumed, gone, Held(ops, groups, files),
              Counted(ops))
    /\ Usage(disk_usage_bytes, groups, Claimed(ops))
    /\ Cached(groups, Claimed(ops), Held(ops, groups, files))
    /\ Chosen(ops, groups, dedup_filter, config.uid_dedup)

(* Where only task t may be pending, it alone claims and counts.  *)
LEMMA OnlyTask ==
    ASSUME NEW os, NEW t \in Tasks, \A s \in Tasks \ {t} : os[s] = Idle
    PROVE  /\ Alone(os)
           /\ Claimed(os) = IF Reads(os[t]) THEN os[t].ids ELSE {}
           /\ Counted(os) = IF Reads(os[t]) THEN DOMAIN os[t].result ELSE {}
<1>1. \A s \in Tasks : Reads(os[s]) => s = t
  BY DEF Reads, Idle
<1>2. {s \in Tasks : Reads(os[s])} = IF Reads(os[t]) THEN {t} ELSE {}
  BY <1>1
<1>3. Alone(os)
  BY DEF Alone
<1>4. CASE Reads(os[t])
  BY <1>2, <1>3, <1>4 DEF Claimed, Counted
<1>5. CASE ~Reads(os[t])
  BY <1>2, <1>3, <1>5 DEF Claimed, Counted
<1> QED
  BY <1>4, <1>5

(* The same after a step of task t.  *)
LEMMA OnlyTaskThen ==
    ASSUME DOMAIN ops = Tasks, NEW t \in Tasks, \A s \in Tasks \ {t} : ops[s] = Idle,
           NEW op, ops' = [ops EXCEPT ![t] = op]
    PROVE  /\ ops'[t] = op /\ \A s \in Tasks \ {t} : ops'[s] = Idle
           /\ Alone(ops')
           /\ Claimed(ops') = IF Reads(op) THEN op.ids ELSE {}
           /\ Counted(ops') = IF Reads(op) THEN DOMAIN op.result ELSE {}
<1> DEFINE os == ops'
<1>1. os[t] = op /\ \A s \in Tasks \ {t} : os[s] = Idle
  OBVIOUS
<1> HIDE DEF os
<1>2. /\ Alone(os)
      /\ Claimed(os) = IF Reads(op) THEN op.ids ELSE {}
      /\ Counted(os) = IF Reads(op) THEN DOMAIN op.result ELSE {}
  BY <1>1, OnlyTask
<1> QED
  BY <1>1, <1>2 DEF os

(* A pending call is the only one.  *)
LEMMA PendingAlone ==
    ASSUME Alone(ops), NEW t \in Tasks, ops[t] # Idle
    PROVE  \A s \in Tasks \ {t} : ops[s] = Idle
BY DEF Alone

(* Between two calls nothing is claimed.  *)
LEMMA NothingClaimed ==
    ASSUME NEW os, \A t \in Tasks : os[t] = Idle
    PROVE  Alone(os) /\ Claimed(os) = {} /\ Counted(os) = {}
<1>1. {s \in Tasks : Reads(os[s])} = {}
  BY DEF Reads, Idle
<1> QED
  BY <1>1 DEF Alone, Claimed, Counted

(* The groups of the queue are groups.  *)
LEMMA HeldGroups ==
    ASSUME IndInv, OrderInv, NEW i \in DOMAIN groups
    PROVE  /\ Held(ops, groups, files)[i] \in Group
           /\ Size(Held(ops, groups, files)[i]) \in Nat
<1>1. groups[i] \in Entry /\ \A o \in DOMAIN files : files[o] \in Group
  BY DEF IndInv, GroupsGood, FilesGood, Partial
<1>2. InPlace(groups[i], files, unlinking) => Stands(groups[i], files) \in Group
  BY <1>1 DEF InPlace, Stands, Entry
<1>3. Held(ops, groups, files)[i] \in Group
  <2>1. CASE \E t \in Tasks : Reads(ops[t])
    <3>1. PICK t \in Tasks : Reads(ops[t])
      BY <2>1
    <3>2. /\ OpHolds(ops[t], groups, files, unlinking)
          /\ \A j \in DOMAIN groups \ ops[t].ids : InPlace(groups[j], files, unlinking)
          /\ Held(ops, groups, files) = HeldBy(ops[t].result, groups, files)
      BY <3>1, ReadsBefore
    <3>3. CASE i \in DOMAIN ops[t].result
      <4>1. ops[t].result[i] \in Group
        BY <3>1, <3>3, LoadShape, UnlinkShape DEF Reads, Partial
      <4> QED
        BY <3>2, <3>3, <4>1 DEF HeldBy
    <3>4. CASE i \notin DOMAIN ops[t].result
      <4>1. i \in ops[t].ids => ops[t].kind = "load" /\ i \in DOMAIN ops[t].offsets
        BY <3>1, <3>4, LoadShape, UnlinkShape DEF Reads
      <4>2. InPlace(groups[i], files, unlinking)
        BY <3>2, <4>1 DEF OpHolds, InPlace
      <4> QED
        BY <1>2, <3>2, <3>4, <4>2 DEF HeldBy
    <3> QED
      BY <3>3, <3>4
  <2>2. CASE \A t \in Tasks : ~Reads(ops[t])
    <3>1. Claimed(ops) = {}
          /\ Held(ops, groups, files) = [j \in DOMAIN groups |-> Stands(groups[j], files)]
      BY <2>2, NoReader
    <3> QED
      BY <1>2, <3>1 DEF OrderInv, Placed
  <2> QED
    BY <2>1, <2>2
<1>4. Held(ops, groups, files)[i].trajectories \in Seq(Uids)
  BY <1>3 DEF Group
<1> QED
  BY <1>3, <1>4 DEF Size

(* A step that touches neither entries nor counters, and that claims and   *)
(* chooses what was claimed and chosen before, keeps the statistics.       *)
LEMMA StatStays ==
    ASSUME StatInv, HeldStays, UNCHANGED <<groups, stats, gone>>, Alone(ops'),
           Claimed(ops') = Claimed(ops), Counted(ops') = Counted(ops),
           \A t \in Tasks : ops'[t].kind = "spill" =>
                /\ ops[t].kind = "spill" /\ DOMAIN ops'[t].snaps = DOMAIN ops[t].snaps
                /\ UNCHANGED <<dedup_filter, config>>
    PROVE  StatInv'
<1>1. UNCHANGED <<total_trajectories, total_consumed, disk_usage_bytes>>
  BY DEF stats
<1>2. Chosen(ops', groups', dedup_filter', config.uid_dedup')
  BY DEF StatInv, Chosen
<1> QED
  BY <1>1, <1>2 DEF StatInv, HeldStays

(* The same for a step of task t alone.  *)
LEMMA StatGoesOn ==
    ASSUME IndInv, StatInv, HeldStays, UNCHANGED <<groups, stats, gone>>,
           NEW t \in Tasks, \A s \in Tasks \ {t} : ops[s] = Idle,
           NEW op, ops' = [ops EXCEPT ![t] = op],
           Reads(op) <=> Reads(ops[t]),
           Reads(op) => op.ids = ops[t].ids /\ DOMAIN op.result = DOMAIN ops[t].result,
           op.kind = "spill" => /\ ops[t].kind = "spill"
                                /\ DOMAIN op.snaps = DOMAIN ops[t].snaps
                                /\ UNCHANGED <<dedup_filter, config>>
    PROVE  StatInv'
<1>1. DOMAIN ops = Tasks
  BY DEF IndInv, OpsGood
<1>2. /\ ops'[t] = op /\ \A s \in Tasks \ {t} : ops'[s] = Idle
      /\ Alone(ops')
      /\ Claimed(ops') = IF Reads(op) THEN op.ids ELSE {}
      /\ Counted(ops') = IF Reads(op) THEN DOMAIN op.result ELSE {}
  BY <1>1, OnlyTaskThen
<1>3. /\ Claimed(ops) = IF Reads(ops[t]) THEN ops[t].ids ELSE {}
      /\ Counted(ops) = IF Reads(ops[t]) THEN DOMAIN ops[t].result ELSE {}
  BY OnlyTask
<1>4. ASSUME NEW s \in Tasks, ops'[s].kind = "spill"
      PROVE  /\ ops[s].kind = "spill" /\ DOMAIN ops'[s].snaps = DOMAIN ops[s].snaps
             /\ UNCHANGED <<dedup_filter, config>>
  BY <1>2, <1>4 DEF Idle
<1> QED
  BY <1>2, <1>3, <1>4, StatStays

(* The entry a write appends to has its group in memory.  (write) *)
LEMMA AppendsInMemory ==
    ASSUME IndInv, OrderInv, WritesOnly(ops), NEW i \in DOMAIN groups,
           ~IsOnDisk(EntryOf(i))
    PROVE  groups[i].group_ptr # NoGroup
<1>1. InPlace(groups[i], files, unlinking)
  BY AllInPlace
<1>2. groups[i].disk_offset \in Nat /\ 0 \notin DOMAIN files
  BY DEF IndInv, GroupsGood, FilesGood, Partial, Entry
<1> QED
  BY <1>1, <1>2 DEF InPlace, IsOnDisk, EntryOf

(* Storing a trajectory adds one to the total and to what is left.         *)
(* (write)                                                                 *)
LEMMA StoresStat ==
    ASSUME IndInv, OrderInv, StatInv, Quiet,
           NEW t \in Tasks, NEW i \in Instances, NEW u \in Uids, Stores(t, i, u),
           Collects(i, u), NEW op, ops' = [ops EXCEPT ![t] = op], ~Reads(op),
           op.kind = "spill" => DOMAIN op.snaps \in ToSpill
    PROVE  StatInv'
<1> DEFINE h == Held(ops, groups, files)
           h2 == Held(ops', groups', files')
           g == IF i \in DOMAIN h THEN h[i]
                ELSE [instance_id |-> i, trajectories |-> <<>>,
                      group_size |-> config.group_size, is_complete |-> FALSE]
           e == Appended(i, u)
<1>0. DOMAIN ops = Tasks /\ WritesOnly(ops) /\ \A s \in Tasks : ops[s] = Idle
  BY QuietBefore DEF Quiet
<1>1. Claimed(ops) = {} /\ Counted(ops) = {}
  BY <1>0, NothingClaimed
<1>2. /\ ops'[t] = op /\ \A s \in Tasks \ {t} : ops'[s] = Idle
      /\ Alone(ops') /\ Claimed(ops') = {} /\ Counted(ops') = {}
  BY <1>0, OnlyTaskThen
<1>3. /\ groups' = Put(groups, i, e) /\ ~IsOnDisk(EntryOf(i))
      /\ total_trajectories' = [total_trajectories EXCEPT ![i] = @ + 1]
      /\ UNCHANGED <<config, total_consumed, disk_usage_bytes, gone>>
  BY DEF Stores
<1>4. h2 = Put(h, i, Grown(g, u)) /\ Len(Append(g.trajectories, u)) = Len(g.trajectories) + 1
  BY DEF Collects
<1>5. DOMAIN h = DOMAIN groups
  BY DEF Held
<1>6. Size(Grown(g, u)) = Size(g) + 1
  BY <1>4 DEF Grown, Size
<1>7. e.group_ptr # NoGroup
  BY AppendedGroup, NoGroupAssumption
<1>8. i \in DOMAIN groups => groups[i].group_ptr # NoGroup
  BY <1>0, <1>3, AppendsInMemory
<1>9. Size(g) = Left(h, {}, i)
  BY DEF Left, Size
<1> HIDE DEF h, h2, g, e
<1>10. /\ Left(h2, {}, i) = Left(h, {}, i) + 1
       /\ \A j \in Instances \ {i} : Left(h2, {}, j) = Left(h, {}, j)
  BY <1>4, <1>6, <1>9 DEF Put, Left
<1>11. Totals(total_trajectories', total_consumed', gone', h2, {})
  <2>1. /\ total_trajectories \in [Instances -> Nat] /\ total_consumed \in [Instances -> Nat]
        /\ gone \in [Instances -> Nat]
    BY DEF IndInv, CountersOK
  <2>2. Totals(total_trajectories, total_consumed, gone, h, {})
    BY <1>1 DEF StatInv, h
  <2>3. ASSUME NEW j \in Instances PROVE Left(h, {}, j) \in Nat
    BY <1>5, HeldGroups DEF Left, h
  <2> QED
    BY <1>3, <1>10, <2>1, <2>2, <2>3 DEF Totals
<1>12. Usage(disk_usage_bytes', groups', {})
  <2>1. \A j \in Instances : OnDisk(groups', {}, j) = OnDisk(groups, {}, j)
    BY <1>3, <1>7, <1>8 DEF OnDisk, Put
  <2>2. Usage(disk_usage_bytes, groups, {})
    BY <1>1 DEF StatInv
  <2> QED
    BY <1>3, <2>1, <2>2 DEF Usage
<1>13. Cached(groups', {}, h2)
  <2>1. Cached(groups, {}, h)
    BY <1>1 DEF StatInv, h
  <2> QED
    BY <1>3, <1>4, <1>5, <1>7, <2>1 DEF Cached, Put
<1>14. Chosen(ops', groups', dedup_filter', config.uid_dedup')
  BY <1>2, <1>3 DEF Chosen, ToSpill, Idle
<1> QED
  BY <1>2, <1>11, <1>12, <1>13, <1>14 DEF StatInv, h2

(* A write keeps the statistics.  (write) *)
LEMMA WriteStat ==
    ASSUME IndInv, OrderInv, StatInv, Quiet, NEW t \in Tasks, NEW i \in Instances,
           NEW u \in Uids, Write(t, i, u)
    PROVE  StatInv'
<1>1. Rest(t) = Idle /\ ops[t] = Idle /\ WritesOnly(ops) /\ MayWrite(t, i)
      /\ \A s \in Tasks \ {t} : ops[s] = Idle
  BY QuietBefore DEF Rest, Quiet, MayWrite, Idle
<1>2. CASE WriteDuplicate(t, i, u) \/ WriteOnDisk(t, i, u)
  <2>1. /\ ops' = [ops EXCEPT ![t] = Idle]
        /\ UNCHANGED <<groups, files, unlinking, crashed, tallies, stats, gone>>
    BY <1>1, <1>2 DEF WriteDuplicate, WriteOnDisk, Pending, disk, hist, stats, tallies
  <2>2. HeldStays
    BY <1>1, <2>1, WritesReturn
  <2>3. Idle.kind # "spill" /\ ~Reads(Idle)
    BY DEF Idle, Reads
  <2> HIDE DEF Idle
  <2> QED
    BY <1>1, <2>1, <2>2, <2>3, StatGoesOn
<1>3. CASE WriteInMemory(t, i, u)
  <2>1. Stores(t, i, u) /\ ops' = [ops EXCEPT ![t] = Idle] /\ UNCHANGED crashed
    BY <1>1, <1>3 DEF WriteInMemory, Pending
  <2>2. Collects(i, u)
    BY <1>1, <2>1, IdleHolds, StoresOrder
  <2>3. Idle.kind # "spill" /\ ~Reads(Idle)
    BY DEF Idle, Reads
  <2> HIDE DEF Idle
  <2> QED
    BY <2>1, <2>2, <2>3, StoresStat
<1>4. CASE WriteSpills(t, i, u)
  <2>1. Stores(t, i, u) /\ UNCHANGED crashed
    BY <1>4 DEF WriteSpills
  <2>2. PICK K \in ToSpill :
          ops' = [ops EXCEPT ![t] = SpillOp(u, [k \in K |-> groups'[k].group_ptr],
                                            [k \in {} |-> 0])]
    BY <1>4 DEF WriteSpills, Pending
  <2> DEFINE op == SpillOp(u, [k \in K |-> groups'[k].group_ptr], [k \in {} |-> 0])
  <2>3. \A k \in K : k \in DOMAIN groups' /\ groups'[k].group_ptr # NoGroup
    BY <2>2 DEF ToSpill, SpillChoices, Spillable, InMemory
  <2>4. op.kind = "spill" /\ OpHolds(op, groups', files, unlinking)
    BY <2>3 DEF OpHolds, SpillOp, InPlace, Stands
  <2>5. DOMAIN op.snaps = K /\ ~Reads(op)
    BY DEF SpillOp, Reads
  <2> HIDE DEF op
  <2>6. ops' = [ops EXCEPT ![t] = op]
    BY <2>2 DEF op
  <2>7. UNCHANGED <<files, unlinking>>
    BY <2>1 DEF Stores, disk
  <2>8. Collects(i, u)
    BY <1>1, <2>1, <2>4, <2>6, <2>7, StoresOrder
  <2> QED
    BY <2>1, <2>2, <2>5, <2>6, <2>8, StoresStat
<1>5. CASE WriteAborts(t, i, u)
  BY <1>1, <1>5 DEF WriteAborts
<1> QED
  BY <1>2, <1>3, <1>4, <1>5 DEF Write

(* What a pending spill has copied is in memory still.  *)
LEMMA ChosenInMemory ==
    ASSUME StatInv, NEW t \in Tasks, ops[t].kind = "spill"
    PROVE  \A k \in DOMAIN ops[t].snaps :
             k \in DOMAIN groups /\ groups[k].group_ptr # NoGroup
<1>1. DOMAIN ops[t].snaps \in SpillChoices(groups, dedup_filter, config.uid_dedup)
  BY DEF StatInv, Chosen
<1>2. DOMAIN ops[t].snaps \subseteq InMemory(groups)
  BY <1>1 DEF SpillChoices, Spillable
<1> QED
  BY <1>2 DEF InMemory

(* A spill that goes on or fails keeps the statistics.  (spill_batch) *)
LEMMA SpillFileStat ==
    ASSUME IndInv, OrderInv, StatInv, NEW t \in Tasks, NEW k \in Instances,
           SpillFile(t, k) \/ SpillFails(t)
    PROVE  StatInv'
<1>1. ops[t].kind = "spill" /\ ~Reads(ops[t]) /\ \A s \in Tasks \ {t} : ops[s] = Idle
  <2>1. ops[t].kind = "spill"
    BY DEF SpillFile, SpillFails, Resumes
  <2> QED
    BY <2>1, PendingAlone DEF StatInv, Idle, Reads
<1>2. CASE SpillFile(t, k)
  <2> DEFINE op == [ops[t] EXCEPT !.offs = Put(ops[t].offs, k, last_id + 1)]
  <2>1. /\ ops' = [ops EXCEPT ![t] = op]
        /\ UNCHANGED <<groups, stats, gone, dedup_filter, config>>
    BY <1>2 DEF SpillFile, Pending, hist
  <2>2. op.kind = "spill" /\ op.snaps = ops[t].snaps
    <3>1. ops[t] = SpillOp(ops[t].uid, ops[t].snaps, ops[t].offs)
      BY <1>1, SpillShape
    <3> QED
      BY <3>1 DEF SpillOp
  <2>3. ~Reads(op) /\ HeldStays
    BY <1>2, <2>2, SpillFileOrder DEF Reads
  <2> HIDE DEF op
  <2> QED
    BY <1>1, <2>1, <2>2, <2>3, StatGoesOn
<1>3. CASE SpillFails(t)
  <2>1. /\ ops' = [ops EXCEPT ![t] = Idle]
        /\ UNCHANGED <<groups, files, unlinking, crashed, tallies, stats, gone>>
    BY <1>3 DEF SpillFails, Returns, Pending, disk, hist, stats, tallies
  <2>2. HeldStays
    BY <1>1, <2>1, SpillExcludes, WritesReturn
  <2>3. Idle.kind # "spill" /\ ~Reads(Idle)
    BY DEF Idle, Reads
  <2> HIDE DEF Idle
  <2> QED
    BY <1>1, <2>1, <2>2, <2>3, StatGoesOn
<1> QED
  BY <1>2, <1>3

(* Turning entries into on-disk ones adds their sizes to disk_usage_bytes. *)
(* (try_spill_groups)                                                      *)
LEMMA SpillDoneStat ==
    ASSUME IndInv, OrderInv, StatInv, NEW t \in Tasks, SpillDone(t)
    PROVE  StatInv'
<1> DEFINE spilled == DOMAIN ops[t].offs \intersect DOMAIN groups
           h == Held(ops, groups, files)
<1>1. /\ groups' = [i \in DOMAIN groups |-> IF i \in spilled THEN Spilled(t, i)
                                            ELSE groups[i]]
      /\ disk_usage_bytes' = [i \in Instances |-> disk_usage_bytes[i]
           + IF i \in spilled THEN InMemorySize(groups[i]) ELSE 0]
      /\ ops[t].kind = "spill" /\ ops' = [ops EXCEPT ![t] = Idle]
      /\ DOMAIN ops[t].offs = DOMAIN ops[t].snaps
      /\ UNCHANGED <<total_trajectories, total_consumed, gone>>
  BY DEF SpillDone, Resumes, Returns, Pending
<1>2. DOMAIN ops = Tasks /\ \A s \in Tasks \ {t} : ops[s] = Idle
  BY <1>1, PendingAlone DEF IndInv, OpsGood, StatInv, Idle
<1>3. Claimed(ops) = {} /\ Counted(ops) = {}
  BY <1>1, <1>2, OnlyTask DEF Reads
<1>4. /\ \A s \in Tasks : ops'[s] = Idle
      /\ Alone(ops') /\ Claimed(ops') = {} /\ Counted(ops') = {}
  <2> DEFINE os == ops'
  <2>1. \A s \in Tasks : os[s] = Idle
    BY <1>1, <1>2
  <2> HIDE DEF os
  <2>2. Alone(os) /\ Claimed(os) = {} /\ Counted(os) = {}
    BY <2>1, NothingClaimed
  <2> QED
    BY <2>1, <2>2 DEF os
<1>5. Held(ops', groups', files') = h
  BY SpillDoneOrder DEF HeldStays
<1>6. \A i \in spilled : groups[i].group_ptr # NoGroup /\ h[i] = groups[i].group_ptr
  <2>1. h = [i \in DOMAIN groups |-> Stands(groups[i], files)]
    BY <1>1, SpillExcludes, AllInPlace
  <2> HIDE DEF h
  <2> QED
    BY <1>1, <2>1, ChosenInMemory DEF Stands
<1>7. \A i \in DOMAIN groups : groups[i] \in Entry
  BY DEF IndInv, GroupsGood, Partial
<1>8. \A i \in spilled : /\ groups'[i].group_ptr = NoGroup
                         /\ groups'[i].cached_size = Size(h[i])
                         /\ groups'[i].cached_bytes = Size(h[i])
                         /\ InMemorySize(groups[i]) = Size(h[i])
                         /\ Size(h[i]) \in Nat
  BY <1>1, <1>6, <1>7, InMemorySizeType DEF Spilled, InMemorySize
<1>9. /\ DOMAIN groups' = DOMAIN groups
      /\ \A i \in DOMAIN groups \ spilled : groups'[i] = groups[i]
  BY <1>1
<1> HIDE DEF h, spilled
<1>10. Usage(disk_usage_bytes', groups', {})
  <2>1. disk_usage_bytes \in [Instances -> Int] /\ Usage(disk_usage_bytes, groups, {})
    BY <1>3 DEF IndInv, CountersOK, StatInv
  <2>2. ASSUME NEW i \in spilled
        PROVE  OnDisk(groups, {}, i) = 0 /\ OnDisk(groups', {}, i) = Size(h[i])
    BY <1>6, <1>8, <1>9 DEF OnDisk, spilled
  <2>3. ASSUME NEW i \in Instances \ spilled
        PROVE  OnDisk(groups', {}, i) = OnDisk(groups, {}, i)
    BY <1>9 DEF OnDisk
  <2>4. ASSUME NEW i \in Instances
        PROVE  disk_usage_bytes'[i] = OnDisk(groups', {}, i)
    <3>1. disk_usage_bytes[i] \in Int /\ disk_usage_bytes[i] = OnDisk(groups, {}, i)
      BY <2>1 DEF Usage
    <3>2. CASE i \in spilled
      <4>1. disk_usage_bytes'[i] = disk_usage_bytes[i] + Size(h[i])
        BY <1>1, <1>8, <3>2
      <4> QED
        BY <1>8, <2>2, <3>1, <3>2, <4>1
    <3>3. CASE i \notin spilled
      <4>1. disk_usage_bytes'[i] = disk_usage_bytes[i] + 0
        BY <1>1, <3>3
      <4> QED
        BY <2>3, <3>1, <3>3, <4>1
    <3> QED
      BY <3>2, <3>3
  <2> QED
    BY <2>4 DEF Usage
<1>11. Cached(groups', {}, h)
  <2>1. Cached(groups, {}, h)
    BY <1>3 DEF StatInv, h
  <2> QED
    BY <1>8, <1>9, <2>1 DEF Cached
<1>12. Chosen(ops', groups', dedup_filter', config.uid_dedup')
  BY <1>4 DEF Chosen, Idle
<1>13. Totals(total_trajectories', total_consumed', gone', h, {})
  BY <1>1, <1>3 DEF StatInv, h
<1> QED
  BY <1>4, <1>5, <1>10, <1>11, <1>12, <1>13 DEF StatInv

-----------------------------------------------------------------------------
(* Reading and the statistics *)

(* A scan counts what it moves out of memory as consumed, and what it      *)
(* claims on disk as off the disk.  (read_ready_groups)                    *)
LEMMA ReadScanStat ==
    ASSUME IndInv, OrderInv, StatInv, NEW t \in Tasks, NEW max, Quiet, ReadScan(t, max)
    PROVE  StatInv'
<1> DEFINE h == Held(ops, groups, files)
<1>0. WritesOnly(ops) /\ DOMAIN ops = Tasks /\ \A s \in Tasks : ops[s] = Idle
  BY DEF Quiet, WritesOnly, IndInv, OpsGood
<1>1. PICK ids \in Scans(max) \ {{}} :
        LET inmem == ids \intersect InMemory(groups)
        IN  /\ groups' = [i \in DOMAIN groups |->
                 IF i \in inmem THEN [groups[i] EXCEPT !.group_ptr = NoGroup]
                 ELSE groups[i]]
            /\ total_consumed' = [i \in Instances |-> total_consumed[i]
                  + IF i \in inmem THEN Size(groups[i].group_ptr) ELSE 0]
            /\ disk_usage_bytes' = [i \in Instances |-> disk_usage_bytes[i]
                  - IF i \in ids \ inmem THEN groups[i].cached_bytes ELSE 0]
            /\ ops' = [ops EXCEPT ![t] =
                 LoadOp(ids, [i \in inmem |-> groups[i].group_ptr],
                        [i \in ids \ inmem |-> groups[i].disk_offset],
                        [i \in {} |-> NoGroup])]
  BY DEF ReadScan, Pending
<1> DEFINE inmem == ids \intersect InMemory(groups)
           op == LoadOp(ids, [i \in inmem |-> groups[i].group_ptr],
                        [i \in ids \ inmem |-> groups[i].disk_offset],
                        [i \in {} |-> NoGroup])
<1>2. UNCHANGED <<total_trajectories, gone>>
  BY DEF ReadScan, hist
<1>3. ids \subseteq DOMAIN groups
  BY DEF Scans, Ready
<1>4. Claimed(ops) = {} /\ Counted(ops) = {}
  BY <1>0, NothingClaimed
<1>5. Reads(op) /\ op.ids = ids /\ DOMAIN op.result = inmem /\ op.kind = "load"
  BY DEF LoadOp, Reads
<1> HIDE DEF op
<1>6. /\ ops'[t] = op /\ \A s \in Tasks \ {t} : ops'[s] = Idle
      /\ Alone(ops') /\ Claimed(ops') = ids /\ Counted(ops') = inmem
  <2>1. ops' = [ops EXCEPT ![t] = op]
    BY <1>1 DEF op
  <2> QED
    BY <1>0, <1>5, <2>1, OnlyTaskThen
<1>7. Held(ops', groups', files') = h /\ DOMAIN h = DOMAIN groups
  BY ReadScanOrder DEF HeldStays, Held
<1>8. \A i \in inmem : h[i] = groups[i].group_ptr /\ Size(h[i]) \in Nat
  <2>1. h = [i \in DOMAIN groups |-> Stands(groups[i], files)]
    BY <1>0, AllInPlace
  <2>2. \A i \in DOMAIN groups : Size(h[i]) \in Nat
    BY HeldGroups
  <2> HIDE DEF h
  <2> QED
    BY <1>3, <2>1, <2>2 DEF Stands, InMemory
<1>9. /\ DOMAIN groups' = DOMAIN groups
      /\ \A i \in DOMAIN groups \ ids : groups'[i] = groups[i]
      /\ \A i \in ids : groups[i].group_ptr # NoGroup <=> i \in inmem
      /\ inmem \subseteq ids
  BY <1>1, <1>3 DEF InMemory
<1>10. Totals(total_trajectories', total_consumed', gone', h, inmem)
  <2>1. /\ total_trajectories \in [Instances -> Nat] /\ total_consumed \in [Instances -> Nat]
        /\ gone \in [Instances -> Nat]
    BY DEF IndInv, CountersOK
  <2>2. Totals(total_trajectories, total_consumed, gone, h, {})
    BY <1>4 DEF StatInv
  <2>3. ASSUME NEW i \in inmem PROVE Left(h, {}, i) = Size(h[i]) /\ Left(h, inmem, i) = 0
    BY <1>3, <1>7, <1>9, <2>3 DEF Left
  <2>4. ASSUME NEW i \in Instances \ inmem PROVE Left(h, inmem, i) = Left(h, {}, i)
    BY DEF Left
  <2>5. ASSUME NEW i \in Instances PROVE Left(h, {}, i) \in Nat
    BY <1>7, HeldGroups DEF Left
  <2>6. \A i \in Instances : total_consumed'[i] = total_consumed[i]
          + IF i \in inmem THEN Size(h[i]) ELSE 0
    BY <1>1, <1>8
  <2> HIDE DEF h, inmem
  <2> QED
    BY <1>2, <1>8, <2>1, <2>2, <2>3, <2>4, <2>5, <2>6 DEF Totals
<1>11. Usage(disk_usage_bytes', groups', ids)
  <2>1. disk_usage_bytes \in [Instances -> Int] /\ Usage(disk_usage_bytes, groups, {})
    BY <1>4 DEF IndInv, CountersOK, StatInv
  <2>2. \A i \in Instances : disk_usage_bytes'[i] = disk_usage_bytes[i]
          - IF i \in ids \ inmem THEN groups[i].cached_bytes ELSE 0
    BY <1>1
  <2>3. \A i \in Instances : OnDisk(groups', ids, i) =
          IF i \in ids THEN 0 ELSE OnDisk(groups, {}, i)
    BY <1>9 DEF OnDisk
  <2>4. \A i \in Instances \intersect ids :
          OnDisk(groups, {}, i) = IF i \in ids \ inmem THEN groups[i].cached_bytes ELSE 0
    BY <1>3, <1>9 DEF OnDisk
  <2> HIDE DEF inmem
  <2> QED
    BY <1>9, <2>1, <2>2, <2>3, <2>4 DEF Usage
<1>12. Cached(groups', ids, h)
  <2>1. Cached(groups, {}, h)
    BY <1>4 DEF StatInv
  <2> QED
    BY <1>9, <2>1 DEF Cached
<1>13. Chosen(ops', groups', dedup_filter', config.uid_dedup')
  BY <1>5, <1>6 DEF Chosen, Idle
<1> QED
  BY <1>6, <1>7, <1>10, <1>11, <1>12, <1>13 DEF StatInv

(* Loading and removing files keep the statistics.  (load_batch, remove) *)
LEMMA ReadFileStat ==
    ASSUME IndInv, OrderInv, StatInv, NEW t \in Tasks,
           (\E i \in Instances : ReadLoad(t, i)) \/ (\E o : ReadRemove(t, o))
    PROVE  StatInv'
<1>1. Reads(ops[t]) /\ \A s \in Tasks \ {t} : ops[s] = Idle
  <2>1. Reads(ops[t])
    BY DEF ReadLoad, ReadRemove, Resumes, Reads
  <2> QED
    BY <2>1, ReadExcludes
<1>2. ASSUME NEW i \in Instances, ReadLoad(t, i) PROVE StatInv'
  <2> DEFINE op == [ops[t] EXCEPT !.loaded = Put(ops[t].loaded, i, files[ops[t].offsets[i]])]
  <2>1. ops' = [ops EXCEPT ![t] = op] /\ UNCHANGED <<groups, stats, gone>>
    BY <1>2 DEF ReadLoad, Pending, hist
  <2>2. op.kind = "load" /\ op.ids = ops[t].ids /\ op.result = ops[t].result
    <3>1. ops[t] = LoadOp(ops[t].ids, ops[t].result, ops[t].offsets, ops[t].loaded)
      BY <1>2, LoadShape DEF ReadLoad, Resumes
    <3> QED
      BY <3>1 DEF LoadOp
  <2>3. HeldStays /\ Reads(op)
    BY <1>2, <2>2, ReadLoadOrder DEF Reads
  <2> HIDE DEF op
  <2> QED
    BY <1>1, <2>1, <2>2, <2>3, StatGoesOn
<1>3. ASSUME NEW o, ReadRemove(t, o) PROVE StatInv'
  <2> DEFINE op == [ops[t] EXCEPT !.rest = @ \ {o}]
  <2>1. ops' = [ops EXCEPT ![t] = op] /\ UNCHANGED <<groups, stats, gone>>
    BY <1>3 DEF ReadRemove, Pending, hist
  <2>2. op.kind = "unlink" /\ op.ids = ops[t].ids /\ op.result = ops[t].result
    <3>1. ops[t] = UnlinkOp(ops[t].ids, ops[t].result, ops[t].rest)
      BY <1>3, UnlinkShape DEF ReadRemove, Resumes
    <3> QED
      BY <3>1 DEF UnlinkOp
  <2>3. HeldStays /\ Reads(op)
    BY <1>3, <2>2, ReadRemoveOrder DEF Reads
  <2> HIDE DEF op
  <2> QED
    BY <1>1, <2>1, <2>2, <2>3, StatGoesOn
<1> QED
  BY <1>2, <1>3

(* Putting what was loaded into the result counts it as consumed.          *)
(* (read_ready_groups)                                                     *)
LEMMA ReadMergeStat ==
    ASSUME IndInv, OrderInv, StatInv, NEW t \in Tasks, ReadMerge(t)
    PROVE  StatInv'
<1> DEFINE h == Held(ops, groups, files)
           cur == ops[t]
           result == [i \in cur.ids |-> IF i \in DOMAIN cur.loaded THEN cur.loaded[i]
                                        ELSE cur.result[i]]
           op == UnlinkOp(cur.ids, result, {cur.offsets[i] : i \in DOMAIN cur.offsets})
           more == DOMAIN cur.offsets
           done == DOMAIN cur.result
<1>1. /\ cur.kind = "load" /\ DOMAIN cur.loaded = more
      /\ ops' = [ops EXCEPT ![t] = op]
      /\ total_consumed' = [i \in Instances |-> total_consumed[i]
           + IF i \in more THEN Size(cur.loaded[i]) ELSE 0]
      /\ UNCHANGED <<groups, total_trajectories, disk_usage_bytes, gone>>
  BY DEF ReadMerge, Resumes, Pending, hist
<1>2. Reads(cur) /\ cur.ids = done \union more /\ Reads(op) /\ op.ids = cur.ids
      /\ DOMAIN op.result = cur.ids
  BY <1>1, LoadShape DEF Reads, UnlinkOp
<1>3. DOMAIN ops = Tasks /\ \A s \in Tasks \ {t} : ops[s] = Idle
  BY <1>2, ReadExcludes DEF IndInv, OpsGood
<1>4. Claimed(ops) = cur.ids /\ Counted(ops) = done
  BY <1>2, <1>3, OnlyTask
<1> HIDE DEF op
<1>5. /\ ops'[t] = op /\ \A s \in Tasks \ {t} : ops'[s] = Idle
      /\ Alone(ops') /\ Claimed(ops') = cur.ids /\ Counted(ops') = cur.ids
  BY <1>1, <1>2, <1>3, OnlyTaskThen
<1>6. Held(ops', groups', files') = h /\ DOMAIN h = DOMAIN groups
  BY ReadMergeOrder DEF HeldStays, Held
<1>7. /\ cur.ids \subseteq DOMAIN groups /\ done \intersect more = {}
      /\ \A i \in more : h[i] = cur.loaded[i]
  <2>1. OpHolds(cur, groups, files, unlinking) /\ h = HeldBy(cur.result, groups, files)
    BY <1>2, ReadsBefore
  <2>2. cur.ids \subseteq DOMAIN groups /\ done \intersect more = {}
    BY <1>1, <2>1 DEF OpHolds
  <2>3. \A i \in more : Stands(groups[i], files) = cur.loaded[i]
    BY <1>1, <2>1 DEF OpHolds, Stands
  <2>4. \A i \in more : h[i] = Stands(groups[i], files)
    BY <1>2, <2>1, <2>2 DEF HeldBy
  <2> QED
    BY <2>2, <2>3, <2>4
<1>8. \A i \in DOMAIN groups : Size(h[i]) \in Nat
  BY HeldGroups
<1> HIDE DEF h, more, done
<1>9. Totals(total_trajectories', total_consumed', gone', h, cur.ids)
  <2>1. /\ total_trajectories \in [Instances -> Nat] /\ total_consumed \in [Instances -> Nat]
        /\ gone \in [Instances -> Nat]
    BY DEF IndInv, CountersOK
  <2>2. Totals(total_trajectories, total_consumed, gone, h, done)
    BY <1>4 DEF StatInv, h
  <2>3. ASSUME NEW i \in more
        PROVE  Left(h, done, i) = Size(h[i]) /\ Left(h, cur.ids, i) = 0 /\ Size(h[i]) \in Nat
    BY <1>2, <1>6, <1>7, <1>8, <2>3 DEF Left
  <2>4. ASSUME NEW i \in Instances \ more
        PROVE  Left(h, cur.ids, i) = Left(h, done, i)
    BY <1>2 DEF Left
  <2>5. ASSUME NEW i \in Instances PROVE Left(h, done, i) \in Nat
    BY <1>6, <1>8 DEF Left
  <2>6. ASSUME NEW i \in Instances
        PROVE  total_consumed'[i] = total_consumed[i] + IF i \in more THEN Size(h[i]) ELSE 0
    BY <1>1, <1>7
  <2> HIDE DEF cur
  <2> QED
    BY <1>1, <2>1, <2>2, <2>3, <2>4, <2>5, <2>6 DEF Totals
<1>10. Usage(disk_usage_bytes', groups', cur.ids) /\ Cached(groups', cur.ids, h)
  BY <1>1, <1>4 DEF StatInv, h
<1>11. Chosen(ops', groups', dedup_filter', config.uid_dedup')
  BY <1>2, <1>5 DEF Chosen, Idle, Reads
<1> QED
  BY <1>5, <1>6, <1>9, <1>10, <1>11 DEF StatInv

(* Erasing entries that are claimed and counted changes no sum.            *)
(* (read_ready_groups)                                                     *)
LEMMA ReadEraseStat ==
    ASSUME IndInv, OrderInv, StatInv, NEW t \in Tasks, ReadErase(t)
    PROVE  StatInv'
<1> DEFINE h == Held(ops, groups, files)
           h2 == Held(ops', groups', files')
           ids == ops[t].ids
<1>1. /\ ops[t].kind = "unlink" /\ groups' = Drop(groups, ids)
      /\ ops' = [ops EXCEPT ![t] = Idle]
      /\ UNCHANGED <<total_trajectories, total_consumed, disk_usage_bytes, gone>>
  BY DEF ReadErase, Resumes, Returns, Pending, stats
<1>2. Reads(ops[t]) /\ DOMAIN ops[t].result = ids
  BY <1>1, UnlinkShape DEF Reads
<1>3. DOMAIN ops = Tasks /\ \A s \in Tasks \ {t} : ops[s] = Idle
  BY <1>2, ReadExcludes DEF IndInv, OpsGood
<1>4. Claimed(ops) = ids /\ Counted(ops) = ids
  BY <1>2, <1>3, OnlyTask
<1>5. /\ \A s \in Tasks : ops'[s] = Idle
      /\ Alone(ops') /\ Claimed(ops') = {} /\ Counted(ops') = {}
  <2> DEFINE os == ops'
  <2>1. \A s \in Tasks : os[s] = Idle
    BY <1>1, <1>3
  <2> HIDE DEF os
  <2>2. Alone(os) /\ Claimed(os) = {} /\ Counted(os) = {}
    BY <2>1, NothingClaimed
  <2> QED
    BY <2>1, <2>2 DEF os
<1>6. h2 = [i \in DOMAIN h \ ids |-> h[i]]
  BY ReadEraseOrder DEF Gives
<1> HIDE DEF h, h2, ids
<1>7. Totals(total_trajectories', total_consumed', gone', h2, {})
  <2>1. \A i \in Instances : Left(h2, {}, i) = Left(h, ids, i)
    BY <1>6 DEF Left
  <2> QED
    BY <1>1, <1>4, <2>1 DEF StatInv, Totals, h
<1>8. Usage(disk_usage_bytes', groups', {})
  <2>1. \A i \in Instances : OnDisk(groups', {}, i) = OnDisk(groups, ids, i)
    BY <1>1 DEF OnDisk, Drop
  <2> QED
    BY <1>1, <1>4, <2>1 DEF StatInv, Usage
<1>9. Cached(groups', {}, h2)
  <2>1. Cached(groups, ids, h) /\ DOMAIN h = DOMAIN groups
    BY <1>4 DEF StatInv, h, Held
  <2> QED
    BY <1>1, <1>6, <2>1 DEF Cached, Drop
<1>10. Chosen(ops', groups', dedup_filter', config.uid_dedup')
  BY <1>5 DEF Chosen, Idle
<1> QED
  BY <1>5, <1>7, <1>8, <1>9, <1>10 DEF StatInv, h2

-----------------------------------------------------------------------------
(* Management and the statistics *)

(* Deleting an instance moves what was left of it to what is gone.         *)
(* (delete_instance)                                                       *)
LEMMA DeleteStat ==
    ASSUME IndInv, OrderInv, StatInv, Quiet, NEW i \in Instances, delete_instance(i)
    PROVE  StatInv'
<1> DEFINE h == Held(ops, groups, files)
           h2 == Held(ops', groups', files')
<1>1. /\ i \in DOMAIN groups /\ groups' = Drop(groups, {i})
      /\ gone' = [gone EXCEPT ![i] = @ + Holds(groups[i])]
      /\ disk_usage_bytes' = IF IsOnDisk(groups[i])
           THEN [disk_usage_bytes EXCEPT ![i] = @ - groups[i].cached_bytes]
           ELSE disk_usage_bytes
      /\ UNCHANGED <<total_trajectories, total_consumed, ops>>
  BY DEF delete_instance
<1>2. \A s \in Tasks : ops[s] = Idle
  BY DEF Quiet
<1>3. Claimed(ops) = {} /\ Counted(ops) = {}
  BY <1>2, NothingClaimed
<1>4. h2 = [j \in DOMAIN h \ {i} |-> h[j]] /\ DOMAIN h = DOMAIN groups
  BY DeleteOrder DEF Deletes, Held
<1>5. Holds(groups[i]) = Size(h[i]) /\ Size(h[i]) \in Nat
  <2>1. h[i] = Stands(groups[i], files) /\ InPlace(groups[i], files, unlinking)
    BY <1>1, QuietBefore
  <2>2. Size(h[i]) \in Nat
    BY <1>1, HeldGroups
  <2> HIDE DEF h
  <2> QED
    BY <2>1, <2>2 DEF Holds, Stands, InPlace
<1>6. \A j \in DOMAIN groups : Size(h[j]) \in Nat
  BY HeldGroups
<1> HIDE DEF h, h2
<1>7. Totals(total_trajectories', total_consumed', gone', h2, {})
  <2>1. /\ total_trajectories \in [Instances -> Nat] /\ total_consumed \in [Instances -> Nat]
        /\ gone \in [Instances -> Nat]
    BY DEF IndInv, CountersOK
  <2>2. Totals(total_trajectories, total_consumed, gone, h, {})
    BY <1>3 DEF StatInv, h
  <2>3. /\ Left(h, {}, i) = Size(h[i]) /\ Left(h2, {}, i) = 0
        /\ \A j \in Instances \ {i} : Left(h2, {}, j) = Left(h, {}, j)
    BY <1>1, <1>4 DEF Left
  <2>4. ASSUME NEW j \in Instances PROVE Left(h, {}, j) \in Nat
    BY <1>4, <1>6 DEF Left
  <2> QED
    BY <1>1, <1>5, <2>1, <2>2, <2>3, <2>4 DEF Totals
<1>8. Usage(disk_usage_bytes', groups', {})
  <2>1. disk_usage_bytes \in [Instances -> Int] /\ Usage(disk_usage_bytes, groups, {})
    BY <1>3 DEF IndInv, CountersOK, StatInv
  <2>2. /\ OnDisk(groups', {}, i) = 0
        /\ \A j \in Instances \ {i} : OnDisk(groups', {}, j) = OnDisk(groups, {}, j)
    BY <1>1 DEF OnDisk, Drop
  <2>3. OnDisk(groups, {}, i) = IF IsOnDisk(groups[i]) THEN groups[i].cached_bytes ELSE 0
    <3>1. InPlace(groups[i], files, unlinking) /\ groups[i].disk_offset \in Nat
      BY <1>1, QuietBefore DEF IndInv, GroupsGood, Partial, Entry
    <3>2. 0 \notin DOMAIN files
      BY DEF IndInv, FilesGood, Partial
    <3> QED
      BY <1>1, <3>1, <3>2 DEF OnDisk, IsOnDisk, InPlace
  <2>4. groups[i].cached_bytes \in Nat
    BY <1>1 DEF IndInv, GroupsGood, Partial, Entry
  <2> QED
    BY <1>1, <2>1, <2>2, <2>3, <2>4 DEF Usage
<1>9. Cached(groups', {}, h2)
  <2>1. Cached(groups, {}, h)
    BY <1>3 DEF StatInv, h
  <2> QED
    BY <1>1, <1>4, <2>1 DEF Cached, Drop
<1>10. Chosen(ops', groups', dedup_filter', config.uid_dedup')
  BY <1>1, <1>2 DEF Chosen, Idle
<1>11. Alone(ops') /\ Claimed(ops') = {} /\ Counted(ops') = {}
  BY <1>1, <1>3 DEF StatInv
<1> QED
  BY <1>7, <1>8, <1>9, <1>10, <1>11 DEF StatInv, h2

(* Clearing the shard clears the statistics.  (reset) *)
LEMMA ResetStat ==
    ASSUME IndInv, StatInv, Quiet, NEW t \in Tasks, reset(t)
    PROVE  StatInv'
<1> DEFINE h2 == Held(ops', groups', files')
           os == ops'
<1>1. /\ DOMAIN groups' = {}
      /\ total_trajectories' = Zero /\ total_consumed' = Zero
      /\ disk_usage_bytes' = Zero /\ gone' = Zero
      /\ os = ops \/ \E rest : os = [ops EXCEPT ![t] = ResetOp(rest, FALSE)]
  BY DEF reset, Pending
<1>2. DOMAIN ops = Tasks /\ \A s \in Tasks : ops[s] = Idle
  BY DEF Quiet, IndInv, OpsGood
<1>3. /\ \A s \in Tasks \ {t} : os[s] = Idle
      /\ ~Reads(os[t]) /\ os[t].kind # "spill"
  BY <1>1, <1>2 DEF Idle, ResetOp, Reads
<1>4. DOMAIN h2 = {}
  BY <1>1 DEF Held
<1> HIDE DEF os, h2
<1>5. Alone(os) /\ Claimed(os) = {} /\ Counted(os) = {}
  BY <1>3, OnlyTask
<1>6. \A i \in Instances : Left(h2, {}, i) = 0 /\ OnDisk(groups', {}, i) = 0
  BY <1>1, <1>4 DEF Left, OnDisk
<1>7. /\ Totals(total_trajectories', total_consumed', gone', h2, {})
      /\ Usage(disk_usage_bytes', groups', {}) /\ Cached(groups', {}, h2)
  BY <1>1, <1>4, <1>6 DEF Totals, Usage, Cached, Zero
<1>8. Chosen(os, groups', dedup_filter', config.uid_dedup')
  BY <1>3 DEF Chosen, Idle
<1> QED
  BY <1>5, <1>7, <1>8 DEF StatInv, os, h2

(* So the removal of its files.  (reset) *)
LEMMA ResetGoesOnStat ==
    ASSUME IndInv, OrderInv, StatInv, NEW t \in Tasks, ResetRemove(t) \/ ResetFails(t)
    PROVE  StatInv'
<1>1. /\ ops[t].kind = "reset" /\ UNCHANGED <<groups, stats, gone>>
      /\ \E op : ops' = [ops EXCEPT ![t] = op] /\ (op = Idle \/ \E rest : op = ResetOp(rest, TRUE))
  BY Zenon DEF ResetRemove, ResetFails, Resumes, Pending, Returns, disk, hist
<1>2. PICK op : /\ ops' = [ops EXCEPT ![t] = op]
                /\ op = Idle \/ \E rest : op = ResetOp(rest, TRUE)
  BY <1>1
<1>3. op.kind # "spill" /\ ~Reads(op) /\ ~Reads(ops[t])
  BY <1>1, <1>2 DEF Reads, Idle, ResetOp
<1>4. HeldStays /\ \A s \in Tasks \ {t} : ops[s] = Idle
  BY <1>1, ResetGoesOn, ReadExcludes
<1> QED
  BY <1>1, <1>2, <1>3, <1>4, StatGoesOn

(* Groups that become ready keep their sizes.  (check_group_timeouts) *)
LEMMA TimeoutsStat ==
    ASSUME IndInv, OrderInv, StatInv, Quiet, check_group_timeouts
    PROVE  StatInv'
<1> DEFINE h == Held(ops, groups, files)
           h2 == Held(ops', groups', files')
<1>1. PICK old \in SUBSET (DOMAIN groups \ Ready) :
        groups' = [i \in DOMAIN groups |->
            IF i \in old THEN [groups[i] EXCEPT !.group_ptr.is_complete = TRUE]
            ELSE groups[i]]
  BY DEF check_group_timeouts
<1>2. UNCHANGED <<ops, stats, gone>> /\ \A s \in Tasks : ops[s] = Idle
  BY DEF check_group_timeouts, hist, Quiet
<1>3. Claimed(ops) = {} /\ Counted(ops) = {}
  BY <1>2, NothingClaimed
<1>4. PICK S : Expires(S)
  BY TimeoutsOrder
<1>5. h2 = [i \in DOMAIN h |-> IF i \in S THEN [h[i] EXCEPT !.is_complete = TRUE] ELSE h[i]]
  BY <1>4 DEF Expires
<1>6. DOMAIN h = DOMAIN groups /\ \A i \in DOMAIN h : h[i] \in Group
  BY HeldGroups DEF Held
<1> HIDE DEF h, h2
<1>7. DOMAIN h2 = DOMAIN h /\ \A i \in DOMAIN h : Size(h2[i]) = Size(h[i])
  BY <1>5, <1>6 DEF Group, Size
<1>8. ASSUME NEW i \in DOMAIN groups
      PROVE  /\ groups'[i].group_ptr = NoGroup <=> groups[i].group_ptr = NoGroup
             /\ groups'[i].cached_size = groups[i].cached_size
             /\ groups'[i].cached_bytes = groups[i].cached_bytes
  <2>1. groups[i] \in Entry
    BY DEF IndInv, GroupsGood, Partial
  <2>2. CASE i \in old
    <3> DEFINE g == groups[i].group_ptr
               g2 == [g EXCEPT !.is_complete = TRUE]
    <3>1. g \in Group /\ g # NoGroup
      BY <2>1, <2>2 DEF Ready, IsComplete, Entry
    <3>2. groups'[i] = [groups[i] EXCEPT !.group_ptr = g2]
      BY <1>1, <2>2
    <3>3. g2 \in Group
      BY <3>1 DEF Group
    <3> HIDE DEF g2
    <3> QED
      BY <2>1, <3>1, <3>2, <3>3, NoGroupAssumption DEF Entry
  <2>3. CASE i \notin old
    BY <1>1, <2>3
  <2> QED
    BY <2>2, <2>3
<1>9. DOMAIN groups' = DOMAIN groups
  BY <1>1
<1>10. Totals(total_trajectories', total_consumed', gone', h2, {})
  <2>1. \A i \in Instances : Left(h2, {}, i) = Left(h, {}, i)
    BY <1>7 DEF Left
  <2> QED
    BY <1>2, <1>3, <2>1 DEF StatInv, Totals, stats, h
<1>11. Usage(disk_usage_bytes', groups', {})
  <2>1. \A i \in Instances : OnDisk(groups', {}, i) = OnDisk(groups, {}, i)
    BY <1>8, <1>9 DEF OnDisk
  <2> QED
    BY <1>2, <1>3, <2>1 DEF StatInv, Usage, stats
<1>12. Cached(groups', {}, h2)
  <2>1. Cached(groups, {}, h)
    BY <1>3 DEF StatInv, h
  <2> QED
    BY <1>6, <1>7, <1>8, <1>9, <2>1 DEF Cached
<1>13. Chosen(ops', groups', dedup_filter', config.uid_dedup')
  BY <1>2 DEF Chosen, Idle
<1>14. Alone(ops') /\ Claimed(ops') = {} /\ Counted(ops') = {}
  BY <1>2, <1>3 DEF StatInv
<1> QED
  BY <1>10, <1>11, <1>12, <1>13, <1>14 DEF StatInv, h2

(* A change of the configuration and the removal of a deleted file touch   *)
(* no statistics.  (update_config, delete_instance)                        *)
LEMMA ApartStat ==
    ASSUME IndInv, OrderInv, StatInv,
           \/ Quiet /\ \E size, dedup : UpdateConfig(size, dedup)
           \/ Unlinking
    PROVE  StatInv'
<1>1. CASE Quiet /\ \E size, dedup : UpdateConfig(size, dedup)
  <2>1. UNCHANGED <<groups, files, ops, out, stats, gone>>
    BY <1>1 DEF UpdateConfig, disk, hist
  <2>2. \A t \in Tasks : ops'[t].kind # "spill"
    BY <1>1, <2>1 DEF Quiet, Idle
  <2> QED
    BY <2>1, <2>2, StatStays DEF HeldStays, StatInv, stats, tallies
<1>2. CASE Unlinking
  <2>1. PICK o \in unlinking : Unlink(o)
    BY <1>2 DEF Unlinking
  <2>2. UNCHANGED <<groups, ops, stats, gone, dedup_filter, config>>
    BY <2>1 DEF Unlink, hist
  <2>3. HeldStays
    BY <2>1, UnlinkOrder
  <2> QED
    BY <2>2, <2>3, StatStays DEF StatInv
<1> QED
  BY <1>1, <1>2

(* One call at a time, every step keeps the statistics.  *)
LEMMA SerialStat ==
    ASSUME ReliableReads, IndInv, OrderInv, Reliable, StatInv, SerialNext, OrderInv'
    PROVE  StatInv'
<1>1. ASSUME NEW t \in Tasks, Continue(t) PROVE StatInv'
  <2>1. OpHolds(ops[t], groups, files, unlinking)
    BY DEF OrderInv, Holds4
  <2>2. ops[t].kind # "batch"
    BY DEF Reliable
  <2>3. ASSUME NEW k \in Instances, SpillFile(t, k) PROVE StatInv'
    BY <2>3, SpillFileStat
  <2>4. CASE SpillFails(t)
    <3>1. CASE Instances = {}
      <4>1. ops[t].kind = "spill" /\ DOMAIN ops[t].offs # DOMAIN ops[t].snaps
        BY <2>4 DEF SpillFails, Resumes
      <4> QED
        BY <3>1, <4>1, SpillShape DEF Partial
    <3>2. CASE Instances # {}
      BY <2>4, <3>2, SpillFileStat
    <3> QED
      BY <3>1, <3>2
  <2>5. CASE SpillDone(t)
    BY <2>5, SpillDoneStat
  <2>6. ASSUME NEW i \in Instances, ReadLoad(t, i) PROVE StatInv'
    BY <2>6, ReadFileStat
  <2>7. ASSUME NEW i \in Instances, ReadLoadFails(t, i) PROVE FALSE
    BY <2>1, <2>7 DEF ReadLoadFails, Resumes, ReliableReads, OpHolds
  <2>8. CASE ReadMerge(t)
    BY <2>8, ReadMergeStat
  <2>9. ASSUME NEW o, ReadRemove(t, o) PROVE StatInv'
    BY <2>9, ReadFileStat
  <2>10. ASSUME NEW o, ReadRemoveFails(t, o) PROVE FALSE
    BY <2>1, <2>10 DEF ReadRemoveFails, Resumes, ReliableReads, OpHolds
  <2>11. CASE ReadErase(t)
    BY <2>11, ReadEraseStat
  <2>12. CASE ResetRemove(t) \/ ResetFails(t)
    BY <2>12, ResetGoesOnStat
  <2> QED
    BY <1>1, <2>2, <2>3, <2>4, <2>5, <2>6, <2>7, <2>8, <2>9, <2>10, <2>11, <2>12
       DEF Continue
<1>2. CASE Quiet /\ Request
  <2>1. ASSUME NEW t \in Tasks, reset(t) PROVE StatInv'
    BY <1>2, <2>1, ResetStat
  <2>2. ASSUME NEW i \in Instances, delete_instance(i) PROVE StatInv'
    BY <1>2, <2>2, DeleteStat
  <2>3. CASE check_group_timeouts
    BY <1>2, <2>3, TimeoutsStat
  <2>4. ASSUME NEW size, NEW dedup, UpdateConfig(size, dedup) PROVE StatInv'
    BY <1>2, <2>4, ApartStat
  <2>5. ASSUME NEW t \in Tasks, NEW i \in Instances, NEW u \in Uids, Write(t, i, u)
        PROVE  StatInv'
    BY <1>2, <2>5, WriteStat
  <2>6. ASSUME NEW t \in Tasks, Reading(t) PROVE StatInv'
    <3>1. PICK max : ReadScan(t, max) \/ ReadNull(t, max)
      BY <2>6 DEF Reading
    <3>2. ~ReadNull(t, max)
      BY DEF ReadNull, OrderInv
    <3> QED
      BY <1>2, <3>1, <3>2, ReadScanStat
  <2> QED
    BY <1>2, <2>1, <2>2, <2>3, <2>4, <2>5, <2>6 DEF Request, Managing, Writing, ReliableReads
<1>3. CASE Unlinking
  BY <1>3, ApartStat
<1> QED
  BY <1>1, <1>2, <1>3 DEF SerialNext, Continuing

(* The statistics start balanced.  *)
LEMMA InitStat == Init => StatInv
<1> SUFFICES ASSUME Init PROVE StatInv
  OBVIOUS
<1>1. /\ \A s \in Tasks : ops[s] = Idle
      /\ DOMAIN groups = {}
      /\ total_trajectories = Zero /\ total_consumed = Zero
      /\ disk_usage_bytes = Zero /\ gone = Zero
  BY DEF Init
<1>2. Alone(ops) /\ Claimed(ops) = {} /\ Counted(ops) = {}
  BY <1>1, NothingClaimed
<1> DEFINE h == Held(ops, groups, files)
<1>3. DOMAIN h = {}
  BY <1>1 DEF Held
<1> HIDE DEF h
<1>4. \A i \in Instances : Left(h, {}, i) = 0 /\ OnDisk(groups, {}, i) = 0
  BY <1>1, <1>3 DEF Left, OnDisk
<1>5. /\ Totals(total_trajectories, total_consumed, gone, h, {})
      /\ Usage(disk_usage_bytes, groups, {}) /\ Cached(groups, {}, h)
  BY <1>1, <1>3, <1>4 DEF Totals, Usage, Cached, Zero
<1>6. Chosen(ops, groups, dedup_filter, config.uid_dedup)
  BY <1>1 DEF Chosen, Idle
<1> QED
  BY <1>2, <1>5, <1>6 DEF StatInv, h

(* One call at a time, the counters of every instance balance with what is *)
(* in memory, on disk and in a reader's hands (total_trajectories_,        *)
(* total_consumed_, disk_usage_bytes_, cached_size, cached_bytes).         *)
THEOREM Statistics ==
    ASSUME ReliableReads
    PROVE  SerialSpec => [](IndInv /\ OrderInv /\ Reliable /\ StatInv)
<1>1. StatInv /\ UNCHANGED vars => StatInv'
  <2> SUFFICES ASSUME StatInv, UNCHANGED vars PROVE StatInv'
    OBVIOUS
  <2>1. UNCHANGED <<groups, files, ops, out, stats, gone, dedup_filter, config>>
    BY DEF vars, disk, hist
  <2> QED
    BY <2>1, StatStays DEF HeldStays, StatInv, stats, tallies
<1>2. Init => StatInv
  BY InitStat
<1>3. IndInv /\ OrderInv /\ Reliable /\ StatInv
        /\ (IndInv /\ OrderInv /\ Reliable)' /\ [SerialNext]_vars => StatInv'
  BY <1>1, SerialStat
<1>4. SerialSpec => [](IndInv /\ OrderInv /\ Reliable)
  BY Orderly, SerialIsOrderly, PTL
<1> QED
  BY <1>2, <1>3, <1>4, PTL DEF SerialSpec

(* A sum over all instances in which the others add nothing is the sum     *)
(* over those that add something.  (get_meta_info, get_status)             *)
LEMMA SumOver ==
    ASSUME IsFiniteSet(Instances), NEW D \in SUBSET Instances, NEW f, NEW g,
           \A i \in D : f[i] = g[i] /\ f[i] \in Int,
           \A i \in Instances \ D : f[i] = 0, DOMAIN g = D
    PROVE  /\ SumFunctionOnSet(f, Instances) = SumFunction(g)
           /\ SumFunctionOnSet(f, Instances) \in Int
<1>1. IntOn(f, Instances) /\ IntOn(f, D) /\ IsFiniteSet(D) /\ IsFiniteSet(Instances \ D)
  BY FS_Subset DEF IntOn
<1>2. /\ SumFunctionOnSet(f, Instances)
           = SumFunctionOnSet(f, D) + SumFunctionOnSet(f, Instances \ D)
      /\ SumFunctionOnSet(f, D) \in Int
  BY <1>1, SumSplit
<1>3. SumFunctionOnSet(f, Instances \ D) = 0
  BY <1>1, SumZero
<1>4. SumFunctionOnSet(f, D) = SumFunctionOnSet(g, D)
  BY <1>1, SumSame
<1>5. SumFunction(g) = SumFunctionOnSet(g, D)
  BY DEF SumFunction
<1>6. SumFunctionOnSet(f, Instances) = SumFunctionOnSet(f, D)
  BY <1>2, <1>3
<1> QED
  BY <1>2, <1>4, <1>5, <1>6

(* Between two calls every entry has its group, and the queue holds it.    *)
LEMMA QuietStat ==
    ASSUME IndInv, OrderInv, StatInv, Quiet
    PROVE  /\ Claimed(ops) = {} /\ Counted(ops) = {}
           /\ \A i \in DOMAIN groups :
                /\ GroupOf(i) = Held(ops, groups, files)[i]
                /\ GroupOf(i) = Stands(groups[i], files)
                /\ Size(GroupOf(i)) \in Nat
                /\ groups[i].group_ptr = NoGroup =>
                     /\ IsOnDisk(groups[i]) /\ GroupOf(i) = files[groups[i].disk_offset]
                     /\ groups[i].cached_size = Size(GroupOf(i))
                     /\ groups[i].cached_bytes = Size(GroupOf(i))
           /\ DOMAIN groups \subseteq Instances
<1>1. Claimed(ops) = {} /\ Counted(ops) = {}
  BY NothingClaimed DEF Quiet
<1>2. /\ \A i \in DOMAIN groups : InPlace(groups[i], files, unlinking)
      /\ Held(ops, groups, files) = [i \in DOMAIN groups |-> Stands(groups[i], files)]
  BY QuietBefore
<1>3. [i \in DOMAIN groups |-> GroupOf(i)] = Held(ops, groups, files)
  BY HeldIs
<1>4. DOMAIN groups \subseteq Instances
  BY DEF IndInv, GroupsGood, Partial
<1>5. ASSUME NEW i \in DOMAIN groups
      PROVE  /\ GroupOf(i) = Held(ops, groups, files)[i]
             /\ GroupOf(i) = Stands(groups[i], files)
             /\ Size(GroupOf(i)) \in Nat
  BY <1>2, <1>3, HeldGroups
<1>6. ASSUME NEW i \in DOMAIN groups, groups[i].group_ptr = NoGroup
      PROVE  /\ IsOnDisk(groups[i]) /\ GroupOf(i) = files[groups[i].disk_offset]
             /\ groups[i].cached_size = Size(GroupOf(i))
             /\ groups[i].cached_bytes = Size(GroupOf(i))
  <2>1. groups[i].disk_offset \in DOMAIN files
    BY <1>2, <1>6 DEF InPlace
  <2>2. groups[i].disk_offset > 0
    BY <2>1 DEF IndInv, FilesGood, Partial
  <2>3. Cached(groups, {}, Held(ops, groups, files))
    BY <1>1 DEF StatInv
  <2> QED
    BY <1>5, <1>6, <2>1, <2>2, <2>3 DEF IsOnDisk, Stands, Cached
<1> QED
  BY <1>1, <1>4, <1>5, <1>6

(* One call at a time, what get_meta_info and get_status say between two   *)
(* calls agrees with what is in memory and on disk.                        *)
THEOREM Exact ==
    ASSUME ReliableReads, IsFiniteSet(Instances)
    PROVE  SerialSpec => []StatisticsExact
<1>1. ASSUME IndInv, OrderInv, StatInv, Quiet
      PROVE  /\ get_meta_info.total_samples
                  = SumFunction([i \in DOMAIN groups |-> Size(GroupOf(i))])
             /\ get_status.disk_usage_bytes
                  = SumFunction([i \in {j \in DOMAIN groups : IsOnDisk(groups[j])} |->
                                  Size(files[groups[i].disk_offset])])
             /\ get_status.total_trajectories
                  = get_status.total_consumed
                      + SumFunction([i \in DOMAIN groups |-> Size(GroupOf(i))])
                      + SumFunctionOnSet(gone, Instances)
  <2>1. /\ \A i \in DOMAIN groups :
             /\ GroupOf(i) = Held(ops, groups, files)[i]
             /\ GroupOf(i) = Stands(groups[i], files)
             /\ Size(GroupOf(i)) \in Nat
             /\ groups[i].group_ptr = NoGroup =>
                  /\ IsOnDisk(groups[i]) /\ GroupOf(i) = files[groups[i].disk_offset]
                  /\ groups[i].cached_size = Size(GroupOf(i))
                  /\ groups[i].cached_bytes = Size(GroupOf(i))
        /\ DOMAIN groups \subseteq Instances
    BY <1>1, QuietStat
  <2>2. /\ Totals(total_trajectories, total_consumed, gone, Held(ops, groups, files), {})
        /\ Usage(disk_usage_bytes, groups, {})
    <3>1. Claimed(ops) = {} /\ Counted(ops) = {}
      BY <1>1, QuietStat
    <3> QED
      BY <1>1, <3>1 DEF StatInv
  <2>3. get_meta_info.total_samples
          = SumFunction([i \in DOMAIN groups |-> Size(GroupOf(i))])
    <3>1. \A i \in DOMAIN groups : ListedSize(groups[i]) = Size(GroupOf(i))
      BY <2>1 DEF ListedSize, IsOnDisk, Stands
    <3>2. [i \in DOMAIN groups |-> ListedSize(groups[i])]
            = [i \in DOMAIN groups |-> Size(GroupOf(i))]
      BY <3>1
    <3> QED
      BY <3>2 DEF get_meta_info
  <2>4. get_status.disk_usage_bytes
          = SumFunction([i \in {j \in DOMAIN groups : IsOnDisk(groups[j])} |->
                          Size(files[groups[i].disk_offset])])
    <3> DEFINE D == {j \in DOMAIN groups : IsOnDisk(groups[j])}
               g == [i \in D |-> Size(files[groups[i].disk_offset])]
    <3>1. /\ \A i \in D : disk_usage_bytes[i] = g[i] /\ disk_usage_bytes[i] \in Int
          /\ \A i \in Instances \ D : disk_usage_bytes[i] = 0
          /\ DOMAIN g = D /\ D \in SUBSET Instances
      BY <2>1, <2>2 DEF Usage, OnDisk, IsOnDisk
    <3> HIDE DEF D, g
    <3>2. SumFunctionOnSet(disk_usage_bytes, Instances) = SumFunction(g)
      BY <3>1, SumOver
    <3> QED
      BY <3>2 DEF get_status, g, D
  <2>5. get_status.total_trajectories
          = get_status.total_consumed
              + SumFunction([i \in DOMAIN groups |-> Size(GroupOf(i))])
              + SumFunctionOnSet(gone, Instances)
    <3> DEFINE g == [i \in DOMAIN groups |-> Size(GroupOf(i))]
               left == [i \in Instances |-> Left(Held(ops, groups, files), {}, i)]
               both == [i \in Instances |-> total_consumed[i] + left[i]]
    <3>1. DOMAIN Held(ops, groups, files) = DOMAIN groups
      BY DEF Held
    <3>2. /\ \A i \in DOMAIN groups : left[i] = g[i] /\ left[i] \in Int
          /\ \A i \in Instances \ DOMAIN groups : left[i] = 0
          /\ DOMAIN g = DOMAIN groups
      BY <2>1, <3>1 DEF Left
    <3>3. \A i \in Instances : total_trajectories[i] = both[i] + gone[i]
      BY <2>2 DEF Totals
    <3>4. \A i \in Instances : both[i] = total_consumed[i] + left[i]
      OBVIOUS
    <3>5. IntOn(total_consumed, Instances) /\ IntOn(gone, Instances)
      BY <1>1 DEF IntOn, IndInv, CountersOK
    <3> HIDE DEF g, left, both
    <3>6. IntOn(left, Instances)
      BY <2>1, <3>2 DEF IntOn
    <3>7. IntOn(both, Instances)
      BY <3>4, <3>5, <3>6 DEF IntOn
    <3>8. SumFunctionOnSet(left, Instances) = SumFunction(g)
      BY <2>1, <3>2, SumOver
    <3>9. SumFunctionOnSet(both, Instances)
            = SumFunctionOnSet(total_consumed, Instances) + SumFunctionOnSet(left, Instances)
      BY <3>4, <3>5, <3>6, SumPlus
    <3>10. SumFunctionOnSet(total_trajectories, Instances)
             = SumFunctionOnSet(both, Instances) + SumFunctionOnSet(gone, Instances)
      BY <3>3, <3>5, <3>7, SumPlus
    <3>11. SumFunctionOnSet(total_trajectories, Instances)
             = SumFunctionOnSet(total_consumed, Instances) + SumFunction(g)
                 + SumFunctionOnSet(gone, Instances)
      BY <3>8, <3>9, <3>10
    <3> QED
      BY <3>11 DEF get_status, g
  <2> QED
    BY <2>3, <2>4, <2>5
<1>2. IndInv /\ OrderInv /\ StatInv => StatisticsExact
  BY <1>1 DEF StatisticsExact, SamplesExact, DiskUsageExact, TotalsAgree
<1> QED
  BY <1>2, Statistics, PTL

-----------------------------------------------------------------------------
(* How much is spilled *)

\* finitely many instances and uids, and a threshold not below the 70% mark,
\* as the 80% of the default configuration is
ByteSizes ==
    /\ IsFiniteSet(Instances) /\ IsFiniteSet(Uids)
    /\ SpillTarget \in Nat /\ SpillThreshold \in Nat /\ SpillTarget <= SpillThreshold
    /\ BloomBytes \in Nat /\ UidBytes \in Nat /\ SizeMod \in Nat \ {0}

(* A remainder is not larger than the number, and a number below the       *)
(* modulus is its own.  (target_spill)                                     *)
LEMMA Remainder ==
    ASSUME NEW n \in Nat, NEW m \in Nat \ {0}
    PROVE  n % m \in Nat /\ n % m <= n /\ (n < m => n % m = n)
OBVIOUS

(* Bytes are natural numbers, those of part of the groups and those of the *)
(* others add up, and memory usage counts them.  (estimate_memory_usage)   *)
LEMMA BytesSplit ==
    ASSUME IndInv, ByteSizes, NEW S \in SUBSET InMemory(groups), NEW K \in SUBSET S
    PROVE  /\ Bytes(groups, S) = Bytes(groups, K) + Bytes(groups, S \ K)
           /\ Bytes(groups, S) \in Nat /\ Bytes(groups, K) \in Nat
           /\ Bytes(groups, S \ K) \in Nat
<1> DEFINE f == [i \in S |-> Size(groups[i].group_ptr)]
<1>1. S \subseteq Instances
  BY DEF InMemory, IndInv, GroupsGood, Partial
<1>2. IsFiniteSet(S) /\ IsFiniteSet(K) /\ IsFiniteSet(S \ K)
  BY <1>1, FS_Subset DEF ByteSizes
<1>3. ASSUME NEW i \in S PROVE f[i] \in Nat
  <2>1. groups[i].group_ptr \in Group
    BY DEF InMemory, IndInv, GroupsGood, Partial, Entry
  <2>2. groups[i].group_ptr.trajectories \in Seq(Uids)
    BY <2>1 DEF Group
  <2> QED
    BY <2>2 DEF Size
<1>4. ASSUME NEW T \in SUBSET S, IsFiniteSet(T)
      PROVE  Bytes(groups, T) = SumFunctionOnSet(f, T) /\ SumFunctionOnSet(f, T) \in Nat
  <2> DEFINE g == [i \in T |-> Size(groups[i].group_ptr)]
  <2>1. (\A i \in T : g[i] = f[i]) /\ DOMAIN g = T
    OBVIOUS
  <2>2. IntOn(g, T) /\ IntOn(f, T)
    BY <1>3, <2>1 DEF IntOn
  <2>3. Bytes(groups, T) = SumFunctionOnSet(g, T)
    BY DEF Bytes, SumFunction
  <2> HIDE DEF f, g
  <2>4. SumFunctionOnSet(g, T) = SumFunctionOnSet(f, T)
    BY <1>4, <2>1, <2>2, SumSame
  <2>5. SumFunctionOnSet(f, T) \in Nat
    BY <1>3, <1>4, SumNat
  <2> QED
    BY <2>3, <2>4, <2>5
<1>5. IntOn(f, S)
  BY <1>3 DEF IntOn
<1> HIDE DEF f
<1>6. SumFunctionOnSet(f, S) = SumFunctionOnSet(f, K) + SumFunctionOnSet(f, S \ K)
  BY <1>2, <1>5, SumSplit
<1>7. /\ Bytes(groups, S) = SumFunctionOnSet(f, S) /\ SumFunctionOnSet(f, S) \in Nat
      /\ Bytes(groups, K) = SumFunctionOnSet(f, K) /\ SumFunctionOnSet(f, K) \in Nat
      /\ Bytes(groups, S \ K) = SumFunctionOnSet(f, S \ K) /\ SumFunctionOnSet(f, S \ K) \in Nat
  BY <1>2, <1>4
<1> QED
  BY <1>6, <1>7

(* Memory usage is a natural number.  (estimate_memory_usage) *)
LEMMA UsageType ==
    ASSUME IndInv, ByteSizes
    PROVE  MemoryUsage \in Nat
<1>1. Bytes(groups, InMemory(groups)) \in Nat
  BY BytesSplit
<1>2. Cardinality(dedup_filter) \in Nat
  BY FS_Subset, FS_CardinalityType DEF IndInv, SettingsOK, ByteSizes
<1>3. UidBytes * Cardinality(dedup_filter) \in Nat
  BY <1>2 DEF ByteSizes
<1>4. BloomBytes + UidBytes * Cardinality(dedup_filter) \in Nat
  BY <1>3 DEF ByteSizes
<1> QED
  BY <1>1, <1>4 DEF MemoryUsage, estimate_memory_usage

(* What a pending spill has chosen.  (try_spill_groups) *)
LEMMA ChosenKeys ==
    ASSUME IndInv, ByteSizes, StatInv, NEW t \in Tasks, ops[t].kind = "spill",
           NEW K, K = DOMAIN ops[t].snaps
    PROVE  /\ MemoryUsage > SpillThreshold /\ K \subseteq Spillable(groups)
           /\ \E k \in K : K = {k} \/ Bytes(groups, K \ {k}) < target_spill(MemoryUsage)
           /\ K = Spillable(groups) \/ Bytes(groups, K) >= target_spill(MemoryUsage)
           /\ Spillable(groups) \subseteq InMemory(groups)
<1>1. K \in SpillChoices(groups, dedup_filter, config.uid_dedup)
  BY DEF StatInv, Chosen
<1>2. CASE MemoryUsage <= SpillThreshold
  BY <1>1, <1>2 DEF SpillChoices, MemoryUsage
<1>3. CASE ~(MemoryUsage <= SpillThreshold)
  <2>1. MemoryUsage > SpillThreshold
    BY <1>3, UsageType DEF ByteSizes
  <2> DEFINE usage == MemoryUsage
             full == Spillable(groups)
  <2>2. K \in {L \in SUBSET full \ {{}} :
                /\ \E k \in L : L = {k} \/ Bytes(groups, L \ {k}) < target_spill(usage)
                /\ L = full \/ Bytes(groups, L) >= target_spill(usage)}
    BY <1>1, <1>3, Zenon DEF SpillChoices, MemoryUsage
  <2>3. full \subseteq InMemory(groups)
    BY DEF Spillable
  <2> HIDE DEF usage, full
  <2>4. /\ K \subseteq full
        /\ \E k \in K : K = {k} \/ Bytes(groups, K \ {k}) < target_spill(usage)
        /\ K = full \/ Bytes(groups, K) >= target_spill(usage)
    BY <2>2
  <2> QED
    BY <2>1, <2>3, <2>4 DEF usage, full
<1> QED
  BY <1>2, <1>3

(* One call at a time, a spill takes no group beyond the one that reaches  *)
(* the 70% mark (try_spill_groups).                                        *)
THEOREM Stops ==
    ASSUME ReliableReads, ByteSizes
    PROVE  SerialSpec => []SpillStopsAtTarget
<1>1. ASSUME IndInv, StatInv, NEW t \in Tasks, ops[t].kind = "spill"
      PROVE  \E k \in DOMAIN ops[t].snaps :
               MemoryUsage - Bytes(groups, DOMAIN ops[t].snaps \ {k}) > SpillTarget
  <2> DEFINE K == DOMAIN ops[t].snaps
             rest(k) == Bytes(groups, K \ {k})
  <2>1. /\ MemoryUsage > SpillThreshold /\ K \subseteq InMemory(groups)
        /\ \E k \in K : K = {k} \/ rest(k) < target_spill(MemoryUsage)
    BY <1>1, ChosenKeys
  <2>2. MemoryUsage \in Nat /\ SpillTarget \in Nat /\ SpillThreshold \in Nat
        /\ MemoryUsage - SpillTarget \in Nat /\ SizeMod \in Nat \ {0}
        /\ MemoryUsage > SpillTarget
    BY <1>1, <2>1, UsageType DEF ByteSizes
  <2>3. target_spill(MemoryUsage) <= MemoryUsage - SpillTarget
        /\ target_spill(MemoryUsage) \in Nat
    BY <2>2, Remainder DEF target_spill
  <2>4. PICK k \in K : K = {k} \/ rest(k) < target_spill(MemoryUsage)
    BY <2>1
  <2>5. rest(k) \in Nat
    BY <1>1, <2>1, BytesSplit
  <2>6. K = {k} => rest(k) = 0
    <3>1. K = {k} => K \ {k} = {}
      OBVIOUS
    <3>2. Bytes(groups, {}) = 0
      BY SumEmpty DEF Bytes, SumFunction
    <3> QED
      BY <3>1, <3>2
  <2> HIDE DEF rest, K
  <2>7. MemoryUsage - rest(k) > SpillTarget
    BY <2>2, <2>3, <2>4, <2>5, <2>6
  <2> QED
    BY <2>7 DEF rest, K
<1>2. IndInv /\ OrderInv /\ StatInv => SpillStopsAtTarget
  BY <1>1 DEF SpillStopsAtTarget
<1> QED
  BY <1>2, Statistics, PTL

(* A spill that succeeds leaves memory at the 70% mark or nothing complete *)
(* in it, unless the difference does not fit a size_t.  (try_spill_groups) *)
LEMMA SpillReaches ==
    ASSUME IndInv, OrderInv, StatInv, ByteSizes, MemoryUsage < SizeMod,
           NEW t \in Tasks, SpillDone(t)
    PROVE  MemoryUsage' <= SpillTarget \/ ~\E i \in InMemory(groups') :
                                             groups'[i].group_ptr.is_complete
<1> DEFINE K == DOMAIN ops[t].snaps
           all == InMemory(groups)
<1>1. /\ ops[t].kind = "spill" /\ DOMAIN ops[t].offs = K
      /\ groups' = [i \in DOMAIN groups |->
           IF i \in DOMAIN ops[t].offs \intersect DOMAIN groups THEN Spilled(t, i)
           ELSE groups[i]]
      /\ UNCHANGED <<dedup_filter, config>>
  BY DEF SpillDone, Resumes
<1>2. /\ MemoryUsage > SpillThreshold /\ K \subseteq Spillable(groups)
      /\ K = Spillable(groups) \/ Bytes(groups, K) >= target_spill(MemoryUsage)
      /\ K \subseteq all
  BY <1>1, ChosenKeys
<1>3. /\ DOMAIN groups' = DOMAIN groups /\ all \subseteq DOMAIN groups
      /\ \A i \in K : groups'[i].group_ptr = NoGroup
      /\ \A i \in DOMAIN groups \ K : groups'[i] = groups[i]
  BY <1>1, <1>2 DEF Spilled, InMemory
<1>4. InMemory(groups') = all \ K /\ \A i \in all \ K : groups'[i] = groups[i]
  BY <1>2, <1>3 DEF InMemory
<1> HIDE DEF all, K
<1>5. CASE K = Spillable(groups)
  BY <1>4, <1>5 DEF Spillable, all
<1>6. CASE Bytes(groups, K) >= target_spill(MemoryUsage)
  <2>1. MemoryUsage \in Nat /\ SpillTarget \in Nat /\ SpillThreshold \in Nat
        /\ SizeMod \in Nat \ {0}
    BY UsageType DEF ByteSizes
  <2>2. MemoryUsage - SpillTarget \in Nat /\ MemoryUsage - SpillTarget < SizeMod
    BY <1>2, <2>1 DEF ByteSizes
  <2>3. target_spill(MemoryUsage) = MemoryUsage - SpillTarget
    BY <2>1, <2>2, Remainder DEF target_spill
  <2>4. /\ Bytes(groups, all) = Bytes(groups, K) + Bytes(groups, all \ K)
        /\ Bytes(groups, K) \in Nat /\ Bytes(groups, all \ K) \in Nat
    BY <1>2, BytesSplit DEF all
  <2>5. Bytes(groups', InMemory(groups')) = Bytes(groups, all \ K)
    <3>1. [i \in all \ K |-> Size(groups'[i].group_ptr)]
            = [i \in all \ K |-> Size(groups[i].group_ptr)]
      BY <1>4
    <3> QED
      BY <1>4, <3>1 DEF Bytes
  <2> DEFINE more == IF config.uid_dedup
                     THEN BloomBytes + UidBytes * Cardinality(dedup_filter) ELSE 0
  <2>6. /\ MemoryUsage = Bytes(groups, all) + more
        /\ MemoryUsage' = Bytes(groups, all \ K) + more
    BY <1>1, <2>5 DEF MemoryUsage, estimate_memory_usage, all
  <2>7. more \in Nat
    <3>1. Cardinality(dedup_filter) \in Nat
      BY FS_Subset, FS_CardinalityType DEF IndInv, SettingsOK, ByteSizes
    <3>2. UidBytes * Cardinality(dedup_filter) \in Nat
      BY <3>1 DEF ByteSizes
    <3> QED
      BY <3>2 DEF ByteSizes
  <2> HIDE DEF more
  <2>8. MemoryUsage' = MemoryUsage - Bytes(groups, K)
    BY <2>4, <2>6, <2>7
  <2> QED
    BY <1>6, <2>1, <2>3, <2>4, <2>8
<1> QED
  BY <1>2, <1>5, <1>6

(* One call at a time, and while memory usage fits a size_t, a write that  *)
(* returns from a spill has brought memory back to the 70% mark or left    *)
(* nothing that could be spilled (try_spill_groups).                       *)
THEOREM Reclaims ==
    ASSUME ReliableReads, ByteSizes
    PROVE  SerialSpec /\ [](MemoryUsage < SizeMod) => SpillReclaims
<1> DEFINE Reclaimed == \A t \in Tasks :
             ops[t].kind = "spill" /\ ops'[t] = Idle /\ acked' # acked
               => MemoryUsage' <= SpillTarget \/ ~\E i \in InMemory(groups') :
                                     groups'[i].group_ptr.is_complete
<1>1. ASSUME IndInv, OrderInv, StatInv, MemoryUsage < SizeMod, SerialNext
      PROVE  Reclaimed
  <2> SUFFICES ASSUME NEW t \in Tasks, ops[t].kind = "spill", ops'[t] = Idle, acked' # acked
               PROVE  MemoryUsage' <= SpillTarget \/ ~\E i \in InMemory(groups') :
                                         groups'[i].group_ptr.is_complete
    OBVIOUS
  <2>1. ~Quiet /\ ops[t] # Idle
    BY DEF Quiet, Idle
  <2>2. ~Unlinking
    BY DEF Unlinking, Unlink, hist
  <2>3. PICK s \in Tasks : Continue(s)
    BY <1>1, <2>1, <2>2 DEF SerialNext, Continuing
  <2>4. ops[s] # Idle
    <3>1. \/ ops[s].kind = "batch" \/ ops[s].kind = "spill" \/ ops[s].kind = "load"
          \/ ops[s].kind = "unlink" \/ ops[s].kind = "reset"
      BY <2>3, Zenon DEF Continue, SpillFile, SpillFails, SpillDone, ReadLoad, ReadLoadFails,
         ReadMerge, ReadRemove, ReadRemoveFails, ReadErase, ResetRemove, ResetFails, Resumes
    <3> QED
      BY <3>1 DEF Idle
  <2>5. s = t
    BY <1>1, <2>1, <2>4 DEF StatInv, Alone
  <2>6. SpillDone(t)
    BY <2>3, <2>5 DEF Continue, SpillFile, SpillFails, ReadLoad, ReadLoadFails, ReadMerge,
       ReadRemove, ReadRemoveFails, ReadErase, ResetRemove, ResetFails, Resumes, hist
  <2> QED
    BY <1>1, <2>6, SpillReaches
<1> HIDE DEF Reclaimed
<1>2. IndInv /\ OrderInv /\ StatInv /\ MemoryUsage < SizeMod /\ [SerialNext]_vars
        => [Reclaimed]_vars
  BY <1>1
<1> QED
  BY <1>2, Statistics, PTL DEF SerialSpec, SpillReclaims, Reclaimed

-----------------------------------------------------------------------------
(* What readers deliver.  A trajectory is delivered from one of three      *)
(* kinds of places: from the entry that has its group in memory, from a    *)
(* file that an entry or a read goes by, and from the hands of a read that *)
(* is bound to have it for itself.  What calls do carries it from one      *)
(* place to one other; only a write adds one, and only a read that ends    *)
(* well hands out what it holds.                                           *)

FinitelyMany == IsFiniteSet(Instances) /\ IsFiniteSet(Tasks)

\* how often uid u is among the trajectories of group g
TimesIn(u, g) == Cardinality({n \in DOMAIN g.trajectories : g.trajectories[n] = u})

\* the offsets that a pending read goes by
Refs(op) == IF op.kind = "load" THEN {op.offsets[i] : i \in DOMAIN op.offsets}
            ELSE IF op.kind = "unlink" THEN op.rest ELSE {}

\* the offsets that anybody may read from
Live(os, gs) == {gs[i].disk_offset : i \in DOMAIN gs} \union UNION {Refs(os[t]) : t \in Tasks}

\* the instances whose group the read op has for itself: it has moved it out
\* of memory or removed its file.  A read that finds a file gone delivers none
Owns(op, fs) ==
    IF op.kind = "load" THEN DOMAIN op.result
    ELSE IF op.kind = "unlink" /\ op.rest \subseteq DOMAIN fs
         THEN op.ids \ {fs[o].instance_id : o \in op.rest} ELSE {}

InEntry(u, gs, i) == IF i \in InMemory(gs) THEN TimesIn(u, gs[i].group_ptr) ELSE 0

InFile(u, os, gs, fs, o) ==
    IF o \in DOMAIN fs \intersect Live(os, gs) THEN TimesIn(u, fs[o]) ELSE 0

InHands(u, op, fs, i) == IF i \in Owns(op, fs) THEN TimesIn(u, op.result[i]) ELSE 0

Places(last) ==
    ({"entry"} \X Instances) \union ({"file"} \X (1 .. last))
      \union ({"hands"} \X (Tasks \X Instances))

\* how often u waits at place p
Waits(u, os, gs, fs, p) ==
    IF p[1] = "entry" THEN InEntry(u, gs, p[2])
    ELSE IF p[1] = "file" THEN InFile(u, os, gs, fs, p[2])
    ELSE InHands(u, os[p[2][1]], fs, p[2][2])

Waiting(u, os, gs, fs, last) == [p \in Places(last) |-> Waits(u, os, gs, fs, p)]

\* how often u may still be delivered
ToDeliver(u, os, gs, fs, last) ==
    SumFunctionOnSet(Waiting(u, os, gs, fs, last), Places(last))

Typed(os, gs, fs, last) ==
    /\ last \in Nat
    /\ Partial(gs, Instances, Entry) /\ Partial(fs, 1 .. last, Group)
    /\ DOMAIN os = Tasks /\ \A t \in Tasks : OpOK(os[t], last)

(* A group has each uid some number of times.  *)
LEMMA TimesNat ==
    ASSUME NEW u, NEW g \in Group
    PROVE  TimesIn(u, g) \in Nat
<1>1. g.trajectories \in Seq(Uids)
  BY DEF Group
<1>2. DOMAIN g.trajectories = 1 .. Len(g.trajectories) /\ Len(g.trajectories) \in Nat
  BY <1>1
<1>3. IsFiniteSet(DOMAIN g.trajectories)
  BY <1>2, FS_Interval
<1>4. IsFiniteSet({n \in DOMAIN g.trajectories : g.trajectories[n] = u})
  BY <1>3, FS_Subset
<1> QED
  BY <1>4, FS_CardinalityType DEF TimesIn

(* A read owns instances it has a group for.  *)
LEMMA OwnsGroups ==
    ASSUME NEW op, NEW fs, NEW last, OpOK(op, last), NEW i \in Owns(op, fs)
    PROVE  i \in Instances /\ op.result[i] \in Group
<1>1. CASE op.kind = "load"
  <2>1. Partial(op.result, Instances, Group)
    BY <1>1 DEF OpOK, Idle, SpillOp, LoadOp, UnlinkOp, ResetOp, BatchOp
  <2> QED
    BY <1>1, <2>1 DEF Owns, Partial
<1>2. CASE op.kind = "unlink"
  <2>1. op.ids \in SUBSET Instances /\ op.result \in [op.ids -> Group]
    BY <1>2 DEF OpOK, Idle, SpillOp, LoadOp, UnlinkOp, ResetOp, BatchOp
  <2>2. i \in op.ids
    BY <1>2 DEF Owns
  <2> QED
    BY <2>1, <2>2
<1>3. CASE op.kind # "load" /\ op.kind # "unlink"
  BY <1>3 DEF Owns
<1> QED
  BY <1>1, <1>2, <1>3

(* At every place a uid waits some number of times, and the places are     *)
(* finitely many.                                                          *)
LEMMA WaitsNat ==
    ASSUME FinitelyMany, NEW u, NEW os, NEW gs, NEW fs, NEW last, Typed(os, gs, fs, last)
    PROVE  /\ IsFiniteSet(Places(last))
           /\ \A i \in Instances : InEntry(u, gs, i) \in Nat
           /\ \A o \in 1 .. last : InFile(u, os, gs, fs, o) \in Nat
           /\ \A t \in Tasks : \A i \in Instances : InHands(u, os[t], fs, i) \in Nat
           /\ \A p \in Places(last) : Waiting(u, os, gs, fs, last)[p] \in Nat
<1>1. IsFiniteSet(Places(last))
  <2>1. IsFiniteSet(1 .. last)
    BY FS_Interval DEF Typed
  <2>2. IsFiniteSet({"entry"}) /\ IsFiniteSet({"file"}) /\ IsFiniteSet({"hands"})
    BY FS_Singleton
  <2>3. /\ IsFiniteSet({"entry"} \X Instances) /\ IsFiniteSet({"file"} \X (1 .. last))
        /\ IsFiniteSet(Tasks \X Instances)
    BY <2>1, <2>2, FS_Product DEF FinitelyMany
  <2>4. IsFiniteSet({"hands"} \X (Tasks \X Instances))
    BY <2>2, <2>3, FS_Product
  <2> QED
    BY <2>3, <2>4, FS_Union DEF Places
<1>2. ASSUME NEW i \in Instances PROVE InEntry(u, gs, i) \in Nat
  <2>1. i \in InMemory(gs) => gs[i].group_ptr \in Group
    BY DEF Typed, Partial, Entry, InMemory
  <2> QED
    BY <2>1, TimesNat DEF InEntry
<1>3. ASSUME NEW o \in 1 .. last PROVE InFile(u, os, gs, fs, o) \in Nat
  <2>1. o \in DOMAIN fs => fs[o] \in Group
    BY DEF Typed, Partial
  <2> QED
    BY <2>1, TimesNat DEF InFile
<1>4. ASSUME NEW t \in Tasks, NEW i \in Instances PROVE InHands(u, os[t], fs, i) \in Nat
  <2>1. OpOK(os[t], last)
    BY DEF Typed
  <2>2. i \in Owns(os[t], fs) => os[t].result[i] \in Group
    BY <2>1, OwnsGroups
  <2> QED
    BY <2>2, TimesNat DEF InHands
<1>5. ASSUME NEW p \in Places(last) PROVE Waiting(u, os, gs, fs, last)[p] \in Nat
  <2>1. CASE p \in {"entry"} \X Instances
    BY <1>2, <2>1 DEF Waiting, Waits
  <2>2. CASE p \in {"file"} \X (1 .. last)
    BY <1>3, <2>2 DEF Waiting, Waits
  <2>3. CASE p \in {"hands"} \X (Tasks \X Instances)
    BY <1>4, <2>3 DEF Waiting, Waits
  <2> QED
    BY <2>1, <2>2, <2>3 DEF Places
<1> QED
  BY <1>1, <1>2, <1>3, <1>4, <1>5

(* If at each place a uid waits at most as often as it did at the place it *)
(* is exchanged with, it may be delivered at most as often.                *)
LEMMA Exchanged ==
    ASSUME FinitelyMany, NEW u, NEW last,
           NEW os, NEW gs, NEW fs, Typed(os, gs, fs, last),
           NEW os2, NEW gs2, NEW fs2, Typed(os2, gs2, fs2, last),
           NEW m \in [Places(last) -> Places(last)],
           \A p \in Places(last) : m[m[p]] = p,
           \A p \in Places(last) : Waits(u, os2, gs2, fs2, p) <= Waits(u, os, gs, fs, m[p])
    PROVE  ToDeliver(u, os2, gs2, fs2, last) <= ToDeliver(u, os, gs, fs, last)
<1> DEFINE S == Places(last)
           f == Waiting(u, os2, gs2, fs2, last)
           g == Waiting(u, os, gs, fs, last)
<1>1. IsFiniteSet(S) /\ IntOn(f, S) /\ IntOn(g, S)
  <2>1. IsFiniteSet(S) /\ \A p \in S : g[p] \in Nat
    BY WaitsNat
  <2>2. \A p \in S : f[p] \in Nat
    BY WaitsNat
  <2> QED
    BY <2>1, <2>2 DEF IntOn
<1>2. \A p \in S : f[p] <= g[m[p]]
  BY DEF Waiting
<1>3. m \in [S -> S] /\ \A p \in S : m[m[p]] = p
  OBVIOUS
<1> HIDE DEF S, f, g
<1>4. SumFunctionOnSet(f, S) <= SumFunctionOnSet(g, S)
  BY <1>1, <1>2, <1>3, SumExchange
<1> QED
  BY <1>4 DEF ToDeliver, S, f, g

(* In particular if it waits nowhere more often than before.  *)
LEMMA NowhereMore ==
    ASSUME FinitelyMany, NEW u, NEW last,
           NEW os, NEW gs, NEW fs, Typed(os, gs, fs, last),
           NEW os2, NEW gs2, NEW fs2, Typed(os2, gs2, fs2, last),
           \A i \in Instances : InEntry(u, gs2, i) <= InEntry(u, gs, i),
           \A o \in 1 .. last : InFile(u, os2, gs2, fs2, o) <= InFile(u, os, gs, fs, o),
           \A t \in Tasks : \A i \in Instances :
              InHands(u, os2[t], fs2, i) <= InHands(u, os[t], fs, i)
    PROVE  ToDeliver(u, os2, gs2, fs2, last) <= ToDeliver(u, os, gs, fs, last)
<1> DEFINE m == [p \in Places(last) |-> p]
<1>1. m \in [Places(last) -> Places(last)] /\ \A p \in Places(last) : m[p] = p /\ m[m[p]] = p
  OBVIOUS
<1>2. ASSUME NEW p \in Places(last)
      PROVE  Waits(u, os2, gs2, fs2, p) <= Waits(u, os, gs, fs, p)
  <2>1. CASE p \in {"entry"} \X Instances
    BY <2>1 DEF Waits
  <2>2. CASE p \in {"file"} \X (1 .. last)
    BY <2>2 DEF Waits
  <2>3. CASE p \in {"hands"} \X (Tasks \X Instances)
    BY <2>3 DEF Waits
  <2> QED
    BY <2>1, <2>2, <2>3 DEF Places
<1>3. \A p \in Places(last) : Waits(u, os2, gs2, fs2, p) <= Waits(u, os, gs, fs, m[p])
  BY <1>1, <1>2
<1> HIDE DEF m
<1> QED
  BY <1>1, <1>3, Exchanged

(* How often a uid may be delivered is a number.  *)
LEMMA DeliverNat ==
    ASSUME FinitelyMany, NEW u, NEW last, NEW os, NEW gs, NEW fs, Typed(os, gs, fs, last)
    PROVE  ToDeliver(u, os, gs, fs, last) \in Nat
<1>1. /\ IsFiniteSet(Places(last))
      /\ \A p \in Places(last) : Waiting(u, os, gs, fs, last)[p] \in Nat
  BY WaitsNat
<1> QED
  BY <1>1, SumNat DEF ToDeliver

\* what a pending call has captured, files being removed at any time
OpCarries(op, gs, fs) ==
    /\ op.kind = "spill" =>
         /\ \A k \in DOMAIN op.snaps : k \in DOMAIN gs /\ gs[k].group_ptr = op.snaps[k]
         /\ \A k \in DOMAIN op.offs :
              op.offs[k] \in DOMAIN fs => fs[op.offs[k]] = op.snaps[k]
    /\ op.kind = "load" =>
         /\ DOMAIN op.result \intersect DOMAIN op.offsets = {}
         /\ \A i \in DOMAIN op.loaded :
              op.offsets[i] \in DOMAIN fs => fs[op.offsets[i]] = op.loaded[i]
    /\ op.kind = "unlink" =>
         \A o \in op.rest \intersect DOMAIN fs :
              fs[o].instance_id \in op.ids /\ op.result[fs[o].instance_id] = fs[o]

Carries(os, gs, fs) == \A t \in Tasks : OpCarries(os[t], gs, fs)

SpillsAlone(os) ==
    \A t \in Tasks : os[t].kind = "spill" => \A s \in Tasks \ {t} : os[s] = Idle

Within(delivered, accepted, os, gs, fs, last) ==
    \A u \in Uids : delivered[u] + ToDeliver(u, os, gs, fs, last) <= accepted[u]

ReadersInv ==
    /\ SpillsAlone(ops)
    /\ Carries(ops, groups, files)
    /\ out \in [Uids -> Nat]
    /\ Within(out, stored, ops, groups, files, last_id)

\* fs2 is what is left of fs
Part(fs2, fs) == DOMAIN fs2 \subseteq DOMAIN fs /\ \A o \in DOMAIN fs2 : fs2[o] = fs[o]

(* The state of a shard is typed, before a step and after.  *)
LEMMA StateTyped ==
    /\ IndInv => Typed(ops, groups, files, last_id)
    /\ IndInv' => Typed(ops', groups', files', last_id')
BY DEF IndInv, Typed, GroupsGood, FilesGood, OpsGood

(* A call that is no read goes by no file and has no group in its hands.   *)
LEMMA EmptyHands ==
    ASSUME NEW op, ~Reads(op), NEW fs
    PROVE  /\ Refs(op) = {} /\ Owns(op, fs) = {}
           /\ \A u, i : InHands(u, op, fs, i) = 0
<1>1. op.kind # "load" /\ op.kind # "unlink"
  BY DEF Reads
<1> QED
  BY <1>1 DEF Refs, Owns, InHands

(* It owns nothing more when files are removed.  *)
LEMMA OwnsLess ==
    ASSUME NEW op, NEW fs, NEW fs2, Part(fs2, fs)
    PROVE  Owns(op, fs2) \subseteq Owns(op, fs)
<1>1. CASE op.kind = "load"
  BY <1>1 DEF Owns
<1>2. CASE op.kind = "unlink" /\ op.rest \subseteq DOMAIN fs2
  <2>1. {fs2[o].instance_id : o \in op.rest} = {fs[o].instance_id : o \in op.rest}
    BY <1>2 DEF Part
  <2> QED
    BY <1>2, <2>1 DEF Owns, Part
<1>3. CASE op.kind # "load" /\ ~(op.kind = "unlink" /\ op.rest \subseteq DOMAIN fs2)
  BY <1>3 DEF Owns
<1> QED
  BY <1>1, <1>2, <1>3

(* So a read's hands do not fill up when files are removed.  *)
LEMMA HandsLess ==
    ASSUME NEW op, NEW fs, NEW fs2, Part(fs2, fs), NEW u, NEW i, InHands(u, op, fs, i) \in Nat
    PROVE  InHands(u, op, fs2, i) <= InHands(u, op, fs, i)
BY OwnsLess DEF InHands

(* What a call has captured stays so when files are removed or new ones    *)
(* are made.                                                               *)
LEMMA CarriesOn ==
    ASSUME NEW op, NEW last \in Nat, OpOK(op, last), NEW gs, NEW gs2, NEW fs, NEW fs2,
           OpCarries(op, gs, fs), Keeps(fs, fs2, last), op.kind = "spill" => gs2 = gs
    PROVE  OpCarries(op, gs2, fs2)
<1>0. 1 .. last \subseteq 0 .. last
  OBVIOUS
<1>1. CASE op.kind = "spill"
  <2>1. Partial(op.offs, DOMAIN op.snaps, 1 .. last)
    BY <1>1 DEF OpOK, Idle, SpillOp, LoadOp, UnlinkOp, ResetOp, BatchOp
  <2> QED
    BY <1>0, <1>1, <2>1 DEF OpCarries, Keeps, Partial
<1>2. CASE op.kind = "load"
  <2>1. Partial(op.offsets, Instances, 1 .. last) /\ DOMAIN op.loaded \subseteq DOMAIN op.offsets
    BY <1>2 DEF OpOK, Idle, SpillOp, LoadOp, UnlinkOp, ResetOp, BatchOp, Partial
  <2> QED
    BY <1>0, <1>2, <2>1 DEF OpCarries, Keeps, Partial
<1>3. CASE op.kind = "unlink"
  <2>1. op.rest \in SUBSET (1 .. last)
    BY <1>3 DEF OpOK, Idle, SpillOp, LoadOp, UnlinkOp, ResetOp, BatchOp
  <2> QED
    BY <1>0, <1>3, <2>1 DEF OpCarries, Keeps
<1>4. CASE op.kind \notin {"spill", "load", "unlink"}
  BY <1>4 DEF OpCarries
<1> QED
  BY <1>1, <1>2, <1>3, <1>4

\* call op2 goes by no other files than op did, and has no more in its hands
Lighter(op2, op, fs2, fs) ==
    /\ Refs(op2) \subseteq Refs(op)
    /\ \A u \in Uids, i \in Instances : InHands(u, op2, fs2, i) <= InHands(u, op, fs, i)

(* A file's group is not waited for more often if it is in fewer places.   *)
LEMMA FileLess ==
    ASSUME NEW u, NEW os, NEW gs, NEW fs, NEW os2, NEW gs2, NEW fs2, NEW o,
           Part(fs2, fs), o \in Live(os2, gs2) => o \in Live(os, gs),
           InFile(u, os, gs, fs, o) \in Nat
    PROVE  InFile(u, os2, gs2, fs2, o) <= InFile(u, os, gs, fs, o)
BY DEF InFile, Part

(* What is live after a step of calls that go by no new files.  *)
LEMMA LiveLess ==
    ASSUME NEW os, NEW gs, NEW os2, NEW gs2, NEW last,
           \A i \in DOMAIN gs2 : \/ gs2[i].disk_offset = 0
                                 \/ i \in DOMAIN gs /\ gs2[i].disk_offset = gs[i].disk_offset,
           \A t \in Tasks : Refs(os2[t]) \subseteq Refs(os[t]),
           NEW o \in 1 .. last, o \in Live(os2, gs2)
    PROVE  o \in Live(os, gs)
<1>1. o # 0
  OBVIOUS
<1> QED
  BY <1>1 DEF Live

(* A step that carries no trajectory anywhere keeps the invariant.  *)
LEMMA LighterStep ==
    ASSUME FinitelyMany, IndInv, IndInv', ReadersInv,
           UNCHANGED <<last_id, out, stored>>, Part(files', files),
           \A u \in Uids, i \in Instances : InEntry(u, groups', i) <= InEntry(u, groups, i),
           \A i \in DOMAIN groups' :
              \/ groups'[i].disk_offset = 0
              \/ i \in DOMAIN groups /\ groups'[i].disk_offset = groups[i].disk_offset,
           SpillsAlone(ops'),
           \A t \in Tasks :
              \/ ops'[t] = ops[t] /\ (ops[t].kind = "spill" => groups' = groups)
              \/ Lighter(ops'[t], ops[t], files', files) /\ OpCarries(ops'[t], groups', files')
    PROVE  ReadersInv'
<1> DEFINE os == ops'
           gs == groups'
           fs == files'
<1>1. Typed(ops, groups, files, last_id) /\ Typed(os, gs, fs, last_id)
  BY StateTyped
<1>2. \A u \in Uids, t \in Tasks, i \in Instances :
        InHands(u, ops[t], files, i) \in Nat
  BY <1>1, WaitsNat
<1>3. \A t \in Tasks : Lighter(os[t], ops[t], fs, files)
  <2> SUFFICES ASSUME NEW t \in Tasks PROVE Lighter(os[t], ops[t], fs, files)
    OBVIOUS
  <2>1. CASE os[t] = ops[t]
    <3>1. \A u \in Uids, i \in Instances :
            InHands(u, ops[t], fs, i) <= InHands(u, ops[t], files, i)
      BY <1>2, HandsLess
    <3> QED
      BY <2>1, <3>1 DEF Lighter
  <2> QED
    BY <2>1
<1>4. Carries(os, gs, fs)
  <2>1. Keeps(files, fs, last_id)
    BY DEF Keeps, Part
  <2> SUFFICES ASSUME NEW t \in Tasks PROVE OpCarries(os[t], gs, fs)
    BY DEF Carries
  <2>2. CASE os[t] = ops[t] /\ (ops[t].kind = "spill" => gs = groups)
    <3>1. OpOK(ops[t], last_id) /\ last_id \in Nat /\ OpCarries(ops[t], groups, files)
      BY <1>1 DEF Typed, ReadersInv, Carries
    <3> HIDE DEF os, gs, fs
    <3>2. OpCarries(ops[t], gs, fs)
      BY <2>1, <2>2, <3>1, CarriesOn
    <3> QED
      BY <2>2, <3>2
  <2> QED
    BY <2>2
<1>5. \A i \in DOMAIN gs : \/ gs[i].disk_offset = 0
                           \/ i \in DOMAIN groups /\ gs[i].disk_offset = groups[i].disk_offset
  OBVIOUS
<1>6. Part(fs, files) /\ \A u \in Uids, i \in Instances : InEntry(u, gs, i) <= InEntry(u, groups, i)
  OBVIOUS
<1>7. SpillsAlone(os) /\ out' = out /\ stored' = stored /\ last_id' = last_id
  OBVIOUS
<1> HIDE DEF os, gs, fs
<1>8. ASSUME NEW u \in Uids
      PROVE  ToDeliver(u, os, gs, fs, last_id) <= ToDeliver(u, ops, groups, files, last_id)
  <2>1. \A o \in 1 .. last_id : InFile(u, ops, groups, files, o) \in Nat
    BY <1>1, WaitsNat
  <2>2. \A t \in Tasks : Refs(os[t]) \subseteq Refs(ops[t])
    BY <1>3 DEF Lighter
  <2>3. ASSUME NEW o \in 1 .. last_id
        PROVE  InFile(u, os, gs, fs, o) <= InFile(u, ops, groups, files, o)
    <3>1. o \in Live(os, gs) => o \in Live(ops, groups)
      BY <1>5, <2>2, LiveLess
    <3> QED
      BY <1>6, <2>1, <3>1, FileLess
  <2>4. \A t \in Tasks : \A i \in Instances :
           InHands(u, os[t], fs, i) <= InHands(u, ops[t], files, i)
    BY <1>3 DEF Lighter
  <2>5. \A i \in Instances : InEntry(u, gs, i) <= InEntry(u, groups, i)
    BY <1>6
  <2> QED
    BY <1>1, <2>3, <2>4, <2>5, NowhereMore
<1>9. ASSUME NEW u \in Uids
      PROVE  out[u] + ToDeliver(u, os, gs, fs, last_id) <= stored[u]
  <2>1. out[u] + ToDeliver(u, ops, groups, files, last_id) <= stored[u]
    BY DEF ReadersInv, Within
  <2>2. out[u] \in Nat /\ stored[u] \in Nat
    BY DEF ReadersInv, IndInv, CountersOK
  <2>3. /\ ToDeliver(u, os, gs, fs, last_id) \in Int
        /\ ToDeliver(u, ops, groups, files, last_id) \in Int
    BY <1>1, DeliverNat
  <2> QED
    BY <1>8, <2>1, <2>2, <2>3
<1>10. out \in [Uids -> Nat]
  BY DEF ReadersInv
<1>11. Within(out, stored, os, gs, fs, last_id)
  BY <1>9 DEF Within
<1> QED
  BY <1>4, <1>7, <1>10, <1>11 DEF ReadersInv, os, gs, fs

\* no spill is pending
NoSpill == \A t \in Tasks : ops[t].kind # "spill"

\* a step of one call that leaves the groups to pending spills
Undisturbed(t) == groups' = groups \/ \A s \in Tasks \ {t} : ops[s].kind # "spill"

(* While a call that is no spill is pending, no spill is.  *)
LEMMA ExcludesSpills ==
    ASSUME SpillsAlone(ops), NEW t \in Tasks, ops[t] # Idle
    PROVE  \A s \in Tasks \ {t} : ops[s].kind # "spill"
BY DEF SpillsAlone

(* A pending spill stays alone.  *)
LEMMA AloneUpdate ==
    ASSUME SpillsAlone(ops), DOMAIN ops = Tasks, NEW t \in Tasks, NEW op,
           ops' = [ops EXCEPT ![t] = op],
           \/ op = Idle
           \/ op.kind # "spill" /\ \A s \in Tasks \ {t} : ops[s].kind # "spill"
           \/ \A s \in Tasks \ {t} : ops[s] = Idle
    PROVE  SpillsAlone(ops')
<1>1. \A s \in Tasks : ops'[s] = IF s = t THEN op ELSE ops[s]
  OBVIOUS
<1>2. Idle.kind # "spill"
  BY DEF Idle
<1> QED
  BY <1>1, <1>2 DEF SpillsAlone

(* One call goes on and carries nothing anywhere.  *)
LEMMA OneLighter ==
    ASSUME FinitelyMany, IndInv, IndInv', ReadersInv, NEW t \in Tasks, NEW op,
           ops' = [ops EXCEPT ![t] = op],
           UNCHANGED <<last_id, out, stored>>, Part(files', files),
           \A u \in Uids, i \in Instances : InEntry(u, groups', i) <= InEntry(u, groups, i),
           \A i \in DOMAIN groups' :
              \/ groups'[i].disk_offset = 0
              \/ i \in DOMAIN groups /\ groups'[i].disk_offset = groups[i].disk_offset,
           Undisturbed(t),
           \/ op = Idle
           \/ op.kind # "spill" /\ \A s \in Tasks \ {t} : ops[s].kind # "spill",
           Lighter(op, ops[t], files', files), OpCarries(op, groups', files')
    PROVE  ReadersInv'
<1>1. DOMAIN ops = Tasks /\ SpillsAlone(ops)
  BY DEF IndInv, OpsGood, ReadersInv
<1>2. SpillsAlone(ops')
  BY <1>1, AloneUpdate
<1>3. ops'[t] = op /\ \A s \in Tasks \ {t} : ops'[s] = ops[s]
  BY <1>1
<1>4. \A s \in Tasks :
        \/ ops'[s] = ops[s] /\ (ops[s].kind = "spill" => groups' = groups)
        \/ Lighter(ops'[s], ops[s], files', files) /\ OpCarries(ops'[s], groups', files')
  BY <1>3 DEF Undisturbed
<1> QED
  BY <1>2, <1>4, LighterStep

(* No call goes on.  *)
LEMMA NoneLighter ==
    ASSUME FinitelyMany, IndInv, IndInv', ReadersInv,
           UNCHANGED <<ops, last_id, out, stored>>, Part(files', files),
           \A u \in Uids, i \in Instances : InEntry(u, groups', i) <= InEntry(u, groups, i),
           \A i \in DOMAIN groups' :
              \/ groups'[i].disk_offset = 0
              \/ i \in DOMAIN groups /\ groups'[i].disk_offset = groups[i].disk_offset,
           groups' = groups \/ NoSpill
    PROVE  ReadersInv'
<1>1. SpillsAlone(ops')
  BY DEF ReadersInv
<1>2. \A s \in Tasks :
        \/ ops'[s] = ops[s] /\ (ops[s].kind = "spill" => groups' = groups)
        \/ Lighter(ops'[s], ops[s], files', files) /\ OpCarries(ops'[s], groups', files')
  BY DEF NoSpill
<1> QED
  BY <1>1, <1>2, LighterStep

(* Groups that stay where they are hold what they held.  *)
LEMMA SameGroups ==
    ASSUME FinitelyMany, IndInv, groups' = groups
    PROVE  /\ \A u \in Uids, i \in Instances : InEntry(u, groups', i) <= InEntry(u, groups, i)
           /\ \A i \in DOMAIN groups' :
                 \/ groups'[i].disk_offset = 0
                 \/ i \in DOMAIN groups /\ groups'[i].disk_offset = groups[i].disk_offset
<1>1. Typed(ops, groups, files, last_id)
  BY StateTyped
<1>2. \A u \in Uids, i \in Instances : InEntry(u, groups, i) \in Nat
  BY <1>1, WaitsNat
<1> QED
  BY <1>2

(* Entries that are dropped hold nothing.  (Drop) *)
LEMMA DroppedGroups ==
    ASSUME FinitelyMany, IndInv, NEW K, groups' = Drop(groups, K)
    PROVE  /\ \A u \in Uids, i \in Instances : InEntry(u, groups', i) <= InEntry(u, groups, i)
           /\ \A i \in DOMAIN groups' :
                 \/ groups'[i].disk_offset = 0
                 \/ i \in DOMAIN groups /\ groups'[i].disk_offset = groups[i].disk_offset
<1>1. Typed(ops, groups, files, last_id)
  BY StateTyped
<1>2. ASSUME NEW u \in Uids, NEW i \in Instances
      PROVE  InEntry(u, groups', i) <= InEntry(u, groups, i)
  <2>1. InEntry(u, groups, i) \in Nat
    BY <1>1, WaitsNat
  <2>2. i \in InMemory(groups') => i \in InMemory(groups) /\ groups'[i] = groups[i]
    BY DEF Drop, InMemory
  <2> QED
    BY <2>1, <2>2 DEF InEntry
<1> QED
  BY <1>2 DEF Drop

(* A call that is no read weighs nothing.  *)
LEMMA NoRead ==
    ASSUME FinitelyMany, IndInv, NEW t \in Tasks, NEW op, ~Reads(op), NEW fs
    PROVE  Lighter(op, ops[t], fs, files)
<1>1. Typed(ops, groups, files, last_id)
  BY StateTyped
<1>2. \A u \in Uids, i \in Instances : InHands(u, ops[t], files, i) \in Nat
  BY <1>1, WaitsNat
<1>3. Refs(op) = {} /\ \A u, i : InHands(u, op, fs, i) = 0
  BY EmptyHands
<1> QED
  BY <1>2, <1>3 DEF Lighter

(* A call that has captured neither copies nor groups carries nothing.  *)
LEMMA CarriesNothing ==
    ASSUME NEW op, op.kind \notin {"spill", "load", "unlink"}, NEW gs, NEW fs
    PROVE  OpCarries(op, gs, fs) /\ ~Reads(op)
BY DEF OpCarries, Reads

(* A call that neither spills nor reads, or that returns, carries nothing  *)
(* anywhere.                                                               *)
LEMMA PlainStep ==
    ASSUME FinitelyMany, IndInv, IndInv', ReadersInv, NEW t \in Tasks, NEW op,
           ops' = [ops EXCEPT ![t] = op],
           UNCHANGED <<groups, last_id, out, stored>>, Part(files', files),
           \/ op = Idle
           \/ op.kind \in {"batch", "reset"} /\ \A s \in Tasks \ {t} : ops[s].kind # "spill"
    PROVE  ReadersInv'
<1>1. op.kind \notin {"spill", "load", "unlink"}
  BY DEF Idle
<1>2. Lighter(op, ops[t], files', files) /\ OpCarries(op, groups', files')
  BY <1>1, CarriesNothing, NoRead
<1>3. Undisturbed(t)
  BY DEF Undisturbed
<1>4. \/ op = Idle
      \/ op.kind # "spill" /\ \A s \in Tasks \ {t} : ops[s].kind # "spill"
  BY <1>1
<1> QED
  BY <1>2, <1>3, <1>4, SameGroups, OneLighter

(* What is left of the files is a part of them.  (Drop) *)
LEMMA DropPart == ASSUME NEW fs, NEW K PROVE Part(Drop(fs, K), fs) /\ Part(fs, fs)
BY DEF Part, Drop

(* A call that fails or is through changes nothing else.  (SpillFails,     *)
(* ReadLoadFails, ReadRemoveFails, ResetFails)                             *)
LEMMA ReturnsReaders ==
    ASSUME FinitelyMany, IndInv, IndInv', ReadersInv, NEW t \in Tasks, Returns(t),
           UNCHANGED <<groups, disk, out, stored>>
    PROVE  ReadersInv'
<1>1. ops' = [ops EXCEPT ![t] = Idle] /\ UNCHANGED <<groups, files, last_id, out, stored>>
  BY DEF Returns, Pending, disk
<1>2. Part(files', files)
  BY <1>1 DEF Part
<1> QED
  BY <1>1, <1>2, PlainStep

(* A reset that removes a file only takes.  (reset) *)
LEMMA ResetRemoveReaders ==
    ASSUME FinitelyMany, IndInv, IndInv', ReadersInv, NEW t \in Tasks, ResetRemove(t)
    PROVE  ReadersInv'
<1>1. PICK r \in ops[t].rest, o \in DOMAIN files :
        /\ files' = Drop(files, {o})
        /\ Pending(t, IF ops[t].rest = {r} THEN Idle
                      ELSE ResetOp(ops[t].rest \ {r}, TRUE))
  BY DEF ResetRemove
<1>2. UNCHANGED <<groups, last_id, out, stored>> /\ ops[t].kind = "reset"
  BY DEF ResetRemove, Resumes, hist
<1> DEFINE op == IF ops[t].rest = {r} THEN Idle ELSE ResetOp(ops[t].rest \ {r}, TRUE)
<1>3. op = Idle \/ op.kind = "reset"
  BY DEF ResetOp
<1>4. ops' = [ops EXCEPT ![t] = op]
  BY <1>1 DEF Pending
<1> HIDE DEF op
<1>5. ops[t] # Idle /\ SpillsAlone(ops)
  BY <1>2 DEF Idle, ReadersInv
<1>6. \A s \in Tasks \ {t} : ops[s].kind # "spill"
  BY <1>5, ExcludesSpills
<1>7. Part(files', files)
  BY <1>1, DropPart
<1> QED
  BY <1>2, <1>3, <1>4, <1>6, <1>7, PlainStep

(* Deleting an instance only takes.  (delete_instance) *)
LEMMA DeleteReaders ==
    ASSUME FinitelyMany, IndInv, IndInv', ReadersInv, NoSpill,
           NEW i \in Instances, delete_instance(i)
    PROVE  ReadersInv'
<1>1. groups' = Drop(groups, {i}) /\ UNCHANGED <<files, last_id, ops, stored, out>>
  BY DEF delete_instance
<1>2. Part(files', files)
  BY <1>1 DEF Part
<1> QED
  BY <1>1, <1>2, DroppedGroups, NoneLighter

(* So does the removal it has started.  (delete_instance) *)
LEMMA UnlinkReaders ==
    ASSUME FinitelyMany, IndInv, IndInv', ReadersInv, NEW o, Unlink(o)
    PROVE  ReadersInv'
<1>1. UNCHANGED <<groups, last_id, ops, stored, out>>
  BY DEF Unlink, hist
<1>2. Part(files', files)
  BY DropPart DEF Unlink
<1> QED
  BY <1>1, <1>2, SameGroups, NoneLighter

(* A step that changes neither groups nor files nor calls.  (update_config *)
(* and the scan that meets a null group)                                   *)
LEMMA StillReaders ==
    ASSUME FinitelyMany, IndInv, IndInv', ReadersInv,
           UNCHANGED <<groups, files, last_id, ops, stored, out>>
    PROVE  ReadersInv'
<1>1. Part(files', files)
  BY DEF Part
<1> QED
  BY <1>1, SameGroups, NoneLighter

(* A group that becomes complete has the trajectories it had.              *)
(* (check_group_timeouts)                                                  *)
LEMMA TimeoutsReaders ==
    ASSUME FinitelyMany, IndInv, IndInv', ReadersInv, NoSpill, check_group_timeouts
    PROVE  ReadersInv'
<1>1. PICK old \in SUBSET (DOMAIN groups \ Ready) :
        groups' = [i \in DOMAIN groups |->
            IF i \in old THEN [groups[i] EXCEPT !.group_ptr.is_complete = TRUE]
            ELSE groups[i]]
  BY DEF check_group_timeouts
<1>2. UNCHANGED <<files, last_id, ops, stored, out>>
  BY DEF check_group_timeouts, disk, hist, stats, tallies
<1>3. ASSUME NEW i \in DOMAIN groups
      PROVE  /\ groups'[i].disk_offset = groups[i].disk_offset
             /\ \A u \in Uids : InEntry(u, groups', i) = InEntry(u, groups, i)
  <2>1. groups[i] \in Entry
    BY DEF IndInv, GroupsGood, Partial
  <2>2. CASE i \in old
    <3> DEFINE g == groups[i].group_ptr
               h == [g EXCEPT !.is_complete = TRUE]
    <3>1. g \in Group /\ g # NoGroup
      BY <2>1, <2>2 DEF Ready, IsComplete, Entry
    <3>2. groups'[i] = [groups[i] EXCEPT !.group_ptr = h]
      BY <1>1, <2>2
    <3>3. h \in Group /\ h.trajectories = g.trajectories
      BY <3>1 DEF Group
    <3>4. \A u : TimesIn(u, h) = TimesIn(u, g)
      BY <3>3 DEF TimesIn
    <3>5. i \in InMemory(groups)
      BY <3>1 DEF InMemory
    <3> HIDE DEF g
    <3>6. groups'[i].group_ptr = h /\ groups'[i].disk_offset = groups[i].disk_offset
          /\ h # NoGroup
      <4> HIDE DEF h
      <4> QED
        BY <2>1, <3>2, <3>3, NoGroupAssumption DEF Entry
    <3>7. i \in InMemory(groups')
      BY <1>1, <3>6 DEF InMemory
    <3> QED
      BY <3>4, <3>5, <3>6, <3>7 DEF InEntry, g
  <2>3. CASE i \notin old
    BY <1>1, <2>3 DEF InEntry, InMemory
  <2> QED
    BY <2>2, <2>3
<1>4. DOMAIN groups' = DOMAIN groups
  BY <1>1
<1>5. ASSUME NEW u \in Uids, NEW i \in Instances
      PROVE  InEntry(u, groups', i) <= InEntry(u, groups, i)
  <2>1. Typed(ops, groups, files, last_id)
    BY StateTyped
  <2>2. InEntry(u, groups, i) \in Nat
    BY <2>1, WaitsNat
  <2>3. i \notin DOMAIN groups => InEntry(u, groups', i) = 0
    BY <1>4 DEF InEntry, InMemory
  <2> QED
    BY <1>3, <2>2, <2>3
<1>6. Part(files', files)
  BY <1>2 DEF Part
<1>7. \A i \in DOMAIN groups' :
         i \in DOMAIN groups /\ groups'[i].disk_offset = groups[i].disk_offset
  BY <1>3, <1>4
<1> QED
  BY <1>2, <1>5, <1>6, <1>7, NoneLighter

(* A reset only takes.  (reset) *)
LEMMA ResetReaders ==
    ASSUME FinitelyMany, IndInv, IndInv', ReadersInv, NoSpill, NEW t \in Tasks, reset(t)
    PROVE  ReadersInv'
<1>1. groups' = Drop(groups, DOMAIN groups)
  BY DEF reset, Drop
<1>2. UNCHANGED <<files, last_id, stored, out>>
  BY DEF reset, disk
<1>3. Part(files', files)
  BY <1>2 DEF Part
<1>4. CASE UNCHANGED ops
  BY <1>1, <1>2, <1>3, <1>4, DroppedGroups, NoneLighter
<1>5. ASSUME NEW offsets, Pending(t, ResetOp(offsets, FALSE)) PROVE ReadersInv'
  <2> DEFINE op == ResetOp(offsets, FALSE)
  <2>1. ops' = [ops EXCEPT ![t] = op] /\ op.kind = "reset"
    BY <1>5 DEF Pending, ResetOp
  <2> HIDE DEF op
  <2>2. op.kind # "spill" /\ op.kind \notin {"spill", "load", "unlink"}
    BY <2>1
  <2>3. Lighter(op, ops[t], files', files) /\ OpCarries(op, groups', files')
    BY <2>2, CarriesNothing, NoRead
  <2>4. Undisturbed(t) /\ \A s \in Tasks \ {t} : ops[s].kind # "spill"
    BY DEF Undisturbed, NoSpill
  <2> QED
    BY <1>1, <1>2, <1>3, <2>1, <2>2, <2>3, <2>4, DroppedGroups, OneLighter
<1> QED
  BY <1>4, <1>5 DEF reset

(* What is left of a call after a write is no spill and no read.  *)
LEMMA RestPlain ==
    ASSUME IndInv, ReadersInv, NEW t \in Tasks, NEW i, NEW u, Writes(t, i, u)
    PROVE  \/ Rest(t) = Idle
           \/ Rest(t).kind = "batch" /\ \A s \in Tasks \ {t} : ops[s].kind # "spill"
<1>1. CASE Rest(t) = Idle
  BY <1>1
<1>2. CASE Rest(t) # Idle
  <2>1. ops[t] # Idle /\ Rest(t) = BatchOp(Tail(ops[t].rest))
    BY <1>2 DEF Rest
  <2>2. \A s \in Tasks \ {t} : ops[s].kind # "spill"
    BY <2>1, ExcludesSpills DEF ReadersInv
  <2> QED
    BY <2>1, <2>2 DEF BatchOp
<1> QED
  BY <1>1, <1>2

(* A write that stores nothing carries nothing.  (write) *)
LEMMA IdleWriteReaders ==
    ASSUME FinitelyMany, IndInv, IndInv', ReadersInv,
           NEW t \in Tasks, NEW i \in Instances, NEW u \in Uids,
           WriteDuplicate(t, i, u) \/ WriteOnDisk(t, i, u)
    PROVE  ReadersInv'
<1>1. /\ ops' = [ops EXCEPT ![t] = Rest(t)] /\ Writes(t, i, u)
      /\ UNCHANGED <<groups, files, last_id, stored, out>>
  BY DEF WriteDuplicate, WriteOnDisk, Pending, disk, hist
<1>2. \/ Rest(t) = Idle
      \/ Rest(t).kind = "batch" /\ \A s \in Tasks \ {t} : ops[s].kind # "spill"
  BY <1>1, RestPlain
<1>3. Part(files', files)
  BY <1>1 DEF Part
<1> DEFINE op == Rest(t)
<1>4. /\ ops' = [ops EXCEPT ![t] = op]
      /\ \/ op = Idle
         \/ op.kind \in {"batch", "reset"} /\ \A s \in Tasks \ {t} : ops[s].kind # "spill"
  BY <1>1, <1>2
<1> HIDE DEF op
<1> QED
  BY <1>1, <1>3, <1>4, PlainStep

(* Neither does taking a vector of trajectories.  (batch_write) *)
LEMMA BatchReaders ==
    ASSUME FinitelyMany, IndInv, IndInv', ReadersInv, NoSpill,
           NEW t \in Tasks, NEW b, batch_write(t, b)
    PROVE  ReadersInv'
<1>1. /\ ops' = [ops EXCEPT ![t] = BatchOp(b)]
      /\ UNCHANGED <<groups, files, last_id, stored, out>>
  BY DEF batch_write, Pending, disk, hist
<1>2. BatchOp(b).kind = "batch"
  BY DEF BatchOp
<1>3. Part(files', files)
  BY <1>1 DEF Part
<1>4. \A s \in Tasks \ {t} : ops[s].kind # "spill"
  BY DEF NoSpill
<1> QED
  BY <1>1, <1>2, <1>3, <1>4, PlainStep

(* The group has the uid once more, and every other as often as before.    *)
(* (write)                                                                 *)
LEMMA TimesGrown ==
    ASSUME NEW g \in Group, NEW u \in Uids, NEW v
    PROVE  TimesIn(v, Grown(g, u)) = TimesIn(v, g) + IF v = u THEN 1 ELSE 0
<1> DEFINE s == g.trajectories
           r == Append(s, u)
           old == {n \in DOMAIN s : s[n] = v}
           new == {n \in DOMAIN r : r[n] = v}
<1>1. s \in Seq(Uids)
  BY DEF Group
<1>2. /\ DOMAIN s = 1 .. Len(s) /\ Len(s) \in Nat
      /\ DOMAIN r = 1 .. (Len(s) + 1)
      /\ r[Len(s) + 1] = u /\ \A n \in 1 .. Len(s) : r[n] = s[n]
  BY <1>1
<1>3. Grown(g, u).trajectories = r
  BY DEF Grown, Group
<1> HIDE DEF s, r
<1>4. IsFiniteSet(DOMAIN s)
  BY <1>2, FS_Interval
<1>5. IsFiniteSet(old)
  BY <1>4, FS_Subset
<1>6. new = IF v = u THEN old \union {Len(s) + 1} ELSE old
  BY <1>2
<1>7. Len(s) + 1 \notin old
  BY <1>2
<1>8. TimesIn(v, g) = Cardinality(old) /\ TimesIn(v, Grown(g, u)) = Cardinality(new)
  BY <1>3 DEF TimesIn, s
<1>9. Cardinality(old) \in Nat
  BY <1>5, FS_CardinalityType
<1> HIDE DEF old, new
<1>10. Cardinality(old \union {Len(s) + 1}) = Cardinality(old) + 1
  BY <1>5, <1>7, FS_AddElement
<1> QED
  BY <1>6, <1>8, <1>9, <1>10

(* If one entry has a uid once more, it may be delivered once more.  *)
LEMMA OnceMore ==
    ASSUME FinitelyMany, NEW u, NEW last,
           NEW os, NEW gs, NEW fs, Typed(os, gs, fs, last),
           NEW os2, NEW gs2, NEW fs2, Typed(os2, gs2, fs2, last),
           NEW k \in Instances, NEW n \in Nat,
           InEntry(u, gs2, k) <= InEntry(u, gs, k) + n,
           \A i \in Instances \ {k} : InEntry(u, gs2, i) <= InEntry(u, gs, i),
           \A o \in 1 .. last : InFile(u, os2, gs2, fs2, o) <= InFile(u, os, gs, fs, o),
           \A t \in Tasks : \A i \in Instances :
              InHands(u, os2[t], fs2, i) <= InHands(u, os[t], fs, i)
    PROVE  ToDeliver(u, os2, gs2, fs2, last) <= ToDeliver(u, os, gs, fs, last) + n
<1> DEFINE S == Places(last)
           f == Waiting(u, os2, gs2, fs2, last)
           g == Waiting(u, os, gs, fs, last)
           e == <<"entry", k>>
<1>1. IsFiniteSet(S) /\ IntOn(f, S) /\ IntOn(g, S)
  <2>1. IsFiniteSet(S) /\ \A p \in S : g[p] \in Nat
    BY WaitsNat
  <2>2. \A p \in S : f[p] \in Nat
    BY WaitsNat
  <2> QED
    BY <2>1, <2>2 DEF IntOn
<1>2. e \in S
  BY DEF Places
<1>3. f[e] <= g[e] + n
  BY <1>2 DEF Waiting, Waits
<1>4. ASSUME NEW p \in S \ {e} PROVE f[p] <= g[p]
  <2>1. CASE p \in {"entry"} \X Instances
    BY <2>1, <1>4 DEF Waiting, Waits
  <2>2. CASE p \in {"file"} \X (1 .. last)
    BY <2>2, <1>4 DEF Waiting, Waits
  <2>3. CASE p \in {"hands"} \X (Tasks \X Instances)
    BY <2>3, <1>4 DEF Waiting, Waits
  <2> QED
    BY <2>1, <2>2, <2>3 DEF Places
<1>5. ToDeliver(u, os2, gs2, fs2, last) = SumFunctionOnSet(f, S)
      /\ ToDeliver(u, os, gs, fs, last) = SumFunctionOnSet(g, S)
  BY DEF ToDeliver
<1> HIDE DEF S, f, g, e
<1>6. /\ SumFunctionOnSet(f, S) = f[e] + SumFunctionOnSet(f, S \ {e})
      /\ SumFunctionOnSet(g, S) = g[e] + SumFunctionOnSet(g, S \ {e})
  BY <1>1, <1>2, SumRemove
<1>7. IsFiniteSet(S \ {e}) /\ IntOn(f, S \ {e}) /\ IntOn(g, S \ {e}) /\ f[e] \in Int /\ g[e] \in Int
  BY <1>1, <1>2, FS_Subset DEF IntOn
<1>8. SumFunctionOnSet(f, S \ {e}) <= SumFunctionOnSet(g, S \ {e})
  BY <1>4, <1>7, SumLeq
<1>9. SumFunctionOnSet(f, S \ {e}) \in Int /\ SumFunctionOnSet(g, S \ {e}) \in Int
  BY <1>7, SumType
<1> QED
  BY <1>3, <1>5, <1>6, <1>7, <1>8, <1>9

(* A write puts one trajectory, its own, into one entry.  (write) *)
LEMMA StoredOnce ==
    ASSUME FinitelyMany, IndInv, NEW t \in Tasks, NEW i \in Instances, NEW u \in Uids,
           Stores(t, i, u), NEW v \in Uids
    PROVE  /\ InEntry(v, groups', i) <= InEntry(v, groups, i) + IF v = u THEN 1 ELSE 0
           /\ \A j \in Instances \ {i} : InEntry(v, groups', j) = InEntry(v, groups, j)
           /\ \A j \in DOMAIN groups' :
                 \/ groups'[j].disk_offset = 0
                 \/ j \in DOMAIN groups /\ groups'[j].disk_offset = groups[j].disk_offset
<1>1. groups' = Put(groups, i, Appended(i, u)) /\ ~IsOnDisk(EntryOf(i))
  BY DEF Stores
<1>2. /\ Appended(i, u) \in Entry /\ Appended(i, u).group_ptr = Grown(Growing(i), u)
      /\ Growing(i) \in Group /\ Grown(Growing(i), u) \in Group
      /\ EntryGood(Appended(i, u), i, files, last_id)
  BY <1>1, AppendedGroup, AppendedGood
<1>3. DOMAIN groups' = DOMAIN groups \union {i} /\ groups'[i] = Appended(i, u)
      /\ \A j \in DOMAIN groups \ {i} : groups'[j] = groups[j]
  BY <1>1 DEF Put
<1>4. groups'[i].group_ptr = Grown(Growing(i), u) /\ groups'[i].group_ptr # NoGroup
  BY <1>2, <1>3, NoGroupAssumption
<1>5. InEntry(v, groups', i) = TimesIn(v, Grown(Growing(i), u))
  BY <1>3, <1>4 DEF InEntry, InMemory
<1>6. TimesIn(v, Growing(i)) <= InEntry(v, groups, i)
  <2>1. CASE i \in InMemory(groups)
    <3>1. Growing(i) = groups[i].group_ptr
      BY <2>1 DEF Growing, EntryOf, InMemory
    <3>2. TimesIn(v, Growing(i)) \in Nat
      BY <1>2, TimesNat
    <3> QED
      BY <2>1, <3>1, <3>2 DEF InEntry
  <2>2. CASE i \notin InMemory(groups)
    <3>1. EntryOf(i).group_ptr = NoGroup
      BY <2>2 DEF EntryOf, NewEntry, InMemory
    <3>2. Growing(i).trajectories = <<>>
      BY <3>1 DEF Growing
    <3>3. {n \in DOMAIN Growing(i).trajectories : Growing(i).trajectories[n] = v} = {}
      BY <3>2
    <3>4. TimesIn(v, Growing(i)) = 0
      BY <3>3, FS_EmptySet DEF TimesIn
    <3> QED
      BY <2>2, <3>4 DEF InEntry
  <2> QED
    BY <2>1, <2>2
<1>7. TimesIn(v, Grown(Growing(i), u)) = TimesIn(v, Growing(i)) + IF v = u THEN 1 ELSE 0
  BY <1>2, TimesGrown
<1>8. InEntry(v, groups, i) \in Nat /\ TimesIn(v, Growing(i)) \in Nat
  BY <1>2, TimesNat, StateTyped, WaitsNat
<1>9. ASSUME NEW j \in Instances \ {i} PROVE InEntry(v, groups', j) = InEntry(v, groups, j)
  BY <1>3 DEF InEntry, InMemory
<1>10. groups'[i].disk_offset = 0
  BY <1>2, <1>3, <1>4 DEF EntryGood
<1> QED
  BY <1>3, <1>5, <1>6, <1>7, <1>8, <1>9, <1>10

(* A write that stores its trajectory makes it one that may be delivered,  *)
(* once.  (write)                                                          *)
LEMMA StoresReaders ==
    ASSUME FinitelyMany, IndInv, IndInv', ReadersInv,
           NEW t \in Tasks, NEW i \in Instances, NEW u \in Uids, Stores(t, i, u),
           NEW op, \A s \in Tasks : ops'[s] = IF s = t THEN op ELSE ops[s],
           ~Reads(op), OpCarries(op, groups', files), SpillsAlone(ops'),
           \A s \in Tasks \ {t} : ops[s].kind # "spill"
    PROVE  ReadersInv'
<1> DEFINE os == ops'
           gs == groups'
<1>1. UNCHANGED <<files, last_id, out>> /\ stored' = [stored EXCEPT ![u] = @ + 1]
  BY DEF Stores, disk
<1>2. Typed(ops, groups, files, last_id) /\ Typed(os, gs, files, last_id)
  BY <1>1, StateTyped
<1>3. \A s \in Tasks : os[s] = op \/ os[s] = ops[s]
  OBVIOUS
<1>4. \A s \in Tasks : os[s] = op \/ (os[s] = ops[s] /\ ops[s].kind # "spill")
  OBVIOUS
<1>5. \A j \in DOMAIN gs : \/ gs[j].disk_offset = 0
                           \/ j \in DOMAIN groups /\ gs[j].disk_offset = groups[j].disk_offset
  BY StoredOnce
<1>6. \A v \in Uids :
        /\ InEntry(v, gs, i) <= InEntry(v, groups, i) + IF v = u THEN 1 ELSE 0
        /\ \A j \in Instances \ {i} : InEntry(v, gs, j) = InEntry(v, groups, j)
  BY StoredOnce
<1>7. SpillsAlone(os) /\ OpCarries(op, gs, files)
  OBVIOUS
<1> HIDE DEF os, gs
<1>8. Carries(os, gs, files)
  <2> SUFFICES ASSUME NEW s \in Tasks PROVE OpCarries(os[s], gs, files)
    BY DEF Carries
  <2>1. CASE os[s] = op
    BY <1>7, <2>1
  <2>2. CASE os[s] = ops[s] /\ ops[s].kind # "spill"
    <3>1. OpCarries(ops[s], groups, files)
      BY DEF ReadersInv, Carries
    <3> QED
      BY <2>2, <3>1 DEF OpCarries
  <2> QED
    BY <1>4, <2>1, <2>2
<1>9. ASSUME NEW v \in Uids
      PROVE  ToDeliver(v, os, gs, files, last_id)
               <= ToDeliver(v, ops, groups, files, last_id) + IF v = u THEN 1 ELSE 0
  <2> DEFINE n == IF v = u THEN 1 ELSE 0
  <2>1. /\ \A j \in Instances : InEntry(v, groups, j) \in Nat
        /\ \A o \in 1 .. last_id : InFile(v, ops, groups, files, o) \in Nat
        /\ \A s \in Tasks : \A j \in Instances : InHands(v, ops[s], files, j) \in Nat
    BY <1>2, WaitsNat
  <2>2. Refs(op) = {} /\ \A j : InHands(v, op, files, j) = 0
    BY EmptyHands
  <2>3. \A s \in Tasks : Refs(os[s]) \subseteq Refs(ops[s])
    BY <1>3, <2>2
  <2>4. Part(files, files)
    BY DEF Part
  <2>5. ASSUME NEW o \in 1 .. last_id
        PROVE  InFile(v, os, gs, files, o) <= InFile(v, ops, groups, files, o)
    <3>1. o \in Live(os, gs) => o \in Live(ops, groups)
      BY <1>5, <2>3, LiveLess
    <3> QED
      BY <2>1, <2>4, <3>1, FileLess
  <2>6. \A s \in Tasks : \A j \in Instances :
           InHands(v, os[s], files, j) <= InHands(v, ops[s], files, j)
    BY <1>3, <2>1, <2>2
  <2>7. n \in Nat /\ InEntry(v, gs, i) <= InEntry(v, groups, i) + n
    BY <1>6
  <2>8. \A j \in Instances \ {i} : InEntry(v, gs, j) <= InEntry(v, groups, j)
    BY <1>6, <2>1
  <2> HIDE DEF n
  <2>9. ToDeliver(v, os, gs, files, last_id) <= ToDeliver(v, ops, groups, files, last_id) + n
    BY <1>2, <2>5, <2>6, <2>7, <2>8, OnceMore
  <2> QED
    BY <2>9 DEF n
<1>10. ASSUME NEW v \in Uids
       PROVE  out[v] + ToDeliver(v, os, gs, files, last_id) <= stored'[v]
  <2>1. out[v] + ToDeliver(v, ops, groups, files, last_id) <= stored[v]
    BY DEF ReadersInv, Within
  <2>2. out[v] \in Nat /\ stored[v] \in Nat /\ stored'[v] = stored[v] + IF v = u THEN 1 ELSE 0
    BY <1>1 DEF ReadersInv, IndInv, CountersOK
  <2>3. /\ ToDeliver(v, os, gs, files, last_id) \in Nat
        /\ ToDeliver(v, ops, groups, files, last_id) \in Nat
    BY <1>2, DeliverNat
  <2> QED
    BY <1>9, <2>1, <2>2, <2>3
<1>11. out \in [Uids -> Nat]
  BY DEF ReadersInv
<1>12. Within(out, stored', os, gs, files, last_id)
  BY <1>10 DEF Within
<1> QED
  BY <1>1, <1>7, <1>8, <1>11, <1>12 DEF ReadersInv, os, gs

(* Whatever a write does, it makes no trajectory one that may be delivered *)
(* but its own.  A spill is begun only where nothing else is pending.      *)
(* (write)                                                                 *)
LEMMA WriteReaders ==
    ASSUME FinitelyMany, IndInv, IndInv', ReadersInv,
           NEW t \in Tasks, NEW i \in Instances, NEW u \in Uids, Write(t, i, u),
           \/ ops[t].kind = "batch"
           \/ NoSpill /\ (Quiet \/ \A s \in Tasks : ops'[s].kind # "spill")
    PROVE  ReadersInv'
<1>1. \A s \in Tasks \ {t} : ops[s].kind # "spill"
  <2>1. CASE ops[t].kind = "batch"
    <3>1. ops[t] # Idle /\ SpillsAlone(ops)
      BY <2>1 DEF Idle, ReadersInv
    <3> QED
      BY <3>1, ExcludesSpills
  <2> QED
    BY <2>1 DEF NoSpill
<1>2. DOMAIN ops = Tasks /\ SpillsAlone(ops)
  BY DEF IndInv, OpsGood, ReadersInv
<1>3. CASE WriteDuplicate(t, i, u) \/ WriteOnDisk(t, i, u)
  BY <1>3, IdleWriteReaders
<1>4. CASE WriteInMemory(t, i, u)
  <2> DEFINE op == Rest(t)
  <2>1. Stores(t, i, u) /\ ops' = [ops EXCEPT ![t] = op] /\ Writes(t, i, u)
    BY <1>4 DEF WriteInMemory, Pending, Stores
  <2>2. op = Idle \/ op.kind = "batch"
    BY <2>1, RestPlain
  <2> HIDE DEF op
  <2>3. op.kind \notin {"spill", "load", "unlink"}
    BY <2>2 DEF Idle
  <2>4. OpCarries(op, groups', files) /\ ~Reads(op)
    BY <2>3, CarriesNothing
  <2>5. SpillsAlone(ops')
    BY <1>1, <1>2, <2>1, <2>3, AloneUpdate
  <2>6. \A s \in Tasks : ops'[s] = IF s = t THEN op ELSE ops[s]
    BY <1>2, <2>1
  <2> QED
    BY <1>1, <2>1, <2>4, <2>5, <2>6, StoresReaders
<1>5. CASE WriteSpills(t, i, u)
  <2>1. /\ ops[t] = Idle /\ Stores(t, i, u)
        /\ \E K \in ToSpill :
             Pending(t, SpillOp(u, [k \in K |-> groups'[k].group_ptr], [k \in {} |-> 0]))
    BY <1>5 DEF WriteSpills
  <2>2. PICK K \in ToSpill :
          Pending(t, SpillOp(u, [k \in K |-> groups'[k].group_ptr], [k \in {} |-> 0]))
    BY <2>1
  <2> DEFINE op == SpillOp(u, [k \in K |-> groups'[k].group_ptr], [k \in {} |-> 0])
  <2>3. ops' = [ops EXCEPT ![t] = op]
    BY <2>2 DEF Pending
  <2>4. K \subseteq DOMAIN groups'
    BY DEF ToSpill, SpillChoices, Spillable, InMemory
  <2>5. op.kind = "spill" /\ op.snaps = [k \in K |-> groups'[k].group_ptr]
        /\ op.offs = [k \in {} |-> 0]
    BY DEF SpillOp
  <2> HIDE DEF op
  <2>6. OpCarries(op, groups', files) /\ ~Reads(op)
    BY <2>4, <2>5 DEF OpCarries, Reads
  <2>7. \A s \in Tasks \ {t} : ops[s] = Idle
    <3>1. ops'[t].kind = "spill"
      BY <1>2, <2>3, <2>5
    <3>2. ops[t].kind # "batch"
      BY <2>1 DEF Idle
    <3> QED
      BY <3>1, <3>2 DEF Quiet
  <2>8. SpillsAlone(ops')
    BY <1>2, <2>3, <2>7, AloneUpdate
  <2>9. \A s \in Tasks : ops'[s] = IF s = t THEN op ELSE ops[s]
    BY <1>2, <2>3
  <2> QED
    BY <1>1, <2>1, <2>6, <2>8, <2>9, StoresReaders
<1>6. CASE WriteAborts(t, i, u)
  <2>1. ops[t] # Idle /\ Stores(t, i, u) /\ UNCHANGED ops
    BY <1>6 DEF WriteAborts
  <2>2. ops[t].kind = "batch"
    BY <2>1 DEF Stores, Writes, Starts, Resumes
  <2>3. OpCarries(ops[t], groups', files) /\ ~Reads(ops[t])
    BY <2>2, CarriesNothing
  <2>4. SpillsAlone(ops')
    BY <1>2, <2>1
  <2>5. \A s \in Tasks : ops'[s] = IF s = t THEN ops[t] ELSE ops[s]
    BY <2>1
  <2> QED
    BY <1>1, <2>1, <2>3, <2>4, <2>5, StoresReaders
<1> QED
  BY <1>3, <1>4, <1>5, <1>6 DEF Write

(* If no trajectory may be delivered more often than before, what pending  *)
(* calls have captured is all that is left to show.                        *)
LEMMA NoMore ==
    ASSUME FinitelyMany, IndInv, IndInv', ReadersInv, UNCHANGED <<out, stored>>,
           SpillsAlone(ops'), Carries(ops', groups', files'),
           \A u \in Uids : ToDeliver(u, ops', groups', files', last_id')
                             <= ToDeliver(u, ops, groups, files, last_id)
    PROVE  ReadersInv'
<1>1. Typed(ops, groups, files, last_id) /\ Typed(ops', groups', files', last_id')
  BY StateTyped
<1>2. ASSUME NEW u \in Uids
      PROVE  out[u] + ToDeliver(u, ops', groups', files', last_id') <= stored[u]
  <2>1. out[u] + ToDeliver(u, ops, groups, files, last_id) <= stored[u]
    BY DEF ReadersInv, Within
  <2>2. out[u] \in Nat /\ stored[u] \in Nat
    BY DEF ReadersInv, IndInv, CountersOK
  <2>3. ToDeliver(u, ops, groups, files, last_id) \in Nat
    BY <1>1, DeliverNat
  <2>4. ToDeliver(u, ops', groups', files', last_id') \in Nat
    BY <1>1, DeliverNat
  <2>5. ToDeliver(u, ops', groups', files', last_id') <= ToDeliver(u, ops, groups, files, last_id)
    OBVIOUS
  <2> QED
    BY <2>1, <2>2, <2>3, <2>4, <2>5
<1>3. out \in [Uids -> Nat]
  BY DEF ReadersInv
<1> QED
  BY <1>2, <1>3 DEF ReadersInv, Within

(* Groups that go from the places a[k] to the places b[k] may be delivered *)
(* as often as before.                                                     *)
LEMMA Moved ==
    ASSUME FinitelyMany, NEW u, NEW last,
           NEW os, NEW gs, NEW fs, Typed(os, gs, fs, last),
           NEW os2, NEW gs2, NEW fs2, Typed(os2, gs2, fs2, last),
           NEW K, NEW a \in [K -> Places(last)], NEW b \in [K -> Places(last)],
           \A k, l \in K : a[k] # b[l],
           \A k, l \in K : a[k] = a[l] \/ b[k] = b[l] => k = l,
           \A k \in K : /\ Waits(u, os2, gs2, fs2, a[k]) = 0
                        /\ Waits(u, os2, gs2, fs2, b[k]) <= Waits(u, os, gs, fs, a[k]),
           \A p \in Places(last) :
              \/ \E k \in K : p = a[k] \/ p = b[k]
              \/ Waits(u, os2, gs2, fs2, p) <= Waits(u, os, gs, fs, p)
    PROVE  ToDeliver(u, os2, gs2, fs2, last) <= ToDeliver(u, os, gs, fs, last)
<1> DEFINE IsA(p) == \E k \in K : p = a[k]
           IsB(p) == \E k \in K : p = b[k]
           m == [p \in Places(last) |->
                   IF IsA(p) THEN b[CHOOSE k \in K : p = a[k]]
                   ELSE IF IsB(p) THEN a[CHOOSE k \in K : p = b[k]] ELSE p]
<1>1. ASSUME NEW k \in K
      PROVE  a[k] \in Places(last) /\ b[k] \in Places(last) /\ m[a[k]] = b[k] /\ m[b[k]] = a[k]
  <2>1. a[k] \in Places(last) /\ b[k] \in Places(last)
    OBVIOUS
  <2>2. (CHOOSE l \in K : a[k] = a[l]) = k /\ (CHOOSE l \in K : b[k] = b[l]) = k
    OBVIOUS
  <2>3. IsA(a[k]) /\ IsB(b[k]) /\ ~IsA(b[k])
    OBVIOUS
  <2>4. m[a[k]] = b[CHOOSE l \in K : a[k] = a[l]] /\ m[b[k]] = a[CHOOSE l \in K : b[k] = b[l]]
    BY <2>1, <2>3
  <2> HIDE DEF m
  <2> QED
    BY <2>1, <2>2, <2>4
<1>2. ASSUME NEW p \in Places(last), ~IsA(p), ~IsB(p) PROVE m[p] = p
  BY <1>2
<1>3. \A p \in Places(last) : Waits(u, os, gs, fs, p) \in Nat
  <2>1. \A p \in Places(last) : Waiting(u, os, gs, fs, last)[p] \in Nat
    BY WaitsNat
  <2> QED
    BY <2>1 DEF Waiting
<1>4. m = [p \in Places(last) |-> m[p]]
  OBVIOUS
<1> HIDE DEF m
<1>5. ASSUME NEW p \in Places(last)
      PROVE  /\ m[p] \in Places(last) /\ m[m[p]] = p
             /\ Waits(u, os2, gs2, fs2, p) <= Waits(u, os, gs, fs, m[p])
  <2>1. ASSUME NEW k \in K, p = a[k]
        PROVE  /\ m[p] \in Places(last) /\ m[m[p]] = p
               /\ Waits(u, os2, gs2, fs2, p) <= Waits(u, os, gs, fs, m[p])
    <3>1. m[p] = b[k] /\ m[b[k]] = p /\ b[k] \in Places(last)
      BY <1>1, <2>1
    <3>2. Waits(u, os2, gs2, fs2, p) = 0
      BY <2>1
    <3>3. Waits(u, os, gs, fs, b[k]) \in Nat
      BY <1>3, <3>1
    <3>4. Waits(u, os2, gs2, fs2, p) <= Waits(u, os, gs, fs, b[k])
      BY <3>2, <3>3
    <3> QED
      BY <3>1, <3>4, Zenon
  <2>2. ASSUME NEW k \in K, p = b[k]
        PROVE  /\ m[p] \in Places(last) /\ m[m[p]] = p
               /\ Waits(u, os2, gs2, fs2, p) <= Waits(u, os, gs, fs, m[p])
    <3>1. m[p] = a[k] /\ m[a[k]] = p /\ a[k] \in Places(last)
      BY <1>1, <2>2
    <3>2. Waits(u, os2, gs2, fs2, p) <= Waits(u, os, gs, fs, a[k])
      BY <2>2
    <3> QED
      BY <3>1, <3>2, Zenon
  <2>3. CASE ~IsA(p) /\ ~IsB(p)
    <3>1. m[p] = p
      BY <1>2, <2>3
    <3>2. Waits(u, os2, gs2, fs2, p) <= Waits(u, os, gs, fs, p)
      BY <2>3
    <3> QED
      BY <3>1, <3>2, Zenon
  <2> QED
    BY <2>1, <2>2, <2>3
<1>6. m \in [Places(last) -> Places(last)]
  BY <1>4, <1>5
<1> QED
  BY <1>5, <1>6, Exchanged

(* A file more that nobody goes by yet is no place to be delivered from.   *)
LEMMA NewFile ==
    ASSUME FinitelyMany, NEW u, NEW last,
           NEW os, NEW gs, NEW fs, Typed(os, gs, fs, last),
           NEW os2, NEW gs2, NEW fs2, Typed(os2, gs2, fs2, last + 1),
           last + 1 \notin Live(os2, gs2),
           \A i \in Instances : InEntry(u, gs2, i) <= InEntry(u, gs, i),
           \A o \in 1 .. last : InFile(u, os2, gs2, fs2, o) <= InFile(u, os, gs, fs, o),
           \A t \in Tasks : \A i \in Instances :
              InHands(u, os2[t], fs2, i) <= InHands(u, os[t], fs, i)
    PROVE  ToDeliver(u, os2, gs2, fs2, last + 1) <= ToDeliver(u, os, gs, fs, last)
<1> DEFINE S == Places(last)
           f == Waiting(u, os2, gs2, fs2, last + 1)
           g == Waiting(u, os, gs, fs, last)
           e == <<"file", last + 1>>
<1>1. last \in Nat
  BY DEF Typed
<1>2. Places(last + 1) = S \union {e} /\ e \notin S
  <2>1. 1 .. (last + 1) = (1 .. last) \union {last + 1} /\ last + 1 \notin 1 .. last
    BY <1>1
  <2> QED
    BY <2>1 DEF Places
<1>3. IsFiniteSet(S) /\ IntOn(g, S) /\ IntOn(f, S \union {e})
  <2>1. IsFiniteSet(S) /\ \A p \in S : g[p] \in Nat
    BY WaitsNat
  <2>2. \A p \in Places(last + 1) : f[p] \in Nat
    BY WaitsNat
  <2> QED
    BY <1>2, <2>1, <2>2 DEF IntOn
<1>4. f[e] = 0
  BY <1>2 DEF Waiting, Waits, InFile
<1>5. ASSUME NEW p \in S PROVE f[p] <= g[p]
  <2>0. p \in Places(last + 1)
    BY <1>2
  <2>1. CASE p \in {"entry"} \X Instances
    BY <2>0, <2>1 DEF Waiting, Waits
  <2>2. CASE p \in {"file"} \X (1 .. last)
    BY <2>0, <2>2 DEF Waiting, Waits
  <2>3. CASE p \in {"hands"} \X (Tasks \X Instances)
    BY <2>0, <2>3 DEF Waiting, Waits
  <2> QED
    BY <2>1, <2>2, <2>3 DEF Places
<1>6. /\ ToDeliver(u, os2, gs2, fs2, last + 1) = SumFunctionOnSet(f, S \union {e})
      /\ ToDeliver(u, os, gs, fs, last) = SumFunctionOnSet(g, S)
  BY <1>2 DEF ToDeliver
<1> HIDE DEF S, f, g, e
<1>7. SumFunctionOnSet(f, S \union {e}) = f[e] + SumFunctionOnSet(f, S)
  BY <1>2, <1>3, SumAdd
<1>8. IntOn(f, S)
  BY <1>3 DEF IntOn
<1>9. SumFunctionOnSet(f, S) <= SumFunctionOnSet(g, S)
  BY <1>3, <1>5, <1>8, SumLeq
<1>10. SumFunctionOnSet(f, S) \in Int /\ SumFunctionOnSet(g, S) \in Int
  BY <1>3, <1>8, SumType
<1> QED
  BY <1>4, <1>6, <1>7, <1>9, <1>10

(* While a spill is pending nobody reads.  *)
LEMMA SpillLone ==
    ASSUME IndInv, ReadersInv, NEW t \in Tasks, ops[t].kind = "spill"
    PROVE  /\ \A s \in Tasks \ {t} : ops[s] = Idle
           /\ \A s \in Tasks : ~Reads(ops[s])
           /\ OpCarries(ops[t], groups, files)
           /\ DOMAIN ops = Tasks
<1>1. /\ \A s \in Tasks \ {t} : ops[s] = Idle
      /\ OpCarries(ops[t], groups, files) /\ DOMAIN ops = Tasks
  BY DEF ReadersInv, SpillsAlone, Carries, IndInv, OpsGood
<1> QED
  BY <1>1 DEF Reads, Idle

(* Writing a file carries nothing: its id is new, and nobody goes by it.   *)
(* (spill_batch)                                                           *)
LEMMA SpillFileReaders ==
    ASSUME FinitelyMany, IndInv, IndInv', ReadersInv,
           NEW t \in Tasks, NEW k \in Instances, SpillFile(t, k)
    PROVE  ReadersInv'
<1> DEFINE op == ops[t]
           id == last_id + 1
           offs == Put(op.offs, k, id)
           next == [op EXCEPT !.offs = offs]
           os == ops'
           fs == files'
<1>1. /\ op.kind = "spill" /\ k \in DOMAIN op.snaps \ DOMAIN op.offs
      /\ last_id' = id /\ fs = Put(files, id, op.snaps[k])
      /\ os = [ops EXCEPT ![t] = next]
      /\ UNCHANGED <<groups, stored, out>>
  BY DEF SpillFile, Resumes, Pending, hist
<1>2. /\ \A s \in Tasks \ {t} : ops[s] = Idle
      /\ \A s \in Tasks : ~Reads(ops[s])
      /\ OpCarries(op, groups, files) /\ DOMAIN ops = Tasks
  BY <1>1, SpillLone
<1>3. /\ op = SpillOp(op.uid, op.snaps, op.offs)
      /\ Partial(op.offs, DOMAIN op.snaps, 1 .. last_id)
  BY <1>1, SpillShape
<1>4. next = SpillOp(op.uid, op.snaps, offs)
  <2> HIDE DEF offs
  <2> QED
    BY <1>3 DEF SpillOp
<1>5. next.kind = "spill" /\ next.snaps = op.snaps /\ next.offs = offs
  BY <1>4 DEF SpillOp
<1>6. last_id \in Nat /\ DOMAIN files \subseteq 1 .. last_id /\ id \notin 1 .. last_id
  BY DEF IndInv, FilesGood, Partial
<1>7. /\ fs[id] = op.snaps[k] /\ id \in DOMAIN fs
      /\ \A o \in 1 .. last_id : /\ o \in DOMAIN fs <=> o \in DOMAIN files
                                 /\ o \in DOMAIN fs => fs[o] = files[o]
  BY <1>1, <1>6 DEF Put
<1>8. OpCarries(next, groups, fs)
  <2>1. ASSUME NEW j \in DOMAIN offs, offs[j] \in DOMAIN fs
        PROVE  fs[offs[j]] = op.snaps[j]
    <3>1. CASE j = k
      BY <1>7, <3>1 DEF Put
    <3>2. CASE j # k
      <4>1. j \in DOMAIN op.offs /\ offs[j] = op.offs[j] /\ op.offs[j] \in 1 .. last_id
        BY <1>3, <3>2 DEF Put, Partial
      <4>2. op.offs[j] \in DOMAIN files /\ fs[op.offs[j]] = files[op.offs[j]]
        BY <1>7, <2>1, <4>1
      <4>3. files[op.offs[j]] = op.snaps[j]
        BY <1>1, <1>2, <4>1, <4>2 DEF OpCarries
      <4> QED
        BY <4>1, <4>2, <4>3
    <3> QED
      BY <3>1, <3>2
  <2>2. \A j \in DOMAIN op.snaps : j \in DOMAIN groups /\ groups[j].group_ptr = op.snaps[j]
    BY <1>1, <1>2 DEF OpCarries
  <2> HIDE DEF offs, next, fs, op
  <2> QED
    BY <1>5, <2>1, <2>2 DEF OpCarries
<1> HIDE DEF next, offs
<1>9. \A s \in Tasks : os[s] = IF s = t THEN next ELSE Idle
  BY <1>1, <1>2
<1>10. \A s \in Tasks : ~Reads(os[s])
  BY <1>5, <1>9 DEF Reads, Idle
<1>11. SpillsAlone(os)
  <2>1. Idle.kind # "spill"
    BY DEF Idle
  <2> HIDE DEF os
  <2> QED
    BY <1>9, <2>1 DEF SpillsAlone
<1>12. Carries(os, groups, fs)
  <2>1. \A gs, f : OpCarries(Idle, gs, f)
    BY DEF OpCarries, Idle
  <2> QED
    BY <1>8, <1>9, <2>1 DEF Carries
<1>13. Typed(ops, groups, files, last_id) /\ Typed(os, groups, fs, last_id + 1)
  BY <1>1, StateTyped
<1>14. \A s \in Tasks : Refs(os[s]) = {} /\ Refs(ops[s]) = {}
  BY <1>2, <1>10, EmptyHands
<1>15. Live(os, groups) = Live(ops, groups)
  BY <1>14 DEF Live
<1>16. id \notin Live(os, groups)
  <2>1. \A i \in DOMAIN groups : groups[i].disk_offset # id
    BY <1>6 DEF IndInv, GroupsGood, EntryGood
  <2> QED
    BY <1>14, <2>1 DEF Live
<1> HIDE DEF os, fs, op
<1>17. ASSUME NEW u \in Uids
       PROVE  ToDeliver(u, os, groups, fs, last_id + 1) <= ToDeliver(u, ops, groups, files, last_id)
  <2>1. /\ \A i \in Instances : InEntry(u, groups, i) \in Nat
        /\ \A o \in 1 .. last_id : InFile(u, ops, groups, files, o) \in Nat
        /\ \A s \in Tasks : \A i \in Instances : InHands(u, ops[s], files, i) \in Nat
    BY <1>13, WaitsNat
  <2>2. \A i \in Instances : InEntry(u, groups, i) <= InEntry(u, groups, i)
    BY <2>1
  <2>3. \A o \in 1 .. last_id : InFile(u, os, groups, fs, o) = InFile(u, ops, groups, files, o)
    BY <1>7, <1>15 DEF InFile
  <2>4. \A o \in 1 .. last_id : InFile(u, os, groups, fs, o) <= InFile(u, ops, groups, files, o)
    BY <2>1, <2>3
  <2>5. \A s \in Tasks : \A i \in Instances : InHands(u, os[s], fs, i) = 0
    BY <1>10, EmptyHands
  <2>6. \A s \in Tasks : \A i \in Instances :
           InHands(u, os[s], fs, i) <= InHands(u, ops[s], files, i)
    BY <2>1, <2>5
  <2> QED
    BY <1>13, <1>16, <2>2, <2>4, <2>6, NewFile DEF id
<1> QED
  BY <1>1, <1>11, <1>12, <1>17, NoMore DEF os, fs, id

(* When a spill is done its groups are delivered from their files, and     *)
(* from their entries no more.  (spill_batch's continuation)               *)
LEMMA SpillDoneReaders ==
    ASSUME FinitelyMany, IndInv, IndInv', ReadersInv, NEW t \in Tasks, SpillDone(t)
    PROVE  ReadersInv'
<1> DEFINE op == ops[t]
           offs == op.offs
           K == {k \in DOMAIN offs : offs[k] \in DOMAIN files}
           os == ops'
           gs == groups'
<1>1. /\ op.kind = "spill" /\ DOMAIN offs = DOMAIN op.snaps
      /\ gs = [i \in DOMAIN groups |->
            IF i \in DOMAIN offs \intersect DOMAIN groups THEN Spilled(t, i) ELSE groups[i]]
      /\ os = [ops EXCEPT ![t] = Idle]
      /\ UNCHANGED <<files, last_id, stored, out>>
  BY DEF SpillDone, Resumes, Returns, Pending, disk, tallies
<1>2. /\ \A s \in Tasks \ {t} : ops[s] = Idle
      /\ \A s \in Tasks : ~Reads(ops[s])
      /\ OpCarries(op, groups, files) /\ DOMAIN ops = Tasks
  BY <1>1, SpillLone
<1>3. /\ Partial(op.snaps, Instances, Group)
      /\ Partial(offs, DOMAIN op.snaps, 1 .. last_id)
      /\ \A k \in DOMAIN offs : Leads(files, offs[k], k)
  BY <1>1, SpillShape
<1>4. /\ \A k \in DOMAIN offs : k \in DOMAIN groups /\ groups[k].group_ptr = op.snaps[k]
      /\ \A k \in K : files[offs[k]] = op.snaps[k]
  BY <1>1, <1>2 DEF OpCarries
<1>5. \A k \in DOMAIN offs : /\ k \in Instances /\ k \in InMemory(groups)
                             /\ op.snaps[k] \in Group /\ offs[k] \in 1 .. last_id
  BY <1>1, <1>3, <1>4, NoGroupAssumption DEF Partial, InMemory
<1>6. DOMAIN gs = DOMAIN groups
      /\ \A i \in DOMAIN groups :
           IF i \in DOMAIN offs THEN gs[i].group_ptr = NoGroup /\ gs[i].disk_offset = offs[i]
           ELSE gs[i] = groups[i]
  BY <1>1 DEF Spilled
<1>7. \A s \in Tasks : os[s] = Idle
  BY <1>1, <1>2
<1>8. \A k, l \in K : offs[k] = offs[l] => k = l
  BY <1>3 DEF Leads
<1>9. Typed(ops, groups, files, last_id) /\ Typed(os, gs, files, last_id)
  BY <1>1, StateTyped
<1>10. SpillsAlone(os) /\ Carries(os, gs, files)
  BY <1>7 DEF SpillsAlone, Carries, OpCarries, Idle
<1>11. \A s \in Tasks : Refs(os[s]) = {} /\ ~Reads(os[s])
  BY <1>7 DEF Refs, Reads, Idle
<1>12. ASSUME NEW o \in DOMAIN files, o \in Live(os, gs), \A k \in K : o # offs[k]
       PROVE  o \in Live(ops, groups)
  <2>1. PICK i \in DOMAIN gs : o = gs[i].disk_offset
    BY <1>11, <1>12 DEF Live
  <2>2. i \notin DOMAIN offs
    BY <1>6, <1>12, <2>1
  <2> QED
    BY <1>6, <2>1, <2>2 DEF Live
<1> DEFINE a == [k \in K |-> <<"entry", k>>]
           b == [k \in K |-> <<"file", offs[k]>>]
           P == Places(last_id)
<1>13. a \in [K -> P] /\ b \in [K -> P]
  BY <1>5 DEF Places
<1>14. /\ \A k \in K : a[k] = <<"entry", k>> /\ b[k] = <<"file", offs[k]>>
       /\ \A k, l \in K : a[k] # b[l]
       /\ \A k, l \in K : a[k] = a[l] \/ b[k] = b[l] => k = l
  BY <1>8
<1> HIDE DEF os, gs, a, b
<1>15. ASSUME NEW u \in Uids
       PROVE  ToDeliver(u, os, gs, files, last_id) <= ToDeliver(u, ops, groups, files, last_id)
  <2>1. /\ \A i \in Instances : InEntry(u, groups, i) \in Nat
        /\ \A o \in 1 .. last_id : InFile(u, ops, groups, files, o) \in Nat
        /\ \A s \in Tasks : \A i \in Instances : InHands(u, ops[s], files, i) \in Nat
    BY <1>9, WaitsNat
  <2>2. ASSUME NEW k \in K
        PROVE  /\ Waits(u, os, gs, files, a[k]) = 0
               /\ Waits(u, os, gs, files, b[k]) <= Waits(u, ops, groups, files, a[k])
    <3>1. Waits(u, os, gs, files, a[k]) = InEntry(u, gs, k)
          /\ Waits(u, ops, groups, files, a[k]) = InEntry(u, groups, k)
          /\ Waits(u, os, gs, files, b[k]) = InFile(u, os, gs, files, offs[k])
      BY <1>14 DEF Waits
    <3>2. InEntry(u, gs, k) = 0
      BY <1>4, <1>6 DEF InEntry, InMemory
    <3>3. InEntry(u, groups, k) = TimesIn(u, op.snaps[k]) /\ TimesIn(u, op.snaps[k]) \in Nat
      BY <1>4, <1>5, TimesNat DEF InEntry
    <3>4. InFile(u, os, gs, files, offs[k]) \in {0, TimesIn(u, op.snaps[k])}
      BY <1>4 DEF InFile
    <3> QED
      BY <3>1, <3>2, <3>3, <3>4
  <2>3. ASSUME NEW p \in P
        PROVE  \/ \E k \in K : p = a[k] \/ p = b[k]
               \/ Waits(u, os, gs, files, p) <= Waits(u, ops, groups, files, p)
    <3>1. CASE p \in {"entry"} \X Instances
      <4>1. PICK i \in Instances : p = <<"entry", i>>
        BY <3>1
      <4>2. Waits(u, os, gs, files, p) = InEntry(u, gs, i)
            /\ Waits(u, ops, groups, files, p) = InEntry(u, groups, i)
        BY <4>1 DEF Waits
      <4>3. InEntry(u, gs, i) = 0 \/ InEntry(u, gs, i) = InEntry(u, groups, i)
        BY <1>6 DEF InEntry, InMemory
      <4> QED
        BY <2>1, <4>2, <4>3
    <3>2. CASE p \in {"file"} \X (1 .. last_id)
      <4>1. PICK o \in 1 .. last_id : p = <<"file", o>>
        BY <3>2
      <4>2. Waits(u, os, gs, files, p) = InFile(u, os, gs, files, o)
            /\ Waits(u, ops, groups, files, p) = InFile(u, ops, groups, files, o)
        BY <4>1 DEF Waits
      <4>3. CASE \E k \in K : o = offs[k]
        BY <1>14, <4>1, <4>3
      <4>4. CASE \A k \in K : o # offs[k]
        <5>1. InFile(u, os, gs, files, o) = 0
              \/ InFile(u, os, gs, files, o) = InFile(u, ops, groups, files, o)
          BY <1>12, <4>4 DEF InFile
        <5> QED
          BY <2>1, <4>2, <5>1
      <4> QED
        BY <4>3, <4>4
    <3>3. CASE p \in {"hands"} \X (Tasks \X Instances)
      <4>1. PICK s \in Tasks, i \in Instances : p = <<"hands", <<s, i>>>>
        BY <3>3
      <4>2. Waits(u, os, gs, files, p) = InHands(u, os[s], files, i)
            /\ Waits(u, ops, groups, files, p) = InHands(u, ops[s], files, i)
        BY <4>1 DEF Waits
      <4>3. InHands(u, os[s], files, i) = 0
        BY <1>11, EmptyHands
      <4> QED
        BY <2>1, <4>2, <4>3
    <3> QED
      BY <3>1, <3>2, <3>3 DEF Places
  <2> HIDE DEF K, P
  <2> QED
    BY <1>9, <1>13, <1>14, <2>2, <2>3, Moved DEF P
<1> QED
  BY <1>1, <1>10, <1>15, NoMore DEF os, gs

(* One call goes on, and what the others have captured stays so.  *)
LEMMA OneCarries ==
    ASSUME IndInv, ReadersInv, NEW t \in Tasks, NEW op, ops' = [ops EXCEPT ![t] = op],
           OpCarries(op, groups', files'), Part(files', files), Undisturbed(t)
    PROVE  Carries(ops', groups', files')
<1> DEFINE gs == groups'
           fs == files'
<1>1. DOMAIN ops = Tasks /\ last_id \in Nat
  BY DEF IndInv, OpsGood
<1>2. \A s \in Tasks : ops'[s] = IF s = t THEN op ELSE ops[s]
  BY <1>1
<1>3. Keeps(files, fs, last_id)
  BY DEF Keeps, Part
<1>4. gs = groups \/ \A s \in Tasks \ {t} : ops[s].kind # "spill"
  BY DEF Undisturbed
<1> HIDE DEF gs, fs
<1>5. ASSUME NEW s \in Tasks \ {t} PROVE OpCarries(ops[s], gs, fs)
  <2>1. OpOK(ops[s], last_id) /\ OpCarries(ops[s], groups, files)
    BY DEF IndInv, OpsGood, ReadersInv, Carries
  <2>2. ops[s].kind = "spill" => gs = groups
    BY <1>4
  <2> QED
    BY <1>1, <1>3, <2>1, <2>2, CarriesOn
<1> QED
  BY <1>2, <1>5 DEF Carries, gs, fs

(* A scan takes groups from entries into the hands of its read, and from   *)
(* nowhere else.  (read_ready_groups)                                      *)
LEMMA ReadScanReaders ==
    ASSUME FinitelyMany, IndInv, IndInv', ReadersInv, NoSpill,
           NEW t \in Tasks, NEW max, ReadScan(t, max)
    PROVE  ReadersInv'
<1>1. PICK ids \in SUBSET Ready :
        LET inmem == ids \intersect InMemory(groups)
        IN  /\ groups' = [i \in DOMAIN groups |->
                 IF i \in inmem THEN [groups[i] EXCEPT !.group_ptr = NoGroup]
                 ELSE groups[i]]
            /\ Pending(t, LoadOp(ids, [i \in inmem |-> groups[i].group_ptr],
                                 [i \in ids \ inmem |-> groups[i].disk_offset],
                                 [i \in {} |-> NoGroup]))
  BY DEF ReadScan, Scans
<1> DEFINE K == ids \intersect InMemory(groups)
           op == LoadOp(ids, [i \in K |-> groups[i].group_ptr],
                        [i \in ids \ K |-> groups[i].disk_offset], [i \in {} |-> NoGroup])
           os == ops'
           gs == groups'
<1>2. /\ UNCHANGED <<files, last_id, stored, out>>
      /\ os = [ops EXCEPT ![t] = op]
      /\ DOMAIN gs = DOMAIN groups
      /\ \A i \in DOMAIN groups : gs[i] = IF i \in K THEN [groups[i] EXCEPT !.group_ptr = NoGroup]
                                          ELSE groups[i]
  BY <1>1 DEF ReadScan, disk, hist, Pending
<1>3. DOMAIN ops = Tasks /\ ids \subseteq DOMAIN groups
      /\ DOMAIN groups \subseteq Instances
      /\ \A i \in DOMAIN groups : groups[i] \in Entry
  BY DEF IndInv, OpsGood, GroupsGood, Partial, Ready
<1>4. /\ op.kind = "load" /\ op.result = [i \in K |-> groups[i].group_ptr]
      /\ op.offsets = [i \in ids \ K |-> groups[i].disk_offset]
      /\ op.loaded = [i \in {} |-> NoGroup]
  BY DEF LoadOp
<1>5. \A i \in DOMAIN groups :
        /\ gs[i].disk_offset = groups[i].disk_offset
        /\ i \in K => gs[i].group_ptr = NoGroup
        /\ i \notin K => gs[i] = groups[i]
  BY <1>2, <1>3 DEF Entry
<1>6. \A s \in Tasks : os[s] = IF s = t THEN op ELSE ops[s]
  BY <1>2, <1>3
<1>7. Typed(ops, groups, files, last_id) /\ Typed(os, gs, files, last_id)
  BY <1>2, StateTyped
<1> HIDE DEF op, os, gs
<1>8. OpCarries(op, gs, files)
  BY <1>4 DEF OpCarries
<1>9. SpillsAlone(os)
  BY <1>4, <1>6 DEF SpillsAlone, NoSpill
<1>10. Carries(os, gs, files)
  <2>1. Part(files', files) /\ Undisturbed(t)
    BY <1>2 DEF Part, Undisturbed, NoSpill
  <2> QED
    BY <1>2, <1>8, <2>1, OneCarries DEF os, gs
<1>11. ASSUME NEW o, o \in Live(os, gs) PROVE o \in Live(ops, groups)
  <2>1. CASE \E i \in DOMAIN gs : o = gs[i].disk_offset
    BY <1>2, <1>5, <2>1 DEF Live
  <2>2. ASSUME NEW s \in Tasks, o \in Refs(os[s]) PROVE o \in Live(ops, groups)
    <3>1. CASE s # t
      BY <1>6, <2>2, <3>1 DEF Live
    <3>2. CASE s = t
      <4>1. o \in {op.offsets[i] : i \in DOMAIN op.offsets}
        BY <1>4, <1>6, <2>2, <3>2 DEF Refs
      <4>2. \E i \in DOMAIN groups : o = groups[i].disk_offset
        BY <1>3, <1>4, <4>1
      <4> QED
        BY <4>2 DEF Live
    <3> QED
      BY <3>1, <3>2
  <2> QED
    BY <1>11, <2>1, <2>2 DEF Live
<1> DEFINE a == [k \in K |-> <<"entry", k>>]
           b == [k \in K |-> <<"hands", <<t, k>>>>]
           P == Places(last_id)
<1>12. a \in [K -> P] /\ b \in [K -> P]
  BY <1>3 DEF Places
<1>13. /\ \A k \in K : a[k] = <<"entry", k>> /\ b[k] = <<"hands", <<t, k>>>>
       /\ \A k, l \in K : a[k] # b[l]
       /\ \A k, l \in K : a[k] = a[l] \/ b[k] = b[l] => k = l
  OBVIOUS
<1> HIDE DEF a, b
<1>14. ASSUME NEW u \in Uids
       PROVE  ToDeliver(u, os, gs, files, last_id) <= ToDeliver(u, ops, groups, files, last_id)
  <2>1. /\ \A i \in Instances : InEntry(u, groups, i) \in Nat
        /\ \A o \in 1 .. last_id : InFile(u, ops, groups, files, o) \in Nat
        /\ \A s \in Tasks : \A i \in Instances : InHands(u, ops[s], files, i) \in Nat
    BY <1>7, WaitsNat
  <2>2. \A i : InHands(u, op, files, i)
                 = IF i \in K THEN TimesIn(u, groups[i].group_ptr) ELSE 0
    BY <1>4 DEF InHands, Owns
  <2>3. ASSUME NEW k \in K
        PROVE  /\ Waits(u, os, gs, files, a[k]) = 0
               /\ Waits(u, os, gs, files, b[k]) <= Waits(u, ops, groups, files, a[k])
    <3>1. Waits(u, os, gs, files, a[k]) = InEntry(u, gs, k)
          /\ Waits(u, ops, groups, files, a[k]) = InEntry(u, groups, k)
          /\ Waits(u, os, gs, files, b[k]) = InHands(u, os[t], files, k)
      BY <1>13 DEF Waits
    <3>2. InEntry(u, gs, k) = 0
      BY <1>2, <1>3, <1>5 DEF InEntry, InMemory
    <3>3. InEntry(u, groups, k) = TimesIn(u, groups[k].group_ptr)
          /\ InEntry(u, groups, k) \in Nat
      BY <1>3, <2>1 DEF InEntry
    <3>4. InHands(u, os[t], files, k) = TimesIn(u, groups[k].group_ptr)
      BY <1>6, <2>2
    <3> QED
      BY <3>1, <3>2, <3>3, <3>4
  <2>4. ASSUME NEW p \in P
        PROVE  \/ \E k \in K : p = a[k] \/ p = b[k]
               \/ Waits(u, os, gs, files, p) <= Waits(u, ops, groups, files, p)
    <3>1. CASE p \in {"entry"} \X Instances
      <4>1. PICK i \in Instances : p = <<"entry", i>>
        BY <3>1
      <4>2. Waits(u, os, gs, files, p) = InEntry(u, gs, i)
            /\ Waits(u, ops, groups, files, p) = InEntry(u, groups, i)
        BY <4>1 DEF Waits
      <4>3. InEntry(u, gs, i) = 0 \/ InEntry(u, gs, i) = InEntry(u, groups, i)
        BY <1>2, <1>5 DEF InEntry, InMemory
      <4> QED
        BY <2>1, <4>2, <4>3
    <3>2. CASE p \in {"file"} \X (1 .. last_id)
      <4>1. PICK o \in 1 .. last_id : p = <<"file", o>>
        BY <3>2
      <4>2. Waits(u, os, gs, files, p) = InFile(u, os, gs, files, o)
            /\ Waits(u, ops, groups, files, p) = InFile(u, ops, groups, files, o)
        BY <4>1 DEF Waits
      <4>3. InFile(u, os, gs, files, o) = 0
            \/ InFile(u, os, gs, files, o) = InFile(u, ops, groups, files, o)
        BY <1>11 DEF InFile
      <4> QED
        BY <2>1, <4>2, <4>3
    <3>3. CASE p \in {"hands"} \X (Tasks \X Instances)
      <4>1. PICK s \in Tasks, i \in Instances : p = <<"hands", <<s, i>>>>
        BY <3>3
      <4>2. Waits(u, os, gs, files, p) = InHands(u, os[s], files, i)
            /\ Waits(u, ops, groups, files, p) = InHands(u, ops[s], files, i)
        BY <4>1 DEF Waits
      <4>3. CASE s # t
        BY <1>6, <2>1, <4>2, <4>3
      <4>4. CASE s = t /\ i \in K
        BY <1>13, <4>1, <4>4
      <4>5. CASE s = t /\ i \notin K
        <5>1. InHands(u, os[s], files, i) = 0
          BY <1>6, <2>2, <4>5
        <5> QED
          BY <2>1, <4>2, <5>1
      <4> QED
        BY <4>3, <4>4, <4>5
    <3> QED
      BY <3>1, <3>2, <3>3 DEF Places
  <2> HIDE DEF K, P
  <2> QED
    BY <1>7, <1>12, <1>13, <2>3, <2>4, Moved DEF P
<1> QED
  BY <1>2, <1>9, <1>10, <1>14, NoMore DEF os, gs

(* What a pending read loads it does not own yet.  (load_batch) *)
LEMMA ReadLoadReaders ==
    ASSUME FinitelyMany, IndInv, IndInv', ReadersInv,
           NEW t \in Tasks, NEW i \in Instances, ReadLoad(t, i)
    PROVE  ReadersInv'
<1> DEFINE op == ops[t]
           loaded == Put(op.loaded, i, files[op.offsets[i]])
           next == [op EXCEPT !.loaded = loaded]
<1>1. /\ op.kind = "load" /\ ops' = [ops EXCEPT ![t] = next]
      /\ UNCHANGED <<groups, files, last_id, stored, out>>
  BY DEF ReadLoad, Resumes, Pending, disk, hist
<1>2. op = LoadOp(op.ids, op.result, op.offsets, op.loaded)
  BY <1>1, LoadShape
<1> HIDE DEF loaded
<1>3. next = LoadOp(op.ids, op.result, op.offsets, loaded)
  BY <1>2 DEF LoadOp
<1>4. /\ next.kind = "load" /\ next.result = op.result /\ next.offsets = op.offsets
      /\ next.loaded = loaded
  BY <1>3 DEF LoadOp
<1>5. OpCarries(op, groups, files)
  BY DEF ReadersInv, Carries
<1> HIDE DEF op, next
<1>6. OpCarries(next, groups, files)
  <2>1. ASSUME NEW j \in DOMAIN loaded, op.offsets[j] \in DOMAIN files
        PROVE  files[op.offsets[j]] = loaded[j]
    BY <1>1, <1>5, <2>1 DEF OpCarries, Put, loaded
  <2>2. DOMAIN op.result \intersect DOMAIN op.offsets = {}
    BY <1>1, <1>5 DEF OpCarries
  <2> QED
    BY <1>4, <2>1, <2>2 DEF OpCarries
<1>7. Lighter(next, op, files, files)
  <2>1. \A u \in Uids, j \in Instances : InHands(u, ops[t], files, j) \in Nat
    BY StateTyped, WaitsNat
  <2>2. Refs(next) = Refs(op) /\ Owns(next, files) = Owns(op, files)
    BY <1>1, <1>4 DEF Refs, Owns
  <2>3. \A u \in Uids, j \in Instances : InHands(u, next, files, j) = InHands(u, op, files, j)
    BY <1>4, <2>2 DEF InHands
  <2> QED
    BY <2>1, <2>2, <2>3 DEF Lighter, op
<1>8. ops[t] # Idle /\ SpillsAlone(ops)
  BY <1>1 DEF Idle, ReadersInv, op
<1>9. next.kind # "spill" /\ \A s \in Tasks \ {t} : ops[s].kind # "spill"
  BY <1>4, <1>8, ExcludesSpills
<1>10. Part(files', files) /\ Undisturbed(t)
  BY <1>1 DEF Part, Undisturbed
<1>11. Lighter(next, ops[t], files', files) /\ OpCarries(next, groups', files')
  BY <1>1, <1>6, <1>7 DEF op
<1> QED
  BY <1>1, <1>9, <1>10, <1>11, SameGroups, OneLighter

(* Putting the loaded groups into the result gives the read nothing for    *)
(* itself: each of them still has its file.  (read_ready_groups)           *)
LEMMA ReadMergeReaders ==
    ASSUME FinitelyMany, IndInv, IndInv', ReadersInv, NEW t \in Tasks, ReadMerge(t)
    PROVE  ReadersInv'
<1> DEFINE op == ops[t]
           result == [i \in op.ids |-> IF i \in DOMAIN op.loaded THEN op.loaded[i]
                                       ELSE op.result[i]]
           rest == {op.offsets[i] : i \in DOMAIN op.offsets}
           next == UnlinkOp(op.ids, result, rest)
<1>1. /\ op.kind = "load" /\ DOMAIN op.loaded = DOMAIN op.offsets
      /\ ops' = [ops EXCEPT ![t] = next]
      /\ UNCHANGED <<groups, files, last_id, stored, out>>
  BY DEF ReadMerge, Resumes, Pending, disk, hist
<1>2. /\ op.ids = DOMAIN op.result \union DOMAIN op.offsets
      /\ \A i \in DOMAIN op.offsets : Leads(files, op.offsets[i], i)
  BY <1>1, LoadShape
<1>3. OpCarries(op, groups, files)
  BY DEF ReadersInv, Carries
<1>4. next.kind = "unlink" /\ next.ids = op.ids /\ next.result = result /\ next.rest = rest
  BY DEF UnlinkOp
<1> HIDE DEF op, next
<1>5. OpCarries(next, groups, files)
  <2>1. ASSUME NEW o \in rest \intersect DOMAIN files
        PROVE  files[o].instance_id \in op.ids /\ result[files[o].instance_id] = files[o]
    <3>1. PICK i \in DOMAIN op.offsets : o = op.offsets[i]
      OBVIOUS
    <3>2. files[o].instance_id = i /\ i \in op.ids
      BY <1>2, <3>1 DEF Leads
    <3>3. op.loaded[i] = files[o]
      BY <1>1, <1>3, <3>1 DEF OpCarries
    <3> QED
      BY <1>1, <3>1, <3>2, <3>3
  <2> HIDE DEF result, rest
  <2> QED
    BY <1>4, <2>1 DEF OpCarries
<1>6. DOMAIN op.result \intersect DOMAIN op.offsets = {}
  BY <1>1, <1>3 DEF OpCarries
<1>7. \A i \in Owns(next, files) : i \in DOMAIN op.result /\ result[i] = op.result[i]
  <2> SUFFICES ASSUME NEW i \in Owns(next, files)
               PROVE  i \in DOMAIN op.result /\ result[i] = op.result[i]
    OBVIOUS
  <2>1. rest \subseteq DOMAIN files /\ i \in op.ids \ {files[o].instance_id : o \in rest}
    BY <1>4 DEF Owns
  <2>2. i \notin DOMAIN op.offsets
    <3>1. i \in DOMAIN op.offsets => files[op.offsets[i]].instance_id = i /\ op.offsets[i] \in rest
      BY <1>2, <2>1 DEF Leads
    <3> QED
      BY <2>1, <3>1
  <2> QED
    BY <1>1, <1>2, <2>1, <2>2
<1>8. Lighter(next, op, files, files)
  <2>1. \A u \in Uids, j \in Instances : InHands(u, ops[t], files, j) \in Nat
    BY StateTyped, WaitsNat
  <2>2. Refs(next) = Refs(op)
    BY <1>1, <1>4 DEF Refs
  <2>3. Owns(op, files) = DOMAIN op.result
    BY <1>1 DEF Owns
  <2>4. ASSUME NEW u \in Uids, NEW j \in Instances
        PROVE  InHands(u, next, files, j) <= InHands(u, op, files, j)
    <3>1. InHands(u, op, files, j) \in Nat
      BY <2>1 DEF op
    <3>2. CASE j \in Owns(next, files)
      <4>1. InHands(u, next, files, j) = TimesIn(u, result[j])
        BY <1>4, <3>2 DEF InHands
      <4>2. InHands(u, op, files, j) = TimesIn(u, op.result[j])
        BY <1>7, <2>3, <3>2 DEF InHands
      <4>3. result[j] = op.result[j]
        BY <1>7, <3>2
      <4> QED
        BY <3>1, <4>1, <4>2, <4>3
    <3>3. CASE j \notin Owns(next, files)
      BY <3>1, <3>3 DEF InHands
    <3> QED
      BY <3>2, <3>3
  <2> QED
    BY <2>2, <2>4 DEF Lighter
<1>9. ops[t] # Idle /\ SpillsAlone(ops)
  BY <1>1 DEF Idle, ReadersInv, op
<1>10. next.kind # "spill" /\ \A s \in Tasks \ {t} : ops[s].kind # "spill"
  BY <1>4, <1>9, ExcludesSpills
<1>11. Part(files', files) /\ Undisturbed(t)
  BY <1>1 DEF Part, Undisturbed
<1>12. Lighter(next, ops[t], files', files) /\ OpCarries(next, groups', files')
  BY <1>1, <1>5, <1>8 DEF op
<1> QED
  BY <1>1, <1>10, <1>11, <1>12, SameGroups, OneLighter

(* A read that removes a file has its group for itself, and nobody else    *)
(* can have it any more.  (remove in read_ready_groups)                    *)
LEMMA ReadRemoveReaders ==
    ASSUME FinitelyMany, IndInv, IndInv', ReadersInv,
           NEW t \in Tasks, NEW o, ReadRemove(t, o)
    PROVE  ReadersInv'
<1> DEFINE op == ops[t]
           rest == op.rest \ {o}
           next == [op EXCEPT !.rest = rest]
           os == ops'
           fs == files'
           j == files[o].instance_id
<1>1. /\ op.kind = "unlink" /\ o \in op.rest \intersect DOMAIN files
      /\ fs = Drop(files, {o}) /\ os = [ops EXCEPT ![t] = next]
      /\ UNCHANGED <<groups, last_id, stored, out>>
  BY DEF ReadRemove, Resumes, Pending, hist
<1>2. /\ op = UnlinkOp(op.ids, op.result, op.rest) /\ op.ids \in SUBSET Instances
      /\ op.result \in [op.ids -> Group] /\ op.rest \in SUBSET (1 .. last_id)
  BY <1>1, UnlinkShape
<1>3. OpCarries(op, groups, files) /\ SpillsAlone(ops) /\ DOMAIN ops = Tasks
  BY DEF ReadersInv, Carries, IndInv, OpsGood
<1>4. j \in op.ids /\ op.result[j] = files[o] /\ o \in 1 .. last_id
  BY <1>1, <1>2, <1>3 DEF OpCarries
<1> HIDE DEF rest
<1>5. next = UnlinkOp(op.ids, op.result, rest)
  BY <1>2 DEF UnlinkOp
<1>6. /\ next.kind = "unlink" /\ next.ids = op.ids /\ next.result = op.result
      /\ next.rest = op.rest \ {o}
  BY <1>5 DEF UnlinkOp, rest
<1>7. Typed(ops, groups, files, last_id) /\ Typed(os, groups, fs, last_id)
  BY <1>1, StateTyped
<1> HIDE DEF next
<1>8. \A s \in Tasks : os[s] = IF s = t THEN next ELSE ops[s]
  BY <1>1, <1>3
<1>9. Part(fs, files) /\ DOMAIN fs = DOMAIN files \ {o}
  BY <1>1, DropPart DEF Drop
<1>10. \A x \in DOMAIN fs : fs[x] = files[x]
  BY <1>9 DEF Part
<1> HIDE DEF op, os, fs, j
<1>11. OpCarries(next, groups, fs)
  <2>1. \A x \in op.rest \intersect DOMAIN files :
           files[x].instance_id \in op.ids /\ op.result[files[x].instance_id] = files[x]
    BY <1>1, <1>3 DEF OpCarries
  <2>2. ASSUME NEW x \in next.rest \intersect DOMAIN fs
        PROVE  fs[x].instance_id \in next.ids /\ next.result[fs[x].instance_id] = fs[x]
    <3>1. x \in op.rest \intersect DOMAIN files /\ fs[x] = files[x]
      BY <1>6, <1>9, <1>10
    <3> QED
      BY <1>6, <2>1, <3>1
  <2> QED
    BY <1>6, <2>2 DEF OpCarries
<1>12. ops[t] # Idle
  BY <1>1 DEF Idle, op
<1>13. \A s \in Tasks \ {t} : ops[s].kind # "spill"
  BY <1>3, <1>12, ExcludesSpills
<1>14. SpillsAlone(os)
  BY <1>6, <1>8, <1>13 DEF SpillsAlone
<1>15. Carries(os, groups, fs)
  <2>1. Part(files', files) /\ Undisturbed(t)
    BY <1>1, <1>9 DEF Undisturbed, fs
  <2> QED
    BY <1>1, <1>11, <2>1, OneCarries DEF os, fs
<1>16. \A s \in Tasks : Refs(os[s]) \subseteq Refs(ops[s])
  <2>1. Refs(next) \subseteq Refs(op)
    BY <1>1, <1>6 DEF Refs
  <2> QED
    BY <1>8, <2>1 DEF op
<1>17. \A x \in Live(os, groups) : x \in Live(ops, groups)
  BY <1>16 DEF Live
<1>18. o \in Live(ops, groups)
  <2>1. o \in Refs(ops[t])
    BY <1>1 DEF Refs, op
  <2> QED
    BY <2>1 DEF Live
<1>19. ASSUME NEW i \in Owns(next, fs), i # j
       PROVE  i \in Owns(op, files)
  <2>1. op.rest \ {o} \subseteq DOMAIN fs
        /\ i \in op.ids \ {fs[x].instance_id : x \in op.rest \ {o}}
    BY <1>6 DEF Owns
  <2>2. op.rest \subseteq DOMAIN files
    BY <1>1, <1>9, <2>1
  <2>3. ASSUME NEW x \in op.rest PROVE files[x].instance_id # i
    <3>1. CASE x = o
      BY <1>19, <3>1 DEF j
    <3>2. CASE x # o
      BY <1>10, <2>1, <3>2
    <3> QED
      BY <3>1, <3>2
  <2> QED
    BY <1>1, <2>1, <2>2, <2>3 DEF Owns
<1> DEFINE K == {j}
           a == [k \in K |-> <<"file", o>>]
           b == [k \in K |-> <<"hands", <<t, k>>>>]
           P == Places(last_id)
<1>20. a \in [K -> P] /\ b \in [K -> P]
  BY <1>2, <1>4 DEF Places
<1>21. /\ \A k \in K : a[k] = <<"file", o>> /\ b[k] = <<"hands", <<t, k>>>>
       /\ \A k, l \in K : a[k] # b[l]
       /\ \A k, l \in K : a[k] = a[l] \/ b[k] = b[l] => k = l
  OBVIOUS
<1> HIDE DEF a, b
<1>22. ASSUME NEW u \in Uids
       PROVE  ToDeliver(u, os, groups, fs, last_id) <= ToDeliver(u, ops, groups, files, last_id)
  <2>1. /\ \A i \in Instances : InEntry(u, groups, i) \in Nat
        /\ \A x \in 1 .. last_id : InFile(u, ops, groups, files, x) \in Nat
        /\ \A s \in Tasks : \A i \in Instances : InHands(u, ops[s], files, i) \in Nat
    BY <1>7, WaitsNat
  <2>2. ASSUME NEW k \in K
        PROVE  /\ Waits(u, os, groups, fs, a[k]) = 0
               /\ Waits(u, os, groups, fs, b[k]) <= Waits(u, ops, groups, files, a[k])
    <3>0. k = j
      OBVIOUS
    <3>1. Waits(u, os, groups, fs, a[k]) = InFile(u, os, groups, fs, o)
          /\ Waits(u, ops, groups, files, a[k]) = InFile(u, ops, groups, files, o)
          /\ Waits(u, os, groups, fs, b[k]) = InHands(u, os[t], fs, j)
      BY <1>21, <3>0 DEF Waits
    <3>2. InFile(u, os, groups, fs, o) = 0
      BY <1>9 DEF InFile
    <3>3. InFile(u, ops, groups, files, o) = TimesIn(u, files[o])
          /\ InFile(u, ops, groups, files, o) \in Nat
      BY <1>1, <1>4, <1>18, <2>1 DEF InFile
    <3>4. InHands(u, os[t], fs, j) \in {0, TimesIn(u, files[o])}
      BY <1>4, <1>6, <1>8 DEF InHands
    <3> QED
      BY <3>1, <3>2, <3>3, <3>4
  <2>3. ASSUME NEW p \in P
        PROVE  \/ \E k \in K : p = a[k] \/ p = b[k]
               \/ Waits(u, os, groups, fs, p) <= Waits(u, ops, groups, files, p)
    <3>1. CASE p \in {"entry"} \X Instances
      <4>1. PICK i \in Instances : p = <<"entry", i>>
        BY <3>1
      <4>2. Waits(u, os, groups, fs, p) = InEntry(u, groups, i)
            /\ Waits(u, ops, groups, files, p) = InEntry(u, groups, i)
        BY <4>1 DEF Waits
      <4> QED
        BY <2>1, <4>2
    <3>2. CASE p \in {"file"} \X (1 .. last_id)
      <4>1. PICK x \in 1 .. last_id : p = <<"file", x>>
        BY <3>2
      <4>2. Waits(u, os, groups, fs, p) = InFile(u, os, groups, fs, x)
            /\ Waits(u, ops, groups, files, p) = InFile(u, ops, groups, files, x)
        BY <4>1 DEF Waits
      <4>3. InFile(u, os, groups, fs, x) = 0
            \/ InFile(u, os, groups, fs, x) = InFile(u, ops, groups, files, x)
        BY <1>9, <1>10, <1>17 DEF InFile
      <4> QED
        BY <2>1, <4>2, <4>3
    <3>3. CASE p \in {"hands"} \X (Tasks \X Instances)
      <4>1. PICK s \in Tasks, i \in Instances : p = <<"hands", <<s, i>>>>
        BY <3>3
      <4>2. Waits(u, os, groups, fs, p) = InHands(u, os[s], fs, i)
            /\ Waits(u, ops, groups, files, p) = InHands(u, ops[s], files, i)
        BY <4>1 DEF Waits
      <4>3. CASE s # t
        <5>1. InHands(u, ops[s], fs, i) <= InHands(u, ops[s], files, i)
          BY <1>9, <2>1, HandsLess
        <5> QED
          BY <1>8, <4>2, <4>3, <5>1
      <4>4. CASE s = t /\ i = j
        BY <1>21, <4>1, <4>4
      <4>5. CASE s = t /\ i # j
        <5>1. InHands(u, next, fs, i) = 0 \/ InHands(u, next, fs, i) = InHands(u, op, files, i)
          BY <1>6, <1>19, <4>5 DEF InHands
        <5>2. InHands(u, op, files, i) \in Nat
          BY <2>1 DEF op
        <5> QED
          BY <1>8, <4>2, <4>5, <5>1, <5>2 DEF op
      <4> QED
        BY <4>3, <4>4, <4>5
    <3> QED
      BY <3>1, <3>2, <3>3 DEF Places
  <2> HIDE DEF K, P
  <2> QED
    BY <1>7, <1>20, <1>21, <2>2, <2>3, Moved DEF P
<1> QED
  BY <1>1, <1>14, <1>15, <1>22, NoMore DEF os, fs

(* A read that has removed all its files hands out what it has in its      *)
(* hands.  (read_ready_groups)                                             *)
LEMMA ErasesHands ==
    ASSUME FinitelyMany, IndInv, NEW t \in Tasks, ops[t].kind = "unlink", ops[t].rest = {},
           NEW u \in Uids,
           NEW os, NEW gs, Typed(os, gs, files, last_id),
           \A s \in Tasks : os[s] = IF s = t THEN Idle ELSE ops[s],
           \A i \in Instances : InEntry(u, gs, i) <= InEntry(u, groups, i),
           \A o \in 1 .. last_id : InFile(u, os, gs, files, o) <= InFile(u, ops, groups, files, o)
    PROVE  /\ Count(u, ops[t].result) \in Nat
           /\ Count(u, ops[t].result) + ToDeliver(u, os, gs, files, last_id)
                <= ToDeliver(u, ops, groups, files, last_id)
<1> DEFINE op == ops[t]
           S == Places(last_id)
           f == Waiting(u, os, gs, files, last_id)
           g == Waiting(u, ops, groups, files, last_id)
           h == [i \in DOMAIN op.result |->
                   Cardinality({n \in DOMAIN op.result[i].trajectories :
                                  op.result[i].trajectories[n] = u})]
           m == [i \in op.ids |-> <<"hands", <<t, i>>>>]
           A == {m[i] : i \in op.ids}
<1>0. \A i : InHands(u, Idle, files, i) = 0
  <2>1. ~Reads(Idle)
    BY DEF Reads, Idle
  <2> QED
    BY <2>1, EmptyHands
<1>1. /\ op.ids \in SUBSET Instances /\ op.result \in [op.ids -> Group]
  BY UnlinkShape
<1>2. Typed(ops, groups, files, last_id)
  BY StateTyped
<1>3. /\ IsFiniteSet(S) /\ \A p \in S : f[p] \in Nat /\ g[p] \in Nat
  <2>1. IsFiniteSet(S) /\ \A p \in S : g[p] \in Nat
    BY <1>2, WaitsNat
  <2>2. \A p \in S : f[p] \in Nat
    BY WaitsNat
  <2> QED
    BY <2>1, <2>2
<1>4. A \subseteq S /\ \A i \in op.ids : m[i] = <<"hands", <<t, i>>>> /\ m[i] \in S
  <2>1. \A i \in op.ids : m[i] = <<"hands", <<t, i>>>>
    OBVIOUS
  <2>2. \A i \in op.ids : <<"hands", <<t, i>>>> \in {"hands"} \X (Tasks \X Instances)
    BY <1>1
  <2>3. {"hands"} \X (Tasks \X Instances) \subseteq S
    BY DEF Places
  <2> HIDE DEF S, m
  <2>4. \A i \in op.ids : m[i] \in S
    BY <2>1, <2>2, <2>3, Zenon
  <2>5. A \subseteq S
    BY <2>4, Zenon
  <2> QED
    BY <2>1, <2>4, <2>5
<1>5. IsFiniteSet(op.ids)
  BY <1>1, FS_Subset DEF FinitelyMany
<1>6. Owns(op, files) = op.ids
  BY DEF Owns
<1>7. \A i \in op.ids : h[i] = g[m[i]] /\ f[m[i]] = 0
  <2> SUFFICES ASSUME NEW i \in op.ids PROVE h[i] = g[m[i]] /\ f[m[i]] = 0
    OBVIOUS
  <2>1. h[i] = TimesIn(u, op.result[i])
    BY <1>1 DEF TimesIn
  <2>2. g[m[i]] = InHands(u, op, files, i) /\ f[m[i]] = InHands(u, Idle, files, i)
    BY <1>1, <1>4 DEF Waiting, Waits
  <2>3. InHands(u, op, files, i) = TimesIn(u, op.result[i])
    BY <1>6 DEF InHands
  <2> QED
    BY <1>0, <2>1, <2>2, <2>3
<1>8. Count(u, op.result) = SumFunctionOnSet(h, op.ids)
  BY <1>1 DEF Count, SumFunction
<1>9. \A i, k \in op.ids : m[i] = m[k] => i = k
  OBVIOUS
<1>10. ASSUME NEW p \in S \ A PROVE f[p] <= g[p]
  <2>1. CASE p \in {"entry"} \X Instances
    BY <2>1 DEF Waiting, Waits
  <2>2. CASE p \in {"file"} \X (1 .. last_id)
    BY <2>2 DEF Waiting, Waits
  <2>3. CASE p \in {"hands"} \X (Tasks \X Instances)
    <3>1. PICK s \in Tasks, i \in Instances : p = <<"hands", <<s, i>>>>
      BY <2>3
    <3>2. f[p] = InHands(u, os[s], files, i) /\ g[p] = InHands(u, ops[s], files, i)
      BY <3>1 DEF Waiting, Waits
    <3>3. g[p] \in Nat
      BY <1>3
    <3>4. CASE s = t
      <4>1. os[s] = Idle
        BY <3>4
      <4>2. InHands(u, Idle, files, i) = 0
        BY <1>0
      <4>3. f[p] = InHands(u, os[s], files, i)
        BY <3>2
      <4>4. f[p] = 0
        BY <4>1, <4>2, <4>3, Zenon
      <4> QED
        BY <3>3, <4>4
    <3>5. CASE s # t
      BY <3>2, <3>3, <3>5
    <3> QED
      BY <3>4, <3>5
  <2> QED
    BY <2>1, <2>2, <2>3 DEF Places
<1>11. /\ ToDeliver(u, os, gs, files, last_id) = SumFunctionOnSet(f, S)
       /\ ToDeliver(u, ops, groups, files, last_id) = SumFunctionOnSet(g, S)
  BY DEF ToDeliver
<1>12. ASSUME NEW p \in A PROVE f[p] = 0 /\ p \in S
  <2> HIDE DEF f, S, m
  <2>1. PICK i \in op.ids : p = m[i]
    OBVIOUS
  <2> QED
    BY <1>4, <1>7, <2>1, Zenon
<1> HIDE DEF op, S, f, g, h, m
<1>13. IntOn(f, S) /\ IntOn(g, S) /\ IntOn(h, op.ids) /\ \A i \in op.ids : h[i] \in Nat
  BY <1>3, <1>4, <1>7 DEF IntOn
<1>14. SumFunctionOnSet(h, op.ids) = SumFunctionOnSet(g, A)
  BY <1>5, <1>7, <1>9, <1>13, SumImage
<1>15. SumFunctionOnSet(h, op.ids) \in Nat
  BY <1>5, <1>13, SumNat
<1> HIDE DEF A
<1>16. IsFiniteSet(A) /\ IsFiniteSet(S \ A) /\ IntOn(f, S \ A) /\ IntOn(g, S \ A)
  BY <1>3, <1>4, <1>13, FS_Subset DEF IntOn
<1>17. SumFunctionOnSet(f, A) = 0
  BY <1>12, <1>16, SumZero
<1>18. SumFunctionOnSet(f, S \ A) <= SumFunctionOnSet(g, S \ A)
  BY <1>10, <1>16, SumLeq
<1>19. /\ SumFunctionOnSet(f, S) = SumFunctionOnSet(f, A) + SumFunctionOnSet(f, S \ A)
       /\ SumFunctionOnSet(f, S \ A) \in Int
  BY <1>3, <1>4, <1>13, SumSplit
<1>20. /\ SumFunctionOnSet(g, S) = SumFunctionOnSet(g, A) + SumFunctionOnSet(g, S \ A)
       /\ SumFunctionOnSet(g, S \ A) \in Int
  BY <1>3, <1>4, <1>13, SumSplit
<1>21. SumFunctionOnSet(h, op.ids) + SumFunctionOnSet(f, S) <= SumFunctionOnSet(g, S)
  BY <1>14, <1>15, <1>17, <1>18, <1>19, <1>20
<1> QED
  BY <1>8, <1>11, <1>15, <1>21 DEF op

(* So does the read itself, and what it delivers waits nowhere any more.   *)
(* (read_ready_groups)                                                     *)
LEMMA ReadEraseReaders ==
    ASSUME FinitelyMany, IndInv, IndInv', ReadersInv, NEW t \in Tasks, ReadErase(t)
    PROVE  ReadersInv'
<1> DEFINE op == ops[t]
           os == ops'
           gs == groups'
<1>1. /\ op.kind = "unlink" /\ op.rest = {} /\ gs = Drop(groups, op.ids)
      /\ out' = [u \in Uids |-> out[u] + Count(u, op.result)]
      /\ os = [ops EXCEPT ![t] = Idle]
      /\ UNCHANGED <<files, last_id, stored>>
  BY DEF ReadErase, Resumes, Returns, Pending, disk
<1>2. SpillsAlone(ops) /\ DOMAIN ops = Tasks
  BY DEF ReadersInv, IndInv, OpsGood
<1>3. \A s \in Tasks : os[s] = IF s = t THEN Idle ELSE ops[s]
  BY <1>1, <1>2
<1>4. ops[t] # Idle
  BY <1>1 DEF Idle
<1>5. \A s \in Tasks \ {t} : ops[s].kind # "spill"
  BY <1>2, <1>4, ExcludesSpills
<1>6. SpillsAlone(os)
  BY <1>1, <1>2, AloneUpdate
<1>7. Carries(os, gs, files)
  <2>1. Part(files', files) /\ Undisturbed(t)
    BY <1>1, <1>5 DEF Part, Undisturbed
  <2>2. OpCarries(Idle, groups', files')
    BY DEF OpCarries, Idle
  <2> QED
    BY <1>1, <2>1, <2>2, OneCarries
<1>8. /\ \A u \in Uids, i \in Instances : InEntry(u, gs, i) <= InEntry(u, groups, i)
      /\ \A i \in DOMAIN gs :
            \/ gs[i].disk_offset = 0
            \/ i \in DOMAIN groups /\ gs[i].disk_offset = groups[i].disk_offset
  BY <1>1, DroppedGroups
<1>9. Typed(ops, groups, files, last_id) /\ Typed(os, gs, files, last_id)
  BY <1>1, StateTyped
<1> HIDE DEF os, gs
<1>10. \A s \in Tasks : Refs(os[s]) \subseteq Refs(ops[s])
  BY <1>3 DEF Refs, Idle
<1>11. ASSUME NEW u \in Uids
       PROVE  /\ Count(u, op.result) \in Nat
              /\ Count(u, op.result) + ToDeliver(u, os, gs, files, last_id)
                   <= ToDeliver(u, ops, groups, files, last_id)
  <2>1. \A o \in 1 .. last_id : InFile(u, ops, groups, files, o) \in Nat
    BY <1>9, WaitsNat
  <2>2. ASSUME NEW o \in 1 .. last_id
        PROVE  InFile(u, os, gs, files, o) <= InFile(u, ops, groups, files, o)
    <3>1. o \in Live(os, gs) => o \in Live(ops, groups)
      BY <1>8, <1>10, LiveLess
    <3>2. Part(files, files)
      BY DEF Part
    <3> QED
      BY <2>1, <3>1, <3>2, FileLess
  <2>3. \A i \in Instances : InEntry(u, gs, i) <= InEntry(u, groups, i)
    BY <1>8
  <2> QED
    BY <1>1, <1>3, <1>9, <2>2, <2>3, ErasesHands
<1>12. ASSUME NEW u \in Uids
       PROVE  out'[u] \in Nat /\ out'[u] + ToDeliver(u, os, gs, files, last_id) <= stored[u]
  <2>1. out[u] + ToDeliver(u, ops, groups, files, last_id) <= stored[u]
    BY DEF ReadersInv, Within
  <2>2. out[u] \in Nat /\ stored[u] \in Nat /\ out'[u] = out[u] + Count(u, op.result)
    BY <1>1 DEF ReadersInv, IndInv, CountersOK
  <2>3. /\ ToDeliver(u, os, gs, files, last_id) \in Nat
        /\ ToDeliver(u, ops, groups, files, last_id) \in Nat
    BY <1>9, DeliverNat
  <2> HIDE DEF op
  <2> QED
    BY <1>11, <2>1, <2>2, <2>3
<1>13. out' \in [Uids -> Nat]
  <2>1. out' = [u \in Uids |-> out'[u]]
    BY <1>1
  <2> QED
    BY <1>12, <2>1
<1>14. Within(out', stored, os, gs, files, last_id)
  BY <1>12 DEF Within
<1> QED
  BY <1>1, <1>6, <1>7, <1>13, <1>14 DEF ReadersInv, os, gs

(* Every continuation keeps the invariant.  *)
LEMMA ContinueReaders ==
    ASSUME FinitelyMany, IndInv, IndInv', ReadersInv, NEW t \in Tasks, Continue(t)
    PROVE  ReadersInv'
<1>1. ASSUME NEW i \in Instances, NEW u \in Uids, ops[t].kind = "batch", Write(t, i, u)
      PROVE  ReadersInv'
  BY <1>1, WriteReaders
<1>2. ASSUME NEW k \in Instances, SpillFile(t, k) PROVE ReadersInv'
  BY <1>2, SpillFileReaders
<1>3. CASE SpillFails(t)
  BY <1>3, ReturnsReaders DEF SpillFails, hist
<1>4. CASE SpillDone(t)
  BY <1>4, SpillDoneReaders
<1>5. ASSUME NEW i \in Instances, ReadLoad(t, i) PROVE ReadersInv'
  BY <1>5, ReadLoadReaders
<1>6. ASSUME NEW i \in Instances, ReadLoadFails(t, i) PROVE ReadersInv'
  BY <1>6, ReturnsReaders DEF ReadLoadFails, ReadFails
<1>7. CASE ReadMerge(t)
  BY <1>7, ReadMergeReaders
<1>8. ASSUME NEW o, ReadRemove(t, o) PROVE ReadersInv'
  BY <1>8, ReadRemoveReaders
<1>9. ASSUME NEW o, ReadRemoveFails(t, o) PROVE ReadersInv'
  BY <1>9, ReturnsReaders DEF ReadRemoveFails, ReadFails
<1>10. CASE ReadErase(t)
  BY <1>10, ReadEraseReaders
<1>11. CASE ResetRemove(t)
  BY <1>11, ResetRemoveReaders
<1>12. CASE ResetFails(t)
  BY <1>12, ReturnsReaders DEF ResetFails, hist
<1> QED
  BY <1>1, <1>2, <1>3, <1>4, <1>5, <1>6, <1>7, <1>8, <1>9, <1>10, <1>11, <1>12 DEF Continue

(* Every call that starts keeps it, while no spill is pending.  *)
LEMMA RequestReaders ==
    ASSUME FinitelyMany, IndInv, IndInv', ReadersInv, NoSpill, Request,
           Quiet \/ \A t \in Tasks : ops'[t].kind # "spill"
    PROVE  ReadersInv'
<1>1. ASSUME NEW t \in Tasks, reset(t) PROVE ReadersInv'
  BY <1>1, ResetReaders
<1>2. ASSUME NEW i \in Instances, delete_instance(i) PROVE ReadersInv'
  BY <1>2, DeleteReaders
<1>3. CASE check_group_timeouts
  BY <1>3, TimeoutsReaders
<1>4. ASSUME NEW size, NEW dedup, UpdateConfig(size, dedup) PROVE ReadersInv'
  BY <1>4, StillReaders DEF UpdateConfig, disk, hist
<1>5. CASE Managing
  BY <1>1, <1>2, <1>3, <1>4, <1>5 DEF Managing
<1>6. ASSUME NEW t \in Tasks, NEW i \in Instances, NEW u \in Uids, Write(t, i, u)
      PROVE  ReadersInv'
  BY <1>6, WriteReaders
<1>7. ASSUME NEW t \in Tasks, NEW b, batch_write(t, b) PROVE ReadersInv'
  BY <1>7, BatchReaders
<1>8. ASSUME NEW t \in Tasks, Writing(t) PROVE ReadersInv'
  BY <1>6, <1>7, <1>8 DEF Writing
<1>9. ASSUME NEW t \in Tasks, NEW max, ReadScan(t, max) PROVE ReadersInv'
  BY <1>9, ReadScanReaders
<1>10. ASSUME NEW t \in Tasks, NEW max, ReadNull(t, max) PROVE ReadersInv'
  BY <1>10, StillReaders DEF ReadNull, disk, hist
<1>11. ASSUME NEW t \in Tasks, Reading(t) PROVE ReadersInv'
  BY <1>9, <1>10, <1>11 DEF Reading
<1> QED
  BY <1>5, <1>8, <1>11 DEF Request

(* A step under the discipline of readers is a step of the shard, and      *)
(* keeps the invariant.                                                    *)
LEMMA ReadersStep ==
    ASSUME FinitelyMany, IndInv, ReadersInv, [ReadersNext]_vars
    PROVE  IndInv' /\ ReadersInv'
<1>1. CASE UNCHANGED vars
  <2>1. IndInv'
    BY <1>1 DEF IndInv, CountersOK, SettingsOK, vars, stats, disk, hist
  <2>2. UNCHANGED <<groups, files, last_id, ops, stored, out>>
    BY <1>1 DEF vars, disk, hist
  <2> QED
    BY <2>1, <2>2, StillReaders
<1>2. CASE ReadersNext
  <2>1. Next
    BY <1>2 DEF ReadersNext, Next, Continuing
  <2>2. IndInv'
    BY <2>1, NextInv
  <2>3. CASE Continuing
    BY <2>2, <2>3, ContinueReaders DEF Continuing
  <2>4. CASE Unlinking
    BY <2>2, <2>4, UnlinkReaders DEF Unlinking
  <2>5. CASE "spill" \notin Kinds /\ Request
             /\ (Quiet \/ \A t \in Tasks : ops'[t].kind # "spill")
    <3>1. NoSpill
      BY <2>5 DEF NoSpill, Kinds
    <3> QED
      BY <2>2, <2>5, <3>1, RequestReaders
  <2> QED
    BY <1>2, <2>3, <2>4, <2>5 DEF ReadersNext
<1> QED
  BY <1>1, <1>2

(* In the beginning there is nothing to deliver.  (the constructor) *)
LEMMA InitReaders ==
    ASSUME FinitelyMany, IndInv, Init
    PROVE  ReadersInv
<1>1. /\ groups = [i \in {} |-> NewEntry] /\ files = [o \in {} |-> NoGroup]
      /\ ops = [t \in Tasks |-> Idle]
      /\ stored = [u \in Uids |-> 0] /\ out = [u \in Uids |-> 0]
  BY DEF Init
<1>2. SpillsAlone(ops) /\ Carries(ops, groups, files)
  <2>1. \A t \in Tasks : ops[t] = Idle
    BY <1>1
  <2> QED
    BY <2>1 DEF SpillsAlone, Carries, OpCarries, Idle
<1>3. ASSUME NEW u \in Uids PROVE ToDeliver(u, ops, groups, files, last_id) = 0
  <2> DEFINE S == Places(last_id)
             f == Waiting(u, ops, groups, files, last_id)
  <2>1. \A t \in Tasks : ~Reads(ops[t])
    BY <1>1 DEF Reads, Idle
  <2>2. ASSUME NEW p \in S PROVE f[p] = 0
    <3>1. CASE p \in {"entry"} \X Instances
      BY <1>1, <3>1 DEF Waiting, Waits, InEntry, InMemory
    <3>2. CASE p \in {"file"} \X (1 .. last_id)
      BY <1>1, <3>2 DEF Waiting, Waits, InFile
    <3>3. CASE p \in {"hands"} \X (Tasks \X Instances)
      <4>1. PICK s \in Tasks, i \in Instances : p = <<"hands", <<s, i>>>>
        BY <3>3
      <4>2. f[p] = InHands(u, ops[s], files, i)
        BY <4>1 DEF Waiting, Waits
      <4> QED
        BY <2>1, <4>2, EmptyHands
    <3> QED
      BY <3>1, <3>2, <3>3 DEF Places
  <2>3. IsFiniteSet(S)
    BY StateTyped, WaitsNat
  <2> HIDE DEF S, f
  <2>4. SumFunctionOnSet(f, S) = 0
    BY <2>2, <2>3, SumZero
  <2> QED
    BY <2>4 DEF ToDeliver, S, f
<1>4. Within(out, stored, ops, groups, files, last_id)
  BY <1>1, <1>3 DEF Within
<1>5. out \in [Uids -> Nat]
  BY <1>1
<1> QED
  BY <1>2, <1>4, <1>5 DEF ReadersInv

(* Under the discipline of readers, whatever fails, each trajectory is     *)
(* delivered or may still be delivered as often as it was stored, at most. *)
THEOREM Readers ==
    ASSUME FinitelyMany
    PROVE  ReadersSpec => [](IndInv /\ ReadersInv)
<1>1. Init => IndInv /\ ReadersInv
  BY InitInv, InitReaders
<1>2. IndInv /\ ReadersInv /\ [ReadersNext]_vars => (IndInv /\ ReadersInv)'
  BY ReadersStep
<1> QED
  BY <1>1, <1>2, PTL DEF ReadersSpec

(* However reads, writes, deletes and resets race for the same groups, and *)
(* whatever I/O fails, no trajectory reaches readers more often than it    *)
(* was stored.                                                             *)
THEOREM AtMostOnce ==
    ASSUME FinitelyMany
    PROVE  ReadersSpec => []DeliveredAtMostOnce
<1>1. IndInv /\ ReadersInv => DeliveredAtMostOnce
  <2> SUFFICES ASSUME IndInv, ReadersInv, NEW u \in Uids PROVE out[u] <= stored[u]
    BY DEF DeliveredAtMostOnce
  <2>1. out[u] + ToDeliver(u, ops, groups, files, last_id) <= stored[u]
    BY DEF ReadersInv, Within
  <2>2. out[u] \in Nat /\ stored[u] \in Nat
    BY DEF ReadersInv, IndInv, CountersOK
  <2>3. ToDeliver(u, ops, groups, files, last_id) \in Nat
    BY StateTyped, DeliverNat
  <2> QED
    BY <2>1, <2>2, <2>3
<1> QED
  BY <1>1, Readers, PTL
=============================================================================
