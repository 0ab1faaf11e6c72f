-------------------------- MODULE BufferShardProofs --------------------------
(***************************************************************************)
(* What holds of a shard for every number of tasks, instances and uids,    *)
(* every configuration and every interleaving of calls: the types, the     *)
(* three invariants that keep entries, files and readers consistent, what  *)
(* the process can die of, and that its files are a SpillStore.            *)
(*                                                                         *)
(* None of them is inductive alone.  A read that loads a file relies on    *)
(* what the spill wrote under the offset it captured; the spill relies on  *)
(* the copies it took; an offset stays meaningful while files come and go  *)
(* only because ids are not reused.  IndInv adds what pending calls have   *)
(* captured.                                                               *)
(***************************************************************************)
EXTENDS BufferShard, SequenceTheorems, TLAPS

\* entry e of instance i: where its group is, and whose group it is
EntryGood(e, i, fs, last) ==
    /\ e.disk_offset <= last
    /\ e.group_ptr # NoGroup => e.disk_offset = 0 /\ e.group_ptr.instance_id = i
    /\ Leads(fs, e.disk_offset, i)

GroupsGood(gs, fs, last) ==
    /\ Partial(gs, Instances, Entry)
    /\ \A i \in DOMAIN gs : EntryGood(gs[i], i, fs, last)

FilesGood(fs, last) ==
    /\ Partial(fs, 1 .. last, Group)
    /\ \A o \in DOMAIN fs : fs[o].is_complete

\* the offsets and the groups a pending call has captured belong to their keys
OpGood(op, fs) ==
    /\ op.kind = "spill" =>
         /\ \A k \in DOMAIN op.snaps : ReadyFor(op.snaps[k], k)
         /\ \A k \in DOMAIN op.offs : Leads(fs, op.offs[k], k)
    /\ op.kind = "load" =>
         /\ \A i \in DOMAIN op.offsets : Leads(fs, op.offsets[i], i)
         /\ \A i \in DOMAIN op.result : ReadyFor(op.result[i], i)
         /\ \A i \in DOMAIN op.loaded : ReadyFor(op.loaded[i], i)
    /\ op.kind = "unlink" =>
         \A i \in DOMAIN op.result : ReadyFor(op.result[i], i)

OpsGood(os, fs, last) ==
    /\ DOMAIN os = Tasks
    /\ \A t \in Tasks : OpOK(os[t], last) /\ OpGood(os[t], fs)

CountersOK ==
    /\ total_trajectories \in [Instances -> Nat]
    /\ total_consumed \in [Instances -> Nat]
    /\ disk_usage_bytes \in [Instances -> Int]
    /\ gone \in [Instances -> Nat]
    /\ stored \in [Uids -> Nat] /\ acked \in [Uids -> Nat]

SettingsOK ==
    /\ dedup_filter \in SUBSET Uids
    /\ config \in [group_size : GroupSizes, uid_dedup : DedupModes]
    /\ crashed \in BOOLEAN /\ read_failed \in BOOLEAN

IndInv ==
    /\ GroupsGood(groups, files, last_id)
    /\ last_id \in Nat /\ unlinking \in SUBSET (1 .. last_id)
    /\ FilesGood(files, last_id)
    /\ OpsGood(ops, files, last_id)
    /\ CountersOK
    /\ SettingsOK

-----------------------------------------------------------------------------
(* Partial functions, entries and operations *)

(* Adding a pair to a partial function keeps its type.  (Put) *)
LEMMA PartialPut ==
    ASSUME NEW f, NEW S, NEW T, NEW k \in S, NEW v \in T, Partial(f, S, T)
    PROVE  Partial(Put(f, k, v), S, T)
BY DEF Partial, Put

(* Removing keys from a partial function keeps its type.  (Drop) *)
LEMMA PartialDrop ==
    ASSUME NEW f, NEW S, NEW T, NEW K, Partial(f, S, T)
    PROVE  Partial(Drop(f, K), S, T)
BY DEF Partial, Drop

\* the files with ids up to last are a part of what they were
Keeps(fs, fs2, last) ==
    \A o \in 0 .. last : o \in DOMAIN fs2 => o \in DOMAIN fs /\ fs2[o] = fs[o]

(* What a pending call has captured stays good while files are removed and *)
(* files with new ids are added.  (SpillFile, ReadRemove, ResetRemove)     *)
LEMMA OpStable ==
    ASSUME NEW op, NEW last \in Nat, NEW last2 \in Nat, NEW fs, NEW fs2,
           OpOK(op, last), OpGood(op, fs),
           last <= last2, Keeps(fs, fs2, last)
    PROVE  OpOK(op, last2) /\ OpGood(op, fs2)
<1>1. 1 .. last \subseteq 1 .. last2 /\ 1 .. last \subseteq 0 .. last
  OBVIOUS
<1>2. ASSUME NEW f, NEW S, Partial(f, S, 1 .. last)
      PROVE  Partial(f, S, 1 .. last2)
  BY <1>1, <1>2 DEF Partial
<1>3. OpOK(op, last2)
  <2>1. CASE op = Idle
    BY <2>1 DEF OpOK
  <2>2. CASE op.kind = "spill"
    BY <2>2, <1>2 DEF OpOK, Idle, SpillOp, LoadOp, UnlinkOp, ResetOp, BatchOp
  <2>3. CASE op.kind = "load"
    BY <2>3, <1>2 DEF OpOK, Idle, SpillOp, LoadOp, UnlinkOp, ResetOp, BatchOp
  <2>4. CASE op.kind = "unlink"
    BY <2>4, <1>1 DEF OpOK, Idle, SpillOp, LoadOp, UnlinkOp, ResetOp, BatchOp
  <2>5. CASE op.kind = "reset"
    BY <2>5, <1>1 DEF OpOK, Idle, SpillOp, LoadOp, UnlinkOp, ResetOp, BatchOp
  <2>6. CASE op.kind = "batch"
    BY <2>6 DEF OpOK, Idle, SpillOp, LoadOp, UnlinkOp, ResetOp, BatchOp
  <2> QED
    BY <2>1, <2>2, <2>3, <2>4, <2>5, <2>6 DEF OpOK
<1>4. ASSUME NEW f, NEW S, Partial(f, S, 1 .. last),
             \A k \in DOMAIN f : Leads(fs, f[k], k)
      PROVE  \A k \in DOMAIN f : Leads(fs2, f[k], k)
  BY <1>1, <1>4 DEF Partial, Leads, Keeps
<1>5. OpGood(op, fs2)
  <2>1. CASE op.kind = "spill"
    <3>1. \E S : Partial(op.offs, S, 1 .. last)
      BY <2>1 DEF OpOK, Idle, SpillOp, LoadOp, UnlinkOp, ResetOp, BatchOp
    <3> QED
      BY <2>1, <3>1, <1>4 DEF OpGood
  <2>2. CASE op.kind = "load"
    <3>1. \E S : Partial(op.offsets, S, 1 .. last)
      BY <2>2 DEF OpOK, Idle, SpillOp, LoadOp, UnlinkOp, ResetOp, BatchOp
    <3> QED
      BY <2>2, <3>1, <1>4 DEF OpGood
  <2>3. CASE op.kind # "spill" /\ op.kind # "load"
    BY <2>3 DEF OpGood
  <2> QED
    BY <2>1, <2>2, <2>3
<1> QED
  BY <1>3, <1>5

(* One task goes on to a good operation, the others stay where they are.   *)
(* (Pending)                                                               *)
LEMMA OpsUpdate ==
    ASSUME NEW os, NEW t \in Tasks, NEW op,
           NEW last \in Nat, NEW last2 \in Nat, NEW fs, NEW fs2,
           OpsGood(os, fs, last), last <= last2, Keeps(fs, fs2, last),
           OpOK(op, last2), OpGood(op, fs2)
    PROVE  OpsGood([os EXCEPT ![t] = op], fs2, last2)
<1>1. \A s \in Tasks : OpOK(os[s], last2) /\ OpGood(os[s], fs2)
  BY OpStable DEF OpsGood
<1>2. DOMAIN os = Tasks
  BY DEF OpsGood
<1>3. \A s \in Tasks : [os EXCEPT ![t] = op][s] = IF s = t THEN op ELSE os[s]
  BY <1>2
<1> QED
  BY <1>1, <1>2, <1>3 DEF OpsGood

(* The same when no file changes. *)
LEMMA OpsGoesOn ==
    ASSUME NEW os, NEW t \in Tasks, NEW op, NEW last \in Nat, NEW fs,
           OpsGood(os, fs, last), OpOK(op, last), OpGood(op, fs)
    PROVE  OpsGood([os EXCEPT ![t] = op], fs, last)
<1>1. last <= last /\ Keeps(fs, fs, last)
  BY DEF Keeps
<1> QED
  BY <1>1, OpsUpdate

(* No task goes on, but files are removed or added. *)
LEMMA OpsStable ==
    ASSUME NEW os, NEW last \in Nat, NEW last2 \in Nat, NEW fs, NEW fs2,
           OpsGood(os, fs, last), last <= last2, Keeps(fs, fs2, last)
    PROVE  OpsGood(os, fs2, last2)
BY OpStable DEF OpsGood

(* An idle task is good. *)
LEMMA IdleGood ==
    ASSUME NEW last, NEW fs
    PROVE  OpOK(Idle, last) /\ OpGood(Idle, fs)
BY DEF OpOK, OpGood, Idle

(* Entries stay good while files are removed and files with new ids added. *)
LEMMA GroupsStable ==
    ASSUME NEW gs, NEW last \in Nat, NEW last2 \in Nat, NEW fs, NEW fs2,
           GroupsGood(gs, fs, last), last <= last2, Keeps(fs, fs2, last)
    PROVE  GroupsGood(gs, fs2, last2)
<1>1. ASSUME NEW i \in DOMAIN gs
      PROVE  EntryGood(gs[i], i, fs2, last2)
  <2>1. gs[i].disk_offset \in Nat
    BY DEF GroupsGood, Partial, Entry
  <2>2. EntryGood(gs[i], i, fs, last)
    BY DEF GroupsGood
  <2>3. gs[i].disk_offset \in 0 .. last
    BY <2>1, <2>2 DEF EntryGood
  <2> QED
    BY <2>1, <2>2, <2>3 DEF EntryGood, Leads, Keeps
<1> QED
  BY <1>1 DEF GroupsGood

(* One entry is replaced by a good one.  (Put) *)
LEMMA GroupsPut ==
    ASSUME NEW gs, NEW last, NEW fs, NEW i \in Instances, NEW e \in Entry,
           GroupsGood(gs, fs, last), EntryGood(e, i, fs, last)
    PROVE  GroupsGood(Put(gs, i, e), fs, last)
<1>1. Partial(Put(gs, i, e), Instances, Entry)
  BY PartialPut DEF GroupsGood
<1>2. \A j \in DOMAIN Put(gs, i, e) : EntryGood(Put(gs, i, e)[j], j, fs, last)
  BY DEF GroupsGood, Put
<1> QED
  BY <1>1, <1>2 DEF GroupsGood

(* Entries are erased.  (Drop) *)
LEMMA GroupsDrop ==
    ASSUME NEW gs, NEW last, NEW fs, NEW K, GroupsGood(gs, fs, last)
    PROVE  GroupsGood(Drop(gs, K), fs, last)
<1>1. Partial(Drop(gs, K), Instances, Entry)
  BY PartialDrop DEF GroupsGood
<1>2. \A j \in DOMAIN Drop(gs, K) : EntryGood(Drop(gs, K)[j], j, fs, last)
  BY DEF GroupsGood, Drop
<1> QED
  BY <1>1, <1>2 DEF GroupsGood

(* Files are removed.  (ReadRemove, ResetRemove, Unlink) *)
LEMMA FilesDrop ==
    ASSUME NEW fs, NEW last, NEW K, FilesGood(fs, last)
    PROVE  FilesGood(Drop(fs, K), last) /\ Keeps(fs, Drop(fs, K), last)
<1>1. Partial(Drop(fs, K), 1 .. last, Group)
  BY PartialDrop DEF FilesGood
<1> QED
  BY <1>1 DEF FilesGood, Keeps, Drop

(* A complete group is written under a new id.  (SpillFile) *)
LEMMA FilesPut ==
    ASSUME NEW fs, NEW last \in Nat, NEW g \in Group, g.is_complete,
           FilesGood(fs, last)
    PROVE  /\ FilesGood(Put(fs, last + 1, g), last + 1)
           /\ Keeps(fs, Put(fs, last + 1, g), last)
           /\ Put(fs, last + 1, g)[last + 1] = g
<1>1. Partial(fs, 1 .. (last + 1), Group)
  <2>1. 1 .. last \subseteq 1 .. (last + 1)
    OBVIOUS
  <2> QED
    BY <2>1 DEF FilesGood, Partial
<1>2. Partial(Put(fs, last + 1, g), 1 .. (last + 1), Group)
  <2>1. last + 1 \in 1 .. (last + 1)
    OBVIOUS
  <2> QED
    BY <1>1, <2>1, PartialPut
<1>3. last + 1 \notin 0 .. last
  OBVIOUS
<1> QED
  BY <1>2, <1>3 DEF FilesGood, Keeps, Put

-----------------------------------------------------------------------------
(* Initial states *)

(* The shard starts consistent.  (the constructor) *)
LEMMA InitInv == Init => IndInv
<1> SUFFICES ASSUME Init PROVE IndInv
  OBVIOUS
<1>1. GroupsGood(groups, files, last_id)
  BY DEF Init, GroupsGood, Partial
<1>2. FilesGood(files, last_id)
  BY DEF Init, FilesGood, Partial
<1>3. OpsGood(ops, files, last_id)
  BY IdleGood DEF Init, OpsGood
<1>4. CountersOK /\ SettingsOK
  <2>1. Zero \in [Instances -> Nat] /\ Zero \in [Instances -> Int]
    BY DEF Zero
  <2>2. [u \in Uids |-> 0] \in [Uids -> Nat]
    OBVIOUS
  <2> QED
    BY <2>1, <2>2 DEF Init, CountersOK, SettingsOK
<1>5. last_id \in Nat /\ unlinking \in SUBSET (1 .. last_id)
  BY DEF Init
<1> QED
  BY <1>1, <1>2, <1>3, <1>4, <1>5 DEF IndInv

-----------------------------------------------------------------------------
(* Writing *)

(* What is left of a vector after one write is a vector or nothing.        *)
(* (batch_write)                                                           *)
LEMMA RestGood ==
    ASSUME IndInv, NEW t \in Tasks, NEW i \in Instances, NEW u \in Uids,
           Writes(t, i, u)
    PROVE  OpOK(Rest(t), last_id) /\ OpGood(Rest(t), files)
<1>1. CASE Rest(t) = Idle
  BY <1>1, IdleGood
<1>2. CASE Rest(t) # Idle
  <2>1. ops[t].kind = "batch" /\ OpOK(ops[t], last_id)
    BY <1>2 DEF Writes, Starts, Resumes, Rest, IndInv, OpsGood
  <2>2. ops[t].rest \in Seq(Instances \X Uids) /\ ops[t].rest # <<>>
    BY <2>1 DEF OpOK, Idle, SpillOp, LoadOp, UnlinkOp, ResetOp, BatchOp
  <2>3. Rest(t) = BatchOp(Tail(ops[t].rest)) /\ Len(ops[t].rest) # 1
    BY <1>2 DEF Rest
  <2>4. Tail(ops[t].rest) \in Seq(Instances \X Uids)
    BY <2>2, HeadTailProperties
  <2>5. Tail(ops[t].rest) # <<>>
    <3>1. Len(Tail(ops[t].rest)) = Len(ops[t].rest) - 1
      BY <2>2, HeadTailProperties
    <3>2. Len(ops[t].rest) \in Nat
      BY <2>2
    <3>3. Len(Tail(ops[t].rest)) # 0
      BY <3>1, <3>2, <2>3
    <3> QED
      BY <3>3, EmptySeq
  <2> QED
    BY <2>3, <2>4, <2>5 DEF OpOK, OpGood, BatchOp
<1> QED
  BY <1>1, <1>2

(* The uid check leaves a set of uids.  (insert) *)
LEMMA AdmitsSettings ==
    ASSUME SettingsOK, NEW u \in Uids, Admits(u)
    PROVE  dedup_filter' \in SUBSET Uids
BY DEF SettingsOK, Admits, Dedup!Insert, Dedup!AfterInsert

(* The entry a write leaves is of its instance and owns its group in       *)
(* memory.  (write)                                                        *)
LEMMA AppendedGood ==
    ASSUME IndInv, NEW i \in Instances, NEW u \in Uids, ~IsOnDisk(EntryOf(i))
    PROVE  /\ Appended(i, u) \in Entry
           /\ EntryGood(Appended(i, u), i, files, last_id)
<1> DEFINE old == EntryOf(i)
           new == [instance_id |-> i, trajectories |-> <<>>,
                   group_size |-> config.group_size, is_complete |-> FALSE]
           g == IF old.group_ptr # NoGroup THEN old.group_ptr ELSE new
           more == Append(g.trajectories, u)
           h == [g EXCEPT !.trajectories = more,
                          !.is_complete = @ \/ Len(more) >= g.group_size]
<1>1. old \in Entry /\ EntryGood(old, i, files, last_id)
  <2>1. CASE i \in DOMAIN groups
    BY <2>1 DEF EntryOf, IndInv, GroupsGood, Partial
  <2>2. CASE i \notin DOMAIN groups
    <3>1. 0 \notin DOMAIN files /\ 0 <= last_id
      BY DEF IndInv, FilesGood, Partial
    <3> QED
      BY <2>2, <3>1 DEF EntryOf, NewEntry, Entry, EntryGood, Leads
  <2> QED
    BY <2>1, <2>2
<1>2. g \in Group /\ g.instance_id = i
  <2>1. CASE old.group_ptr # NoGroup
    BY <1>1, <2>1 DEF Entry, EntryGood
  <2>2. CASE old.group_ptr = NoGroup
    <3>1. config.group_size \in Nat
      BY ConfigAssumption DEF IndInv, SettingsOK
    <3> QED
      BY <2>2, <3>1 DEF Group
  <2> QED
    BY <2>1, <2>2
<1>3. Appended(i, u) = [old EXCEPT !.group_ptr = h]
  BY DEF Appended
<1> HIDE DEF g
<1>4. more \in Seq(Uids)
  BY <1>2 DEF Group
<1> HIDE DEF more
<1>5. h \in Group /\ h.instance_id = i
  BY <1>2, <1>4 DEF Group
<1> HIDE DEF h, old
<1>6. old.disk_offset = 0
  BY <1>1 DEF IsOnDisk, Entry, EntryGood, old
<1> QED
  BY <1>1, <1>3, <1>5, <1>6 DEF Entry, EntryGood

(* Storing a trajectory keeps the entries, the counters and the settings   *)
(* good.  (write up to try_spill_groups)                                   *)
LEMMA StoresGood ==
    ASSUME IndInv, NEW t \in Tasks, NEW i \in Instances, NEW u \in Uids,
           Stores(t, i, u)
    PROVE  /\ GroupsGood(groups', files', last_id')
           /\ UNCHANGED <<files, last_id, unlinking>>
           /\ stored' \in [Uids -> Nat] /\ dedup_filter' \in SUBSET Uids
           /\ total_trajectories' \in [Instances -> Nat]
           /\ UNCHANGED <<config, total_consumed, disk_usage_bytes, gone, read_failed>>
<1>1. /\ UNCHANGED <<files, last_id, unlinking>>
      /\ UNCHANGED <<config, total_consumed, disk_usage_bytes, gone, read_failed>>
  BY DEF Stores, disk
<1>2. GroupsGood(groups', files, last_id)
  <2>1. groups' = Put(groups, i, Appended(i, u)) /\ ~IsOnDisk(EntryOf(i))
    BY DEF Stores
  <2> QED
    BY <2>1, AppendedGood, GroupsPut DEF IndInv
<1>3. stored' \in [Uids -> Nat] /\ total_trajectories' \in [Instances -> Nat]
  BY DEF Stores, IndInv, CountersOK
<1>4. dedup_filter' \in SUBSET Uids
  BY AdmitsSettings DEF Stores, IndInv
<1> QED
  BY <1>1, <1>2, <1>3, <1>4

(* Answering a write counts.  *)
LEMMA AckedGood ==
    ASSUME acked \in [Uids -> Nat], NEW u \in Uids,
           acked' = [acked EXCEPT ![u] = @ + 1]
    PROVE  acked' \in [Uids -> Nat]
OBVIOUS

(* Every way a write can go keeps the invariant.  (write) *)
LEMMA WriteInv ==
    ASSUME IndInv, NEW t \in Tasks, NEW i \in Instances, NEW u \in Uids,
           Write(t, i, u)
    PROVE  IndInv'
<1>1. CASE WriteDuplicate(t, i, u)
  <2>1. ops' = [ops EXCEPT ![t] = Rest(t)]
    BY <1>1 DEF WriteDuplicate, Pending
  <2>2. UNCHANGED <<groups, dedup_filter, config, stats, disk, crashed, hist>>
    BY <1>1 DEF WriteDuplicate
  <2>3. OpsGood(ops', files, last_id)
    BY <1>1, <2>1, RestGood, OpsGoesOn DEF WriteDuplicate, IndInv
  <2> QED
    BY <2>2, <2>3 DEF IndInv, CountersOK, SettingsOK, stats, disk, hist
<1>2. CASE WriteOnDisk(t, i, u)
  <2>1. ops' = [ops EXCEPT ![t] = Rest(t)]
    BY <1>2 DEF WriteOnDisk, Pending
  <2>2. UNCHANGED <<groups, config, stats, disk, crashed, stored, gone, read_failed>>
    BY <1>2 DEF WriteOnDisk
  <2>3. OpsGood(ops', files, last_id)
    BY <1>2, <2>1, RestGood, OpsGoesOn DEF WriteOnDisk, IndInv
  <2>4. dedup_filter' \in SUBSET Uids /\ acked' \in [Uids -> Nat]
    BY <1>2, AdmitsSettings, AckedGood DEF WriteOnDisk, IndInv, CountersOK
  <2> QED
    BY <2>2, <2>3, <2>4 DEF IndInv, CountersOK, SettingsOK, stats, disk
<1>3. CASE WriteInMemory(t, i, u)
  <2>1. Stores(t, i, u) /\ Writes(t, i, u)
    BY <1>3 DEF WriteInMemory, Stores
  <2>2. ops' = [ops EXCEPT ![t] = Rest(t)] /\ crashed' = crashed
    BY <1>3 DEF WriteInMemory, Pending
  <2>3. OpsGood(ops', files, last_id)
    BY <2>1, <2>2, RestGood, OpsGoesOn DEF IndInv
  <2>4. acked' \in [Uids -> Nat]
    BY <1>3, AckedGood DEF WriteInMemory, IndInv, CountersOK
  <2> QED
    BY <2>1, <2>2, <2>3, <2>4, StoresGood DEF IndInv, CountersOK, SettingsOK
<1>4. CASE WriteSpills(t, i, u)
  <2>1. Stores(t, i, u) /\ UNCHANGED <<crashed, acked>>
    BY <1>4 DEF WriteSpills
  <2>2. PICK K \in ToSpill :
          ops' = [ops EXCEPT ![t] = SpillOp(u, [k \in K |-> groups'[k].group_ptr],
                                            [k \in {} |-> 0])]
    BY <1>4 DEF WriteSpills, Pending
  <2> DEFINE snaps == [k \in K |-> groups'[k].group_ptr]
             op == SpillOp(u, snaps, [k \in {} |-> 0])
  <2>3. GroupsGood(groups', files, last_id)
    BY <2>1, StoresGood
  <2>4. \A k \in K : /\ k \in DOMAIN groups' /\ groups'[k].group_ptr # NoGroup
                     /\ groups'[k].group_ptr.is_complete
    BY <2>2 DEF ToSpill, SpillChoices, Spillable, InMemory
  <2>5. Partial(snaps, Instances, Group)
    BY <2>3, <2>4 DEF GroupsGood, Partial, Entry
  <2>6. \A k \in K : ReadyFor(snaps[k], k)
    BY <2>3, <2>4 DEF GroupsGood, EntryGood, ReadyFor
  <2>7. OpOK(op, last_id) /\ OpGood(op, files)
    <3>1. Partial([k \in {} |-> 0], DOMAIN snaps, 1 .. last_id)
      BY DEF Partial
    <3> HIDE DEF snaps
    <3>2. \A k \in DOMAIN snaps : ReadyFor(snaps[k], k)
      BY <2>6 DEF snaps
    <3>3. OpOK(op, last_id)
      BY <2>5, <3>1 DEF OpOK, SpillOp
    <3>4. OpGood(op, files)
      BY <3>2 DEF OpGood, SpillOp
    <3> QED
      BY <3>3, <3>4
  <2>8. OpsGood(ops', files, last_id)
    <3> HIDE DEF op
    <3>1. ops' = [ops EXCEPT ![t] = op]
      BY <2>2 DEF op
    <3> QED
      BY <3>1, <2>7, OpsGoesOn DEF IndInv
  <2> QED
    BY <2>1, <2>8, StoresGood DEF IndInv, CountersOK, SettingsOK
<1>5. CASE WriteAborts(t, i, u)
  <2>1. Stores(t, i, u) /\ crashed' = TRUE /\ UNCHANGED <<ops, acked>>
    BY <1>5 DEF WriteAborts
  <2> QED
    BY <2>1, StoresGood DEF IndInv, CountersOK, SettingsOK
<1> QED
  BY <1>1, <1>2, <1>3, <1>4, <1>5 DEF Write

(* A vector that batch_write accepts is not empty.  (batch_write) *)
LEMMA BatchInv ==
    ASSUME IndInv, NEW t \in Tasks, NEW b \in Batches, batch_write(t, b)
    PROVE  IndInv'
<1>1. ops' = [ops EXCEPT ![t] = BatchOp(b)]
  BY DEF batch_write, Pending
<1>2. UNCHANGED <<groups, dedup_filter, config, stats, disk, crashed, hist>>
  BY DEF batch_write
<1>3. OpOK(BatchOp(b), last_id) /\ OpGood(BatchOp(b), files)
  BY BatchAssumption DEF OpOK, OpGood, BatchOp
<1>4. OpsGood(ops', files, last_id)
  BY <1>1, <1>3, OpsGoesOn DEF IndInv
<1> QED
  BY <1>2, <1>4 DEF IndInv, CountersOK, SettingsOK, stats, disk, hist

-----------------------------------------------------------------------------
(* The rest of try_spill_groups *)

(* A spill that has still files to write has captured ready groups.  *)
LEMMA SpillShape ==
    ASSUME IndInv, NEW t \in Tasks, ops[t].kind = "spill"
    PROVE  /\ ops[t] = SpillOp(ops[t].uid, ops[t].snaps, ops[t].offs)
           /\ ops[t].uid \in Uids
           /\ Partial(ops[t].snaps, Instances, Group)
           /\ Partial(ops[t].offs, DOMAIN ops[t].snaps, 1 .. last_id)
           /\ \A k \in DOMAIN ops[t].snaps : ReadyFor(ops[t].snaps[k], k)
           /\ \A k \in DOMAIN ops[t].offs : Leads(files, ops[t].offs[k], k)
<1>1. OpOK(ops[t], last_id) /\ OpGood(ops[t], files)
  BY DEF IndInv, OpsGood
<1> QED
  BY <1>1 DEF OpOK, OpGood, Idle, SpillOp, LoadOp, UnlinkOp, ResetOp, BatchOp

(* Writing one file keeps the invariant: its id is new, so no captured     *)
(* offset comes to lead elsewhere.  (spill_batch)                          *)
LEMMA SpillFileInv ==
    ASSUME IndInv, NEW t \in Tasks, NEW k \in Instances, SpillFile(t, k)
    PROVE  IndInv'
<1> DEFINE op == ops[t]
           id == last_id + 1
           fs == Put(files, id, op.snaps[k])
           offs == Put(op.offs, k, id)
           next == [op EXCEPT !.offs = offs]
<1>1. /\ op.kind = "spill" /\ k \in DOMAIN op.snaps
      /\ last_id' = id /\ files' = fs /\ ops' = [ops EXCEPT ![t] = next]
      /\ UNCHANGED <<groups, dedup_filter, config, stats, unlinking, crashed, hist>>
  BY DEF SpillFile, Resumes, Pending
<1>2. last_id \in Nat /\ id \in Nat /\ last_id <= id
  BY DEF IndInv
<1>3. op.snaps[k] \in Group /\ ReadyFor(op.snaps[k], k)
  BY <1>1, SpillShape DEF Partial
<1>4. FilesGood(fs, id) /\ Keeps(files, fs, last_id) /\ fs[id] = op.snaps[k]
  BY <1>2, <1>3, FilesPut DEF IndInv, ReadyFor
<1>5. OpOK(op, id) /\ OpGood(op, fs)
  <2> HIDE DEF fs, id
  <2>1. OpOK(op, last_id) /\ OpGood(op, files)
    BY DEF IndInv, OpsGood
  <2> QED
    BY <2>1, <1>2, <1>4, OpStable
<1>6. OpOK(next, id) /\ OpGood(next, fs)
  <2>1. /\ op = SpillOp(op.uid, op.snaps, op.offs) /\ op.uid \in Uids
        /\ Partial(op.snaps, Instances, Group)
        /\ Partial(op.offs, DOMAIN op.snaps, 1 .. id)
        /\ \A j \in DOMAIN op.snaps : ReadyFor(op.snaps[j], j)
        /\ \A j \in DOMAIN op.offs : Leads(fs, op.offs[j], j)
    BY <1>1, <1>5
       DEF OpOK, OpGood, Idle, SpillOp, LoadOp, UnlinkOp, ResetOp, BatchOp
  <2>2. id \in 1 .. id
    BY <1>2
  <2>3. Partial(offs, DOMAIN op.snaps, 1 .. id)
    BY <1>1, <2>1, <2>2, PartialPut
  <2>4. Leads(fs, id, k)
    BY <1>3, <1>4 DEF Leads, ReadyFor
  <2>5. \A j \in DOMAIN offs : Leads(fs, offs[j], j)
    BY <2>1, <2>4 DEF Put
  <2>6. next = SpillOp(op.uid, op.snaps, offs)
    BY <2>1 DEF SpillOp
  <2> HIDE DEF offs, op, next, fs, id
  <2>7. OpOK(next, id)
    BY <2>1, <2>3, <2>6 DEF OpOK, SpillOp
  <2>8. OpGood(next, fs)
    BY <2>1, <2>5, <2>6 DEF OpGood, SpillOp
  <2> QED
    BY <2>7, <2>8
<1> HIDE DEF op, next, fs, id, offs
<1>7. OpsGood(ops', fs, id)
  BY <1>1, <1>2, <1>4, <1>6, OpsUpdate DEF IndInv
<1>8. GroupsGood(groups, fs, id)
  BY <1>2, <1>4, GroupsStable DEF IndInv
<1>9. unlinking \in SUBSET (1 .. id)
  BY <1>2 DEF IndInv
<1> QED
  BY <1>1, <1>2, <1>4, <1>7, <1>8, <1>9 DEF IndInv, CountersOK, SettingsOK, stats, hist

(* A call that returns and changes nothing else keeps the invariant.       *)
(* (the failures of spill_batch, load_batch and remove)                    *)
LEMMA ReturnsInv ==
    ASSUME IndInv, NEW t \in Tasks, Returns(t), read_failed' \in BOOLEAN,
           UNCHANGED <<groups, dedup_filter, config, stats, disk, crashed, stored, acked, gone>>
    PROVE  IndInv'
<1>1. OpsGood(ops', files, last_id)
  BY IdleGood, OpsGoesOn DEF IndInv, Returns, Pending
<1> QED
  BY <1>1 DEF IndInv, CountersOK, SettingsOK, stats, disk

(* The size of the group an entry owns is a natural number. *)
LEMMA InMemorySizeType ==
    ASSUME NEW e \in Entry
    PROVE  InMemorySize(e) \in Nat
<1>1. CASE e.group_ptr # NoGroup
  <2>1. e.group_ptr.trajectories \in Seq(Uids)
    BY <1>1 DEF Entry, Group
  <2>2. Len(e.group_ptr.trajectories) \in Nat
    BY <2>1
  <2> QED
    BY <1>1, <2>2 DEF InMemorySize, Size
<1>2. CASE e.group_ptr = NoGroup
  BY <1>2 DEF InMemorySize
<1> QED
  BY <1>1, <1>2

(* Turning entries into on-disk ones keeps the invariant: whatever entry a *)
(* key has by now, its offset leads to a group of that key.                *)
(* (try_spill_groups)                                                      *)
LEMMA SpillDoneInv ==
    ASSUME IndInv, NEW t \in Tasks, SpillDone(t)
    PROVE  IndInv'
<1> DEFINE spilled == DOMAIN ops[t].offs \intersect DOMAIN groups
<1>1. /\ groups' = [i \in DOMAIN groups |-> IF i \in spilled THEN Spilled(t, i)
                                            ELSE groups[i]]
      /\ disk_usage_bytes' = [i \in Instances |-> disk_usage_bytes[i]
            + IF i \in spilled THEN InMemorySize(groups[i]) ELSE 0]
      /\ acked' = [acked EXCEPT ![ops[t].uid] = @ + 1]
      /\ ops[t].kind = "spill" /\ Returns(t)
      /\ UNCHANGED <<dedup_filter, config, total_trajectories, total_consumed,
                     disk, crashed, stored, gone, read_failed>>
  BY DEF SpillDone, Resumes
<1>2. /\ Partial(ops[t].offs, DOMAIN ops[t].snaps, 1 .. last_id)
      /\ \A k \in DOMAIN ops[t].offs : Leads(files, ops[t].offs[k], k)
      /\ ops[t].uid \in Uids
  BY <1>1, SpillShape
<1>3. \A i \in spilled : InMemorySize(groups[i]) \in Nat
  BY InMemorySizeType DEF IndInv, GroupsGood, Partial
<1>4. \A i \in spilled : ops[t].offs[i] \in Nat /\ ops[t].offs[i] <= last_id
  <2>1. \A i \in DOMAIN ops[t].offs : ops[t].offs[i] \in 1 .. last_id
    BY <1>2 DEF Partial
  <2>2. last_id \in Nat
    BY DEF IndInv
  <2> QED
    BY <2>1, <2>2
<1>5. \A i \in spilled : /\ Spilled(t, i) \in Entry
                         /\ EntryGood(Spilled(t, i), i, files, last_id)
  BY <1>2, <1>3, <1>4 DEF Spilled, Entry, EntryGood
<1> HIDE DEF spilled
<1>6. GroupsGood(groups', files, last_id)
  <2>1. Partial(groups, Instances, Entry)
        /\ \A i \in DOMAIN groups : EntryGood(groups[i], i, files, last_id)
    BY DEF IndInv, GroupsGood
  <2>2. Partial(groups', Instances, Entry)
    BY <1>1, <1>5, <2>1 DEF Partial
  <2>3. \A i \in DOMAIN groups' : EntryGood(groups'[i], i, files, last_id)
    BY <1>1, <1>5, <2>1
  <2> QED
    BY <2>2, <2>3 DEF GroupsGood
<1>7. OpsGood(ops', files, last_id)
  BY <1>1, IdleGood, OpsGoesOn DEF IndInv, Returns, Pending
<1>8. acked' \in [Uids -> Nat]
  BY <1>1, <1>2, AckedGood DEF IndInv, CountersOK
<1>9. disk_usage_bytes' \in [Instances -> Int]
  <2>1. \A i \in Instances : disk_usage_bytes[i] \in Int
    BY DEF IndInv, CountersOK
  <2> QED
    BY <1>1, <1>3, <2>1
<1> QED
  BY <1>1, <1>6, <1>7, <1>8, <1>9 DEF IndInv, CountersOK, SettingsOK, disk

-----------------------------------------------------------------------------
(* read_ready_groups *)

(* What a scan captures: ready groups of their own instances, and offsets  *)
(* that lead to files of their own instances.  (read_ready_groups)         *)
LEMMA ScanOp ==
    ASSUME IndInv, NEW ids \in SUBSET Ready, \A i \in ids : ~IsGhost(groups[i]),
           NEW inmem, inmem = ids \intersect InMemory(groups),
           NEW op,
           op = LoadOp(ids, [i \in inmem |-> groups[i].group_ptr],
                       [i \in ids \ inmem |-> groups[i].disk_offset],
                       [i \in {} |-> NoGroup])
    PROVE  OpOK(op, last_id) /\ OpGood(op, files)
<1> DEFINE result == [i \in inmem |-> groups[i].group_ptr]
           offsets == [i \in ids \ inmem |-> groups[i].disk_offset]
           none == [i \in {} |-> NoGroup]
<1>1. /\ \A i \in ids : /\ i \in DOMAIN groups /\ i \in Instances
                        /\ groups[i] \in Entry
                        /\ EntryGood(groups[i], i, files, last_id)
      /\ last_id \in Nat
  BY DEF IndInv, GroupsGood, Partial, Ready
<1>2. \A i \in inmem : /\ groups[i].group_ptr \in Group
                       /\ ReadyFor(groups[i].group_ptr, i)
  BY <1>1 DEF InMemory, Ready, IsComplete, ReadyFor, EntryGood, Entry
<1>3. \A i \in ids \ inmem : /\ groups[i].disk_offset \in 1 .. last_id
                             /\ Leads(files, groups[i].disk_offset, i)
  BY <1>1 DEF InMemory, IsGhost, EntryGood, Entry
<1>4. /\ Partial(result, Instances, Group)
      /\ Partial(offsets, Instances, 1 .. last_id)
      /\ Partial(none, DOMAIN offsets, Group)
  BY <1>1, <1>2, <1>3 DEF Partial
<1>5. ids = DOMAIN result \union DOMAIN offsets /\ ids \in SUBSET Instances
  BY <1>1
<1>6. /\ \A i \in DOMAIN offsets : Leads(files, offsets[i], i)
      /\ \A i \in DOMAIN result : ReadyFor(result[i], i)
      /\ \A i \in DOMAIN none : ReadyFor(none[i], i)
  BY <1>2, <1>3
<1>7. op = LoadOp(ids, result, offsets, none)
  OBVIOUS
<1> HIDE DEF result, offsets, none
<1> QED
  BY <1>4, <1>5, <1>6, <1>7 DEF OpOK, OpGood, LoadOp

(* A scan keeps the invariant: the entries it moves groups out of stay     *)
(* good, with no group and no offset.  (read_ready_groups)                 *)
LEMMA ReadScanInv ==
    ASSUME IndInv, NEW t \in Tasks, NEW max, ReadScan(t, max)
    PROVE  IndInv'
<1>1. PICK ids \in Scans(max) \ {{}} :
        LET inmem == ids \intersect InMemory(groups)
        IN  /\ \A i \in ids : ~IsGhost(groups[i])
            /\ groups' = [i \in DOMAIN groups |->
                 IF i \in inmem THEN [groups[i] EXCEPT !.group_ptr = NoGroup]
                 ELSE groups[i]]
            /\ total_consumed' = [i \in Instances |-> total_consumed[i]
                 + IF i \in inmem THEN Size(groups[i].group_ptr) ELSE 0]
            /\ disk_usage_bytes' = [i \in Instances |-> disk_usage_bytes[i]
                 - IF i \in ids \ inmem THEN groups[i].cached_bytes ELSE 0]
            /\ Pending(t, LoadOp(ids, [i \in inmem |-> groups[i].group_ptr],
                                 [i \in ids \ inmem |-> groups[i].disk_offset],
                                 [i \in {} |-> NoGroup]))
  BY DEF ReadScan
<1> DEFINE inmem == ids \intersect InMemory(groups)
           op == LoadOp(ids, [i \in inmem |-> groups[i].group_ptr],
                        [i \in ids \ inmem |-> groups[i].disk_offset],
                        [i \in {} |-> NoGroup])
<1>2. ids \in SUBSET Ready
  BY DEF Scans
<1>3. OpOK(op, last_id) /\ OpGood(op, files)
  BY <1>1, <1>2, ScanOp
<1>4. OpsGood(ops', files, last_id)
  <2>1. ops' = [ops EXCEPT ![t] = op]
    BY <1>1 DEF Pending
  <2> HIDE DEF op
  <2> QED
    BY <1>3, <2>1, OpsGoesOn DEF IndInv
<1>5. \A i \in ids : groups[i] \in Entry /\ i \in DOMAIN groups
  BY <1>2 DEF IndInv, GroupsGood, Partial, Ready
<1>6. GroupsGood(groups', files, last_id)
  <2>1. groups' = [i \in DOMAIN groups |->
           IF i \in inmem THEN [groups[i] EXCEPT !.group_ptr = NoGroup]
           ELSE groups[i]]
    BY <1>1
  <2> HIDE DEF inmem
  <2>2. ASSUME NEW i \in DOMAIN groups
        PROVE  groups'[i] \in Entry /\ EntryGood(groups'[i], i, files, last_id)
    <3>1. groups[i] \in Entry /\ EntryGood(groups[i], i, files, last_id)
      BY DEF IndInv, GroupsGood, Partial
    <3>2. [groups[i] EXCEPT !.group_ptr = NoGroup] \in Entry
          /\ EntryGood([groups[i] EXCEPT !.group_ptr = NoGroup], i, files, last_id)
      BY <3>1 DEF Entry, EntryGood
    <3> QED
      BY <2>1, <3>1, <3>2
  <2> QED
    BY <2>1, <2>2 DEF IndInv, GroupsGood, Partial
<1>7. total_consumed' \in [Instances -> Nat]
  <2>1. \A i \in inmem : Size(groups[i].group_ptr) \in Nat
    <3>1. ASSUME NEW i \in inmem
          PROVE  groups[i].group_ptr.trajectories \in Seq(Uids)
      BY <1>5 DEF InMemory, Entry, Group
    <3> QED
      BY <3>1 DEF Size
  <2>2. \A i \in Instances : total_consumed[i] \in Nat
    BY DEF IndInv, CountersOK
  <2> QED
    BY <1>1, <2>1, <2>2
<1>8. disk_usage_bytes' \in [Instances -> Int]
  <2>1. \A i \in ids : groups[i].cached_bytes \in Nat
    BY <1>5 DEF Entry
  <2>2. \A i \in Instances : disk_usage_bytes[i] \in Int
    BY DEF IndInv, CountersOK
  <2> QED
    BY <1>1, <2>1, <2>2
<1>9. UNCHANGED <<dedup_filter, config, total_trajectories, disk, crashed, hist>>
  BY DEF ReadScan
<1> QED
  BY <1>4, <1>6, <1>7, <1>8, <1>9
     DEF IndInv, CountersOK, SettingsOK, disk, hist

(* What a read that waits in load_batch has captured.  *)
LEMMA LoadShape ==
    ASSUME IndInv, NEW t \in Tasks, ops[t].kind = "load"
    PROVE  /\ ops[t] = LoadOp(ops[t].ids, ops[t].result, ops[t].offsets, ops[t].loaded)
           /\ ops[t].ids \in SUBSET Instances
           /\ ops[t].ids = DOMAIN ops[t].result \union DOMAIN ops[t].offsets
           /\ Partial(ops[t].result, Instances, Group)
           /\ Partial(ops[t].offsets, Instances, 1 .. last_id)
           /\ Partial(ops[t].loaded, DOMAIN ops[t].offsets, Group)
           /\ \A i \in DOMAIN ops[t].offsets : Leads(files, ops[t].offsets[i], i)
           /\ \A i \in DOMAIN ops[t].result : ReadyFor(ops[t].result[i], i)
           /\ \A i \in DOMAIN ops[t].loaded : ReadyFor(ops[t].loaded[i], i)
<1>1. OpOK(ops[t], last_id) /\ OpGood(ops[t], files)
  BY DEF IndInv, OpsGood
<1> QED
  BY <1>1 DEF OpOK, OpGood, Idle, SpillOp, LoadOp, UnlinkOp, ResetOp, BatchOp

(* What a read that removes files has captured.  *)
LEMMA UnlinkShape ==
    ASSUME IndInv, NEW t \in Tasks, ops[t].kind = "unlink"
    PROVE  /\ ops[t] = UnlinkOp(ops[t].ids, ops[t].result, ops[t].rest)
           /\ ops[t].ids \in SUBSET Instances
           /\ ops[t].result \in [ops[t].ids -> Group]
           /\ ops[t].rest \in SUBSET (1 .. last_id)
           /\ \A i \in DOMAIN ops[t].result : ReadyFor(ops[t].result[i], i)
<1>1. OpOK(ops[t], last_id) /\ OpGood(ops[t], files)
  BY DEF IndInv, OpsGood
<1> QED
  BY <1>1 DEF OpOK, OpGood, Idle, SpillOp, LoadOp, UnlinkOp, ResetOp, BatchOp

(* Loading a file keeps the invariant: what lies under the captured offset *)
(* is a complete group of that entry's instance.  (load_batch)             *)
LEMMA ReadLoadInv ==
    ASSUME IndInv, NEW t \in Tasks, NEW i \in Instances, ReadLoad(t, i)
    PROVE  IndInv'
<1> DEFINE op == ops[t]
           g == files[op.offsets[i]]
           loaded == Put(op.loaded, i, g)
           next == [op EXCEPT !.loaded = loaded]
<1>1. /\ op.kind = "load" /\ i \in DOMAIN op.offsets
      /\ op.offsets[i] \in DOMAIN files /\ ops' = [ops EXCEPT ![t] = next]
      /\ UNCHANGED <<groups, dedup_filter, config, stats, disk, crashed, hist>>
  BY DEF ReadLoad, Resumes, Pending
<1>2. g \in Group /\ ReadyFor(g, i)
  <2>1. g \in Group /\ g.is_complete
    BY <1>1 DEF IndInv, FilesGood, Partial
  <2>2. Leads(files, op.offsets[i], i)
    BY <1>1, LoadShape
  <2> QED
    BY <1>1, <2>1, <2>2 DEF Leads, ReadyFor
<1> HIDE DEF g
<1>3. Partial(loaded, DOMAIN op.offsets, Group)
  BY <1>1, <1>2, LoadShape, PartialPut
<1>4. \A j \in DOMAIN loaded : ReadyFor(loaded[j], j)
  BY <1>1, <1>2, LoadShape DEF Put
<1>5. next = LoadOp(op.ids, op.result, op.offsets, loaded)
  <2>1. op = LoadOp(op.ids, op.result, op.offsets, op.loaded)
    BY <1>1, LoadShape
  <2> QED
    BY <2>1 DEF LoadOp
<1> HIDE DEF loaded, next
<1>6. OpOK(next, last_id) /\ OpGood(next, files)
  BY <1>1, <1>3, <1>4, <1>5, LoadShape DEF OpOK, OpGood, LoadOp
<1>7. OpsGood(ops', files, last_id)
  BY <1>1, <1>6, OpsGoesOn DEF IndInv
<1> QED
  BY <1>1, <1>7 DEF IndInv, CountersOK, SettingsOK, stats, disk, hist

(* Putting loaded groups into the result keeps the invariant: every id of  *)
(* the scan has its group, from memory or from its file.                   *)
(* (read_ready_groups)                                                     *)
LEMMA ReadMergeInv ==
    ASSUME IndInv, NEW t \in Tasks, ReadMerge(t)
    PROVE  IndInv'
<1> DEFINE op == ops[t]
           result == [i \in op.ids |-> IF i \in DOMAIN op.loaded THEN op.loaded[i]
                                       ELSE op.result[i]]
           rest == {op.offsets[i] : i \in DOMAIN op.offsets}
           next == UnlinkOp(op.ids, result, rest)
<1>1. /\ op.kind = "load" /\ DOMAIN op.loaded = DOMAIN op.offsets
      /\ total_consumed' = [i \in Instances |-> total_consumed[i]
            + IF i \in DOMAIN op.loaded THEN Size(op.loaded[i]) ELSE 0]
      /\ ops' = [ops EXCEPT ![t] = next]
      /\ UNCHANGED <<groups, dedup_filter, config, total_trajectories,
                     disk_usage_bytes, disk, crashed, hist>>
  BY DEF ReadMerge, Resumes, Pending
<1>2. /\ op.ids \in SUBSET Instances
      /\ op.ids = DOMAIN op.result \union DOMAIN op.offsets
      /\ Partial(op.result, Instances, Group)
      /\ Partial(op.offsets, Instances, 1 .. last_id)
      /\ Partial(op.loaded, DOMAIN op.offsets, Group)
      /\ \A i \in DOMAIN op.result : ReadyFor(op.result[i], i)
      /\ \A i \in DOMAIN op.loaded : ReadyFor(op.loaded[i], i)
  BY <1>1, LoadShape
<1>3. result \in [op.ids -> Group] /\ rest \in SUBSET (1 .. last_id)
  BY <1>1, <1>2 DEF Partial
<1>4. \A i \in DOMAIN result : ReadyFor(result[i], i)
  BY <1>1, <1>2
<1>5. total_consumed' \in [Instances -> Nat]
  <2>1. \A i \in DOMAIN op.loaded : Size(op.loaded[i]) \in Nat
    <3>1. ASSUME NEW i \in DOMAIN op.loaded
          PROVE  op.loaded[i].trajectories \in Seq(Uids)
      BY <1>2 DEF Partial, Group
    <3> QED
      BY <3>1 DEF Size
  <2>2. \A i \in Instances : total_consumed[i] \in Nat
    BY DEF IndInv, CountersOK
  <2> QED
    BY <1>1, <2>1, <2>2
<1> HIDE DEF result, rest
<1>6. OpOK(next, last_id) /\ OpGood(next, files)
  BY <1>2, <1>3, <1>4 DEF OpOK, OpGood, UnlinkOp
<1> HIDE DEF next
<1>7. OpsGood(ops', files, last_id)
  BY <1>1, <1>6, OpsGoesOn DEF IndInv
<1> QED
  BY <1>1, <1>5, <1>7 DEF IndInv, CountersOK, SettingsOK, disk, hist

(* Removing a file that was read keeps the invariant.  (remove) *)
LEMMA ReadRemoveInv ==
    ASSUME IndInv, NEW t \in Tasks, NEW o, ReadRemove(t, o)
    PROVE  IndInv'
<1> DEFINE op == ops[t]
           fs == Drop(files, {o})
           next == [op EXCEPT !.rest = @ \ {o}]
<1>1. /\ op.kind = "unlink" /\ files' = fs /\ ops' = [ops EXCEPT ![t] = next]
      /\ UNCHANGED <<groups, dedup_filter, config, stats, last_id, unlinking, crashed, hist>>
  BY DEF ReadRemove, Resumes, Pending
<1>2. FilesGood(fs, last_id) /\ Keeps(files, fs, last_id)
  BY FilesDrop DEF IndInv
<1> HIDE DEF fs
<1>3. OpOK(next, last_id) /\ OpGood(next, fs)
  <2>1. next = UnlinkOp(op.ids, op.result, op.rest \ {o})
    <3>1. op = UnlinkOp(op.ids, op.result, op.rest)
      BY <1>1, UnlinkShape
    <3> QED
      BY <3>1 DEF UnlinkOp
  <2> HIDE DEF next
  <2> QED
    BY <1>1, <2>1, UnlinkShape DEF OpOK, OpGood, UnlinkOp
<1> HIDE DEF next
<1>4. last_id \in Nat /\ last_id <= last_id
  BY DEF IndInv
<1>5. OpsGood(ops', fs, last_id)
  BY <1>1, <1>2, <1>3, <1>4, OpsUpdate DEF IndInv
<1>6. GroupsGood(groups, fs, last_id)
  BY <1>2, <1>4, GroupsStable DEF IndInv
<1> QED
  BY <1>1, <1>2, <1>5, <1>6 DEF IndInv, CountersOK, SettingsOK, stats, hist

(* Erasing the entries that were read keeps the invariant.                 *)
(* (read_ready_groups)                                                     *)
LEMMA ReadEraseInv ==
    ASSUME IndInv, NEW t \in Tasks, ReadErase(t)
    PROVE  IndInv'
<1>1. /\ groups' = Drop(groups, ops[t].ids) /\ Returns(t)
      /\ UNCHANGED <<dedup_filter, config, stats, disk, crashed, stored, acked, gone,
                     read_failed>>
  BY DEF ReadErase
<1>2. GroupsGood(groups', files, last_id)
  BY <1>1, GroupsDrop DEF IndInv
<1>3. OpsGood(ops', files, last_id)
  BY <1>1, IdleGood, OpsGoesOn DEF IndInv, Returns, Pending
<1> QED
  BY <1>1, <1>2, <1>3 DEF IndInv, CountersOK, SettingsOK, stats, disk

-----------------------------------------------------------------------------
(* Management *)

(* What an entry stands for has a size.  (delete_instance) *)
LEMMA HoldsType ==
    ASSUME IndInv, NEW i \in DOMAIN groups
    PROVE  Holds(groups[i]) \in Nat
<1> DEFINE e == groups[i]
<1>1. e \in Entry
  BY DEF IndInv, GroupsGood, Partial
<1>2. ASSUME NEW g \in Group PROVE Size(g) \in Nat
  <2>1. g.trajectories \in Seq(Uids)
    BY DEF Group
  <2> QED
    BY <2>1 DEF Size
<1>3. \A o \in DOMAIN files : files[o] \in Group
  BY DEF IndInv, FilesGood, Partial
<1>4. e.group_ptr # NoGroup => e.group_ptr \in Group
  BY <1>1 DEF Entry
<1> HIDE DEF e
<1>5. Holds(e) \in Nat
  BY <1>2, <1>3, <1>4 DEF Holds
<1> QED
  BY <1>5 DEF e

(* Deleting an instance keeps the invariant.  (delete_instance) *)
LEMMA DeleteInv ==
    ASSUME IndInv, NEW i \in Instances, delete_instance(i)
    PROVE  IndInv'
<1>1. /\ i \in DOMAIN groups /\ groups' = Drop(groups, {i})
      /\ gone' = [gone EXCEPT ![i] = @ + Holds(groups[i])]
      /\ UNCHANGED <<dedup_filter, config, total_trajectories, total_consumed,
                     files, last_id, ops, crashed, stored, acked, read_failed>>
  BY DEF delete_instance
<1>2. unlinking' \in SUBSET (1 .. last_id)
  <2>1. IsOnDisk(groups[i]) => groups[i].disk_offset \in 1 .. last_id
    BY <1>1 DEF IndInv, GroupsGood, Partial, Entry, EntryGood, IsOnDisk
  <2> QED
    BY <2>1 DEF delete_instance, IndInv
<1>3. disk_usage_bytes' \in [Instances -> Int]
  <2>1. groups[i].cached_bytes \in Nat
    BY <1>1 DEF IndInv, GroupsGood, Partial, Entry
  <2>2. disk_usage_bytes \in [Instances -> Int]
    BY DEF IndInv, CountersOK
  <2> QED
    BY <2>1, <2>2 DEF delete_instance
<1>4. gone' \in [Instances -> Nat]
  <2>1. Holds(groups[i]) \in Nat
    BY <1>1, HoldsType
  <2> QED
    BY <1>1, <2>1 DEF IndInv, CountersOK
<1>5. GroupsGood(groups', files, last_id)
  BY <1>1, GroupsDrop DEF IndInv
<1> QED
  BY <1>1, <1>2, <1>3, <1>4, <1>5 DEF IndInv, CountersOK, SettingsOK

(* The removal that nobody waits for keeps the invariant.                  *)
(* (delete_instance)                                                       *)
LEMMA UnlinkInv ==
    ASSUME IndInv, NEW o, Unlink(o)
    PROVE  IndInv'
<1>1. /\ files' = files \/ files' = Drop(files, {o})
      /\ unlinking' = unlinking \ {o}
      /\ UNCHANGED <<groups, dedup_filter, config, stats, last_id, ops, crashed, hist>>
  BY DEF Unlink
<1>2. FilesGood(files', last_id) /\ Keeps(files, files', last_id)
  BY <1>1, FilesDrop DEF IndInv, Keeps
<1>3. last_id \in Nat /\ last_id <= last_id
  BY DEF IndInv
<1>4. GroupsGood(groups, files', last_id)
  BY <1>2, <1>3, GroupsStable DEF IndInv
<1>5. OpsGood(ops, files', last_id)
  BY <1>2, <1>3, OpsStable DEF IndInv
<1>6. unlinking' \in SUBSET (1 .. last_id)
  BY <1>1 DEF IndInv
<1> QED
  BY <1>1, <1>2, <1>4, <1>5, <1>6 DEF IndInv, CountersOK, SettingsOK, stats, hist

(* Clearing the shard keeps the invariant; the calls that are pending      *)
(* still go by offsets that lead to their own instances.  (reset)          *)
LEMMA ResetInv ==
    ASSUME IndInv, NEW t \in Tasks, reset(t)
    PROVE  IndInv'
<1> DEFINE offsets == {groups[i].disk_offset :
                          i \in {j \in DOMAIN groups : IsOnDisk(groups[j])}}
<1>1. /\ groups' = [i \in {} |-> NewEntry] /\ dedup_filter' = {}
      /\ total_trajectories' = Zero /\ total_consumed' = Zero
      /\ disk_usage_bytes' = Zero /\ gone' = Zero
      /\ ops' = ops \/ ops' = [ops EXCEPT ![t] = ResetOp(offsets, FALSE)]
      /\ UNCHANGED <<config, disk, crashed, stored, acked, read_failed>>
  BY DEF reset, Pending
<1>2. GroupsGood(groups', files, last_id)
  BY <1>1 DEF GroupsGood, Partial
<1>3. Zero \in [Instances -> Nat] /\ Zero \in [Instances -> Int]
  BY DEF Zero
<1>4. offsets \in SUBSET (1 .. last_id)
  <2>1. \A i \in DOMAIN groups : IsOnDisk(groups[i]) =>
            groups[i].disk_offset \in 1 .. last_id
    BY DEF IndInv, GroupsGood, Partial, Entry, EntryGood, IsOnDisk
  <2> QED
    BY <2>1
<1> HIDE DEF offsets
<1>5. OpOK(ResetOp(offsets, FALSE), last_id) /\ OpGood(ResetOp(offsets, FALSE), files)
  BY <1>4 DEF OpOK, OpGood, ResetOp
<1>6. OpsGood(ops', files, last_id)
  <2>1. CASE ops' = ops
    BY <2>1 DEF IndInv
  <2>2. CASE ops' = [ops EXCEPT ![t] = ResetOp(offsets, FALSE)]
    BY <2>2, <1>5, OpsGoesOn DEF IndInv
  <2> QED
    BY <1>1, <2>1, <2>2
<1> QED
  BY <1>1, <1>2, <1>3, <1>6 DEF IndInv, CountersOK, SettingsOK, disk

(* A removal by a pending reset, of whatever file, keeps the invariant.    *)
(* (reset)                                                                 *)
LEMMA ResetRemoveInv ==
    ASSUME IndInv, NEW t \in Tasks, ResetRemove(t)
    PROVE  IndInv'
<1>1. ops[t].kind = "reset"
      /\ UNCHANGED <<groups, dedup_filter, config, stats, last_id, unlinking, crashed, hist>>
  BY DEF ResetRemove, Resumes
<1>2. PICK r \in ops[t].rest :
        /\ \E o : files' = Drop(files, {o})
        /\ Pending(t, IF ops[t].rest = {r} THEN Idle
                      ELSE ResetOp(ops[t].rest \ {r}, TRUE))
  BY DEF ResetRemove
<1> DEFINE next == IF ops[t].rest = {r} THEN Idle ELSE ResetOp(ops[t].rest \ {r}, TRUE)
<1>3. FilesGood(files', last_id) /\ Keeps(files, files', last_id)
  BY <1>2, FilesDrop DEF IndInv
<1>4. last_id \in Nat /\ last_id <= last_id
  BY DEF IndInv
<1>5. OpOK(next, last_id) /\ OpGood(next, files')
  <2>1. ops[t].rest \in SUBSET (1 .. last_id)
    <3>1. OpOK(ops[t], last_id)
      BY DEF IndInv, OpsGood
    <3> QED
      BY <1>1, <3>1 DEF OpOK, Idle, SpillOp, LoadOp, UnlinkOp, ResetOp, BatchOp
  <2>2. OpOK(ResetOp(ops[t].rest \ {r}, TRUE), last_id)
        /\ OpGood(ResetOp(ops[t].rest \ {r}, TRUE), files')
    BY <2>1 DEF OpOK, OpGood, ResetOp
  <2> QED
    BY <2>2, IdleGood
<1>6. ops' = [ops EXCEPT ![t] = next]
  BY <1>2 DEF Pending
<1> HIDE DEF next
<1>7. OpsGood(ops', files', last_id)
  BY <1>3, <1>4, <1>5, <1>6, OpsUpdate DEF IndInv
<1>8. GroupsGood(groups, files', last_id)
  BY <1>3, <1>4, GroupsStable DEF IndInv
<1> QED
  BY <1>1, <1>3, <1>7, <1>8 DEF IndInv, CountersOK, SettingsOK, stats, hist

(* Completing old groups keeps the invariant: only groups in memory are    *)
(* touched.  (check_group_timeouts)                                        *)
LEMMA TimeoutsInv ==
    ASSUME IndInv, check_group_timeouts
    PROVE  IndInv'
<1>1. PICK old \in SUBSET (DOMAIN groups \ Ready) :
        groups' = [i \in DOMAIN groups |->
            IF i \in old THEN [groups[i] EXCEPT !.group_ptr.is_complete = TRUE]
            ELSE groups[i]]
  BY DEF check_group_timeouts
<1>2. UNCHANGED <<dedup_filter, config, stats, disk, ops, crashed, hist>>
  BY DEF check_group_timeouts
<1>3. ASSUME NEW i \in DOMAIN groups
      PROVE  groups'[i] \in Entry /\ EntryGood(groups'[i], i, files, last_id)
  <2>1. groups[i] \in Entry /\ EntryGood(groups[i], i, files, last_id)
    BY DEF IndInv, GroupsGood, Partial
  <2>2. CASE i \in old
    <3> DEFINE g == groups[i].group_ptr
               h == [g EXCEPT !.is_complete = TRUE]
    <3>1. g \in Group /\ g # NoGroup
      BY <2>1, <2>2 DEF Ready, IsComplete, Entry
    <3>2. groups'[i] = [groups[i] EXCEPT !.group_ptr = h]
      BY <1>1, <2>2
    <3> HIDE DEF g
    <3>3. h \in Group /\ h.instance_id = g.instance_id
      BY <3>1 DEF Group
    <3> HIDE DEF h
    <3>4. groups'[i] \in Entry
      BY <2>1, <3>2, <3>3 DEF Entry
    <3>5. EntryGood(groups'[i], i, files, last_id)
      BY <2>1, <3>1, <3>2, <3>3 DEF EntryGood, Entry, g
    <3> QED
      BY <3>4, <3>5
  <2>3. CASE i \notin old
    BY <1>1, <2>1, <2>3
  <2> QED
    BY <2>2, <2>3
<1>4. GroupsGood(groups', files, last_id)
  BY <1>1, <1>3 DEF IndInv, GroupsGood, Partial
<1> QED
  BY <1>2, <1>4 DEF IndInv, CountersOK, SettingsOK, stats, disk, hist

(* Changing the configuration keeps the invariant.  (update_config) *)
LEMMA ConfigInv ==
    ASSUME IndInv, NEW size \in GroupSizes, NEW dedup \in DedupModes,
           UpdateConfig(size, dedup)
    PROVE  IndInv'
<1>1. config' \in [group_size : GroupSizes, uid_dedup : DedupModes]
  BY DEF UpdateConfig
<1> QED
  BY <1>1 DEF UpdateConfig, IndInv, CountersOK, SettingsOK, stats, disk, hist

-----------------------------------------------------------------------------
(* The theorems *)

(* A step keeps the invariant, one operation at a time.  (Next) *)
LEMMA NextInv ==
    ASSUME IndInv, Next
    PROVE  IndInv'
<1>1. CASE Managing
  BY <1>1, ResetInv, DeleteInv, TimeoutsInv, ConfigInv DEF Managing
<1>2. ASSUME NEW t \in Tasks, Writing(t) PROVE IndInv'
  BY <1>2, WriteInv, BatchInv DEF Writing
<1>3. ASSUME NEW t \in Tasks, NEW max, ReadNull(t, max) PROVE IndInv'
  BY <1>3 DEF ReadNull, IndInv, CountersOK, SettingsOK, stats, disk, hist
<1>4. ASSUME NEW t \in Tasks, Reading(t) PROVE IndInv'
  BY <1>3, <1>4, ReadScanInv DEF Reading
<1>5. ASSUME NEW t \in Tasks, Continue(t) PROVE IndInv'
  <2>1. ASSUME NEW i \in Instances, NEW u \in Uids, Write(t, i, u) PROVE IndInv'
    BY <2>1, WriteInv
  <2>2. ASSUME NEW k \in Instances, SpillFile(t, k) PROVE IndInv'
    BY <2>2, SpillFileInv
  <2>3. CASE SpillFails(t)
    BY <2>3, ReturnsInv DEF SpillFails, hist, IndInv, SettingsOK
  <2>4. CASE SpillDone(t)
    BY <2>4, SpillDoneInv
  <2>5. ASSUME NEW i \in Instances, ReadLoad(t, i) PROVE IndInv'
    BY <2>5, ReadLoadInv
  <2>6. ASSUME NEW i \in Instances, ReadLoadFails(t, i) PROVE IndInv'
    BY <2>6, ReturnsInv DEF ReadLoadFails, ReadFails
  <2>7. CASE ReadMerge(t)
    BY <2>7, ReadMergeInv
  <2>8. ASSUME NEW o \in 1 .. last_id, ReadRemove(t, o) PROVE IndInv'
    BY <2>8, ReadRemoveInv
  <2>9. ASSUME NEW o \in 1 .. last_id, ReadRemoveFails(t, o) PROVE IndInv'
    BY <2>9, ReturnsInv DEF ReadRemoveFails, ReadFails
  <2>10. CASE ReadErase(t)
    BY <2>10, ReadEraseInv
  <2>11. CASE ResetRemove(t)
    BY <2>11, ResetRemoveInv
  <2>12. CASE ResetFails(t)
    BY <2>12, ReturnsInv DEF ResetFails, hist, IndInv, SettingsOK
  <2> QED
    BY <1>5, <2>1, <2>2, <2>3, <2>4, <2>5, <2>6, <2>7, <2>8, <2>9, <2>10, <2>11,
       <2>12 DEF Continue
<1>6. CASE Unlinking
  BY <1>6, UnlinkInv DEF Unlinking
<1> QED
  BY <1>1, <1>2, <1>4, <1>5, <1>6 DEF Next, Request

(* IndInv holds of every behaviour of a shard, whatever calls interleave.  *)
THEOREM Inductive == Spec => []IndInv
<1>1. IndInv /\ UNCHANGED vars => IndInv'
  BY DEF IndInv, CountersOK, SettingsOK, vars, stats, disk, hist
<1>2. IndInv /\ [Next]_vars => IndInv'
  BY <1>1, NextInv
<1> QED
  BY InitInv, <1>2, PTL DEF Spec

(* In every behaviour of a shard, for any number of pending calls, every   *)
(* variable has its type and no id is ahead of the latest one.             *)
THEOREM Types == Spec => []TypeOK
<1>1. IndInv => TypeOK
  BY DEF IndInv, GroupsGood, EntryGood, FilesGood, OpsGood, CountersOK, SettingsOK,
         TypeOK
<1> QED
  BY Inductive, <1>1, PTL

(* However calls interleave, an entry never owns a group in memory and a   *)
(* disk offset at once (GroupEntry::is_on_disk).                           *)
THEOREM Exclusive == Spec => []EntryExclusive
<1>1. IndInv => EntryExclusive
  BY DEF IndInv, GroupsGood, EntryGood, EntryExclusive
<1> QED
  BY Inductive, <1>1, PTL

(* However calls interleave, the offsets that entries, spills and reads go *)
(* by never lead to a group of another instance (try_spill_groups and      *)
(* read_ready_groups pair keys with offsets by position).                  *)
THEOREM Offsets == Spec => []OffsetsMatch
<1>1. IndInv => OffsetsMatch
  BY DEF IndInv, GroupsGood, EntryGood, OpsGood, OpGood, OffsetsMatch
<1> QED
  BY Inductive, <1>1, PTL

(* However calls interleave, what a read holds and what lies on disk is    *)
(* complete, and a read files each group under its own instance            *)
(* (read_ready_groups).                                                    *)
THEOREM Readiness == Spec => []ReadersGetReady
<1>1. IndInv => ReadersGetReady
  BY DEF IndInv, FilesGood, OpsGood, OpGood, ReadersGetReady
<1> QED
  BY Inductive, <1>1, PTL

-----------------------------------------------------------------------------
(* What the process dies of *)

\* a read that holds the group of key i, and will erase the key if it succeeds
HasTaken(op, i) ==
    op.kind \in {"load", "unlink"} /\ i \in op.ids /\ i \in DOMAIN op.result

Ghosts(gs) == {i \in DOMAIN gs : IsGhost(gs[i])}

\* an entry with neither group nor offset is a pending read's, while none that
\* held groups has failed
GhostsTaken ==
    read_failed \/ \A i \in Ghosts(groups) : \E t \in Tasks : HasTaken(ops[t], i)

(* Ghosts stay taken as long as there are no new ones and no read lets go  *)
(* of what it holds of them.                                               *)
LEMMA GhostsStay ==
    ASSUME GhostsTaken, ~read_failed, Ghosts(groups') \subseteq Ghosts(groups),
           \A t \in Tasks : \A i \in Ghosts(groups') :
              HasTaken(ops[t], i) => HasTaken(ops'[t], i)
    PROVE  GhostsTaken'
BY DEF GhostsTaken

(* The steps of calls that are no reads release nothing.  *)
LEMMA OthersRelease ==
    ASSUME IndInv, NEW t \in Tasks, NEW op, ops' = [ops EXCEPT ![t] = op],
           ops[t].kind \notin {"load", "unlink"}
    PROVE  \A s \in Tasks, i \in Instances : HasTaken(ops[s], i) => HasTaken(ops'[s], i)
BY DEF HasTaken, IndInv, OpsGood

(* Nor does a read that keeps its keys and its groups, or more.  *)
LEMMA ReadKeeps ==
    ASSUME IndInv, NEW t \in Tasks, NEW op, ops' = [ops EXCEPT ![t] = op],
           op.kind \in {"load", "unlink"},
           op.ids = ops[t].ids, DOMAIN ops[t].result \subseteq DOMAIN op.result
    PROVE  \A s \in Tasks, i \in Instances : HasTaken(ops[s], i) => HasTaken(ops'[s], i)
BY DEF HasTaken, IndInv, OpsGood

(* Keys are instances.  *)
LEMMA GhostKeys ==
    ASSUME IndInv
    PROVE  Ghosts(groups) \subseteq Instances
BY DEF IndInv, GroupsGood, Partial, Ghosts

(* A step that leaves the entries alone and releases nothing.  *)
LEMMA GhostsAlone ==
    ASSUME IndInv, GhostsTaken, ~read_failed, groups' = groups,
           \A s \in Tasks, i \in Instances : HasTaken(ops[s], i) => HasTaken(ops'[s], i)
    PROVE  GhostsTaken'
<1>1. Ghosts(groups') = Ghosts(groups)
  BY DEF Ghosts, IsGhost
<1> QED
  BY <1>1, GhostKeys, GhostsStay

(* The entry that a write leaves has a group.  (write) *)
LEMMA StoresGhosts ==
    ASSUME IndInv, NEW t \in Tasks, NEW i \in Instances, NEW u \in Uids,
           Stores(t, i, u)
    PROVE  Ghosts(groups') \subseteq Ghosts(groups)
<1>1. groups' = Put(groups, i, Appended(i, u)) /\ ~IsOnDisk(EntryOf(i))
  BY DEF Stores
<1>2. Appended(i, u).group_ptr # NoGroup
  <2> DEFINE g == IF EntryOf(i).group_ptr # NoGroup THEN EntryOf(i).group_ptr
                  ELSE [instance_id |-> i, trajectories |-> <<>>,
                        group_size |-> config.group_size, is_complete |-> FALSE]
             more == Append(g.trajectories, u)
             h == [g EXCEPT !.trajectories = more,
                            !.is_complete = @ \/ Len(more) >= g.group_size]
  <2>1. g \in Group
    <3>1. CASE EntryOf(i).group_ptr # NoGroup
      <4>1. i \in DOMAIN groups
        BY <3>1 DEF EntryOf, NewEntry
      <4> QED
        BY <3>1, <4>1 DEF EntryOf, IndInv, GroupsGood, Partial, Entry
    <3>2. CASE EntryOf(i).group_ptr = NoGroup
      <4>1. config.group_size \in Nat
        BY ConfigAssumption DEF IndInv, SettingsOK
      <4> QED
        BY <3>2, <4>1 DEF Group
    <3> QED
      BY <3>1, <3>2
  <2>2. Appended(i, u) = [EntryOf(i) EXCEPT !.group_ptr = h]
    BY DEF Appended
  <2> HIDE DEF g
  <2>3. more \in Seq(Uids)
    BY <2>1 DEF Group
  <2> HIDE DEF more
  <2>4. h \in Group
    BY <2>1, <2>3 DEF Group
  <2> HIDE DEF h
  <2>5. EntryOf(i) \in Entry
    BY DEF EntryOf, NewEntry, Entry, IndInv, GroupsGood, Partial
  <2> QED
    BY <2>2, <2>4, <2>5, NoGroupAssumption DEF Entry
<1> QED
  BY <1>1, <1>2 DEF Ghosts, IsGhost, Put

(* Writing leaves no ghost.  (write, batch_write) *)
LEMMA WriteGhosts ==
    ASSUME IndInv, GhostsTaken, ~read_failed, NEW t \in Tasks, NEW i \in Instances,
           NEW u \in Uids, Write(t, i, u)
    PROVE  GhostsTaken'
<1>1. ops[t].kind \notin {"load", "unlink"}
  BY DEF Write, WriteDuplicate, WriteOnDisk, WriteInMemory, WriteSpills, WriteAborts,
         Stores, Writes, Starts, Resumes, Idle
<1>2. (\E op : ops' = [ops EXCEPT ![t] = op]) \/ ops' = ops
  BY DEF Write, WriteDuplicate, WriteOnDisk, WriteInMemory, WriteSpills, WriteAborts,
         Pending
<1>3. \A s \in Tasks, k \in Instances : HasTaken(ops[s], k) => HasTaken(ops'[s], k)
  BY <1>1, <1>2, OthersRelease
<1>4. groups' = groups \/ Stores(t, i, u)
  BY DEF Write, WriteDuplicate, WriteOnDisk, WriteInMemory, WriteSpills, WriteAborts
<1>5. CASE Stores(t, i, u)
  BY <1>3, <1>5, StoresGhosts, GhostKeys, GhostsStay
<1> QED
  BY <1>3, <1>4, <1>5, GhostsAlone

(* Entries that are spilled get an offset.  (try_spill_groups) *)
LEMMA SpillDoneGhosts ==
    ASSUME IndInv, GhostsTaken, ~read_failed, NEW t \in Tasks, SpillDone(t)
    PROVE  GhostsTaken'
<1>1. /\ ops[t].kind = "spill" /\ ops' = [ops EXCEPT ![t] = Idle]
      /\ groups' = [i \in DOMAIN groups |->
            IF i \in DOMAIN ops[t].offs \intersect DOMAIN groups THEN Spilled(t, i)
            ELSE groups[i]]
  BY DEF SpillDone, Resumes, Returns, Pending
<1>2. \A i \in DOMAIN ops[t].offs : ops[t].offs[i] \in 1 .. last_id
  BY <1>1, SpillShape DEF Partial
<1>3. Ghosts(groups') \subseteq Ghosts(groups)
  BY <1>1, <1>2 DEF Ghosts, IsGhost, Spilled
<1> QED
  BY <1>1, <1>3, OthersRelease, GhostKeys, GhostsStay

(* A scan makes ghosts of the entries whose groups it takes.               *)
(* (read_ready_groups)                                                     *)
LEMMA ReadScanGhosts ==
    ASSUME IndInv, GhostsTaken, ~read_failed, NEW t \in Tasks, NEW max,
           ReadScan(t, max)
    PROVE  GhostsTaken'
<1>1. PICK ids \in Scans(max) \ {{}} :
        LET inmem == ids \intersect InMemory(groups)
        IN  /\ groups' = [i \in DOMAIN groups |->
                 IF i \in inmem THEN [groups[i] EXCEPT !.group_ptr = NoGroup]
                 ELSE groups[i]]
            /\ ops' = [ops EXCEPT ![t] =
                 LoadOp(ids, [i \in inmem |-> groups[i].group_ptr],
                        [i \in ids \ inmem |-> groups[i].disk_offset],
                        [i \in {} |-> NoGroup])]
  BY DEF ReadScan, Pending
<1>2. ops[t].kind \notin {"load", "unlink"} /\ DOMAIN ops = Tasks
  BY DEF ReadScan, Starts, Idle, IndInv, OpsGood
<1>3. \A s \in Tasks, i \in Instances : HasTaken(ops[s], i) => HasTaken(ops'[s], i)
  BY <1>1, <1>2, OthersRelease
<1>4. ASSUME NEW i \in Ghosts(groups')
      PROVE  \E s \in Tasks : HasTaken(ops'[s], i)
  <2>1. CASE i \in ids \intersect InMemory(groups)
    <3>1. HasTaken(ops'[t], i)
      BY <1>1, <1>2, <2>1 DEF HasTaken, LoadOp
    <3> QED
      BY <3>1
  <2>2. CASE i \notin ids \intersect InMemory(groups)
    <3>1. i \in Ghosts(groups)
      BY <1>1, <1>4, <2>2 DEF Ghosts, IsGhost
    <3> QED
      BY <1>3, <3>1, GhostKeys DEF GhostsTaken
  <2> QED
    BY <2>1, <2>2
<1> QED
  BY <1>4 DEF GhostsTaken

(* A read that fails without groups has nothing to release; with groups,   *)
(* it is remembered.  (read_ready_groups)                                  *)
LEMMA ReadFailsGhosts ==
    ASSUME IndInv, GhostsTaken, ~read_failed, NEW t \in Tasks,
           ops[t].kind \in {"load", "unlink"}, ReadFails(t)
    PROVE  GhostsTaken'
<1>1. /\ ops' = [ops EXCEPT ![t] = Idle] /\ groups' = groups
      /\ DOMAIN ops[t].result # {} => read_failed'
  BY DEF ReadFails, Returns, Pending
<1>2. CASE DOMAIN ops[t].result = {}
  <2>1. \A s \in Tasks, i \in Instances : HasTaken(ops[s], i) => HasTaken(ops'[s], i)
    BY <1>1, <1>2 DEF HasTaken, IndInv, OpsGood
  <2> QED
    BY <1>1, <2>1, GhostsAlone
<1> QED
  BY <1>1, <1>2 DEF GhostsTaken

(* Loading, merging and removing files keep what a read holds.             *)
(* (read_ready_groups)                                                     *)
LEMMA ReadGoesOnGhosts ==
    ASSUME IndInv, GhostsTaken, ~read_failed, NEW t \in Tasks,
           \/ \E i \in Instances : ReadLoad(t, i)
           \/ ReadMerge(t)
           \/ \E o \in 1 .. last_id : ReadRemove(t, o)
    PROVE  GhostsTaken'
<1>1. groups' = groups
  BY DEF ReadLoad, ReadMerge, ReadRemove
<1> DEFINE Kept == \A s \in Tasks, i \in Instances :
                     HasTaken(ops[s], i) => HasTaken(ops'[s], i)
<1>2. ASSUME NEW i \in Instances, ReadLoad(t, i) PROVE Kept
  <2> DEFINE more == Put(ops[t].loaded, i, files[ops[t].offsets[i]])
             new == [ops[t] EXCEPT !.loaded = more]
  <2>1. ops' = [ops EXCEPT ![t] = new] /\ ops[t].kind = "load"
    BY <1>2 DEF ReadLoad, Resumes, Pending
  <2>2. ops[t] = LoadOp(ops[t].ids, ops[t].result, ops[t].offsets, ops[t].loaded)
    BY <2>1, LoadShape
  <2> HIDE DEF more
  <2>3. new.kind = "load" /\ new.ids = ops[t].ids /\ new.result = ops[t].result
    BY <2>2 DEF LoadOp
  <2> HIDE DEF new
  <2> QED
    BY <2>1, <2>3, ReadKeeps
<1>3. ASSUME ReadMerge(t) PROVE Kept
  <2> DEFINE merged == [i \in ops[t].ids |-> IF i \in DOMAIN ops[t].loaded
                           THEN ops[t].loaded[i] ELSE ops[t].result[i]]
             offsets == {ops[t].offsets[i] : i \in DOMAIN ops[t].offsets}
             new == UnlinkOp(ops[t].ids, merged, offsets)
  <2>1. ops' = [ops EXCEPT ![t] = new] /\ ops[t].kind = "load"
    BY <1>3 DEF ReadMerge, Resumes, Pending
  <2>2. DOMAIN ops[t].result \subseteq ops[t].ids
    BY <2>1, LoadShape
  <2>3. DOMAIN merged = ops[t].ids
    OBVIOUS
  <2> HIDE DEF merged, offsets
  <2>4. new.kind = "unlink" /\ new.ids = ops[t].ids /\ new.result = merged
    BY DEF UnlinkOp
  <2> HIDE DEF new
  <2> QED
    BY <2>1, <2>2, <2>3, <2>4, ReadKeeps
<1>4. ASSUME NEW o \in 1 .. last_id, ReadRemove(t, o) PROVE Kept
  <2> DEFINE rest == ops[t].rest \ {o}
             new == [ops[t] EXCEPT !.rest = rest]
  <2>1. ops' = [ops EXCEPT ![t] = new] /\ ops[t].kind = "unlink"
    BY <1>4 DEF ReadRemove, Resumes, Pending
  <2>2. ops[t] = UnlinkOp(ops[t].ids, ops[t].result, ops[t].rest)
    BY <2>1, UnlinkShape
  <2> HIDE DEF rest
  <2>3. new.kind = "unlink" /\ new.ids = ops[t].ids /\ new.result = ops[t].result
    BY <2>2 DEF UnlinkOp
  <2> HIDE DEF new
  <2> QED
    BY <2>1, <2>3, ReadKeeps
<1> QED
  BY <1>1, <1>2, <1>3, <1>4, GhostsAlone

(* A read that succeeds erases its ghosts.  (read_ready_groups) *)
LEMMA ReadEraseGhosts ==
    ASSUME IndInv, GhostsTaken, ~read_failed, NEW t \in Tasks, ReadErase(t)
    PROVE  GhostsTaken'
<1>1. groups' = Drop(groups, ops[t].ids) /\ ops' = [ops EXCEPT ![t] = Idle]
  BY DEF ReadErase, Returns, Pending
<1>2. /\ Ghosts(groups') \subseteq Ghosts(groups)
      /\ \A i \in Ghosts(groups') : i \notin ops[t].ids
  BY <1>1 DEF Ghosts, IsGhost, Drop
<1>3. \A s \in Tasks : \A i \in Ghosts(groups') :
        HasTaken(ops[s], i) => HasTaken(ops'[s], i)
  BY <1>1, <1>2 DEF HasTaken, IndInv, OpsGood
<1> QED
  BY <1>2, <1>3, GhostsStay

(* A timeout completes groups that are there.  (check_group_timeouts) *)
LEMMA TimeoutsGhosts ==
    ASSUME IndInv, GhostsTaken, ~read_failed, check_group_timeouts
    PROVE  GhostsTaken'
<1>1. PICK old \in SUBSET (DOMAIN groups \ Ready) :
        groups' = [i \in DOMAIN groups |->
            IF i \in old THEN [groups[i] EXCEPT !.group_ptr.is_complete = TRUE]
            ELSE groups[i]]
  BY DEF check_group_timeouts
<1>2. ops' = ops
  BY DEF check_group_timeouts
<1>3. ASSUME NEW i \in old
      PROVE  groups'[i].group_ptr # NoGroup
  <2> DEFINE g == groups[i].group_ptr
             h == [g EXCEPT !.is_complete = TRUE]
  <2>1. groups[i] \in Entry /\ g \in Group
    BY <1>3 DEF Ready, IsComplete, Entry, IndInv, GroupsGood, Partial
  <2>2. groups'[i] = [groups[i] EXCEPT !.group_ptr = h]
    BY <1>1
  <2> HIDE DEF g
  <2>3. h \in Group
    BY <2>1 DEF Group
  <2> HIDE DEF h
  <2> QED
    BY <2>1, <2>2, <2>3, NoGroupAssumption DEF Entry
<1>4. Ghosts(groups') \subseteq Ghosts(groups)
  BY <1>1, <1>3 DEF Ghosts, IsGhost
<1> QED
  BY <1>2, <1>4, GhostsStay

(* Every step keeps the ghosts taken, unless a read that holds groups      *)
(* fails.  (Next)                                                          *)
LEMMA GhostsNext ==
    ASSUME IndInv, GhostsTaken, ~read_failed, Next
    PROVE  GhostsTaken'
<1>1. ASSUME NEW t \in Tasks, reset(t) PROVE GhostsTaken'
  <2>1. Ghosts(groups') = {}
    BY <1>1 DEF reset, Ghosts
  <2> QED
    BY <2>1 DEF GhostsTaken
<1>2. ASSUME NEW i \in Instances, delete_instance(i) PROVE GhostsTaken'
  <2>1. ops' = ops /\ Ghosts(groups') \subseteq Ghosts(groups)
    BY <1>2 DEF delete_instance, Drop, Ghosts, IsGhost
  <2> QED
    BY <2>1, GhostsStay
<1>3. CASE Managing
  <2>1. ASSUME NEW size \in GroupSizes, NEW dedup \in DedupModes,
               UpdateConfig(size, dedup)
        PROVE  GhostsTaken'
    BY <2>1, GhostsAlone DEF UpdateConfig
  <2> QED
    BY <1>1, <1>2, <1>3, <2>1, TimeoutsGhosts DEF Managing
<1>4. ASSUME NEW t \in Tasks, Writing(t) PROVE GhostsTaken'
  <2>1. ASSUME NEW b \in Batches, batch_write(t, b) PROVE GhostsTaken'
    <3>1. /\ ops' = [ops EXCEPT ![t] = BatchOp(b)] /\ groups' = groups
          /\ ops[t].kind \notin {"load", "unlink"}
      BY <2>1 DEF batch_write, Starts, Pending, Idle
    <3> QED
      BY <3>1, OthersRelease, GhostsAlone
  <2> QED
    BY <1>4, <2>1, WriteGhosts DEF Writing
<1>5. ASSUME NEW t \in Tasks, Reading(t) PROVE GhostsTaken'
  <2>1. ASSUME NEW max, ReadNull(t, max) PROVE GhostsTaken'
    BY <2>1, GhostsAlone DEF ReadNull
  <2> QED
    BY <1>5, <2>1, ReadScanGhosts DEF Reading
<1>6. CASE Unlinking
  BY <1>6, GhostsAlone DEF Unlinking, Unlink
<1>7. ASSUME NEW t \in Tasks, Continue(t) PROVE GhostsTaken'
  <2>1. ASSUME NEW i \in Instances, NEW u \in Uids, Write(t, i, u) PROVE GhostsTaken'
    BY <2>1, WriteGhosts
  <2>2. ASSUME \/ \E k \in Instances : SpillFile(t, k)
               \/ SpillFails(t) \/ ResetRemove(t) \/ ResetFails(t)
        PROVE  GhostsTaken'
    <3>1. groups' = groups /\ ops[t].kind \notin {"load", "unlink"}
      BY <2>2 DEF SpillFile, SpillFails, ResetRemove, ResetFails, Resumes
    <3>2. \E op : ops' = [ops EXCEPT ![t] = op]
      BY <2>2 DEF SpillFile, SpillFails, ResetRemove, ResetFails, Returns, Pending
    <3> QED
      BY <3>1, <3>2, OthersRelease, GhostsAlone
  <2>3. CASE SpillDone(t)
    BY <2>3, SpillDoneGhosts
  <2>4. ASSUME \/ \E i \in Instances : ReadLoadFails(t, i)
               \/ \E o \in 1 .. last_id : ReadRemoveFails(t, o)
        PROVE  GhostsTaken'
    BY <2>4, ReadFailsGhosts DEF ReadLoadFails, ReadRemoveFails, Resumes
  <2>5. CASE ReadErase(t)
    BY <2>5, ReadEraseGhosts
  <2> QED
    BY <1>7, <2>1, <2>2, <2>3, <2>4, <2>5, ReadGoesOnGhosts DEF Continue
<1> QED
  BY <1>3, <1>4, <1>5, <1>6, <1>7 DEF Next, Request

(* A process that is alive dies where CrashCauses says.  (Next) *)
LEMMA CrashStep ==
    ASSUME IndInv, GhostsTaken, ~crashed, ~read_failed, Next
    PROVE  CrashCauses'
<1>1. ASSUME NEW t \in Tasks, NEW i \in Instances, NEW u \in Uids, Write(t, i, u)
      PROVE  crashed' => ops'[t].kind = "batch"
  <2>1. CASE WriteAborts(t, i, u)
    BY <2>1 DEF WriteAborts, Stores, Writes, Starts, Resumes
  <2>2. CASE ~WriteAborts(t, i, u)
    BY <1>1, <2>2 DEF Write, WriteDuplicate, WriteOnDisk, WriteInMemory, WriteSpills
  <2> QED
    BY <2>1, <2>2
<1>2. ASSUME NEW t \in Tasks, NEW max, ReadNull(t, max)
      PROVE  \E s \in Tasks : ops'[s].kind \in {"load", "unlink"}
  <2>1. ops' = ops /\ \E i \in DOMAIN groups : IsGhost(groups[i])
    BY <1>2 DEF ReadNull, Scans, Ready
  <2> QED
    BY <2>1 DEF GhostsTaken, Ghosts, HasTaken
<1>3. ASSUME crashed'
      PROVE  \/ \E t \in Tasks, i \in Instances, u \in Uids : Write(t, i, u)
             \/ \E t \in Tasks, max \in MaxGroupsArgs : ReadNull(t, max)
  <2>1. CASE Managing
    BY <1>3, <2>1 DEF Managing, reset, delete_instance, check_group_timeouts, UpdateConfig
  <2>2. ASSUME NEW t \in Tasks, Writing(t)
        PROVE  \E i \in Instances, u \in Uids : Write(t, i, u)
    BY <1>3, <2>2 DEF Writing, batch_write
  <2>3. ASSUME NEW t \in Tasks, Reading(t)
        PROVE  \E max \in MaxGroupsArgs : ReadNull(t, max)
    BY <1>3, <2>3 DEF Reading, ReadScan
  <2>4. CASE Unlinking
    BY <1>3, <2>4 DEF Unlinking, Unlink
  <2>5. ASSUME NEW t \in Tasks, Continue(t)
        PROVE  \E i \in Instances, u \in Uids : Write(t, i, u)
    BY <1>3, <2>5 DEF Continue, SpillFile, SpillFails, SpillDone, ReadLoad,
       ReadLoadFails, ReadFails, ReadMerge, ReadRemove, ReadRemoveFails, ReadErase,
       ResetRemove, ResetFails
  <2> QED
    BY <2>1, <2>2, <2>3, <2>4, <2>5 DEF Next, Request
<1> QED
  BY <1>1, <1>2, <1>3 DEF CrashCauses

(* Once the process has died nothing happens.  *)
LEMMA DeadStops ==
    ASSUME crashed
    PROVE  ~Next
<1>1. ASSUME NEW t \in Tasks PROVE ~Starts(t) /\ ~Core(t) /\ ~CoreFree
  BY DEF Starts, Core, CoreFree
<1>2. ASSUME NEW t \in Tasks, NEW i \in Instances, NEW u \in Uids PROVE ~Write(t, i, u)
  BY <1>1 DEF Write, WriteDuplicate, WriteOnDisk, WriteInMemory, WriteSpills,
     WriteAborts, Stores, Writes, Resumes
<1>3. ~Managing
  BY <1>1 DEF Managing, reset, delete_instance, check_group_timeouts, UpdateConfig, CoreFree
<1>4. ASSUME NEW t \in Tasks PROVE ~Writing(t) /\ ~Reading(t)
  BY <1>1, <1>2 DEF Writing, Reading, batch_write, ReadScan, ReadNull
<1>5. ASSUME NEW t \in Tasks PROVE ~Continue(t)
  BY <1>1, <1>2 DEF Continue, SpillFile, SpillFails, SpillDone, ReadLoad,
     ReadLoadFails, ReadMerge, ReadRemove, ReadRemoveFails, ReadErase, ResetRemove,
     ResetFails, Resumes
<1>6. ~Unlinking
  BY DEF Unlinking, Unlink
<1> QED
  BY <1>3, <1>4, <1>5, <1>6 DEF Next, Request

(* A failed read stays failed.  *)
LEMMA FailedStays ==
    ASSUME read_failed, [Next]_vars
    PROVE  read_failed'
<1>1. CASE UNCHANGED vars
  BY <1>1 DEF vars, hist
<1>2. ASSUME NEW t \in Tasks, NEW i \in Instances, NEW u \in Uids, Write(t, i, u)
      PROVE  read_failed'
  BY <1>2 DEF Write, WriteDuplicate, WriteOnDisk, WriteInMemory, WriteSpills,
     WriteAborts, Stores, hist
<1>3. CASE Managing
  BY <1>3 DEF Managing, reset, delete_instance, check_group_timeouts, UpdateConfig, hist
<1>4. ASSUME NEW t \in Tasks, Writing(t) \/ Reading(t) PROVE read_failed'
  BY <1>2, <1>4 DEF Writing, Reading, batch_write, ReadScan, ReadNull, hist
<1>5. ASSUME NEW t \in Tasks, Continue(t) PROVE read_failed'
  BY <1>2, <1>5 DEF Continue, SpillFile, SpillFails, SpillDone, ReadLoad,
     ReadLoadFails, ReadFails, ReadMerge, ReadRemove, ReadRemoveFails, ReadErase,
     ResetRemove, ResetFails, hist
<1>6. CASE Unlinking
  BY <1>6 DEF Unlinking, Unlink, hist
<1> QED
  BY <1>1, <1>3, <1>4, <1>5, <1>6 DEF Next, Request

(* However calls interleave and whatever I/O fails, the process dies only  *)
(* in a batch_write that spills, or of a scan while a read is pending or   *)
(* after one has failed that held groups (batch_write, read_ready_groups). *)
THEOREM Crashes == Spec => []CrashCauses
<1>1. Init => GhostsTaken /\ CrashCauses
  BY DEF Init, GhostsTaken, Ghosts, CrashCauses
<1>2. IndInv /\ GhostsTaken /\ CrashCauses /\ [Next]_vars => (GhostsTaken /\ CrashCauses)'
  <2> SUFFICES ASSUME IndInv, GhostsTaken, CrashCauses, [Next]_vars
               PROVE  GhostsTaken' /\ CrashCauses'
    OBVIOUS
  <2>1. CASE read_failed
    BY <2>1, FailedStays DEF GhostsTaken, CrashCauses
  <2>2. CASE UNCHANGED vars
    BY <2>2 DEF GhostsTaken, Ghosts, IsGhost, CrashCauses, vars, hist
  <2>3. CASE Next /\ ~read_failed
    BY <2>3, GhostsNext, CrashStep, DeadStops
  <2> QED
    BY <2>1, <2>2, <2>3
<1> QED
  BY Inductive, <1>1, <1>2, PTL DEF Spec

-----------------------------------------------------------------------------
(* The store *)

\* what an operation has loaded, each group with the offset it went by
PairsOf(op) ==
    IF op.kind # "load" THEN {}
    ELSE {<<op.offsets[i], op.loaded[i]>> : i \in DOMAIN op.loaded}

Loaded == [t \in Tasks |-> LoadedPairs(t)]

\* a step that the store does not see
StoreStutters == files' = files /\ last_id' = last_id /\ Loaded' = Loaded

(* An operation that is replaced by one that has loaded the same changes   *)
(* no answer.  (Pending)                                                   *)
LEMMA LoadedSame ==
    ASSUME IndInv, NEW t \in Tasks, NEW op, ops' = [ops EXCEPT ![t] = op]
    PROVE  /\ PairsOf(op) = PairsOf(ops[t]) => Loaded' = Loaded
           /\ \A p : PairsOf(op) = p => Loaded' = [Loaded EXCEPT ![t] = p]
<1>1. \A s \in Tasks : ops'[s] = IF s = t THEN op ELSE ops[s]
  BY DEF IndInv, OpsGood
<1>2. \A s \in Tasks : LoadedPairs(s)' = IF s = t THEN PairsOf(op) ELSE LoadedPairs(s)
  BY <1>1 DEF LoadedPairs, PairsOf
<1>3. Loaded' = [s \in Tasks |-> IF s = t THEN PairsOf(op) ELSE LoadedPairs(s)]
  BY <1>2 DEF Loaded
<1>4. LoadedPairs(t) = PairsOf(ops[t])
  BY DEF LoadedPairs, PairsOf
<1> QED
  BY <1>3, <1>4 DEF Loaded

(* A call that has loaded nothing, and goes on to one that has not either, *)
(* changes no answer.                                                      *)
LEMMA NothingLoaded ==
    ASSUME IndInv, NEW t \in Tasks, NEW op, ops' = [ops EXCEPT ![t] = op],
           ops[t].kind # "load",
           op.kind # "load" \/ op.loaded = [i \in {} |-> NoGroup]
    PROVE  Loaded' = Loaded
<1>1. PairsOf(op) = {} /\ PairsOf(ops[t]) = {}
  BY DEF PairsOf
<1> QED
  BY <1>1, LoadedSame

(* Where no call goes on, no answer changes.  *)
LEMMA OpsStay == ASSUME ops' = ops PROVE Loaded' = Loaded
BY DEF Loaded, LoadedPairs

(* Spilling a group keeps it under a fresh id.  (spill_batch) *)
LEMMA SpillFileKeeps ==
    ASSUME IndInv, NEW t \in Tasks, NEW k \in Instances, SpillFile(t, k)
    PROVE  \E id \in 1 .. last_id' : Disk!Keep(id)
<1>0. PICK id : id = last_id + 1
  OBVIOUS
<1> DEFINE op == [ops[t] EXCEPT !.offs = Put(@, k, id)]
           g == ops[t].snaps[k]
<1>1. /\ ops[t].kind = "spill" /\ k \in DOMAIN ops[t].snaps
      /\ last_id' = id /\ files' = Put(files, id, g) /\ ops' = [ops EXCEPT ![t] = op]
  BY <1>0 DEF SpillFile, Resumes, Pending
<1>2. g \in Group
  BY <1>1, SpillShape DEF Partial
<1>3. op.kind = "spill"
  <2>1. ops[t] = SpillOp(ops[t].uid, ops[t].snaps, ops[t].offs)
    BY <1>1, SpillShape
  <2> QED
    BY <2>1 DEF SpillOp
<1>4. last_id \in Nat /\ id \notin DOMAIN files
  BY <1>0 DEF IndInv, FilesGood, Partial
<1> HIDE DEF g, op
<1>5. Loaded' = Loaded
  BY <1>1, <1>3, NothingLoaded
<1>6. /\ id \notin 1 .. last_id /\ id \in 1 .. last_id'
      /\ 1 .. last_id' = (1 .. last_id) \union {id}
  BY <1>0, <1>1, <1>4
<1>7. /\ DOMAIN files' = DOMAIN files \union {id} /\ files'[id] = g
      /\ \A x \in DOMAIN files : files'[x] = files[x]
  BY <1>1, <1>4 DEF Put
<1>8. Disk!Keep(id)
  BY <1>2, <1>5, <1>6, <1>7 DEF Disk!Keep, Loaded
<1> QED
  BY <1>6, <1>8, Zenon

(* Loading a file adds what lies under the captured id.  (load_batch) *)
LEMMA ReadLoadLoads ==
    ASSUME IndInv, NEW t \in Tasks, NEW i \in Instances, ReadLoad(t, i)
    PROVE  \E id \in DOMAIN files : Disk!Load(t, id)
<1>0. PICK id : id = ops[t].offsets[i]
  OBVIOUS
<1> DEFINE loaded == Put(ops[t].loaded, i, files[id])
           op == [ops[t] EXCEPT !.loaded = loaded]
<1>1. /\ ops[t].kind = "load" /\ i \notin DOMAIN ops[t].loaded
      /\ id \in DOMAIN files /\ ops' = [ops EXCEPT ![t] = op]
      /\ UNCHANGED <<files, last_id>>
  BY <1>0 DEF ReadLoad, Resumes, Pending, disk
<1>2. op = LoadOp(ops[t].ids, ops[t].result, ops[t].offsets, loaded)
  <2>1. ops[t] = LoadOp(ops[t].ids, ops[t].result, ops[t].offsets, ops[t].loaded)
    BY <1>1, LoadShape
  <2> QED
    BY <2>1 DEF LoadOp
<1>3. /\ DOMAIN loaded = DOMAIN ops[t].loaded \union {i} /\ loaded[i] = files[id]
      /\ \A j \in DOMAIN ops[t].loaded : loaded[j] = ops[t].loaded[j]
  BY <1>1 DEF Put
<1> HIDE DEF loaded, op
<1>4. PairsOf(op) = {<<ops[t].offsets[j], loaded[j]>> : j \in DOMAIN loaded}
  BY <1>2 DEF PairsOf, LoadOp
<1>5. PairsOf(ops[t]) = {<<ops[t].offsets[j], ops[t].loaded[j]>> : j \in DOMAIN ops[t].loaded}
  BY <1>1 DEF PairsOf
<1>6. PairsOf(op) = PairsOf(ops[t]) \union {<<id, files[id]>>}
  BY <1>0, <1>3, <1>4, <1>5
<1>7. Loaded[t] = PairsOf(ops[t])
  BY DEF Loaded, LoadedPairs, PairsOf
<1>8. Loaded' = [Loaded EXCEPT ![t] = @ \union {<<id, files[id]>>}]
  BY <1>1, <1>6, <1>7, LoadedSame
<1>9. Disk!Load(t, id)
  BY <1>1, <1>8 DEF Disk!Load, Loaded
<1> QED
  BY <1>1, <1>9, Zenon

(* A read that has loaded all, or whose load fails, has had its answer.    *)
(* (read_ready_groups)                                                     *)
LEMMA LoadEnds ==
    ASSUME IndInv, NEW t \in Tasks, NEW op, ops' = [ops EXCEPT ![t] = op],
           op.kind # "load", UNCHANGED <<files, last_id>>
    PROVE  Disk!Answer(t)
<1>1. PairsOf(op) = {}
  BY DEF PairsOf
<1>2. Loaded' = [Loaded EXCEPT ![t] = {}]
  BY <1>1, LoadedSame
<1> QED
  BY <1>2 DEF Disk!Answer, Loaded

(* Removing a file takes its id from the store, and a removal that misses  *)
(* changes nothing.  (remove)                                              *)
LEMMA DropRemoves ==
    ASSUME IndInv, NEW o, files' = Drop(files, {o}), last_id' = last_id, Loaded' = Loaded
    PROVE  (\E id \in DOMAIN files : Disk!Remove(id)) \/ StoreStutters
<1>1. CASE o \in DOMAIN files
  <2>1. Disk!Remove(o)
    BY DEF Disk!Remove, Drop, Loaded
  <2> QED
    BY <1>1, <2>1, Zenon
<1>2. CASE o \notin DOMAIN files
  <2>1. Drop(files, {o}) = files
    BY <1>2 DEF Drop, IndInv, FilesGood, Partial
  <2> QED
    BY <2>1 DEF StoreStutters
<1> QED
  BY <1>1, <1>2

(* Steps of a call that loads nothing and touches no file.  *)
LEMMA GoesOn ==
    ASSUME IndInv, NEW t \in Tasks, NEW op, ops' = [ops EXCEPT ![t] = op],
           ops[t].kind # "load",
           op.kind # "load" \/ op.loaded = [i \in {} |-> NoGroup],
           UNCHANGED <<files, last_id>>
    PROVE  StoreStutters
BY NothingLoaded DEF StoreStutters

(* Every way a write can go is none of the store's business.  (write) *)
LEMMA WriteUnseen ==
    ASSUME IndInv, NEW t \in Tasks, NEW i \in Instances, NEW u \in Uids, Write(t, i, u)
    PROVE  StoreStutters
<1>1. ops[t].kind # "load" /\ Rest(t).kind # "load"
  BY DEF Write, WriteDuplicate, WriteOnDisk, WriteInMemory, WriteSpills, WriteAborts,
         Stores, Writes, Starts, Resumes, Idle, Rest, BatchOp
<1>2. UNCHANGED <<files, last_id>>
  BY DEF Write, WriteDuplicate, WriteOnDisk, WriteInMemory, WriteSpills, WriteAborts,
         Stores, disk
<1>3. CASE ops' = [ops EXCEPT ![t] = Rest(t)]
  BY <1>1, <1>2, <1>3, GoesOn
<1>4. CASE \E K : ops' = [ops EXCEPT ![t] = SpillOp(u, [k \in K |-> groups'[k].group_ptr],
                                                   [k \in {} |-> 0])]
  <2>0. \A snaps, offs : SpillOp(u, snaps, offs).kind = "spill"
    BY DEF SpillOp
  <2>1. PICK K : ops' = [ops EXCEPT ![t] = SpillOp(u, [k \in K |-> groups'[k].group_ptr],
                                                  [k \in {} |-> 0])]
    BY <1>4
  <2> DEFINE op == SpillOp(u, [k \in K |-> groups'[k].group_ptr], [k \in {} |-> 0])
  <2>2. op.kind = "spill"
    BY <2>0
  <2>3. ops' = [ops EXCEPT ![t] = op]
    BY <2>1
  <2> HIDE DEF op
  <2> QED
    BY <2>2, <2>3, <1>1, <1>2, GoesOn
<1>5. CASE ops' = ops
  BY <1>2, <1>5, OpsStay DEF StoreStutters
<1> QED
  BY <1>3, <1>4, <1>5
     DEF Write, WriteDuplicate, WriteOnDisk, WriteInMemory, WriteSpills, WriteAborts, Pending

(* Every continuation is a step of the store, or none.  *)
LEMMA ContinueStores ==
    ASSUME IndInv, NEW t \in Tasks, Continue(t)
    PROVE  Disk!Next \/ StoreStutters
<1>1. ASSUME NEW i \in Instances, NEW u \in Uids, Write(t, i, u) PROVE StoreStutters
  BY <1>1, WriteUnseen
<1>2. ASSUME NEW k \in Instances, SpillFile(t, k) PROVE Disk!Next
  <2>1. \E id \in 1 .. last_id' : Disk!Keep(id)
    BY <1>2, SpillFileKeeps
  <2> QED
    BY <2>1, Zenon DEF Disk!Next
<1>3. ASSUME NEW i \in Instances, ReadLoad(t, i) PROVE Disk!Next
  <2>1. \E id \in DOMAIN files : Disk!Load(t, id)
    BY <1>3, ReadLoadLoads
  <2>2. \E s \in Tasks : Disk!Answer(s) \/ \E id \in DOMAIN files : Disk!Load(s, id)
    BY <2>1, Zenon
  <2> QED
    BY <2>2, Zenon DEF Disk!Next
<1>4. ASSUME NEW op, ops' = [ops EXCEPT ![t] = op], op.kind # "load",
             UNCHANGED <<files, last_id>>
      PROVE  Disk!Next
  BY <1>4, LoadEnds DEF Disk!Next
<1>5. ASSUME Returns(t), UNCHANGED disk PROVE Disk!Next
  <2>1. ops' = [ops EXCEPT ![t] = Idle] /\ Idle.kind # "load" /\ UNCHANGED <<files, last_id>>
    BY <1>5 DEF Returns, Pending, Idle, disk
  <2> QED
    BY <1>4, <2>1
<1>6. CASE SpillFails(t) \/ SpillDone(t) \/ ReadErase(t) \/ ResetFails(t)
  BY <1>5, <1>6 DEF SpillFails, SpillDone, ReadErase, ResetFails
<1>7. ASSUME NEW i \in Instances, ReadLoadFails(t, i) PROVE Disk!Next
  BY <1>5, <1>7 DEF ReadLoadFails, ReadFails
<1>8. ASSUME NEW o, ReadRemoveFails(t, o) PROVE Disk!Next
  BY <1>5, <1>8 DEF ReadRemoveFails, ReadFails
<1>9. CASE ReadMerge(t)
  <2>0. \A ids, result, rest : UnlinkOp(ids, result, rest).kind = "unlink"
    BY DEF UnlinkOp
  <2>1. PICK op : ops' = [ops EXCEPT ![t] = op] /\ op.kind = "unlink"
    BY <1>9, <2>0, Zenon DEF ReadMerge, Pending
  <2>2. UNCHANGED <<files, last_id>>
    BY <1>9 DEF ReadMerge, disk
  <2> QED
    BY <1>4, <2>1, <2>2
<1>10. ASSUME NEW o, ReadRemove(t, o) PROVE Disk!Next \/ StoreStutters
  <2>1. /\ ops[t].kind = "unlink" /\ files' = Drop(files, {o}) /\ last_id' = last_id
        /\ ops' = [ops EXCEPT ![t] = [ops[t] EXCEPT !.rest = @ \ {o}]]
    BY <1>10 DEF ReadRemove, Resumes, Pending
  <2>2. [ops[t] EXCEPT !.rest = @ \ {o}].kind = "unlink"
    <3>1. ops[t] = UnlinkOp(ops[t].ids, ops[t].result, ops[t].rest)
      BY <2>1, UnlinkShape
    <3> QED
      BY <3>1 DEF UnlinkOp
  <2>3. Loaded' = Loaded
    BY <2>1, <2>2, NothingLoaded
  <2>4. (\E id \in DOMAIN files : Disk!Remove(id)) \/ StoreStutters
    BY <2>1, <2>3, DropRemoves
  <2> QED
    BY <2>4, Zenon DEF Disk!Next
<1>11. CASE ResetRemove(t)
  <2>1. PICK r \in ops[t].rest : \E o :
          /\ files' = Drop(files, {o})
          /\ Pending(t, IF ops[t].rest = {r} THEN Idle ELSE ResetOp(ops[t].rest \ {r}, TRUE))
    BY <1>11 DEF ResetRemove
  <2>2. PICK o : files' = Drop(files, {o})
    BY <2>1
  <2>0. (IF ops[t].rest = {r} THEN Idle ELSE ResetOp(ops[t].rest \ {r}, TRUE)).kind # "load"
    BY DEF Idle, ResetOp
  <2>3. PICK op : ops' = [ops EXCEPT ![t] = op] /\ op.kind # "load"
    BY <2>0, <2>1, Zenon DEF Pending
  <2>4. ops[t].kind # "load" /\ last_id' = last_id
    BY <1>11 DEF ResetRemove, Resumes
  <2>5. Loaded' = Loaded
    BY <2>3, <2>4, NothingLoaded
  <2>6. (\E id \in DOMAIN files : Disk!Remove(id)) \/ StoreStutters
    BY <2>2, <2>4, <2>5, DropRemoves
  <2> QED
    BY <2>6, Zenon DEF Disk!Next
<1> QED
  BY <1>1, <1>2, <1>3, <1>6, <1>7, <1>8, <1>9, <1>10, <1>11 DEF Continue

(* So is every call, and every removal nobody waits for.  *)
LEMMA RequestStores ==
    ASSUME IndInv, Request \/ Unlinking
    PROVE  Disk!Next \/ StoreStutters
<1>1. ASSUME UNCHANGED <<ops, files, last_id>> PROVE StoreStutters
  BY <1>1, OpsStay DEF StoreStutters
<1>2. ASSUME NEW i \in Instances, delete_instance(i) PROVE StoreStutters
  BY <1>1, <1>2 DEF delete_instance
<1>3. CASE check_group_timeouts
  BY <1>1, <1>3 DEF check_group_timeouts, disk
<1>4. ASSUME NEW size, NEW dedup, UpdateConfig(size, dedup) PROVE StoreStutters
  BY <1>1, <1>4 DEF UpdateConfig, disk
<1>5. ASSUME NEW t \in Tasks, reset(t) PROVE StoreStutters
  <2>1. ops[t].kind # "load" /\ UNCHANGED <<files, last_id>>
    BY <1>5 DEF reset, Starts, Idle, disk
  <2>0. \A rest, freed : ResetOp(rest, freed).kind # "load"
    BY DEF ResetOp
  <2>2. ops' = ops \/ \E op : ops' = [ops EXCEPT ![t] = op] /\ op.kind # "load"
    BY <1>5, <2>0, Zenon DEF reset, Pending
  <2> QED
    BY <1>1, <2>1, <2>2, GoesOn
<1>6. ASSUME NEW t \in Tasks, Writing(t) PROVE StoreStutters
  <2>1. ASSUME NEW b, batch_write(t, b) PROVE StoreStutters
    <3>1. /\ ops' = [ops EXCEPT ![t] = BatchOp(b)] /\ BatchOp(b).kind # "load"
          /\ ops[t].kind # "load" /\ UNCHANGED <<files, last_id>>
      BY <2>1 DEF batch_write, Starts, Idle, Pending, BatchOp, disk
    <3> QED
      BY <3>1, GoesOn
  <2> QED
    BY <1>6, <2>1, WriteUnseen DEF Writing
<1>7. ASSUME NEW t \in Tasks, Reading(t) PROVE StoreStutters
  <2>1. ASSUME NEW max, ReadNull(t, max) PROVE StoreStutters
    BY <1>1, <2>1 DEF ReadNull, disk
  <2>2. ASSUME NEW max, ReadScan(t, max) PROVE StoreStutters
    <3>1. ops[t].kind # "load" /\ UNCHANGED <<files, last_id>>
      BY <2>2 DEF ReadScan, Starts, Idle, disk
    <3>2. PICK ids : LET inmem == ids \intersect InMemory(groups) IN
            ops' = [ops EXCEPT ![t] =
              LoadOp(ids, [i \in inmem |-> groups[i].group_ptr],
                     [i \in ids \ inmem |-> groups[i].disk_offset], [i \in {} |-> NoGroup])]
      BY <2>2 DEF ReadScan, Pending
    <3> DEFINE inmem == ids \intersect InMemory(groups)
               op == LoadOp(ids, [i \in inmem |-> groups[i].group_ptr],
                            [i \in ids \ inmem |-> groups[i].disk_offset],
                            [i \in {} |-> NoGroup])
    <3>3. ops' = [ops EXCEPT ![t] = op] /\ op.loaded = [i \in {} |-> NoGroup]
      BY <3>2 DEF LoadOp
    <3> HIDE DEF op
    <3> QED
      BY <3>1, <3>3, GoesOn
  <2> QED
    BY <1>7, <2>1, <2>2 DEF Reading
<1>8. ASSUME NEW o, Unlink(o) PROVE Disk!Next \/ StoreStutters
  <2>1. UNCHANGED <<ops, last_id>> /\ (files' = files \/ files' = Drop(files, {o}))
    BY <1>8 DEF Unlink
  <2>2. Loaded' = Loaded
    BY <2>1, OpsStay
  <2>3. (\E id \in DOMAIN files : Disk!Remove(id)) \/ StoreStutters
    BY <2>1, <2>2, DropRemoves DEF StoreStutters
  <2> QED
    BY <2>3, Zenon DEF Disk!Next
<1> QED
  BY <1>2, <1>3, <1>4, <1>5, <1>6, <1>7, <1>8 DEF Request, Managing, Unlinking

(* What a shard does to its files is what a store with fresh ids does,     *)
(* whatever calls interleave (spill_batch, load_batch and remove as        *)
(* BufferShard calls them).                                                *)
THEOREM StoreImplements == Spec => SpillsToStore
<1>1. Init => Disk!Init
  <2> SUFFICES ASSUME Init PROVE Disk!Init
    OBVIOUS
  <2>1. /\ files = [x \in {} |-> NoGroup] /\ last_id = 0
        /\ \A t \in Tasks : LoadedPairs(t) = {}
    BY DEF Init, LoadedPairs, Idle
  <2>2. files = [x \in {} |-> {}] /\ 1 .. last_id = {}
    BY <2>1
  <2> QED
    BY <2>1, <2>2 DEF Disk!Init
<1>2. IndInv /\ [Next]_vars => [Disk!Next]_<<files, 1 .. last_id, Loaded>>
  <2>1. ASSUME UNCHANGED vars PROVE StoreStutters
    BY <2>1, OpsStay DEF vars, disk, StoreStutters
  <2>2. StoreStutters => UNCHANGED <<files, 1 .. last_id, Loaded>>
    BY DEF StoreStutters
  <2> QED
    BY <2>1, <2>2, ContinueStores, RequestStores DEF Next
<1>3. IndInv /\ [Next]_vars =>
        [Disk!Next]_<<files, 1 .. last_id, [t \in Tasks |-> LoadedPairs(t)]>>
  BY <1>2 DEF Loaded
<1> QED
  BY Inductive, <1>1, <1>3, PTL DEF Spec, SpillsToStore, Disk!Spec
=============================================================================
