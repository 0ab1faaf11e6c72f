----------------------------- MODULE BufferShard -----------------------------
(***************************************************************************)
(* One shard of the queue: the groups of the instances routed to this core *)
(* and the files its DiskStorage has spilled.                              *)
(*                                                                         *)
(* Seastar runs one continuation of the core at a time and switches only   *)
(* where a future is not ready.  A task is one call of a public method; an *)
(* action is what runs between two such points; ops[t] is what the pending *)
(* continuation of task t has captured.  Whatever the code enumerates in   *)
(* the order of an unordered_map is chosen here in any order.              *)
(*                                                                         *)
(* A trajectory is its uid; sizes in bytes are counted in trajectories.    *)
(***************************************************************************)
EXTENDS Integers, Sequences, FiniteSets, FiniteSetsExt, Functions

CONSTANTS Instances,       \* instance ids
          Uids,            \* uids
          Tasks,           \* calls that may be pending at the same time
          GroupSizes,      \* values config.group_size may take
          DedupModes,      \* values config.uid_dedup may take
          MaxGroupsArgs,   \* arguments of read_ready_groups, 0 = no limit
          Batches,         \* arguments of batch_write: <<instance, uid>> lists
          IoFaults,        \* which of "spill", "load", "remove" may fail
          DedupMax,        \* the dedup filter's max_size
          SpillThreshold,  \* max_memory_bytes * spill_to_disk_threshold
          SpillTarget,     \* max_memory_bytes * 0.7
          BloomBytes,      \* bloom_bit_count() / 8
          UidBytes,        \* the 64 bytes charged for a remembered uid
          SizeMod,         \* 2^w of size_t
          MaxStores,       \* bound: how often a uid is stored or acknowledged
          NoGroup          \* the null group_ptr

ASSUME ConfigAssumption == GroupSizes \subseteq Nat /\ DedupModes \subseteq BOOLEAN
ASSUME BatchAssumption == Batches \subseteq Seq(Instances \X Uids) \ {<<>>}

VARIABLES groups,              \* instance -> entry, for the keys of groups_
          dedup_filter,        \* uids the filter remembers
          config,              \* the fields of *config_ that writes read
          total_trajectories,  \* the three statistics, kept by instance: the
          total_consumed,      \* counter of the code is the sum over the
          disk_usage_bytes,    \* instances
          files,               \* spill id -> group in that file
          last_id,             \* the latest spill id handed out
          unlinking,           \* ids whose files are being removed unattended
          ops,                 \* task -> what its continuation has captured
          crashed,             \* the process has died
          stored,              \* history: uid -> times appended to a group
          acked,               \* history: uid -> writes answered true
          out,                 \* history: uid -> times handed to a reader
          gone,                \* history: instance -> trajectories deleted
                               \* since the latest reset
          read_failed          \* history: a read that held groups has failed

hist == <<stored, acked, out, gone, read_failed>>
stats == <<total_trajectories, total_consumed, disk_usage_bytes>>
disk == <<files, last_id, unlinking>>
vars == <<groups, dedup_filter, config, stats, disk, ops, crashed, hist>>

Group == [instance_id : Instances, trajectories : Seq(Uids),
          group_size : Nat, is_complete : BOOLEAN]
ASSUME NoGroupAssumption == NoGroup \notin Group

Entry == [group_ptr : Group \union {NoGroup}, disk_offset : Nat,
          cached_size : Nat, cached_bytes : Nat]

\* f is a function from some subset of S to T
Partial(f, S, T) == DOMAIN f \in SUBSET S /\ f \in [DOMAIN f -> T]

Put(f, k, v) == [x \in DOMAIN f \union {k} |-> IF x = k THEN v ELSE f[x]]
Drop(f, S) == [x \in DOMAIN f \ S |-> f[x]]

Dedup == INSTANCE DedupSet WITH seen <- dedup_filter, MaxSize <- DedupMax

-----------------------------------------------------------------------------
(* Entries *)

NewEntry == [group_ptr |-> NoGroup, disk_offset |-> 0,
             cached_size |-> 0, cached_bytes |-> 0]

\* mutant: a group spilled without bytes does not count as on disk
IsOnDisk_IfBytes(e) ==
    e.disk_offset > 0 /\ e.group_ptr = NoGroup /\ e.cached_bytes > 0

IsOnDisk(e) == e.disk_offset > 0 /\ e.group_ptr = NoGroup
IsComplete(e) == IF e.group_ptr # NoGroup THEN e.group_ptr.is_complete ELSE TRUE

\* the entry a reader has moved the group out of, or that lost its group
IsGhost(e) == e.group_ptr = NoGroup /\ e.disk_offset = 0

Size(g) == Len(g.trajectories)
InMemory(gs) == {i \in DOMAIN gs : gs[i].group_ptr # NoGroup}
Bytes(gs, S) == SumFunction([i \in S |-> Size(gs[i].group_ptr)])

Ready == {i \in DOMAIN groups : IsComplete(groups[i])}

EntryOf(i) == IF i \in DOMAIN groups THEN groups[i] ELSE NewEntry

-----------------------------------------------------------------------------
(* Pending continuations *)

Idle == [kind |-> "idle"]

\* batch_write: the trajectories not yet written
BatchOp(rest) == [kind |-> "batch", rest |-> rest]

\* a write of u waits for spill_batch: the copies, and the ids so far
SpillOp(u, snaps, offs) ==
    [kind |-> "spill", uid |-> u, snaps |-> snaps, offs |-> offs]

\* read_ready_groups waits in load_batch: ids_to_remove, the groups moved out
\* of memory, offsets_to_load, and what load_batch has loaded
LoadOp(ids, result, offsets, loaded) ==
    [kind |-> "load", ids |-> ids, result |-> result,
     offsets |-> offsets, loaded |-> loaded]

\* read_ready_groups waits for the remove of offsets rest
UnlinkOp(ids, result, rest) ==
    [kind |-> "unlink", ids |-> ids, result |-> result, rest |-> rest]

\* reset waits for a remove; freed says its vector of offsets is gone
ResetOp(rest, freed) == [kind |-> "reset", rest |-> rest, freed |-> freed]

\* the core is free for task t: no batch_write of another task is running,
\* which writes its whole vector without giving up the core
Core(t) == ~crashed /\ \A s \in Tasks \ {t} : ops[s].kind # "batch"

Starts(t) == Core(t) /\ ops[t] = Idle

Resumes(t, kind) == Core(t) /\ ops[t].kind = kind

Pending(t, op) == ops' = [ops EXCEPT ![t] = op]
Returns(t) == Pending(t, Idle)

-----------------------------------------------------------------------------
(* Memory accounting and the choice of what to spill *)

estimate_memory_usage(gs, uids, dedup_on) ==
    Bytes(gs, InMemory(gs))
      + IF dedup_on THEN BloomBytes + UidBytes * Cardinality(uids) ELSE 0

\* mutant: incomplete groups are spilled too
Spillable_Incomplete(gs) == InMemory(gs)

Spillable(gs) == {i \in InMemory(gs) : gs[i].group_ptr.is_complete}

\* mutant: one byte short of the 70% mark
target_spill_Short(usage) == (usage - SpillTarget - 1) % SizeMod

\* mutant: everything is to be spilled
target_spill_All(usage) == usage

\* how much to spill, which wraps like the size_t it is
target_spill(usage) == (usage - SpillTarget) % SizeMod

\* the sets of keys try_spill_groups may pick: complete groups in memory,
\* until their bytes reach the target
SpillChoices(gs, uids, dedup_on) ==
    LET usage  == estimate_memory_usage(gs, uids, dedup_on)
        target == target_spill(usage)
        full   == Spillable(gs)
    IN  IF usage <= SpillThreshold THEN {}
        ELSE {K \in SUBSET full \ {{}} :
                /\ \E k \in K : K = {k} \/ Bytes(gs, K \ {k}) < target
                /\ K = full \/ Bytes(gs, K) >= target}

-----------------------------------------------------------------------------
(* Writing *)

\* task t is at the start of write() for uid u of instance i
Writes(t, i, u) ==
    \/ Starts(t)
    \/ Resumes(t, "batch") /\ Head(ops[t].rest) = <<i, u>>

\* what is left to do when a write of task t returns a ready future
Rest(t) == IF ops[t] = Idle \/ Len(ops[t].rest) = 1 THEN Idle
           ELSE BatchOp(Tail(ops[t].rest))

\* the uid check lets u through; the bound is on the whole behaviour
Admits(u) ==
    /\ stored[u] < MaxStores /\ acked[u] < MaxStores
    /\ IF config.uid_dedup THEN Dedup!Insert(u) ELSE UNCHANGED dedup_filter

\* the uid is known: answered false, and only the LRU order changes
WriteDuplicate(t, i, u) ==
    /\ Writes(t, i, u)
    /\ config.uid_dedup /\ u \in dedup_filter
    /\ Pending(t, Rest(t))
    /\ UNCHANGED <<groups, dedup_filter, config, stats, disk, crashed, hist>>

\* the group has been spilled: answered true, and nothing is stored
WriteOnDisk(t, i, u) ==
    /\ Writes(t, i, u) /\ Admits(u)
    /\ IsOnDisk(EntryOf(i))
    /\ acked' = [acked EXCEPT ![u] = @ + 1]
    /\ Pending(t, Rest(t))
    /\ UNCHANGED <<groups, config, stats, disk, crashed, stored, out, gone,
                   read_failed>>

\* the entry of i with u appended, its group created first if there is none
Appended(i, u) ==
    LET g == IF EntryOf(i).group_ptr # NoGroup THEN EntryOf(i).group_ptr
             ELSE [instance_id |-> i, trajectories |-> <<>>,
                   group_size |-> config.group_size, is_complete |-> FALSE]
        more == Append(g.trajectories, u)
    IN  [EntryOf(i) EXCEPT !.group_ptr =
            [g EXCEPT !.trajectories = more,
                      !.is_complete = @ \/ Len(more) >= g.group_size]]

Stores(t, i, u) ==
    /\ Writes(t, i, u) /\ Admits(u)
    /\ ~IsOnDisk(EntryOf(i))
    /\ groups' = Put(groups, i, Appended(i, u))
    /\ total_trajectories' = [total_trajectories EXCEPT ![i] = @ + 1]
    /\ stored' = [stored EXCEPT ![u] = @ + 1]
    /\ UNCHANGED <<config, total_consumed, disk_usage_bytes, disk, out, gone,
                   read_failed>>

ToSpill == SpillChoices(groups', dedup_filter', config.uid_dedup)

\* nothing to spill: answered true at once
WriteInMemory(t, i, u) ==
    /\ Stores(t, i, u)
    /\ ToSpill = {}
    /\ acked' = [acked EXCEPT ![u] = @ + 1]
    /\ Pending(t, Rest(t))
    /\ UNCHANGED crashed

\* the write waits for the spill of copies of some groups
WriteSpills(t, i, u) ==
    /\ ops[t] = Idle
    /\ Stores(t, i, u)
    /\ \E K \in ToSpill :
         Pending(t, SpillOp(u, [k \in K |-> groups'[k].group_ptr],
                            [k \in {} |-> 0]))
    /\ UNCHANGED <<crashed, acked>>

\* inside batch_write get() is called on that future outside a thread
WriteAborts(t, i, u) ==
    /\ ops[t] # Idle
    /\ Stores(t, i, u)
    /\ ToSpill # {}
    /\ crashed' = TRUE
    /\ UNCHANGED <<ops, acked>>

Write(t, i, u) ==
    \/ WriteDuplicate(t, i, u)
    \/ WriteOnDisk(t, i, u)
    \/ WriteInMemory(t, i, u)
    \/ WriteSpills(t, i, u)
    \/ WriteAborts(t, i, u)

batch_write(t, b) ==
    /\ Starts(t)
    /\ \A n \in DOMAIN b : stored[b[n][2]] < MaxStores /\ acked[b[n][2]] < MaxStores
    /\ Pending(t, BatchOp(b))
    /\ UNCHANGED <<groups, dedup_filter, config, stats, disk, crashed, hist>>

-----------------------------------------------------------------------------
(* The rest of try_spill_groups *)

\* mutant: ids are counted by the files there are, and come to repeat
SpillFile_ReusesId(t, k) ==
    /\ Resumes(t, "spill")
    /\ k \in DOMAIN ops[t].snaps \ DOMAIN ops[t].offs
    /\ last_id' = Cardinality(DOMAIN files) + 1
    /\ files' = Put(files, last_id', ops[t].snaps[k])
    /\ Pending(t, [ops[t] EXCEPT !.offs = Put(@, k, last_id')])
    /\ UNCHANGED <<groups, dedup_filter, config, stats, unlinking, crashed, hist>>

\* mutant: keys and copies get out of step
SpillFile_Misaligned(t, k) ==
    /\ Resumes(t, "spill")
    /\ k \in DOMAIN ops[t].snaps \ DOMAIN ops[t].offs
    /\ last_id' = last_id + 1
    /\ \E j \in DOMAIN ops[t].snaps : files' = Put(files, last_id', ops[t].snaps[j])
    /\ Pending(t, [ops[t] EXCEPT !.offs = Put(@, k, last_id')])
    /\ UNCHANGED <<groups, dedup_filter, config, stats, unlinking, crashed, hist>>

\* one file of spill_batch is written
SpillFile(t, k) ==
    /\ Resumes(t, "spill")
    /\ k \in DOMAIN ops[t].snaps \ DOMAIN ops[t].offs
    /\ last_id' = last_id + 1
    /\ files' = Put(files, last_id', ops[t].snaps[k])
    /\ Pending(t, [ops[t] EXCEPT !.offs = Put(@, k, last_id')])
    /\ UNCHANGED <<groups, dedup_filter, config, stats, unlinking, crashed, hist>>

\* mutant: the groups were moved, not copied, and a failure loses them
SpillFails_Moved(t) ==
    /\ Resumes(t, "spill") /\ "spill" \in IoFaults
    /\ DOMAIN ops[t].offs # DOMAIN ops[t].snaps
    /\ groups' = [i \in DOMAIN groups |-> IF i \in DOMAIN ops[t].snaps
                    THEN [groups[i] EXCEPT !.group_ptr = NoGroup] ELSE groups[i]]
    /\ Returns(t)
    /\ UNCHANGED <<dedup_filter, config, stats, disk, crashed, hist>>

\* a write to disk fails: so does write(), whose trajectory stays stored
SpillFails(t) ==
    /\ Resumes(t, "spill") /\ "spill" \in IoFaults
    /\ DOMAIN ops[t].offs # DOMAIN ops[t].snaps
    /\ Returns(t)
    /\ UNCHANGED <<groups, dedup_filter, config, stats, disk, crashed, hist>>

InMemorySize(e) == IF e.group_ptr # NoGroup THEN Size(e.group_ptr) ELSE 0

\* mutant: the sizes are taken after the group is freed
Spilled_AfterFree(t, i) ==
    [group_ptr |-> NoGroup, disk_offset |-> ops[t].offs[i],
     cached_size |-> 0, cached_bytes |-> 0]

\* what the entry of key i is turned into
Spilled(t, i) ==
    [group_ptr |-> NoGroup, disk_offset |-> ops[t].offs[i],
     cached_size |-> InMemorySize(groups[i]),
     cached_bytes |-> InMemorySize(groups[i])]

\* mutant: an entry that another spill has freed is taken for an empty one
SpillDone_DropsFreed(t) ==
    /\ Resumes(t, "spill")
    /\ DOMAIN ops[t].offs = DOMAIN ops[t].snaps
    /\ LET spilled == DOMAIN ops[t].offs \intersect InMemory(groups)
       IN  /\ groups' = [i \in (DOMAIN groups \ DOMAIN ops[t].offs) \union spilled |->
                IF i \in spilled THEN Spilled(t, i) ELSE groups[i]]
           /\ disk_usage_bytes' = [i \in Instances |-> disk_usage_bytes[i]
                + IF i \in spilled THEN InMemorySize(groups[i]) ELSE 0]
    /\ acked' = [acked EXCEPT ![ops[t].uid] = @ + 1]
    /\ Returns(t)
    /\ UNCHANGED <<dedup_filter, config, total_trajectories, total_consumed,
                   disk, crashed, stored, out, gone, read_failed>>

\* spill_batch is done: the entries the keys have NOW are turned into on-disk
\* ones, and the write is answered true
SpillDone(t) ==
    /\ Resumes(t, "spill")
    /\ DOMAIN ops[t].offs = DOMAIN ops[t].snaps
    /\ LET spilled == DOMAIN ops[t].offs \intersect DOMAIN groups
       IN  /\ groups' = [i \in DOMAIN groups |->
                IF i \in spilled THEN Spilled(t, i) ELSE groups[i]]
           /\ disk_usage_bytes' = [i \in Instances |-> disk_usage_bytes[i]
                + IF i \in spilled THEN InMemorySize(groups[i]) ELSE 0]
    /\ acked' = [acked EXCEPT ![ops[t].uid] = @ + 1]
    /\ Returns(t)
    /\ UNCHANGED <<dedup_filter, config, total_trajectories, total_consumed,
                   disk, crashed, stored, out, gone, read_failed>>

-----------------------------------------------------------------------------
(* read_ready_groups *)

\* the keys a scan may stop at, given that it stops at max ready groups
Scans(max) ==
    {ids \in SUBSET Ready :
        Cardinality(ids) = IF max > 0 /\ max < Cardinality(Ready)
                           THEN max ELSE Cardinality(Ready)}

\* groups in memory are moved out, files are noted; a scan that finds nothing
\* changes nothing and is left out
ReadScan(t, max) ==
    /\ Starts(t)
    /\ \E ids \in Scans(max) \ {{}} :
         LET inmem == ids \intersect InMemory(groups)
         IN  /\ \A i \in ids : ~IsGhost(groups[i])
             /\ groups' = [i \in DOMAIN groups |->
                  IF i \in inmem THEN [groups[i] EXCEPT !.group_ptr = NoGroup]
                  ELSE groups[i]]
             /\ total_consumed' = [i \in Instances |-> total_consumed[i]
                  + IF i \in inmem THEN Size(groups[i].group_ptr) ELSE 0]
             /\ disk_usage_bytes' = [i \in Instances |-> disk_usage_bytes[i]
                  - IF i \in ids \ inmem THEN groups[i].cached_bytes ELSE 0]
             /\ Pending(t, LoadOp(ids, [i \in inmem |-> groups[i].group_ptr],
                                  [i \in ids \ inmem |-> groups[i].disk_offset],
                                  [i \in {} |-> NoGroup]))
    /\ UNCHANGED <<dedup_filter, config, total_trajectories, disk, crashed, hist>>

\* the scan takes a ghost for a group in memory and follows its null pointer
ReadNull(t, max) ==
    /\ Starts(t)
    /\ \E ids \in Scans(max) : \E i \in ids : IsGhost(groups[i])
    /\ crashed' = TRUE
    /\ UNCHANGED <<groups, dedup_filter, config, stats, disk, ops, hist>>

\* load_batch reads the file of entry i
ReadLoad(t, i) ==
    /\ Resumes(t, "load")
    /\ i \in DOMAIN ops[t].offsets \ DOMAIN ops[t].loaded
    /\ ops[t].offsets[i] \in DOMAIN files
    /\ Pending(t, [ops[t] EXCEPT !.loaded = Put(@, i, files[ops[t].offsets[i]])])
    /\ UNCHANGED <<groups, dedup_filter, config, stats, disk, crashed, hist>>

\* the call fails, and the groups it holds are freed with it
ReadFails(t) ==
    /\ Returns(t)
    /\ read_failed' = (read_failed \/ DOMAIN ops[t].result # {})
    /\ UNCHANGED <<groups, dedup_filter, config, stats, disk, crashed, stored,
                   acked, out, gone>>

\* the file is missing or unreadable
ReadLoadFails(t, i) ==
    /\ Resumes(t, "load")
    /\ i \in DOMAIN ops[t].offsets \ DOMAIN ops[t].loaded
    /\ "load" \in IoFaults \/ ops[t].offsets[i] \notin DOMAIN files
    /\ ReadFails(t)

ReadMerge(t) ==
    /\ Resumes(t, "load")
    /\ LET op == ops[t]
       IN  /\ DOMAIN op.loaded = DOMAIN op.offsets
           /\ total_consumed' = [i \in Instances |-> total_consumed[i]
                + IF i \in DOMAIN op.loaded THEN Size(op.loaded[i]) ELSE 0]
           /\ Pending(t, UnlinkOp(op.ids,
                [i \in op.ids |-> IF i \in DOMAIN op.loaded THEN op.loaded[i]
                                  ELSE op.result[i]],
                {op.offsets[i] : i \in DOMAIN op.offsets}))
    /\ UNCHANGED <<groups, dedup_filter, config, total_trajectories,
                   disk_usage_bytes, disk, crashed, hist>>

\* mutant: it does not matter if the file is gone
ReadRemove_Lenient(t, o) ==
    /\ Resumes(t, "unlink")
    /\ o \in ops[t].rest
    /\ files' = Drop(files, {o})
    /\ Pending(t, [ops[t] EXCEPT !.rest = @ \ {o}])
    /\ UNCHANGED <<groups, dedup_filter, config, stats, last_id, unlinking, crashed, hist>>

ReadRemove(t, o) ==
    /\ Resumes(t, "unlink")
    /\ o \in ops[t].rest \intersect DOMAIN files
    /\ files' = Drop(files, {o})
    /\ Pending(t, [ops[t] EXCEPT !.rest = @ \ {o}])
    /\ UNCHANGED <<groups, dedup_filter, config, stats, last_id, unlinking, crashed, hist>>

\* somebody else removed the file, or the removal fails: so does the call
ReadRemoveFails(t, o) ==
    /\ Resumes(t, "unlink")
    /\ o \in ops[t].rest
    /\ "remove" \in IoFaults \/ o \notin DOMAIN files
    /\ ReadFails(t)

\* how often uid u is among the trajectories of the groups gs[i]
Count(u, gs) ==
    SumFunction([i \in DOMAIN gs |->
        Cardinality({n \in DOMAIN gs[i].trajectories : gs[i].trajectories[n] = u})])

\* mutant: the keys that were read stay in groups_
ReadErase_Keeps(t) ==
    /\ Resumes(t, "unlink") /\ ops[t].rest = {}
    /\ out' = [u \in Uids |-> out[u] + Count(u, ops[t].result)]
    /\ Returns(t)
    /\ UNCHANGED <<groups, dedup_filter, config, stats, disk, crashed, stored,
                   acked, gone, read_failed>>

ReadErase(t) ==
    /\ Resumes(t, "unlink") /\ ops[t].rest = {}
    /\ groups' = Drop(groups, ops[t].ids)
    /\ out' = [u \in Uids |-> out[u] + Count(u, ops[t].result)]
    /\ Returns(t)
    /\ UNCHANGED <<dedup_filter, config, stats, disk, crashed, stored, acked, gone,
                   read_failed>>

-----------------------------------------------------------------------------
(* Management *)

CoreFree == ~crashed /\ \A t \in Tasks : ops[t].kind # "batch"

\* how many trajectories the entry of i stands for
Holds(e) == IF e.group_ptr # NoGroup THEN Size(e.group_ptr)
            ELSE IF e.disk_offset \in DOMAIN files THEN Size(files[e.disk_offset])
            ELSE 0

\* the removal of the file is started, and nobody waits for it
delete_instance(i) ==
    /\ CoreFree
    /\ i \in DOMAIN groups
    /\ groups' = Drop(groups, {i})
    /\ gone' = [gone EXCEPT ![i] = @ + Holds(groups[i])]
    /\ IF IsOnDisk(groups[i])
       THEN /\ disk_usage_bytes' = [disk_usage_bytes EXCEPT
                                      ![i] = @ - groups[i].cached_bytes]
            /\ unlinking' = unlinking \union {groups[i].disk_offset}
       ELSE UNCHANGED <<disk_usage_bytes, unlinking>>
    /\ UNCHANGED <<dedup_filter, config, total_trajectories, total_consumed,
                   files, last_id, ops, crashed, stored, acked, out, read_failed>>

\* that removal takes place, or fails and nobody hears of it
Unlink(o) ==
    /\ ~crashed /\ o \in unlinking
    /\ unlinking' = unlinking \ {o}
    /\ \/ files' = Drop(files, {o})
       \/ "remove" \in IoFaults /\ UNCHANGED files
    /\ UNCHANGED <<groups, dedup_filter, config, stats, last_id, ops, crashed, hist>>

Zero == [i \in Instances |-> 0]

reset(t) ==
    /\ Starts(t)
    /\ groups' = [i \in {} |-> NewEntry]
    /\ dedup_filter' = {}
    /\ total_trajectories' = Zero /\ total_consumed' = Zero
    /\ disk_usage_bytes' = Zero /\ gone' = Zero
    /\ LET offsets == {groups[i].disk_offset :
                          i \in {j \in DOMAIN groups : IsOnDisk(groups[j])}}
       IN  IF offsets = {} THEN UNCHANGED ops
           ELSE Pending(t, ResetOp(offsets, FALSE))
    /\ UNCHANGED <<config, disk, crashed, stored, acked, out, read_failed>>

\* do_for_each removes one more file.  Its vector is a local of reset(): after
\* the first removal the next offset is read from freed memory, which still
\* holds r or has come to hold something else, another file's id included
ResetRemove(t) ==
    /\ Resumes(t, "reset")
    /\ \E r \in ops[t].rest :
       \E o \in {r} \union (IF ops[t].freed THEN DOMAIN files ELSE {}) :
         /\ o \in DOMAIN files
         /\ files' = Drop(files, {o})
         /\ Pending(t, IF ops[t].rest = {r} THEN Idle
                       ELSE ResetOp(ops[t].rest \ {r}, TRUE))
    /\ UNCHANGED <<groups, dedup_filter, config, stats, last_id, unlinking, crashed, hist>>

\* there is no such file, or the removal fails: reset() fails
ResetFails(t) ==
    /\ Resumes(t, "reset")
    /\ ops[t].freed \/ "remove" \in IoFaults \/ ~(ops[t].rest \subseteq DOMAIN files)
    /\ Returns(t)
    /\ UNCHANGED <<groups, dedup_filter, config, stats, disk, crashed, hist>>

\* incomplete groups in memory that are old enough become complete
check_group_timeouts ==
    /\ CoreFree
    /\ \E old \in SUBSET (DOMAIN groups \ Ready) \ {{}} :
         groups' = [i \in DOMAIN groups |->
            IF i \in old THEN [groups[i] EXCEPT !.group_ptr.is_complete = TRUE]
            ELSE groups[i]]
    /\ UNCHANGED <<dedup_filter, config, stats, disk, ops, crashed, hist>>

\* the configuration all shards share is changed
UpdateConfig(size, dedup) ==
    /\ CoreFree
    /\ config' = [group_size |-> size, uid_dedup |-> dedup]
    /\ config' # config
    /\ UNCHANGED <<groups, dedup_filter, stats, disk, ops, crashed, hist>>

-----------------------------------------------------------------------------
Init ==
    /\ groups = [i \in {} |-> NewEntry] /\ dedup_filter = {}
    /\ config \in [group_size : GroupSizes, uid_dedup : DedupModes]
    /\ total_trajectories = Zero /\ total_consumed = Zero
    /\ disk_usage_bytes = Zero
    /\ files = [o \in {} |-> NoGroup] /\ last_id = 0 /\ unlinking = {}
    /\ ops = [t \in Tasks |-> Idle] /\ crashed = FALSE
    /\ stored = [u \in Uids |-> 0] /\ acked = [u \in Uids |-> 0]
    /\ out = [u \in Uids |-> 0] /\ gone = Zero
    /\ read_failed = FALSE

\* a continuation of task t runs
Continue(t) ==
    \/ \E i \in Instances, u \in Uids : ops[t].kind = "batch" /\ Write(t, i, u)
    \/ \E k \in Instances : SpillFile(t, k)
    \/ SpillFails(t) \/ SpillDone(t)
    \/ \E i \in Instances : ReadLoad(t, i) \/ ReadLoadFails(t, i)
    \/ ReadMerge(t)
    \/ \E o \in 1 .. last_id : ReadRemove(t, o) \/ ReadRemoveFails(t, o)
    \/ ReadErase(t)
    \/ ResetRemove(t) \/ ResetFails(t)

Writing(t) ==
    \/ \E i \in Instances, u \in Uids : ops[t] = Idle /\ Write(t, i, u)
    \/ \E b \in Batches : batch_write(t, b)

Reading(t) == \E max \in MaxGroupsArgs : ReadScan(t, max) \/ ReadNull(t, max)

Managing ==
    \/ \E t \in Tasks : reset(t)
    \/ \E i \in Instances : delete_instance(i)
    \/ check_group_timeouts
    \/ \E size \in GroupSizes, dedup \in DedupModes : UpdateConfig(size, dedup)

\* somebody calls a method
Request == Managing \/ \E t \in Tasks : Writing(t) \/ Reading(t)

Unlinking == \E o \in unlinking : Unlink(o)

Next == Request \/ Unlinking \/ \E t \in Tasks : Continue(t)

Spec == Init /\ [][Next]_vars

-----------------------------------------------------------------------------
(* Properties of every interleaving *)

\* what a continuation of each kind has captured, last being the latest id
OpOK(op, last) ==
    \/ op = Idle
    \/ /\ op.kind = "spill" /\ op = SpillOp(op.uid, op.snaps, op.offs)
       /\ op.uid \in Uids
       /\ Partial(op.snaps, Instances, Group)
       /\ Partial(op.offs, DOMAIN op.snaps, 1 .. last)
    \/ /\ op.kind = "load" /\ op = LoadOp(op.ids, op.result, op.offsets, op.loaded)
       /\ op.ids \in SUBSET Instances
       /\ op.ids = DOMAIN op.result \union DOMAIN op.offsets
       /\ Partial(op.result, Instances, Group)
       /\ Partial(op.offsets, Instances, 1 .. last)
       /\ Partial(op.loaded, DOMAIN op.offsets, Group)
    \/ /\ op.kind = "unlink" /\ op = UnlinkOp(op.ids, op.result, op.rest)
       /\ op.ids \in SUBSET Instances
       /\ op.result \in [op.ids -> Group]
       /\ op.rest \in SUBSET (1 .. last)
    \/ /\ op.kind = "reset" /\ op = ResetOp(op.rest, op.freed)
       /\ op.rest \in SUBSET (1 .. last) /\ op.freed \in BOOLEAN
    \/ /\ op.kind = "batch" /\ op = BatchOp(op.rest)
       /\ op.rest \in Seq(Instances \X Uids) \ {<<>>}

(***************************************************************************)
(* Every variable has its type; no entry, file or pending call goes by a   *)
(* spill id that was not handed out yet.                                   *)
(***************************************************************************)
TypeOK ==
    /\ Partial(groups, Instances, Entry)
    /\ \A i \in DOMAIN groups : groups[i].disk_offset <= last_id
    /\ dedup_filter \in SUBSET Uids
    /\ config \in [group_size : GroupSizes, uid_dedup : DedupModes]
    /\ total_trajectories \in [Instances -> Nat]
    /\ total_consumed \in [Instances -> Nat]
    /\ disk_usage_bytes \in [Instances -> Int]
    /\ last_id \in Nat /\ Partial(files, 1 .. last_id, Group)
    /\ unlinking \in SUBSET (1 .. last_id)
    /\ DOMAIN ops = Tasks /\ \A t \in Tasks : OpOK(ops[t], last_id)
    /\ crashed \in BOOLEAN
    /\ stored \in [Uids -> Nat] /\ acked \in [Uids -> Nat] /\ gone \in [Instances -> Nat]
    /\ read_failed \in BOOLEAN

(***************************************************************************)
(* However calls interleave, an entry that owns a group in memory has no   *)
(* disk offset, so is_on_disk() and group_ptr never disagree about where   *)
(* the group is.                                                           *)
(***************************************************************************)
EntryExclusive ==
    \A i \in DOMAIN groups : groups[i].group_ptr # NoGroup => groups[i].disk_offset = 0

Leads(fs, o, i) == o \in DOMAIN fs => fs[o].instance_id = i

(***************************************************************************)
(* An offset that an entry, a pending spill or a pending read goes by      *)
(* leads to a group of that instance, if its file is still there: offsets  *)
(* and keys stay aligned although they travel through spill_batch and      *)
(* load_batch as separate vectors.                                         *)
(***************************************************************************)
OffsetsMatch ==
    /\ \A i \in DOMAIN groups : Leads(files, groups[i].disk_offset, i)
    /\ \A t \in Tasks :
         /\ ops[t].kind = "spill" =>
              \A i \in DOMAIN ops[t].offs : Leads(files, ops[t].offs[i], i)
         /\ ops[t].kind = "load" =>
              \A i \in DOMAIN ops[t].offsets : Leads(files, ops[t].offsets[i], i)

ReadyFor(g, i) == g.is_complete /\ g.instance_id = i

(***************************************************************************)
(* A group that a read holds, or that lies on disk, is complete, and a     *)
(* read files it under its own instance: no reader sees a group that is    *)
(* still collecting trajectories, whatever else is pending.                *)
(***************************************************************************)
ReadersGetReady ==
    /\ \A o \in DOMAIN files : files[o].is_complete
    /\ \A t \in Tasks :
         /\ ops[t].kind = "load" =>
              /\ \A i \in DOMAIN ops[t].result : ReadyFor(ops[t].result[i], i)
              /\ \A i \in DOMAIN ops[t].loaded : ReadyFor(ops[t].loaded[i], i)
         /\ ops[t].kind = "unlink" =>
              \A i \in DOMAIN ops[t].result : ReadyFor(ops[t].result[i], i)

(***************************************************************************)
(* However calls interleave and whatever I/O fails, the process dies of    *)
(* three things only: a batch_write whose trajectory makes the shard       *)
(* spill; a scan while a read is pending, whose groups have been moved     *)
(* out; and a scan after a read has failed that held groups, which leaves  *)
(* null groups behind for good.  Spills that overlap, fail or complete     *)
(* late, deletes, resets and writes that come in between leave no entry    *)
(* behind with neither group nor offset.                                   *)
(***************************************************************************)
CrashCauses ==
    crashed => read_failed \/ \E t \in Tasks : ops[t].kind \in {"batch", "load", "unlink"}

\* what a pending read has loaded, each group with the offset it went by
LoadedPairs(t) ==
    IF ops[t].kind # "load" THEN {}
    ELSE {<<ops[t].offsets[i], ops[t].loaded[i]>> : i \in DOMAIN ops[t].loaded}

Disk == INSTANCE SpillStore WITH Groups <- Group, used <- 1 .. last_id,
                                 loaded <- [t \in Tasks |-> LoadedPairs(t)]

(***************************************************************************)
(* What the shard does to its files, over all interleavings of its calls,  *)
(* is what a SpillStore does: each spill gets a fresh id, and loads and    *)
(* removals go by ids of the store.  DiskStorage implements that store.    *)
(***************************************************************************)
SpillsToStore == Disk!Spec
=============================================================================
