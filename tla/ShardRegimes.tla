---------------------------- MODULE ShardRegimes -----------------------------
(***************************************************************************)
(* BufferShard under three disciplines of its callers, and what each of    *)
(* them buys.  The class itself enforces none of them.                     *)
(*                                                                         *)
(*   serial   a method is called only when no other call is pending;       *)
(*   writers  writes overlap each other and nothing else, and nobody       *)
(*            writes to a complete group (the comment in write() assumes   *)
(*            "complete groups receive no more data");                     *)
(*   readers  everything overlaps except that a spill overlaps nothing.    *)
(***************************************************************************)
EXTENDS BufferShard

Quiet == \A t \in Tasks : ops[t] = Idle

Kinds == {ops[t].kind : t \in Tasks}

Continuing == \E t \in Tasks : Continue(t)

SerialNext == Continuing \/ Unlinking \/ (Quiet /\ Request)

SerialSpec == Init /\ [][SerialNext]_vars

\* a consumer keeps polling; the I/O of pending calls completes
SerialFairSpec ==
    /\ SerialSpec
    /\ WF_vars(Continuing)
    /\ WF_vars(Quiet /\ \E t \in Tasks : ReadScan(t, 0))

Collecting(i) == i \notin Ready

WritersNext ==
    \/ Continuing
    \/ Unlinking
    \/ /\ Kinds \subseteq {"idle", "spill"}
       /\ \E t \in Tasks, i \in Instances, u \in Uids :
            ops[t] = Idle /\ Collecting(i) /\ Write(t, i, u)
    \/ Quiet /\ (Managing \/ \E t \in Tasks : Reading(t))

WritersSpec == Init /\ [][WritersNext]_vars

ReadersNext ==
    \/ Continuing
    \/ Unlinking
    \/ /\ "spill" \notin Kinds
       /\ Request
       /\ Quiet \/ \A t \in Tasks : ops'[t].kind # "spill"

ReadersSpec == Init /\ [][ReadersNext]_vars

-----------------------------------------------------------------------------
(* What the queries answer *)

ListedSize(e) == IF IsOnDisk(e) THEN e.cached_size
                 ELSE IF e.group_ptr # NoGroup THEN Size(e.group_ptr) ELSE 0

get_meta_info ==
    [total_samples |-> SumFunction([i \in DOMAIN groups |-> ListedSize(groups[i])]),
     num_groups |-> Cardinality(DOMAIN groups),
     finished_group_ids |-> Ready]

MemoryUsage == estimate_memory_usage(groups, dedup_filter, config.uid_dedup)

get_status ==
    [total_trajectories |-> SumFunctionOnSet(total_trajectories, Instances),
     total_consumed |-> SumFunctionOnSet(total_consumed, Instances),
     pending_groups |-> Cardinality(Ready),
     incomplete_groups |-> Cardinality(DOMAIN groups \ Ready),
     memory_usage_bytes |-> MemoryUsage,
     disk_usage_bytes |-> SumFunctionOnSet(disk_usage_bytes, Instances)]

-----------------------------------------------------------------------------
(* The abstract queue *)

\* the groups the pending read holds, by instance; at most one read is pending
InRead(i) == {ops[t].result[i] : t \in {s \in Tasks :
                 /\ ops[s].kind \in {"load", "unlink"}
                 /\ i \in DOMAIN ops[s].result}}

\* the group an entry stands for: in memory, in a reader's hands, or on disk
GroupOf(i) ==
    IF InRead(i) # {} THEN CHOOSE g \in InRead(i) : TRUE
    ELSE IF groups[i].group_ptr # NoGroup THEN groups[i].group_ptr
    ELSE IF groups[i].disk_offset \in DOMAIN files THEN files[groups[i].disk_offset]
    ELSE NoGroup

Queue == INSTANCE ShardQueue WITH held <- [i \in DOMAIN groups |-> GroupOf(i)],
                                  accepted <- total_trajectories

(***************************************************************************)
(* The shard implements the group queue: spilling, loading, unlinking and  *)
(* erasing, in as many steps as they take, are invisible; no group is      *)
(* lost, duplicated, split or handed over before it is ready, although a   *)
(* spill may fail and, among writers, the same group may be spilled twice. *)
(* A group leaves only with a read, a delete of its instance or a reset.   *)
(***************************************************************************)
ImplementsGroupQueue == Queue!Spec

(***************************************************************************)
(* Between calls the sizes get_meta_info adds up are those of the groups   *)
(* that are really there, spilled ones included.                           *)
(***************************************************************************)
SamplesExact ==
    Quiet => get_meta_info.total_samples
               = SumFunction([i \in DOMAIN groups |-> Size(GroupOf(i))])

(***************************************************************************)
(* Between calls disk_usage_bytes is the size of the files that entries    *)
(* lead to: spills, reads, deletes and resets keep it balanced.            *)
(***************************************************************************)
DiskUsageExact ==
    Quiet => get_status.disk_usage_bytes
               = SumFunction([i \in {j \in DOMAIN groups : IsOnDisk(groups[j])} |->
                               Size(files[groups[i].disk_offset])])

(***************************************************************************)
(* Between calls the two totals account for every trajectory accepted      *)
(* since the latest reset: consumed, still buffered, or deleted.           *)
(***************************************************************************)
TotalsAgree ==
    Quiet => get_status.total_trajectories
               = get_status.total_consumed
                   + SumFunction([i \in DOMAIN groups |-> Size(GroupOf(i))])
                   + SumFunctionOnSet(gone, Instances)

(***************************************************************************)
(* Between calls what get_meta_info and get_status say agrees with what is *)
(* in memory and on disk, however groups came and went.                    *)
(***************************************************************************)
StatisticsExact == SamplesExact /\ DiskUsageExact /\ TotalsAgree

(***************************************************************************)
(* CrashCauses where reads overlap nothing: the process dies of a batch    *)
(* that meets a spill or of a scan after a read has failed that held       *)
(* groups, and of no other sequence of calls, spills, failed spills,       *)
(* failed removals and resets.                                             *)
(***************************************************************************)
CrashCausesAlone == crashed => read_failed \/ \E t \in Tasks : ops[t].kind = "batch"

(***************************************************************************)
(* When a spill has succeeded, memory is back at the 70% mark or there is  *)
(* nothing left that could have been spilled.                              *)
(***************************************************************************)
SpillReclaims ==
    [][\A t \in Tasks :
         ops[t].kind = "spill" /\ ops'[t] = Idle /\ acked' # acked
           => MemoryUsage' <= SpillTarget \/ ~\E i \in InMemory(groups') :
                                 groups'[i].group_ptr.is_complete]_vars

(***************************************************************************)
(* A spill stops at the 70% mark: without the last group it takes, memory  *)
(* would stay above the mark.                                              *)
(***************************************************************************)
SpillStopsAtTarget ==
    \A t \in Tasks : ops[t].kind = "spill" =>
        \E k \in DOMAIN ops[t].snaps :
            MemoryUsage - Bytes(groups, DOMAIN ops[t].snaps \ {k}) > SpillTarget

(***************************************************************************)
(* While a consumer polls, every group that becomes ready leaves the shard.*)
(***************************************************************************)
ReadyGroupsLeave ==
    \A i \in Instances :
        i \in DOMAIN groups /\ IsComplete(groups[i]) ~> i \notin DOMAIN groups

(***************************************************************************)
(* Readers, deletes and resets that race for the same groups never make a  *)
(* trajectory reach readers more often than it was stored: of two reads    *)
(* that claim one spilled group, the one that fails to remove its file     *)
(* delivers nothing.                                                       *)
(***************************************************************************)
DeliveredAtMostOnce == \A u \in Uids : out[u] <= stored[u]

-----------------------------------------------------------------------------
(* What the comments of the code promise and the code does not keep        *)

(***************************************************************************)
(* Every write that was answered true has stored its trajectory.           *)
(***************************************************************************)
AckedIsStored == \A u \in Uids : acked[u] <= stored[u]
=============================================================================
