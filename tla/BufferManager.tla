---------------------------- MODULE BufferManager ----------------------------
(***************************************************************************)
(* The queue as its users see it: one shard per core and the manager that  *)
(* splits each call into messages to the shards and merges their answers.  *)
(*                                                                         *)
(* Shards answer the messages of a call in any order and at any time, and  *)
(* calls overlap freely; what a shard does with one message is not         *)
(* interrupted.  That is what GroupQueue promises of a shard whose calls   *)
(* do not wait: nothing is spilled here, and the filter remembers every    *)
(* uid.  Each instance lives on the shard that shard_for names, so one     *)
(* GroupQueue stands for all shards.                                       *)
(***************************************************************************)
EXTENDS Integers, Sequences, FiniteSets, FiniteSetsExt, Functions

CONSTANTS NumShards,      \* seastar::smp::count
          Instances,      \* instance ids
          Uids,           \* uids
          Tasks,          \* calls that may be pending at the same time
          shard_for,      \* instance -> shard, by hash
          GroupSizes,     \* values of config.group_size
          start_config,   \* the configuration the server starts with
          ConfigRequests, \* arguments of update_config: <<group_size, or 0 if
                          \* not given; uid_dedup, FALSE if not given>>
          MaxGroupsArgs,  \* arguments of the reads, 0 = no limit
          Inputs,         \* trajectories that may be written: <<instance, uid>>
          Batches,        \* arguments of batch_write: sequences of them
          MaxWrites,      \* bound: trajectories submitted in all
          MaxVersions     \* bound: update_config comes while there are fewer

Shards == 0 .. NumShards - 1

ASSUME RoutingAssumption ==
    /\ NumShards \in Nat \ {0} /\ IsFiniteSet(Instances)
    /\ shard_for \in [Instances -> Shards]
Config == [group_size : GroupSizes, uid_dedup : BOOLEAN]
ASSUME ConfigAssumption ==
    /\ GroupSizes \subseteq Nat \ {0} /\ start_config \in Config
    /\ ConfigRequests \subseteq (GroupSizes \union {0}) \X BOOLEAN
ASSUME ArgumentAssumption ==
    /\ MaxGroupsArgs \subseteq Nat
    /\ Inputs \subseteq Instances \X Uids /\ Batches \subseteq Seq(Inputs)

VARIABLES held,        \* GroupQueue: instance -> group in its shard
          out,         \* GroupQueue: uid -> times taken out by a read
          seen,        \* shard -> uids its dedup filter remembers
          totals,      \* shard -> its two counters
          versions,    \* every value *config_ has had, the present one last
          settled,     \* shard -> the oldest version it may still read
          calls,       \* task -> what its continuation has captured
          written,     \* history: trajectories submitted
          stored,      \* history: uids that have been appended to a group
          losers,      \* history: shards that have handed over a group
                       \* which its reader did not get
          owed,        \* history: task -> groups it was to find and which
                       \* nobody has removed yet
          overtaken    \* history: pending calls during which another call
                       \* has removed a ready group

shard_vars == <<held, out, seen, totals, stored>>
config_vars == <<versions, settled>>
history == <<written, losers>>
watch == <<owed, overtaken>>
vars == <<shard_vars, config_vars, history, calls, watch>>

Queue == INSTANCE GroupQueue

Group == [instance_id : Instances, trajectories : Seq(Uids),
          group_size : GroupSizes, is_complete : BOOLEAN]

config == versions[Len(versions)]

HeldBy(s) == {i \in DOMAIN held : shard_for[i] = s}
ReadyIn(s) == Queue!TheReady \intersect HeldBy(s)

Size(g) == Len(g.trajectories)
Trajectories(S) == SumFunction([i \in S |-> Size(held[i])])

-----------------------------------------------------------------------------
(* Batches *)

\* the positions of batch b that go to shard s
For(b, s) == {n \in DOMAIN b : shard_for[b[n][1]] = s}

\* mutant: only the last trajectory for a shard is kept
by_shard_KeepsLast(b) ==
    [s \in Shards |-> {n \in For(b, s) : \A m \in For(b, s) : m <= n}]

\* a batch, split by shard
by_shard(b) == [s \in Shards |-> For(b, s)]

-----------------------------------------------------------------------------
(* Pending calls *)

Idle == [kind |-> "idle"]

\* batch_write: the positions each shard has still to write, in that order,
\* and how many have been written so far
BatchOp(asked, parts, total) ==
    [kind |-> "batch", asked |-> asked, parts |-> parts, total |-> total]

\* read_ready_groups_blocking, asking has_ready_groups: shards yet to answer,
\* the answer so far, and whether the deadline has passed
ProbeOp(max, todo, found, expired) ==
    [kind |-> "probe", max |-> max, todo |-> todo, found |-> found, expired |-> expired]

\* read_ready_groups: shards yet to read, and how many groups each of the
\* others has handed over; early: a blocking read comes before its deadline
ReadOp(max, todo, got, early) ==
    [kind |-> "read", max |-> max, todo |-> todo, got |-> got, early |-> early]

ResetOp(todo) == [kind |-> "reset", todo |-> todo]

\* update_config, having stored group_size but not yet uid_dedup
FieldsOp(dedup) == [kind |-> "fields", dedup |-> dedup]

\* update_config: shards yet to be told, and the version they are told of
ConfigOp(todo, version) == [kind |-> "config", todo |-> todo, version |-> version]

\* get_status: shards yet to answer, and the sums so far
StatusOp(todo, sums) == [kind |-> "status", todo |-> todo, sums |-> sums]

Pending(t, op) == calls' = [calls EXCEPT ![t] = op]
Starts(t) == calls[t] = Idle
Finished(t, kind) == calls[t].kind = kind /\ calls[t].todo = {}

\* t is in the middle of its batch on shard s
Busy(t, s) ==
    /\ calls[t].kind = "batch"
    /\ calls[t].parts[s] \notin {{}, by_shard(calls[t].asked)[s]}

\* shard s can take the next message
CoreFree(s) == \A t \in Tasks : ~Busy(t, s)

\* shard s takes the message that call t has sent to it
At(t, kind, s) == calls[t].kind = kind /\ s \in calls[t].todo /\ CoreFree(s)

\* history: call t is to find the groups of S
Expects(t, S) == owed' = [owed EXCEPT ![t] = S] /\ UNCHANGED overtaken

\* history: a call is answered
Returns(t) ==
    /\ Pending(t, Idle)
    /\ owed' = [owed EXCEPT ![t] = {}]
    /\ overtaken' = overtaken \ {t}

\* history: the groups of S are removed, by the call in By or by nobody's
Removes(S, By) ==
    /\ owed' = [t \in Tasks |-> owed[t] \ S]
    /\ overtaken' = overtaken \union
         IF S \intersect Queue!TheReady = {} THEN {}
         ELSE {t \in Tasks \ By : calls[t] # Idle}

-----------------------------------------------------------------------------
(* Writing *)

\* the values shard s may find in the two fields: it reads them while another
\* core may be changing them
SizesSeen(s) == {versions[k].group_size : k \in settled[s] .. Len(versions)}
DedupsSeen(s) == {versions[k].uid_dedup : k \in settled[s] .. Len(versions)}

\* BufferShard::write rejects u
Rejects(i, u) ==
    /\ TRUE \in DedupsSeen(shard_for[i])
    /\ u \in seen[shard_for[i]]
    /\ UNCHANGED shard_vars

\* BufferShard::write takes u in
Accepts(i, u) ==
    LET s == shard_for[i]
    IN  /\ \E size \in SizesSeen(s) : Queue!Collect(i, u, size)
        /\ \E dedup \in DedupsSeen(s) :
             /\ dedup => u \notin seen[s]
             /\ seen' = IF dedup THEN [seen EXCEPT ![s] = @ \union {u}] ELSE seen
        /\ totals' = [totals EXCEPT ![s].trajectories = @ + 1]
        /\ stored' = stored \union {u}

\* write(): one message, and its answer is passed on
write(i, u) ==
    /\ CoreFree(shard_for[i])
    /\ written < MaxWrites /\ written' = written + 1
    /\ Rejects(i, u) \/ Accepts(i, u)
    /\ UNCHANGED <<config_vars, losers, calls, watch>>

batch_write(t, b) ==
    /\ Starts(t)
    /\ written + Len(b) <= MaxWrites /\ written' = written + Len(b)
    /\ Pending(t, BatchOp(b, by_shard(b), 0))
    /\ UNCHANGED <<shard_vars, config_vars, losers, watch>>

\* BufferShard::batch_write, from one trajectory to the next
BatchNext(t, s) ==
    LET op == calls[t]
    IN  /\ op.kind = "batch"
        /\ Busy(t, s) \/ CoreFree(s)
        /\ \E n \in op.parts[s] :
             /\ \A m \in op.parts[s] : n <= m
             /\ LET x == op.asked[n]
                    rest == [op.parts EXCEPT ![s] = @ \ {n}]
                IN  \/ Rejects(x[1], x[2]) /\ Pending(t, BatchOp(op.asked, rest, op.total))
                    \/ Accepts(x[1], x[2]) /\ Pending(t, BatchOp(op.asked, rest, op.total + 1))
        /\ UNCHANGED <<config_vars, history, watch>>

BatchWritten(t) == calls[t].kind = "batch" /\ \A s \in Shards : calls[t].parts[s] = {}

BatchDone(t) ==
    /\ BatchWritten(t) /\ Returns(t)
    /\ UNCHANGED <<shard_vars, config_vars, history>>

-----------------------------------------------------------------------------
(* Reading *)

NoneGot == [s \in Shards |-> 0]

\* groups from shards up to s, in the order of the merged answer
GotUpTo(op, s) == SumFunctionOnSet(op.got, 0 .. s)

read_ready_groups(t, max) ==
    /\ Starts(t) /\ Pending(t, ReadOp(max, Shards, NoneGot, FALSE))
    /\ Expects(t, Queue!TheReady)
    /\ UNCHANGED <<shard_vars, config_vars, history>>

\* mutant: the shard is not given the limit
Taken_Unlimited(max, R) == {R}

\* what a shard may hand over of its ready groups R: any max of them, as their
\* order is that of a hash table
Taken(max, R) ==
    IF max = 0 \/ Cardinality(R) <= max THEN {R} ELSE kSubset(max, R)

\* BufferShard::read_ready_groups
ReadShard(t, s) ==
    /\ At(t, "read", s)
    /\ \E S \in Taken(calls[t].max, ReadyIn(s)) :
         /\ Queue!HandOver(S) /\ Removes(S, {t})
         /\ totals' = [totals EXCEPT ![s].consumed = @ + Trajectories(S)]
         /\ Pending(t, ReadOp(calls[t].max, calls[t].todo \ {s},
                              [calls[t].got EXCEPT ![s] = Cardinality(S)], calls[t].early))
    /\ UNCHANGED <<seen, stored, config_vars, history>>

\* the answers are merged in the order of the shards and cut to the limit
ReadDone(t) ==
    /\ Finished(t, "read") /\ Returns(t)
    /\ LET op == calls[t]
       IN  losers' = losers \union
             {s \in Shards : op.max > 0 /\ op.got[s] > 0 /\ GotUpTo(op, s) > op.max}
    /\ UNCHANGED <<shard_vars, config_vars, written>>

read_ready_groups_blocking(t, max) ==
    /\ Starts(t) /\ Pending(t, ProbeOp(max, Shards, FALSE, FALSE))
    /\ Expects(t, Queue!TheReady)
    /\ UNCHANGED <<shard_vars, config_vars, history>>

\* mutant: any group counts
has_ready_groups_Any(s) == HeldBy(s) # {}

\* BufferShard::has_ready_groups
has_ready_groups(s) == ReadyIn(s) # {}

ProbeShard(t, s) ==
    /\ At(t, "probe", s)
    /\ Pending(t, ProbeOp(calls[t].max, calls[t].todo \ {s},
                          calls[t].found \/ has_ready_groups(s), calls[t].expired))
    /\ UNCHANGED <<shard_vars, config_vars, history, watch>>

\* the clock passes the deadline of t
Deadline(t) ==
    /\ calls[t].kind = "probe" /\ ~calls[t].expired
    /\ Pending(t, ProbeOp(calls[t].max, calls[t].todo, calls[t].found, TRUE))
    /\ UNCHANGED <<shard_vars, config_vars, history, watch>>

\* mutant: the deadline is not looked at
ProbeDone_Patient(t) ==
    /\ Finished(t, "probe")
    /\ IF calls[t].found
       THEN Pending(t, ReadOp(calls[t].max, Shards, NoneGot, ~calls[t].expired))
       ELSE Pending(t, ProbeOp(calls[t].max, Shards, FALSE, FALSE))
    /\ UNCHANGED <<shard_vars, config_vars, history, watch>>

\* one round is over: read, or sleep and ask again
ProbeDone(t) ==
    /\ Finished(t, "probe")
    /\ IF calls[t].found \/ calls[t].expired
       THEN Pending(t, ReadOp(calls[t].max, Shards, NoneGot, ~calls[t].expired))
       ELSE Pending(t, ProbeOp(calls[t].max, Shards, FALSE, FALSE))
    /\ UNCHANGED <<shard_vars, config_vars, history, watch>>

-----------------------------------------------------------------------------
(* Managing *)

delete_instance(i) ==
    /\ CoreFree(shard_for[i]) /\ i \in DOMAIN held
    /\ Queue!Discard({i}) /\ Removes({i}, {})
    /\ UNCHANGED <<seen, totals, stored, config_vars, history, calls>>

reset(t) ==
    /\ Starts(t) /\ Pending(t, ResetOp(Shards))
    /\ Expects(t, DOMAIN held)
    /\ UNCHANGED <<shard_vars, config_vars, history>>

Zero == [trajectories |-> 0, consumed |-> 0]

\* mutant: total_consumed_ is not cleared
ResetShard_KeepsConsumed(t, s) ==
    /\ At(t, "reset", s)
    /\ Queue!Discard(HeldBy(s)) /\ Removes(HeldBy(s), {t})
    /\ seen' = [seen EXCEPT ![s] = {}]
    /\ totals' = [totals EXCEPT ![s].trajectories = 0]
    /\ Pending(t, ResetOp(calls[t].todo \ {s}))
    /\ UNCHANGED <<stored, config_vars, history>>

\* mutant: groups_ is not cleared
ResetShard_KeepsGroups(t, s) ==
    /\ At(t, "reset", s)
    /\ seen' = [seen EXCEPT ![s] = {}]
    /\ totals' = [totals EXCEPT ![s] = Zero]
    /\ Pending(t, ResetOp(calls[t].todo \ {s}))
    /\ UNCHANGED <<held, out, stored, config_vars, history, watch>>

\* BufferShard::reset
ResetShard(t, s) ==
    /\ At(t, "reset", s)
    /\ Queue!Discard(HeldBy(s)) /\ Removes(HeldBy(s), {t})
    /\ seen' = [seen EXCEPT ![s] = {}]
    /\ totals' = [totals EXCEPT ![s] = Zero]
    /\ Pending(t, ResetOp(calls[t].todo \ {s}))
    /\ UNCHANGED <<stored, config_vars, history>>

NoSums == [trajectories |-> 0, consumed |-> 0, pending |-> 0, incomplete |-> 0]

get_status(t) ==
    /\ Starts(t) /\ Pending(t, StatusOp(Shards, NoSums))
    /\ UNCHANGED <<shard_vars, config_vars, history, watch>>

\* the sums with what shard s adds to them
Plus(sums, s) ==
    [trajectories |-> sums.trajectories + totals[s].trajectories,
     consumed |-> sums.consumed + totals[s].consumed,
     pending |-> sums.pending + Cardinality(ReadyIn(s)),
     incomplete |-> sums.incomplete + Cardinality(HeldBy(s) \ ReadyIn(s))]

\* BufferShard::get_status, added to what the other shards have said
StatusShard(t, s) ==
    /\ At(t, "status", s)
    /\ Pending(t, StatusOp(calls[t].todo \ {s}, Plus(calls[t].sums, s)))
    /\ UNCHANGED <<shard_vars, config_vars, history, watch>>

\* a request without group_size leaves it alone; uid_dedup is stored always
update_config(t, size, dedup) ==
    /\ Starts(t) /\ Pending(t, FieldsOp(dedup))
    /\ Len(versions) < MaxVersions
    /\ versions' = IF size = 0 THEN versions
                   ELSE Append(versions, [config EXCEPT !.group_size = size])
    /\ UNCHANGED <<shard_vars, settled, history, watch>>

\* mutant: the shards are told before the last field is stored
StoreDedup_TellsFirst(t) ==
    /\ calls[t].kind = "fields"
    /\ versions' = Append(versions, [config EXCEPT !.uid_dedup = calls[t].dedup])
    /\ Pending(t, ConfigOp(Shards, Len(versions)))
    /\ UNCHANGED <<shard_vars, settled, history, watch>>

\* mutant: off by one
StoreDedup_TellsNext(t) ==
    /\ calls[t].kind = "fields"
    /\ versions' = Append(versions, [config EXCEPT !.uid_dedup = calls[t].dedup])
    /\ Pending(t, ConfigOp(Shards, Len(versions) + 2))
    /\ UNCHANGED <<shard_vars, settled, history, watch>>

StoreDedup(t) ==
    /\ calls[t].kind = "fields"
    /\ versions' = Append(versions, [config EXCEPT !.uid_dedup = calls[t].dedup])
    /\ Pending(t, ConfigOp(Shards, Len(versions) + 1))
    /\ UNCHANGED <<shard_vars, settled, history, watch>>

\* BufferShard::update_config: the message, not the pointer it carries, makes
\* the shard's core see what was stored before it was sent
ConfigShard(t, s) ==
    /\ At(t, "config", s)
    /\ settled' = [settled EXCEPT ![s] = IF @ < calls[t].version THEN calls[t].version ELSE @]
    /\ Pending(t, ConfigOp(calls[t].todo \ {s}, calls[t].version))
    /\ UNCHANGED <<shard_vars, versions, history, watch>>

\* reset, get_status or update_config is answered
Answered(t) ==
    /\ \E kind \in {"reset", "status", "config"} : Finished(t, kind)
    /\ Returns(t)
    /\ UNCHANGED <<shard_vars, config_vars, history>>

-----------------------------------------------------------------------------
(* The specification *)

Init ==
    /\ held = <<>> /\ out = [u \in Uids |-> 0]
    /\ seen = [s \in Shards |-> {}] /\ totals = [s \in Shards |-> Zero]
    /\ versions = <<start_config>>
    /\ settled = [s \in Shards |-> 1]
    /\ calls = [t \in Tasks |-> Idle]
    /\ written = 0 /\ stored = {} /\ losers = {}
    /\ owed = [t \in Tasks |-> {}] /\ overtaken = {}

Request ==
    \/ \E x \in Inputs : write(x[1], x[2])
    \/ \E i \in Instances : delete_instance(i)
    \/ \E t \in Tasks :
         \/ \E b \in Batches : batch_write(t, b)
         \/ \E max \in MaxGroupsArgs :
              read_ready_groups(t, max) \/ read_ready_groups_blocking(t, max)
         \/ reset(t) \/ get_status(t)
         \/ \E r \in ConfigRequests : update_config(t, r[1], r[2])

Continue(t) ==
    \/ \E s \in Shards :
         \/ BatchNext(t, s) \/ ReadShard(t, s) \/ ProbeShard(t, s)
         \/ ResetShard(t, s) \/ StatusShard(t, s) \/ ConfigShard(t, s)
    \/ BatchDone(t) \/ ReadDone(t) \/ ProbeDone(t) \/ StoreDedup(t) \/ Answered(t)

Next == Request \/ \E t \in Tasks : Continue(t) \/ Deadline(t)

Spec == Init /\ [][Next]_vars

\* each message is handled, each continuation runs, and time passes
Fairness == \A t \in Tasks : WF_vars(Continue(t)) /\ WF_vars(Deadline(t))

FairSpec == Spec /\ Fairness

-----------------------------------------------------------------------------
(* Properties *)

\* what a pending call holds; the sums of get_status are left to StatusConsistent
OpOK(op, last) ==
    \/ op = Idle
    \/ /\ op.kind = "batch" /\ op = BatchOp(op.asked, op.parts, op.total)
       /\ op.asked \in Batches /\ op.total \in Nat
       /\ op.parts \in [Shards -> SUBSET DOMAIN op.asked]
    \/ /\ op.kind = "probe" /\ op = ProbeOp(op.max, op.todo, op.found, op.expired)
       /\ op.max \in MaxGroupsArgs /\ op.todo \subseteq Shards
       /\ op.found \in BOOLEAN /\ op.expired \in BOOLEAN
    \/ /\ op.kind = "read" /\ op = ReadOp(op.max, op.todo, op.got, op.early)
       /\ op.max \in MaxGroupsArgs /\ op.todo \subseteq Shards
       /\ op.got \in [Shards -> Nat] /\ op.early \in BOOLEAN
    \/ op.kind = "reset" /\ op = ResetOp(op.todo) /\ op.todo \subseteq Shards
    \/ op.kind = "fields" /\ op = FieldsOp(op.dedup) /\ op.dedup \in BOOLEAN
    \/ /\ op.kind = "config" /\ op = ConfigOp(op.todo, op.version)
       /\ op.todo \subseteq Shards /\ op.version \in 1 .. last
    \/ op.kind = "status" /\ op = StatusOp(op.todo, op.sums) /\ op.todo \subseteq Shards

\* Types: groups are filed under their own instance, what a shard has been told
\* of the configuration is no later than the present, and a call holds what its
\* kind captures.
TypeOK ==
    /\ DOMAIN held \subseteq Instances
    /\ \A i \in DOMAIN held : held[i] \in Group /\ held[i].instance_id = i
    /\ seen \in [Shards -> SUBSET Uids]
    /\ versions \in Seq(Config) /\ settled \in [Shards -> 1 .. Len(versions)]
    /\ DOMAIN calls = Tasks /\ \A t \in Tasks : OpOK(calls[t], Len(versions))
    /\ written \in Nat /\ stored \subseteq Uids /\ losers \subseteq Shards
    /\ owed \in [Tasks -> SUBSET Instances] /\ overtaken \subseteq Tasks

GotNothing(op) == \A s \in Shards : op.got[s] = 0

\* No group slips through a sweep although the shards are visited one after the
\* other and other calls run in between: a reset has removed every group there
\* was, a read without a limit every group that was ready, when it was called;
\* and a read that finds nothing, or a round of has_ready_groups that says there
\* is nothing, tells the truth about the groups that were ready at the call.
SweepsComplete ==
    \A t \in Tasks :
        \/ Finished(t, "reset")
        \/ Finished(t, "read") /\ (calls[t].max = 0 \/ GotNothing(calls[t]))
        \/ Finished(t, "probe") /\ ~calls[t].found
        => owed[t] = {}

\* read_ready_groups_blocking may come back with nothing before its deadline,
\* as has_ready_groups and read_ready_groups are different messages; but only
\* if in the meantime somebody else has removed a ready group.
EarlyEmptyIsOvertaken ==
    \A t \in Tasks :
        Finished(t, "read") /\ calls[t].early /\ GotNothing(calls[t]) => t \in overtaken

\* The limit of a read is applied by each shard and again to the merged answer,
\* and what is cut off is lost; but the groups of the first shard never are.
FirstShardNeverLoses == 0 \notin losers

\* When batch_write is answered each of its uids has been stored, if not by this
\* call then by the one that made it a duplicate.
BatchIsStored ==
    \A t \in Tasks : BatchWritten(t) =>
        \A n \in DOMAIN calls[t].asked : calls[t].asked[n][2] \in stored

\* get_status asks the shards at different times; still the groups it counts
\* are covered by the trajectories that it says have been written and not read.
StatusConsistent ==
    \A t \in Tasks : calls[t].kind = "status" =>
        LET sums == calls[t].sums
        IN  sums.consumed + sums.pending + sums.incomplete <= sums.trajectories

\* Once no update_config is pending, no shard works with an outdated value,
\* however the updates and their broadcasts overlapped.
ConfigSettles ==
    (\A t \in Tasks : calls[t].kind \notin {"fields", "config"})
        => settled = [s \in Shards |-> Len(versions)]

\* Every call is answered; a blocking read waits no longer than its deadline
\* even if no group ever becomes ready.
CallsReturn == \A t \in Tasks : (calls[t] # Idle) ~> (calls[t] = Idle)
=============================================================================
