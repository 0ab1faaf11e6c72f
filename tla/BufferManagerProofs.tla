------------------------- MODULE BufferManagerProofs -------------------------
(***************************************************************************)
(* What holds of the manager for any number of shards, calls and instances *)
(* and every interleaving of their messages: types, complete sweeps, the   *)
(* one reason for an early empty answer, and settled configurations.       *)
(***************************************************************************)
EXTENDS BufferManager, SumProofs, FiniteSetTheorems, SequenceTheorems, TLAPS

-----------------------------------------------------------------------------
(* Groups *)

(* What a shard hands over is a part of what is ready there, and it hands    *)
(* over nothing only if nothing is ready.  (Taken)                           *)
LEMMA TakenSome ==
    ASSUME NEW max \in Nat, NEW R, IsFiniteSet(R), NEW S \in Taken(max, R)
    PROVE  /\ S \subseteq R /\ Cardinality(S) \in Nat
           /\ max = 0 => S = R
           /\ Cardinality(S) = 0 => R = {}
<1>1. S \subseteq R
  BY DEF Taken, kSubset
<1>2. IsFiniteSet(S)
  BY <1>1, FS_Subset
<1>3. Cardinality(S) \in Nat /\ Cardinality(R) \in Nat
  BY <1>2, FS_CardinalityType
<1>4. max = 0 => S = R
  BY DEF Taken
<1>5. ASSUME Cardinality(S) = 0
      PROVE  R = {}
  <2>1. S = {}
    BY <1>2, <1>5, FS_EmptySet
  <2>2. CASE max = 0 \/ Cardinality(R) <= max
    BY <2>1, <2>2 DEF Taken
  <2>3. CASE ~(max = 0 \/ Cardinality(R) <= max)
    BY <2>3, <1>5, <1>3 DEF Taken, kSubset
  <2> QED
    BY <2>2, <2>3
<1> QED
  BY <1>1, <1>3, <1>4, <1>5

\* the groups there are: filed under their instance
HeldOK ==
    /\ DOMAIN held \subseteq Instances
    /\ \A i \in DOMAIN held : held[i] \in Group /\ held[i].instance_id = i

(* Collecting a trajectory adds a group or lengthens one, and takes nothing  *)
(* away from those that are ready.  (Collect)                                *)
LEMMA CollectHeld ==
    ASSUME HeldOK, NEW i \in Instances, NEW u \in Uids, NEW size \in GroupSizes,
           Queue!Collect(i, u, size)
    PROVE  /\ HeldOK'
           /\ DOMAIN held \subseteq DOMAIN held'
           /\ Queue!TheReady \subseteq (Queue!TheReady)'
<1> DEFINE g == IF i \in DOMAIN held THEN held[i]
                ELSE [instance_id |-> i, trajectories |-> <<>>,
                      group_size |-> size, is_complete |-> FALSE]
           n == Len(g.trajectories) + 1
           g2 == [g EXCEPT !.trajectories = Append(@, u),
                           !.is_complete = @ \/ n >= g.group_size]
<1>1. g \in Group /\ g.instance_id = i
  BY DEF HeldOK, Group
<1>2. held' = [j \in DOMAIN held \union {i} |-> IF j # i THEN held[j] ELSE g2]
  BY DEF Queue!Collect
<1>3. g2 \in Group /\ g2.instance_id = i
  <2> HIDE DEF g
  <2>1. Append(g.trajectories, u) \in Seq(Uids)
    BY <1>1 DEF Group
  <2>2. (g.is_complete \/ n >= g.group_size) \in BOOLEAN
    OBVIOUS
  <2> QED
    BY <1>1, <2>1, <2>2 DEF Group
<1>4. i \in DOMAIN held => (held[i].is_complete => g2.is_complete)
  BY <1>1 DEF Group
<1>5. DOMAIN held' = DOMAIN held \union {i}
  BY <1>2
<1> HIDE DEF g, n, g2
<1>6. HeldOK'
  BY <1>2, <1>3, <1>5 DEF HeldOK
<1>7. Queue!TheReady \subseteq (Queue!TheReady)'
  BY <1>2, <1>4, <1>5 DEF Queue!TheReady
<1> QED
  BY <1>5, <1>6, <1>7

(* Removing groups leaves the others as they are.  (Without)                 *)
LEMMA WithoutHeld ==
    ASSUME HeldOK, NEW S, held' = Queue!Without(S)
    PROVE  /\ HeldOK'
           /\ DOMAIN held' = DOMAIN held \ S
           /\ (Queue!TheReady)' = Queue!TheReady \ S
BY DEF HeldOK, Queue!Without, Queue!TheReady

(* Only instances have groups, and their shards are shards.                  *)
LEMMA HeldShards ==
    ASSUME HeldOK
    PROVE  /\ Queue!TheReady \subseteq DOMAIN held
           /\ \A i \in DOMAIN held : i \in Instances /\ shard_for[i] \in Shards
           /\ \A s : IsFiniteSet(ReadyIn(s)) /\ ReadyIn(s) \subseteq Queue!TheReady
<1>1. IsFiniteSet(DOMAIN held)
  BY RoutingAssumption, FS_Subset DEF HeldOK
<1> QED
  BY <1>1, RoutingAssumption, FS_Subset DEF HeldOK, Queue!TheReady, ReadyIn, HeldBy

-----------------------------------------------------------------------------
(* Pending calls *)

(* What a call of each kind holds.  (OpOK)                                   *)
LEMMA OpParts ==
    ASSUME NEW last \in Nat, NEW op, OpOK(op, last)
    PROVE  /\ op.kind \in {"idle", "batch", "probe", "read", "reset", "fields",
                           "config", "status"}
           /\ op.kind = "batch" =>
                /\ op = BatchOp(op.asked, op.parts, op.total)
                /\ op.asked \in Batches /\ op.total \in Nat
                /\ op.parts \in [Shards -> SUBSET DOMAIN op.asked]
           /\ op.kind = "probe" =>
                /\ op = ProbeOp(op.max, op.todo, op.found, op.expired)
                /\ op.max \in MaxGroupsArgs /\ op.todo \subseteq Shards
                /\ op.found \in BOOLEAN /\ op.expired \in BOOLEAN
           /\ op.kind = "read" =>
                /\ op = ReadOp(op.max, op.todo, op.got, op.early)
                /\ op.max \in MaxGroupsArgs /\ op.todo \subseteq Shards
                /\ op.got \in [Shards -> Nat] /\ op.early \in BOOLEAN
           /\ op.kind = "reset" => op = ResetOp(op.todo) /\ op.todo \subseteq Shards
           /\ op.kind = "fields" => op = FieldsOp(op.dedup) /\ op.dedup \in BOOLEAN
           /\ op.kind = "config" =>
                /\ op = ConfigOp(op.todo, op.version)
                /\ op.todo \subseteq Shards /\ op.version \in 1 .. last
           /\ op.kind = "status" => op = StatusOp(op.todo, op.sums) /\ op.todo \subseteq Shards
<1>1. CASE op = Idle
  BY <1>1 DEF Idle
<1>2. CASE op # Idle
  BY <1>2 DEF OpOK
<1> QED
  BY <1>1, <1>2

(* Records of each kind are what they should be.  (OpOK)                     *)
LEMMA OpMade ==
    ASSUME NEW last \in Nat
    PROVE  /\ OpOK(Idle, last)
           /\ \A asked \in Batches, total \in Nat : \A parts :
                parts \in [Shards -> SUBSET DOMAIN asked]
                  => OpOK(BatchOp(asked, parts, total), last)
           /\ \A max \in MaxGroupsArgs, todo \in SUBSET Shards, found \in BOOLEAN,
                 expired \in BOOLEAN : OpOK(ProbeOp(max, todo, found, expired), last)
           /\ \A max \in MaxGroupsArgs, todo \in SUBSET Shards, got \in [Shards -> Nat],
                 early \in BOOLEAN : OpOK(ReadOp(max, todo, got, early), last)
           /\ \A todo \in SUBSET Shards : OpOK(ResetOp(todo), last)
           /\ \A dedup \in BOOLEAN : OpOK(FieldsOp(dedup), last)
           /\ \A todo \in SUBSET Shards, version \in 1 .. last :
                OpOK(ConfigOp(todo, version), last)
           /\ \A todo \in SUBSET Shards : \A sums : OpOK(StatusOp(todo, sums), last)
<1>1. OpOK(Idle, last)
  BY DEF OpOK
<1>2. \A asked \in Batches, total \in Nat : \A parts :
        parts \in [Shards -> SUBSET DOMAIN asked]
          => OpOK(BatchOp(asked, parts, total), last)
  BY DEF OpOK, BatchOp
<1>3. \A max \in MaxGroupsArgs, todo \in SUBSET Shards, found \in BOOLEAN,
         expired \in BOOLEAN : OpOK(ProbeOp(max, todo, found, expired), last)
  BY DEF OpOK, ProbeOp
<1>4. \A max \in MaxGroupsArgs, todo \in SUBSET Shards, got \in [Shards -> Nat],
         early \in BOOLEAN : OpOK(ReadOp(max, todo, got, early), last)
  BY DEF OpOK, ReadOp
<1>5. \A todo \in SUBSET Shards : OpOK(ResetOp(todo), last)
  BY DEF OpOK, ResetOp
<1>6. \A dedup \in BOOLEAN : OpOK(FieldsOp(dedup), last)
  BY DEF OpOK, FieldsOp
<1>7. \A todo \in SUBSET Shards, version \in 1 .. last :
        OpOK(ConfigOp(todo, version), last)
  BY DEF OpOK, ConfigOp
<1>8. \A todo \in SUBSET Shards : \A sums : OpOK(StatusOp(todo, sums), last)
  BY DEF OpOK, StatusOp
<1> QED
  BY <1>1, <1>2, <1>3, <1>4, <1>5, <1>6, <1>7, <1>8

(* A call stays well typed while configurations are added.  (OpOK)           *)
LEMMA OpStable ==
    ASSUME NEW last \in Nat, NEW last2 \in Nat, last <= last2, NEW op, OpOK(op, last)
    PROVE  OpOK(op, last2)
<1>1. 1 .. last \subseteq 1 .. last2
  OBVIOUS
<1> QED
  BY <1>1 DEF OpOK

\* calls os are well typed
OpsOK(os, last) == DOMAIN os = Tasks /\ \A t \in Tasks : OpOK(os[t], last)

(* One call goes on, the others stay where they are.  (Pending)              *)
LEMMA OpsUpdate ==
    ASSUME NEW os, NEW last \in Nat, NEW last2 \in Nat, last <= last2, OpsOK(os, last),
           NEW t \in Tasks, NEW op, OpOK(op, last2)
    PROVE  OpsOK([os EXCEPT ![t] = op], last2)
<1>1. \A x \in Tasks : OpOK(os[x], last2)
  BY OpStable DEF OpsOK
<1> QED
  BY <1>1 DEF OpsOK

-----------------------------------------------------------------------------
(* Types *)

SeenOK == seen \in [Shards -> SUBSET Uids] /\ stored \subseteq Uids

ConfigOK == versions \in Seq(Config) /\ settled \in [Shards -> 1 .. Len(versions)]

HistoryOK == written \in Nat /\ losers \subseteq Shards

WatchOK == owed \in [Tasks -> SUBSET Instances] /\ overtaken \subseteq Tasks

(* The types in parts.  (TypeOK)                                             *)
LEMMA TypeParts ==
    TypeOK <=> /\ HeldOK /\ SeenOK /\ ConfigOK /\ HistoryOK /\ WatchOK
               /\ OpsOK(calls, Len(versions))
BY DEF TypeOK, HeldOK, SeenOK, ConfigOK, HistoryOK, WatchOK, OpsOK

(* A shard reads configurations that there have been.  (SizesSeen)           *)
LEMMA ConfigSeen ==
    ASSUME ConfigOK, NEW s \in Shards
    PROVE  SizesSeen(s) \subseteq GroupSizes /\ DedupsSeen(s) \subseteq BOOLEAN
<1>1. \A k \in settled[s] .. Len(versions) : versions[k] \in Config
  BY DEF ConfigOK
<1> QED
  BY <1>1 DEF SizesSeen, DedupsSeen, Config

(* A trajectory is taken in or rejected: groups and filters keep their       *)
(* types.  (BufferShard::write)                                              *)
LEMMA WriteTypes ==
    ASSUME HeldOK, SeenOK, ConfigOK, NEW x \in Inputs,
           Rejects(x[1], x[2]) \/ Accepts(x[1], x[2])
    PROVE  /\ HeldOK' /\ SeenOK'
           /\ DOMAIN held \subseteq DOMAIN held'
           /\ Queue!TheReady \subseteq (Queue!TheReady)'
<1>1. x[1] \in Instances /\ x[2] \in Uids /\ shard_for[x[1]] \in Shards
  BY ArgumentAssumption, RoutingAssumption
<1>2. CASE Rejects(x[1], x[2])
  BY <1>2 DEF Rejects, shard_vars, HeldOK, SeenOK, Queue!TheReady
<1>3. CASE Accepts(x[1], x[2])
  <2>1. PICK size \in SizesSeen(shard_for[x[1]]) : Queue!Collect(x[1], x[2], size)
    BY <1>3 DEF Accepts
  <2>2. size \in GroupSizes
    BY <1>1, <2>1, ConfigSeen
  <2>3. SeenOK'
    BY <1>1, <1>3 DEF Accepts, SeenOK
  <2> QED
    BY <1>1, <2>1, <2>2, <2>3, CollectHeld
<1> QED
  BY <1>2, <1>3

(* The histories keep their types.  (Expects, Returns, Removes)              *)
LEMMA WatchTypes ==
    ASSUME WatchOK, NEW t \in Tasks
    PROVE  /\ \A S \in SUBSET Instances : Expects(t, S) => WatchOK'
           /\ Returns(t) => WatchOK'
           /\ \A S, By : Removes(S, By) => WatchOK'
           /\ UNCHANGED watch => WatchOK'
BY DEF WatchOK, Expects, Returns, Removes, watch

\* everything but the pending calls and the watch is unchanged
RestUnchanged == UNCHANGED <<shard_vars, config_vars, history>>

(* A step that only changes pending calls keeps the types of the rest.       *)
LEMMA RestTypes ==
    ASSUME TypeOK, RestUnchanged
    PROVE  /\ HeldOK' /\ SeenOK' /\ ConfigOK' /\ HistoryOK'
           /\ Len(versions) \in Nat /\ Len(versions') = Len(versions)
BY TypeParts DEF RestUnchanged, shard_vars, config_vars, history, HeldOK, SeenOK,
                 ConfigOK, HistoryOK

(* A call that goes on while only the watch changes keeps the types.         *)
LEMMA CallTypes ==
    ASSUME TypeOK, RestUnchanged, WatchOK', NEW t \in Tasks, NEW op,
           Pending(t, op), OpOK(op, Len(versions))
    PROVE  TypeOK'
<1>1. /\ HeldOK' /\ SeenOK' /\ ConfigOK' /\ HistoryOK'
      /\ Len(versions) \in Nat /\ Len(versions') = Len(versions)
  BY RestTypes
<1>2. OpsOK(calls, Len(versions))
  BY TypeParts
<1>3. OpsOK([calls EXCEPT ![t] = op], Len(versions))
  BY <1>1, <1>2, OpsUpdate
<1>4. OpsOK(calls', Len(versions'))
  BY <1>1, <1>3 DEF Pending
<1> QED
  BY <1>1, <1>4 DEF TypeOK, HeldOK, SeenOK, ConfigOK, HistoryOK, WatchOK, OpsOK

(* What the parts of a call's operation look like in a well-typed state.     *)
LEMMA CallParts ==
    ASSUME TypeOK, NEW t \in Tasks
    PROVE  OpOK(calls[t], Len(versions)) /\ Len(versions) \in Nat
BY DEF TypeOK

(* A call goes on: the calls keep their types.  (Pending)                    *)
LEMMA PendingTypes ==
    ASSUME TypeOK, NEW t \in Tasks, NEW op, Pending(t, op), OpOK(op, Len(versions))
    PROVE  OpsOK(calls', Len(versions))
<1>1. OpsOK(calls, Len(versions)) /\ Len(versions) \in Nat
  BY TypeParts, CallParts
<1>2. OpsOK([calls EXCEPT ![t] = op], Len(versions))
  BY <1>1, OpsUpdate
<1> QED
  BY <1>2 DEF Pending

(* write keeps the types.                                                    *)
LEMMA WriteStep ==
    ASSUME TypeOK, NEW x \in Inputs, write(x[1], x[2])
    PROVE  TypeOK'
<1>1. HeldOK' /\ SeenOK'
  BY TypeParts, WriteTypes DEF write
<1>2. WatchOK' /\ ConfigOK' /\ HistoryOK' /\ OpsOK(calls', Len(versions'))
  BY TypeParts DEF write, watch, config_vars, WatchOK, ConfigOK, HistoryOK
<1> QED
  BY <1>1, <1>2 DEF TypeOK, HeldOK, SeenOK, ConfigOK, HistoryOK, WatchOK, OpsOK

(* batch_write keeps the types: a part is a set of positions.                *)
LEMMA BatchStep ==
    ASSUME TypeOK, NEW t \in Tasks, NEW b \in Batches, batch_write(t, b)
    PROVE  TypeOK'
<1>1. by_shard(b) \in [Shards -> SUBSET DOMAIN b]
  BY DEF by_shard, For
<1>2. Len(versions) \in Nat
  BY CallParts
<1>3. OpOK(BatchOp(b, by_shard(b), 0), Len(versions))
  BY <1>1, <1>2, OpMade
<1>4. OpsOK(calls', Len(versions))
  BY <1>3, PendingTypes DEF batch_write
<1>5. Len(b) \in Nat
  BY ArgumentAssumption
<1>6. HeldOK' /\ SeenOK' /\ ConfigOK' /\ HistoryOK' /\ WatchOK' /\ versions' = versions
  BY <1>5, TypeParts DEF batch_write, shard_vars, config_vars, watch, HeldOK, SeenOK,
                         ConfigOK, HistoryOK, WatchOK
<1> QED
  BY <1>4, <1>6 DEF TypeOK, HeldOK, SeenOK, ConfigOK, HistoryOK, WatchOK, OpsOK

(* What BatchNext does: a position of one shard is done.                     *)
LEMMA BatchNextParts ==
    ASSUME TypeOK, NEW t \in Tasks, NEW s \in Shards, BatchNext(t, s)
    PROVE  \E n \in DOMAIN calls[t].asked, total \in Nat :
             LET x == calls[t].asked[n]
                 rest == [calls[t].parts EXCEPT ![s] = @ \ {n}]
             IN  /\ calls[t].kind = "batch" /\ x \in Inputs
                 /\ Rejects(x[1], x[2]) \/ Accepts(x[1], x[2])
                 /\ Pending(t, BatchOp(calls[t].asked, rest, total))
                 /\ OpOK(BatchOp(calls[t].asked, rest, total), Len(versions))
<1> DEFINE op == calls[t]
<1>1. /\ op.kind = "batch" /\ op.asked \in Batches /\ op.total \in Nat
      /\ op.parts \in [Shards -> SUBSET DOMAIN op.asked]
  BY CallParts, OpParts DEF BatchNext
<1>2. PICK n \in op.parts[s] :
        LET x == op.asked[n]
            rest == [op.parts EXCEPT ![s] = @ \ {n}]
        IN  \/ Rejects(x[1], x[2]) /\ Pending(t, BatchOp(op.asked, rest, op.total))
            \/ Accepts(x[1], x[2]) /\ Pending(t, BatchOp(op.asked, rest, op.total + 1))
  BY DEF BatchNext
<1> DEFINE x == op.asked[n]
           rest == [op.parts EXCEPT ![s] = @ \ {n}]
<1>3. n \in DOMAIN op.asked
  BY <1>1
<1>4. x \in Inputs
  BY <1>1, <1>3, ArgumentAssumption
<1>5. rest \in [Shards -> SUBSET DOMAIN op.asked]
  BY <1>1
<1>6. \A total \in Nat : OpOK(BatchOp(op.asked, rest, total), Len(versions))
  BY <1>1, <1>5, CallParts, OpMade
<1> HIDE DEF x, rest
<1>7. CASE Rejects(x[1], x[2]) /\ Pending(t, BatchOp(op.asked, rest, op.total))
  BY <1>1, <1>3, <1>4, <1>6, <1>7 DEF x, rest
<1>8. CASE Accepts(x[1], x[2]) /\ Pending(t, BatchOp(op.asked, rest, op.total + 1))
  <2>1. op.total + 1 \in Nat
    BY <1>1
  <2> QED
    BY <1>1, <1>3, <1>4, <1>6, <1>8, <2>1 DEF x, rest
<1> QED
  BY <1>2, <1>7, <1>8 DEF x, rest

(* BatchNext keeps the types.                                                *)
LEMMA BatchNextStep ==
    ASSUME TypeOK, NEW t \in Tasks, NEW s \in Shards, BatchNext(t, s)
    PROVE  TypeOK'
<1>1. PICK n \in DOMAIN calls[t].asked, total \in Nat :
        LET x == calls[t].asked[n]
            rest == [calls[t].parts EXCEPT ![s] = @ \ {n}]
        IN  /\ calls[t].kind = "batch" /\ x \in Inputs
            /\ Rejects(x[1], x[2]) \/ Accepts(x[1], x[2])
            /\ Pending(t, BatchOp(calls[t].asked, rest, total))
            /\ OpOK(BatchOp(calls[t].asked, rest, total), Len(versions))
  BY BatchNextParts
<1>2. HeldOK' /\ SeenOK'
  BY <1>1, TypeParts, WriteTypes
<1>3. OpsOK(calls', Len(versions))
  BY <1>1, PendingTypes
<1>4. ConfigOK' /\ HistoryOK' /\ WatchOK' /\ versions' = versions
  BY TypeParts DEF BatchNext, config_vars, history, watch, ConfigOK, HistoryOK, WatchOK
<1> QED
  BY <1>2, <1>3, <1>4 DEF TypeOK, HeldOK, SeenOK, ConfigOK, HistoryOK, WatchOK, OpsOK

(* Whoever removes groups and only goes on keeps the types.                  *)
(* (ReadShard, ResetShard)                                                   *)
LEMMA RemoveTypes ==
    ASSUME TypeOK, NEW t \in Tasks, NEW op, Pending(t, op), OpOK(op, Len(versions)),
           NEW S, held' = Queue!Without(S), NEW By, Removes(S, By),
           SeenOK', UNCHANGED <<config_vars, history>>
    PROVE  TypeOK'
<1>1. HeldOK'
  BY TypeParts, WithoutHeld
<1>2. OpsOK(calls', Len(versions))
  BY PendingTypes
<1>3. WatchOK'
  BY TypeParts, WatchTypes
<1>4. ConfigOK' /\ HistoryOK' /\ versions' = versions
  BY TypeParts DEF config_vars, history, ConfigOK, HistoryOK
<1> QED
  BY <1>1, <1>2, <1>3, <1>4 DEF TypeOK, HeldOK, SeenOK, ConfigOK, HistoryOK, WatchOK, OpsOK

(* What ReadShard does: it hands over some of what is ready, and nothing     *)
(* only if nothing is.                                                       *)
LEMMA ReadShardParts ==
    ASSUME TypeOK, NEW t \in Tasks, NEW s \in Shards, ReadShard(t, s)
    PROVE  \E S \in SUBSET ReadyIn(s) :
             LET op == calls[t]
                 next == ReadOp(op.max, op.todo \ {s},
                                [op.got EXCEPT ![s] = Cardinality(S)], op.early)
             IN  /\ op.kind = "read" /\ s \in op.todo
                 /\ op = ReadOp(op.max, op.todo, op.got, op.early)
                 /\ op.max \in Nat /\ op.got \in [Shards -> Nat]
                 /\ Cardinality(S) \in Nat
                 /\ op.max = 0 => S = ReadyIn(s)
                 /\ Cardinality(S) = 0 => ReadyIn(s) = {}
                 /\ held' = Queue!Without(S) /\ Removes(S, {t})
                 /\ Pending(t, next) /\ OpOK(next, Len(versions))
<1> DEFINE op == calls[t]
<1>1. /\ op.kind = "read" /\ s \in op.todo
      /\ op = ReadOp(op.max, op.todo, op.got, op.early)
      /\ op.max \in MaxGroupsArgs /\ op.todo \subseteq Shards
      /\ op.got \in [Shards -> Nat] /\ op.early \in BOOLEAN
  BY CallParts, OpParts DEF ReadShard, At
<1>2. PICK S \in Taken(op.max, ReadyIn(s)) :
        /\ Queue!HandOver(S) /\ Removes(S, {t})
        /\ Pending(t, ReadOp(op.max, op.todo \ {s},
                          [op.got EXCEPT ![s] = Cardinality(S)], op.early))
  BY DEF ReadShard
<1>3. op.max \in Nat
  BY <1>1, ArgumentAssumption
<1>4. IsFiniteSet(ReadyIn(s))
  BY TypeParts, HeldShards
<1>5. /\ S \subseteq ReadyIn(s) /\ Cardinality(S) \in Nat
      /\ op.max = 0 => S = ReadyIn(s)
      /\ Cardinality(S) = 0 => ReadyIn(s) = {}
  BY <1>2, <1>3, <1>4, TakenSome
<1> DEFINE next == ReadOp(op.max, op.todo \ {s}, [op.got EXCEPT ![s] = Cardinality(S)], op.early)
<1>7. OpOK(next, Len(versions))
  <2>1. [op.got EXCEPT ![s] = Cardinality(S)] \in [Shards -> Nat]
    BY <1>1, <1>5
  <2>2. op.todo \ {s} \in SUBSET Shards
    BY <1>1
  <2> QED
    BY <1>1, <2>1, <2>2, CallParts, OpMade
<1>8. held' = Queue!Without(S)
  BY <1>2 DEF Queue!HandOver
<1>9. Pending(t, next)
  BY <1>2
<1> HIDE DEF next
<1>10. S \in SUBSET ReadyIn(s)
  BY <1>5
<1> QED
  BY <1>1, <1>2, <1>3, <1>5, <1>7, <1>8, <1>9, <1>10 DEF next

(* What ResetShard does: it removes all groups of the shard.                 *)
LEMMA ResetShardParts ==
    ASSUME TypeOK, NEW t \in Tasks, NEW s \in Shards, ResetShard(t, s)
    PROVE  /\ calls[t].kind = "reset" /\ s \in calls[t].todo
           /\ held' = Queue!Without(HeldBy(s)) /\ Removes(HeldBy(s), {t})
           /\ Pending(t, ResetOp(calls[t].todo \ {s}))
           /\ OpOK(ResetOp(calls[t].todo \ {s}), Len(versions))
<1>1. /\ calls[t].kind = "reset" /\ s \in calls[t].todo
      /\ calls[t].todo \ {s} \in SUBSET Shards
  BY CallParts, OpParts DEF ResetShard, At
<1>2. OpOK(ResetOp(calls[t].todo \ {s}), Len(versions))
  BY <1>1, CallParts, OpMade
<1> QED
  BY <1>1, <1>2 DEF ResetShard, Queue!Discard

(* What ProbeShard does: an answer is added.                                 *)
LEMMA ProbeShardParts ==
    ASSUME TypeOK, NEW t \in Tasks, NEW s \in Shards, ProbeShard(t, s)
    PROVE  LET op == calls[t]
               next == ProbeOp(op.max, op.todo \ {s}, op.found \/ has_ready_groups(s), op.expired)
           IN  /\ op.kind = "probe" /\ s \in op.todo /\ op.found \in BOOLEAN
               /\ Pending(t, next) /\ OpOK(next, Len(versions))
<1> DEFINE op == calls[t]
           found == op.found \/ has_ready_groups(s)
           next == ProbeOp(op.max, op.todo \ {s}, found, op.expired)
<1>1. /\ op.kind = "probe" /\ s \in op.todo /\ op.max \in MaxGroupsArgs
      /\ op.todo \ {s} \in SUBSET Shards /\ op.found \in BOOLEAN /\ op.expired \in BOOLEAN
  BY CallParts, OpParts DEF ProbeShard, At
<1>2. found \in BOOLEAN
  OBVIOUS
<1> HIDE DEF found
<1>3. OpOK(next, Len(versions))
  BY <1>1, <1>2, CallParts, OpMade
<1>4. Pending(t, next)
  BY DEF ProbeShard, found
<1> QED
  BY <1>1, <1>3, <1>4 DEF found

(* What Deadline and ProbeDone do.                                           *)
LEMMA ProbeParts ==
    ASSUME TypeOK, NEW t \in Tasks, Deadline(t) \/ ProbeDone(t)
    PROVE  \E next :
             /\ calls[t].kind = "probe" /\ Pending(t, next) /\ OpOK(next, Len(versions))
             /\ \/ next = ProbeOp(calls[t].max, calls[t].todo, calls[t].found, TRUE)
                \/ next = ProbeOp(calls[t].max, Shards, FALSE, FALSE)
                \/ /\ calls[t].found \/ calls[t].expired
                   /\ next = ReadOp(calls[t].max, Shards, NoneGot, ~calls[t].expired)
<1> DEFINE op == calls[t]
<1>1. /\ op.kind = "probe" /\ op.max \in MaxGroupsArgs /\ op.todo \in SUBSET Shards
      /\ op.found \in BOOLEAN /\ op.expired \in BOOLEAN
  BY CallParts, OpParts DEF Deadline, ProbeDone, Finished
<1>2. NoneGot \in [Shards -> Nat]
  BY DEF NoneGot
<1>3. /\ OpOK(ProbeOp(op.max, op.todo, op.found, TRUE), Len(versions))
      /\ OpOK(ProbeOp(op.max, Shards, FALSE, FALSE), Len(versions))
      /\ OpOK(ReadOp(op.max, Shards, NoneGot, ~op.expired), Len(versions))
  BY <1>1, <1>2, CallParts, OpMade
<1> QED
  BY <1>1, <1>3 DEF Deadline, ProbeDone

(* The requests that ask all shards start with a well-typed call.            *)
LEMMA StartParts ==
    ASSUME TypeOK, NEW max \in MaxGroupsArgs
    PROVE  /\ OpOK(ReadOp(max, Shards, NoneGot, FALSE), Len(versions))
           /\ OpOK(ProbeOp(max, Shards, FALSE, FALSE), Len(versions))
<1>1. NoneGot \in [Shards -> Nat]
  BY DEF NoneGot
<1>2. Len(versions) \in Nat
  BY DEF TypeOK
<1> QED
  BY <1>1, <1>2, OpMade

(* The reads keep the types.                                                 *)
LEMMA ExpectStep ==
    ASSUME TypeOK, NEW t \in Tasks, NEW max \in MaxGroupsArgs,
           read_ready_groups(t, max) \/ read_ready_groups_blocking(t, max)
    PROVE  TypeOK'
<1>1. /\ OpOK(ReadOp(max, Shards, NoneGot, FALSE), Len(versions))
      /\ OpOK(ProbeOp(max, Shards, FALSE, FALSE), Len(versions))
  BY StartParts
<1>2. Queue!TheReady \in SUBSET Instances
  BY DEF TypeOK, Queue!TheReady
<1>3. WatchOK'
  BY <1>2, TypeParts, WatchTypes DEF read_ready_groups, read_ready_groups_blocking
<1> QED
  BY <1>1, <1>3, CallTypes
     DEF read_ready_groups, read_ready_groups_blocking, RestUnchanged

(* update_config and StoreDedup keep the types: a configuration is added.    *)
LEMMA AppendTypes ==
    ASSUME TypeOK, NEW t \in Tasks, NEW op, Pending(t, op), NEW c \in Config,
           versions' = Append(versions, c), OpOK(op, Len(versions) + 1),
           UNCHANGED <<shard_vars, settled, history, watch>>
    PROVE  TypeOK'
<1>1. versions \in Seq(Config) /\ Len(versions) \in Nat
  BY TypeParts, CallParts DEF ConfigOK
<1>2. versions' \in Seq(Config) /\ Len(versions') = Len(versions) + 1
  BY <1>1
<1>3. ConfigOK'
  BY <1>1, <1>2, TypeParts DEF ConfigOK
<1>4. OpsOK([calls EXCEPT ![t] = op], Len(versions) + 1)
  BY <1>1, TypeParts, OpsUpdate
<1>5. OpsOK(calls', Len(versions'))
  BY <1>2, <1>4 DEF Pending
<1>6. HeldOK' /\ SeenOK' /\ HistoryOK' /\ WatchOK'
  BY TypeParts DEF shard_vars, history, watch, HeldOK, SeenOK, HistoryOK, WatchOK
<1> QED
  BY <1>3, <1>5, <1>6 DEF TypeOK, HeldOK, SeenOK, ConfigOK, HistoryOK, WatchOK, OpsOK

(* The present configuration is one.  (config)                               *)
LEMMA ConfigNow ==
    ASSUME ConfigOK
    PROVE  config \in Config /\ Len(versions) \in 1 .. Len(versions)
<1>1. 0 \in Shards
  BY RoutingAssumption DEF Shards
<1>2. settled[0] \in 1 .. Len(versions)
  BY <1>1 DEF ConfigOK
<1>3. Len(versions) \in 1 .. Len(versions)
  BY <1>2 DEF ConfigOK
<1> QED
  BY <1>3 DEF ConfigOK, config

(* A step of update_config that stores the first field keeps the types.      *)
LEMMA UpdateStep ==
    ASSUME TypeOK, NEW t \in Tasks, NEW r \in ConfigRequests, update_config(t, r[1], r[2])
    PROVE  TypeOK'
<1>1. /\ r[1] \in GroupSizes \union {0} /\ r[2] \in BOOLEAN
      /\ config \in Config /\ Len(versions) \in Nat
  BY ConfigAssumption, ConfigNow, TypeParts, CallParts
<1>2. \A last \in Nat : OpOK(FieldsOp(r[2]), last)
  BY <1>1, OpMade
<1>3. CASE r[1] = 0
  <2>1. RestUnchanged /\ WatchOK'
    BY <1>3, TypeParts, WatchTypes
       DEF update_config, RestUnchanged, shard_vars, config_vars, history
  <2> QED
    BY <1>1, <1>2, <2>1, CallTypes DEF update_config
<1>4. CASE r[1] # 0
  <2>1. [config EXCEPT !.group_size = r[1]] \in Config
    BY <1>1, <1>4 DEF Config
  <2> QED
    BY <1>1, <1>2, <1>4, <2>1, AppendTypes DEF update_config
<1> QED
  BY <1>3, <1>4

(* Storing the other field keeps the types: the version told is the last one.*)
LEMMA StoreDedupStep ==
    ASSUME TypeOK, NEW t \in Tasks, StoreDedup(t)
    PROVE  TypeOK'
<1>1. /\ calls[t].dedup \in BOOLEAN /\ config \in Config /\ Len(versions) \in Nat
  BY ConfigNow, TypeParts, CallParts, OpParts DEF StoreDedup
<1>2. OpOK(ConfigOp(Shards, Len(versions) + 1), Len(versions) + 1)
  BY <1>1, OpMade
<1>3. [config EXCEPT !.uid_dedup = calls[t].dedup] \in Config
  BY <1>1 DEF Config
<1> QED
  BY <1>2, <1>3, AppendTypes DEF StoreDedup

(* A shard that is told of the configuration keeps the types.                *)
LEMMA ConfigShardStep ==
    ASSUME TypeOK, NEW t \in Tasks, NEW s \in Shards, ConfigShard(t, s)
    PROVE  TypeOK'
<1>1. /\ calls[t].version \in 1 .. Len(versions)
      /\ calls[t].todo \ {s} \in SUBSET Shards
  BY CallParts, OpParts DEF ConfigShard, At
<1>2. OpOK(ConfigOp(calls[t].todo \ {s}, calls[t].version), Len(versions))
  BY <1>1, CallParts, OpMade
<1>3. OpsOK(calls', Len(versions))
  BY <1>2, PendingTypes DEF ConfigShard
<1>4. ConfigOK' /\ HeldOK' /\ SeenOK' /\ HistoryOK' /\ WatchOK' /\ versions' = versions
  BY <1>1, TypeParts DEF ConfigShard, shard_vars, history, watch, HeldOK, SeenOK,
                         ConfigOK, HistoryOK, WatchOK
<1> QED
  BY <1>3, <1>4 DEF TypeOK, HeldOK, SeenOK, ConfigOK, HistoryOK, WatchOK, OpsOK

(* A status call keeps the types, whatever its sums are.                     *)
LEMMA StatusStep ==
    ASSUME TypeOK, NEW t \in Tasks, get_status(t) \/ \E s \in Shards : StatusShard(t, s)
    PROVE  TypeOK'
<1>1. \E todo \in SUBSET Shards : \E sums :
        RestUnchanged /\ UNCHANGED watch /\ Pending(t, StatusOp(todo, sums))
  <2>1. CASE get_status(t)
    BY <2>1 DEF get_status, RestUnchanged
  <2>2. CASE \E s \in Shards : StatusShard(t, s)
    <3>1. PICK s \in Shards : StatusShard(t, s)
      BY <2>2
    <3>2. calls[t].todo \ {s} \in SUBSET Shards
      BY <3>1, CallParts, OpParts DEF StatusShard, At
    <3> QED
      BY <3>1, <3>2 DEF StatusShard, RestUnchanged
  <2> QED
    BY <2>1, <2>2
<1>2. PICK todo \in SUBSET Shards : \E sums :
        RestUnchanged /\ UNCHANGED watch /\ Pending(t, StatusOp(todo, sums))
  BY <1>1
<1>a. PICK sums : RestUnchanged /\ UNCHANGED watch /\ Pending(t, StatusOp(todo, sums))
  BY <1>2
<1>3. OpOK(StatusOp(todo, sums), Len(versions))
  BY CallParts, OpMade
<1>4. WatchOK'
  BY <1>a, TypeParts, WatchTypes
<1> QED
  BY <1>a, <1>3, <1>4, CallTypes

(* A call that is answered leaves the rest well typed.  (Returns)            *)
LEMMA ReturnStep ==
    ASSUME TypeOK, NEW t \in Tasks, BatchDone(t) \/ ReadDone(t) \/ Answered(t)
    PROVE  TypeOK'
<1>1. /\ Returns(t) /\ UNCHANGED <<shard_vars, config_vars, written>>
      /\ losers' = losers \/ losers' \subseteq losers \union Shards
  BY DEF BatchDone, ReadDone, Answered, history
<1>2. WatchOK' /\ OpsOK(calls', Len(versions))
  BY <1>1, TypeParts, WatchTypes, CallParts, OpMade, PendingTypes DEF Returns
<1>3. HeldOK' /\ SeenOK' /\ ConfigOK' /\ HistoryOK' /\ versions' = versions
  BY <1>1, TypeParts DEF shard_vars, config_vars, HeldOK, SeenOK, ConfigOK, HistoryOK
<1> QED
  BY <1>2, <1>3 DEF TypeOK, HeldOK, SeenOK, ConfigOK, HistoryOK, WatchOK, OpsOK

(* Deleting an instance keeps the types.                                     *)
LEMMA DeleteStep ==
    ASSUME TypeOK, NEW i \in Instances, delete_instance(i)
    PROVE  TypeOK'
<1>1. held' = Queue!Without({i}) /\ Removes({i}, {})
  BY DEF delete_instance, Queue!Discard
<1>2. HeldOK' /\ WatchOK'
  <2>1. HeldOK'
    BY <1>1, TypeParts, WithoutHeld
  <2>2. WatchOK'
    BY <1>1, TypeParts DEF WatchOK, Removes
  <2> QED
    BY <2>1, <2>2
<1>3. SeenOK' /\ ConfigOK' /\ HistoryOK' /\ OpsOK(calls', Len(versions'))
  BY TypeParts DEF delete_instance, config_vars, history, SeenOK, ConfigOK, HistoryOK
<1> QED
  BY <1>2, <1>3 DEF TypeOK, HeldOK, SeenOK, ConfigOK, HistoryOK, WatchOK, OpsOK

(* A shard that hands groups over, or drops them, keeps the types.           *)
LEMMA RemoveStep ==
    ASSUME TypeOK, NEW t \in Tasks, NEW s \in Shards, ReadShard(t, s) \/ ResetShard(t, s)
    PROVE  TypeOK'
<1>1. CASE ReadShard(t, s)
  <2>1. SeenOK' /\ UNCHANGED <<config_vars, history>>
    BY <1>1, TypeParts DEF ReadShard, SeenOK, config_vars, history
  <2> QED
    BY <1>1, <2>1, ReadShardParts, RemoveTypes
<1>2. CASE ResetShard(t, s)
  <2>1. SeenOK' /\ UNCHANGED <<config_vars, history>>
    BY <1>2, TypeParts DEF ResetShard, SeenOK, config_vars, history
  <2> QED
    BY <1>2, <2>1, ResetShardParts, RemoveTypes
<1> QED
  BY <1>1, <1>2

(* A blocking read, before it reads, keeps the types.                        *)
LEMMA ProbeStep ==
    ASSUME TypeOK, NEW t \in Tasks,
           Deadline(t) \/ ProbeDone(t) \/ \E s \in Shards : ProbeShard(t, s)
    PROVE  TypeOK'
<1>1. RestUnchanged /\ UNCHANGED watch
  BY DEF Deadline, ProbeDone, ProbeShard, RestUnchanged
<1>2. WatchOK'
  BY <1>1, TypeParts, WatchTypes
<1>3. CASE Deadline(t) \/ ProbeDone(t)
  BY <1>1, <1>2, <1>3, ProbeParts, CallTypes
<1>4. CASE \E s \in Shards : ProbeShard(t, s)
  BY <1>1, <1>2, <1>4, ProbeShardParts, CallTypes
<1> QED
  BY <1>3, <1>4

(* Every step keeps the types.                                               *)
LEMMA TypeStep ==
    ASSUME TypeOK, [Next]_vars
    PROVE  TypeOK'
<1>1. CASE UNCHANGED vars
  <2>1. HeldOK' /\ SeenOK' /\ ConfigOK' /\ HistoryOK' /\ WatchOK' /\ OpsOK(calls', Len(versions'))
    BY <1>1, TypeParts DEF vars, shard_vars, config_vars, history, watch, HeldOK, SeenOK,
                           ConfigOK, HistoryOK, WatchOK
  <2> QED
    BY <2>1 DEF TypeOK, HeldOK, SeenOK, ConfigOK, HistoryOK, WatchOK, OpsOK
<1>2. CASE Request
  <2>1. CASE \E x \in Inputs : write(x[1], x[2])
    BY <2>1, WriteStep
  <2>2. CASE \E i \in Instances : delete_instance(i)
    BY <2>2, DeleteStep
  <2>3. ASSUME NEW t \in Tasks, \E b \in Batches : batch_write(t, b)
        PROVE  TypeOK'
    BY <2>3, BatchStep
  <2>4. ASSUME NEW t \in Tasks, NEW max \in MaxGroupsArgs,
               read_ready_groups(t, max) \/ read_ready_groups_blocking(t, max)
        PROVE  TypeOK'
    BY <2>4, ExpectStep
  <2>5. ASSUME NEW t \in Tasks, reset(t)
        PROVE  TypeOK'
    <3>1. OpOK(ResetOp(Shards), Len(versions))
      BY CallParts, OpMade
    <3>2. DOMAIN held \in SUBSET Instances
      BY DEF TypeOK
    <3>3. WatchOK'
      BY <2>5, <3>2, TypeParts, WatchTypes DEF reset
    <3> QED
      BY <2>5, <3>1, <3>3, CallTypes DEF reset, RestUnchanged
  <2>6. ASSUME NEW t \in Tasks, get_status(t)
        PROVE  TypeOK'
    BY <2>6, StatusStep
  <2>7. ASSUME NEW t \in Tasks, NEW r \in ConfigRequests, update_config(t, r[1], r[2])
        PROVE  TypeOK'
    BY <2>7, UpdateStep
  <2> QED
    BY <1>2, <2>1, <2>2, <2>3, <2>4, <2>5, <2>6, <2>7 DEF Request
<1>3. ASSUME NEW t \in Tasks, Continue(t) \/ Deadline(t)
      PROVE  TypeOK'
  BY <1>3, BatchNextStep, RemoveStep, ProbeStep, StatusStep, ConfigShardStep,
     ReturnStep, StoreDedupStep DEF Continue
<1> QED
  BY <1>1, <1>2, <1>3 DEF Next

(* The types hold at first.                                                  *)
LEMMA TypeInit == Init => TypeOK
<1> SUFFICES ASSUME Init
             PROVE  TypeOK
  OBVIOUS
<1>1. HeldOK /\ SeenOK /\ HistoryOK /\ WatchOK
  BY DEF Init, HeldOK, SeenOK, HistoryOK, WatchOK
<1>2. versions = <<start_config>> /\ start_config \in Config /\ Len(versions) = 1
  BY ConfigAssumption DEF Init
<1>3. ConfigOK
  BY <1>2 DEF Init, ConfigOK
<1>4. OpsOK(calls, Len(versions))
  BY <1>2, OpMade DEF Init, OpsOK
<1> QED
  BY <1>1, <1>3, <1>4, TypeParts

(* Types: groups are filed under their own instance, no shard has been told  *)
(* of a configuration that is yet to come, and a call holds what its kind    *)
(* captures.                                                                 *)
THEOREM Types == Spec => []TypeOK
BY TypeInit, TypeStep, PTL DEF Spec

-----------------------------------------------------------------------------
(* Sweeps *)

\* what a call with operation op still owes is where it has yet to look, or
\* was beyond the limit of a shard that has handed over something
SweepOK(op, own, dom, ready) ==
    /\ op.kind = "reset" => \A i \in own : i \in dom /\ shard_for[i] \in op.todo
    /\ op.kind = "probe" =>
         /\ own \subseteq ready
         /\ ~op.found => \A i \in own : shard_for[i] \in op.todo
    /\ op.kind = "read" =>
         /\ own \subseteq ready
         /\ \A i \in own : \/ shard_for[i] \in op.todo
                           \/ op.max # 0 /\ op.got[shard_for[i]] # 0

\* a blocking read that has been told of a ready group will find one, or has
\* found one, or has been overtaken
FoundOK(op, ready, late) ==
    /\ op.kind = "probe" /\ op.found => late \/ ready # {}
    /\ op.kind = "read" /\ op.early =>
         \/ late
         \/ \E s \in Shards \ op.todo : op.got[s] # 0
         \/ \E i \in ready : shard_for[i] \in op.todo

Good(t) ==
    /\ SweepOK(calls[t], owed[t], DOMAIN held, Queue!TheReady)
    /\ FoundOK(calls[t], Queue!TheReady, t \in overtaken)

SweepInv == TypeOK /\ \A t \in Tasks : Good(t)

(* Groups that come do not harm a call that does not move.  (write)          *)
LEMMA GoodGrows ==
    ASSUME NEW t \in Tasks, Good(t), UNCHANGED watch, calls'[t] = calls[t],
           DOMAIN held \subseteq DOMAIN held',
           Queue!TheReady \subseteq (Queue!TheReady)'
    PROVE  Good(t)'
<1>1. owed'[t] = owed[t] /\ (t \in overtaken') = (t \in overtaken)
  BY DEF watch
<1>2. SweepOK(calls[t], owed[t], DOMAIN held', (Queue!TheReady)')
  BY DEF Good, SweepOK
<1>3. FoundOK(calls[t], (Queue!TheReady)', t \in overtaken)
  BY DEF Good, FoundOK
<1> QED
  BY <1>1, <1>2, <1>3 DEF Good

(* Groups that go are off every account; a call that does not move has been  *)
(* overtaken if they were ready.  (Removes)                                  *)
LEMMA GoodRemoves ==
    ASSUME TypeOK, NEW t \in Tasks, Good(t), calls'[t] = calls[t],
           NEW S, held' = Queue!Without(S), NEW By, t \notin By, Removes(S, By)
    PROVE  Good(t)'
<1>1. /\ DOMAIN held' = DOMAIN held \ S
      /\ (Queue!TheReady)' = Queue!TheReady \ S
  BY TypeParts, WithoutHeld
<1>2. owed'[t] = owed[t] \ S
  BY DEF Removes
<1>3. SweepOK(calls[t], owed[t] \ S, DOMAIN held \ S, Queue!TheReady \ S)
  BY DEF Good, SweepOK
<1>4. FoundOK(calls[t], Queue!TheReady \ S, t \in overtaken')
  <2>1. CASE S \intersect Queue!TheReady = {}
    <3>1. Queue!TheReady \ S = Queue!TheReady /\ overtaken' = overtaken
      BY <2>1 DEF Removes
    <3> QED
      BY <3>1 DEF Good
  <2>2. CASE S \intersect Queue!TheReady # {}
    <3>1. calls[t] # Idle => t \in overtaken'
      BY <2>2 DEF Removes
    <3> QED
      BY <3>1 DEF FoundOK, Idle
  <2> QED
    BY <2>1, <2>2
<1> QED
  BY <1>1, <1>2, <1>3, <1>4 DEF Good

(* A call that does not move is not harmed when another starts, goes on or   *)
(* is answered without touching a group.  (Expects, Returns)                 *)
LEMMA GoodStays ==
    ASSUME TypeOK, NEW t \in Tasks, Good(t), calls'[t] = calls[t], held' = held,
           owed'[t] = owed[t], t \in overtaken => t \in overtaken'
    PROVE  Good(t)'
<1>1. DOMAIN held' = DOMAIN held /\ (Queue!TheReady)' = Queue!TheReady
  BY DEF Queue!TheReady
<1>2. FoundOK(calls[t], Queue!TheReady, t \in overtaken')
  BY DEF Good, FoundOK
<1> QED
  BY <1>1, <1>2 DEF Good

(* A call of any other kind has nothing to account for.                      *)
LEMMA GoodOther ==
    ASSUME NEW t \in Tasks, calls'[t].kind \notin {"reset", "probe", "read"}
    PROVE  Good(t)'
BY DEF Good, SweepOK, FoundOK

(* Only the call itself moves.  (Pending)                                    *)
LEMMA OthersStay ==
    ASSUME TypeOK, NEW t \in Tasks, NEW op, Pending(t, op)
    PROVE  /\ calls'[t] = op
           /\ \A x \in Tasks \ {t} : calls'[x] = calls[x]
BY DEF TypeOK, Pending

(* The account of a read after one more shard.  (ReadShard)                  *)
LEMMA GoodReadShard ==
    ASSUME TypeOK, NEW t \in Tasks, NEW s \in Shards, Good(t), ReadShard(t, s)
    PROVE  Good(t)'
<1> DEFINE op == calls[t]
<1>1. PICK S \in SUBSET ReadyIn(s) :
        LET next == ReadOp(op.max, op.todo \ {s},
                           [op.got EXCEPT ![s] = Cardinality(S)], op.early)
        IN  /\ op.kind = "read" /\ s \in op.todo
            /\ op = ReadOp(op.max, op.todo, op.got, op.early)
            /\ op.max \in Nat /\ op.got \in [Shards -> Nat]
            /\ Cardinality(S) \in Nat
            /\ op.max = 0 => S = ReadyIn(s)
            /\ Cardinality(S) = 0 => ReadyIn(s) = {}
            /\ held' = Queue!Without(S) /\ Removes(S, {t})
            /\ Pending(t, next) /\ OpOK(next, Len(versions))
  BY ReadShardParts
<1> DEFINE next == ReadOp(op.max, op.todo \ {s},
                          [op.got EXCEPT ![s] = Cardinality(S)], op.early)
<1>2. /\ next.kind = "read" /\ next.max = op.max /\ next.todo = op.todo \ {s}
      /\ next.early = op.early
      /\ next.got[s] = Cardinality(S)
      /\ \A r \in Shards \ {s} : next.got[r] = op.got[r]
  BY <1>1 DEF ReadOp
<1>3. calls'[t] = next
  BY <1>1, OthersStay
<1> HIDE DEF next
<1>4. (Queue!TheReady)' = Queue!TheReady \ S
  BY <1>1, TypeParts, WithoutHeld
<1>5. owed'[t] = owed[t] \ S /\ (t \in overtaken => t \in overtaken')
  BY <1>1 DEF Removes
<1>6. \A i \in Queue!TheReady :
        shard_for[i] \in Shards /\ (shard_for[i] = s => i \in ReadyIn(s))
  BY TypeParts, HeldShards DEF ReadyIn, HeldBy
<1>7. SweepOK(next, owed[t] \ S, DOMAIN held', Queue!TheReady \ S)
  <2>1. owed[t] \subseteq Queue!TheReady
    BY <1>1 DEF Good, SweepOK
  <2>2. ASSUME NEW i \in owed[t] \ S
        PROVE  shard_for[i] \in next.todo \/ (next.max # 0 /\ next.got[shard_for[i]] # 0)
    <3>1. CASE shard_for[i] = s
      <4>1. i \in ReadyIn(s)
        BY <1>6, <2>1, <2>2, <3>1
      <4> QED
        BY <1>1, <1>2, <2>2, <3>1, <4>1
    <3>2. CASE shard_for[i] # s
      BY <1>1, <1>2, <1>6, <2>1, <2>2, <3>2 DEF Good, SweepOK
    <3> QED
      BY <3>1, <3>2
  <2> QED
    BY <1>2, <2>1, <2>2 DEF SweepOK
<1>8. FoundOK(next, Queue!TheReady \ S, t \in overtaken')
  <2> SUFFICES ASSUME op.early, ~(t \in overtaken)
               PROVE  \/ \E r \in Shards \ next.todo : next.got[r] # 0
                      \/ \E i \in Queue!TheReady \ S : shard_for[i] \in next.todo
    BY <1>2, <1>5 DEF FoundOK
  <2>1. CASE Cardinality(S) # 0
    BY <1>2, <2>1
  <2>2. CASE Cardinality(S) = 0
    <3>1. ReadyIn(s) = {} /\ S = {}
      BY <1>1, <2>2
    <3>2. CASE \E r \in Shards \ op.todo : op.got[r] # 0
      BY <1>1, <1>2, <3>2
    <3>3. CASE \E i \in Queue!TheReady : shard_for[i] \in op.todo
      BY <1>2, <1>6, <3>1, <3>3
    <3> QED
      BY <1>1, <3>2, <3>3 DEF Good, FoundOK
  <2> QED
    BY <2>1, <2>2
<1> QED
  BY <1>3, <1>4, <1>5, <1>7, <1>8 DEF Good

(* The account of a reset after one more shard.  (ResetShard)                *)
LEMMA GoodResetShard ==
    ASSUME TypeOK, NEW t \in Tasks, NEW s \in Shards, Good(t), ResetShard(t, s)
    PROVE  Good(t)'
<1>1. /\ calls[t].kind = "reset"
      /\ held' = Queue!Without(HeldBy(s)) /\ Removes(HeldBy(s), {t})
      /\ Pending(t, ResetOp(calls[t].todo \ {s}))
  BY ResetShardParts
<1>2. calls'[t] = ResetOp(calls[t].todo \ {s})
  BY <1>1, OthersStay
<1>3. owed'[t] = owed[t] \ HeldBy(s) /\ DOMAIN held' = DOMAIN held \ HeldBy(s)
  BY <1>1, TypeParts, WithoutHeld DEF Removes
<1>4. \A i \in owed[t] : i \in DOMAIN held /\ shard_for[i] \in calls[t].todo
  BY <1>1 DEF Good, SweepOK
<1>5. \A i \in owed[t] \ HeldBy(s) : shard_for[i] # s
  BY <1>4 DEF HeldBy
<1> QED
  BY <1>2, <1>3, <1>4, <1>5 DEF Good, SweepOK, FoundOK, ResetOp

(* The account of a blocking read after one more answer.  (ProbeShard)       *)
LEMMA GoodProbeShard ==
    ASSUME TypeOK, NEW t \in Tasks, NEW s \in Shards, Good(t), ProbeShard(t, s)
    PROVE  Good(t)'
<1> DEFINE op == calls[t]
           found == op.found \/ has_ready_groups(s)
           next == ProbeOp(op.max, op.todo \ {s}, found, op.expired)
<1>1. op.kind = "probe" /\ op.found \in BOOLEAN /\ Pending(t, next)
  BY ProbeShardParts
<1>2. calls'[t] = next
  BY <1>1, OthersStay
<1>3. UNCHANGED watch /\ (Queue!TheReady)' = Queue!TheReady
  BY DEF ProbeShard, shard_vars, Queue!TheReady
<1>4. owed[t] \subseteq Queue!TheReady /\ (~op.found => \A i \in owed[t] : shard_for[i] \in op.todo)
  BY <1>1 DEF Good, SweepOK
<1>5. ASSUME ~found
      PROVE  \A i \in owed[t] : shard_for[i] \in op.todo \ {s}
  <2>1. ReadyIn(s) = {} /\ ~op.found
    BY <1>5 DEF has_ready_groups
  <2>2. \A i \in owed[t] : shard_for[i] # s
    BY <1>4, <2>1 DEF ReadyIn, HeldBy, Queue!TheReady
  <2> QED
    BY <1>4, <2>1, <2>2
<1>6. found => t \in overtaken \/ Queue!TheReady # {}
  BY <1>1 DEF has_ready_groups, ReadyIn, Good, FoundOK
<1> HIDE DEF found
<1>7. next.kind = "probe" /\ next.todo = op.todo \ {s} /\ next.found = found
  BY DEF ProbeOp
<1>8. SweepOK(next, owed[t], DOMAIN held, Queue!TheReady)
  BY <1>4, <1>5, <1>7 DEF SweepOK
<1>9. FoundOK(next, Queue!TheReady, t \in overtaken)
  BY <1>6, <1>7 DEF FoundOK
<1>10. DOMAIN held' = DOMAIN held
  BY DEF ProbeShard, shard_vars
<1> QED
  BY <1>2, <1>3, <1>8, <1>9, <1>10 DEF Good, watch

(* The account of a blocking read when its round is over or time passes.     *)
LEMMA GoodProbe ==
    ASSUME TypeOK, NEW t \in Tasks, Good(t), Deadline(t) \/ ProbeDone(t)
    PROVE  Good(t)'
<1> DEFINE op == calls[t]
<1>1. PICK next :
        /\ op.kind = "probe" /\ Pending(t, next)
        /\ \/ next = ProbeOp(op.max, op.todo, op.found, TRUE)
           \/ next = ProbeOp(op.max, Shards, FALSE, FALSE)
           \/ /\ op.found \/ op.expired
              /\ next = ReadOp(op.max, Shards, NoneGot, ~op.expired)
  BY ProbeParts
<1>2. calls'[t] = next
  BY <1>1, OthersStay
<1>3. UNCHANGED watch /\ (Queue!TheReady)' = Queue!TheReady /\ DOMAIN held' = DOMAIN held
  BY DEF Deadline, ProbeDone, shard_vars, Queue!TheReady
<1>4. owed[t] \subseteq Queue!TheReady /\ (~op.found => \A i \in owed[t] : shard_for[i] \in op.todo)
  BY <1>1 DEF Good, SweepOK
<1>5. op.found => t \in overtaken \/ Queue!TheReady # {}
  BY <1>1 DEF Good, FoundOK
<1>6. \A i \in Queue!TheReady : shard_for[i] \in Shards
  BY TypeParts, HeldShards
<1>7. CASE next = ProbeOp(op.max, op.todo, op.found, TRUE)
  <2>1. SweepOK(next, owed[t], DOMAIN held, Queue!TheReady)
    BY <1>4, <1>7 DEF SweepOK, ProbeOp
  <2>2. FoundOK(next, Queue!TheReady, t \in overtaken)
    BY <1>5, <1>7 DEF FoundOK, ProbeOp
  <2> QED
    BY <1>2, <1>3, <2>1, <2>2 DEF Good, watch
<1>8. CASE next = ProbeOp(op.max, Shards, FALSE, FALSE)
  <2>1. SweepOK(next, owed[t], DOMAIN held, Queue!TheReady)
    BY <1>4, <1>6, <1>8 DEF SweepOK, ProbeOp
  <2>2. FoundOK(next, Queue!TheReady, t \in overtaken)
    BY <1>8 DEF FoundOK, ProbeOp
  <2> QED
    BY <1>2, <1>3, <2>1, <2>2 DEF Good, watch
<1>9. CASE (op.found \/ op.expired) /\ next = ReadOp(op.max, Shards, NoneGot, ~op.expired)
  <2>1. SweepOK(next, owed[t], DOMAIN held, Queue!TheReady)
    BY <1>4, <1>6, <1>9 DEF SweepOK, ReadOp
  <2>2. FoundOK(next, Queue!TheReady, t \in overtaken)
    BY <1>5, <1>6, <1>9 DEF FoundOK, ReadOp
  <2> QED
    BY <1>2, <1>3, <2>1, <2>2 DEF Good, watch
<1> QED
  BY <1>1, <1>7, <1>8, <1>9

(* A call that starts expects what is there.  (Expects)                      *)
LEMMA GoodStarts ==
    ASSUME TypeOK, NEW t \in Tasks, held' = held, NEW max,
           \/ Pending(t, ReadOp(max, Shards, NoneGot, FALSE)) /\ Expects(t, Queue!TheReady)
           \/ Pending(t, ProbeOp(max, Shards, FALSE, FALSE)) /\ Expects(t, Queue!TheReady)
           \/ Pending(t, ResetOp(Shards)) /\ Expects(t, DOMAIN held)
    PROVE  Good(t)'
<1>1. DOMAIN held' = DOMAIN held /\ (Queue!TheReady)' = Queue!TheReady
  BY DEF Queue!TheReady
<1>2. \A S : Expects(t, S) => owed'[t] = S
  BY TypeParts DEF WatchOK, Expects
<1>3. \A i \in DOMAIN held : shard_for[i] \in Shards
  BY TypeParts, HeldShards
<1>4. Queue!TheReady \subseteq DOMAIN held
  BY DEF Queue!TheReady
<1>5. CASE Pending(t, ReadOp(max, Shards, NoneGot, FALSE)) /\ Expects(t, Queue!TheReady)
  <2>1. calls'[t] = ReadOp(max, Shards, NoneGot, FALSE)
    BY <1>5, OthersStay
  <2> QED
    BY <1>1, <1>2, <1>3, <1>4, <1>5, <2>1 DEF Good, SweepOK, FoundOK, ReadOp
<1>6. CASE Pending(t, ProbeOp(max, Shards, FALSE, FALSE)) /\ Expects(t, Queue!TheReady)
  <2>1. calls'[t] = ProbeOp(max, Shards, FALSE, FALSE)
    BY <1>6, OthersStay
  <2> QED
    BY <1>1, <1>2, <1>3, <1>4, <1>6, <2>1 DEF Good, SweepOK, FoundOK, ProbeOp
<1>7. CASE Pending(t, ResetOp(Shards)) /\ Expects(t, DOMAIN held)
  <2>1. calls'[t] = ResetOp(Shards)
    BY <1>7, OthersStay
  <2> QED
    BY <1>1, <1>2, <1>3, <1>7, <2>1 DEF Good, SweepOK, FoundOK, ResetOp
<1> QED
  BY <1>5, <1>6, <1>7

(* A call that moves to another kind, or whose kind accounts for nothing,    *)
(* while groups and accounts stay.                                           *)
LEMMA QuietStep ==
    ASSUME SweepInv, NEW t \in Tasks, NEW op, Pending(t, op),
           op.kind \notin {"reset", "probe", "read"}, held' = held,
           \A x \in Tasks \ {t} : owed'[x] = owed[x] /\ (x \in overtaken => x \in overtaken')
    PROVE  \A x \in Tasks : Good(x)'
<1>1. calls'[t] = op /\ \A x \in Tasks \ {t} : calls'[x] = calls[x]
  BY OthersStay DEF SweepInv
<1>2. Good(t)'
  BY <1>1, GoodOther
<1>3. ASSUME NEW x \in Tasks \ {t}
      PROVE  Good(x)'
  BY <1>1, <1>3, GoodStays DEF SweepInv
<1> QED
  BY <1>2, <1>3

(* What Expects and Returns do to the others.                                *)
LEMMA WatchOthers ==
    ASSUME TypeOK, NEW t \in Tasks
    PROVE  /\ \A S : Expects(t, S) => \A x \in Tasks \ {t} :
                owed'[x] = owed[x] /\ (x \in overtaken => x \in overtaken')
           /\ Returns(t) => \A x \in Tasks \ {t} :
                owed'[x] = owed[x] /\ (x \in overtaken => x \in overtaken')
           /\ UNCHANGED watch => \A x \in Tasks \ {t} :
                owed'[x] = owed[x] /\ (x \in overtaken => x \in overtaken')
BY TypeParts DEF WatchOK, Expects, Returns, watch

(* Every step keeps what a sweep has done so far.                            *)
LEMMA SweepStep ==
    ASSUME SweepInv, [Next]_vars
    PROVE  SweepInv'
<1> USE DEF SweepInv
<1>1. TypeOK'
  BY TypeStep
<1>2. ASSUME UNCHANGED vars
      PROVE  \A x \in Tasks : Good(x)'
  BY <1>2, GoodStays DEF vars, shard_vars, watch
<1>3. ASSUME NEW x \in Inputs, write(x[1], x[2])
      PROVE  \A t \in Tasks : Good(t)'
  <2>1. DOMAIN held \subseteq DOMAIN held' /\ Queue!TheReady \subseteq (Queue!TheReady)'
    BY <1>3, TypeParts, WriteTypes DEF write
  <2> QED
    BY <1>3, <2>1, GoodGrows DEF write
<1>4. ASSUME NEW i \in Instances, delete_instance(i)
      PROVE  \A x \in Tasks : Good(x)'
  BY <1>4, GoodRemoves DEF delete_instance, Queue!Discard
<1>5. ASSUME NEW t \in Tasks, NEW b \in Batches, batch_write(t, b)
      PROVE  \A x \in Tasks : Good(x)'
  <2>1. BatchOp(b, by_shard(b), 0).kind = "batch"
    BY DEF BatchOp
  <2> QED
    BY <1>5, <2>1, QuietStep, WatchOthers DEF batch_write, shard_vars
<1>6. ASSUME NEW t \in Tasks, NEW max \in MaxGroupsArgs,
             read_ready_groups(t, max) \/ read_ready_groups_blocking(t, max)
      PROVE  \A x \in Tasks : Good(x)'
  <2>1. held' = held
    BY <1>6 DEF read_ready_groups, read_ready_groups_blocking, shard_vars
  <2>2. Good(t)'
    BY <1>6, <2>1, GoodStarts DEF read_ready_groups, read_ready_groups_blocking
  <2>3. \A x \in Tasks \ {t} : /\ calls'[x] = calls[x] /\ owed'[x] = owed[x]
                               /\ x \in overtaken => x \in overtaken'
    BY <1>6, OthersStay, WatchOthers DEF read_ready_groups, read_ready_groups_blocking
  <2> QED
    BY <2>1, <2>2, <2>3, GoodStays
<1>7. ASSUME NEW t \in Tasks, reset(t)
      PROVE  \A x \in Tasks : Good(x)'
  <2>1. held' = held
    BY <1>7 DEF reset, shard_vars
  <2>2. Good(t)'
    BY <1>7, <2>1, GoodStarts DEF reset
  <2>3. \A x \in Tasks \ {t} : /\ calls'[x] = calls[x] /\ owed'[x] = owed[x]
                               /\ x \in overtaken => x \in overtaken'
    BY <1>7, OthersStay, WatchOthers DEF reset
  <2> QED
    BY <2>1, <2>2, <2>3, GoodStays
<1>8. ASSUME NEW t \in Tasks,
             get_status(t) \/ (\E s \in Shards : StatusShard(t, s) \/ ConfigShard(t, s))
               \/ StoreDedup(t) \/ \E r \in ConfigRequests : update_config(t, r[1], r[2])
      PROVE  \A x \in Tasks : Good(x)'
  <2>1. \E op : op.kind \notin {"reset", "probe", "read"} /\ Pending(t, op)
    BY <1>8 DEF get_status, StatusShard, ConfigShard, StoreDedup, update_config,
                StatusOp, ConfigOp, FieldsOp
  <2>2. held' = held /\ UNCHANGED watch
    BY <1>8 DEF get_status, StatusShard, ConfigShard, StoreDedup, update_config, shard_vars
  <2> QED
    BY <2>1, <2>2, QuietStep, WatchOthers
<1>9. ASSUME NEW t \in Tasks, BatchDone(t) \/ ReadDone(t) \/ Answered(t)
      PROVE  \A x \in Tasks : Good(x)'
  <2>1. Returns(t) /\ held' = held
    BY <1>9 DEF BatchDone, ReadDone, Answered, shard_vars
  <2>2. Pending(t, Idle) /\ Idle.kind = "idle"
    BY <2>1 DEF Returns, Idle
  <2> QED
    BY <2>1, <2>2, QuietStep, WatchOthers
<1>10. ASSUME NEW t \in Tasks, NEW s \in Shards, BatchNext(t, s)
       PROVE  \A x \in Tasks : Good(x)'
  <2>1. \E op : op.kind = "batch" /\ Pending(t, op)
    BY <1>10, BatchNextParts DEF BatchOp
  <2>2. calls'[t].kind = "batch" /\ \A x \in Tasks \ {t} : calls'[x] = calls[x]
    BY <2>1, OthersStay
  <2>3. PICK x \in Inputs : Rejects(x[1], x[2]) \/ Accepts(x[1], x[2])
    BY <1>10, BatchNextParts
  <2>4. DOMAIN held \subseteq DOMAIN held' /\ Queue!TheReady \subseteq (Queue!TheReady)'
    BY <2>3, TypeParts, WriteTypes
  <2>5. UNCHANGED watch
    BY <1>10 DEF BatchNext
  <2>6. Good(t)'
    BY <2>2, GoodOther
  <2> QED
    BY <2>2, <2>4, <2>5, <2>6, GoodGrows
<1>11. ASSUME NEW t \in Tasks, NEW s \in Shards, ReadShard(t, s) \/ ResetShard(t, s)
       PROVE  \A x \in Tasks : Good(x)'
  <2>1. Good(t)'
    BY <1>11, GoodReadShard, GoodResetShard
  <2>2. \E S : held' = Queue!Without(S) /\ Removes(S, {t})
    BY <1>11, ReadShardParts, ResetShardParts
  <2>3. \A x \in Tasks \ {t} : calls'[x] = calls[x]
    BY <1>11, ReadShardParts, ResetShardParts, OthersStay
  <2> QED
    BY <2>1, <2>2, <2>3, GoodRemoves
<1>12. ASSUME NEW t \in Tasks,
              Deadline(t) \/ ProbeDone(t) \/ \E s \in Shards : ProbeShard(t, s)
       PROVE  \A x \in Tasks : Good(x)'
  <2>1. Good(t)'
    BY <1>12, GoodProbe, GoodProbeShard
  <2>2. held' = held /\ UNCHANGED watch
    BY <1>12 DEF Deadline, ProbeDone, ProbeShard, shard_vars
  <2>3. \A x \in Tasks \ {t} : calls'[x] = calls[x]
    BY <1>12, ProbeParts, ProbeShardParts, OthersStay
  <2> QED
    BY <2>1, <2>2, <2>3, GoodStays, WatchOthers
<1>13. ASSUME Request
       PROVE  \A x \in Tasks : Good(x)'
  BY <1>3, <1>4, <1>5, <1>6, <1>7, <1>8, <1>13 DEF Request
<1>14. ASSUME NEW t \in Tasks, Continue(t) \/ Deadline(t)
       PROVE  \A x \in Tasks : Good(x)'
  BY <1>8, <1>9, <1>10, <1>11, <1>12, <1>14 DEF Continue
<1> QED
  BY <1>1, <1>2, <1>13, <1>14 DEF Next

(* No sweep is under way at first.                                           *)
LEMMA SweepInit == Init => SweepInv
<1> SUFFICES ASSUME Init
             PROVE  \A t \in Tasks : Good(t)
  BY TypeInit DEF SweepInv
<1>1. \A t \in Tasks : calls[t] = Idle
  BY DEF Init
<1> QED
  BY <1>1 DEF Idle, Good, SweepOK, FoundOK

(* No group slips through a sweep: when all shards have been visited, what   *)
(* was there at the call of a reset, or was ready at the call of a read that *)
(* has no limit or finds nothing, has been removed by somebody.              *)
THEOREM Sweeps == Spec => []SweepsComplete
<1>1. SweepInv => SweepsComplete
  <2> SUFFICES ASSUME SweepInv, NEW t \in Tasks
               PROVE  /\ Finished(t, "reset") => owed[t] = {}
                      /\ Finished(t, "probe") /\ ~calls[t].found => owed[t] = {}
                      /\ Finished(t, "read") /\ (calls[t].max = 0 \/ GotNothing(calls[t]))
                           => owed[t] = {}
    BY DEF SweepsComplete
  <2>1. Good(t)
    BY DEF SweepInv
  <2>2. \A i \in Queue!TheReady : shard_for[i] \in Shards
    BY TypeParts, HeldShards DEF SweepInv
  <2> QED
    BY <2>1, <2>2 DEF Good, SweepOK, Finished, GotNothing
<1> QED
  BY <1>1, SweepInit, SweepStep, PTL DEF Spec

(* A blocking read that comes back with nothing before its deadline has been *)
(* overtaken by a call that removed a ready group.                           *)
THEOREM EarlyEmpty == Spec => []EarlyEmptyIsOvertaken
<1>1. SweepInv => EarlyEmptyIsOvertaken
  BY DEF SweepInv, Good, FoundOK, EarlyEmptyIsOvertaken, Finished, GotNothing
<1> QED
  BY <1>1, SweepInit, SweepStep, PTL DEF Spec

-----------------------------------------------------------------------------
(* Configuration *)

\* shard s reads the present configuration, or somebody is about to tell it
ToldOrPending(s) ==
    \/ settled[s] = Len(versions)
    \/ \E t \in Tasks :
         \/ calls[t].kind = "fields"
         \/ /\ calls[t].kind = "config" /\ s \in calls[t].todo
            /\ calls[t].version = Len(versions)

ConfigInv == TypeOK /\ \A s \in Shards : ToldOrPending(s)

(* A call that is no update, nor becomes one, does not matter.  (Pending)    *)
LEMMA ToldStays ==
    ASSUME ConfigInv, NEW t \in Tasks, NEW op, Pending(t, op),
           calls[t].kind \notin {"fields", "config"} \/ Finished(t, "config"),
           UNCHANGED config_vars
    PROVE  \A s \in Shards : ToldOrPending(s)'
<1>1. \A x \in Tasks \ {t} : calls'[x] = calls[x]
  BY OthersStay DEF ConfigInv
<1>2. versions' = versions /\ settled' = settled
  BY DEF config_vars
<1> QED
  BY <1>1, <1>2 DEF ConfigInv, ToldOrPending, Finished

(* Every step leaves each shard up to date, or about to be told.             *)
LEMMA ConfigStep ==
    ASSUME ConfigInv, [Next]_vars
    PROVE  ConfigInv'
<1> USE DEF ConfigInv
<1>1. TypeOK'
  BY TypeStep
<1>2. ASSUME UNCHANGED <<config_vars, calls>>
      PROVE  \A s \in Shards : ToldOrPending(s)'
  BY <1>2 DEF config_vars, ToldOrPending
<1>3. ASSUME NEW t \in Tasks, NEW r \in ConfigRequests, update_config(t, r[1], r[2])
      PROVE  \A s \in Shards : ToldOrPending(s)'
  <2>1. calls'[t] = FieldsOp(r[2])
    BY <1>3, OthersStay DEF update_config
  <2> QED
    BY <2>1 DEF ToldOrPending, FieldsOp
<1>4. ASSUME NEW t \in Tasks, StoreDedup(t)
      PROVE  \A s \in Shards : ToldOrPending(s)'
  <2>1. calls'[t] = ConfigOp(Shards, Len(versions) + 1)
    BY <1>4, OthersStay DEF StoreDedup
  <2>2. Len(versions') = Len(versions) + 1
    <3>1. config \in Config /\ versions \in Seq(Config)
      BY ConfigNow, TypeParts DEF ConfigOK
    <3>2. [config EXCEPT !.uid_dedup = calls[t].dedup] \in Config
      BY <1>4, <3>1, CallParts, OpParts DEF StoreDedup, Config
    <3> QED
      BY <1>4, <3>1, <3>2 DEF StoreDedup
  <2> QED
    BY <2>1, <2>2 DEF ToldOrPending, ConfigOp
<1>5. ASSUME NEW t \in Tasks, NEW s \in Shards, ConfigShard(t, s)
      PROVE  \A r \in Shards : ToldOrPending(r)'
  <2>1. /\ calls[t].kind = "config" /\ calls[t].version \in 1 .. Len(versions)
        /\ calls'[t] = ConfigOp(calls[t].todo \ {s}, calls[t].version)
        /\ \A x \in Tasks \ {t} : calls'[x] = calls[x]
    BY <1>5, CallParts, OpParts, OthersStay DEF ConfigShard, At
  <2>2. /\ versions' = versions /\ Len(versions) \in Nat
        /\ settled \in [Shards -> 1 .. Len(versions)]
        /\ settled' = [settled EXCEPT ![s] =
                         IF @ < calls[t].version THEN calls[t].version ELSE @]
    BY <1>5, CallParts, TypeParts DEF ConfigShard, ConfigOK
  <2>3. ASSUME NEW r \in Shards, r # s
        PROVE  ToldOrPending(r)'
    <3>1. settled'[r] = settled[r]
      BY <2>2, <2>3
    <3> QED
      BY <2>1, <2>2, <2>3, <3>1 DEF ToldOrPending, ConfigOp
  <2>4. ToldOrPending(s)'
    <3>1. CASE settled[s] = Len(versions) \/ calls[t].version = Len(versions)
      <4>1. settled'[s] = Len(versions)
        BY <2>1, <2>2, <3>1
      <4> QED
        BY <2>2, <4>1 DEF ToldOrPending
    <3>2. CASE settled[s] # Len(versions) /\ calls[t].version # Len(versions)
      <4>1. PICK x \in Tasks \ {t} :
              \/ calls[x].kind = "fields"
              \/ /\ calls[x].kind = "config" /\ s \in calls[x].todo
                 /\ calls[x].version = Len(versions)
        BY <2>1, <3>2 DEF ToldOrPending
      <4> QED
        BY <2>1, <2>2, <4>1 DEF ToldOrPending
    <3> QED
      BY <3>1, <3>2
  <2> QED
    BY <2>3, <2>4
<1>6. ASSUME NEW t \in Tasks,
             \/ \E b \in Batches : batch_write(t, b)
             \/ \E max \in MaxGroupsArgs :
                  read_ready_groups(t, max) \/ read_ready_groups_blocking(t, max)
             \/ reset(t) \/ get_status(t)
      PROVE  \A s \in Shards : ToldOrPending(s)'
  <2>1. calls[t] = Idle /\ UNCHANGED config_vars
    BY <1>6 DEF batch_write, read_ready_groups, read_ready_groups_blocking, reset,
                get_status, Starts
  <2>2. \E op : Pending(t, op)
    BY <1>6, Zenon DEF batch_write, read_ready_groups, read_ready_groups_blocking, reset,
                get_status
  <2>3. calls[t].kind = "idle"
    BY <2>1 DEF Idle
  <2> QED
    BY <2>1, <2>2, <2>3, ToldStays
<1>7. ASSUME NEW t \in Tasks, NEW s \in Shards,
             \/ BatchNext(t, s) \/ ReadShard(t, s) \/ ProbeShard(t, s)
             \/ ResetShard(t, s) \/ StatusShard(t, s)
      PROVE  \A r \in Shards : ToldOrPending(r)'
  <2>1. /\ calls[t].kind \notin {"fields", "config"}
        /\ UNCHANGED config_vars /\ \E op : Pending(t, op)
    BY <1>7 DEF BatchNext, ReadShard, ProbeShard, ResetShard, StatusShard, At
  <2> QED
    BY <2>1, ToldStays
<1>8. ASSUME NEW t \in Tasks,
             BatchDone(t) \/ ReadDone(t) \/ ProbeDone(t) \/ Answered(t) \/ Deadline(t)
      PROVE  \A s \in Shards : ToldOrPending(s)'
  <2>1. /\ calls[t].kind \notin {"fields", "config"} \/ Finished(t, "config")
        /\ UNCHANGED config_vars /\ \E op : Pending(t, op)
    BY <1>8 DEF BatchDone, BatchWritten, ReadDone, ProbeDone, Answered, Deadline,
                Finished, Returns
  <2> QED
    BY <2>1, ToldStays
<1>9. ASSUME Request
      PROVE  \A s \in Shards : ToldOrPending(s)'
  BY <1>2, <1>3, <1>6, <1>9 DEF Request, write, delete_instance
<1>10. ASSUME NEW t \in Tasks, Continue(t) \/ Deadline(t)
       PROVE  \A s \in Shards : ToldOrPending(s)'
  BY <1>4, <1>5, <1>7, <1>8, <1>10 DEF Continue
<1> QED
  BY <1>1, <1>2, <1>9, <1>10 DEF Next, vars

(* Every shard knows the configuration it starts with.                       *)
LEMMA ConfigInit == Init => ConfigInv
<1> SUFFICES ASSUME Init
             PROVE  \A s \in Shards : ToldOrPending(s)
  BY TypeInit DEF ConfigInv
<1>1. Len(versions) = 1
  BY ConfigAssumption DEF Init
<1> QED
  BY <1>1 DEF Init, ToldOrPending

(* Once no update is pending, every shard reads the present configuration:   *)
(* whoever stored it last tells all shards afterwards.                       *)
THEOREM Settles == Spec => []ConfigSettles
<1>1. ConfigInv => ConfigSettles
  <2> SUFFICES ASSUME ConfigInv, \A t \in Tasks : calls[t].kind \notin {"fields", "config"}
               PROVE  settled = [s \in Shards |-> Len(versions)]
    BY DEF ConfigSettles
  <2>1. \A s \in Shards : settled[s] = Len(versions)
    BY DEF ConfigInv, ToldOrPending
  <2> QED
    BY <2>1, TypeParts DEF ConfigInv, ConfigOK
<1> QED
  BY <1>1, ConfigInit, ConfigStep, PTL DEF Spec

-----------------------------------------------------------------------------
(* Batches *)

\* each uid of a batch is yet to be written by its shard, or has been stored
Accounted(t) ==
    calls[t].kind = "batch" =>
        \A n \in DOMAIN calls[t].asked :
            LET x == calls[t].asked[n]
            IN  n \in calls[t].parts[shard_for[x[1]]] \/ x[2] \in stored

StoredInv ==
    /\ TypeOK
    /\ \A s \in Shards : seen[s] \subseteq stored
    /\ \A t \in Tasks : Accounted(t)

(* Whatever a shard rejects or takes in has been stored.                     *)
LEMMA WriteStores ==
    ASSUME StoredInv, NEW x \in Inputs, Rejects(x[1], x[2]) \/ Accepts(x[1], x[2])
    PROVE  /\ x[2] \in stored' /\ stored \subseteq stored'
           /\ \A s \in Shards : seen'[s] \subseteq stored'
<1>1. shard_for[x[1]] \in Shards
  BY ArgumentAssumption, RoutingAssumption
<1>2. seen \in [Shards -> SUBSET Uids]
  BY TypeParts DEF StoredInv, SeenOK
<1>3. CASE Rejects(x[1], x[2])
  BY <1>1, <1>3 DEF Rejects, shard_vars, StoredInv
<1>4. CASE Accepts(x[1], x[2])
  BY <1>1, <1>2, <1>4 DEF Accepts, StoredInv
<1> QED
  BY <1>3, <1>4

(* A call that does not move stays accounted for while more is stored.       *)
LEMMA AccountedStays ==
    ASSUME NEW t \in Tasks, Accounted(t), calls'[t] = calls[t], stored \subseteq stored'
    PROVE  Accounted(t)'
BY DEF Accounted

(* Every step keeps the uids of a batch accounted for.                       *)
LEMMA StoredStep ==
    ASSUME StoredInv, [Next]_vars
    PROVE  StoredInv'
<1> USE DEF StoredInv
<1>1. TypeOK'
  BY TypeStep
<1> DEFINE Goal == /\ \A s \in Shards : seen'[s] \subseteq stored'
                   /\ \A t \in Tasks : Accounted(t)'
<1>2. ASSUME NEW x \in Inputs, write(x[1], x[2])
      PROVE  Goal
  BY <1>2, WriteStores, AccountedStays DEF write
<1>3. ASSUME NEW t \in Tasks, NEW b \in Batches, batch_write(t, b)
      PROVE  Goal
  <2>1. calls'[t] = BatchOp(b, by_shard(b), 0) /\ \A x \in Tasks \ {t} : calls'[x] = calls[x]
    BY <1>3, OthersStay DEF batch_write
  <2>2. seen' = seen /\ stored' = stored
    BY <1>3 DEF batch_write, shard_vars
  <2>3. \A n \in DOMAIN b : n \in by_shard(b)[shard_for[b[n][1]]]
    <3>1. \A n \in DOMAIN b : shard_for[b[n][1]] \in Shards
      BY ArgumentAssumption, RoutingAssumption
    <3> QED
      BY <3>1 DEF by_shard, For
  <2>4. Accounted(t)'
    BY <2>1, <2>3 DEF Accounted, BatchOp
  <2>5. \A x \in Tasks \ {t} : Accounted(x)'
    BY <2>1, <2>2, AccountedStays
  <2> QED
    BY <2>2, <2>4, <2>5
<1>4. ASSUME NEW t \in Tasks, NEW s \in Shards, BatchNext(t, s)
      PROVE  Goal
  <2>1. PICK n \in DOMAIN calls[t].asked, total \in Nat :
          LET x == calls[t].asked[n]
              rest == [calls[t].parts EXCEPT ![s] = @ \ {n}]
          IN  /\ calls[t].kind = "batch" /\ x \in Inputs
              /\ Rejects(x[1], x[2]) \/ Accepts(x[1], x[2])
              /\ Pending(t, BatchOp(calls[t].asked, rest, total))
              /\ OpOK(BatchOp(calls[t].asked, rest, total), Len(versions))
    BY <1>4, BatchNextParts
  <2> DEFINE rest == [calls[t].parts EXCEPT ![s] = @ \ {n}]
  <2>2. /\ calls[t].asked[n][2] \in stored' /\ stored \subseteq stored'
        /\ \A r \in Shards : seen'[r] \subseteq stored'
    BY <2>1, WriteStores
  <2>3. /\ calls'[t] = BatchOp(calls[t].asked, rest, total)
        /\ \A x \in Tasks \ {t} : calls'[x] = calls[x]
    BY <2>1, OthersStay
  <2>4. /\ calls[t].kind = "batch"
        /\ calls[t].parts \in [Shards -> SUBSET DOMAIN calls[t].asked]
    BY <2>1, CallParts, OpParts
  <2>5. \A m \in DOMAIN calls[t].asked, r \in Shards :
          m # n /\ m \in calls[t].parts[r] => m \in rest[r]
    BY <2>4
  <2>6. \A m \in DOMAIN calls[t].asked : shard_for[calls[t].asked[m][1]] \in Shards
    BY <2>1, CallParts, OpParts, ArgumentAssumption, RoutingAssumption
  <2> HIDE DEF rest
  <2>7. Accounted(t)'
    BY <2>2, <2>3, <2>4, <2>5, <2>6 DEF Accounted, BatchOp
  <2>8. \A x \in Tasks \ {t} : Accounted(x)'
    BY <2>2, <2>3, AccountedStays
  <2> QED
    BY <2>2, <2>7, <2>8
<1>5. ASSUME NEW t \in Tasks, NEW op, Pending(t, op), op.kind # "batch",
             stored' = stored, \A s \in Shards : seen'[s] \subseteq seen[s]
      PROVE  Goal
  <2>1. calls'[t] = op /\ \A x \in Tasks \ {t} : calls'[x] = calls[x]
    BY <1>5, OthersStay
  <2>2. Accounted(t)'
    BY <1>5, <2>1 DEF Accounted
  <2> QED
    BY <1>5, <2>1, <2>2, AccountedStays
<1>6. ASSUME NEW t \in Tasks,
             \/ \E max \in MaxGroupsArgs :
                  read_ready_groups(t, max) \/ read_ready_groups_blocking(t, max)
             \/ reset(t) \/ get_status(t)
             \/ \E r \in ConfigRequests : update_config(t, r[1], r[2])
      PROVE  Goal
  <2>1. \E op : op.kind # "batch" /\ Pending(t, op)
    BY <1>6 DEF read_ready_groups, read_ready_groups_blocking, reset, get_status,
                update_config, ReadOp, ProbeOp, ResetOp, StatusOp, FieldsOp
  <2>2. stored' = stored /\ seen' = seen
    BY <1>6 DEF read_ready_groups, read_ready_groups_blocking, reset, get_status,
                update_config, shard_vars
  <2> QED
    BY <1>5, <2>1, <2>2
<1>7. ASSUME NEW t \in Tasks, NEW s \in Shards,
             \/ ReadShard(t, s) \/ ProbeShard(t, s)
             \/ StatusShard(t, s) \/ ConfigShard(t, s)
      PROVE  Goal
  <2>1. \E op : op.kind # "batch" /\ Pending(t, op)
    BY <1>7 DEF ReadShard, ProbeShard, StatusShard, ConfigShard, ReadOp, ProbeOp,
                StatusOp, ConfigOp
  <2>2. stored' = stored /\ seen' = seen
    BY <1>7 DEF ReadShard, ProbeShard, StatusShard, ConfigShard, shard_vars
  <2> QED
    BY <1>5, <2>1, <2>2
<1>8. ASSUME NEW t \in Tasks, NEW s \in Shards, ResetShard(t, s)
      PROVE  Goal
  <2>1. \E op : op.kind # "batch" /\ Pending(t, op)
    BY <1>8 DEF ResetShard, ResetOp
  <2>2. stored' = stored /\ \A r \in Shards : seen'[r] \subseteq seen[r]
    BY <1>8, TypeParts DEF ResetShard, SeenOK
  <2> QED
    BY <1>5, <2>1, <2>2
<1>9. ASSUME NEW t \in Tasks,
             \/ BatchDone(t) \/ ReadDone(t) \/ ProbeDone(t) \/ StoreDedup(t)
             \/ Answered(t) \/ Deadline(t)
      PROVE  Goal
  <2>1. \E op : op.kind # "batch" /\ Pending(t, op)
    BY <1>9 DEF BatchDone, ReadDone, ProbeDone, StoreDedup, Answered, Deadline, Returns,
                Idle, ReadOp, ProbeOp, ConfigOp
  <2>2. stored' = stored /\ seen' = seen
    BY <1>9 DEF BatchDone, ReadDone, ProbeDone, StoreDedup, Answered, Deadline, shard_vars
  <2> QED
    BY <1>5, <2>1, <2>2
<1>10. ASSUME NEW i \in Instances, delete_instance(i)
       PROVE  Goal
  BY <1>10, AccountedStays DEF delete_instance
<1>11. ASSUME UNCHANGED vars
       PROVE  Goal
  BY <1>11, AccountedStays DEF vars, shard_vars
<1>12. ASSUME Request
       PROVE  Goal
  BY <1>2, <1>3, <1>6, <1>10, <1>12 DEF Request
<1>13. ASSUME NEW t \in Tasks, Continue(t) \/ Deadline(t)
       PROVE  Goal
  BY <1>4, <1>7, <1>8, <1>9, <1>13 DEF Continue
<1> QED
  BY <1>1, <1>11, <1>12, <1>13 DEF Next

(* When batch_write is answered each of its uids has been stored, by it or   *)
(* by the call that made it a duplicate.                                     *)
THEOREM Batched == Spec => []BatchIsStored
<1>1. Init => StoredInv
  <2> SUFFICES ASSUME Init
               PROVE  StoredInv
    OBVIOUS
  <2>1. \A t \in Tasks : calls[t].kind # "batch"
    BY DEF Init, Idle
  <2> QED
    BY <2>1, TypeInit DEF Init, StoredInv, Accounted
<1>2. StoredInv => BatchIsStored
  <2> SUFFICES ASSUME StoredInv, NEW t \in Tasks, BatchWritten(t),
                      NEW n \in DOMAIN calls[t].asked
               PROVE  calls[t].asked[n][2] \in stored
    BY DEF BatchIsStored
  <2>1. shard_for[calls[t].asked[n][1]] \in Shards
    BY CallParts, OpParts, ArgumentAssumption, RoutingAssumption DEF StoredInv, BatchWritten
  <2> QED
    BY <2>1 DEF StoredInv, Accounted, BatchWritten
<1> QED
  BY <1>1, <1>2, StoredStep, PTL DEF Spec

-----------------------------------------------------------------------------
(* The limit of a read *)

\* a read with a limit has no more than that from the first shard
WithinLimit(op) == op.kind = "read" /\ op.max > 0 => op.got[0] <= op.max

LimitInv == TypeOK /\ 0 \notin losers /\ \A t \in Tasks : WithinLimit(calls[t])

(* A shard hands over no more than the limit.  (BufferShard::read_ready_groups) *)
LEMMA TakenLimit ==
    ASSUME NEW max \in Nat \ {0}, NEW R, NEW S \in Taken(max, R)
    PROVE  Cardinality(S) <= max
<1>1. CASE Cardinality(R) <= max
  BY <1>1 DEF Taken
<1>2. CASE ~(Cardinality(R) <= max)
  BY <1>2 DEF Taken, kSubset
<1> QED
  BY <1>1, <1>2

(* A call goes on and keeps within its limit.  (Pending) *)
LEMMA LimitStays ==
    ASSUME LimitInv, NEW t \in Tasks, NEW op, Pending(t, op), WithinLimit(op)
    PROVE  \A x \in Tasks : WithinLimit(calls'[x])
BY OthersStay DEF LimitInv

(* What the first shard has handed over is what the merged answer begins   *)
(* with, and the limit cuts nothing off there.  (merge of                  *)
(* read_ready_groups)                                                      *)
LEMMA FirstKept ==
    ASSUME LimitInv, NEW t \in Tasks, ReadDone(t)
    PROVE  0 \notin losers'
<1> DEFINE op == calls[t]
<1>1. /\ op.kind = "read" /\ op.max \in Nat /\ op.got \in [Shards -> Nat]
  BY CallParts, OpParts, ArgumentAssumption DEF LimitInv, ReadDone, Finished
<1>2. 0 \in Shards /\ 0 .. 0 = {} \union {0}
  BY RoutingAssumption DEF Shards
<1>3. GotUpTo(op, 0) = op.got[0]
  <2>1. IntOn(op.got, {} \union {0}) /\ IsFiniteSet({}) /\ op.got[0] \in Nat
    BY <1>1, <1>2, FS_EmptySet DEF IntOn
  <2>2. SumFunctionOnSet(op.got, {} \union {0}) = op.got[0] + SumFunctionOnSet(op.got, {})
    BY <2>1, SumAdd
  <2> HIDE DEF op
  <2> QED
    BY <1>2, <2>1, <2>2, SumEmpty DEF GotUpTo
<1>4. op.max > 0 => op.got[0] <= op.max
  BY <1>1 DEF LimitInv, WithinLimit
<1>5. losers' = losers \union
        {s \in Shards : op.max > 0 /\ op.got[s] > 0 /\ GotUpTo(op, s) > op.max}
  BY DEF ReadDone
<1> QED
  BY <1>1, <1>2, <1>3, <1>4, <1>5 DEF LimitInv

(* Every step keeps reads within their limit.  *)
LEMMA LimitStep ==
    ASSUME LimitInv, [Next]_vars
    PROVE  LimitInv'
<1> USE DEF LimitInv
<1>1. TypeOK'
  BY TypeStep
<1> DEFINE Goal == 0 \notin losers' /\ \A t \in Tasks : WithinLimit(calls'[t])
<1>2. ASSUME UNCHANGED <<losers, calls>>
      PROVE  Goal
  BY <1>2
<1>3. ASSUME NEW t \in Tasks, NEW op, Pending(t, op), op.kind # "read", UNCHANGED losers
      PROVE  Goal
  BY <1>3, LimitStays DEF WithinLimit
<1>4. ASSUME NEW t \in Tasks, NEW max \in MaxGroupsArgs, NEW early,
             Pending(t, ReadOp(max, Shards, NoneGot, early)), UNCHANGED losers
      PROVE  Goal
  <2>1. 0 \in Shards /\ max \in Nat
    BY RoutingAssumption, ArgumentAssumption DEF Shards
  <2>2. WithinLimit(ReadOp(max, Shards, NoneGot, early))
    BY <2>1 DEF WithinLimit, ReadOp, NoneGot
  <2> QED
    BY <1>4, <2>2, LimitStays
<1>5. ASSUME NEW t \in Tasks, NEW s \in Shards, ReadShard(t, s)
      PROVE  Goal
  <2> DEFINE op == calls[t]
  <2>1. PICK S \in Taken(op.max, ReadyIn(s)) :
          Pending(t, ReadOp(op.max, op.todo \ {s},
                            [op.got EXCEPT ![s] = Cardinality(S)], op.early))
    BY <1>5 DEF ReadShard
  <2> DEFINE next == ReadOp(op.max, op.todo \ {s},
                            [op.got EXCEPT ![s] = Cardinality(S)], op.early)
  <2>2. op.kind = "read" /\ op.max \in Nat /\ op.got \in [Shards -> Nat]
    BY <1>5, CallParts, OpParts, ArgumentAssumption DEF ReadShard, At
  <2>3. op.max > 0 => Cardinality(S) <= op.max /\ op.got[0] <= op.max
    BY <2>1, <2>2, TakenLimit DEF WithinLimit
  <2>4. WithinLimit(next)
    BY <2>2, <2>3 DEF WithinLimit, ReadOp
  <2> HIDE DEF next
  <2>5. losers' = losers
    BY <1>5 DEF ReadShard, history
  <2> QED
    BY <2>1, <2>4, <2>5, LimitStays DEF next
<1>6. ASSUME NEW t \in Tasks, ProbeDone(t)
      PROVE  Goal
  <2>1. calls[t].kind = "probe" /\ calls[t].max \in MaxGroupsArgs
    BY <1>6, CallParts, OpParts DEF ProbeDone, Finished
  <2>2. UNCHANGED losers
    BY <1>6 DEF ProbeDone, history
  <2>3. CASE calls[t].found \/ calls[t].expired
    BY <1>4, <1>6, <2>1, <2>2, <2>3 DEF ProbeDone
  <2>4. CASE ~(calls[t].found \/ calls[t].expired)
    <3>1. Pending(t, ProbeOp(calls[t].max, Shards, FALSE, FALSE))
      BY <1>6, <2>4 DEF ProbeDone
    <3> QED
      BY <1>3, <2>2, <3>1 DEF ProbeOp
  <2> QED
    BY <2>3, <2>4
<1>7. ASSUME NEW t \in Tasks,
             \/ \E b \in Batches : batch_write(t, b)
             \/ \E max \in MaxGroupsArgs : read_ready_groups_blocking(t, max)
             \/ reset(t) \/ get_status(t)
             \/ \E r \in ConfigRequests : update_config(t, r[1], r[2])
      PROVE  Goal
  <2>1. \E op : op.kind # "read" /\ Pending(t, op)
    BY <1>7 DEF batch_write, read_ready_groups_blocking, reset, get_status,
                update_config, BatchOp, ProbeOp, ResetOp, StatusOp, FieldsOp
  <2>2. UNCHANGED losers
    BY <1>7 DEF batch_write, read_ready_groups_blocking, reset, get_status,
                update_config, history
  <2> QED
    BY <1>3, <2>1, <2>2
<1>8. ASSUME NEW t \in Tasks, NEW s \in Shards,
             \/ BatchNext(t, s) \/ ProbeShard(t, s) \/ ResetShard(t, s)
             \/ StatusShard(t, s) \/ ConfigShard(t, s)
      PROVE  Goal
  <2>1. \E op : op.kind # "read" /\ Pending(t, op)
    BY <1>8 DEF BatchNext, ProbeShard, ResetShard, StatusShard, ConfigShard, BatchOp,
                ProbeOp, ResetOp, StatusOp, ConfigOp
  <2>2. UNCHANGED losers
    BY <1>8 DEF BatchNext, ProbeShard, ResetShard, StatusShard, ConfigShard, history
  <2> QED
    BY <1>3, <2>1, <2>2
<1>9. ASSUME NEW t \in Tasks, BatchDone(t) \/ StoreDedup(t) \/ Answered(t) \/ Deadline(t)
      PROVE  Goal
  <2>1. \E op : op.kind # "read" /\ Pending(t, op)
    BY <1>9 DEF BatchDone, StoreDedup, Answered, Deadline, Returns, Idle, ConfigOp, ProbeOp
  <2>2. UNCHANGED losers
    BY <1>9 DEF BatchDone, StoreDedup, Answered, Deadline, history
  <2> QED
    BY <1>3, <2>1, <2>2
<1>10. ASSUME NEW t \in Tasks, ReadDone(t)
       PROVE  Goal
  <2>1. Pending(t, Idle)
    BY <1>10 DEF ReadDone, Returns
  <2>2. WithinLimit(Idle)
    BY DEF WithinLimit, Idle
  <2> QED
    BY <1>10, <2>1, <2>2, FirstKept, LimitStays
<1>11. ASSUME Request
       PROVE  Goal
  <2>1. ASSUME NEW t \in Tasks, NEW max \in MaxGroupsArgs, read_ready_groups(t, max)
        PROVE  Goal
    BY <1>4, <2>1 DEF read_ready_groups, history
  <2> QED
    BY <1>2, <1>7, <1>11, <2>1 DEF Request, write, delete_instance, history
<1>12. ASSUME NEW t \in Tasks, Continue(t) \/ Deadline(t)
       PROVE  Goal
  BY <1>5, <1>6, <1>8, <1>9, <1>10, <1>12 DEF Continue
<1>13. ASSUME UNCHANGED vars
       PROVE  Goal
  BY <1>2, <1>13 DEF vars, history
<1> QED
  BY <1>1, <1>11, <1>12, <1>13 DEF Next

(* The groups of the first shard survive the second cut: whatever the      *)
(* other shards have handed over, its own part is within the limit and     *)
(* comes first.  (read_ready_groups)                                       *)
THEOREM FirstShard == Spec => []FirstShardNeverLoses
<1>1. Init => LimitInv
  BY TypeInit DEF Init, LimitInv, WithinLimit, Idle
<1>2. LimitInv => FirstShardNeverLoses
  BY DEF LimitInv, FirstShardNeverLoses
<1> QED
  BY <1>1, <1>2, LimitStep, PTL DEF Spec

-----------------------------------------------------------------------------
(* Statistics *)

\* the instances among those of h that live on shard s, and how many
\* trajectories their groups have
Of(h, s) == {i \in DOMAIN h : shard_for[i] = s}
Sizes(h) == [i \in DOMAIN h |-> Size(h[i])]
Total(h, s) == SumFunctionOnSet(Sizes(h), Of(h, s))

\* the groups of h are those of some instances, and none is empty
Filled(h) == DOMAIN h \subseteq Instances /\ \A i \in DOMAIN h : Size(h[i]) \in Nat \ {0}

Counters == [trajectories : Nat, consumed : Nat]

\* the counters of a shard cover what it holds; deleted groups were counted too
Covered(h, tot, s) == tot[s].consumed + Total(h, s) <= tot[s].trajectories

SumsOK(op) ==
    op.kind = "status" =>
        /\ op.sums \in [trajectories : Nat, consumed : Nat, pending : Nat, incomplete : Nat]
        /\ op.sums.consumed + op.sums.pending + op.sums.incomplete <= op.sums.trajectories

CountOK(h, tot) ==
    /\ Filled(h) /\ tot \in [Shards -> Counters]
    /\ \A s \in Shards : Covered(h, tot, s)

StatusInv == TypeOK /\ CountOK(held, totals) /\ \A t \in Tasks : SumsOK(calls[t])

(* What is there is finite, and its sizes are numbers.  *)
LEMMA FilledSums ==
    ASSUME NEW h, Filled(h), NEW s
    PROVE  /\ IsFiniteSet(Of(h, s)) /\ IntOn(Sizes(h), Of(h, s))
           /\ Total(h, s) \in Nat /\ Cardinality(Of(h, s)) <= Total(h, s)
<1>1. IsFiniteSet(Of(h, s))
  BY RoutingAssumption, FS_Subset DEF Of, Filled
<1>2. \A i \in Of(h, s) : Sizes(h)[i] \in Nat \ {0}
  BY DEF Of, Sizes, Filled
<1> QED
  BY <1>1, <1>2, SumNat, SumCard DEF IntOn, Total

(* A trajectory more makes one more on the shard of its instance.          *)
(* (Collect)                                                               *)
LEMMA CollectTotal ==
    ASSUME HeldOK, Filled(held), NEW i \in Instances, NEW u \in Uids, NEW size,
           Queue!Collect(i, u, size)
    PROVE  /\ Filled(held')
           /\ \A s : Total(held', s) = IF s = shard_for[i] THEN Total(held, s) + 1
                                        ELSE Total(held, s)
<1> DEFINE g == IF i \in DOMAIN held THEN held[i]
                ELSE [instance_id |-> i, trajectories |-> <<>>,
                      group_size |-> size, is_complete |-> FALSE]
           n == Len(g.trajectories) + 1
           g2 == [g EXCEPT !.trajectories = Append(@, u),
                           !.is_complete = @ \/ n >= g.group_size]
           old == IF i \in DOMAIN held THEN Size(held[i]) ELSE 0
<1>1. held' = [j \in DOMAIN held \union {i} |-> IF j # i THEN held[j] ELSE g2]
  BY DEF Queue!Collect
<1>2. Size(g2) = old + 1 /\ old \in Nat
  <2>1. g.trajectories \in Seq(Uids) /\ Len(g.trajectories) = old
    BY DEF HeldOK, Group, Size
  <2>2. g2.trajectories = Append(g.trajectories, u)
    <3>1. CASE i \in DOMAIN held
      BY <3>1 DEF HeldOK, Group
    <3>2. CASE i \notin DOMAIN held
      BY <3>2
    <3> QED
      BY <3>1, <3>2
  <2> HIDE DEF g, g2
  <2> QED
    BY <2>1, <2>2 DEF Size
<1> HIDE DEF g, n, g2
<1>3. DOMAIN held' = DOMAIN held \union {i} /\ held'[i] = g2
      /\ \A j \in DOMAIN held : j # i => held'[j] = held[j]
  BY <1>1
<1>4. Filled(held')
  BY <1>2, <1>3 DEF Filled
<1>5. ASSUME NEW s
      PROVE  Total(held', s) = IF s = shard_for[i] THEN Total(held, s) + 1 ELSE Total(held, s)
  <2>1. /\ IsFiniteSet(Of(held, s)) /\ IntOn(Sizes(held), Of(held, s))
        /\ IsFiniteSet(Of(held', s)) /\ IntOn(Sizes(held'), Of(held', s))
        /\ Total(held, s) \in Nat
    BY <1>4, FilledSums
  <2> DEFINE Rest == Of(held, s) \ {i}
             rest == SumFunctionOnSet(Sizes(held), Rest)
  <2>2. Of(held', s) \ {i} = Rest
    BY <1>3 DEF Of
  <2>3. IsFiniteSet(Rest) /\ IntOn(Sizes(held), Rest)
    BY <2>1, FS_Subset DEF IntOn
  <2>4. \A j \in Rest : Sizes(held)[j] = Sizes(held')[j]
    BY <1>3 DEF Of, Sizes
  <2> HIDE DEF Rest
  <2>5. SumFunctionOnSet(Sizes(held'), Rest) = rest /\ rest \in Int
    BY <2>3, <2>4, SumSame, SumType
  <2>6. CASE s # shard_for[i]
    <3>1. Of(held', s) = Rest /\ Of(held, s) = Rest
      BY <1>3, <2>6 DEF Of, Rest
    <3> QED
      BY <2>5, <2>6, <3>1 DEF Total
  <2>7. CASE s = shard_for[i]
    <3>1. i \in Of(held', s) /\ Sizes(held')[i] = old + 1
      BY <1>2, <1>3, <2>7 DEF Of, Sizes
    <3>2. Total(held', s) = old + 1 + rest
      BY <2>1, <2>2, <2>5, <3>1, SumRemove DEF Total
    <3>3. Total(held, s) = old + rest
      <4>1. CASE i \in DOMAIN held
        <5>1. i \in Of(held, s) /\ Sizes(held)[i] = old
          BY <2>7, <4>1 DEF Of, Sizes
        <5> QED
          BY <2>1, <5>1, SumRemove DEF Total, Rest
      <4>2. CASE i \notin DOMAIN held
        <5>1. Of(held, s) = Rest /\ old = 0
          BY <4>2 DEF Of, Rest
        <5> QED
          BY <2>5, <5>1 DEF Total
      <4> QED
        BY <4>1, <4>2
    <3> QED
      BY <1>2, <2>5, <2>7, <3>2, <3>3
  <2> QED
    BY <2>6, <2>7
<1> QED
  BY <1>4, <1>5

(* Groups that go take their trajectories along.  (Without) *)
LEMMA WithoutTotal ==
    ASSUME Filled(held), NEW S, held' = Queue!Without(S)
    PROVE  /\ Filled(held')
           /\ \A s : /\ Total(held', s) <= Total(held, s)
                     /\ S \subseteq Of(held, s) =>
                          Total(held, s) = Trajectories(S) + Total(held', s)
                     /\ Of(held, s) \subseteq S => Total(held', s) = 0
<1>1. DOMAIN held' = DOMAIN held \ S /\ \A j \in DOMAIN held' : held'[j] = held[j]
  BY DEF Queue!Without
<1>2. Filled(held')
  BY <1>1 DEF Filled
<1>3. ASSUME NEW s
      PROVE  /\ Total(held', s) <= Total(held, s)
             /\ S \subseteq Of(held, s) => Total(held, s) = Trajectories(S) + Total(held', s)
             /\ Of(held, s) \subseteq S => Total(held', s) = 0
  <2> DEFINE T == S \intersect Of(held, s)
             taken == SumFunctionOnSet(Sizes(held), T)
  <2>1. IsFiniteSet(Of(held, s)) /\ IntOn(Sizes(held), Of(held, s)) /\ Total(held, s) \in Nat
    BY FilledSums
  <2>2. Of(held', s) = Of(held, s) \ T
    BY <1>1 DEF Of
  <2>3. T \in SUBSET Of(held, s) /\ IsFiniteSet(T)
    BY <2>1, FS_Subset
  <2> HIDE DEF T
  <2>4. /\ Total(held, s) = taken + SumFunctionOnSet(Sizes(held), Of(held, s) \ T)
        /\ taken \in Int
    BY <2>1, <2>3, SumSplit DEF Total
  <2>5. Total(held', s) = SumFunctionOnSet(Sizes(held), Of(held, s) \ T)
        /\ Total(held', s) \in Nat
    <3>1. IsFiniteSet(Of(held', s)) /\ IntOn(Sizes(held'), Of(held', s))
          /\ Total(held', s) \in Nat
      BY <1>2, FilledSums
    <3>2. \A j \in Of(held', s) : Sizes(held')[j] = Sizes(held)[j]
      BY <1>1 DEF Of, Sizes
    <3> QED
      BY <2>2, <3>1, <3>2, SumSame DEF Total
  <2>6. taken \in Nat
    <3>1. \A x \in T : Sizes(held)[x] \in Nat
      BY <2>3 DEF Filled, Sizes, Of
    <3> QED
      BY <2>3, <3>1, SumNat
  <2>7. S \subseteq Of(held, s) => Trajectories(S) = taken
    <3> DEFINE f == [i \in S |-> Size(held[i])]
    <3>1. SUFFICES ASSUME S \subseteq Of(held, s) PROVE Trajectories(S) = taken
      OBVIOUS
    <3>2. T = S /\ DOMAIN f = S
      BY <3>1 DEF T
    <3>3. \A x \in T : Sizes(held)[x] = f[x] /\ Sizes(held)[x] \in Int
      BY <3>2, <2>3 DEF Filled, Sizes, Of
    <3> HIDE DEF f
    <3>4. SumFunctionOnSet(f, T) = taken
      BY <2>3, <3>3, SumSame DEF IntOn
    <3>5. SumFunction(f) = SumFunctionOnSet(f, DOMAIN f)
      BY DEF SumFunction
    <3> QED
      BY <3>2, <3>4, <3>5 DEF Trajectories, f
  <2>8. Of(held, s) \subseteq S => Total(held', s) = 0
    <3>1. SUFFICES ASSUME Of(held, s) \subseteq S PROVE Total(held', s) = 0
      OBVIOUS
    <3>2. Of(held, s) \ T = {}
      BY <3>1 DEF T
    <3> QED
      BY <2>5, <3>2, SumEmpty
  <2> HIDE DEF taken
  <2> QED
    BY <2>1, <2>4, <2>5, <2>6, <2>7, <2>8
<1> QED
  BY <1>2, <1>3

(* An entry that is added on one shard is counted there.                   *)
(* (BufferShard::write)                                                    *)
LEMMA WriteCounts ==
    ASSUME TypeOK, CountOK(held, totals), NEW x \in Inputs,
           Rejects(x[1], x[2]) \/ Accepts(x[1], x[2])
    PROVE  CountOK(held', totals')
<1>1. x[1] \in Instances /\ x[2] \in Uids /\ shard_for[x[1]] \in Shards
  BY ArgumentAssumption, RoutingAssumption
<1>2. CASE Rejects(x[1], x[2])
  BY <1>2 DEF Rejects, shard_vars
<1>3. CASE Accepts(x[1], x[2])
  <2> DEFINE r == shard_for[x[1]]
  <2>1. PICK size : Queue!Collect(x[1], x[2], size)
    BY <1>3 DEF Accepts
  <2>2. /\ Filled(held')
        /\ \A s : Total(held', s) = IF s = r THEN Total(held, s) + 1 ELSE Total(held, s)
    BY <1>1, <2>1, TypeParts, CollectTotal DEF CountOK
  <2>3. totals' = [totals EXCEPT ![r].trajectories = @ + 1]
    BY <1>3 DEF Accepts
  <2>4. totals \in [Shards -> Counters] /\ \A s \in Shards : Total(held, s) \in Nat
    BY FilledSums DEF CountOK
  <2>5. totals' \in [Shards -> Counters]
    BY <1>1, <2>3, <2>4 DEF Counters
  <2>6. ASSUME NEW s \in Shards
        PROVE  Covered(held', totals', s)
    <3>1. totals[s].consumed \in Nat /\ totals[s].trajectories \in Nat
          /\ totals[s].consumed + Total(held, s) <= totals[s].trajectories
      BY <2>4 DEF Counters, CountOK, Covered
    <3>2. CASE s = r
      <4>1. totals'[s].consumed = totals[s].consumed
            /\ totals'[s].trajectories = totals[s].trajectories + 1
            /\ Total(held', s) = Total(held, s) + 1
        BY <1>1, <2>2, <2>3, <2>4, <3>2 DEF Counters
      <4> QED
        BY <2>4, <3>1, <4>1 DEF Covered
    <3>3. CASE s # r
      <4>1. totals'[s] = totals[s] /\ Total(held', s) = Total(held, s)
        BY <1>1, <2>2, <2>3, <2>4, <3>3
      <4> QED
        BY <3>1, <4>1 DEF Covered
    <3> QED
      BY <3>2, <3>3
  <2> QED
    BY <2>2, <2>5, <2>6 DEF CountOK
<1> QED
  BY <1>2, <1>3

(* What a read hands over is consumed.  (BufferShard::read_ready_groups) *)
LEMMA ReadCounts ==
    ASSUME TypeOK, CountOK(held, totals), NEW t \in Tasks, NEW s \in Shards, ReadShard(t, s)
    PROVE  CountOK(held', totals')
<1>1. PICK S \in Taken(calls[t].max, ReadyIn(s)) :
        /\ held' = Queue!Without(S)
        /\ totals' = [totals EXCEPT ![s].consumed = @ + Trajectories(S)]
  BY DEF ReadShard, Queue!HandOver
<1>2. S \subseteq Of(held, s)
  BY <1>1 DEF Taken, kSubset, ReadyIn, HeldBy, Of
<1>3. /\ Filled(held')
      /\ \A r : Total(held', r) <= Total(held, r)
      /\ Total(held, s) = Trajectories(S) + Total(held', s)
  BY <1>1, <1>2, WithoutTotal DEF CountOK
<1>4. \A r : Total(held, r) \in Nat /\ Total(held', r) \in Nat
  BY <1>3, FilledSums DEF CountOK
<1>5. Trajectories(S) \in Nat
  <2>1. IsFiniteSet(S)
    BY <1>2, FilledSums, FS_Subset DEF CountOK
  <2> DEFINE f == [i \in S |-> Size(held[i])]
  <2>2. DOMAIN f = S /\ \A i \in S : f[i] \in Nat
    BY <1>2 DEF CountOK, Filled, Of
  <2> HIDE DEF f
  <2>3. SumFunctionOnSet(f, DOMAIN f) \in Nat
    BY <2>1, <2>2, SumNat
  <2> QED
    BY <2>3 DEF Trajectories, SumFunction, f
<1>6. totals \in [Shards -> Counters]
  BY DEF CountOK
<1>7. totals' \in [Shards -> Counters]
  BY <1>1, <1>5, <1>6 DEF Counters
<1>8. ASSUME NEW r \in Shards
      PROVE  Covered(held', totals', r)
  <2>1. totals[r].consumed \in Nat /\ totals[r].trajectories \in Nat
        /\ totals[r].consumed + Total(held, r) <= totals[r].trajectories
    BY <1>6 DEF Counters, CountOK, Covered
  <2>2. CASE r = s
    <3>1. totals'[r].consumed = totals[r].consumed + Trajectories(S)
          /\ totals'[r].trajectories = totals[r].trajectories
      BY <1>1, <1>6, <2>2 DEF Counters
    <3> QED
      BY <1>3, <1>4, <1>5, <2>1, <2>2, <3>1 DEF Covered
  <2>3. CASE r # s
    <3>1. totals'[r] = totals[r]
      BY <1>1, <1>6, <2>3
    <3>2. Total(held', r) <= Total(held, r) /\ Total(held, r) \in Nat /\ Total(held', r) \in Nat
      BY <1>3, <1>4
    <3> QED
      BY <2>1, <3>1, <3>2 DEF Covered
  <2> QED
    BY <2>2, <2>3
<1> QED
  BY <1>3, <1>7, <1>8 DEF CountOK

(* Discarding what a shard has, or one group, only widens the gap.         *)
(* (delete_instance, BufferShard::reset)                                   *)
LEMMA DiscardCounts ==
    ASSUME TypeOK, CountOK(held, totals), NEW S, held' = Queue!Without(S),
           \/ totals' = totals
           \/ \E s \in Shards : S = HeldBy(s) /\ totals' = [totals EXCEPT ![s] = Zero]
    PROVE  CountOK(held', totals')
<1>1. /\ Filled(held')
      /\ \A r : /\ Total(held', r) <= Total(held, r)
                /\ Of(held, r) \subseteq S => Total(held', r) = 0
  BY WithoutTotal DEF CountOK
<1>2. \A r : Total(held, r) \in Nat /\ Total(held', r) \in Nat
  BY <1>1, FilledSums DEF CountOK
<1>3. totals \in [Shards -> Counters] /\ totals' \in [Shards -> Counters]
  BY DEF CountOK, Counters, Zero
<1>4. ASSUME NEW r \in Shards
      PROVE  Covered(held', totals', r)
  <2>1. totals[r].consumed \in Nat /\ totals[r].trajectories \in Nat
        /\ totals[r].consumed + Total(held, r) <= totals[r].trajectories
        /\ Total(held', r) <= Total(held, r)
        /\ Total(held, r) \in Nat /\ Total(held', r) \in Nat
    BY <1>1, <1>2, <1>3 DEF Counters, CountOK, Covered
  <2>2. CASE totals'[r] = totals[r]
    BY <2>1, <2>2 DEF Covered
  <2>3. CASE totals'[r] # totals[r]
    <3>1. S = HeldBy(r) /\ totals'[r] = Zero
      BY <1>3, <2>3
    <3>2. Total(held', r) = 0
      BY <1>1, <3>1 DEF HeldBy, Of
    <3> QED
      BY <3>1, <3>2 DEF Covered, Zero
  <2> QED
    BY <2>2, <2>3
<1> QED
  BY <1>1, <1>3, <1>4 DEF CountOK

(* What one shard adds to the sums keeps them consistent.                  *)
(* (BufferShard::get_status)                                               *)
LEMMA StatusCounts ==
    ASSUME StatusInv, NEW t \in Tasks, NEW s \in Shards, StatusShard(t, s)
    PROVE  SumsOK(StatusOp(calls[t].todo \ {s}, Plus(calls[t].sums, s)))
<1> DEFINE sums == calls[t].sums
<1>1. /\ sums \in [trajectories : Nat, consumed : Nat, pending : Nat, incomplete : Nat]
      /\ sums.consumed + sums.pending + sums.incomplete <= sums.trajectories
  BY DEF StatusInv, SumsOK, StatusShard, At
<1>2. /\ totals[s].consumed \in Nat /\ totals[s].trajectories \in Nat
      /\ totals[s].consumed + Total(held, s) <= totals[s].trajectories
  BY DEF StatusInv, CountOK, Counters, Covered
<1>3. /\ HeldBy(s) = Of(held, s) /\ IsFiniteSet(HeldBy(s))
      /\ Total(held, s) \in Nat /\ Cardinality(HeldBy(s)) <= Total(held, s)
  BY FilledSums DEF StatusInv, CountOK, HeldBy, Of
<1>4. /\ Cardinality(ReadyIn(s)) \in Nat /\ Cardinality(HeldBy(s) \ ReadyIn(s)) \in Nat
      /\ Cardinality(ReadyIn(s)) + Cardinality(HeldBy(s) \ ReadyIn(s)) = Cardinality(HeldBy(s))
  <2>1. ReadyIn(s) \subseteq HeldBy(s)
    BY DEF ReadyIn
  <2>2. /\ IsFiniteSet(ReadyIn(s)) /\ IsFiniteSet(HeldBy(s) \ ReadyIn(s))
        /\ ReadyIn(s) \union (HeldBy(s) \ ReadyIn(s)) = HeldBy(s)
        /\ ReadyIn(s) \intersect (HeldBy(s) \ ReadyIn(s)) = {}
    BY <1>3, <2>1, FS_Subset
  <2>3. Cardinality({}) = 0 /\ Cardinality(ReadyIn(s)) \in Nat
        /\ Cardinality(HeldBy(s) \ ReadyIn(s)) \in Nat
    BY <2>2, FS_CardinalityType, FS_EmptySet
  <2>4. Cardinality(ReadyIn(s) \union (HeldBy(s) \ ReadyIn(s)))
          = Cardinality(ReadyIn(s)) + Cardinality(HeldBy(s) \ ReadyIn(s)) - Cardinality({})
    BY <2>2, FS_Union
  <2>5. Cardinality(HeldBy(s))
          = Cardinality(ReadyIn(s)) + Cardinality(HeldBy(s) \ ReadyIn(s)) - 0
    BY <2>2, <2>3, <2>4, Zenon
  <2> QED
    BY <2>3, <2>5
<1> DEFINE new == Plus(sums, s)
<1>5. /\ new.trajectories = sums.trajectories + totals[s].trajectories
      /\ new.consumed = sums.consumed + totals[s].consumed
      /\ new.pending = sums.pending + Cardinality(ReadyIn(s))
      /\ new.incomplete = sums.incomplete + Cardinality(HeldBy(s) \ ReadyIn(s))
      /\ new \in [trajectories : Nat, consumed : Nat, pending : Nat, incomplete : Nat]
  BY <1>1, <1>2, <1>4 DEF Plus
<1> HIDE DEF new
<1>6. new.consumed + new.pending + new.incomplete <= new.trajectories
  BY <1>1, <1>2, <1>3, <1>4, <1>5
<1> QED
  BY <1>5, <1>6 DEF SumsOK, StatusOp, new

(* A call goes on with consistent sums.  (Pending) *)
LEMMA SumsStay ==
    ASSUME StatusInv, NEW t \in Tasks, NEW op, Pending(t, op), SumsOK(op)
    PROVE  \A x \in Tasks : SumsOK(calls'[x])
BY OthersStay DEF StatusInv

(* Every step keeps the counters and the sums.  *)
LEMMA StatusInvStep ==
    ASSUME StatusInv, [Next]_vars
    PROVE  StatusInv'
<1> USE DEF StatusInv
<1>1. TypeOK'
  BY TypeStep
<1> DEFINE Goal == CountOK(held', totals') /\ \A t \in Tasks : SumsOK(calls'[t])
<1>2. ASSUME UNCHANGED <<shard_vars, calls>>
      PROVE  Goal
  BY <1>2 DEF shard_vars
<1>3. ASSUME NEW t \in Tasks, NEW op, Pending(t, op), op.kind # "status",
             UNCHANGED shard_vars
      PROVE  Goal
  BY <1>3, SumsStay DEF SumsOK, shard_vars
<1>4. ASSUME NEW x \in Inputs, write(x[1], x[2])
      PROVE  Goal
  BY <1>4, WriteCounts DEF write
<1>5. ASSUME NEW i \in Instances, delete_instance(i)
      PROVE  Goal
  BY <1>5, DiscardCounts DEF delete_instance, Queue!Discard
<1>6. ASSUME NEW t \in Tasks, NEW s \in Shards, BatchNext(t, s)
      PROVE  Goal
  <2>1. PICK n \in DOMAIN calls[t].asked, total \in Nat :
          LET x == calls[t].asked[n]
              rest == [calls[t].parts EXCEPT ![s] = @ \ {n}]
          IN  /\ calls[t].kind = "batch" /\ x \in Inputs
              /\ Rejects(x[1], x[2]) \/ Accepts(x[1], x[2])
              /\ Pending(t, BatchOp(calls[t].asked, rest, total))
              /\ OpOK(BatchOp(calls[t].asked, rest, total), Len(versions))
    BY <1>6, BatchNextParts
  <2>2. CountOK(held', totals')
    BY <2>1, WriteCounts
  <2>3. \E op : op.kind # "status" /\ Pending(t, op)
    BY <2>1 DEF BatchOp
  <2> QED
    BY <2>2, <2>3, SumsStay DEF SumsOK
<1>7. ASSUME NEW t \in Tasks, NEW s \in Shards, ReadShard(t, s)
      PROVE  Goal
  <2>1. \E op : op.kind # "status" /\ Pending(t, op)
    BY <1>7 DEF ReadShard, ReadOp
  <2> QED
    BY <1>7, <2>1, ReadCounts, SumsStay DEF SumsOK
<1>8. ASSUME NEW t \in Tasks, NEW s \in Shards, ResetShard(t, s)
      PROVE  Goal
  <2>1. \E op : op.kind # "status" /\ Pending(t, op)
    BY <1>8 DEF ResetShard, ResetOp
  <2>2. CountOK(held', totals')
    BY <1>8, DiscardCounts DEF ResetShard, Queue!Discard
  <2> QED
    BY <2>1, <2>2, SumsStay DEF SumsOK
<1>9. ASSUME NEW t \in Tasks, NEW s \in Shards, StatusShard(t, s)
      PROVE  Goal
  BY <1>9, StatusCounts, SumsStay DEF StatusShard, shard_vars
<1>10. ASSUME NEW t \in Tasks, get_status(t)
       PROVE  Goal
  <2>1. SumsOK(StatusOp(Shards, NoSums))
    BY DEF SumsOK, StatusOp, NoSums
  <2> QED
    BY <1>10, <2>1, SumsStay DEF get_status, shard_vars
<1>11. ASSUME NEW t \in Tasks,
              \/ \E b \in Batches : batch_write(t, b)
              \/ \E max \in MaxGroupsArgs :
                   read_ready_groups(t, max) \/ read_ready_groups_blocking(t, max)
              \/ reset(t)
              \/ \E r \in ConfigRequests : update_config(t, r[1], r[2])
       PROVE  Goal
  <2>1. \E op : op.kind # "status" /\ Pending(t, op)
    BY <1>11 DEF batch_write, read_ready_groups, read_ready_groups_blocking, reset,
                 update_config, BatchOp, ReadOp, ProbeOp, ResetOp, FieldsOp
  <2>2. UNCHANGED shard_vars
    BY <1>11 DEF batch_write, read_ready_groups, read_ready_groups_blocking, reset,
                 update_config
  <2> QED
    BY <1>3, <2>1, <2>2
<1>12. ASSUME NEW t \in Tasks, NEW s \in Shards, ProbeShard(t, s) \/ ConfigShard(t, s)
       PROVE  Goal
  <2>1. \E op : op.kind # "status" /\ Pending(t, op)
    BY <1>12 DEF ProbeShard, ConfigShard, ProbeOp, ConfigOp
  <2>2. UNCHANGED shard_vars
    BY <1>12 DEF ProbeShard, ConfigShard
  <2> QED
    BY <1>3, <2>1, <2>2
<1>13. ASSUME NEW t \in Tasks,
              \/ BatchDone(t) \/ ReadDone(t) \/ ProbeDone(t) \/ StoreDedup(t)
              \/ Answered(t) \/ Deadline(t)
       PROVE  Goal
  <2>1. \E op : op.kind # "status" /\ Pending(t, op)
    BY <1>13 DEF BatchDone, ReadDone, ProbeDone, StoreDedup, Answered, Deadline, Returns,
                 Idle, ReadOp, ProbeOp, ConfigOp
  <2>2. UNCHANGED shard_vars
    BY <1>13 DEF BatchDone, ReadDone, ProbeDone, StoreDedup, Answered, Deadline
  <2> QED
    BY <1>3, <2>1, <2>2
<1>14. ASSUME Request
       PROVE  Goal
  BY <1>4, <1>5, <1>10, <1>11, <1>14 DEF Request
<1>15. ASSUME NEW t \in Tasks, Continue(t) \/ Deadline(t)
       PROVE  Goal
  BY <1>6, <1>7, <1>8, <1>9, <1>12, <1>13, <1>15 DEF Continue
<1>16. ASSUME UNCHANGED vars
       PROVE  Goal
  BY <1>2, <1>16 DEF vars
<1> QED
  BY <1>1, <1>14, <1>15, <1>16 DEF Next

(* get_status asks one shard after the other; still what it reports covers *)
(* the groups it counts, because each shard's own counters cover its       *)
(* groups at every moment.                                                 *)
THEOREM StatusCovers == Spec => []StatusConsistent
<1>1. Init => StatusInv
  <2> SUFFICES ASSUME Init PROVE StatusInv
    OBVIOUS
  <2>1. DOMAIN held = {} /\ totals = [s \in Shards |-> Zero]
    BY DEF Init
  <2>2. \A s : Total(held, s) = 0
    BY <2>1, SumEmpty DEF Total, Of
  <2>3. CountOK(held, totals)
    BY <2>1, <2>2 DEF CountOK, Filled, Covered, Counters, Zero
  <2> QED
    BY <2>3, TypeInit DEF Init, StatusInv, SumsOK, Idle
<1>2. StatusInv => StatusConsistent
  BY DEF StatusInv, StatusConsistent, SumsOK
<1> QED
  BY <1>1, <1>2, StatusInvStep, PTL DEF Spec

=============================================================================
