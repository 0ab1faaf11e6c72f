----------------------------- MODULE DiskStorage -----------------------------
(***************************************************************************)
(* The spill directory of one shard: one file per spilled group, named by  *)
(* its id.  A task is one call; each of its steps ends where the code      *)
(* waits for the file system, and steps of different calls interleave.     *)
(*                                                                         *)
(* A file is a 4-byte length and the serialized group, padded to a         *)
(* multiple of the alignment.  Nothing fsyncs and nothing reads the        *)
(* directory back after a restart: files of an earlier life are only       *)
(* names that a new file may run into.                                     *)
(***************************************************************************)
EXTENDS Integers, Sequences, FiniteSets, SequencesExt

CONSTANTS Tasks,        \* calls that may be pending at the same time
          Groups,       \* groups that may be spilled
          SizeOf(_),    \* serialized size of a group
          MaxMessage,   \* what protobuf serializes at most (INT_MAX)
          HeaderBytes,  \* 4
          Align,        \* 4096
          LoadLimit,    \* the largest group load() accepts, 100 MB
          Faults,       \* which of "open", "write", "short", "load", "mkdir" occur
          Boot,         \* steady_clock when the process starts
          LastTick,     \* bound on steady_clock
          MaxCounter,   \* bound on the id counter
          MaxBatch      \* bound on the length of a batch

ASSUME SizeAssumption == \A g \in Groups : SizeOf(g) \in Nat
ASSUME BlockAssumption == HeaderBytes \in Nat /\ Align \in Nat \ {0}
ASSUME ClockAssumption == Boot \in Nat \ {0}

VARIABLES path,         \* what the directory's path leads to
          initialized,  \* initialized_
          dir,          \* names in the directory
          content,      \* id -> what was written to the file of that name;
                        \* it outlives the name for those who have it open
          clock,        \* steady_clock
          counter,      \* the id counter, which the cores share
          ops,          \* task -> what its continuation has captured
          returned      \* history: ids that spill_batch has returned

vars == <<path, initialized, dir, content, clock, counter, ops, returned>>

Idle == [kind |-> "idle"]
InitOp == [kind |-> "init"]

\* spill_batch: groups left, offsets, and the file being written (0 = none)
SpillOp(rest, offs, id, opened) ==
    [kind |-> "spill", rest |-> rest, offs |-> offs, id |-> id, opened |-> opened]

\* load_batch: offsets, results, and whether the next file is open
LoadOp(offsets, results, opened) ==
    [kind |-> "load", offsets |-> offsets, results |-> results, opened |-> opened]

Pending(t, op) == ops' = [ops EXCEPT ![t] = op]
Returns(t) == Pending(t, Idle)

\* the buffer that spill() writes, in units of Align
aligned_blocks(g) == (HeaderBytes + SizeOf(g) + Align - 1) \div Align

\* load() gets group and length back: both reads find their bytes
Whole(id) ==
    /\ id \in DOMAIN content
    /\ SizeOf(content[id].group) <= LoadLimit
    /\ content[id].size >= HeaderBytes + SizeOf(content[id].group)

-----------------------------------------------------------------------------
init(t) ==
    /\ ops[t] = Idle
    /\ Pending(t, InitOp)
    /\ UNCHANGED <<path, initialized, dir, content, clock, counter, returned>>

\* the directory is made if there is none; its parent may be missing
MakeDirectory(t) ==
    /\ ops[t] = InitOp /\ path = "absent"
    /\ \/ path' = "directory" /\ UNCHANGED ops
       \/ "mkdir" \in Faults /\ UNCHANGED path /\ Returns(t)
    /\ UNCHANGED <<initialized, dir, content, clock, counter, returned>>

\* init() fails when the path leads to a file
InitDone(t) ==
    /\ ops[t] = InitOp /\ path # "absent"
    /\ initialized' = (path = "directory" \/ initialized)
    /\ Returns(t)
    /\ UNCHANGED <<path, dir, content, clock, counter, returned>>

shutdown ==
    /\ initialized
    /\ initialized' = FALSE
    /\ UNCHANGED <<path, dir, content, clock, counter, ops, returned>>

-----------------------------------------------------------------------------
spill_batch(t, groups) ==
    /\ ops[t] = Idle
    /\ Pending(t, SpillOp(groups, <<>>, 0, FALSE))
    /\ UNCHANGED <<path, initialized, dir, content, clock, counter, returned>>

\* mutant: the name is the time alone
SpillId_TimeOnly(t) ==
    /\ ops[t].kind = "spill" /\ ops[t].id = 0 /\ ops[t].rest # <<>>
    /\ initialized /\ SizeOf(Head(ops[t].rest)) <= MaxMessage
    /\ counter < MaxCounter
    /\ counter' = counter + 1
    /\ Pending(t, [ops[t] EXCEPT !.id = clock])
    /\ UNCHANGED <<path, initialized, dir, content, clock, returned>>

\* spill() names the file of the next group
SpillId(t) ==
    /\ ops[t].kind = "spill" /\ ops[t].id = 0 /\ ops[t].rest # <<>>
    /\ initialized /\ SizeOf(Head(ops[t].rest)) <= MaxMessage
    /\ counter < MaxCounter
    /\ counter' = counter + 1
    /\ Pending(t, [ops[t] EXCEPT !.id = clock + counter])
    /\ UNCHANGED <<path, initialized, dir, content, clock, returned>>

\* the file is created, or truncated if there is one
SpillOpen(t) ==
    /\ ops[t].kind = "spill" /\ ops[t].id # 0 /\ ~ops[t].opened
    /\ dir' = dir \union {ops[t].id}
    /\ content' = [x \in DOMAIN content \ {ops[t].id} |-> content[x]]
    /\ Pending(t, SpillOp(ops[t].rest, ops[t].offs, ops[t].id, TRUE))
    /\ UNCHANGED <<path, initialized, clock, counter, returned>>

\* how much dma_write may report to have written, which nobody looks at
Written(g) == IF "short" \in Faults THEN 0 .. aligned_blocks(g)
              ELSE {aligned_blocks(g)}

SpillWrite(t) ==
    /\ ops[t].kind = "spill" /\ ops[t].opened
    /\ LET id == ops[t].id
           g  == Head(ops[t].rest)
       IN  \E blocks \in Written(g) :
             /\ content' = [x \in DOMAIN content \union {id} |->
                  IF x = id THEN [group |-> g, size |-> blocks * Align]
                  ELSE content[x]]
             /\ Pending(t, SpillOp(Tail(ops[t].rest), Append(ops[t].offs, id), 0, FALSE))
    /\ UNCHANGED <<path, initialized, dir, clock, counter, returned>>

\* the whole batch fails, and nobody learns the ids it already has
SpillFails(t) ==
    /\ ops[t].kind = "spill"
    /\ \/ /\ ops[t].id = 0 /\ ops[t].rest # <<>>
          /\ ~initialized \/ SizeOf(Head(ops[t].rest)) > MaxMessage
       \/ ops[t].id # 0 /\ (IF ops[t].opened THEN "write" ELSE "open") \in Faults
    /\ Returns(t)
    /\ UNCHANGED <<path, initialized, dir, content, clock, counter, returned>>

SpillDone(t) ==
    /\ ops[t].kind = "spill" /\ ops[t].rest = <<>>
    /\ returned' = returned \union ToSet(ops[t].offs)
    /\ Returns(t)
    /\ UNCHANGED <<path, initialized, dir, content, clock, counter>>

-----------------------------------------------------------------------------
load_batch(t, offsets) ==
    /\ ops[t] = Idle
    /\ Pending(t, LoadOp(offsets, <<>>, FALSE))
    /\ UNCHANGED <<path, initialized, dir, content, clock, counter, returned>>

\* mutant: the batch is loaded from its end
Wanted_FromEnd(t) == ops[t].offsets[Len(ops[t].offsets) - Len(ops[t].results)]

\* the offset load() is asked for next
Wanted(t) == ops[t].offsets[Len(ops[t].results) + 1]

Loading(t) == ops[t].kind = "load" /\ Len(ops[t].results) < Len(ops[t].offsets)

LoadOpen(t) ==
    /\ Loading(t) /\ ~ops[t].opened
    /\ initialized /\ Wanted(t) \in dir
    /\ Pending(t, LoadOp(ops[t].offsets, ops[t].results, TRUE))
    /\ UNCHANGED <<path, initialized, dir, content, clock, counter, returned>>

\* header, body and parse
LoadRead(t) ==
    /\ Loading(t) /\ ops[t].opened
    /\ Whole(Wanted(t))
    /\ Pending(t, LoadOp(ops[t].offsets,
                         Append(ops[t].results, content[Wanted(t)].group), FALSE))
    /\ UNCHANGED <<path, initialized, dir, content, clock, counter, returned>>

\* not initialized, no such file, end of file, too large, or an I/O error
LoadFails(t) ==
    /\ Loading(t)
    /\ \/ "load" \in Faults
       \/ ~ops[t].opened /\ (~initialized \/ Wanted(t) \notin dir)
       \/ ops[t].opened /\ ~Whole(Wanted(t))
    /\ Returns(t)
    /\ UNCHANGED <<path, initialized, dir, content, clock, counter, returned>>

LoadDone(t) ==
    /\ ops[t].kind = "load" /\ ~Loading(t)
    /\ Returns(t)
    /\ UNCHANGED <<path, initialized, dir, content, clock, counter, returned>>

\* without a directory, or without the file, nothing changes
remove(id) ==
    /\ initialized /\ id \in dir
    /\ dir' = dir \ {id}
    /\ UNCHANGED <<path, initialized, content, clock, counter, ops, returned>>

-----------------------------------------------------------------------------
(* The environment: time passes, other cores take numbers *)

Tick ==
    /\ clock < LastTick
    /\ clock' = clock + 1
    /\ UNCHANGED <<path, initialized, dir, content, counter, ops, returned>>

OtherCore ==
    /\ counter < MaxCounter
    /\ counter' = counter + 1
    /\ UNCHANGED <<path, initialized, dir, content, clock, ops, returned>>

Init ==
    /\ path \in {"absent", "directory", "file"} /\ initialized = FALSE
    \* files of an earlier life
    /\ dir \in SUBSET (IF path = "directory" THEN {Boot, Boot + 1} ELSE {})
    /\ content = [x \in {} |-> {}]
    /\ clock = Boot /\ counter = 0
    /\ ops = [t \in Tasks |-> Idle] /\ returned = {}

Continue(t) ==
    \/ MakeDirectory(t) \/ InitDone(t)
    \/ SpillId(t) \/ SpillOpen(t) \/ SpillWrite(t) \/ SpillFails(t) \/ SpillDone(t)
    \/ LoadOpen(t) \/ LoadRead(t) \/ LoadFails(t) \/ LoadDone(t)

\* callers load and remove what spill_batch has returned to them
Request ==
    \/ \E t \in Tasks :
         \/ init(t)
         \/ \E n \in 1 .. MaxBatch :
              \/ \E groups \in [1 .. n -> Groups] : spill_batch(t, groups)
              \/ \E offsets \in Injection(1 .. n, returned) : load_batch(t, offsets)
    \/ \E id \in returned : remove(id)
    \/ shutdown

Next == Request \/ Tick \/ OtherCore \/ \E t \in Tasks : Continue(t)

Spec == Init /\ [][Next]_vars

-----------------------------------------------------------------------------
\* what a continuation of each kind has captured, ret being what spills returned
OpOK(op, ret) ==
    \/ op \in {Idle, InitOp}
    \/ /\ op.kind = "spill" /\ op = SpillOp(op.rest, op.offs, op.id, op.opened)
       /\ op.rest \in Seq(Groups) /\ op.offs \in Seq(Nat \ {0})
       /\ op.id \in Nat /\ op.opened \in BOOLEAN
       /\ op.id # 0 => op.rest # <<>>
       /\ op.opened => op.id # 0
    \/ /\ op.kind = "load" /\ op = LoadOp(op.offsets, op.results, op.opened)
       /\ op.offsets \in Seq(ret) /\ op.results \in Seq(Groups)
       /\ Len(op.results) <= Len(op.offsets)
       /\ op.opened \in BOOLEAN

(***************************************************************************)
(* Every variable has its type, and every id is positive, as the shard     *)
(* needs: disk_offset 0 means "not on disk".                               *)
(***************************************************************************)
TypeOK ==
    /\ path \in {"absent", "directory", "file"} /\ initialized \in BOOLEAN
    /\ dir \in SUBSET (Nat \ {0})
    /\ DOMAIN content \in SUBSET (Nat \ {0})
    /\ content \in [DOMAIN content -> [group : Groups, size : Nat]]
    /\ clock \in Nat \ {0} /\ counter \in Nat
    /\ DOMAIN ops = Tasks /\ \A t \in Tasks : OpOK(ops[t], returned)
    /\ returned \in SUBSET DOMAIN content

TakenIds(op) == IF op.kind = "spill" /\ op.id # 0 THEN {op.id} ELSE {}

(***************************************************************************)
(* No two files of this life share a name: an id that a spill has taken is *)
(* neither another pending spill's nor that of a file already written,     *)
(* although the clock may stand still and other cores take numbers too.    *)
(***************************************************************************)
UniqueIds ==
    \A t \in Tasks :
        /\ TakenIds(ops[t]) \intersect DOMAIN content = {}
        /\ \A s \in Tasks \ {t} : TakenIds(ops[t]) \intersect TakenIds(ops[s]) = {}

\* what load_batch has read and what it has open, each with its id
Read(t) ==
    IF ops[t].kind # "load" THEN {}
    ELSE {<<ops[t].offsets[k], ops[t].results[k]>> : k \in DOMAIN ops[t].results}
           \union IF ops[t].opened
                  THEN {<<Wanted(t), content[Wanted(t)].group>>} ELSE {}

Store == INSTANCE SpillStore
           WITH files <- [id \in dir \intersect DOMAIN content |-> content[id].group],
                used <- DOMAIN content,
                loaded <- [t \in Tasks |-> Read(t)]

(***************************************************************************)
(* The directory is a store with fresh ids: whatever calls interleave,     *)
(* also while files are opened, cut short or unlinked under an open load,  *)
(* a load gets under each id the group that was spilled under it.          *)
(***************************************************************************)
ImplementsSpillStore == Store!Spec
=============================================================================
