----------------------------- MODULE SpillStore ------------------------------
(***************************************************************************)
(* What a shard relies on when it spills: a store that keeps each group    *)
(* under an id never used before, until that id is removed, and never      *)
(* hands a caller a group under another id or a part of a group.  Spills   *)
(* and loads may fail.                                                     *)
(***************************************************************************)
CONSTANTS Tasks, Groups

VARIABLES files,    \* id -> the group kept under it
          used,     \* ids that have been given out with a file
          loaded    \* task -> the <<id, group>> pairs its pending load has read

Keep(id) ==
    /\ id \notin used
    /\ used' = used \union {id}
    /\ DOMAIN files' = DOMAIN files \union {id}
    /\ files'[id] \in Groups
    /\ \A x \in DOMAIN files : files'[x] = files[x]
    /\ UNCHANGED loaded

Load(t, id) ==
    /\ id \in DOMAIN files
    /\ loaded' = [loaded EXCEPT ![t] = @ \union {<<id, files[id]>>}]
    /\ UNCHANGED <<files, used>>

Answer(t) ==
    /\ loaded' = [loaded EXCEPT ![t] = {}]
    /\ UNCHANGED <<files, used>>

Remove(id) ==
    /\ files' = [x \in DOMAIN files \ {id} |-> files[x]]
    /\ UNCHANGED <<used, loaded>>

Init ==
    /\ files = [x \in {} |-> {}] /\ used = {}
    /\ loaded = [t \in Tasks |-> {}]

Next ==
    \/ \E id \in used' : Keep(id)
    \/ \E t \in Tasks : Answer(t) \/ \E id \in DOMAIN files : Load(t, id)
    \/ \E id \in DOMAIN files : Remove(id)

Spec == Init /\ [][Next]_<<files, used, loaded>>
=============================================================================
