------------------------------ MODULE ShardQueue -----------------------------
(***************************************************************************)
(* The queue of one shard, with the books that tell a group that was       *)
(* deleted from one that was lost: what an instance has been accepted for, *)
(* and what of it somebody deleted.  A group leaves the queue with a       *)
(* reader, with the delete of its instance, which is booked, or with all   *)
(* the others when the shard is reset, which closes the books.             *)
(***************************************************************************)
EXTENDS GroupQueue

VARIABLES accepted,   \* instance -> trajectories collected since the reset
          gone        \* instance -> trajectories deleted since the reset

books == <<accepted, gone>>

Nothing == [i \in Instances |-> 0]

Accept(i, u, size) ==
    /\ Collect(i, u, size)
    /\ accepted' = [accepted EXCEPT ![i] = @ + 1]
    /\ UNCHANGED gone

Delete(i) ==
    /\ i \in DOMAIN held
    /\ Discard({i})
    /\ gone' = [gone EXCEPT ![i] = @ + Len(held[i].trajectories)]
    /\ UNCHANGED accepted

Reset ==
    /\ Discard(DOMAIN held)
    /\ accepted' = Nothing /\ gone' = Nothing

Init ==
    /\ DOMAIN held = {} /\ out = [u \in Uids |-> 0]
    /\ accepted = Nothing /\ gone = Nothing

Next ==
    \/ \E i \in Instances, u \in Uids, size \in GroupSizes : Accept(i, u, size)
    \/ \E S \in SUBSET TheReady : HandOver(S) /\ UNCHANGED books
    \/ \E S \in SUBSET DOMAIN held : Expire(S) /\ UNCHANGED books
    \/ \E i \in DOMAIN held : Delete(i)
    \/ Reset

Spec == Init /\ [][Next]_<<held, out, books>>
=============================================================================
