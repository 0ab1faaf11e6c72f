----------------------------- MODULE GroupQueue ------------------------------
(***************************************************************************)
(* What a shard promises its users, with no word of memory, disk, entries  *)
(* or pending calls: trajectories are collected into one group per         *)
(* instance; a group becomes ready when it is full or too old; a read      *)
(* hands over whole ready groups and forgets them in the same instant;     *)
(* whoever deletes discards whole groups.  When groups may be discarded is *)
(* for the users of the module to say: ShardQueue, BufferManager.          *)
(***************************************************************************)
EXTENDS Naturals, Sequences, FiniteSets, Functions

CONSTANTS Instances, Uids, GroupSizes

VARIABLES held,   \* instance -> the group collected for it
          out     \* uid -> times handed to a reader

TheReady == {i \in DOMAIN held : held[i].is_complete}

Without(S) == [i \in DOMAIN held \ S |-> held[i]]

Times(u, g) == Cardinality({n \in DOMAIN g.trajectories : g.trajectories[n] = u})

Collect(i, u, size) ==
    LET g == IF i \in DOMAIN held THEN held[i]
             ELSE [instance_id |-> i, trajectories |-> <<>>,
                   group_size |-> size, is_complete |-> FALSE]
        n == Len(g.trajectories) + 1
    IN  /\ held' = [j \in DOMAIN held \union {i} |->
                IF j # i THEN held[j]
                ELSE [g EXCEPT !.trajectories = Append(@, u),
                               !.is_complete = @ \/ n >= g.group_size]]
        /\ UNCHANGED out

Expire(S) ==
    /\ held' = [i \in DOMAIN held |-> IF i \in S
                  THEN [held[i] EXCEPT !.is_complete = TRUE] ELSE held[i]]
    /\ UNCHANGED out

HandOver(S) ==
    /\ held' = Without(S)
    /\ out' = [u \in Uids |-> out[u] + SumFunction([i \in S |-> Times(u, held[i])])]

Discard(S) == held' = Without(S) /\ UNCHANGED out
=============================================================================
