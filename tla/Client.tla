------------------------------- MODULE Client -------------------------------
(***************************************************************************)
(* TransferQueueClient: the connection, the calls that wait for one        *)
(* answer, and the subscription, whose groups a task in the background     *)
(* receives until streaming_active_ is false.                              *)
(*                                                                         *)
(* The program that uses the client may start any call at any time, also   *)
(* from within its callback.  The RPC library and the server may answer,   *)
(* fail or stay silent in any order.  Everything runs on one core: a step  *)
(* is what happens between two waits.                                      *)
(***************************************************************************)
CONSTANTS Calls,   \* calls that wait for an answer at the same time
          Subs,    \* subscriptions that live at the same time
          Unsubs   \* unsubscribe() calls that are pending at the same time

VARIABLES connected,   \* connected_; rpc_client_ is null just when it is FALSE
          calls,       \* calls in flight
          active,      \* streaming_active_
          opening,     \* the subscription whose task has been started, while
                       \* streaming_task_ is not assigned yet
          task,        \* streaming_task_: the subscription that it is for
          subs,        \* subscription -> where its continuation is
          unsubs,      \* unsubscribe() call -> whom it waits for, who called
          alive,       \* the client object has not been destroyed
          crashed,     \* null was followed, or freed memory touched
          misused,     \* history: two calls that must not overlap have
          quiet        \* history: unsubscribe() has returned, and subscribe()
                       \* has not been called since

vars == <<connected, calls, active, opening, task, subs, unsubs, alive,
          crashed, misused, quiet>>

\* streaming_task_ is ready from the start and when its task has ended; taken
\* out by unsubscribe()
Ready == "ready"
Moved == "moved"
None == "none"
ASSUME TaskAssumption == {Ready, Moved, None} \intersect Subs = {}

-----------------------------------------------------------------------------
(* Where a subscription can be *)

NoSub == [stage |-> "none"]

\* waits for make_stream_sink or for the answer to SUBSCRIBE; stale: the
\* connection it began on has been closed
Opening(stage, stale) == [stage |-> stage, stale |-> stale]

\* its task waits for source(), or for the callback
Receiving(stage) == [stage |-> stage]

In(s, stage) == subs[s].stage = stage
Opens(s) == In(s, "sink") \/ In(s, "rpc")
Receives(s) == In(s, "source") \/ In(s, "callback")
Receivers == {s \in Subs : Receives(s)}

Place == {NoSub}
         \union {Opening(g, f) : g \in {"sink", "rpc"}, f \in BOOLEAN}
         \union {Receiving(g) : g \in {"source", "callback"}}

NoUnsub == [on |-> None, from |-> None]
Unsubscribing == {u \in Unsubs : unsubs[u] # NoUnsub}

\* the subscription that the step belongs to goes on with value x
Becomes(s, x) == subs' = [subs EXCEPT ![s] = x]

\* its task ends, and resolves the future
Ends(s) == Becomes(s, NoSub) /\ task' = IF task = s THEN Ready ELSE task

\* what is being opened was begun on a connection that is no more
LosesConnection ==
    subs' = [s \in Subs |-> IF Opens(s) THEN Opening(subs[s].stage, TRUE) ELSE subs[s]]

\* the callback may itself wait for unsubscribe()
InCallback(s) == In(s, "callback") /\ \A u \in Unsubs : unsubs[u].from # s

\* the program calls a method; a task that is being started calls it only from
\* its callback
Runs == alive /\ ~crashed /\ (opening # None => InCallback(opening))
\* a continuation runs, even after the client is gone
Resumes == ~crashed /\ opening = None
\* so does the loop of subscription s
Loops(s) == ~crashed /\ opening \in {None, s}

\* no subscription is s, and nobody waits for one that was
Fresh(s) == In(s, "none") /\ \A u \in Unsubs : unsubs[u].on # s

\* history: a call overlaps others in a way that no caller may rely on
Overlaps(bad) == misused' = IF bad THEN TRUE ELSE misused
Subscribing == {s \in Subs : Opens(s) \/ opening = s}
SubscriptionBusy == Subscribing # {} \/ Unsubscribing # {}

-----------------------------------------------------------------------------
(* Connection *)

\* returns at once; it does not wait for the connection to come up
connect ==
    /\ Runs /\ ~connected
    /\ connected' = TRUE
    /\ UNCHANGED <<calls, active, opening, task, subs, unsubs, alive,
                   crashed, misused, quiet>>

\* mutant: close() also marks the subscription as ended
close_Deactivates ==
    /\ Runs /\ connected
    /\ connected' = FALSE /\ active' = FALSE
    /\ LosesConnection
    /\ Overlaps(Subscribing # {})
    /\ UNCHANGED <<calls, opening, task, unsubs, alive, crashed, quiet>>

\* destroys the RPC client, and leaves streaming_active_ as it is
close ==
    /\ Runs /\ connected
    /\ connected' = FALSE
    /\ LosesConnection
    /\ Overlaps(Subscribing # {})
    /\ UNCHANGED <<calls, active, opening, task, unsubs,
                   alive, crashed, quiet>>

\* ~TransferQueueClient: an active task is told to stop and left alone
destroy ==
    /\ Runs
    /\ alive' = FALSE /\ active' = FALSE
    /\ LosesConnection
    /\ Overlaps(active \/ SubscriptionBusy)
    /\ UNCHANGED <<connected, calls, opening, task, unsubs, crashed, quiet>>

-----------------------------------------------------------------------------
(* Calls with one answer: batch_write, batch_read, get_status *)

\* mutant: connected_ is not checked
Call_Unchecked(c) ==
    /\ Runs /\ c \notin calls
    /\ calls' = calls \union {c}
    /\ crashed' = ~connected
    /\ UNCHANGED <<connected, active, opening, task, subs, unsubs,
                   alive, misused, quiet>>

\* not connected: an error at once
Call(c) ==
    /\ Runs /\ c \notin calls /\ connected
    /\ calls' = calls \union {c}
    /\ crashed' = ~connected
    /\ UNCHANGED <<connected, active, opening, task, subs, unsubs,
                   alive, misused, quiet>>

\* the answer, an error, or the end of the connection; the continuation
\* parses it and touches nothing of the client
Answer(c) ==
    /\ Resumes /\ c \in calls
    /\ calls' = calls \ {c}
    /\ UNCHANGED <<connected, active, opening, task, subs, unsubs, alive,
                   crashed, misused, quiet>>

-----------------------------------------------------------------------------
(* subscribe *)

\* mutant: an active subscription does not prevent another one
subscribe_Again(s) ==
    /\ Runs /\ connected /\ Fresh(s)
    /\ Becomes(s, Opening("sink", FALSE))
    /\ Overlaps(SubscriptionBusy) /\ quiet' = FALSE
    /\ UNCHANGED <<connected, calls, active, opening, task,
                   unsubs, alive, crashed>>

\* refused unless connected and not active
subscribe(s) ==
    /\ Runs /\ connected /\ ~active /\ Fresh(s)
    /\ Becomes(s, Opening("sink", FALSE))
    /\ Overlaps(SubscriptionBusy) /\ quiet' = FALSE
    /\ UNCHANGED <<connected, calls, active, opening, task,
                   unsubs, alive, crashed>>

\* the sink is there: SUBSCRIBE goes out on the client of now, if there is one
SinkMade(s) ==
    /\ Resumes /\ In(s, "sink")
    /\ Becomes(s, Opening("rpc", subs[s].stale))
    /\ crashed' = ~(alive /\ connected)
    /\ UNCHANGED <<connected, calls, active, opening, task, unsubs,
                   alive, misused, quiet>>

\* make_stream_sink or SUBSCRIBE fails, and with it subscribe()
OpeningFails(s) ==
    /\ Resumes /\ Opens(s)
    /\ Becomes(s, NoSub)
    /\ UNCHANGED <<connected, calls, active, opening, task, unsubs, alive,
                   crashed, misused, quiet>>

\* the source is there: the flag is set, and the loop of the task starts
SourceArrives(s) ==
    /\ Resumes /\ In(s, "rpc") /\ ~subs[s].stale
    /\ Becomes(s, Receiving("source"))
    /\ active' = TRUE /\ opening' = s
    /\ crashed' = ~alive
    /\ UNCHANGED <<connected, calls, task, unsubs, alive, misused, quiet>>

\* the loop waits, or has ended already on messages that were there: only now
\* its future is assigned, and subscribe() returns
TaskStored(s) ==
    /\ ~crashed /\ opening = s
    /\ opening' = None
    /\ task' = IF Receives(s) THEN s ELSE Ready
    /\ crashed' = ~alive
    /\ UNCHANGED <<connected, calls, active, subs, unsubs, alive, misused, quiet>>

-----------------------------------------------------------------------------
(* The receiving task: do_until and its handler of exceptions *)

\* a message: the callback is called, whatever the flag is now
Receive(s) ==
    /\ Loops(s) /\ In(s, "source")
    /\ Becomes(s, Receiving("callback"))
    /\ UNCHANGED <<connected, calls, active, opening, task, unsubs, alive,
                   crashed, misused, quiet>>

\* mutant: the loop does not look at the flag
CallbackReturns_GoesOn(s) ==
    /\ Loops(s) /\ InCallback(s)
    /\ Becomes(s, Receiving("source"))
    /\ crashed' = ~alive
    /\ UNCHANGED <<connected, calls, active, opening, task, unsubs,
                   alive, misused, quiet>>

\* the callback returns: the loop looks at the flag
CallbackReturns(s) ==
    /\ Loops(s) /\ InCallback(s)
    /\ \/ active /\ Becomes(s, Receiving("source")) /\ UNCHANGED task
       \/ ~active /\ Ends(s)
    /\ crashed' = ~alive
    /\ UNCHANGED <<connected, calls, active, opening, unsubs, alive, misused, quiet>>

\* the end of the stream, a message that does not parse, or a failing callback
TaskFails(s) ==
    /\ Loops(s)
    /\ In(s, "source") \/ InCallback(s)
    /\ Ends(s)
    /\ active' = FALSE
    /\ crashed' = ~alive
    /\ UNCHANGED <<connected, calls, opening, unsubs, alive, misused, quiet>>

-----------------------------------------------------------------------------
(* unsubscribe *)

\* not active: returns at once
UnsubscribeIdle ==
    /\ Runs /\ connected /\ ~active
    /\ quiet' = TRUE
    /\ Overlaps(SubscriptionBusy)
    /\ UNCHANGED <<connected, calls, active, opening, task, subs,
                   unsubs, alive, crashed>>

\* mutant: the flag is left to the task
unsubscribe_KeepsFlag(u, from) ==
    /\ Runs /\ connected /\ active /\ task \in Subs /\ u \notin Unsubscribing
    /\ unsubs' = [unsubs EXCEPT ![u] = [on |-> task, from |-> from]]
    /\ task' = Moved
    /\ Overlaps(SubscriptionBusy \/ from # None)
    /\ UNCHANGED <<connected, calls, active, opening, subs,
                   alive, crashed, quiet>>

\* from: the subscription whose callback makes the call, or none
unsubscribe(u, from) ==
    /\ Runs /\ connected /\ active /\ task \in Subs /\ u \notin Unsubscribing
    /\ active' = FALSE
    /\ unsubs' = [unsubs EXCEPT ![u] = [on |-> task, from |-> from]]
    /\ task' = Moved
    /\ Overlaps(SubscriptionBusy \/ from # None)
    /\ UNCHANGED <<connected, calls, opening, subs, alive, crashed, quiet>>

\* streaming_task_ is not that of the active subscription yet: ready, and
\* nothing is waited for; or taken out before, and null is followed
UnsubscribeEarly ==
    /\ Runs /\ connected /\ active /\ task \notin Subs
    /\ active' = FALSE
    /\ task' = Moved
    /\ crashed' = (task = Moved)
    /\ quiet' = (quiet \/ task = Ready)
    /\ Overlaps(SubscriptionBusy)
    /\ UNCHANGED <<connected, calls, opening, subs, unsubs, alive>>

\* mutant: the task is not waited for
UnsubscribeReturns_AtOnce(u) ==
    /\ Resumes /\ u \in Unsubscribing
    /\ unsubs' = [unsubs EXCEPT ![u] = NoUnsub]
    /\ quiet' = TRUE
    /\ UNCHANGED <<connected, calls, active, opening, task, subs,
                   alive, crashed, misused>>

\* the task has ended
UnsubscribeReturns(u) ==
    /\ Resumes /\ u \in Unsubscribing
    /\ In(unsubs[u].on, "none")
    /\ unsubs' = [unsubs EXCEPT ![u] = NoUnsub]
    /\ quiet' = TRUE
    /\ UNCHANGED <<connected, calls, active, opening, task, subs,
                   alive, crashed, misused>>

-----------------------------------------------------------------------------
Init ==
    /\ connected = FALSE /\ calls = {}
    /\ active = FALSE /\ opening = None /\ task = Ready
    /\ subs = [s \in Subs |-> NoSub]
    /\ unsubs = [u \in Unsubs |-> NoUnsub]
    /\ alive = TRUE /\ crashed = FALSE
    /\ misused = FALSE /\ quiet = TRUE

Program ==
    \/ connect \/ close \/ destroy \/ UnsubscribeIdle \/ UnsubscribeEarly
    \/ \E c \in Calls : Call(c)
    \/ \E s \in Subs : subscribe(s)
    \/ \E u \in Unsubs :
         \E from \in {None} \union {s \in Subs : InCallback(s) /\ Loops(s)} :
            unsubscribe(u, from)

\* what the library owes a pending call: to go on, one way or the other
Opened(s) == SinkMade(s) \/ SourceArrives(s) \/ OpeningFails(s)
Streamed(s) == Receive(s) \/ TaskFails(s)

Continue ==
    \/ \E c \in Calls : Answer(c)
    \/ \E s \in Subs : Opened(s) \/ TaskStored(s) \/ Streamed(s) \/ CallbackReturns(s)
    \/ \E u \in Unsubs : UnsubscribeReturns(u)

Next == Program \/ Continue

Spec == Init /\ [][Next]_vars

\* a pending call gets on or fails, a callback comes back, and the server
\* sends something or closes the stream
Fairness ==
    /\ \A c \in Calls : WF_vars(Answer(c))
    /\ \A s \in Subs : /\ WF_vars(Opened(s)) /\ WF_vars(TaskStored(s))
                       /\ WF_vars(Streamed(s)) /\ WF_vars(CallbackReturns(s))
    /\ \A u \in Unsubs : WF_vars(UnsubscribeReturns(u))

FairSpec == Spec /\ Fairness

-----------------------------------------------------------------------------
(* Properties *)

(* The variables have their types: the client is always in a state that its *)
(* members can be in.                                                       *)
TypeOK ==
    /\ connected \in BOOLEAN /\ calls \subseteq Calls
    /\ active \in BOOLEAN /\ opening \in Subs \union {None}
    /\ task \in Subs \union {Ready, Moved}
    /\ subs \in [Subs -> Place]
    /\ unsubs \in [Unsubs -> [on : Subs \union {None}, from : Subs \union {None}]]
    /\ alive \in BOOLEAN /\ crashed \in BOOLEAN
    /\ misused \in BOOLEAN /\ quiet \in BOOLEAN

(* However calls overlap: streaming_active_ is set without a future of a     *)
(* task that still receives only inside subscribe(), where the loop may run  *)
(* a callback before its future is assigned.  So elsewhere unsubscribe()     *)
(* waits for a task, and never takes out a future twice.                     *)
ActiveHasTask == active /\ opening = None => task \in Subs /\ Receives(task)

(* If subscribe() and unsubscribe() are called one after the other, and      *)
(* close() not in the middle of them, at most one task receives; also when   *)
(* the connection was closed and made again under a running subscription.    *)
OneReceiver == ~misused => \A r, s \in Receivers : r = s

(* Used like that, no callback runs once unsubscribe() has returned, until   *)
(* the next subscribe().                                                     *)
QuietAfterUnsubscribe == ~misused /\ quiet => Receivers = {}

(* Used like that, a subscription is not stopped by what is left of an       *)
(* earlier one: while a task receives and nobody has asked it to stop,       *)
(* streaming_active_ is set.                                                 *)
ActiveUntilAsked == ~misused /\ Receivers # {} /\ Unsubscribing = {} => active

(* Used like that, and destroyed when no subscription is active, the client  *)
(* follows no null rpc_client_ and no continuation touches a dead client.    *)
NeverCrashes == ~misused => ~crashed

(* Used like that, unsubscribe() returns, provided that the server goes on   *)
(* sending or closes the stream, and that callbacks return.                  *)
UnsubscribeEnds ==
    \A u \in Unsubs : u \in Unsubscribing ~> u \notin Unsubscribing \/ misused
=============================================================================
