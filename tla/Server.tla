------------------------------- MODULE Server -------------------------------
(***************************************************************************)
(* The server process around the queue: main() starts and stops the        *)
(* services in order, and the handlers of RpcHandler and HttpHandler call  *)
(* the manager for their peers, over connections that break.  A peer is    *)
(* one connection with at most one request under way.                      *)
(*                                                                         *)
(* Of the manager only this is left: groups become ready, and a read takes *)
(* up to its limit, in any order, and may drop what the shards handed over *)
(* beyond it (ReadDone in BufferManager).                                  *)
(***************************************************************************)
EXTENDS Integers, Sequences, FiniteSets, SequencesExt

CONSTANTS Rpc, Http,    \* peers of either kind
          Groups,       \* groups that writes may complete
          NumShards,    \* seastar::smp::count
          Prefetches,   \* prefetch_groups in a SubscribeRequest
          MaxGroupsArgs,\* max_groups in a BatchReadRequest, 0 = no limit
          RolloutLimit  \* the limit of get_rollout_data

Peers == Rpc \union Http

ASSUME PeerAssumption ==
    /\ Rpc \intersect Http = {}
    /\ IsFiniteSet(Groups) /\ NumShards \in Nat \ {0}
    /\ Prefetches \subseteq Int /\ MaxGroupsArgs \subseteq Nat
    /\ RolloutLimit \in Nat

VARIABLES started,   \* services that main() has started
          signalled, \* SIGINT or SIGTERM has come
          stopped,   \* services that main() has stopped
          closing,   \* main() waits for the stop() of the next one
          fresh,     \* groups nobody has completed yet
          ready,     \* groups that a read may take
          conn,      \* peer -> its connection: "up"; "broken", which the
                     \* server has not noticed; "closed", which it knows
          handler,   \* peer -> what its handler has captured
          wire,      \* peer -> groups on their way to it
          taken,     \* history: peer -> groups read for it, in that order
          received,  \* history: peer -> groups that have reached it
          wasted     \* history: peer -> groups read for it after its
                     \* sink had failed

main_vars == <<started, signalled, stopped, closing>>
queue_vars == <<fresh, ready>>
peer_vars == <<conn, handler, wire, taken, received, wasted>>
vars == <<main_vars, queue_vars, peer_vars>>

-----------------------------------------------------------------------------
(* Services *)

Starts == <<"manager", "metrics", "rpc", "http">>

\* mutant: the manager goes before those that call it
Stops_ManagerFirst == <<"http", "manager", "rpc", "metrics">>

Stops == <<"http", "rpc", "metrics", "manager">>

StartedServices == {Starts[n] : n \in 1 .. started}
StoppedServices == {Stops[n] : n \in 1 .. stopped}
Up(service) == service \in StartedServices \ StoppedServices
Closes(service) == closing /\ Stops[stopped + 1] = service

PeersOf(service) == CASE service = "http" -> Http
                      [] service = "rpc" -> Rpc
                      [] OTHER -> {}

Listens(p) == \E s \in {"http", "rpc"} : p \in PeersOf(s) /\ Up(s) /\ ~Closes(s)

-----------------------------------------------------------------------------
(* Handlers *)

NoHandler == [kind |-> "none"]

\* reads one batch after the other, and sends the groups of hand one by one;
\* the sink is idle, or busy with what it was given, or keeps an error
Subscription(asked, hand, sink) ==
    [kind |-> "subscribe", asked |-> asked, hand |-> hand, sink |-> sink]

\* batch_read, get_rollout_data: reads once
Reader(max) == [kind |-> "read", max |-> max]

\* any other call: "write" may complete groups, "remove" takes them away
Caller(kind) == [kind |-> kind]

\* has its answer, to be sent as one message
Answering(hand) == [kind |-> "answer", hand |-> hand]

Handlers == {NoHandler}
            \union [kind : {"subscribe"}, asked : Prefetches, hand : Seq(Groups),
                    sink : {"idle", "busy", "failed"}]
            \union {Reader(n) : n \in MaxGroupsArgs \union {RolloutLimit}}
            \union {Caller(k) : k \in {"write", "remove", "query"}}
            \union [kind : {"answer"}, hand : Seq(Groups)]

Does(p, kind) == handler[p].kind = kind
InFlight(p) == ~Does(p, "none")
Sends(p) == Does(p, "subscribe") \/ Does(p, "answer")
Hand(p) == IF Sends(p) THEN handler[p].hand ELSE <<>>
Sink(p, state) == Does(p, "subscribe") /\ handler[p].sink = state

Becomes(p, h) == handler' = [handler EXCEPT ![p] = h]

Prefetch(asked) == IF asked > 0 THEN asked ELSE 1

-----------------------------------------------------------------------------
(* main() *)

Start ==
    /\ started < Len(Starts) /\ started' = started + 1
    /\ UNCHANGED <<signalled, stopped, closing, queue_vars, peer_vars>>

Signal ==
    /\ started = Len(Starts) /\ ~signalled /\ signalled' = TRUE
    /\ UNCHANGED <<started, stopped, closing, queue_vars, peer_vars>>

\* the server of RPC closes its connections under the handlers; that of HTTP
\* closes those that wait for a request
StopBegins ==
    /\ signalled /\ ~closing /\ stopped < Len(Stops)
    /\ closing' = TRUE
    /\ conn' = [p \in Peers |->
                 IF /\ p \in PeersOf(Stops[stopped + 1])
                    /\ p \in Rpc \/ ~InFlight(p)
                 THEN "closed" ELSE conn[p]]
    /\ UNCHANGED <<started, signalled, stopped, queue_vars, handler, wire, taken, received, wasted>>

\* every handler of the service has returned
StopEnds ==
    /\ closing /\ closing' = FALSE /\ stopped' = stopped + 1
    /\ \A p \in PeersOf(Stops[stopped + 1]) : ~InFlight(p)
    /\ UNCHANGED <<started, signalled, queue_vars, peer_vars>>

-----------------------------------------------------------------------------
(* Connections *)

Connect(p) ==
    /\ Listens(p) /\ conn[p] = "closed" /\ ~InFlight(p)
    /\ conn' = [conn EXCEPT ![p] = "up"]
    /\ wire' = [wire EXCEPT ![p] = <<>>]
    /\ taken' = [taken EXCEPT ![p] = <<>>]
    /\ received' = [received EXCEPT ![p] = <<>>]
    /\ UNCHANGED <<main_vars, queue_vars, handler, wasted>>

\* the peer is gone, with all that is on its way
Break(p) ==
    /\ conn[p] = "up" /\ conn' = [conn EXCEPT ![p] = "broken"]
    /\ wire' = [wire EXCEPT ![p] = <<>>]
    /\ UNCHANGED <<main_vars, queue_vars, handler, taken, received, wasted>>

Notice(p) ==
    /\ conn[p] = "broken" /\ conn' = [conn EXCEPT ![p] = "closed"]
    /\ UNCHANGED <<main_vars, queue_vars, handler, wire, taken, received, wasted>>

Arrive(p) ==
    /\ wire[p] # <<>>
    /\ received' = [received EXCEPT ![p] = Append(@, Head(wire[p]))]
    /\ wire' = [wire EXCEPT ![p] = Tail(@)]
    /\ UNCHANGED <<main_vars, queue_vars, conn, handler, taken, wasted>>

-----------------------------------------------------------------------------
(* Requests *)

Requests(p, h) ==
    /\ Listens(p) /\ conn[p] = "up" /\ ~InFlight(p)
    /\ Becomes(p, h) /\ wasted' = [wasted EXCEPT ![p] = 0]
    /\ UNCHANGED <<main_vars, queue_vars, conn, wire, taken, received>>

handle_batch_write(p) == Requests(p, Caller("write"))
handle_batch_read(p, max) == Requests(p, Reader(max))
handle_get_status(p) == Requests(p, Caller("query"))
handle_subscribe(p, asked) == Requests(p, Subscription(asked, <<>>, "idle"))

handle_write(p) == Requests(p, Caller("write"))
handle_get_rollout_data(p) == Requests(p, Reader(RolloutLimit))
handle_config(p) == Requests(p, Caller("query"))
handle_reset(p) == Requests(p, Caller("remove"))
handle_delete_instance(p) == Requests(p, Caller("remove"))

\* the gauges of every shard are read
Scrape(p) == Requests(p, Caller("query"))

-----------------------------------------------------------------------------
(* What the manager does *)

\* the ready groups that a read with this limit may get, in some order; it can
\* miss groups that become ready while the shards are asked one after the other
Picks(max) ==
    LET all == Cardinality(ready)
        most == IF max = 0 \/ all < max THEN all ELSE max
    IN  UNION {{q \in [1 .. n -> ready] : IsInjective(q)} : n \in 0 .. most}

\* read_ready_groups for p, which gets q
Reads(p, max, q) ==
    /\ q \in Picks(max)
    /\ \E dropped \in SUBSET (ready \ Range(q)) :
         /\ Cardinality(dropped) <= (NumShards - 1) * max
         /\ dropped = {} \/ Len(q) = max
         /\ ready' = ready \ (Range(q) \union dropped)
    /\ taken' = [taken EXCEPT ![p] = @ \o q]
    /\ wasted' = IF Sink(p, "failed") THEN [wasted EXCEPT ![p] = @ + Len(q)] ELSE wasted
    /\ UNCHANGED <<main_vars, fresh, conn, wire, received>>

\* mutant: a blocking read does not come to its deadline
ReadOnce_Patient(p) ==
    /\ Does(p, "read") /\ ready # {}
    /\ \E q \in Picks(handler[p].max) :
         Reads(p, handler[p].max, q) /\ Becomes(p, Answering(q))

\* a read that may block has found something, or has come to its deadline
ReadOnce(p) ==
    /\ Does(p, "read")
    /\ \E q \in Picks(handler[p].max) :
         Reads(p, handler[p].max, q) /\ Becomes(p, Answering(q))

\* the loop of a subscription reads again until it gets something
Refill(p) ==
    /\ Does(p, "subscribe") /\ Hand(p) = <<>>
    /\ LET asked == handler[p].asked
       IN  \E q \in Picks(Prefetch(asked)) \ {<<>>} :
             /\ Reads(p, Prefetch(asked), q)
             /\ Becomes(p, Subscription(asked, q, handler[p].sink))

Write(p) ==
    /\ Does(p, "write") /\ Becomes(p, Answering(<<>>))
    /\ \E W \in SUBSET fresh : fresh' = fresh \ W /\ ready' = ready \union W
    /\ UNCHANGED <<main_vars, conn, wire, taken, received, wasted>>

Discard(p) ==
    /\ Does(p, "remove") /\ Becomes(p, Answering(<<>>))
    /\ ready' \in SUBSET ready
    /\ UNCHANGED <<main_vars, fresh, conn, wire, taken, received, wasted>>

Query(p) ==
    /\ Does(p, "query") /\ Becomes(p, Answering(<<>>))
    /\ UNCHANGED <<main_vars, queue_vars, conn, wire, taken, received, wasted>>

-----------------------------------------------------------------------------
(* Answers *)

\* s goes out to p, or nowhere
Transmits(p, s) ==
    wire' = IF conn[p] = "up" THEN [wire EXCEPT ![p] = @ \o s] ELSE wire

Answer(p) ==
    /\ Does(p, "answer") /\ Becomes(p, NoHandler)
    /\ Transmits(p, Hand(p))
    /\ UNCHANGED <<main_vars, queue_vars, conn, taken, received, wasted>>

\* the handler of p has group g of its hand sent, and rest is left
Gives(p, g, rest) ==
    /\ Does(p, "subscribe") /\ Hand(p) # <<>> /\ ~Sink(p, "failed")
    /\ Becomes(p, Subscription(handler[p].asked, rest, "busy"))
    /\ Transmits(p, <<g>>)
    /\ UNCHANGED <<main_vars, queue_vars, conn, taken, received, wasted>>

\* mutant: one group of each batch is sent
Send_FirstOnly(p) == Gives(p, Head(Hand(p)), <<>>)

\* mutant: the batch is sent from its end
Send_LastFirst(p) == Gives(p, Last(Hand(p)), Front(Hand(p)))

\* do_for_each: one group is given to the sink, which takes it whatever the
\* connection is, and tells nobody yet
Send(p) == Gives(p, Head(Hand(p)), Tail(Hand(p)))

\* the sink, whose connection may be another core's, gets to know what came of
\* the sends; it keeps an error for the next call
SendSettles(p) ==
    /\ Sink(p, "busy")
    /\ Becomes(p, Subscription(handler[p].asked, Hand(p),
                               IF conn[p] = "closed" THEN "failed" ELSE "idle"))
    /\ UNCHANGED <<main_vars, queue_vars, conn, wire, taken, received, wasted>>

\* mutant: a failing sink costs the group, but does not end the loop
SendFails_GoesOn(p) ==
    /\ Sink(p, "failed") /\ Hand(p) # <<>>
    /\ Becomes(p, Subscription(handler[p].asked, Tail(Hand(p)), "failed"))
    /\ UNCHANGED <<main_vars, queue_vars, conn, wire, taken, received, wasted>>

\* the sink throws the error it has kept: the loop and the handler end
SendFails(p) ==
    /\ Sink(p, "failed") /\ Hand(p) # <<>>
    /\ Becomes(p, NoHandler)
    /\ UNCHANGED <<main_vars, queue_vars, conn, wire, taken, received, wasted>>

-----------------------------------------------------------------------------
Init ==
    /\ started = 0 /\ signalled = FALSE /\ stopped = 0 /\ closing = FALSE
    /\ fresh = Groups /\ ready = {}
    /\ conn = [p \in Peers |-> "closed"]
    /\ handler = [p \in Peers |-> NoHandler]
    /\ wire = [p \in Peers |-> <<>>]
    /\ taken = [p \in Peers |-> <<>>]
    /\ received = [p \in Peers |-> <<>>]
    /\ wasted = [p \in Peers |-> 0]

Main == Start \/ Signal \/ StopBegins \/ StopEnds

Network(p) == Connect(p) \/ Break(p) \/ Notice(p) \/ Arrive(p)

RpcRequest(p) ==
    \/ handle_batch_write(p) \/ handle_get_status(p)
    \/ \E max \in MaxGroupsArgs : handle_batch_read(p, max)
    \/ \E asked \in Prefetches : handle_subscribe(p, asked)

HttpRequest(p) ==
    \/ handle_write(p) \/ handle_get_rollout_data(p)
    \/ handle_config(p) \/ handle_reset(p) \/ handle_delete_instance(p)
    \/ Scrape(p)

\* what a handler does next
Handle(p) ==
    \/ ReadOnce(p) \/ Refill(p) \/ Write(p) \/ Discard(p) \/ Query(p)
    \/ Answer(p) \/ Send(p) \/ SendFails(p)

Next ==
    \/ Main
    \/ \E p \in Peers : Network(p) \/ SendSettles(p) \/ Handle(p)
    \/ \E p \in Rpc : RpcRequest(p)
    \/ \E p \in Http : HttpRequest(p)

Spec == Init /\ [][Next]_vars

\* handlers go on, and main() does, once it is told to stop
Fairness ==
    /\ \A p \in Peers : WF_vars(Handle(p))
    /\ WF_vars(StopBegins) /\ WF_vars(StopEnds)

FairSpec == Spec /\ Fairness

-----------------------------------------------------------------------------
(* Properties *)

(* The variables have their types.                                          *)
TypeOK ==
    /\ started \in 0 .. Len(Starts) /\ stopped \in 0 .. Len(Stops)
    /\ signalled \in BOOLEAN /\ closing \in BOOLEAN
    /\ fresh \subseteq Groups /\ ready \subseteq Groups
    /\ conn \in [Peers -> {"up", "broken", "closed"}]
    /\ handler \in [Peers -> Handlers]
    /\ wire \in [Peers -> Seq(Groups)] /\ taken \in [Peers -> Seq(Groups)]
    /\ received \in [Peers -> Seq(Groups)] /\ wasted \in [Peers -> Nat]

(* Who uses the manager does so while it lives: no handler is under way and *)
(* no gauge is registered before main() has started it, or after it has     *)
(* stopped it, whatever requests come in the middle of the stops.           *)
ManagerOutlivesUsers ==
    (\E p \in Peers : InFlight(p)) \/ Up("metrics") => Up("manager")

(* What a read took for a peer is on its way to it, in the order of the     *)
(* read, as long as its connection holds.                                   *)
NothingLostWhileUp ==
    \A p \in Peers : conn[p] = "up" => taken[p] = received[p] \o wire[p] \o Hand(p)

(* A peer never misses a group and then gets a later one: what it has       *)
(* received is the first part of what was read for it, also when the        *)
(* connection has failed.                                                   *)
NoGap == \A p \in Peers : IsPrefix(received[p], taken[p])

(* Once its sink knows that a subscriber is gone, at most one more batch is  *)
(* read for it: what was sent before that is lost without a word, but the    *)
(* loop then ends.                                                           *)
OneBatchWasted ==
    \A p \in Peers : Does(p, "subscribe") => wasted[p] <= Prefetch(handler[p].asked)

\* all that is left of RPC are subscriptions with nothing to send
IdleSubscribersOnly ==
    /\ Closes("rpc") /\ ready = {}
    /\ \A p \in Rpc : InFlight(p) => Does(p, "subscribe") /\ Hand(p) = <<>>
    /\ \E p \in Rpc : InFlight(p)

(* The server stops when it is told to, unless a subscription is under way  *)
(* that has nothing to send: its loop ends only with a send that fails.     *)
StopCompletes == signalled ~> stopped = Len(Stops) \/ IdleSubscribersOnly
=============================================================================
