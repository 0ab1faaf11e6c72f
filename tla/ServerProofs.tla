---------------------------- MODULE ServerProofs ----------------------------
(* Server: for any number of peers, groups and shards.                      *)
EXTENDS Server, SequenceTheorems, FiniteSetTheorems, TLAPS

(* Where main() is, and which handlers may be under way there.               *)
MainOrder ==
    /\ signalled => started = 4
    /\ closing \/ stopped > 0 => signalled
    /\ closing => stopped < 4
    /\ \A p \in Rpc : InFlight(p) => started >= 3 /\ stopped < 2
    /\ \A p \in Http : InFlight(p) => started = 4 /\ stopped < 1

(* What was read for p: received, on its way, and the rest.                  *)
Follows(p) == \E rest \in Seq(Groups) : taken[p] = (received[p] \o wire[p]) \o rest
Deliveries ==
    \A p \in Peers : /\ conn[p] = "up" => taken[p] = (received[p] \o wire[p]) \o Hand(p)
                     /\ Follows(p)

Bound(p) == Prefetch(handler[p].asked)

(* A subscription that reads when its sink has failed has to send next.      *)
Waste ==
    \A p \in Peers : Does(p, "subscribe") =>
        wasted[p] = 0 \/ (Sink(p, "failed") /\ Hand(p) # <<>> /\ wasted[p] <= Bound(p))

(* A sink that has failed is one of a connection that is no more.            *)
FailsClosed(p) == Sink(p, "failed") => conn[p] = "closed"
Broken == \A p \in Peers : FailsClosed(p)

(* The services that are up, as numbers.                                     *)
LEMMA ServicesUp ==
    ASSUME started \in 0 .. 4, stopped \in 0 .. 4
    PROVE  /\ Up("manager") <=> started >= 1 /\ stopped < 4
           /\ Up("metrics") <=> started >= 2 /\ stopped < 3
           /\ Up("rpc") <=> started >= 3 /\ stopped < 2
           /\ Up("http") <=> started = 4 /\ stopped < 1
<1>1. /\ StartedServices = {Starts[n] : n \in 1 .. started}
      /\ StoppedServices = {Stops[n] : n \in 1 .. stopped}
    BY DEF StartedServices, StoppedServices
<1>2. /\ \A n \in 1 .. 4 : /\ Starts[n] = "manager" <=> n = 1
                           /\ Starts[n] = "metrics" <=> n = 2
                           /\ Starts[n] = "rpc" <=> n = 3
                           /\ Starts[n] = "http" <=> n = 4
      /\ \A n \in 1 .. 4 : /\ Stops[n] = "manager" <=> n = 4
                           /\ Stops[n] = "metrics" <=> n = 3
                           /\ Stops[n] = "rpc" <=> n = 2
                           /\ Stops[n] = "http" <=> n = 1
    BY DEF Starts, Stops
<1>3. \A s \in {"manager", "metrics", "rpc", "http"} :
        Up(s) <=> /\ \E n \in 1 .. started : Starts[n] = s
                  /\ ~\E n \in 1 .. stopped : Stops[n] = s
    BY <1>1 DEF Up
<1> QED
    BY <1>2, <1>3

(* A handler's hand is a sequence of groups.                                 *)
LEMMA HandType ==
    ASSUME NEW p \in Peers, handler \in [Peers -> Handlers]
    PROVE  Hand(p) \in Seq(Groups)
BY EmptySeq DEF Handlers, Hand, Sends, Does, NoHandler, Reader, Caller

(* What a read gets is a sequence of ready groups, no longer than its limit. *)
LEMMA PicksType ==
    ASSUME TypeOK, NEW max \in Nat, NEW q \in Picks(max)
    PROVE  /\ q \in Seq(Groups) /\ Len(q) \in Nat
           /\ max > 0 => Len(q) <= max
<1> DEFINE all == Cardinality(ready)
           most == IF max = 0 \/ all < max THEN all ELSE max
<1>1. all \in Nat
    <2>1. ready \in SUBSET Groups
        BY DEF TypeOK
    <2>2. IsFiniteSet(ready)
        BY <2>1, PeerAssumption, FS_Subset
    <2> QED
        BY <2>2, FS_CardinalityType
<1>2. most \in Nat /\ (max > 0 => most <= max)
    BY <1>1
<1>3. PICK n \in 0 .. most : q \in [1 .. n -> ready]
    BY DEF Picks
<1>4. n \in Nat /\ n <= most
    BY <1>2
<1>5. q \in [1 .. n -> Groups]
    BY <1>3 DEF TypeOK
<1>6. q \in Seq(Groups) /\ Len(q) = n
    BY <1>4, <1>5
<1> QED
    BY <1>2, <1>4, <1>6

(* A read keeps the types of what it touches.                                *)
LEMMA ReadType ==
    ASSUME TypeOK, NEW p \in Peers, NEW max \in Nat, NEW q \in Picks(max), Reads(p, max, q)
    PROVE  /\ ready' \subseteq Groups
           /\ taken' \in [Peers -> Seq(Groups)] /\ wasted' \in [Peers -> Nat]
<1>1. q \in Seq(Groups) /\ Len(q) \in Nat
    BY PicksType
<1>2. taken[p] \o q \in Seq(Groups)
    BY <1>1, ConcatProperties DEF TypeOK
<1> QED
    BY <1>1, <1>2 DEF Reads, TypeOK

(* What a handler sends, or nothing.                                         *)
LEMMA TransmitType ==
    ASSUME TypeOK, NEW p \in Peers, NEW s \in Seq(Groups), Transmits(p, s)
    PROVE  wire' \in [Peers -> Seq(Groups)]
<1>1. wire[p] \o s \in Seq(Groups)
    BY ConcatProperties DEF TypeOK
<1> QED
    BY <1>1 DEF Transmits, TypeOK

(* The limits that reads have are numbers.                                   *)
LEMMA Limits ==
    /\ \A asked \in Prefetches : Prefetch(asked) \in Nat \ {0}
    /\ \A max \in MaxGroupsArgs \union {RolloutLimit} : max \in Nat
BY PeerAssumption DEF Prefetch

(* What a handler has captured, from its kind.                               *)
LEMMA Kinds ==
    ASSUME TypeOK, NEW p \in Peers
    PROVE  /\ Does(p, "subscribe") => /\ handler[p].asked \in Prefetches
                                      /\ handler[p].hand \in Seq(Groups)
                                      /\ handler[p].sink \in {"idle", "busy", "failed"}
           /\ Does(p, "answer") => handler[p].hand \in Seq(Groups)
           /\ Does(p, "read") => handler[p].max \in MaxGroupsArgs \union {RolloutLimit}
           /\ Hand(p) \in Seq(Groups)
<1>1. handler[p] \in Handlers
    BY DEF TypeOK
<1>2. Hand(p) \in Seq(Groups)
    BY HandType DEF TypeOK
<1> QED
    BY <1>1, <1>2 DEF Handlers, Does, NoHandler, Reader, Caller

(* The handlers that the actions start or leave.                             *)
LEMMA HandlerTypes ==
    /\ NoHandler \in Handlers
    /\ \A asked \in Prefetches, q \in Seq(Groups), sink \in {"idle", "busy", "failed"} :
         Subscription(asked, q, sink) \in Handlers
    /\ \A max \in MaxGroupsArgs \union {RolloutLimit} : Reader(max) \in Handlers
    /\ \A kind \in {"write", "remove", "query"} : Caller(kind) \in Handlers
    /\ \A q \in Seq(Groups) : Answering(q) \in Handlers
BY DEF Handlers, Subscription, Reader, Caller, Answering

(* A peer's request, whatever it is.                                         *)
LEMMA AnyRequest ==
    ASSUME NEW p, RpcRequest(p) \/ HttpRequest(p)
    PROVE  \E h \in Handlers : /\ Requests(p, h) /\ h.kind \notin {"answer", "none"}
                               /\ h.kind = "subscribe" => h.hand = <<>> /\ h.sink = "idle"
<1> USE HandlerTypes
<1>1. CASE RpcRequest(p)
    <2>1. CASE handle_batch_write(p) \/ handle_get_status(p)
        BY <2>1 DEF handle_batch_write, handle_get_status, Caller
    <2>2. ASSUME NEW max \in MaxGroupsArgs, handle_batch_read(p, max)
          PROVE  Reader(max) \in Handlers /\ Requests(p, Reader(max)) /\ Reader(max).kind = "read"
        BY <2>2 DEF handle_batch_read, Reader
    <2>3. ASSUME NEW asked \in Prefetches, handle_subscribe(p, asked)
          PROVE  LET h == Subscription(asked, <<>>, "idle")
                 IN  /\ h \in Handlers /\ Requests(p, h) /\ h.kind = "subscribe"
                     /\ h.hand = <<>> /\ h.sink = "idle"
        BY <2>3, EmptySeq DEF handle_subscribe, Subscription
    <2> QED
        BY <1>1, <2>1, <2>2, <2>3 DEF RpcRequest
<1>2. CASE HttpRequest(p)
    BY <1>2 DEF HttpRequest, handle_write, handle_get_rollout_data, handle_config,
       handle_reset, handle_delete_instance, Scrape, Reader, Caller
<1> QED
    BY <1>1, <1>2

(* A step keeps the types.                                                   *)
LEMMA TypeStep == TypeOK /\ MainOrder /\ [Next]_vars => TypeOK'
<1> SUFFICES ASSUME TypeOK, MainOrder, [Next]_vars PROVE TypeOK'
    OBVIOUS
<1>e. <<>> \in Seq(Groups)
    BY EmptySeq
<1>n. Len(Starts) = 4 /\ Len(Stops) = 4
    BY DEF Starts, Stops
<1>0. CASE UNCHANGED vars
    BY <1>0 DEF vars, main_vars, queue_vars, peer_vars, TypeOK
<1>1. CASE Main
    <2>1. CASE Start \/ Signal \/ StopEnds
        <3>1. /\ started' \in 0 .. 4 /\ stopped' \in 0 .. 4
              /\ signalled' \in BOOLEAN /\ closing' \in BOOLEAN
            <4>1. /\ started \in 0 .. 4 /\ stopped \in 0 .. 4
                  /\ signalled \in BOOLEAN /\ closing \in BOOLEAN /\ (closing => stopped < 4)
                BY <1>n DEF TypeOK, MainOrder
            <4>2. CASE Start
                <5>1. /\ started < 4 /\ started' = started + 1
                      /\ signalled' = signalled /\ stopped' = stopped /\ closing' = closing
                    BY <4>2, <1>n DEF Start
                <5> QED
                    BY <4>1, <5>1
            <4>3. CASE Signal
                <5>1. started' = started /\ signalled' = TRUE /\ stopped' = stopped /\ closing' = closing
                    BY <4>3 DEF Signal
                <5> QED
                    BY <4>1, <5>1
            <4>4. CASE StopEnds
                <5>1. /\ closing /\ closing' = FALSE /\ stopped' = stopped + 1
                      /\ started' = started /\ signalled' = signalled
                    BY <4>4 DEF StopEnds
                <5>2. stopped < 4
                    BY <4>1, <5>1, Zenon
                <5>3. /\ started' \in 0 .. 4 /\ signalled' \in BOOLEAN /\ closing' \in BOOLEAN
                    BY <4>1, <5>1, Zenon
                <5>4. stopped' \in 0 .. 4
                    <6>1. stopped \in 0 .. 4 /\ stopped' = stopped + 1
                        BY <4>1, <5>1
                    <6> QED
                        BY <5>2, <6>1
                <5> QED
                    BY <5>3, <5>4
            <4> QED
                BY <2>1, <4>2, <4>3, <4>4
        <3>2. UNCHANGED <<queue_vars, peer_vars>>
            BY <2>1 DEF Start, Signal, StopEnds
        <3> QED
            BY <3>1, <3>2, <1>n DEF queue_vars, peer_vars, TypeOK
    <2>2. CASE StopBegins
        <3>1. conn' \in [Peers -> {"up", "broken", "closed"}]
            BY <2>2 DEF StopBegins, TypeOK
        <3> QED
            BY <2>2, <3>1 DEF StopBegins, queue_vars, TypeOK
    <2> QED
        BY <1>1, <2>1, <2>2 DEF Main
<1>2. ASSUME NEW p \in Peers, Network(p) PROVE TypeOK'
    <2>1. CASE Connect(p) \/ Break(p) \/ Notice(p)
        <3>1. conn' \in [Peers -> {"up", "broken", "closed"}]
            BY <2>1 DEF Connect, Break, Notice, TypeOK
        <3>2. /\ wire' = wire \/ wire' = [wire EXCEPT ![p] = <<>>]
              /\ taken' = taken \/ taken' = [taken EXCEPT ![p] = <<>>]
              /\ received' = received \/ received' = [received EXCEPT ![p] = <<>>]
            BY <2>1 DEF Connect, Break, Notice
        <3>3. /\ wire' \in [Peers -> Seq(Groups)] /\ taken' \in [Peers -> Seq(Groups)]
              /\ received' \in [Peers -> Seq(Groups)]
            <4>1. /\ wire \in [Peers -> Seq(Groups)] /\ taken \in [Peers -> Seq(Groups)]
                  /\ received \in [Peers -> Seq(Groups)]
                BY DEF TypeOK
            <4>2. ASSUME NEW f \in [Peers -> Seq(Groups)], NEW e \in Seq(Groups)
                  PROVE  [f EXCEPT ![p] = e] \in [Peers -> Seq(Groups)]
                OBVIOUS
            <4> QED
                BY <1>e, <3>2, <4>1, <4>2
        <3>4. UNCHANGED <<main_vars, queue_vars, handler, wasted>>
            BY <2>1 DEF Connect, Break, Notice
        <3> QED
            BY <3>1, <3>3, <3>4 DEF main_vars, queue_vars, TypeOK
    <2>2. CASE Arrive(p)
        <3>1. wire[p] \in Seq(Groups) /\ wire[p] # <<>> /\ received[p] \in Seq(Groups)
            BY <2>2 DEF Arrive, TypeOK
        <3>2. Head(wire[p]) \in Groups /\ Tail(wire[p]) \in Seq(Groups)
            BY <3>1, HeadTailProperties
        <3>3. Append(received[p], Head(wire[p])) \in Seq(Groups)
            BY <3>1, <3>2
        <3> QED
            BY <2>2, <3>2, <3>3 DEF Arrive, main_vars, queue_vars, TypeOK
    <2> QED
        BY <1>2, <2>1, <2>2 DEF Network
<1>3. ASSUME NEW p \in Peers, RpcRequest(p) \/ HttpRequest(p) PROVE TypeOK'
    <2>1. PICK h \in Handlers : Requests(p, h)
        BY <1>3, AnyRequest
    <2> QED
        BY <2>1 DEF Requests, Becomes, main_vars, queue_vars, TypeOK
<1>4. ASSUME NEW p \in Peers, Handle(p) PROVE TypeOK'
    <2>1. CASE ReadOnce(p)
        <3>1. PICK q \in Picks(handler[p].max) :
                Reads(p, handler[p].max, q) /\ Becomes(p, Answering(q))
            BY <2>1 DEF ReadOnce
        <3>2. handler[p].max \in Nat
            BY <2>1, Kinds, Limits DEF ReadOnce
        <3>3. Answering(q) \in Handlers
            BY <3>2, PicksType, HandlerTypes
        <3> QED
            BY <3>1, <3>2, <3>3, ReadType DEF Reads, Becomes, main_vars, TypeOK
    <2>2. CASE Refill(p)
        <3>1. PICK q \in Picks(Prefetch(handler[p].asked)) :
                /\ Reads(p, Prefetch(handler[p].asked), q)
                /\ Becomes(p, Subscription(handler[p].asked, q, handler[p].sink))
            BY <2>2 DEF Refill
        <3>2. /\ handler[p].asked \in Prefetches /\ Prefetch(handler[p].asked) \in Nat
              /\ handler[p].sink \in {"idle", "busy", "failed"}
            BY <2>2, Kinds, Limits DEF Refill
        <3>3. Subscription(handler[p].asked, q, handler[p].sink) \in Handlers
            BY <3>2, PicksType, HandlerTypes
        <3> QED
            BY <3>1, <3>2, <3>3, ReadType DEF Reads, Becomes, main_vars, TypeOK
    <2>3. CASE Write(p) \/ Discard(p) \/ Query(p)
        BY <2>3, <1>e, HandlerTypes DEF Write, Discard, Query, Becomes, main_vars, queue_vars, TypeOK
    <2>4. CASE Answer(p)
        BY <2>4, Kinds, TransmitType, HandlerTypes DEF Answer, Becomes, main_vars, queue_vars, TypeOK
    <2>5. CASE Send(p)
        <3>1. handler[p].asked \in Prefetches /\ Hand(p) \in Seq(Groups) /\ Hand(p) # <<>>
            BY <2>5, Kinds DEF Send, Gives
        <3>2. Tail(Hand(p)) \in Seq(Groups) /\ <<Head(Hand(p))>> \in Seq(Groups)
            BY <3>1, HeadTailProperties
        <3>3. Subscription(handler[p].asked, Tail(Hand(p)), "busy") \in Handlers
            BY <3>1, <3>2, HandlerTypes
        <3>4. wire' \in [Peers -> Seq(Groups)]
            BY <2>5, <3>2, TransmitType DEF Send, Gives
        <3> QED
            BY <2>5, <3>3, <3>4 DEF Send, Gives, Becomes, main_vars, queue_vars, TypeOK
    <2>6. CASE SendFails(p)
        BY <2>6, HandlerTypes DEF SendFails, Becomes, main_vars, queue_vars, TypeOK
    <2> QED
        BY <1>4, <2>1, <2>2, <2>3, <2>4, <2>5, <2>6 DEF Handle
<1>5. ASSUME NEW p \in Peers, SendSettles(p) PROVE TypeOK'
    <2>1. handler[p].asked \in Prefetches /\ Hand(p) \in Seq(Groups)
        BY <1>5, Kinds DEF SendSettles, Sink
    <2>2. PICK sink \in {"idle", "failed"} : Becomes(p, Subscription(handler[p].asked, Hand(p), sink))
        BY <1>5 DEF SendSettles
    <2>3. Subscription(handler[p].asked, Hand(p), sink) \in Handlers
        BY <2>1, HandlerTypes
    <2> QED
        BY <1>5, <2>2, <2>3 DEF SendSettles, Becomes, main_vars, queue_vars, TypeOK
<1> QED
    BY <1>0, <1>1, <1>2, <1>3, <1>4, <1>5 DEF Next, Peers

(* What a handler or its sink does is its own: main() does not move, no      *)
(* other handler does.                                                       *)
LEMMA HandleFrame ==
    ASSUME TypeOK, NEW p \in Peers, Handle(p) \/ SendSettles(p)
    PROVE  /\ InFlight(p) /\ UNCHANGED <<started, signalled, stopped, closing, conn>>
           /\ \A o \in Peers : o # p => handler'[o] = handler[o] /\ wire'[o] = wire[o]
                                        /\ taken'[o] = taken[o] /\ received'[o] = received[o]
                                        /\ wasted'[o] = wasted[o]
<1>1. handler \in [Peers -> Handlers] /\ wire \in [Peers -> Seq(Groups)]
      /\ taken \in [Peers -> Seq(Groups)] /\ wasted \in [Peers -> Nat]
    BY DEF TypeOK
<1>2. CASE ReadOnce(p) \/ Refill(p)
    BY <1>1, <1>2 DEF ReadOnce, Refill, Reads, Becomes, InFlight, Does, main_vars
<1>3. CASE Write(p) \/ Discard(p) \/ Query(p)
    BY <1>1, <1>3 DEF Write, Discard, Query, Becomes, InFlight, Does, main_vars, queue_vars
<1>4. CASE Answer(p) \/ Send(p) \/ SendFails(p)
    BY <1>1, <1>4 DEF Answer, Send, Gives, SendFails, Sink, Transmits, Becomes, InFlight, Does,
       main_vars
<1>5. CASE SendSettles(p)
    BY <1>1, <1>5 DEF SendSettles, Sink, Becomes, InFlight, Does, main_vars
<1> QED
    BY <1>2, <1>3, <1>4, <1>5, Zenon DEF Handle

(* A request starts a handler of a peer whose service listens.               *)
LEMMA RequestFrame ==
    ASSUME TypeOK, NEW p \in Peers, NEW h \in Handlers, Requests(p, h)
    PROVE  /\ Listens(p) /\ conn[p] = "up" /\ ~InFlight(p)
           /\ handler' = [handler EXCEPT ![p] = h] /\ wasted' = [wasted EXCEPT ![p] = 0]
           /\ UNCHANGED <<started, signalled, stopped, closing, conn, wire, taken, received>>
BY DEF Requests, Becomes, main_vars

(* Who listens has its service up, and with it what that rests on.           *)
LEMMA Listening ==
    ASSUME TypeOK, NEW p \in Peers, Listens(p)
    PROVE  /\ p \in Rpc => started >= 3 /\ stopped < 2
           /\ p \in Http => started = 4 /\ stopped < 1
<1>1. started \in 0 .. 4 /\ stopped \in 0 .. 4
    BY DEF TypeOK, Starts, Stops
<1>2. PICK s \in {"http", "rpc"} : p \in PeersOf(s) /\ Up(s)
    BY DEF Listens
<1>3. /\ s = "http" => p \in Http /\ Up("http")
      /\ s = "rpc" => p \in Rpc /\ Up("rpc")
    BY <1>2 DEF PeersOf
<1>4. ~(p \in Rpc /\ p \in Http)
    BY PeerAssumption
<1> QED
    BY <1>1, <1>2, <1>3, <1>4, ServicesUp

(* A step keeps the order of main().                                         *)
LEMMA OrderStep == TypeOK /\ MainOrder /\ [Next]_vars => MainOrder'
<1> SUFFICES ASSUME TypeOK, MainOrder, [Next]_vars PROVE MainOrder'
    OBVIOUS
<1>n. Len(Starts) = 4 /\ Len(Stops) = 4
    BY DEF Starts, Stops
<1>t. started \in 0 .. 4 /\ stopped \in 0 .. 4
    BY <1>n DEF TypeOK
<1>0. CASE UNCHANGED vars
    BY <1>0 DEF vars, main_vars, queue_vars, peer_vars, MainOrder, InFlight, Does
<1>1. CASE Start
    <2>1. /\ started < 4 /\ started' = started + 1 /\ handler' = handler
          /\ UNCHANGED <<signalled, stopped, closing>>
        BY <1>1, <1>n DEF Start, peer_vars
    <2>2. ~signalled /\ stopped = 0 /\ ~closing
        BY <2>1, <1>t DEF MainOrder
    <2> QED
        BY <2>1, <2>2, <1>t DEF MainOrder, InFlight, Does
<1>2. CASE Signal
    <2>1. /\ started = 4 /\ signalled' /\ handler' = handler
          /\ UNCHANGED <<started, stopped, closing>>
        BY <1>2, <1>n DEF Signal, peer_vars
    <2> QED
        BY <2>1 DEF MainOrder, InFlight, Does
<1>3. CASE StopBegins
    BY <1>3, <1>n DEF StopBegins, MainOrder, InFlight, Does
<1>4. CASE StopEnds
    <2>1. /\ closing /\ ~closing' /\ stopped' = stopped + 1 /\ handler' = handler
          /\ UNCHANGED <<started, signalled>>
          /\ \A p \in PeersOf(Stops[stopped + 1]) : ~InFlight(p)
        BY <1>4 DEF StopEnds, peer_vars
    <2>2. signalled /\ started = 4 /\ stopped < 4
        BY <2>1 DEF MainOrder
    <2>3. stopped = 0 => \A p \in Http : ~InFlight(p)
        BY <2>1 DEF Stops, PeersOf
    <2>4. stopped = 1 => \A p \in Rpc : ~InFlight(p)
        BY <2>1 DEF Stops, PeersOf
    <2>5. \A p : InFlight(p)' <=> InFlight(p)
        BY <2>1 DEF InFlight, Does
    <2>6. \A p \in Rpc : InFlight(p) => started' >= 3 /\ stopped' < 2
        BY <2>1, <2>2, <2>4, <1>t DEF MainOrder
    <2>7. \A p \in Http : InFlight(p) => started' = 4 /\ stopped' < 1
        BY <2>1, <2>2, <2>3, <1>t DEF MainOrder
    <2> QED
        BY <2>1, <2>2, <2>5, <2>6, <2>7 DEF MainOrder
<1>5. ASSUME NEW p \in Peers, Network(p) PROVE MainOrder'
    BY <1>5 DEF Network, Connect, Break, Notice, Arrive, main_vars, MainOrder, InFlight, Does
<1>6. ASSUME NEW p \in Peers, RpcRequest(p) \/ HttpRequest(p) PROVE MainOrder'
    <2>1. PICK h \in Handlers : Requests(p, h)
        BY <1>6, AnyRequest
    <2>2. \A o \in Peers : o # p => (InFlight(o)' <=> InFlight(o))
        BY <2>1, RequestFrame DEF TypeOK, InFlight, Does
    <2>3. /\ p \in Rpc => started >= 3 /\ stopped < 2
          /\ p \in Http => started = 4 /\ stopped < 1
        BY <2>1, RequestFrame, Listening
    <2> QED
        BY <2>1, <2>2, <2>3, RequestFrame DEF MainOrder, Peers
<1>7. ASSUME NEW p \in Peers, Handle(p) \/ SendSettles(p) PROVE MainOrder'
    <2>1. \A o \in Peers : InFlight(o)' => InFlight(o)
        BY <1>7, HandleFrame DEF InFlight, Does
    <2> QED
        BY <1>7, <2>1, HandleFrame DEF MainOrder, Peers
<1> QED
    BY <1>0, <1>1, <1>2, <1>3, <1>4, <1>5, <1>6, <1>7 DEF Next, Main, Peers

(* Sequences of groups can be put together in any order.                     *)
LEMMA Associates ==
    ASSUME NEW S, NEW a \in Seq(S), NEW b \in Seq(S), NEW c \in Seq(S)
    PROVE  /\ (a \o b) \o c = a \o (b \o c)
           /\ a \o b \in Seq(S) /\ b \o c \in Seq(S) /\ a \o (b \o c) \in Seq(S)
<1>1. a \o b \in Seq(S) /\ b \o c \in Seq(S)
    BY ConcatProperties
<1>2. a \o (b \o c) \in Seq(S)
    BY <1>1, ConcatProperties
<1>3. (a \o b) \o c = a \o (b \o c)
    BY ConcatAssociative
<1> QED
    BY <1>1, <1>2, <1>3

(* A sequence is its first element, and the others.                          *)
LEMMA HeadFirst ==
    ASSUME NEW S, NEW h \in Seq(S), h # <<>>,
           NEW one, one = <<Head(h)>>, NEW rest, rest = Tail(h)
    PROVE  /\ one \in Seq(S) /\ rest \in Seq(S) /\ one \o rest = h
<1>1. Head(h) \in S /\ Tail(h) \in Seq(S) /\ <<Head(h)>> \in Seq(S)
    BY HeadTailProperties
<1>2. <<Head(h)>> \o Tail(h) = h
    <2>1. <<Head(h)>> = Append(<<>>, Head(h))
        OBVIOUS
    <2>2. Len(<<Head(h)>>) = 1 /\ <<Head(h)>>[1] = h[1]
        BY <1>1
    <2>3. /\ <<Head(h)>> \o Tail(h) \in Seq(S)
          /\ Len(<<Head(h)>> \o Tail(h)) = 1 + Len(Tail(h))
          /\ \A i \in 1 .. 1 + Len(Tail(h)) :
               (<<Head(h)>> \o Tail(h))[i] = IF i <= 1 THEN <<Head(h)>>[i] ELSE Tail(h)[i - 1]
        BY <1>1, <2>2, ConcatProperties
    <2>4. Len(h) \in Nat /\ Len(Tail(h)) = Len(h) - 1 /\ \A i \in 1 .. Len(Tail(h)) : Tail(h)[i] = h[i + 1]
        BY HeadTailProperties, LenProperties
    <2>5. \A i \in 1 .. Len(h) : (<<Head(h)>> \o Tail(h))[i] = h[i]
        BY <2>2, <2>3, <2>4
    <2> QED
        BY <2>3, <2>4, <2>5, SeqEqual
<1> QED
    BY <1>1, <1>2

(* The first element of a sequence may change sides.                         *)
LEMMA MoveHead ==
    ASSUME NEW S, NEW r \in Seq(S), NEW w \in Seq(S), NEW h \in Seq(S), h # <<>>,
           NEW one, one = <<Head(h)>>, NEW rest, rest = Tail(h)
    PROVE  (r \o (w \o one)) \o rest = (r \o w) \o h
<1>1. one \in Seq(S) /\ rest \in Seq(S) /\ one \o rest = h
    BY HeadFirst
<1>2. PICK rw \in Seq(S) : rw = r \o w
    BY Associates
<1>3. r \o (w \o one) = rw \o one
    BY <1>1, <1>2, Associates
<1>4. (rw \o one) \o rest = rw \o (one \o rest)
    BY <1>1, Associates
<1> QED
    BY <1>1, <1>2, <1>3, <1>4

(* What is kept of one peer.                                                 *)
Delivers(p) == /\ conn[p] = "up" => taken[p] = (received[p] \o wire[p]) \o Hand(p)
               /\ Follows(p)

(* It is kept by a step that leaves the peer's sequences alone.              *)
LEMMA DeliverFrame ==
    ASSUME NEW p, Delivers(p), conn'[p] = "up" => conn[p] = "up" /\ Hand(p)' = Hand(p),
           taken'[p] = taken[p], received'[p] = received[p], wire'[p] = wire[p]
    PROVE  Delivers(p)'
BY DEF Delivers, Follows

(* A step of the handler keeps it.                                           *)
LEMMA DeliverHandle ==
    ASSUME TypeOK, NEW p \in Peers, Handle(p), FailsClosed(p), Delivers(p)
    PROVE  Delivers(p)'
<1>t. /\ taken[p] \in Seq(Groups) /\ received[p] \in Seq(Groups) /\ wire[p] \in Seq(Groups)
      /\ Hand(p) \in Seq(Groups) /\ p \in DOMAIN handler /\ p \in DOMAIN wire /\ p \in DOMAIN taken
      /\ received[p] \o wire[p] \in Seq(Groups)
    BY Kinds, ConcatProperties DEF TypeOK
<1>e. <<>> \in Seq(Groups)
    BY EmptySeq
<1>r. PICK r \in Seq(Groups), w \in Seq(Groups), h \in Seq(Groups) :
        r = received[p] /\ w = wire[p] /\ h = Hand(p)
    BY <1>t
<1>w. PICK rw \in Seq(Groups) : rw = r \o w
    BY <1>t, <1>r
<1>1. CASE ReadOnce(p) \/ Refill(p)
    <2>1. PICK q \in Seq(Groups) :
            /\ \E max : Reads(p, max, q)
            /\ \E new : Becomes(p, new) /\ new.hand = q /\ new.kind \in {"answer", "subscribe"}
            /\ Hand(p) = <<>>
        <3>1. CASE ReadOnce(p)
            <4>1. handler[p].max \in Nat
                BY <3>1, Kinds, Limits DEF ReadOnce
            <4>2. PICK q \in Picks(handler[p].max) :
                    Reads(p, handler[p].max, q) /\ Becomes(p, Answering(q))
                BY <3>1 DEF ReadOnce
            <4>3. q \in Seq(Groups) /\ Hand(p) = <<>>
                BY <3>1, <4>1, PicksType DEF ReadOnce, Hand, Sends, Does
            <4>4. Answering(q).hand = q /\ Answering(q).kind = "answer"
                BY DEF Answering
            <4> QED
                BY <4>1, <4>2, <4>3, <4>4
        <3>2. CASE Refill(p)
            <4>1. Prefetch(handler[p].asked) \in Nat
                BY <3>2, Kinds, Limits DEF Refill
            <4>2. PICK q \in Picks(Prefetch(handler[p].asked)) :
                    /\ Reads(p, Prefetch(handler[p].asked), q)
                    /\ Becomes(p, Subscription(handler[p].asked, q, handler[p].sink))
                BY <3>2 DEF Refill
            <4>3. q \in Seq(Groups) /\ Hand(p) = <<>>
                BY <3>2, <4>1, PicksType DEF Refill
            <4>4. LET new == Subscription(handler[p].asked, q, handler[p].sink)
                  IN  new.hand = q /\ new.kind = "subscribe"
                BY DEF Subscription
            <4> QED
                BY <4>1, <4>2, <4>3, <4>4
        <3> QED
            BY <1>1, <3>1, <3>2
    <2>2. /\ taken'[p] = taken[p] \o q /\ received' = received /\ wire' = wire /\ conn' = conn
          /\ Hand(p)' = q
        BY <2>1, <1>t DEF Reads, Becomes, Hand, Sends, Does
    <2>3. conn[p] = "up" => taken'[p] = (received'[p] \o wire'[p]) \o Hand(p)'
        BY <2>1, <2>2, <1>t, ConcatEmptySeq DEF Delivers
    <2>4. PICK rest \in Seq(Groups) : taken[p] = rw \o rest
        BY <1>r, <1>w DEF Delivers, Follows
    <2>5. (rw \o rest) \o q = rw \o (rest \o q) /\ rest \o q \in Seq(Groups)
        BY Associates, SMTT(30)
    <2>6. taken'[p] = (received'[p] \o wire'[p]) \o (rest \o q)
        BY <2>2, <2>4, <2>5, <1>r, <1>w
    <2> QED
        BY <2>2, <2>3, <2>5, <2>6 DEF Delivers, Follows
<1>2. CASE Write(p) \/ Discard(p) \/ Query(p)
    <2>1. /\ conn' = conn /\ taken' = taken /\ received' = received /\ wire' = wire
          /\ Becomes(p, Answering(<<>>)) /\ Hand(p) = <<>>
        BY <1>2 DEF Write, Discard, Query, Hand, Sends, Does, queue_vars
    <2>2. Hand(p)' = <<>>
        BY <2>1, <1>t DEF Becomes, Answering, Hand, Sends, Does
    <2> QED
        BY <2>1, <2>2, DeliverFrame
<1>3. CASE Answer(p)
    <2>1. /\ conn' = conn /\ taken' = taken /\ received' = received
          /\ Hand(p)' = <<>> /\ Transmits(p, Hand(p))
        BY <1>3, <1>t DEF Answer, Becomes, NoHandler, Hand, Sends, Does
    <2>2. CASE conn[p] = "up"
        <3>1. wire'[p] = w \o h
            BY <2>1, <2>2, <1>t, <1>r DEF Transmits
        <3>2. (r \o w) \o h = r \o (w \o h) /\ r \o (w \o h) \in Seq(Groups)
            BY Associates
        <3>4. taken'[p] = r \o (w \o h)
            BY <2>1, <2>2, <3>2, <1>r DEF Delivers
        <3>3. taken'[p] = (received'[p] \o wire'[p]) \o <<>>
            BY <2>1, <3>1, <3>2, <3>4, <1>r, ConcatEmptySeq
        <3> QED
            BY <2>1, <3>3, <1>e DEF Delivers, Follows
    <2>3. CASE conn[p] # "up"
        BY <2>1, <2>3, DeliverFrame DEF Transmits
    <2> QED
        BY <2>2, <2>3
<1>4. CASE Send(p)
    <2>1. /\ conn' = conn /\ taken' = taken /\ received' = received
          /\ Hand(p) # <<>> /\ Hand(p)' = Tail(Hand(p)) /\ Transmits(p, <<Head(Hand(p))>>)
        <3>1. LET new == Subscription(handler[p].asked, Tail(Hand(p)), "busy")
              IN  new.hand = Tail(Hand(p)) /\ new.kind = "subscribe"
            BY DEF Subscription
        <3>2. handler'[p] = Subscription(handler[p].asked, Tail(Hand(p)), "busy")
            BY <1>4, <1>t DEF Send, Gives, Becomes
        <3>3. Hand(p)' = Tail(Hand(p))
            BY <3>1, <3>2 DEF Hand, Sends, Does
        <3> QED
            BY <1>4, <3>3 DEF Send, Gives
    <2>2. CASE conn[p] = "up"
        <3>1. wire'[p] = wire[p] \o <<Head(Hand(p))>>
            BY <2>1, <2>2, <1>t DEF Transmits
        <3>2. taken'[p] = (received'[p] \o wire'[p]) \o Tail(Hand(p))
            <4> DEFINE one == <<Head(h)>>
                       rest == Tail(h)
            <4>1. (r \o (w \o one)) \o rest = (r \o w) \o h
                <5>1. h # <<>>
                    BY <2>1, <1>r
                <5>2. one = <<Head(h)>> /\ rest = Tail(h)
                    OBVIOUS
                <5> HIDE DEF one, rest
                <5> QED
                    BY <5>1, <5>2, MoveHead, SMTT(30)
            <4>2. taken[p] = (r \o w) \o h
                BY <2>2, <1>r DEF Delivers
            <4> QED
                BY <2>1, <3>1, <4>1, <4>2, <1>r
        <3> QED
            BY <2>1, <3>2, <1>t, HeadTailProperties DEF Delivers, Follows
    <2>3. CASE conn[p] # "up"
        BY <2>1, <2>3, DeliverFrame DEF Transmits
    <2> QED
        BY <2>2, <2>3
<1>5. CASE SendFails(p)
    <2>1. conn' = conn /\ taken' = taken /\ received' = received /\ wire' = wire
        BY <1>5 DEF SendFails
    <2>2. conn[p] # "up"
        BY <1>5 DEF SendFails, FailsClosed
    <2> QED
        BY <2>1, <2>2, DeliverFrame
<1> QED
    BY <1>1, <1>2, <1>3, <1>4, <1>5, Zenon DEF Handle

(* So does what the sink gets to know.                                       *)
LEMMA DeliverSettle ==
    ASSUME TypeOK, NEW p \in Peers, SendSettles(p), Delivers(p)
    PROVE  Delivers(p)'
<1>1. /\ conn' = conn /\ taken' = taken /\ received' = received /\ wire' = wire
      /\ Becomes(p, Subscription(handler[p].asked, Hand(p),
                                 IF conn[p] = "closed" THEN "failed" ELSE "idle"))
    BY DEF SendSettles
<1>2. Hand(p)' = Hand(p)
    BY <1>1 DEF TypeOK, Becomes, Subscription, Hand, Sends, Does
<1> QED
    BY <1>1, <1>2, DeliverFrame

(* What the network does to a peer keeps it.                                 *)
LEMMA DeliverNetwork ==
    ASSUME TypeOK, NEW p \in Peers, Network(p), Delivers(p)
    PROVE  Delivers(p)'
<1>t. /\ taken[p] \in Seq(Groups) /\ received[p] \in Seq(Groups) /\ wire[p] \in Seq(Groups)
      /\ p \in DOMAIN wire /\ p \in DOMAIN taken /\ p \in DOMAIN received /\ p \in DOMAIN conn
    BY DEF TypeOK
<1>e. <<>> \in Seq(Groups)
    BY EmptySeq
<1>1. CASE Connect(p)
    <2>1. /\ taken'[p] = <<>> /\ received'[p] = <<>> /\ wire'[p] = <<>> /\ Hand(p)' = <<>>
        BY <1>1, <1>t DEF Connect, InFlight, Hand, Sends, Does
    <2>2. (<<>> \o <<>>) \o <<>> = <<>>
        BY <1>e, ConcatEmptySeq
    <2> QED
        BY <2>1, <2>2, <1>e DEF Delivers, Follows
<1>2. CASE Break(p)
    <2>1. PICK r \in Seq(Groups), w \in Seq(Groups), rest \in Seq(Groups) :
            r = received[p] /\ w = wire[p] /\ taken[p] = (r \o w) \o rest
        BY <1>t DEF Delivers, Follows
    <2>2. (r \o w) \o rest = r \o (w \o rest) /\ w \o rest \in Seq(Groups)
        BY Associates, SMTT(30)
    <2>3. taken'[p] = taken[p] /\ received'[p] = r /\ wire'[p] = <<>> /\ conn'[p] = "broken"
        BY <1>2, <1>t, <2>1 DEF Break
    <2>4. r \o <<>> = r
        BY ConcatEmptySeq
    <2>5. taken'[p] = (received'[p] \o wire'[p]) \o (w \o rest)
        BY <2>1, <2>2, <2>3, <2>4
    <2> QED
        BY <2>2, <2>3, <2>5 DEF Delivers, Follows
<1>3. CASE Notice(p)
    BY <1>3, <1>t, DeliverFrame DEF Notice
<1>4. CASE Arrive(p)
    <2>1. PICK r \in Seq(Groups), w \in Seq(Groups) : r = received[p] /\ w = wire[p] /\ w # <<>>
        BY <1>4, <1>t DEF Arrive
    <2>2. /\ taken' = taken /\ received'[p] = Append(r, Head(w)) /\ wire'[p] = Tail(w)
          /\ conn' = conn /\ Hand(p)' = Hand(p)
        BY <1>4, <1>t, <2>1 DEF Arrive, Hand, Sends, Does
    <2>3. Append(r, Head(w)) \o Tail(w) = r \o w
        <3> DEFINE one == <<Head(w)>>
                   rest == Tail(w)
        <3>1. one = <<Head(w)>> /\ rest = Tail(w)
            OBVIOUS
        <3> HIDE DEF one, rest
        <3>2. Append(r, Head(w)) \o rest = r \o w
            <4>1. w # <<>>
                BY <2>1
            <4>2. one \in Seq(Groups) /\ rest \in Seq(Groups) /\ one \o rest = w
                BY <4>1, <3>1, HeadFirst
            <4>3. Append(r, Head(w)) = r \o one
                <5>1. PICK g \in Groups : g = Head(w)
                    BY <4>1, HeadTailProperties
                <5>2. Append(r, g) = r \o <<g>>
                    BY AppendIsConcat
                <5> QED
                    BY <5>1, <5>2, <3>1
            <4>4. (r \o one) \o rest = r \o (one \o rest)
                <5>1. PICK a \in Seq(Groups), b \in Seq(Groups) : a = one /\ b = rest
                    BY <4>2
                <5>2. (r \o a) \o b = r \o (a \o b)
                    BY Associates
                <5> QED
                    BY <5>1, <5>2
            <4> QED
                BY <4>2, <4>3, <4>4
        <3> QED
            BY <3>1, <3>2
    <2>4. received'[p] \o wire'[p] = received[p] \o wire[p]
        BY <2>1, <2>2, <2>3
    <2> QED
        BY <2>2, <2>4 DEF Delivers, Follows
<1> QED
    BY <1>1, <1>2, <1>3, <1>4 DEF Network

(* A step keeps what is kept of every peer.                                  *)
LEMMA DeliverStep == TypeOK /\ Broken /\ Deliveries /\ [Next]_vars => Deliveries'
<1> SUFFICES ASSUME TypeOK, Broken, Deliveries, [Next]_vars, NEW o \in Peers PROVE Delivers(o)'
    BY DEF Deliveries, Delivers
<1>d. Delivers(o)
    BY DEF Deliveries, Delivers
<1>t. /\ conn \in [Peers -> {"up", "broken", "closed"}] /\ handler \in [Peers -> Handlers]
      /\ wire \in [Peers -> Seq(Groups)] /\ taken \in [Peers -> Seq(Groups)]
      /\ received \in [Peers -> Seq(Groups)]
    BY DEF TypeOK
<1>0. CASE UNCHANGED vars
    BY <1>0, <1>d, DeliverFrame DEF vars, peer_vars, Hand, Sends, Does
<1>1. CASE Main
    <2>1. /\ UNCHANGED <<handler, wire, taken, received>>
          /\ conn'[o] = "up" => conn[o] = "up"
        BY <1>1, <1>t DEF Main, Start, Signal, StopBegins, StopEnds, peer_vars
    <2> QED
        BY <2>1, <1>d, DeliverFrame DEF Hand, Sends, Does
<1>2. ASSUME NEW p \in Peers, Network(p) PROVE Delivers(o)'
    <2>1. CASE o # p
        BY <1>2, <2>1, <1>d, <1>t, DeliverFrame
           DEF Network, Connect, Break, Notice, Arrive, Hand, Sends, Does
    <2> QED
        BY <1>2, <2>1, <1>d, DeliverNetwork
<1>3. ASSUME NEW p \in Peers, RpcRequest(p) \/ HttpRequest(p) PROVE Delivers(o)'
    <2>1. PICK h \in Handlers : /\ Requests(p, h) /\ (h.kind = "subscribe" => h.hand = <<>>)
                                /\ h.kind \notin {"answer", "none"}
        BY <1>3, AnyRequest
    <2>2. Hand(p) = <<>> /\ Hand(p)' = <<>> /\ (o # p => Hand(o)' = Hand(o))
        BY <2>1, <1>t, RequestFrame DEF InFlight, Hand, Sends, Does
    <2> QED
        BY <2>1, <2>2, <1>d, RequestFrame, DeliverFrame
<1>4. ASSUME NEW p \in Peers, Handle(p) \/ SendSettles(p) PROVE Delivers(o)'
    <2>1. CASE o # p
        BY <1>4, <2>1, <1>d, HandleFrame, DeliverFrame DEF Hand, Sends, Does
    <2> QED
        BY <1>4, <2>1, <1>d, DeliverHandle, DeliverSettle DEF Broken
<1> QED
    BY <1>0, <1>1, <1>2, <1>3, <1>4 DEF Next, Peers

(* A step of somebody else keeps what is known of a sink.                    *)
LEMMA SinkFrame ==
    ASSUME TypeOK, NEW o \in Peers, [Next]_vars, handler'[o] = handler[o]
    PROVE  Sink(o, "failed") /\ conn[o] = "closed" => conn'[o] = "closed"
<1> SUFFICES ASSUME Sink(o, "failed"), conn[o] = "closed" PROVE conn'[o] = "closed"
    OBVIOUS
<1>t. conn \in [Peers -> {"up", "broken", "closed"}]
    BY DEF TypeOK
<1>i. InFlight(o)
    BY DEF Sink, InFlight, Does
<1>0. CASE UNCHANGED vars
    BY <1>0 DEF vars, peer_vars
<1>1. CASE Main
    BY <1>1, <1>t DEF Main, Start, Signal, StopBegins, StopEnds, peer_vars
<1>2. ASSUME NEW p \in Peers, Network(p) PROVE conn'[o] = "closed"
    BY <1>2, <1>t, <1>i DEF Network, Connect, Break, Notice, Arrive
<1>3. ASSUME NEW p \in Peers, RpcRequest(p) \/ HttpRequest(p) PROVE conn'[o] = "closed"
    BY <1>3, AnyRequest, RequestFrame
<1>4. ASSUME NEW p \in Peers, Handle(p) \/ SendSettles(p) PROVE conn'[o] = "closed"
    BY <1>4, HandleFrame
<1> QED
    BY <1>0, <1>1, <1>2, <1>3, <1>4 DEF Next, Peers

(* Whose handler a step moves, or none's.                                    *)
LEMMA WhoMoves ==
    ASSUME TypeOK, [Next]_vars, NEW o \in Peers
    PROVE  \/ handler'[o] = handler[o] /\ wasted'[o] = wasted[o]
           \/ \E h \in Handlers : Requests(o, h) /\ (h.kind = "subscribe" => h.sink = "idle")
           \/ Handle(o) \/ SendSettles(o)
<1>0. CASE UNCHANGED vars
    BY <1>0 DEF vars, peer_vars
<1>1. CASE Main
    BY <1>1 DEF Main, Start, Signal, StopBegins, StopEnds, peer_vars
<1>2. ASSUME NEW p \in Peers, Network(p) PROVE handler'[o] = handler[o] /\ wasted'[o] = wasted[o]
    BY <1>2 DEF Network, Connect, Break, Notice, Arrive
<1>3. ASSUME NEW p \in Peers, RpcRequest(p) \/ HttpRequest(p)
      PROVE  \/ handler'[o] = handler[o] /\ wasted'[o] = wasted[o]
             \/ \E h \in Handlers : Requests(o, h) /\ (h.kind = "subscribe" => h.sink = "idle")
    <2>1. PICK h \in Handlers : Requests(p, h) /\ (h.kind = "subscribe" => h.sink = "idle")
        BY <1>3, AnyRequest
    <2> QED
        BY <2>1, RequestFrame DEF TypeOK
<1>4. ASSUME NEW p \in Peers, Handle(p) \/ SendSettles(p), o # p
      PROVE  handler'[o] = handler[o] /\ wasted'[o] = wasted[o]
    BY <1>4, HandleFrame
<1> QED
    BY <1>0, <1>1, <1>2, <1>3, <1>4 DEF Next, Peers

(* A step keeps what is known of failed sinks.                               *)
LEMMA BrokenStep == TypeOK /\ Broken /\ [Next]_vars => Broken'
<1> SUFFICES ASSUME TypeOK, Broken, [Next]_vars, NEW o \in Peers, Sink(o, "failed")'
             PROVE  conn'[o] = "closed"
    BY DEF Broken, FailsClosed
<1>t. handler \in [Peers -> Handlers]
    BY DEF TypeOK
<1>1. CASE handler'[o] = handler[o]
    BY <1>1, SinkFrame DEF Broken, FailsClosed, Sink, Does
<1>2. ASSUME NEW h \in Handlers, Requests(o, h), h.kind = "subscribe" => h.sink = "idle"
      PROVE  FALSE
    BY <1>2, <1>t, RequestFrame DEF Sink, Does
<1>3. CASE Handle(o) \/ SendSettles(o)
    <2>1. conn' = conn
        BY <1>3, HandleFrame
    <2>2. CASE Refill(o)
        BY <2>1, <2>2, <1>t DEF Refill, Becomes, Subscription, Broken, FailsClosed, Sink, Does
    <2>3. CASE SendSettles(o)
        BY <2>1, <2>3, <1>t DEF SendSettles, Becomes, Subscription, Sink, Does
    <2>4. CASE Send(o)
        BY <2>4, <1>t DEF Send, Gives, Becomes, Subscription, Sink, Does
    <2>5. CASE Write(o) \/ Discard(o) \/ Query(o) \/ Answer(o) \/ SendFails(o) \/ ReadOnce(o)
        BY <2>5, <1>t DEF Write, Discard, Query, Answer, SendFails, ReadOnce, Becomes,
           Answering, NoHandler, Sink, Does
    <2> QED
        BY <1>3, <2>2, <2>3, <2>4, <2>5 DEF Handle
<1> QED
    BY <1>1, <1>2, <1>3, WhoMoves

(* A step keeps what a lost subscriber costs.                                *)
LEMMA WasteStep == TypeOK /\ Waste /\ [Next]_vars => Waste'
<1> SUFFICES ASSUME TypeOK, Waste, [Next]_vars, NEW o \in Peers, Does(o, "subscribe")'
             PROVE  wasted'[o] = 0 \/ (Sink(o, "failed")' /\ Hand(o)' # <<>> /\ wasted'[o] <= Bound(o)')
    BY DEF Waste
<1> DEFINE Cheap == wasted'[o] = 0 \/ (Sink(o, "failed")' /\ Hand(o)' # <<>> /\ wasted'[o] <= Bound(o)')
<1>t. handler \in [Peers -> Handlers] /\ wasted \in [Peers -> Nat]
    BY DEF TypeOK
<1>1. CASE handler'[o] = handler[o] /\ wasted'[o] = wasted[o]
    BY <1>1 DEF Waste, Sink, Hand, Sends, Does, Bound
<1>2. ASSUME NEW h \in Handlers, Requests(o, h) PROVE Cheap
    BY <1>2, <1>t, RequestFrame
<1>3. CASE Handle(o) \/ SendSettles(o)
    <2>2. CASE Refill(o)
        <3> DEFINE asked == handler[o].asked
                   new(q) == Subscription(asked, q, handler[o].sink)
        <3>1. PICK q \in Picks(Prefetch(asked)) \ {<<>>} :
                Reads(o, Prefetch(asked), q) /\ Becomes(o, new(q))
            BY <2>2 DEF Refill
        <3>2. Prefetch(asked) \in Nat \ {0} /\ Hand(o) = <<>> /\ Does(o, "subscribe")
            BY <2>2, Kinds, Limits DEF Refill
        <3>3. Len(q) \in Nat /\ Len(q) <= Prefetch(asked) /\ q # <<>>
            BY <3>1, <3>2, PicksType
        <3>4. wasted[o] = 0
            BY <3>2 DEF Waste
        <3>5. Hand(o)' = q /\ Bound(o)' = Prefetch(asked) /\ (Sink(o, "failed") => Sink(o, "failed")')
            <4>1. handler'[o] = new(q)
                BY <3>1, <1>t DEF Becomes
            <4>2. /\ new(q).hand = q /\ new(q).kind = "subscribe"
                  /\ new(q).asked = asked /\ new(q).sink = handler[o].sink
                BY DEF Subscription
            <4> QED
                BY <4>1, <4>2 DEF Hand, Sends, Does, Bound, Prefetch, Sink
        <3>6. IF Sink(o, "failed") THEN wasted'[o] = Len(q) ELSE wasted'[o] = 0
            BY <3>1, <3>3, <3>4, <1>t DEF Reads
        <3> QED
            BY <3>3, <3>5, <3>6
    <2>3. CASE SendSettles(o) \/ Send(o)
        <3>1. Does(o, "subscribe") /\ ~Sink(o, "failed") /\ wasted' = wasted
            BY <2>3 DEF SendSettles, Send, Gives, Sink
        <3> QED
            BY <3>1 DEF Waste
    <2>4. CASE Write(o) \/ Discard(o) \/ Query(o) \/ Answer(o) \/ SendFails(o) \/ ReadOnce(o)
        BY <2>4, <1>t DEF Write, Discard, Query, Answer, SendFails, ReadOnce, Becomes,
           Answering, NoHandler, Does
    <2> QED
        BY <1>3, <2>2, <2>3, <2>4 DEF Handle
<1> QED
    BY <1>1, <1>2, <1>3, WhoMoves

IInv == TypeOK /\ MainOrder /\ Broken /\ Deliveries /\ Waste

(* They hold at first.                                                       *)
LEMMA InitInv == Init => IInv
<1> SUFFICES ASSUME Init PROVE IInv
    OBVIOUS
<1>e. <<>> \in Seq(Groups)
    BY EmptySeq
<1>1. TypeOK
    <2>1. /\ started \in 0 .. Len(Starts) /\ stopped \in 0 .. Len(Stops)
          /\ signalled \in BOOLEAN /\ closing \in BOOLEAN
          /\ fresh \subseteq Groups /\ ready \subseteq Groups
        <3>1. Len(Starts) = 4 /\ Len(Stops) = 4
            BY DEF Starts, Stops
        <3> QED
            <4>1. /\ started = 0 /\ stopped = 0 /\ signalled = FALSE /\ closing = FALSE
                  /\ fresh = Groups /\ ready = {}
                BY DEF Init
            <4>2. 0 \in 0 .. 4
                OBVIOUS
            <4> QED
                BY <3>1, <4>1, <4>2, Zenon
    <2>2. /\ conn \in [Peers -> {"up", "broken", "closed"}] /\ handler \in [Peers -> Handlers]
          /\ wire \in [Peers -> Seq(Groups)] /\ taken \in [Peers -> Seq(Groups)]
          /\ received \in [Peers -> Seq(Groups)] /\ wasted \in [Peers -> Nat]
        BY <1>e, HandlerTypes DEF Init
    <2> QED
        BY <2>1, <2>2 DEF TypeOK
<1>2. MainOrder
    BY DEF Init, MainOrder, InFlight, Does, NoHandler, Peers
<1>3. Deliveries
    <2>1. (<<>> \o <<>>) \o <<>> = <<>>
        BY <1>e, ConcatEmptySeq
    <2>2. \A p \in Peers : Hand(p) = <<>>
        BY DEF Init, Hand, Sends, Does, NoHandler
    <2> QED
        BY <1>e, <2>1, <2>2 DEF Init, Deliveries, Follows
<1>4. Waste /\ Broken
    BY DEF Init, Waste, Broken, FailsClosed, Sink, Does, NoHandler
<1> QED
    BY <1>1, <1>2, <1>3, <1>4 DEF IInv

(* What the theorems below follow from.                                      *)
LEMMA Invariant == Spec => []IInv
<1>1. IInv /\ [Next]_vars => IInv'
    BY TypeStep, OrderStep, BrokenStep, DeliverStep, WasteStep DEF IInv
<1> QED
    BY <1>1, InitInv, PTL DEF Spec

(* The server is always in a state that its variables can be in.             *)
THEOREM Types == Spec => []TypeOK
<1>1. IInv => TypeOK
    BY DEF IInv
<1> QED
    BY <1>1, Invariant, PTL

(* No handler and no gauge outlives the manager, or comes before it.         *)
THEOREM Outlives == Spec => []ManagerOutlivesUsers
<1>1. IInv => ManagerOutlivesUsers
    <2> SUFFICES ASSUME IInv, (\E p \in Peers : InFlight(p)) \/ Up("metrics") PROVE Up("manager")
        BY DEF ManagerOutlivesUsers
    <2>1. started \in 0 .. 4 /\ stopped \in 0 .. 4
        BY DEF IInv, TypeOK, Starts, Stops
    <2>2. ASSUME NEW p \in Peers, InFlight(p) PROVE started >= 1 /\ stopped < 4
        BY <2>1, <2>2 DEF IInv, MainOrder, Peers
    <2> QED
        BY <2>1, <2>2, ServicesUp
<1> QED
    BY <1>1, Invariant, PTL

(* On a connection that holds, what was read for a peer gets there in order. *)
THEOREM Delivery == Spec => []NothingLostWhileUp
<1>1. IInv => NothingLostWhileUp
    BY DEF IInv, Deliveries, NothingLostWhileUp
<1> QED
    BY <1>1, Invariant, PTL

(* A peer receives the first part of what was read for it.                   *)
THEOREM Prefix == Spec => []NoGap
<1>1. IInv => NoGap
    <2> SUFFICES ASSUME IInv, NEW p \in Peers PROVE IsPrefix(received[p], taken[p])
        BY DEF NoGap
    <2>1. PICK r \in Seq(Groups), w \in Seq(Groups), rest \in Seq(Groups) :
            r = received[p] /\ w = wire[p] /\ taken[p] = (r \o w) \o rest
        BY DEF IInv, TypeOK, Deliveries, Follows
    <2>2. PICK t \in Seq(Groups) : t = w \o rest
        BY Associates
    <2>3. taken[p] = r \o t
        <3>1. (r \o w) \o rest = r \o (w \o rest)
            BY Associates
        <3> QED
            BY <2>1, <2>2, <3>1
    <2>4. Len(r) \in Nat /\ Len(t) \in Nat /\ Len(r \o t) = Len(r) + Len(t) /\ r \o t \in Seq(Groups)
        BY LenProperties, ConcatProperties
    <2>5. SubSeq(r \o t, 1, Len(r)) = r
        <3>1. \A i \in 1 .. Len(r) : (r \o t)[i] = r[i] /\ (r \o t)[i] \in Groups
            BY <2>4, ConcatProperties, ElementOfSeq
        <3>2. PICK u : u = r \o t
            OBVIOUS
        <3>3. /\ SubSeq(u, 1, Len(r)) \in Seq(Groups)
              /\ Len(SubSeq(u, 1, Len(r))) = IF 1 <= Len(r) THEN Len(r) - 1 + 1 ELSE 0
              /\ \A i \in 1 .. Len(r) - 1 + 1 : SubSeq(u, 1, Len(r))[i] = u[1 + i - 1]
            BY <2>4, <3>1, <3>2, SubSeqProperties
        <3>4. /\ Len(SubSeq(u, 1, Len(r))) = Len(r)
              /\ \A i \in 1 .. Len(r) : SubSeq(u, 1, Len(r))[i] = r[i]
            BY <2>4, <3>1, <3>2, <3>3
        <3>5. SubSeq(u, 1, Len(r)) = r
            BY <3>3, <3>4, SeqEqual
        <3> QED
            BY <3>2, <3>5
    <2>6. SubSeq(r, 1, Len(r)) = r
        BY SubSeqFull
    <2> QED
        BY <2>1, <2>3, <2>4, <2>5, <2>6 DEF IsPrefix
<1> QED
    BY <1>1, Invariant, PTL

(* Once its sink knows that a subscriber is gone, one batch at most is read. *)
THEOREM Wasted == Spec => []OneBatchWasted
<1>1. IInv => OneBatchWasted
    <2> SUFFICES ASSUME IInv, NEW p \in Peers, Does(p, "subscribe") PROVE wasted[p] <= Bound(p)
        BY DEF OneBatchWasted, Bound
    <2>1. Bound(p) \in Nat
        BY Kinds, Limits DEF IInv, Bound
    <2> QED
        BY <2>1 DEF IInv, Waste
<1> QED
    BY <1>1, Invariant, PTL
=============================================================================
