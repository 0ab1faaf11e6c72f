----------------------------- MODULE ClientProofs -----------------------------
(* Client: what holds however calls overlap, and what its callers get if they *)
(* do not let subscribe() and unsubscribe() overlap; for any number of calls. *)
EXTENDS Client, TLAPS

Live(s) == ~In(s, "none")

(* Without overlaps one subscription lives at a time, and the members of the *)
(* client, the pending unsubscribe() and the program agree on where it is.   *)
Orderly ==
    /\ ~crashed
    /\ \A r, s \in Subs : Live(r) /\ Live(s) => r = s
    /\ \A u \in Unsubscribing : \A s \in Subs : Live(s) => unsubs[u].on = s /\ Receives(s)
    /\ \A u \in Unsubscribing : ~active
    /\ \A s \in Subs : Receives(s) /\ Unsubscribing = {} => active
    /\ \A s \in Subs : Opens(s) => ~active /\ alive /\ connected /\ ~subs[s].stale
    /\ \A s \in Subs : Live(s) => alive /\ ~quiet
    /\ opening # None => /\ alive /\ Unsubscribing = {}
                         /\ \A s \in Subs : Live(s) => s = opening /\ Receives(s)

(* While subscribe() has not assigned its task, the flag is that task's.     *)
ActiveHasOwner == active /\ opening # None => Receives(opening)

IInv == TypeOK /\ ActiveHasTask /\ ActiveHasOwner /\ (~misused => Orderly)

USE DEF Runs, Resumes, Loops, Ready, Moved, None

(* The places that a step may name.                                          *)
LEMMA Places ==
    /\ NoSub \in Place /\ Receiving("source") \in Place /\ Receiving("callback") \in Place
    /\ \A f \in BOOLEAN : Opening("sink", f) \in Place /\ Opening("rpc", f) \in Place
BY DEF Place

(* The initial state has no subscription, and so satisfies the invariant.    *)
LEMMA InitInv == Init => IInv
<1> SUFFICES ASSUME Init PROVE IInv
    OBVIOUS
<1>1. TypeOK
    <2>1. subs \in [Subs -> Place]
        BY Places DEF Init
    <2>2. unsubs \in [Unsubs -> [on : Subs \union {None}, from : Subs \union {None}]]
        BY DEF Init, NoUnsub
    <2> QED
        BY <2>1, <2>2 DEF Init, TypeOK
<1>2. ActiveHasTask /\ ActiveHasOwner
    BY DEF Init, ActiveHasTask, ActiveHasOwner
<1>3. \A s \in Subs : ~Live(s) /\ ~Opens(s) /\ ~Receives(s)
    BY DEF Init, Live, Opens, Receives, In, NoSub
<1>4. Unsubscribing = {}
    BY DEF Init, Unsubscribing, NoUnsub
<1>5. Orderly
    BY <1>3, <1>4 DEF Orderly, Init
<1> QED
    BY <1>1, <1>2, <1>5 DEF IInv

(* Where a subscription is, from its stage.                                  *)
LEMMA Stages ==
    ASSUME TypeOK, NEW s \in Subs
    PROVE  /\ Live(s) <=> Opens(s) \/ Receives(s)
           /\ ~(Opens(s) /\ Receives(s))
           /\ Opens(s) => subs[s] = Opening(subs[s].stage, subs[s].stale) /\ subs[s].stale \in BOOLEAN
BY DEF TypeOK, Place, Live, Opens, Receives, In, NoSub, Opening, Receiving

(* A subscription that has moved, and the others, seen through its stage.    *)
LEMMA Moves ==
    ASSUME TypeOK, NEW s \in Subs, NEW x, Becomes(s, x)
    PROVE  /\ subs'[s] = x
           /\ \A r \in Subs : r # s => subs'[r] = subs[r]
BY DEF TypeOK, Becomes

(* A new place of one subscription leaves the others where they are.         *)
LEMMA BecomesType ==
    ASSUME TypeOK, NEW s \in Subs, NEW x \in Place, Becomes(s, x)
    PROVE  subs' \in [Subs -> Place]
BY DEF TypeOK, Becomes

(* A step keeps the types.                                                   *)
LEMMA TypeStep == TypeOK /\ [Next]_vars => TypeOK'
<1> SUFFICES ASSUME TypeOK, [Next]_vars PROVE TypeOK'
    OBVIOUS
<1> USE DEF TypeOK
<1>0. CASE UNCHANGED vars
    BY <1>0 DEF vars
<1>1. CASE connect
    BY <1>1 DEF connect
<1>2. ASSUME LosesConnection
      PROVE  subs' \in [Subs -> Place]
    <2>1. \A s \in Subs : subs[s] \in Place
        OBVIOUS
    <2>2. ASSUME NEW s \in Subs, Opens(s) PROVE Opening(subs[s].stage, TRUE) \in Place
        BY <2>2, Places DEF Opens, In
    <2> QED
        BY <1>2, <2>1, <2>2 DEF LosesConnection
<1>3. CASE close
    BY <1>2, <1>3 DEF close, Overlaps
<1>4. CASE destroy
    BY <1>2, <1>4 DEF destroy, Overlaps
<1>5. CASE UnsubscribeIdle \/ UnsubscribeEarly
    BY <1>5 DEF UnsubscribeIdle, UnsubscribeEarly, Overlaps
<1>6. ASSUME NEW c \in Calls, Call(c) \/ Answer(c) PROVE TypeOK'
    BY <1>6 DEF Call, Answer
<1>7. ASSUME NEW s \in Subs, subscribe(s) PROVE TypeOK'
    BY <1>7, Places, BecomesType DEF subscribe, Overlaps
<1>8. ASSUME NEW u \in Unsubs, NEW from \in {None} \union Subs, unsubscribe(u, from) PROVE TypeOK'
    BY <1>8 DEF unsubscribe, Overlaps
<1>9. ASSUME NEW s \in Subs, Opened(s) PROVE TypeOK'
    <2>1. CASE SinkMade(s)
        <3>1. subs[s].stale \in BOOLEAN
            BY <2>1, Stages DEF SinkMade, Opens
        <3> QED
            BY <2>1, <3>1, Places, BecomesType DEF SinkMade
    <2>2. CASE SourceArrives(s)
        BY <2>2, Places, BecomesType DEF SourceArrives
    <2>3. CASE OpeningFails(s)
        BY <2>3, Places, BecomesType DEF OpeningFails
    <2> QED
        BY <1>9, <2>1, <2>2, <2>3 DEF Opened
<1>10. ASSUME NEW s \in Subs, Streamed(s) \/ CallbackReturns(s) PROVE TypeOK'
    <2>1. ASSUME Ends(s) PROVE subs' \in [Subs -> Place] /\ task' \in Subs \union {Ready, Moved}
        BY <2>1, Places, BecomesType DEF Ends
    <2> QED
        BY <1>10, <2>1, Places, BecomesType DEF Streamed, Receive, TaskFails, CallbackReturns
<1>11. ASSUME NEW s \in Subs, TaskStored(s) PROVE TypeOK'
    BY <1>11 DEF TaskStored
<1>12. ASSUME NEW u \in Unsubs, UnsubscribeReturns(u) PROVE TypeOK'
    BY <1>12 DEF UnsubscribeReturns, NoUnsub
<1> QED
    BY <1>0, <1>1, <1>3, <1>4, <1>5, <1>6, <1>7, <1>8, <1>9, <1>10, <1>11, <1>12
    DEF Next, Program, Continue

(* A step keeps the active flag in step with the task it is for.             *)
LEMMA TaskStep ==
    TypeOK /\ ActiveHasTask /\ ActiveHasOwner /\ [Next]_vars
        => ActiveHasTask' /\ ActiveHasOwner'
<1> SUFFICES ASSUME TypeOK, ActiveHasTask, ActiveHasOwner, [Next]_vars, active'
             PROVE  /\ opening' = None => task' \in Subs /\ Receives(task)'
                    /\ opening' # None => Receives(opening)'
    BY DEF ActiveHasTask, ActiveHasOwner
<1> DEFINE Owned == /\ opening' = None => task' \in Subs /\ Receives(task)'
                    /\ opening' # None => Receives(opening)'
           owner == IF opening = None THEN task ELSE opening
<1>a. active => owner \in Subs /\ Receives(owner) /\ ~Opens(owner)
    BY Stages DEF ActiveHasTask, ActiveHasOwner, TypeOK
<1>b. ASSUME active, task' = task, opening' = opening, Receives(owner)' PROVE Owned
    BY <1>a, <1>b DEF Receives, In
<1>0. CASE UNCHANGED vars
    BY <1>0, <1>a, <1>b DEF vars, Receives, In
<1>1. CASE connect
    BY <1>1, <1>a, <1>b DEF connect, Receives, In
<1>3. CASE close
    <2>1. subs'[owner] = subs[owner]
        BY <1>3, <1>a DEF close, LosesConnection, TypeOK
    <2> QED
        BY <1>3, <2>1, <1>a, <1>b DEF close, Receives, In
<1>4. CASE destroy
    BY <1>4 DEF destroy
<1>5. CASE UnsubscribeIdle \/ UnsubscribeEarly
    BY <1>5 DEF UnsubscribeIdle, UnsubscribeEarly
<1>6. ASSUME NEW c \in Calls, Call(c) \/ Answer(c) PROVE Owned
    BY <1>6, <1>a, <1>b DEF Call, Answer, Receives, In
<1>7. ASSUME NEW s \in Subs, subscribe(s) PROVE FALSE
    BY <1>7 DEF subscribe
<1>8. ASSUME NEW u \in Unsubs, NEW from \in {None} \union Subs, unsubscribe(u, from) PROVE FALSE
    BY <1>8 DEF unsubscribe
<1>9. ASSUME NEW s \in Subs, Opened(s) PROVE Owned
    <2>1. CASE SourceArrives(s)
        BY <2>1, Moves, TaskAssumption DEF SourceArrives, Receives, In, Receiving
    <2>2. CASE SinkMade(s) \/ OpeningFails(s)
        <3>1. active /\ Opens(s)
            BY <2>2 DEF SinkMade, OpeningFails, Opens
        <3>2. owner # s
            BY <3>1, <1>a
        <3>3. Receives(owner)'
            BY <2>2, <3>1, <3>2, <1>a, Moves DEF SinkMade, OpeningFails, Receives, In
        <3> QED
            BY <2>2, <3>1, <3>3, <1>b DEF SinkMade, OpeningFails
    <2> QED
        BY <1>9, <2>1, <2>2 DEF Opened
<1>10. ASSUME NEW s \in Subs, Streamed(s) \/ CallbackReturns(s) PROVE Owned
    <2>1. CASE TaskFails(s)
        BY <2>1 DEF TaskFails
    <2>2. CASE Receive(s) \/ CallbackReturns(s)
        <3>1. active /\ task' = task /\ opening' = opening
            BY <2>2 DEF Receive, CallbackReturns
        <3>2. subs'[s].stage \in {"source", "callback"} /\ \A r \in Subs : r # s => subs'[r] = subs[r]
            BY <2>2, <3>1, Moves DEF Receive, CallbackReturns, Receiving
        <3>3. Receives(owner)'
            BY <3>1, <3>2, <1>a DEF Receives, In
        <3> QED
            BY <3>1, <3>3, <1>b
    <2> QED
        BY <1>10, <2>1, <2>2 DEF Streamed
<1>11. ASSUME NEW s \in Subs, TaskStored(s) PROVE Owned
    <2>1. active /\ opening = s /\ s # None
        BY <1>11, TaskAssumption DEF TaskStored
    <2> QED
        BY <1>11, <2>1, <1>a DEF TaskStored, Receives, In
<1>12. ASSUME NEW u \in Unsubs, UnsubscribeReturns(u) PROVE Owned
    BY <1>12, <1>a, <1>b DEF UnsubscribeReturns, Receives, In
<1> QED
    BY <1>0, <1>1, <1>3, <1>4, <1>5, <1>6, <1>7, <1>8, <1>9, <1>10, <1>11, <1>12
    DEF Next, Program, Continue

(* One subscription moves, which was alone, and nobody unsubscribes: what is *)
(* left to show is about that subscription only.                             *)
LEMMA OrderlyMove ==
    ASSUME TypeOK, Orderly, NEW s \in Subs, NEW x, Becomes(s, x),
           Live(s) \/ \A r \in Subs : ~Live(r)
    PROVE  /\ \A r \in Subs : Live(r)' => r = s
           /\ Live(s)' <=> x.stage # "none"
           /\ Receives(s)' <=> x.stage \in {"source", "callback"}
           /\ Opens(s)' <=> x.stage \in {"sink", "rpc"}
           /\ \A r \in Subs : Opens(r)' \/ Receives(r)' => r = s
<1>1. \A r \in Subs : r # s => ~Live(r) /\ subs'[r] = subs[r]
    BY Moves DEF Orderly
<1>2. subs'[s] = x
    BY Moves
<1> QED
    BY <1>1, <1>2 DEF Live, Opens, Receives, In

(* Closing or destroying moves no subscription, if none is being opened.     *)
LEMMA NothingMoves ==
    ASSUME TypeOK, LosesConnection, Subscribing = {}
    PROVE  subs' = subs /\ opening = None
BY DEF LosesConnection, Subscribing, TypeOK

(* Without overlaps, a step keeps the subscription orderly.                  *)
LEMMA OrderlyStep ==
    TypeOK /\ ActiveHasTask /\ ActiveHasOwner /\ (~misused => Orderly) /\ [Next]_vars
        => (~misused' => Orderly')
<1> SUFFICES ASSUME TypeOK, ActiveHasTask, ActiveHasOwner, ~misused => Orderly, [Next]_vars,
                    ~misused'
             PROVE  Orderly'
    OBVIOUS
<1>0. CASE UNCHANGED vars
    BY <1>0 DEF vars, Orderly, Live, Opens, Receives, In, Unsubscribing
<1>1. CASE connect
    BY <1>1 DEF connect, Orderly, Live, Opens, Receives, In, Unsubscribing
<1>3. CASE close
    <2>1. Orderly /\ subs' = subs /\ opening' = None
        BY <1>3, NothingMoves DEF close, Overlaps
    <2>2. \A s \in Subs : ~Opens(s)
        BY <1>3 DEF close, Overlaps, Subscribing
    <2> QED
        BY <1>3, <2>1, <2>2 DEF close, Orderly, Live, Opens, Receives, In, Unsubscribing
<1>4. CASE destroy
    <2>1. /\ ~misused /\ ~active /\ Unsubscribing = {} /\ Subscribing = {}
        BY <1>4 DEF destroy, Overlaps, SubscriptionBusy
    <2>2. Orderly /\ subs' = subs /\ opening' = None
        BY <1>4, <2>1, NothingMoves DEF destroy
    <2>3. \A s \in Subs : ~Live(s)
        BY <2>1, <2>2, Stages DEF Orderly, Subscribing
    <2>4. \A s \in Subs : ~Live(s)' /\ ~Opens(s)' /\ ~Receives(s)'
        BY <2>2, <2>3 DEF Live, Opens, Receives, In
    <2> QED
        BY <1>4, <2>1, <2>2, <2>4 DEF destroy, Orderly, Unsubscribing
<1>13. CASE UnsubscribeEarly
    <2>1. Subscribing = {}
        BY <1>13 DEF UnsubscribeEarly, Overlaps, SubscriptionBusy
    <2>2. opening = None
        BY <2>1 DEF Subscribing, TypeOK
    <2> QED
        BY <1>13, <2>2 DEF UnsubscribeEarly, ActiveHasTask
<1>5. CASE UnsubscribeIdle
    <2>1. ~misused /\ ~active /\ Unsubscribing = {} /\ Subscribing = {}
        BY <1>5 DEF UnsubscribeIdle, Overlaps, SubscriptionBusy
    <2>2. Orderly /\ opening = None /\ \A s \in Subs : ~Live(s)
        BY <2>1, Stages DEF Orderly, Subscribing, TypeOK
    <2>4. \A s \in Subs : ~Live(s)' /\ ~Opens(s)' /\ ~Receives(s)'
        BY <1>5, <2>2 DEF UnsubscribeIdle, Live, Opens, Receives, In
    <2> QED
        BY <1>5, <2>1, <2>2, <2>4 DEF UnsubscribeIdle, Orderly, Unsubscribing
<1>6. ASSUME NEW c \in Calls, Call(c) \/ Answer(c) PROVE Orderly'
    <2>1. ~crashed' /\ Orderly
        BY <1>6 DEF Call, Answer, TypeOK
    <2> QED
        BY <1>6, <2>1 DEF Call, Answer, Orderly, Live, Opens, Receives, In, Unsubscribing
<1>7. ASSUME NEW s \in Subs, subscribe(s) PROVE Orderly'
    <2>1. ~misused /\ ~active /\ Unsubscribing = {} /\ Subscribing = {}
        BY <1>7 DEF subscribe, Overlaps, SubscriptionBusy
    <2>2. Orderly /\ opening = None /\ \A r \in Subs : ~Live(r)
        BY <2>1, Stages DEF Orderly, Subscribing, TypeOK
    <2>3. subs'[s] = Opening("sink", FALSE)
        BY <1>7, Moves DEF subscribe
    <2>4. /\ \A r \in Subs : Live(r)' \/ Opens(r)' \/ Receives(r)' => r = s
          /\ ~Receives(s)' /\ ~subs'[s].stale
        BY <1>7, <2>2, <2>3, OrderlyMove DEF subscribe, Opening
    <2> QED
        BY <1>7, <2>1, <2>2, <2>4 DEF subscribe, Orderly, Unsubscribing
<1>8. ASSUME NEW u \in Unsubs, NEW from \in {None} \union Subs, unsubscribe(u, from) PROVE Orderly'
    <2>1. ~misused /\ active /\ Unsubscribing = {} /\ Subscribing = {}
        BY <1>8 DEF unsubscribe, Overlaps, SubscriptionBusy
    <2>2. Orderly /\ opening = None /\ task \in Subs /\ Receives(task)
        BY <2>1 DEF ActiveHasTask, Subscribing, TypeOK
    <2>3. \A s \in Subs : Live(s) => s = task /\ Receives(s)
        BY <2>2, Stages DEF Orderly
    <2>4. Unsubscribing' = {u} /\ unsubs'[u].on = task
        <3>1. unsubs'[u] = [on |-> task, from |-> from] /\ task # None
            BY <1>8, <2>2, TaskAssumption DEF unsubscribe, TypeOK
        <3>2. \A v \in Unsubs : v # u => unsubs'[v] = NoUnsub
            BY <1>8, <2>1 DEF unsubscribe, Unsubscribing, TypeOK
        <3> QED
            BY <3>1, <3>2 DEF Unsubscribing, NoUnsub
    <2>5. \A s \in Subs : /\ Live(s)' = Live(s) /\ Receives(s)' = Receives(s)
                          /\ Opens(s)' = Opens(s)
        BY <1>8 DEF unsubscribe, Live, Receives, Opens, In
    <2> QED
        BY <1>8, <2>1, <2>2, <2>3, <2>4, <2>5 DEF unsubscribe, Orderly, Subscribing
<1>9. ASSUME NEW s \in Subs, Opened(s) PROVE Orderly'
    <2>1. /\ Orderly /\ Opens(s) /\ Live(s)
        BY <1>9, Stages DEF Opened, SinkMade, SourceArrives, OpeningFails, Opens
    <2>2. /\ Unsubscribing = {} /\ ~active /\ alive /\ connected /\ ~subs[s].stale /\ ~quiet
          /\ opening = None
        BY <2>1, Stages DEF Orderly, TypeOK
    <2>3. Unsubscribing' = {}
        BY <1>9, <2>2 DEF Opened, SinkMade, SourceArrives, OpeningFails, Unsubscribing
    <2>4. CASE SinkMade(s)
        <3>1. subs'[s] = Opening("rpc", FALSE)
            BY <2>2, <2>4, Moves, Stages, <2>1 DEF SinkMade
        <3>2. /\ \A r \in Subs : Live(r)' \/ Opens(r)' \/ Receives(r)' => r = s
              /\ ~Receives(s)' /\ ~subs'[s].stale
            BY <2>1, <2>4, <3>1, OrderlyMove DEF SinkMade, Opening
        <3> QED
            BY <2>1, <2>2, <2>3, <2>4, <3>2 DEF SinkMade, Orderly
    <2>5. CASE SourceArrives(s)
        <3>1. /\ \A r \in Subs : Live(r)' \/ Receives(r)' => r = s
              /\ \A r \in Subs : ~Opens(r)'
            BY <2>1, <2>5, OrderlyMove DEF SourceArrives, Receiving
        <3>2. Receives(s)'
            BY <2>1, <2>5, OrderlyMove DEF SourceArrives, Receiving
        <3> QED
            BY <2>1, <2>2, <2>3, <2>5, <3>1, <3>2 DEF SourceArrives, Orderly
    <2>6. CASE OpeningFails(s)
        <3>1. \A r \in Subs : ~Live(r)' /\ ~Receives(r)' /\ ~Opens(r)'
            BY <2>1, <2>6, OrderlyMove DEF OpeningFails, NoSub
        <3> QED
            BY <2>1, <2>2, <2>3, <2>6, <3>1 DEF OpeningFails, Orderly
    <2> QED
        BY <1>9, <2>4, <2>5, <2>6 DEF Opened
<1>10. ASSUME NEW s \in Subs, Streamed(s) \/ CallbackReturns(s) PROVE Orderly'
    <2>1. Orderly /\ Receives(s) /\ Live(s)
        BY <1>10, Stages DEF Streamed, Receive, TaskFails, CallbackReturns, InCallback, Receives
    <2>2. alive /\ ~quiet /\ (opening # None => opening = s)
        BY <2>1 DEF Orderly
    <2>3. unsubs' = unsubs /\ Unsubscribing' = Unsubscribing /\ opening' = opening
        BY <1>10 DEF Streamed, Receive, TaskFails, CallbackReturns, Unsubscribing
    <2>4. CASE Receive(s)
        <3>1. /\ \A r \in Subs : Live(r)' \/ Receives(r)' => r = s
              /\ Receives(s)' /\ \A r \in Subs : ~Opens(r)'
            BY <2>1, <2>4, OrderlyMove DEF Receive, Receiving
        <3> QED
            BY <2>1, <2>2, <2>3, <2>4, <3>1 DEF Receive, Orderly
    <2>5. CASE TaskFails(s)
        <3>1. \A r \in Subs : ~Live(r)' /\ ~Receives(r)' /\ ~Opens(r)'
            BY <2>1, <2>5, OrderlyMove DEF TaskFails, Ends, NoSub
        <3> QED
            BY <2>1, <2>2, <2>3, <2>5, <3>1 DEF TaskFails, Orderly
    <2>6. CASE CallbackReturns(s) /\ active
        <3>1. /\ \A r \in Subs : Live(r)' \/ Receives(r)' => r = s
              /\ Receives(s)' /\ \A r \in Subs : ~Opens(r)'
            BY <2>1, <2>6, OrderlyMove DEF CallbackReturns, Receiving
        <3> QED
            BY <2>1, <2>2, <2>3, <2>6, <3>1 DEF CallbackReturns, Orderly
    <2>7. CASE CallbackReturns(s) /\ ~active
        <3>1. \A r \in Subs : ~Live(r)' /\ ~Receives(r)' /\ ~Opens(r)'
            BY <2>1, <2>7, OrderlyMove DEF CallbackReturns, Ends, NoSub
        <3> QED
            BY <2>1, <2>2, <2>3, <2>7, <3>1 DEF CallbackReturns, Orderly
    <2> QED
        BY <1>10, <2>4, <2>5, <2>6, <2>7 DEF Streamed
<1>12. ASSUME NEW s \in Subs, TaskStored(s) PROVE Orderly'
    <2>1. Orderly /\ alive /\ opening' = None
        BY <1>12, TaskAssumption DEF TaskStored, Orderly
    <2> QED
        BY <1>12, <2>1 DEF TaskStored, Orderly, Live, Opens, Receives, In, Unsubscribing
<1>11. ASSUME NEW u \in Unsubs, UnsubscribeReturns(u) PROVE Orderly'
    <2>1. Orderly /\ opening = None /\ u \in Unsubscribing /\ In(unsubs[u].on, "none")
        BY <1>11 DEF UnsubscribeReturns
    <2>2. \A s \in Subs : ~Live(s) /\ ~Opens(s) /\ ~Receives(s)
        BY <2>1, Stages DEF Orderly, Live
    <2>3. \A s \in Subs : ~Live(s)' /\ ~Opens(s)' /\ ~Receives(s)'
        BY <1>11, <2>2 DEF UnsubscribeReturns, Live, Opens, Receives, In
    <2>4. ~active' /\ ~crashed' /\ opening' = None
        BY <1>11, <2>1 DEF UnsubscribeReturns, Orderly
    <2> QED
        BY <2>3, <2>4 DEF Orderly
<1> QED
    BY <1>0, <1>1, <1>3, <1>4, <1>5, <1>6, <1>7, <1>8, <1>9, <1>10, <1>11, <1>12, <1>13
    DEF Next, Program, Continue

(* The invariant holds in every reachable state.                             *)
LEMMA Invariant == Spec => []IInv
<1>1. IInv /\ [Next]_vars => IInv'
    BY TypeStep, TaskStep, OrderlyStep DEF IInv
<1> QED
    BY <1>1, InitInv, PTL DEF Spec

(* The client is always in a state that its members can be in.               *)
THEOREM Types == Spec => []TypeOK
<1>1. IInv => TypeOK
    BY DEF IInv
<1> QED
    BY <1>1, Invariant, PTL

(* However calls overlap, an active flag has a task that can be waited for,  *)
(* once subscribe() has assigned it.                                         *)
THEOREM Task == Spec => []ActiveHasTask
<1>1. IInv => ActiveHasTask
    BY DEF IInv
<1> QED
    BY <1>1, Invariant, PTL

(* Without overlaps, at most one task receives.                              *)
THEOREM SingleReceiver == Spec => []OneReceiver
<1>1. IInv => OneReceiver
    <2> SUFFICES ASSUME IInv, ~misused, NEW r \in Receivers, NEW s \in Receivers PROVE r = s
        BY DEF OneReceiver
    <2>1. r \in Subs /\ s \in Subs /\ Live(r) /\ Live(s)
        BY Stages DEF Receivers, IInv
    <2> QED
        BY <2>1 DEF IInv, Orderly
<1> QED
    BY <1>1, Invariant, PTL

(* Without overlaps, no callback runs once unsubscribe() has returned.       *)
THEOREM Quiet == Spec => []QuietAfterUnsubscribe
<1>1. IInv => QuietAfterUnsubscribe
    BY Stages DEF IInv, Orderly, QuietAfterUnsubscribe, Receivers
<1> QED
    BY <1>1, Invariant, PTL

(* Without overlaps, what is left of a subscription does not stop another.   *)
THEOREM Undisturbed == Spec => []ActiveUntilAsked
<1>1. IInv => ActiveUntilAsked
    BY DEF IInv, Orderly, ActiveUntilAsked, Receivers
<1> QED
    BY <1>1, Invariant, PTL

(* Without overlaps, no continuation meets a null or a destroyed client.     *)
THEOREM Safe == Spec => []NeverCrashes
<1>1. IInv => NeverCrashes
    BY DEF IInv, Orderly, NeverCrashes
<1> QED
    BY <1>1, Invariant, PTL
=============================================================================
