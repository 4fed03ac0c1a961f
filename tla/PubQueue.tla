------------------------------ MODULE PubQueue ------------------------------
(***************************************************************************)
(* Delivery of messages inside one process: Node::Publisher::Publish and   *)
(* PublishRaw, the queue between them and NodeSharedPrivate::PublishThread,*)
(* Subscribe and Unsubscribe.                                              *)
(*                                                                         *)
(* Publish takes a snapshot of the handlers under NodeShared::mutex and    *)
(* queues it under pubThreadMutex; the publish thread takes one entry at a *)
(* time and runs its callbacks without any lock.  PublishRaw, and the      *)
(* reception thread for other processes, run the callbacks themselves.     *)
(* Unsubscribe first strips the handlers from the queue and then, under the*)
(* other mutex, from the registered ones.                                  *)
(*                                                                         *)
(* The threads run until the process ends: only ~NodeShared sets exit, and *)
(* it never runs, since Instance() keeps the object of the process in a map*)
(* that deletes nothing.                                                   *)
(*                                                                         *)
(* There is one topic: entries of different topics share the queue and     *)
(* nothing else.  No publisher or handler is throttled.                    *)
(***************************************************************************)
EXTENDS Naturals, Sequences, FiniteSets

CONSTANTS
    Handler,    \* the subscription handlers; a new subscription has a new one
    Thread,     \* the threads that publish, each with its own publisher
    NodeId,     \* the nodes of the process
    NodeOf,     \* NodeOf[h]: the node that subscribed h
    PubNode,    \* PubNode[t]: the node of the publisher of t
    Suits,      \* Suits[t]: the handlers of t's message type, or of any type
    Raw,        \* the handlers of SubscribeRaw
    Ignoring,   \* the handlers with SubscribeOptions::IgnoreLocalMessages
    SameName,   \* the handlers unsubscribed by the name the queue entries
                \* carry: "/a" and not "a", and no namespace
    Remapped,   \* the handlers subscribed by a name that NodeOptions remaps
    RawCalls,   \* the threads that also call PublishRaw
    Remote,     \* the threads of other processes, whose messages are received
    Quota       \* bound: Quota[t] messages of thread t

ASSUME SubscriptionAssumption ==
    /\ NodeOf \in [Handler -> NodeId]
    /\ PubNode \in [Thread -> NodeId]
    /\ Suits \in [Thread -> SUBSET Handler]
    /\ Raw \subseteq Handler
    /\ Ignoring \subseteq Handler
    /\ SameName \subseteq Handler
    /\ Remapped \subseteq Handler
    /\ RawCalls \subseteq Thread
    /\ Remote \subseteq Thread

ASSUME BoundAssumption == Quota \in [Thread -> Nat]

VARIABLES
    subs,    \* localSubscribers: the registered handlers
    gone,    \* the handlers whose Unsubscribe has returned
    leaving, \* leaving[n]: what an Unsubscribe of node n is removing, or Nobody
    caller,  \* caller[t]: where t's call of Publish or PublishRaw is
    sent,    \* sent[t]: how many messages t has published, or the
             \* process has received of it
    queue,   \* pubQueue
    worker,  \* the publish thread
    receiver, \* the reception thread
    log      \* log[h]: the messages h's callback was called with

vars == <<subs, gone, leaving, caller, sent, queue, worker, receiver, log>>

-----------------------------------------------------------------------------
Message == [from : Thread, seq : Nat \ {0}, raw : BOOLEAN]

\* A message and the handlers it is still to be given to.
Details == [msg : Message, todo : SUBSET Handler]

Idle == [pc |-> "idle"]

CallerState ==
         {Idle}
    \cup [pc : {"push", "raw"}, details : Details] \* snapshot taken
    \cup [pc : {"notify"}]                         \* entry queued

\* "checked": holds pubThreadMutex, has found nothing to wait no longer for,
\* and is about to block.
\* "polled": poll has found a message of thread from.
ReceiverState == [pc : {"loop", "run"}] \cup [pc : {"polled"}, from : Remote]

WorkerState ==
         [pc : {"loop", "checked", "blocked"}]
    \cup [pc : {"run"}, details : Details]

At(pc) == [pc |-> pc]

\* "all": Node::Unsubscribe, of every handler of the node; "one":
\* Subscriber::Unsubscribe.  handlers: the ones registered when it began.
Nobody == [form |-> "none", handlers |-> {}]

Departure == {Nobody} \cup [form : {"one", "all"}, handlers : SUBSET Handler]

OfNode(n) == { h \in subs : NodeOf[h] = n }

Departing == UNION { leaving[n].handlers : n \in NodeId }

\* Nobody is inside a critical section of pubThreadMutex.
QueueUnlocked == worker.pc # "checked"

\* The check of PublishThread; neither raw handlers nor PublishRaw make it.
Ignored(m, h) ==
    /\ ~ m.raw
    /\ h \in Ignoring \ Raw
    /\ PubNode[m.from] = NodeOf[h]

\* The kinds of handlers run one after the other.
FirstKind(todo, kind) ==
    IF todo \cap kind # {} THEN todo \cap kind ELSE todo

-----------------------------------------------------------------------------
(* Subscribing.                                                            *)

\* HandlerStorage::AddHandler in Node::Subscribe: every call registers a new
\* handler, whose UUID no earlier one had.
Subscribe(h) ==
    /\ h \notin subs \cup gone
    /\ subs' = subs \cup {h}
    /\ UNCHANGED <<gone, leaving, caller, sent, queue, worker, receiver, log>>

\* Slip: the handlers of the whole node, for one subscriber too.
StripAllOfNode(H) ==
    LET N == { NodeOf[h] : h \in H }
    IN  [i \in DOMAIN queue |->
            [queue[i] EXCEPT !.todo =
                @ \ { h \in SameName : NodeOf[h] \in N }]]

\* RemoveHandlersFromPubQueue, RemoveHandlerFromPubQueue: an entry keeps the
\* handlers whose topic is not spelled the way the entry's is.
Strip(H) ==
    [i \in DOMAIN queue |-> [queue[i] EXCEPT !.todo = @ \ (H \cap SameName)]]

\* The first half of NodeShared::Unsubscribe, under pubThreadMutex.
UnsubscribeStrip(n) ==
    /\ leaving[n] = Nobody
    /\ QueueUnlocked
    /\ \E form \in {"one", "all"}, H \in (SUBSET OfNode(n)) \ {{}} :
          /\ IF form = "all" THEN H = OfNode(n)
                             ELSE Cardinality(H) = 1 /\ H \cap gone = {}
          /\ queue' = Strip(H)
          /\ leaving' = [leaving EXCEPT ![n] = [form |-> form, handlers |-> H]]
    /\ UNCHANGED <<subs, gone, caller, sent, worker, receiver, log>>

\* What the second half is for: the node-wide form takes also what the node
\* subscribed in between.
Leaving(n) == IF leaving[n].form = "all" THEN OfNode(n) ELSE leaving[n].handlers

\* The second half, under NodeShared::mutex, and the return.  The name given is
\* remapped for the first half and not for this one, which thus does not find
\* what was subscribed under another name.
UnsubscribeRemove(n) ==
    /\ leaving[n] # Nobody
    /\ subs' = subs \ (Leaving(n) \ Remapped)
    /\ gone' = gone \cup Leaving(n)
    /\ leaving' = [leaving EXCEPT ![n] = Nobody]
    /\ UNCHANGED <<caller, sent, queue, worker, receiver, log>>

-----------------------------------------------------------------------------
(* Publishing.                                                             *)

\* CheckHandlerInfo under NodeShared::mutex, and the filter on the message type,
\* for one more message of t.  Nothing is to be done when nobody is registered.
Snapshot(t, raw) ==
    /\ sent' = [sent EXCEPT ![t] = @ + 1]
    /\ caller' = [caller EXCEPT ![t] =
           IF subs = {} THEN Idle
           ELSE [pc |-> IF raw THEN "raw" ELSE "push",
                 details |-> [msg |-> [from |-> t, seq |-> sent[t] + 1, raw |-> raw],
                              todo |-> subs \cap Suits[t]]]]
    /\ UNCHANGED <<subs, gone, leaving, queue, worker, log>>

MayPublish(t) ==
    t \notin Remote /\ caller[t] = Idle /\ sent[t] < Quota[t]

Publish(t) == MayPublish(t) /\ Snapshot(t, FALSE) /\ UNCHANGED receiver

PublishRaw(t) ==
    t \in RawCalls /\ MayPublish(t) /\ Snapshot(t, TRUE) /\ UNCHANGED receiver

\* Slip: the entry is pushed without pubThreadMutex.
PublishPushUnlocked(t) ==
    /\ caller[t].pc = "push"
    /\ queue' = Append(queue, caller[t].details)
    /\ caller' = [caller EXCEPT ![t] = At("notify")]
    /\ UNCHANGED <<subs, gone, leaving, sent, worker, receiver, log>>

\* pubQueue.push_back under pubThreadMutex ...
PublishPush(t) ==
    /\ caller[t].pc = "push"
    /\ QueueUnlocked
    /\ queue' = Append(queue, caller[t].details)
    /\ caller' = [caller EXCEPT ![t] = At("notify")]
    /\ UNCHANGED <<subs, gone, leaving, sent, worker, receiver, log>>

\* The worker, if it is blocked, runs again.
Notified == IF worker.pc = "blocked" THEN At("loop") ELSE worker

\* ... and signalNewPub.notify_one after it.
PublishNotify(t) ==
    /\ caller[t].pc = "notify"
    /\ worker' = Notified
    /\ caller' = [caller EXCEPT ![t] = Idle]
    /\ UNCHANGED <<subs, gone, leaving, sent, queue, receiver, log>>

\* One callback of TriggerCallbacks in the caller of PublishRaw: the raw
\* handlers come first.
RawCallback(t) ==
    /\ caller[t].pc = "raw"
    /\ \E h \in FirstKind(caller[t].details.todo, Raw) :
          /\ log' = [log EXCEPT ![h] = Append(@, caller[t].details.msg)]
          /\ caller' = [caller EXCEPT ![t].details.todo = @ \ {h}]
    /\ UNCHANGED <<subs, gone, leaving, sent, queue, worker, receiver>>

RawReturn(t) ==
    /\ t \notin Remote
    /\ caller[t].pc = "raw"
    /\ caller[t].details.todo = {}
    /\ caller' = [caller EXCEPT ![t] = Idle]
    /\ UNCHANGED <<subs, gone, leaving, sent, queue, worker, receiver, log>>

-----------------------------------------------------------------------------
(* The publish thread.                                                     *)

\* The next message.
Take ==
    /\ worker.pc = "loop"
    /\ queue # <<>>
    /\ worker' = [pc |-> "run", details |-> Head(queue)]
    /\ queue' = Tail(queue)
    /\ UNCHANGED <<subs, gone, leaving, caller, sent, receiver, log>>

\* One callback, or none when the handler ignores it; the raw handlers come
\* last.  A callback that throws is reported and the others still run.
Callback ==
    /\ worker.pc = "run"
    /\ \E h \in FirstKind(worker.details.todo, Handler \ Raw) :
          /\ log' = IF Ignored(worker.details.msg, h) THEN log
                    ELSE [log EXCEPT ![h] = Append(@, worker.details.msg)]
          /\ worker' = [worker EXCEPT !.details.todo = @ \ {h}]
    /\ UNCHANGED <<subs, gone, leaving, caller, sent, queue, receiver>>

CallbacksDone ==
    /\ worker.pc = "run"
    /\ worker.details.todo = {}
    /\ worker' = At("loop")
    /\ UNCHANGED <<subs, gone, leaving, caller, sent, queue, receiver, log>>

\* The predicate of wait_until is false: the mutex is kept until the thread
\* blocks, but a notification does not need the mutex.
FindNothing ==
    /\ worker.pc = "loop"
    /\ queue = <<>>
    /\ worker' = At("checked")
    /\ UNCHANGED <<subs, gone, leaving, caller, sent, queue, receiver, log>>

Block ==
    /\ worker.pc = "checked"
    /\ worker' = At("blocked")
    /\ UNCHANGED <<subs, gone, leaving, caller, sent, queue, receiver, log>>

\* The 500 ms have passed.
WaitTimeout ==
    /\ worker.pc = "blocked"
    /\ worker' = At("loop")
    /\ UNCHANGED <<subs, gone, leaving, caller, sent, queue, receiver, log>>

-----------------------------------------------------------------------------
(* The reception thread.                                                   *)

\* RunReceptionTask: a message of t has arrived.
ReceptionPolls(t) ==
    /\ t \in Remote
    /\ receiver.pc = "loop"
    /\ sent[t] < Quota[t]
    /\ receiver' = [pc |-> "polled", from |-> t]
    /\ UNCHANGED <<subs, gone, leaving, caller, sent, queue, worker, log>>

\* RecvMsgUpdate: the snapshot is taken when the message is read, and this
\* thread runs the callbacks, like the caller of PublishRaw.
RecvMsgUpdate(t) ==
    /\ receiver = [pc |-> "polled", from |-> t]
    /\ Snapshot(t, TRUE)
    /\ receiver' = At(IF subs = {} THEN "loop" ELSE "run")

RecvReturn(t) ==
    /\ t \in Remote
    /\ caller[t].pc = "raw"
    /\ caller[t].details.todo = {}
    /\ caller' = [caller EXCEPT ![t] = Idle]
    /\ receiver' = At("loop")
    /\ UNCHANGED <<subs, gone, leaving, sent, queue, worker, log>>

-----------------------------------------------------------------------------
Init ==
    /\ subs = {}
    /\ gone = {}
    /\ leaving = [n \in NodeId |-> Nobody]
    /\ caller = [t \in Thread |-> Idle]
    /\ sent = [t \in Thread |-> 0]
    /\ queue = <<>>
    /\ worker = At("loop")
    /\ receiver = At("loop")
    /\ log = [h \in Handler |-> <<>>]

CallerContinues(t) ==
    PublishPush(t) \/ PublishNotify(t) \/ RawCallback(t) \/ RawReturn(t)

ReceiverRuns ==
    \E t \in Remote : RecvMsgUpdate(t) \/ RecvReturn(t)

WorkerRuns ==
    Take \/ Callback \/ CallbacksDone \/ FindNothing \/ Block

Next ==
    \/ \E h \in Handler : Subscribe(h)
    \/ \E n \in NodeId : UnsubscribeStrip(n) \/ UnsubscribeRemove(n)
    \/ \E t \in Thread : Publish(t) \/ PublishRaw(t) \/ CallerContinues(t)
    \/ WorkerRuns \/ WaitTimeout
    \/ ReceiverRuns \/ \E t \in Remote : ReceptionPolls(t)

Spec == Init /\ [][Next]_vars

\* The threads run: the publish thread, the reception thread with what it has
\* polled, and a call that has begun.  A publisher that wants pubThreadMutex gets it,
\* which the worker gives up again and again.  No timeout is counted on.
FairSpec ==
    /\ Spec
    /\ WF_vars(WorkerRuns)
    /\ WF_vars(ReceiverRuns)
    /\ \A t \in Thread : SF_vars(CallerContinues(t))
    /\ \A n \in NodeId : WF_vars(UnsubscribeRemove(n))

-----------------------------------------------------------------------------
(* Properties.                                                             *)

TypeOK ==
    /\ subs \subseteq Handler
    /\ gone \subseteq Handler
    /\ leaving \in [NodeId -> Departure]
    /\ caller \in [Thread -> CallerState]
    /\ sent \in [Thread -> Nat] /\ \A t \in Thread : sent[t] <= Quota[t]
    /\ queue \in Seq(Details)
    /\ worker \in WorkerState
    /\ receiver \in ReceiverState
    /\ log \in [Handler -> Seq(Message)]

\* What is on its way: snapshots not queued yet or being run, the queue, and
\* the entry the worker runs.
InFlight ==
         { caller[t].details : t \in { u \in Thread : caller[u].pc \in {"push", "raw"} } }
    \cup { queue[i] : i \in DOMAIN queue }
    \cup (IF worker.pc = "run" THEN {worker.details} ELSE {})

\* The messages whose callback on h is still to come.
Pending(h) ==
    { d.msg : d \in { e \in InFlight : h \in e.todo /\ ~ Ignored(e.msg, h) } }

\* What module Delivery says of messages and subscribers: a message is due to
\* exactly the handlers whose registration CheckHandlerInfo saw (neither those of
\* the moment of the callback, nor those of one who publishes or receives
\* meanwhile), each is called with it once and in the order of the publisher's
\* calls, and what is due is dropped by the handler's own Unsubscribe alone.
Takes(m, h) == h \in Suits[m.from] /\ ~ Ignored(m, h)

Promised == INSTANCE Delivery WITH
    Wants <- Takes,
    leaving <- Departing,
    due <- [h \in Handler |-> Pending(h)]

ImplementsDelivery == Promised!Spec

\* Once Unsubscribe has returned nothing new is taken for the handler: what
\* may still come was published before.  This is so under a remapped name too:
\* "Any [Un]Advertise(), [Un]Subscribe() or Request() operation will check for
\* topic remappings" (NodeOptions::AddTopicRemap).
GoneTakesNothing == [][\A h \in gone : Pending(h)' \subseteq Pending(h)]_vars

\* Every message due to a handler is delivered unless the handler is being
\* unsubscribed, even if wait_until never timed out: the
\* entry is pushed under pubThreadMutex and notified after it, and the worker
\* keeps the mutex from its test to its wait.
EventuallyDelivered ==
    \A h \in Handler :
        Pending(h) # {} ~> Pending(h) = {} \/ h \in gone \cup Departing
=============================================================================
