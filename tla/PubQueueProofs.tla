--------------------------- MODULE PubQueueProofs ---------------------------
(***************************************************************************)
(* Theorems about PubQueue for every set of handlers, threads and nodes    *)
(* and every number of messages: the queue, the publish thread and the     *)
(* reception thread implement Delivery.                                    *)
(***************************************************************************)
EXTENDS PubQueue, SequenceTheorems, TLAPS

-----------------------------------------------------------------------------
(* Type correctness.                                                       *)

\* A thread that waits at the given program counter holds what belongs there.
LEMMA CallerTypes ==
    ASSUME TypeOK, NEW t \in Thread
    PROVE  /\ caller[t].pc \in {"push", "raw"} =>
                  /\ caller[t].details \in Details
                  /\ caller[t] = [pc |-> caller[t].pc, details |-> caller[t].details]
           /\ caller[t].pc \in {"idle", "push", "raw", "notify"}
  <1>1. caller[t] \in CallerState
    BY DEF TypeOK
  <1>2. QED
    BY <1>1 DEF CallerState, Idle

LEMMA WorkerTypes ==
    ASSUME TypeOK, worker.pc = "run"
    PROVE  /\ worker.details \in Details
           /\ worker = [pc |-> "run", details |-> worker.details]
  <1>1. worker \in WorkerState
    BY DEF TypeOK
  <1>2. QED
    BY <1>1 DEF WorkerState

LEMMA DetailsTypes ==
    ASSUME NEW d \in Details
    PROVE  /\ d.msg \in Message /\ d.todo \subseteq Handler
           /\ d.msg.from \in Thread /\ d.msg.seq \in Nat \ {0} /\ d.msg.raw \in BOOLEAN
           /\ d = [msg |-> d.msg, todo |-> d.todo]
           /\ \A less \in SUBSET Handler : [d EXCEPT !.todo = less] = [msg |-> d.msg, todo |-> less]
           /\ \A less \in SUBSET Handler : [msg |-> d.msg, todo |-> less] \in Details
  BY DEF Details, Message

\* The entry a thread works on, with one handler less.
Less(d, h) == [msg |-> d.msg, todo |-> d.todo \ {h}]

LEMMA LessTypes ==
    ASSUME NEW d \in Details, NEW h
    PROVE  Less(d, h) \in Details
  BY DetailsTypes DEF Less

LEMMA LogTypes ==
    ASSUME TypeOK, NEW h \in Handler, NEW m \in Message
    PROVE  [log EXCEPT ![h] = Append(@, m)] \in [Handler -> Seq(Message)]
  <1>1. log \in [Handler -> Seq(Message)]
    BY DEF TypeOK
  <1>2. Append(log[h], m) \in Seq(Message)
    BY <1>1
  <1>3. QED
    BY <1>1, <1>2

LEMMA TypeInit == Init => TypeOK
  <1> SUFFICES ASSUME Init PROVE TypeOK
    OBVIOUS
  <1>1. Nobody \in Departure /\ Idle \in CallerState
    BY DEF Departure, CallerState
  <1>2. At("loop") \in WorkerState /\ At("loop") \in ReceiverState
    BY DEF At, WorkerState, ReceiverState
  <1>3. QED
    BY <1>1, <1>2, BoundAssumption DEF Init, TypeOK

\* What RawCallback and Callback do to the thread that runs them.
LEMMA RawCallbackEffect ==
    ASSUME TypeOK, NEW t \in Thread, RawCallback(t)
    PROVE  /\ caller[t].pc = "raw" /\ caller[t].details \in Details
           /\ \E h \in caller[t].details.todo :
                 /\ log' = [log EXCEPT ![h] = Append(@, caller[t].details.msg)]
                 /\ caller' = [caller EXCEPT ![t] =
                        [pc |-> "raw", details |-> Less(caller[t].details, h)]]
  <1> DEFINE d == caller[t].details
  <1>1. PICK h \in FirstKind(d.todo, Raw) :
            /\ log' = [log EXCEPT ![h] = Append(@, d.msg)]
            /\ caller' = [caller EXCEPT ![t].details.todo = @ \ {h}]
    BY DEF RawCallback
  <1>2. caller[t].pc = "raw" /\ d \in Details /\ caller[t] = [pc |-> "raw", details |-> d]
    BY CallerTypes DEF RawCallback
  <1>3. h \in d.todo
    BY DEF FirstKind
  <1>4. d = [msg |-> d.msg, todo |-> d.todo]
    BY <1>2, DetailsTypes
  <1>5. caller \in [Thread -> CallerState]
    BY DEF TypeOK
  <1>6. caller' = [caller EXCEPT ![t] = [pc |-> "raw", details |-> Less(d, h)]]
    <2>1. [caller[t] EXCEPT !.details.todo = d.todo \ {h}]
              = [pc |-> "raw", details |-> Less(d, h)]
      <3>1. [d EXCEPT !.todo = d.todo \ {h}] = Less(d, h)
        BY <1>4 DEF Less
      <3>2. [caller[t] EXCEPT !.details = Less(d, h)] = [pc |-> "raw", details |-> Less(d, h)]
        BY <1>2
      <3>3. QED
        BY <3>1, <3>2
    <2>2. QED
      BY <1>1, <2>1
  <1>7. QED
    BY <1>1, <1>2, <1>3, <1>6

LEMMA CallbackEffect ==
    ASSUME TypeOK, Callback
    PROVE  /\ worker.pc = "run" /\ worker.details \in Details
           /\ \E h \in worker.details.todo :
                 /\ log' = IF Ignored(worker.details.msg, h) THEN log
                           ELSE [log EXCEPT ![h] = Append(@, worker.details.msg)]
                 /\ worker' = [pc |-> "run", details |-> Less(worker.details, h)]
  <1> DEFINE d == worker.details
  <1>1. PICK h \in FirstKind(d.todo, Handler \ Raw) :
            /\ log' = IF Ignored(d.msg, h) THEN log ELSE [log EXCEPT ![h] = Append(@, d.msg)]
            /\ worker' = [worker EXCEPT !.details.todo = @ \ {h}]
    BY DEF Callback
  <1>2. worker.pc = "run" /\ d \in Details /\ worker = [pc |-> "run", details |-> d]
    BY WorkerTypes DEF Callback
  <1>3. h \in d.todo
    BY DEF FirstKind
  <1>4. d = [msg |-> d.msg, todo |-> d.todo]
    BY <1>2, DetailsTypes
  <1>5. worker' = [pc |-> "run", details |-> Less(d, h)]
    <2>1. [d EXCEPT !.todo = d.todo \ {h}] = Less(d, h)
      BY <1>4 DEF Less
    <2>2. [worker EXCEPT !.details = Less(d, h)] = [pc |-> "run", details |-> Less(d, h)]
      BY <1>2
    <2>3. QED
      BY <1>1, <2>1, <2>2
  <1>6. QED
    BY <1>1, <1>2, <1>3, <1>5

\* Stripping keeps the queue's length, messages and order.
LEMMA StripTypes ==
    ASSUME TypeOK, NEW H
    PROVE  /\ Strip(H) \in Seq(Details)
           /\ DOMAIN Strip(H) = DOMAIN queue
           /\ \A i \in DOMAIN queue :
                 Strip(H)[i] = [msg |-> queue[i].msg, todo |-> queue[i].todo \ (H \cap SameName)]
  <1>1. queue \in Seq(Details) /\ DOMAIN queue = 1..Len(queue)
    BY DEF TypeOK
  <1>2. \A i \in 1..Len(queue) : queue[i] \in Details
    BY <1>1
  <1>3. \A i \in 1..Len(queue) :
            [queue[i] EXCEPT !.todo = @ \ (H \cap SameName)]
                = [msg |-> queue[i].msg, todo |-> queue[i].todo \ (H \cap SameName)]
    BY <1>2, DetailsTypes
  <1>4. \A i \in 1..Len(queue) :
            [msg |-> queue[i].msg, todo |-> queue[i].todo \ (H \cap SameName)] \in Details
    BY <1>2, DetailsTypes
  <1>5. Strip(H) = [i \in 1..Len(queue) |->
                [msg |-> queue[i].msg, todo |-> queue[i].todo \ (H \cap SameName)]]
    BY <1>1, <1>3 DEF Strip
  <1>6. Len(queue) \in Nat
    BY <1>1
  <1>7. QED
    BY <1>1, <1>4, <1>5, <1>6

\* A snapshot of a thread that has nothing under way.
LEMMA SnapshotTypes ==
    ASSUME TypeOK, NEW t \in Thread, NEW raw \in BOOLEAN, Snapshot(t, raw), sent[t] < Quota[t]
    PROVE  /\ caller' \in [Thread -> CallerState]
           /\ sent' \in [Thread -> Nat] /\ \A u \in Thread : sent'[u] <= Quota[u]
  <1>1. sent \in [Thread -> Nat] /\ sent' = [sent EXCEPT ![t] = @ + 1]
    BY DEF TypeOK, Snapshot
  <1>2. \A u \in Thread : sent[u] <= Quota[u] /\ Quota[u] \in Nat
    BY BoundAssumption DEF TypeOK
  <1>3. [from |-> t, seq |-> sent[t] + 1, raw |-> raw] \in Message
    BY <1>1 DEF Message
  <1>4. [msg |-> [from |-> t, seq |-> sent[t] + 1, raw |-> raw], todo |-> subs \cap Suits[t]]
            \in Details
    BY <1>3 DEF Details, TypeOK
  <1>5. caller' \in [Thread -> CallerState]
    BY <1>4 DEF TypeOK, Snapshot, CallerState
  <1>6. \A u \in Thread : sent'[u] = IF u = t THEN sent[t] + 1 ELSE sent[u]
    BY <1>1
  <1>7. sent[t] \in Nat /\ sent[t] < Quota[t]
    BY <1>1
  <1>8. sent' \in [Thread -> Nat]
    BY <1>1
  <1>9. \A u \in Thread : sent'[u] <= Quota[u]
    BY <1>2, <1>6, <1>7
  <1>10. QED
    BY <1>5, <1>8, <1>9

LEMMA TypeUnsubscribe ==
    ASSUME TypeOK, NEW n \in NodeId, UnsubscribeStrip(n) \/ UnsubscribeRemove(n)
    PROVE  TypeOK'
  <1>1. CASE UnsubscribeStrip(n)
    <2>1. PICK form \in {"one", "all"}, H \in SUBSET OfNode(n) :
              /\ queue' = Strip(H)
              /\ leaving' = [leaving EXCEPT ![n] = [form |-> form, handlers |-> H]]
      BY <1>1 DEF UnsubscribeStrip
    <2>2. H \in SUBSET Handler
      BY DEF OfNode, TypeOK
    <2>3. leaving' \in [NodeId -> Departure]
      BY <2>1, <2>2 DEF Departure, TypeOK
    <2>4. queue' \in Seq(Details)
      BY <2>1, StripTypes
    <2>5. QED
      BY <1>1, <2>3, <2>4 DEF UnsubscribeStrip, TypeOK
  <1>2. CASE UnsubscribeRemove(n)
    <2>1. Leaving(n) \subseteq Handler
      <3>1. leaving[n] \in Departure
        BY DEF TypeOK
      <3>2. leaving[n].handlers \subseteq Handler
        BY <3>1 DEF Departure, Nobody
      <3>3. QED
        BY <3>2 DEF Leaving, OfNode, TypeOK
    <2>2. leaving' \in [NodeId -> Departure]
      BY <1>2 DEF UnsubscribeRemove, TypeOK, Departure
    <2>3. QED
      BY <1>2, <2>1, <2>2 DEF UnsubscribeRemove, TypeOK
  <1>3. QED
    BY <1>1, <1>2

LEMMA TypeCaller ==
    ASSUME TypeOK, NEW t \in Thread, Publish(t) \/ PublishRaw(t) \/ CallerContinues(t)
    PROVE  TypeOK'
  <1>1. CASE Publish(t) \/ PublishRaw(t)
    <2>1. PICK raw \in BOOLEAN : Snapshot(t, raw)
      BY <1>1 DEF Publish, PublishRaw
    <2>2. sent[t] < Quota[t] /\ receiver' = receiver
      BY <1>1 DEF Publish, PublishRaw, MayPublish
    <2>3. /\ caller' \in [Thread -> CallerState]
          /\ sent' \in [Thread -> Nat] /\ \A u \in Thread : sent'[u] <= Quota[u]
      BY <2>1, <2>2, SnapshotTypes
    <2>4. QED
      BY <2>1, <2>2, <2>3 DEF Snapshot, TypeOK
  <1>2. CASE PublishPush(t)
    <2>1. queue' \in Seq(Details)
      BY <1>2, CallerTypes DEF PublishPush, TypeOK
    <2>2. caller' \in [Thread -> CallerState]
      BY <1>2 DEF PublishPush, TypeOK, CallerState, At
    <2>3. QED
      BY <1>2, <2>1, <2>2 DEF PublishPush, TypeOK
  <1>3. CASE PublishNotify(t)
    BY <1>3 DEF PublishNotify, TypeOK, CallerState, Notified, WorkerState, At
  <1>4. CASE RawCallback(t)
    <2>1. PICK h \in caller[t].details.todo :
              /\ log' = [log EXCEPT ![h] = Append(@, caller[t].details.msg)]
              /\ caller' = [caller EXCEPT ![t] =
                     [pc |-> "raw", details |-> Less(caller[t].details, h)]]
      BY <1>4, RawCallbackEffect
    <2>2. caller[t].details \in Details
      BY <1>4, RawCallbackEffect
    <2>3. /\ Less(caller[t].details, h) \in Details /\ caller[t].details.msg \in Message
          /\ h \in Handler
      BY <2>2, LessTypes, DetailsTypes
    <2>4. caller' \in [Thread -> CallerState]
      BY <2>1, <2>3 DEF CallerState, TypeOK
    <2>5. log' \in [Handler -> Seq(Message)]
      BY <2>1, <2>3, LogTypes DEF TypeOK
    <2>6. QED
      BY <1>4, <2>4, <2>5 DEF RawCallback, TypeOK
  <1>5. CASE RawReturn(t)
    BY <1>5 DEF RawReturn, TypeOK, CallerState
  <1>6. QED
    BY <1>1, <1>2, <1>3, <1>4, <1>5 DEF CallerContinues

LEMMA TypeWorker ==
    ASSUME TypeOK, WorkerRuns \/ WaitTimeout
    PROVE  TypeOK'
  <1>1. At("loop") \in WorkerState /\ At("checked") \in WorkerState
        /\ At("blocked") \in WorkerState
    BY DEF At, WorkerState
  <1>2. CASE Take
    <2>1. Head(queue) \in Details /\ Tail(queue) \in Seq(Details)
      BY <1>2 DEF Take, TypeOK
    <2>2. worker' \in WorkerState
      BY <1>2, <2>1 DEF Take, WorkerState
    <2>3. QED
      BY <1>2, <2>1, <2>2 DEF Take, TypeOK
  <1>3. CASE Callback
    <2>1. PICK h \in worker.details.todo :
              /\ log' = IF Ignored(worker.details.msg, h) THEN log
                        ELSE [log EXCEPT ![h] = Append(@, worker.details.msg)]
              /\ worker' = [pc |-> "run", details |-> Less(worker.details, h)]
      BY <1>3, CallbackEffect
    <2>2. worker.details \in Details
      BY <1>3, CallbackEffect
    <2>3. /\ Less(worker.details, h) \in Details /\ worker.details.msg \in Message
          /\ h \in Handler
      BY <2>2, LessTypes, DetailsTypes
    <2>4. worker' \in WorkerState
      BY <2>1, <2>3 DEF WorkerState
    <2>5. log' \in [Handler -> Seq(Message)]
      BY <2>1, <2>3, LogTypes DEF TypeOK
    <2>6. QED
      BY <1>3, <2>4, <2>5 DEF Callback, TypeOK
  <1>4. CASE CallbacksDone \/ FindNothing \/ Block \/ WaitTimeout
    BY <1>1, <1>4 DEF CallbacksDone, FindNothing, Block, WaitTimeout, TypeOK
  <1>5. QED
    BY <1>2, <1>3, <1>4 DEF WorkerRuns

LEMMA TypeReceiver ==
    ASSUME TypeOK, NEW t \in Remote,
           \/ ReceptionPolls(t) \/ RecvReturn(t)
           \/ RecvMsgUpdate(t) /\ sent[t] < Quota[t]
    PROVE  TypeOK'
  <1>1. t \in Thread
    BY SubscriptionAssumption
  <1>2. At("loop") \in ReceiverState /\ At("run") \in ReceiverState
        /\ [pc |-> "polled", from |-> t] \in ReceiverState
    BY DEF At, ReceiverState
  <1>3. CASE ReceptionPolls(t)
    BY <1>2, <1>3 DEF ReceptionPolls, TypeOK
  <1>4. CASE RecvReturn(t)
    BY <1>2, <1>4 DEF RecvReturn, TypeOK, CallerState
  <1>5. CASE RecvMsgUpdate(t) /\ sent[t] < Quota[t]
    <2>1. /\ caller' \in [Thread -> CallerState]
          /\ sent' \in [Thread -> Nat] /\ \A u \in Thread : sent'[u] <= Quota[u]
      BY <1>1, <1>5, SnapshotTypes DEF RecvMsgUpdate
    <2>2. receiver' \in ReceiverState
      BY <1>2, <1>5 DEF RecvMsgUpdate
    <2>3. QED
      BY <1>5, <2>1, <2>2 DEF RecvMsgUpdate, Snapshot, TypeOK
  <1>6. QED
    BY <1>3, <1>4, <1>5

-----------------------------------------------------------------------------
(* The reception thread runs one message at a time.                        *)

\* The callbacks of a received message are run by the reception thread, which
\* has one message at a time, and has checked that there is one.
Reception ==
    /\ \A t \in Remote : /\ caller[t].pc \in {"idle", "raw"}
                         /\ caller[t].pc = "raw" => receiver.pc = "run"
    /\ \A t, u \in Remote : caller[t].pc = "raw" /\ caller[u].pc = "raw" => t = u
    /\ receiver.pc = "polled" => sent[receiver.from] < Quota[receiver.from]

LEMMA ReceiverTypes ==
    ASSUME TypeOK, receiver.pc = "polled"
    PROVE  receiver.from \in Remote
  <1>1. receiver \in ReceiverState
    BY DEF TypeOK
  <1>2. QED
    BY <1>1 DEF ReceiverState

LEMMA ReceptionInit == Init => Reception
  BY SubscriptionAssumption DEF Init, Reception, Idle, At

\* Calls of the process's own threads leave those of the others alone.
LEMMA ReceptionCaller ==
    ASSUME TypeOK, Reception, NEW t \in Thread,
           Publish(t) \/ PublishRaw(t) \/ CallerContinues(t)
    PROVE  Reception'
  <1>1. receiver' = receiver
    BY DEF Publish, PublishRaw, CallerContinues, PublishPush, PublishNotify, RawCallback, RawReturn
  <1>2. \A u \in Remote : u \in Thread
    BY SubscriptionAssumption
  <1>3. CASE t \notin Remote
    <2>1. \A u \in Remote : caller'[u] = caller[u] /\ sent'[u] = sent[u]
      <3>1. \A u \in Remote : u # t /\ u \in Thread
        BY <1>2, <1>3
      <3>2. /\ \E at : caller' = [caller EXCEPT ![t] = at]
            /\ sent' = sent \/ sent' = [sent EXCEPT ![t] = @ + 1]
        BY RawCallbackEffect
           DEF Publish, PublishRaw, Snapshot, CallerContinues, PublishPush, PublishNotify,
               RawCallback, RawReturn
      <3>3. QED
        BY <3>1, <3>2 DEF TypeOK
    <2>2. receiver.pc = "polled" => receiver.from \in Remote
      BY ReceiverTypes
    <2>3. QED
      BY <1>1, <2>1, <2>2 DEF Reception
  <1>4. CASE t \in Remote
    <2>1. RawCallback(t)
      BY <1>4 DEF Reception, Publish, PublishRaw, MayPublish, CallerContinues, PublishPush,
         PublishNotify, RawReturn
    <2>2. sent' = sent
      BY <2>1 DEF RawCallback
    <2>3. \A u \in Remote : caller'[u].pc = caller[u].pc
      <3>1. caller[t].pc = "raw"
            /\ \E d : caller' = [caller EXCEPT ![t] = [pc |-> "raw", details |-> d]]
        BY <2>1, RawCallbackEffect
      <3>2. QED
        BY <1>2, <3>1 DEF TypeOK
    <2>4. QED
      BY <1>1, <2>2, <2>3 DEF Reception
  <1>5. QED
    BY <1>3, <1>4

LEMMA ReceptionReceiver ==
    ASSUME TypeOK, Reception, NEW t \in Remote,
           ReceptionPolls(t) \/ RecvMsgUpdate(t) \/ RecvReturn(t)
    PROVE  Reception'
  <1>1. \A u \in Remote : u \in Thread
    BY SubscriptionAssumption
  <1>2. CASE ReceptionPolls(t)
    BY <1>2 DEF Reception, ReceptionPolls, At
  <1>3. CASE RecvMsgUpdate(t)
    <2>1. receiver.pc = "polled"
      BY <1>3 DEF RecvMsgUpdate
    <2>2. \A u \in Remote : caller[u].pc = "idle"
      BY <2>1 DEF Reception
    <2>3. \A u \in Remote : u # t => caller'[u] = caller[u]
      BY <1>1, <1>3 DEF RecvMsgUpdate, Snapshot, TypeOK
    <2>4. caller'[t].pc = IF subs = {} THEN "idle" ELSE "raw"
      BY <1>1, <1>3 DEF RecvMsgUpdate, Snapshot, TypeOK, Idle
    <2>5. receiver'.pc = IF subs = {} THEN "loop" ELSE "run"
      BY <1>3 DEF RecvMsgUpdate, At
    <2>6. QED
      BY <2>2, <2>3, <2>4, <2>5 DEF Reception
  <1>4. CASE RecvReturn(t)
    <2>1. caller[t].pc = "raw" /\ receiver' = At("loop")
      BY <1>4 DEF RecvReturn
    <2>2. \A u \in Remote : u # t => caller[u].pc = "idle"
      BY <2>1 DEF Reception
    <2>3. \A u \in Remote : caller'[u].pc = "idle"
      BY <1>1, <1>4, <2>2 DEF RecvReturn, TypeOK, Idle
    <2>4. QED
      BY <2>1, <2>3 DEF Reception, At
  <1>5. QED
    BY <1>2, <1>3, <1>4

\* The steps of Next that belong to none of these threads.
LEMMA OtherSteps ==
    ASSUME [Next]_vars
    PROVE  \/ \E t \in Thread : Publish(t) \/ PublishRaw(t) \/ CallerContinues(t)
           \/ \E t \in Remote :
                 ReceptionPolls(t) \/ RecvMsgUpdate(t) \/ RecvReturn(t)
           \/ WorkerRuns \/ WaitTimeout
           \/ \E h \in Handler : Subscribe(h)
           \/ \E n \in NodeId : UnsubscribeStrip(n) \/ UnsubscribeRemove(n)
           \/ UNCHANGED vars
  BY DEF Next, ReceiverRuns

LEMMA ReceptionNext ==
    ASSUME TypeOK, Reception, [Next]_vars
    PROVE  Reception'
  <1>1. ASSUME UNCHANGED <<caller, receiver, sent>> PROVE Reception'
    BY <1>1 DEF Reception
  <1>2. CASE WorkerRuns \/ WaitTimeout
    BY <1>1, <1>2 DEF WorkerRuns, Take, Callback, CallbacksDone, FindNothing, Block, WaitTimeout
  <1>3. CASE (\E h \in Handler : Subscribe(h)) \/ UNCHANGED vars
    BY <1>1, <1>3 DEF Subscribe, vars
  <1>4. CASE \E n \in NodeId : UnsubscribeStrip(n) \/ UnsubscribeRemove(n)
    BY <1>1, <1>4 DEF UnsubscribeStrip, UnsubscribeRemove
  <1>5. QED
    BY <1>2, <1>3, <1>4, OtherSteps, ReceptionCaller, ReceptionReceiver

LEMMA TypeNext ==
    ASSUME TypeOK, Reception, [Next]_vars
    PROVE  TypeOK'
  <1>1. ASSUME NEW h \in Handler, Subscribe(h) PROVE TypeOK'
    BY <1>1 DEF Subscribe, TypeOK
  <1>2. CASE UNCHANGED vars
    BY <1>2 DEF vars, TypeOK
  <1>3. ASSUME NEW t \in Remote, RecvMsgUpdate(t) PROVE sent[t] < Quota[t]
    BY <1>3 DEF RecvMsgUpdate, Reception
  <1>4. QED
    BY <1>1, <1>2, <1>3, OtherSteps, TypeCaller, TypeReceiver, TypeWorker, TypeUnsubscribe

\* PubQueue is type correct: every entry of the queue, and what every thread holds,
\* is a message of a thread and registered handlers.
THEOREM TypeCorrect == Spec => []TypeOK
  <1>1. Init => TypeOK /\ Reception
    BY TypeInit, ReceptionInit
  <1>2. TypeOK /\ Reception /\ [Next]_vars => (TypeOK /\ Reception)'
    BY TypeNext, ReceptionNext
  <1>3. QED
    BY <1>1, <1>2, PTL DEF Spec

-----------------------------------------------------------------------------
(* Every publisher's messages stand in line in the order of its calls.     *)

\* The thread has a snapshot that it has not queued, or whose callbacks it runs.
Busy(t) == caller[t].pc \in {"push", "raw"}

\* A message that is queued: published by Publish, and before what its
\* publisher is at now.
Behind(m) ==
    /\ ~ m.raw
    /\ m.seq <= sent[m.from]
    /\ Busy(m.from) => m.seq < sent[m.from]

\* m stands in line in front of the queue's entries.
InFront(m) == \A i \in DOMAIN queue : queue[i].msg.from = m.from => m.seq < queue[i].msg.seq

CallerLast ==
    \A t \in Thread :
        Busy(t) => /\ caller[t].details.msg.from = t
                   /\ caller[t].details.msg.seq = sent[t]
                   /\ (caller[t].details.msg.raw <=> caller[t].pc = "raw")

QueueBehind == \A i \in DOMAIN queue : Behind(queue[i].msg)

QueueOrdered ==
    \A i, j \in DOMAIN queue :
        i < j /\ queue[i].msg.from = queue[j].msg.from => queue[i].msg.seq < queue[j].msg.seq

WorkerFirst == worker.pc = "run" => Behind(worker.details.msg) /\ InFront(worker.details.msg)

Order == CallerLast /\ QueueBehind /\ QueueOrdered /\ WorkerFirst

LEMMA QueueTypes ==
    ASSUME TypeOK
    PROVE  /\ DOMAIN queue = 1..Len(queue) /\ Len(queue) \in Nat
           /\ \A i \in DOMAIN queue : queue[i] \in Details
           /\ \A i \in DOMAIN queue : queue[i].msg.from \in Thread /\ queue[i].msg.seq \in Nat
  <1>1. queue \in Seq(Details)
    BY DEF TypeOK
  <1>2. \A i \in 1..Len(queue) : queue[i] \in Details
    BY <1>1
  <1>3. QED
    BY <1>1, <1>2, DetailsTypes

LEMMA OrderInit == Init => Order
  BY DEF Init, Order, CallerLast, QueueBehind, QueueOrdered, WorkerFirst, Busy, Idle, At

\* A step that publishes nothing and moves nothing in the line: snapshots are
\* used up at most.
LEMMA OrderQuietly ==
    ASSUME Order, sent' = sent,
           \A t \in Thread : Busy(t)' => /\ Busy(t) /\ caller'[t].pc = caller[t].pc
                                         /\ caller'[t].details.msg = caller[t].details.msg,
           DOMAIN queue' = DOMAIN queue,
           \A i \in DOMAIN queue : queue'[i].msg = queue[i].msg,
           worker'.pc = "run" => worker.pc = "run" /\ worker'.details.msg = worker.details.msg,
           TypeOK
    PROVE  Order'
  <1>1. CallerLast'
    BY DEF Order, CallerLast
  <1>2. \A m : m.from \in Thread /\ Behind(m) => Behind(m)'
    BY DEF Behind
  <1>3. QueueBehind'
    BY <1>2, QueueTypes DEF Order, QueueBehind
  <1>4. QueueOrdered'
    BY DEF Order, QueueOrdered
  <1>5. \A m : InFront(m) => InFront(m)'
    BY DEF InFront
  <1>6. WorkerFirst'
    <2>1. worker.pc = "run" => worker.details.msg.from \in Thread
      BY WorkerTypes, DetailsTypes
    <2>2. QED
      BY <1>2, <1>5, <2>1 DEF Order, WorkerFirst
  <1>7. QED
    BY <1>1, <1>3, <1>4, <1>6 DEF Order

\* A new message comes after all of its publisher.
LEMMA OrderSnapshot ==
    ASSUME TypeOK, Order, NEW t \in Thread, NEW raw \in BOOLEAN, Snapshot(t, raw), ~ Busy(t)
    PROVE  Order'
  <1>1. /\ sent' = [sent EXCEPT ![t] = @ + 1]
        /\ UNCHANGED <<queue, worker>>
        /\ sent \in [Thread -> Nat] /\ caller \in [Thread -> CallerState]
    BY DEF Snapshot, TypeOK
  <1>2. \A u \in Thread : u # t => caller'[u] = caller[u] /\ sent'[u] = sent[u]
    BY <1>1 DEF Snapshot
  <1>3. \/ caller'[t] = Idle
        \/ \E todo : caller'[t] =
               [pc |-> IF raw THEN "raw" ELSE "push",
                details |-> [msg |-> [from |-> t, seq |-> sent[t] + 1, raw |-> raw],
                             todo |-> todo]]
    BY <1>1 DEF Snapshot
  <1>4. sent'[t] = sent[t] + 1 /\ sent[t] \in Nat
    BY <1>1
  <1>5. CallerLast'
    <2>1. ASSUME NEW u \in Thread, Busy(u)'
          PROVE  /\ caller'[u].details.msg.from = u
                 /\ caller'[u].details.msg.seq = sent'[u]
                 /\ (caller'[u].details.msg.raw <=> caller'[u].pc = "raw")
      <3>1. CASE u = t
        <4>1. caller'[t] # Idle
          BY <2>1, <3>1 DEF Busy, Idle
        <4>2. PICK todo : caller'[t] =
                  [pc |-> IF raw THEN "raw" ELSE "push",
                   details |-> [msg |-> [from |-> t, seq |-> sent[t] + 1, raw |-> raw],
                                todo |-> todo]]
          BY <1>3, <4>1
        <4>3. caller'[t].details.msg = [from |-> t, seq |-> sent[t] + 1, raw |-> raw]
          BY <4>2
        <4>4. raw <=> caller'[t].pc = "raw"
          <5>1. CASE raw = TRUE
            BY <4>2, <5>1
          <5>2. CASE raw = FALSE
            BY <4>2, <5>2
          <5>3. QED
            BY <5>1, <5>2
        <4>5. QED
          BY <1>4, <3>1, <4>3, <4>4
      <3>2. CASE u # t
        BY <1>2, <2>1, <3>2 DEF Order, CallerLast, Busy
      <3>3. QED
        BY <3>1, <3>2
    <2>2. QED
      BY <2>1 DEF CallerLast
  <1>6. ASSUME NEW m, m.from \in Thread, m.seq \in Nat, Behind(m)
        PROVE  Behind(m)'
    <2>1. CASE m.from = t
      <3>1. m.seq <= sent[t] /\ ~ m.raw
        BY <1>6, <2>1 DEF Behind
      <3>2. m.seq <= sent[t] + 1 /\ m.seq < sent[t] + 1
        BY <1>4, <1>6, <3>1
      <3>3. QED
        BY <1>4, <2>1, <3>1, <3>2 DEF Behind
    <2>2. CASE m.from # t
      BY <1>2, <1>6, <2>2 DEF Behind, Busy
    <2>3. QED
      BY <2>1, <2>2
  <1>7. QueueBehind' /\ QueueOrdered'
    BY <1>1, <1>6, QueueTypes DEF Order, QueueBehind, QueueOrdered
  <1>8. WorkerFirst'
    <2>1. worker.pc = "run" => /\ worker.details.msg.from \in Thread
                               /\ worker.details.msg.seq \in Nat
      BY WorkerTypes, DetailsTypes
    <2>2. QED
      BY <1>1, <1>6, <2>1 DEF Order, WorkerFirst, InFront
  <1>9. QED
    BY <1>5, <1>7, <1>8 DEF Order

\* pubQueue.push_back: the snapshot is behind everything of its publisher.
LEMMA OrderPush ==
    ASSUME TypeOK, Order, NEW t \in Thread, PublishPush(t)
    PROVE  Order'
  <1> PICK d \in Details, n \in Nat : d = caller[t].details /\ n = Len(queue)
    BY CallerTypes, QueueTypes DEF PublishPush
  <1>1. /\ caller[t].pc = "push" /\ d = caller[t].details
        /\ queue' = Append(queue, d)
        /\ caller' = [caller EXCEPT ![t] = At("notify")]
        /\ UNCHANGED <<sent, worker>>
    BY CallerTypes DEF PublishPush
  <1>2. d.msg.from = t /\ d.msg.seq = sent[t] /\ ~ d.msg.raw /\ sent[t] \in Nat
    BY <1>1 DEF Order, CallerLast, Busy, TypeOK
  <1>3. /\ DOMAIN queue = 1..n /\ n \in Nat
        /\ DOMAIN queue' = 1..n+1
        /\ \A i \in 1..n : queue'[i] = queue[i]
        /\ queue'[n+1] = d
    BY <1>1, QueueTypes DEF TypeOK
  <1>4. \A i \in 1..n : queue[i].msg.from \in Thread /\ queue[i].msg.seq \in Nat
    BY <1>3, QueueTypes
  <1>5. \A u \in Thread : u # t => caller'[u] = caller[u]
    BY <1>1 DEF TypeOK
  <1>6. ~ Busy(t)' /\ Busy(t)
    BY <1>1 DEF TypeOK, Busy, At
  <1>7. \A u \in Thread : Busy(u)' => Busy(u) /\ caller'[u] = caller[u]
    BY <1>5, <1>6 DEF Busy
  <1>8. CallerLast'
    BY <1>1, <1>7 DEF Order, CallerLast
  <1>9. \A m : m.from \in Thread /\ Behind(m) => Behind(m)'
    BY <1>1, <1>7 DEF Behind
  <1>10. Behind(d.msg)'
    BY <1>1, <1>2, <1>6 DEF Behind
  <1>11. QueueBehind'
    BY <1>3, <1>4, <1>9, <1>10 DEF Order, QueueBehind
  <1>12. \A m : m.from = t /\ Behind(m) => m.seq < d.msg.seq
    BY <1>2, <1>6 DEF Behind
  <1>13. QueueOrdered'
    <2> SUFFICES ASSUME NEW i \in 1..n+1, NEW j \in 1..n+1, i < j,
                        queue'[i].msg.from = queue'[j].msg.from
                 PROVE  queue'[i].msg.seq < queue'[j].msg.seq
      BY <1>3 DEF QueueOrdered
    <2>1. i \in 1..n /\ (j \in 1..n \/ j = n + 1)
      BY <1>3
    <2>2. CASE j \in 1..n
      BY <1>3, <2>1, <2>2 DEF Order, QueueOrdered
    <2>3. CASE j = n + 1
      <3>1. queue[i].msg.from = t
        BY <1>2, <1>3, <2>1, <2>3
      <3>2. Behind(queue[i].msg)
        BY <1>3, <2>1 DEF Order, QueueBehind
      <3>3. QED
        BY <1>3, <1>12, <2>1, <2>3, <3>1, <3>2
    <2>4. QED
      BY <2>1, <2>2, <2>3
  <1>14. WorkerFirst'
    <2> SUFFICES ASSUME worker.pc = "run", NEW m \in Message, m = worker.details.msg
                 PROVE  Behind(m)' /\ InFront(m)'
      BY <1>1, WorkerTypes, DetailsTypes DEF WorkerFirst, Behind, InFront
    <2>1. m.from \in Thread /\ Behind(m) /\ InFront(m)
      BY WorkerTypes, DetailsTypes DEF Order, WorkerFirst
    <2>3. \A i \in 1..n+1 : queue'[i].msg.from = m.from => m.seq < queue'[i].msg.seq
      <3> TAKE i \in 1..n+1
      <3>1. CASE i \in 1..n
        BY <1>3, <2>1, <3>1 DEF InFront
      <3>2. CASE i = n + 1
        BY <1>2, <1>3, <1>12, <2>1, <3>2
      <3>3. QED
        BY <1>3, <3>1, <3>2
    <2>4. QED
      BY <1>3, <1>9, <2>1, <2>3 DEF InFront
  <1>15. QED
    BY <1>8, <1>11, <1>13, <1>14 DEF Order

\* The worker takes the first.
LEMMA OrderTake ==
    ASSUME TypeOK, Order, Take
    PROVE  Order'
  <1> DEFINE n == Len(queue)
  <1>1. /\ worker' = [pc |-> "run", details |-> queue[1]]
        /\ queue' = Tail(queue)
        /\ UNCHANGED <<sent, caller>>
        /\ queue \in Seq(Details) /\ queue # <<>>
    BY DEF Take, TypeOK
  <1>2. /\ DOMAIN queue = 1..n /\ n \in Nat \ {0}
        /\ DOMAIN queue' = 1..n-1
        /\ \A i \in 1..n-1 : queue'[i] = queue[i+1]
    BY <1>1
  <1> HIDE DEF n
  <1>3. CallerLast'
    BY <1>1 DEF Order, CallerLast, Busy
  <1>4. \A m : Behind(m) => Behind(m)'
    BY <1>1 DEF Behind, Busy
  <1>5. \A i \in 1..n-1 : i + 1 \in 1..n /\ 1 < i + 1
    BY <1>2
  <1>6. QueueBehind'
    BY <1>2, <1>4, <1>5 DEF Order, QueueBehind
  <1>7. QueueOrdered'
    <2> SUFFICES ASSUME NEW i \in 1..n-1, NEW j \in 1..n-1, i < j,
                        queue'[i].msg.from = queue'[j].msg.from
                 PROVE  queue'[i].msg.seq < queue'[j].msg.seq
      BY <1>2 DEF QueueOrdered
    <2>1. i + 1 < j + 1 /\ i + 1 \in 1..n /\ j + 1 \in 1..n
      BY <1>2, <1>5
    <2>2. queue'[i] = queue[i+1] /\ queue'[j] = queue[j+1]
      BY <1>2
    <2>3. QED
      BY <1>2, <2>1, <2>2 DEF Order, QueueOrdered
  <1>8. WorkerFirst'
    <2>1. worker'.details.msg = queue[1].msg /\ 1 \in 1..n
      BY <1>1, <1>2
    <2>2. Behind(queue[1].msg)
      BY <1>2, <2>1 DEF Order, QueueBehind
    <2>3. \A i \in 1..n-1 :
              queue'[i].msg.from = queue[1].msg.from => queue[1].msg.seq < queue'[i].msg.seq
      BY <1>2, <1>5, <2>1 DEF Order, QueueOrdered
    <2>4. QED
      BY <1>1, <1>2, <1>4, <2>1, <2>2, <2>3 DEF WorkerFirst, InFront, Behind, Busy
  <1>9. QED
    BY <1>3, <1>6, <1>7, <1>8 DEF Order

\* The calls of t and the callbacks that the reception thread runs for it.
LEMMA OrderCaller ==
    ASSUME TypeOK, Order, NEW t \in Thread, Publish(t) \/ PublishRaw(t) \/ CallerContinues(t)
    PROVE  Order'
  <1>1. caller \in [Thread -> CallerState]
    BY DEF TypeOK
  <1>2. CASE Publish(t) \/ PublishRaw(t)
    <2>1. PICK raw \in BOOLEAN : Snapshot(t, raw)
      BY <1>2 DEF Publish, PublishRaw
    <2>2. ~ Busy(t)
      <3>1. caller[t] = Idle
        BY <1>2 DEF Publish, PublishRaw, MayPublish
      <3>2. QED
        BY <3>1 DEF Busy, Idle
    <2>3. QED
      BY <2>1, <2>2, OrderSnapshot
  <1>3. CASE PublishPush(t)
    BY <1>3, OrderPush
  <1>4. CASE PublishNotify(t) \/ RawReturn(t)
    <2>1. sent' = sent /\ queue' = queue /\ caller' = [caller EXCEPT ![t] = Idle]
      BY <1>4 DEF PublishNotify, RawReturn
    <2>2. worker' = worker \/ worker'.pc = "loop"
      BY <1>4 DEF PublishNotify, RawReturn, Notified, At
    <2>3. \A u \in Thread : Busy(u)' => Busy(u) /\ caller'[u] = caller[u]
      BY <1>1, <2>1 DEF Busy, Idle
    <2>4. QED
      BY <2>1, <2>2, <2>3, OrderQuietly
  <1>5. CASE RawCallback(t)
    <2>1. PICK h : caller' = [caller EXCEPT ![t] =
                       [pc |-> "raw", details |-> Less(caller[t].details, h)]]
      BY <1>5, RawCallbackEffect
    <2>2. sent' = sent /\ queue' = queue /\ worker' = worker /\ caller[t].pc = "raw"
      BY <1>5 DEF RawCallback
    <2>3. \A u \in Thread : u # t => caller'[u] = caller[u]
      BY <1>1, <2>1
    <2>4. caller'[t].pc = "raw" /\ caller'[t].details.msg = caller[t].details.msg
      BY <1>1, <2>1 DEF Less
    <2>5. \A u \in Thread :
              Busy(u)' => /\ Busy(u) /\ caller'[u].pc = caller[u].pc
                          /\ caller'[u].details.msg = caller[u].details.msg
      BY <2>2, <2>3, <2>4 DEF Busy
    <2>6. QED
      BY <2>2, <2>5, OrderQuietly
  <1>6. QED
    BY <1>2, <1>3, <1>4, <1>5 DEF CallerContinues

LEMMA OrderReceiver ==
    ASSUME TypeOK, Reception, Order, NEW t \in Remote,
           ReceptionPolls(t) \/ RecvMsgUpdate(t) \/ RecvReturn(t)
    PROVE  Order'
  <1>1. t \in Thread /\ caller \in [Thread -> CallerState]
    BY SubscriptionAssumption DEF TypeOK
  <1>2. CASE ReceptionPolls(t)
    BY <1>2, OrderQuietly DEF ReceptionPolls, Busy
  <1>3. CASE RecvMsgUpdate(t)
    <2>1. receiver.pc = "polled" /\ Snapshot(t, TRUE)
      BY <1>3 DEF RecvMsgUpdate
    <2>2. ~ Busy(t)
      BY <2>1 DEF Reception, Busy
    <2>3. QED
      BY <1>1, <2>1, <2>2, OrderSnapshot
  <1>4. CASE RecvReturn(t)
    <2>1. sent' = sent /\ queue' = queue /\ worker' = worker
          /\ caller' = [caller EXCEPT ![t] = Idle]
      BY <1>4 DEF RecvReturn
    <2>2. \A u \in Thread : Busy(u)' => Busy(u) /\ caller'[u] = caller[u]
      BY <1>1, <2>1 DEF Busy, Idle
    <2>3. QED
      BY <2>1, <2>2, OrderQuietly
  <1>5. QED
    BY <1>2, <1>3, <1>4

LEMMA OrderWorker ==
    ASSUME TypeOK, Order, WorkerRuns \/ WaitTimeout
    PROVE  Order'
  <1>1. CASE Take
    BY <1>1, OrderTake
  <1>2. CASE Callback
    <2>1. PICK h : worker' = [pc |-> "run", details |-> Less(worker.details, h)]
      BY <1>2, CallbackEffect
    <2>2. worker.pc = "run" /\ worker'.details.msg = worker.details.msg
      BY <1>2, <2>1 DEF Callback, Less
    <2>3. sent' = sent /\ queue' = queue /\ caller' = caller
      BY <1>2 DEF Callback
    <2>4. QED
      BY <2>2, <2>3, OrderQuietly DEF Busy
  <1>3. CASE CallbacksDone \/ FindNothing \/ Block \/ WaitTimeout
    <2>1. sent' = sent /\ queue' = queue /\ caller' = caller /\ worker'.pc # "run"
      BY <1>3 DEF CallbacksDone, FindNothing, Block, WaitTimeout, At
    <2>2. QED
      BY <2>1, OrderQuietly DEF Busy
  <1>4. QED
    BY <1>1, <1>2, <1>3 DEF WorkerRuns

LEMMA OrderNext ==
    ASSUME TypeOK, Reception, Order, [Next]_vars
    PROVE  Order'
  <1>1. ASSUME UNCHANGED <<sent, caller, queue>>, worker' = worker \/ worker'.pc = "loop"
        PROVE  Order'
    BY <1>1, OrderQuietly DEF Busy
  <1>2. CASE \/ UNCHANGED vars
             \/ (\E h \in Handler : Subscribe(h))
             \/ (\E n \in NodeId : UnsubscribeRemove(n))
    BY <1>1, <1>2 DEF vars, Subscribe, UnsubscribeRemove
  <1>3. ASSUME NEW n \in NodeId, UnsubscribeStrip(n) PROVE Order'
    <2>1. PICK H : queue' = Strip(H)
      BY <1>3 DEF UnsubscribeStrip
    <2>2. DOMAIN queue' = DOMAIN queue /\ \A i \in DOMAIN queue : queue'[i].msg = queue[i].msg
      <3>1. /\ DOMAIN queue' = DOMAIN queue
            /\ \A i \in DOMAIN queue :
                   queue'[i] = [msg |-> queue[i].msg,
                                todo |-> queue[i].todo \ (H \cap SameName)]
        BY <2>1, StripTypes, Zenon
      <3>2. QED
        BY <3>1
    <2>3. UNCHANGED <<sent, caller, worker>>
      BY <1>3 DEF UnsubscribeStrip
    <2>4. QED
      BY <2>2, <2>3, OrderQuietly DEF Busy
  <1>4. QED
    BY <1>2, <1>3, OtherSteps, OrderCaller, OrderReceiver, OrderWorker

-----------------------------------------------------------------------------
(* Handlers that are leaving.                                              *)

\* Each node's Unsubscribe removes registered handlers of its own, and what has
\* been removed is registered no more.  Remapped names break both.
Leavers ==
    /\ \A n \in NodeId : leaving[n].handlers \subseteq OfNode(n)
    /\ \A n \in NodeId : leaving[n] # Nobody => leaving[n].handlers # {}
    /\ gone \cap subs = {}

LEMMA LeaversInit == Init => Leavers
  BY DEF Init, Leavers, Nobody, OfNode

LEMMA LeavingTypes ==
    ASSUME TypeOK, Leavers, NEW n \in NodeId
    PROVE  Leaving(n) \subseteq OfNode(n) /\ leaving[n].handlers \subseteq Leaving(n)
  BY DEF Leavers, Leaving

LEMMA LeaversNext ==
    ASSUME Remapped = {}, TypeOK, Leavers, [Next]_vars
    PROVE  Leavers'
  <1>1. leaving \in [NodeId -> Departure]
    BY DEF TypeOK
  <1>2. ASSUME UNCHANGED <<subs, gone, leaving>> PROVE Leavers'
    BY <1>2 DEF Leavers, OfNode
  <1>3. CASE \/ \E t \in Thread : Publish(t) \/ PublishRaw(t) \/ CallerContinues(t)
             \/ \E t \in Remote : ReceptionPolls(t) \/ RecvMsgUpdate(t) \/ RecvReturn(t)
    BY <1>2, <1>3 DEF Publish, PublishRaw, Snapshot, CallerContinues, PublishPush, PublishNotify,
       RawCallback, RawReturn, ReceptionPolls, RecvMsgUpdate, RecvReturn
  <1>4. CASE WorkerRuns \/ WaitTimeout \/ UNCHANGED vars
    BY <1>2, <1>4 DEF WorkerRuns, Take, Callback, CallbacksDone, FindNothing, Block, WaitTimeout,
       vars
  <1>5. ASSUME NEW h \in Handler, Subscribe(h) PROVE Leavers'
    BY <1>5 DEF Subscribe, Leavers, OfNode
  <1>6. ASSUME NEW n \in NodeId, UnsubscribeStrip(n) PROVE Leavers'
    <2>1. PICK form \in {"one", "all"}, H \in (SUBSET OfNode(n)) \ {{}} :
              leaving' = [leaving EXCEPT ![n] = [form |-> form, handlers |-> H]]
      BY <1>6 DEF UnsubscribeStrip
    <2>2. UNCHANGED <<subs, gone>>
      BY <1>6 DEF UnsubscribeStrip
    <2>3. leaving'[n].handlers = H /\ \A k \in NodeId : k # n => leaving'[k] = leaving[k]
      BY <1>1, <2>1
    <2>4. H \subseteq OfNode(n) /\ H # {}
      OBVIOUS
    <2>5. \A k \in NodeId : OfNode(k)' = OfNode(k)
      BY <2>2 DEF OfNode
    <2>6. \A k \in NodeId : leaving'[k].handlers \subseteq OfNode(k)'
      BY <2>3, <2>4, <2>5 DEF Leavers
    <2>7. \A k \in NodeId : leaving'[k] # Nobody => leaving'[k].handlers # {}
      BY <2>3, <2>4 DEF Leavers
    <2>8. QED
      BY <2>2, <2>6, <2>7 DEF Leavers
  <1>7. ASSUME NEW n \in NodeId, UnsubscribeRemove(n) PROVE Leavers'
    <2>1. /\ subs' = subs \ Leaving(n) /\ gone' = gone \cup Leaving(n)
          /\ leaving' = [leaving EXCEPT ![n] = Nobody]
      BY <1>7 DEF UnsubscribeRemove
    <2>2. leaving'[n] = Nobody /\ \A k \in NodeId : k # n => leaving'[k] = leaving[k]
      BY <1>1, <2>1
    <2>3. \A k \in NodeId : k # n => Leaving(n) \cap leaving[k].handlers = {}
      BY LeavingTypes DEF Leavers, OfNode
    <2>4. QED
      BY <2>1, <2>2, <2>3 DEF Leavers, OfNode, Nobody
  <1>8. QED
    BY <1>3, <1>4, <1>5, <1>6, <1>7, OtherSteps

-----------------------------------------------------------------------------
(* What is due: PubQueue implements Delivery.                              *)

CallerCarries(t, h, m) ==
    Busy(t) /\ caller[t].details.msg = m /\ h \in caller[t].details.todo

QueueCarries(h, m) == \E i \in DOMAIN queue : queue[i].msg = m /\ h \in queue[i].todo

WorkerCarries(h, m) ==
    worker.pc = "run" /\ worker.details.msg = m /\ h \in worker.details.todo

\* Somebody still has m for h.
Carries(h, m) ==
    (\E t \in Thread : CallerCarries(t, h, m)) \/ QueueCarries(h, m) \/ WorkerCarries(h, m)

LEMMA PendingCarried ==
    \A h, m : m \in Pending(h) <=> Carries(h, m) /\ ~ Ignored(m, h)
  <1> TAKE h, m
  <1>1. m \in Pending(h) <=> \E d \in InFlight : d.msg = m /\ h \in d.todo /\ ~ Ignored(m, h)
    BY DEF Pending
  <1>2. \A d : d \in InFlight <=> \/ \E t \in Thread : Busy(t) /\ d = caller[t].details
                                  \/ \E i \in DOMAIN queue : d = queue[i]
                                  \/ worker.pc = "run" /\ d = worker.details
    BY DEF InFlight, Busy
  <1>3. Carries(h, m) <=> \E d \in InFlight : d.msg = m /\ h \in d.todo
    BY <1>2 DEF Carries, CallerCarries, QueueCarries, WorkerCarries
  <1>4. QED
    BY <1>1, <1>3

\* What is due after a step.
LEMMA PendingCarriedThen ==
    (\A h, m : m \in Pending(h) <=> Carries(h, m) /\ ~ Ignored(m, h))'
  BY PendingCarried, PTL

\* The same messages are due to the handler.
SameDue(h) == Pending(h)' = Pending(h)

LEMMA SameCarried ==
    ASSUME NEW h, \A m : Carries(h, m)' <=> Carries(h, m)
    PROVE  SameDue(h)
  BY PendingCarried, PendingCarriedThen DEF SameDue, Ignored

LEMMA PublishImplemented ==
    ASSUME TypeOK, NEW t \in Thread, NEW raw \in BOOLEAN, Snapshot(t, raw), ~ Busy(t)
    PROVE  Promised!Publish(t, raw)
  <1> DEFINE m == [from |-> t, seq |-> sent[t] + 1, raw |-> raw]
  <1>1. /\ sent' = [sent EXCEPT ![t] = @ + 1]
        /\ UNCHANGED <<subs, gone, leaving, log, queue, worker>>
        /\ caller \in [Thread -> CallerState]
    BY DEF Snapshot, TypeOK
  <1>2. PICK k \in {m}, pc \in {"raw", "push"} : k = m /\ pc = IF raw THEN "raw" ELSE "push"
    OBVIOUS
  <1>3. /\ \A u \in Thread : u # t => caller'[u] = caller[u]
        /\ subs = {} => caller'[t] = Idle
        /\ subs # {} => caller'[t] = [pc |-> pc,
                                      details |-> [msg |-> k, todo |-> subs \cap Suits[t]]]
    <2>1. caller' = [caller EXCEPT ![t] =
              IF subs = {} THEN Idle
              ELSE [pc |-> pc, details |-> [msg |-> k, todo |-> subs \cap Suits[t]]]]
      BY <1>2 DEF Snapshot
    <2>2. QED
      BY <1>1, <2>1
  <1>4. k.from = t
    BY <1>2
  <1>5. /\ subs = {} => ~ Busy(t)'
        /\ subs # {} => Busy(t)' /\ caller'[t].details = [msg |-> k, todo |-> subs \cap Suits[t]]
    <2>1. subs = {} => ~ Busy(t)'
      BY <1>3 DEF Busy, Idle
    <2>2. ASSUME NEW todo, caller'[t] = [pc |-> pc, details |-> [msg |-> k, todo |-> todo]]
          PROVE  Busy(t)' /\ caller'[t].details = [msg |-> k, todo |-> todo]
      BY <2>2 DEF Busy
    <2>3. QED
      BY <1>3, <2>1, <2>2
  <1>6. ASSUME NEW h, NEW x
        PROVE  Carries(h, x)' <=> Carries(h, x) \/ (x = k /\ h \in subs /\ h \in Suits[t])
    <2>1. \A u \in Thread : u # t => (CallerCarries(u, h, x)' <=> CallerCarries(u, h, x))
      BY <1>3 DEF CallerCarries, Busy
    <2>2. CallerCarries(t, h, x)' <=> x = k /\ h \in subs /\ h \in Suits[t]
      BY <1>5 DEF CallerCarries
    <2>3. ~ CallerCarries(t, h, x)
      BY DEF CallerCarries
    <2>4. /\ QueueCarries(h, x)' <=> QueueCarries(h, x)
          /\ WorkerCarries(h, x)' <=> WorkerCarries(h, x)
      BY <1>1 DEF QueueCarries, WorkerCarries
    <2>5. QED
      BY <2>1, <2>2, <2>3, <2>4 DEF Carries
  <1>7. ASSUME NEW h \in Handler
        PROVE  Pending(h)' = IF h \in subs /\ Takes(k, h) THEN Pending(h) \cup {k} ELSE Pending(h)
    <2>1. \A x : x \in Pending(h)' <=> \/ x \in Pending(h)
                                       \/ x = k /\ h \in subs /\ Takes(k, h)
      BY <1>4, <1>6, PendingCarried, PendingCarriedThen DEF Takes, Ignored
    <2>2. QED
      BY <2>1
  <1>8. [h \in Handler |-> Pending(h)]'
            = [h \in Handler |-> IF h \in subs /\ Takes(m, h)
                                 THEN [g \in Handler |-> Pending(g)][h] \cup {m}
                                 ELSE [g \in Handler |-> Pending(g)][h]]
    BY <1>2, <1>7
  <1>9. Departing' = Departing
    BY <1>1 DEF Departing
  <1>10. QED
    BY <1>1, <1>8, <1>9 DEF Promised!Publish

\* A step that changes nothing of what Delivery speaks of.
LEMMA Unseen ==
    ASSUME UNCHANGED <<subs, gone, leaving, sent, log>>, \A h \in Handler : SameDue(h)
    PROVE  UNCHANGED Promised!vars
  BY DEF Promised!vars, SameDue, Departing

\* t puts its snapshot into the queue.
LEMMA PushUnseen ==
    ASSUME TypeOK, NEW t \in Thread, PublishPush(t)
    PROVE  UNCHANGED Promised!vars
  <1> PICK d \in Details, n \in Nat : d = caller[t].details /\ n = Len(queue)
    BY CallerTypes, QueueTypes DEF PublishPush
  <1>1. /\ caller[t].pc = "push" /\ queue' = Append(queue, d)
        /\ caller' = [caller EXCEPT ![t] = At("notify")]
        /\ UNCHANGED <<subs, gone, leaving, sent, worker, log>>
    BY DEF PublishPush
  <1>2. /\ DOMAIN queue = 1..n
        /\ DOMAIN queue' = 1..n+1
        /\ \A i \in 1..n : queue'[i] = queue[i]
        /\ queue'[n+1] = d
    BY <1>1, QueueTypes DEF TypeOK
  <1>3. /\ \A u \in Thread : u # t => caller'[u] = caller[u]
        /\ ~ Busy(t)' /\ Busy(t)
    BY <1>1 DEF TypeOK, Busy, At
  <1>4. \A i : i \in 1..n+1 <=> i \in 1..n \/ i = n + 1
    OBVIOUS
  <1>5. ASSUME NEW h, NEW m PROVE Carries(h, m)' <=> Carries(h, m)
    <2>1. \A u \in Thread : u # t => (CallerCarries(u, h, m)' <=> CallerCarries(u, h, m))
      BY <1>3 DEF CallerCarries, Busy
    <2>2. ~ CallerCarries(t, h, m)' /\ (CallerCarries(t, h, m) <=> d.msg = m /\ h \in d.todo)
      BY <1>3 DEF CallerCarries
    <2>3. QueueCarries(h, m)' <=> QueueCarries(h, m) \/ (d.msg = m /\ h \in d.todo)
      BY <1>2, <1>4 DEF QueueCarries
    <2>4. WorkerCarries(h, m)' <=> WorkerCarries(h, m)
      BY <1>1 DEF WorkerCarries
    <2>5. QED
      BY <2>1, <2>2, <2>3, <2>4 DEF Carries
  <1>6. QED
    BY <1>1, <1>5, SameCarried, Unseen

\* The publish thread takes the first entry.
LEMMA TakeUnseen ==
    ASSUME TypeOK, Take
    PROVE  UNCHANGED Promised!vars
  <1> PICK d \in Details, n \in Nat \ {0} : d = queue[1] /\ n = Len(queue)
    BY QueueTypes DEF Take, TypeOK
  <1>1. /\ worker.pc # "run" /\ worker'.pc = "run" /\ worker'.details = d
        /\ queue' = Tail(queue) /\ queue \in Seq(Details) /\ queue # <<>>
        /\ UNCHANGED <<subs, gone, leaving, sent, caller, log>>
    BY DEF Take, TypeOK
  <1>2. /\ DOMAIN queue = 1..n
        /\ DOMAIN queue' = 1..n-1
        /\ \A i \in 1..n-1 : queue'[i] = queue[i+1]
    BY <1>1
  <1>3. ASSUME NEW h, NEW m PROVE Carries(h, m)' <=> Carries(h, m)
    <2>1. \A u \in Thread : CallerCarries(u, h, m)' <=> CallerCarries(u, h, m)
      BY <1>1 DEF CallerCarries, Busy
    <2>2. ~ WorkerCarries(h, m) /\ (WorkerCarries(h, m)' <=> d.msg = m /\ h \in d.todo)
      BY <1>1 DEF WorkerCarries
    <2>3. QueueCarries(h, m) <=> QueueCarries(h, m)' \/ (d.msg = m /\ h \in d.todo)
      <3>1. ASSUME NEW i \in 1..n-1 PROVE i + 1 \in 1..n
        OBVIOUS
      <3>2. ASSUME NEW i \in 1..n, i # 1 PROVE i - 1 \in 1..n-1 /\ queue'[i-1] = queue[i]
        <4>1. i - 1 \in 1..n-1 /\ (i - 1) + 1 = i
          BY <3>2
        <4>2. QED
          BY <1>2, <4>1
      <3>3. QueueCarries(h, m)' => QueueCarries(h, m)
        BY <1>2, <3>1 DEF QueueCarries
      <3>4. d.msg = m /\ h \in d.todo => QueueCarries(h, m)
        BY <1>2 DEF QueueCarries
      <3>5. ASSUME NEW i \in 1..n, queue[i].msg = m, h \in queue[i].todo
            PROVE  QueueCarries(h, m)' \/ (d.msg = m /\ h \in d.todo)
        BY <1>2, <3>2, <3>5 DEF QueueCarries
      <3>6. QED
        BY <1>2, <3>3, <3>4, <3>5 DEF QueueCarries
    <2>4. QED
      BY <2>1, <2>2, <2>3 DEF Carries
  <1>4. QED
    BY <1>1, <1>3, SameCarried, Unseen

\* A call or an entry that is through with its handlers carries nothing.
LEMMA ReturnUnseen ==
    ASSUME TypeOK, NEW t \in Thread, RawReturn(t) \/ RecvReturn(t) \/ PublishNotify(t)
    PROVE  UNCHANGED Promised!vars
  <1>1. /\ caller' = [caller EXCEPT ![t] = Idle] /\ caller \in [Thread -> CallerState]
        /\ ~ Busy(t) \/ caller[t].details.todo = {}
        /\ UNCHANGED <<subs, gone, leaving, sent, queue, log>>
    BY DEF RawReturn, RecvReturn, PublishNotify, TypeOK, Busy
  <1>2. worker' = worker \/ (worker'.pc # "run" /\ worker.pc # "run")
    BY DEF RawReturn, RecvReturn, PublishNotify, Notified, At
  <1>3. ~ Busy(t)' /\ \A u \in Thread : u # t => caller'[u] = caller[u]
    BY <1>1 DEF Busy, Idle
  <1>4. ASSUME NEW h, NEW m PROVE Carries(h, m)' <=> Carries(h, m)
    <2>1. \A u \in Thread : CallerCarries(u, h, m)' <=> CallerCarries(u, h, m)
      BY <1>1, <1>3 DEF CallerCarries, Busy
    <2>2. /\ WorkerCarries(h, m)' <=> WorkerCarries(h, m)
          /\ QueueCarries(h, m)' <=> QueueCarries(h, m)
      BY <1>1, <1>2 DEF WorkerCarries, QueueCarries
    <2>3. QED
      BY <2>1, <2>2 DEF Carries
  <1>5. QED
    BY <1>1, <1>4, SameCarried, Unseen

LEMMA OthersUnseen ==
    ASSUME \/ CallbacksDone \/ FindNothing \/ Block \/ WaitTimeout
           \/ (\E t \in Remote : ReceptionPolls(t)) \/ UNCHANGED vars
    PROVE  UNCHANGED Promised!vars
  <1>1. UNCHANGED <<subs, gone, leaving, sent, queue, caller, log>>
    BY DEF CallbacksDone, FindNothing, Block, WaitTimeout,
       ReceptionPolls, vars
  <1>2. \A h, m : WorkerCarries(h, m)' <=> WorkerCarries(h, m)
    BY DEF CallbacksDone, FindNothing, Block, WaitTimeout,
       ReceptionPolls, vars, Notified, At, WorkerCarries
  <1>3. \A h, m : Carries(h, m)' <=> Carries(h, m)
    BY <1>1, <1>2 DEF Carries, CallerCarries, QueueCarries, Busy
  <1>4. QED
    BY <1>1, <1>3, SameCarried, Unseen

LEMMA SubscribeImplemented ==
    ASSUME NEW h \in Handler, Subscribe(h)
    PROVE  Promised!Subscribe(h)
  <1>1. UNCHANGED <<gone, leaving, sent, queue, caller, worker, log>>
    BY DEF Subscribe
  <1>2. \A g, m : Carries(g, m)' <=> Carries(g, m)
    BY <1>1 DEF Carries, CallerCarries, QueueCarries, WorkerCarries, Busy
  <1>3. \A g \in Handler : SameDue(g)
    BY <1>2, SameCarried
  <1>4. QED
    BY <1>1, <1>3 DEF Subscribe, Promised!Subscribe, SameDue, Departing

\* Stripping touches the handlers it is for alone.
LEMMA StripImplemented ==
    ASSUME TypeOK, NEW n \in NodeId, UnsubscribeStrip(n)
    PROVE  \E H \in (SUBSET Handler) \ {{}} : Promised!Leave(H)
  <1> PICK form \in {"one", "all"}, H \in (SUBSET OfNode(n)) \ {{}} :
            /\ queue' = Strip(H)
            /\ leaving' = [leaving EXCEPT ![n] = [form |-> form, handlers |-> H]]
    BY DEF UnsubscribeStrip
  <1>1. /\ leaving[n] = Nobody /\ leaving \in [NodeId -> Departure]
        /\ UNCHANGED <<subs, gone, sent, caller, worker, log>>
    BY DEF UnsubscribeStrip, TypeOK
  <1>2. H \in (SUBSET Handler) \ {{}}
    BY DEF OfNode, TypeOK
  <1>3. Departing' = Departing \cup H
    <2>1. leaving[n].handlers = {} /\ leaving'[n].handlers = H
      BY <1>1 DEF Nobody
    <2>2. \A k \in NodeId : k # n => leaving'[k].handlers = leaving[k].handlers
      BY <1>1
    <2>3. QED
      BY <2>1, <2>2 DEF Departing
  <1>4. /\ DOMAIN queue' = DOMAIN queue
        /\ \A i \in DOMAIN queue :
               queue'[i] = [msg |-> queue[i].msg, todo |-> queue[i].todo \ (H \cap SameName)]
    BY StripTypes, Zenon
  <1>5. \A i \in DOMAIN queue :
            queue'[i].msg = queue[i].msg /\ queue'[i].todo = queue[i].todo \ (H \cap SameName)
    BY <1>4
  <1>6. ASSUME NEW h, NEW m
        PROVE  /\ Carries(h, m)' => Carries(h, m)
               /\ h \notin H => (Carries(h, m)' <=> Carries(h, m))
    <2>1. /\ QueueCarries(h, m)' => QueueCarries(h, m)
          /\ h \notin H => (QueueCarries(h, m)' <=> QueueCarries(h, m))
      BY <1>4, <1>5 DEF QueueCarries
    <2>2. /\ \A u \in Thread : CallerCarries(u, h, m)' <=> CallerCarries(u, h, m)
          /\ WorkerCarries(h, m)' <=> WorkerCarries(h, m)
      BY <1>1 DEF CallerCarries, WorkerCarries, Busy
    <2>3. QED
      BY <2>1, <2>2 DEF Carries
  <1>7. \A h \in Handler : Pending(h)' \subseteq Pending(h)
    BY <1>6, PendingCarried, PendingCarriedThen DEF Ignored
  <1>8. \A h \in Handler \ H : SameDue(h)
    BY <1>6, SameCarried
  <1>9. Promised!Leave(H)
    BY <1>1, <1>3, <1>7, <1>8 DEF Promised!Leave, SameDue
  <1>10. QED
    BY <1>2, <1>9

LEMMA RemoveImplemented ==
    ASSUME Remapped = {}, TypeOK, Leavers, NEW n \in NodeId, UnsubscribeRemove(n)
    PROVE  \E H \in (SUBSET Handler) \ {{}} : Promised!Return(H)
  <1>1. /\ subs' = subs \ Leaving(n) /\ gone' = gone \cup Leaving(n)
        /\ leaving' = [leaving EXCEPT ![n] = Nobody] /\ leaving[n] # Nobody
        /\ UNCHANGED <<sent, queue, caller, worker, log>>
        /\ leaving \in [NodeId -> Departure]
    BY DEF UnsubscribeRemove, TypeOK
  <1>2. Leaving(n) \in (SUBSET Handler) \ {{}}
    <2>1. Leaving(n) \subseteq Handler
      BY LeavingTypes DEF OfNode, TypeOK
    <2>2. Leaving(n) # {}
      BY <1>1, LeavingTypes DEF Leavers
    <2>3. QED
      BY <2>1, <2>2
  <1>3. Departing' = Departing \ Leaving(n)
    <2>1. leaving'[n].handlers = {} /\ \A k \in NodeId : k # n => leaving'[k] = leaving[k]
      BY <1>1 DEF Nobody
    <2>2. \A k \in NodeId : k # n => Leaving(n) \cap leaving[k].handlers = {}
      BY LeavingTypes DEF Leavers, OfNode
    <2>3. leaving[n].handlers \subseteq Leaving(n)
      BY LeavingTypes
    <2>4. QED
      BY <2>1, <2>2, <2>3 DEF Departing
  <1>4. \A g, m : Carries(g, m)' <=> Carries(g, m)
    BY <1>1 DEF Carries, CallerCarries, QueueCarries, WorkerCarries, Busy
  <1>5. \A g \in Handler : SameDue(g)
    BY <1>4, SameCarried
  <1>6. Promised!Return(Leaving(n))
    BY <1>1, <1>3, <1>5 DEF Promised!Return, SameDue
  <1>7. QED
    BY <1>2, <1>6

\* A callback that takes m for h: nobody has it for h after that, and nobody had an
\* earlier one.
LEMMA DeliverImplemented ==
    ASSUME NEW h \in Handler, NEW m, m \in Pending(h),
           \A x : Carries(h, x) => ~ Promised!Before(x, m),
           \A g, x : Carries(g, x)' <=> Carries(g, x) /\ ~ (g = h /\ x = m),
           log' = [log EXCEPT ![h] = Append(@, m)],
           UNCHANGED <<subs, gone, leaving, sent>>
    PROVE  Promised!Deliver(h)
  <1> DEFINE due == [g \in Handler |-> Pending(g)]
  <1>1. \A g \in Handler : g # h => SameDue(g)
    BY SameCarried
  <1>2. Pending(h)' = Pending(h) \ {m}
    BY PendingCarried, PendingCarriedThen DEF Ignored
  <1>3. due' = [due EXCEPT ![h] = @ \ {m}]
    BY <1>1, <1>2 DEF SameDue
  <1>4. m \in due[h] /\ \A earlier \in due[h] : ~ Promised!Before(earlier, m)
    BY PendingCarried
  <1>5. Departing' = Departing
    BY DEF Departing
  <1>6. QED
    BY <1>3, <1>4, <1>5 DEF Promised!Deliver

\* In the caller of PublishRaw, or the reception thread.
LEMMA RawCallbackImplemented ==
    ASSUME TypeOK, Order, NEW t \in Thread, RawCallback(t)
    PROVE  \E h \in Handler : Promised!Deliver(h)
  <1>1. caller[t].pc = "raw" /\ caller[t].details \in Details
        /\ UNCHANGED <<subs, gone, leaving, sent, queue, worker>>
    BY RawCallbackEffect DEF RawCallback
  <1>2. PICK d \in Details, m \in Message, h \in Handler :
            /\ d = caller[t].details /\ m = d.msg /\ h \in d.todo
            /\ log' = [log EXCEPT ![h] = Append(@, m)]
            /\ caller' = [caller EXCEPT ![t] = [pc |-> "raw", details |-> Less(d, h)]]
    BY RawCallbackEffect, DetailsTypes
  <1>3. m.from = t /\ m.raw
    BY <1>1, <1>2 DEF Order, CallerLast, Busy
  <1>4. \A u \in Thread : u # t => caller'[u] = caller[u]
    BY <1>2 DEF TypeOK
  <1>5. caller'[t] = [pc |-> "raw", details |-> [msg |-> m, todo |-> d.todo \ {h}]]
    BY <1>2 DEF TypeOK, Less
  <1>6. \A u \in Thread : \A g, x : u # t /\ CallerCarries(u, g, x) => x.from = u
    BY DEF CallerCarries, Order, CallerLast
  <1>7. \A g, x : QueueCarries(g, x) \/ WorkerCarries(g, x) => ~ x.raw
    BY DEF QueueCarries, WorkerCarries, Order, QueueBehind, WorkerFirst, Behind
  <1>8. \A g, x : CallerCarries(t, g, x) <=> x = m /\ g \in d.todo
    BY <1>1, <1>2 DEF CallerCarries, Busy
  <1>9. \A g, x : Carries(g, x)' <=> Carries(g, x) /\ ~ (g = h /\ x = m)
    <2> TAKE g, x
    <2>1. \A u \in Thread : u # t => (CallerCarries(u, g, x)' <=> CallerCarries(u, g, x))
      BY <1>4 DEF CallerCarries, Busy
    <2>2. CallerCarries(t, g, x)' <=> CallerCarries(t, g, x) /\ ~ (g = h /\ x = m)
      BY <1>5, <1>8 DEF CallerCarries, Busy
    <2>3. \A u \in Thread : u # t => ~ CallerCarries(u, g, m)
      BY <1>3, <1>6
    <2>4. /\ QueueCarries(g, x)' <=> QueueCarries(g, x)
          /\ WorkerCarries(g, x)' <=> WorkerCarries(g, x)
      BY <1>1 DEF QueueCarries, WorkerCarries
    <2>5. ~ QueueCarries(g, m) /\ ~ WorkerCarries(g, m)
      BY <1>3, <1>7
    <2>6. QED
      BY <2>1, <2>2, <2>3, <2>4, <2>5 DEF Carries
  <1>10. \A x : Carries(h, x) => ~ Promised!Before(x, m)
    <2> SUFFICES ASSUME NEW x, Carries(h, x), Promised!Before(x, m) PROVE FALSE
      OBVIOUS
    <2>1. x.from = t /\ x.raw = m.raw /\ x.seq < m.seq
      BY <1>3 DEF Promised!Before
    <2>2. x = m
      <3>1. ~ QueueCarries(h, x) /\ ~ WorkerCarries(h, x)
        BY <1>3, <1>7, <2>1
      <3>2. PICK u \in Thread : CallerCarries(u, h, x)
        BY <3>1 DEF Carries
      <3>3. u = t
        BY <1>6, <2>1, <3>2
      <3>4. QED
        BY <1>8, <3>2, <3>3
    <2>3. m.seq \in Nat
      BY DEF Message
    <2>4. QED
      BY <2>1, <2>2, <2>3
  <1>11. m \in Pending(h)
    BY <1>2, <1>3, <1>8, PendingCarried DEF Carries, Ignored
  <1>12. QED
    BY <1>1, <1>2, <1>9, <1>10, <1>11, DeliverImplemented

\* In the publish thread: a handler that ignores the message had nothing due.
LEMMA CallbackImplemented ==
    ASSUME TypeOK, Order, Callback
    PROVE  UNCHANGED Promised!vars \/ \E h \in Handler : Promised!Deliver(h)
  <1>1. worker.pc = "run" /\ worker.details \in Details
        /\ UNCHANGED <<subs, gone, leaving, sent, queue, caller>>
    BY CallbackEffect DEF Callback
  <1>2. PICK d \in Details, m \in Message, h \in Handler :
            /\ d = worker.details /\ m = d.msg /\ h \in d.todo
            /\ log' = IF Ignored(m, h) THEN log ELSE [log EXCEPT ![h] = Append(@, m)]
            /\ worker' = [pc |-> "run", details |-> Less(d, h)]
    BY CallbackEffect, DetailsTypes
  <1>3. /\ m.from \in Thread /\ m.seq \in Nat
        /\ Behind(m) /\ InFront(m)
    BY <1>1, <1>2 DEF Order, WorkerFirst, Message
  <1>4. \A g, x : QueueCarries(g, x) /\ x.from = m.from => m.seq < x.seq
    BY <1>3 DEF QueueCarries, InFront
  <1>5. \A u \in Thread : \A g, x : CallerCarries(u, g, x) /\ x.from = m.from => m.seq < x.seq
    BY <1>3 DEF CallerCarries, Order, CallerLast, Behind
  <1>6. \A g, x : WorkerCarries(g, x) <=> x = m /\ g \in d.todo
    BY <1>1, <1>2 DEF WorkerCarries
  <1>7. ~ (m.seq < m.seq)
    BY <1>3
  <1>8. \A g, x : Carries(g, x)' <=> Carries(g, x) /\ ~ (g = h /\ x = m)
    <2> TAKE g, x
    <2>1. /\ \A u \in Thread : CallerCarries(u, g, x)' <=> CallerCarries(u, g, x)
          /\ QueueCarries(g, x)' <=> QueueCarries(g, x)
      BY <1>1 DEF CallerCarries, QueueCarries, Busy
    <2>2. WorkerCarries(g, x)' <=> WorkerCarries(g, x) /\ ~ (g = h /\ x = m)
      <3>1. worker'.pc = "run" /\ worker'.details = [msg |-> m, todo |-> d.todo \ {h}]
        BY <1>2 DEF Less
      <3>2. QED
        BY <1>6, <3>1 DEF WorkerCarries
    <2>3. ~ QueueCarries(g, m) /\ \A u \in Thread : ~ CallerCarries(u, g, m)
      BY <1>4, <1>5, <1>7
    <2>4. QED
      BY <2>1, <2>2, <2>3 DEF Carries
  <1>9. CASE Ignored(m, h)
    <2>1. log' = log
      BY <1>2, <1>9
    <2>2. ASSUME NEW g \in Handler PROVE SameDue(g)
      <3>1. \A x : x \in Pending(g)' <=> x \in Pending(g)
        BY <1>8, <1>9, PendingCarried, PendingCarriedThen DEF Ignored
      <3>2. QED
        BY <3>1 DEF SameDue
    <2>3. QED
      BY <1>1, <2>1, <2>2, Unseen
  <1>10. CASE ~ Ignored(m, h)
    <2>1. \A x : Carries(h, x) => ~ Promised!Before(x, m)
      <3> SUFFICES ASSUME NEW x, Carries(h, x), Promised!Before(x, m) PROVE FALSE
        OBVIOUS
      <3>1. x.from = m.from /\ x.seq < m.seq
        BY DEF Promised!Before
      <3>2. m.seq < x.seq \/ x = m
        BY <1>4, <1>5, <1>6, <3>1 DEF Carries
      <3>3. x # m
        BY <1>7, <3>1
      <3>4. x.seq \in Nat
        <4>1. QueueCarries(h, x) => x.seq \in Nat
          BY QueueTypes DEF QueueCarries
        <4>2. \A u \in Thread : CallerCarries(u, h, x) => x.seq \in Nat
          BY CallerTypes, DetailsTypes DEF CallerCarries, Busy
        <4>3. QED
          BY <1>6, <3>3, <4>1, <4>2 DEF Carries
      <3>5. QED
        BY <1>3, <3>1, <3>2, <3>3, <3>4
    <2>2. m \in Pending(h)
      BY <1>2, <1>6, <1>10, PendingCarried DEF Carries
    <2>3. QED
      BY <1>1, <1>2, <1>8, <1>10, <2>1, <2>2, DeliverImplemented
  <1>11. QED
    BY <1>9, <1>10

LEMMA StepImplemented ==
    ASSUME Remapped = {}, TypeOK, Reception, Order, Leavers, [Next]_vars
    PROVE  [Promised!Next]_(Promised!vars)
  <1>1. ASSUME NEW t \in Thread, Publish(t) \/ PublishRaw(t) PROVE Promised!Next
    <2>1. PICK raw \in BOOLEAN : Snapshot(t, raw)
      BY <1>1 DEF Publish, PublishRaw
    <2>2. ~ Busy(t)
      <3>1. caller[t] = Idle
        BY <1>1 DEF Publish, PublishRaw, MayPublish
      <3>2. QED
        BY <3>1 DEF Busy, Idle
    <2>3. QED
      BY <2>1, <2>2, PublishImplemented DEF Promised!Next
  <1>2. ASSUME NEW t \in Remote, RecvMsgUpdate(t) PROVE Promised!Next
    <2>1. receiver.pc = "polled" /\ Snapshot(t, TRUE) /\ t \in Thread
      BY <1>2, SubscriptionAssumption DEF RecvMsgUpdate
    <2>2. ~ Busy(t)
      BY <2>1 DEF Reception, Busy
    <2>3. QED
      BY <2>1, <2>2, PublishImplemented DEF Promised!Next
  <1>3. ASSUME NEW t \in Thread, RawCallback(t) PROVE Promised!Next
    BY <1>3, RawCallbackImplemented DEF Promised!Next
  <1>4. CASE Callback
    BY <1>4, CallbackImplemented DEF Promised!Next
  <1>5. ASSUME NEW n \in NodeId, UnsubscribeStrip(n) PROVE Promised!Next
    BY <1>5, StripImplemented DEF Promised!Next
  <1>6. ASSUME NEW n \in NodeId, UnsubscribeRemove(n) PROVE Promised!Next
    BY <1>6, RemoveImplemented DEF Promised!Next
  <1>7. ASSUME NEW h \in Handler, Subscribe(h) PROVE Promised!Next
    BY <1>7, SubscribeImplemented DEF Promised!Next
  <1>8. ASSUME NEW t \in Thread, PublishPush(t) \/ PublishNotify(t) \/ RawReturn(t) \/ RecvReturn(t)
        PROVE  UNCHANGED Promised!vars
    BY <1>8, PushUnseen, ReturnUnseen
  <1>9. CASE \/ Take \/ CallbacksDone \/ FindNothing \/ Block \/ WaitTimeout
             \/ (\E t \in Remote : ReceptionPolls(t)) \/ UNCHANGED vars
    BY <1>9, TakeUnseen, OthersUnseen
  <1>10. \A t \in Remote : t \in Thread
    BY SubscriptionAssumption
  <1>11. QED
    BY <1>1, <1>2, <1>3, <1>4, <1>5, <1>6, <1>7, <1>8, <1>9, <1>10
       DEF Next, ReceiverRuns, WorkerRuns, CallerContinues

\* The queue, the publish thread and the reception thread implement Delivery when
\* no name is remapped: each message is due to exactly the handlers registered
\* when it was published, is given to each of them once and in the order of the
\* publisher's calls, and is dropped only by the handler's own Unsubscribe.
THEOREM DeliveryImplemented == ASSUME Remapped = {} PROVE Spec => ImplementsDelivery
  <1>1. Init => Promised!Init
    <2> SUFFICES ASSUME Init PROVE Promised!Init
      OBVIOUS
    <2>1. \A h : Pending(h) = {}
      BY DEF Init, Pending, InFlight, Idle, At
    <2>2. Departing = {}
      BY DEF Init, Departing, Nobody
    <2>3. QED
      BY <2>1, <2>2 DEF Init, Promised!Init
  <1>2. Init => TypeOK /\ Reception /\ Order /\ Leavers
    BY TypeInit, ReceptionInit, OrderInit, LeaversInit
  <1>3. TypeOK /\ Reception /\ Order /\ Leavers /\ [Next]_vars
            => (TypeOK /\ Reception /\ Order /\ Leavers)'
    BY TypeNext, ReceptionNext, OrderNext, LeaversNext
  <1>4. TypeOK /\ Reception /\ Order /\ Leavers /\ [Next]_vars
            => [Promised!Next]_(Promised!vars)
    BY StepImplemented
  <1>5. QED
    BY <1>1, <1>2, <1>3, <1>4, PTL DEF Spec, ImplementsDelivery, Promised!Spec

\* Once an Unsubscribe has returned, nothing new is taken for its handlers, when no
\* name is remapped.
THEOREM NothingAfterUnsubscribe == ASSUME Remapped = {} PROVE Spec => GoneTakesNothing
  <1>1. TypeOK /\ Reception /\ Order /\ Leavers /\ [Next]_vars
            => [\A h \in gone : Pending(h)' \subseteq Pending(h)]_vars
    <2> SUFFICES ASSUME TypeOK, Reception, Order, Leavers, [Next]_vars, NEW h \in gone
                 PROVE  Pending(h)' \subseteq Pending(h)
      OBVIOUS
    <2>1. h \in Handler /\ h \notin subs
      BY DEF TypeOK, Leavers
    <2> DEFINE due == [g \in Handler |-> Pending(g)]
    <2>2. due[h] = Pending(h) /\ due'[h] = Pending(h)'
      BY <2>1
    <2>3. [Promised!Next]_(Promised!vars)
      BY StepImplemented
    <2>4. due'[h] \subseteq due[h]
      <3>1. CASE UNCHANGED Promised!vars
        BY <3>1 DEF Promised!vars
      <3>2. ASSUME NEW g \in Handler, Promised!Subscribe(g) PROVE due'[h] \subseteq due[h]
        BY <3>2 DEF Promised!Subscribe
      <3>3. ASSUME NEW g \in Handler, Promised!Deliver(g) PROVE due'[h] \subseteq due[h]
        <4>1. PICK m \in due[g] : due' = [due EXCEPT ![g] = @ \ {m}]
          BY <3>3 DEF Promised!Deliver
        <4>2. QED
          BY <2>1, <4>1
      <3>4. ASSUME NEW t \in Thread, NEW raw \in BOOLEAN, Promised!Publish(t, raw)
            PROVE  due'[h] \subseteq due[h]
        BY <2>1, <3>4 DEF Promised!Publish
      <3>5. ASSUME NEW H, Promised!Leave(H) \/ Promised!Return(H)
            PROVE  due'[h] \subseteq due[h]
        BY <2>1, <3>5 DEF Promised!Leave, Promised!Return
      <3>6. QED
        BY <2>3, <3>1, <3>2, <3>3, <3>4, <3>5 DEF Promised!Next
    <2>5. QED
      BY <2>2, <2>4
  <1>2. Init => TypeOK /\ Reception /\ Order /\ Leavers
    BY TypeInit, ReceptionInit, OrderInit, LeaversInit
  <1>3. TypeOK /\ Reception /\ Order /\ Leavers /\ [Next]_vars
            => (TypeOK /\ Reception /\ Order /\ Leavers)'
    BY TypeNext, ReceptionNext, OrderNext, LeaversNext
  <1>4. QED
    BY <1>1, <1>2, <1>3, PTL DEF Spec, GoneTakesNothing

=============================================================================
