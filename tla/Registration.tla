---------------------------- MODULE Registration ----------------------------
(***************************************************************************)
(* How a publishing process learns that another process wants its messages *)
(* (src/aerozen/node_shared.cpp): a subscriber that hears of a publisher   *)
(* connects its ZeroMQ socket to it, sets the filter of the topic, and     *)
(* answers with NEW_CONNECTION; Unsubscribe answers with END_CONNECTION.   *)
(* Node::Publisher::Publish sends a message out of the process only while  *)
(* remoteSubscribers names a subscriber of its type.                       *)
(*                                                                         *)
(* Discovery is reduced to what it does for this: "known" is the part of   *)
(* Discovery::info about other processes and "adv" the part about this one;*)
(* module Discovery has the rest.  There is one topic: topics share the    *)
(* connections, which are never closed, and nothing else.                  *)
(*                                                                         *)
(* Node::Subscribe, Advertise and Unadvertise hold NodeShared::mutex from  *)
(* their first to their last effect, and so do the callbacks OnNew...,     *)
(* except that OnNewConnection and Unsubscribe send without it.            *)
(*                                                                         *)
(* NodeShared owns its Discovery and is never deleted, so ~Discovery does  *)
(* not run and a process that ends says no BYE, however it ends.           *)
(***************************************************************************)
EXTENDS Naturals, Sequences, FiniteSets, SequencesExt, TopicStorage

CONSTANTS
    Proc,      \* the process UUIDs
    User,      \* the user threads of a process
    PubNodes,  \* the nodes that advertise, in every process
    SubNodes,  \* the nodes that subscribe, in every process
    Topic,     \* the one topic, a singleton
    Type,      \* the message types
    Generic,   \* kGenericMessageType
    SubTypes,  \* the types the subscribers ask for
    Pubs,      \* bound: the processes that advertise
    Subs,      \* bound: the processes that subscribe
    MaxFaults, \* bound: datagrams lost and false suspicions
    MaxEnds,   \* bound: processes that end
    MaxOps,    \* bound: calls of the users
    MaxFilter  \* bound: instances of the filter

ASSUME NameAssumption ==
    /\ Cardinality(Topic) = 1
    /\ SubTypes \subseteq Type \cup {Generic}
    /\ Pubs \subseteq Proc
    /\ Subs \subseteq Proc

ASSUME BoundAssumption ==
    /\ MaxFaults \in Nat /\ MaxEnds \in Nat /\ MaxOps \in Nat /\ MaxFilter \in Nat

VARIABLES
    state,       \* state[p]: "up", then "ended"
    adv,         \* adv[p]: p's own publishers
    known,       \* known[p]: the publishers of other processes p knows
    local,       \* local[p]: localSubscribers, as pairs of a node and a type
    connections, \* connections[p]: the publishers p was connected to
    linked,      \* linked[p]: the processes p's SUB socket is connected to
    filter,      \* filter[p]: instances of the topic's filter at the socket
    remote,      \* remote[p]: remoteSubscribers
    recv,        \* recv[p]: where the reception thread is
    user,        \* user[p][u]: where a user thread is
    chan,        \* chan[p][q]: the datagrams from p to q, in order
    overtaken,   \* overtaken[p]: the nodes of which an END_CONNECTION has gone out
                 \* while they were subscribed, and that have not subscribed since
    lost,        \* whether a datagram was lost
    faults,      \* how many datagrams were lost or processes suspected
    ops          \* how many calls were made

vars == <<state, adv, known, local, connections, linked, filter, remote,
          recv, user, chan, overtaken, lost, faults, ops>>

-----------------------------------------------------------------------------
TheTopic == CHOOSE t \in Topic : TRUE

Handler == [node : SubNodes, type : SubTypes]

\* A publisher, or a remote subscriber: those carry the process and node of
\* the subscriber with the address and message type of the publisher.
Entry(p, addr, n, type) ==
    [topic |-> TheTopic, pUuid |-> p, addr |-> addr, nUuid |-> n, type |-> type]

Entries(nodes) == [topic : Topic, pUuid : Proc, addr : Proc, nUuid : nodes, type : Type]

NoCtrl == "everybody"

Advertised(pub) == [kind |-> "ADVERTISE", pub |-> pub]
Unadvertised(pub) == [kind |-> "UNADVERTISE", pub |-> pub]
Wanted == [kind |-> "SUBSCRIBE"]
NewConnection(sub, ctrl) == [kind |-> "NEW_CONNECTION", sub |-> sub, ctrl |-> ctrl]
EndConnection(n, ctrl) == [kind |-> "END_CONNECTION", node |-> n, ctrl |-> ctrl]

Datagram ==
         [kind : {"ADVERTISE", "UNADVERTISE"}, pub : Entries(PubNodes)]
    \cup [kind : {"SUBSCRIBE"}]
    \cup [kind : {"NEW_CONNECTION"}, sub : Entries(SubNodes), ctrl : Proc]
    \cup [kind : {"END_CONNECTION"}, node : SubNodes, ctrl : Proc \cup {NoCtrl}]

Idle == [pc |-> "idle"]

RecvState ==
         {Idle}
    \cup [pc : {"connect", "drop"}, pub : Entries(PubNodes)] \* connectCb to run, entry to delete
    \cup [pc : {"register"}, regs : SUBSET Entries(SubNodes), ctrl : Proc]

UserState ==
         {Idle}
    \cup [pc : {"unregister"}, node : SubNodes]    \* Unsubscribe has let go of
    \cup [pc : {"broadcast"}, node : SubNodes]     \* the mutex

Up(p) == state[p] = "up"

\* The datagrams of the sequence msgs, sent by p to every running process.
Sent(p, msgs) ==
    [chan EXCEPT ![p] = [q \in Proc |->
        IF q # p /\ Up(q) THEN chan[p][q] \o msgs ELSE chan[p][q]]]

\* A handler takes messages of this type.
Takes(h, type) == h.type \in {type, Generic}

\* Slip: the generic subscribers are forgotten.
NodeUuidsExact(handlers, type) == { h.node : h \in { g \in handlers : g.type = type } }

\* HandlerWrapper::NodeUuids
NodeUuids(handlers, type) == { h.node : h \in { g \in handlers : Takes(g, type) } }

\* What OnNewConnection has p register at the process of pub.
Registrations(p, handlers, pub) ==
    { Entry(p, pub.addr, n, pub.type) : n \in NodeUuids(handlers, pub.type) }

\* TopicStorage::HasTopic(topic, type)
HasTopicOfType(subs, type) == \E s \in subs : s.type \in {type, Generic}

\* AddPublisher for each of a set, of which at most one has a node's key.
AddAll(s, pubs) == s \cup { pub \in pubs : CanAdd(s, pub) }

-----------------------------------------------------------------------------
(* The calls of the users.                                                 *)

Call(p, u) ==
    /\ Up(p)
    /\ user[p][u] = Idle
    /\ ops < MaxOps
    /\ ops' = ops + 1

\* Node::Advertise: a node advertises a topic once.
Advertise(p, u, n, type) ==
    /\ Call(p, u)
    /\ \A pub \in adv[p] : pub.nUuid # n
    /\ LET pub == Entry(p, p, n, type)
       IN  /\ adv' = [adv EXCEPT ![p] = @ \cup {pub}]
           /\ chan' = Sent(p, <<Advertised(pub)>>)
    /\ UNCHANGED <<state, known, local, connections, linked, filter, remote,
                   recv, user, overtaken, lost, faults>>

Unadvertise(p, u, pub) ==
    /\ Call(p, u)
    /\ pub \in adv[p]
    /\ adv' = [adv EXCEPT ![p] = @ \ {pub}]
    /\ chan' = Sent(p, <<Unadvertised(pub)>>)
    /\ UNCHANGED <<state, known, local, connections, linked, filter, remote,
                   recv, user, overtaken, lost, faults>>

\* The effects of OnNewConnection on p for the publishers pubs, sends excluded.
Connect(p, pubs) ==
    /\ linked' = [linked EXCEPT ![p] = @ \cup { pub.addr : pub \in pubs }]
    /\ filter' = [filter EXCEPT ![p] = @ + Cardinality(pubs)]
    /\ connections' = [connections EXCEPT ![p] = AddAll(@, pubs)]

\* Slip: Discover without the callbacks on what is known already.
SubscribeOnlyAsks(p, u, h) ==
    /\ Call(p, u)
    /\ local' = [local EXCEPT ![p] = @ \cup {h}]
    /\ chan' = Sent(p, <<Wanted>>)
    /\ UNCHANGED <<state, adv, known, connections, linked, filter, remote,
                   recv, user, overtaken, lost, faults>>

\* Node::Subscribe: the handler, then Discover, which asks the network and runs
\* OnNewConnection for each publisher known already.
Subscribe(p, u, h) ==
    /\ Call(p, u)
    /\ filter[p] + Cardinality(known[p]) <= MaxFilter
    /\ local' = [local EXCEPT ![p] = @ \cup {h}]
    /\ Connect(p, known[p])
    /\ LET news == UNION { { NewConnection(sub, pub.pUuid) :
                                sub \in Registrations(p, local'[p], pub) } :
                           pub \in known[p] }
       IN  chan' = Sent(p, <<Wanted>> \o SetToSeq(news))
    /\ overtaken' = [overtaken EXCEPT ![p] = @ \ {h.node}]
    /\ UNCHANGED <<state, adv, known, remote, recv, user, lost, faults>>

\* NodeShared::Unsubscribe under the mutex, for some or all handlers of a node.
\* Only the last one of the node is told to the publishers, and only the last
\* one of the process removes the filter, or rather one instance of it.
Unsubscribe(p, u, n) ==
    /\ Call(p, u)
    /\ \E H \in SUBSET { h \in local[p] : h.node = n } :
          /\ H # {}
          /\ local' = [local EXCEPT ![p] = @ \ H]
    /\ IF \E h \in local'[p] : h.node = n
       THEN UNCHANGED <<filter, user>>
       ELSE /\ filter' = [filter EXCEPT ![p] =
                             IF local'[p] = {} /\ @ > 0 THEN @ - 1 ELSE @]
            /\ user' = [user EXCEPT ![p][u] = [pc |-> "unregister", node |-> n]]
    /\ UNCHANGED <<state, adv, known, connections, linked, remote, recv, chan,
                   overtaken, lost, faults>>

\* Another thread has subscribed the node before the END_CONNECTION goes out.
Overtaken(p, n) ==
    IF \E h \in local[p] : h.node = n
    THEN [overtaken EXCEPT ![p] = @ \cup {n}]
    ELSE overtaken

\* ... and without it: END_CONNECTION to the processes known to publish ...
Unregister(p, u) ==
    /\ Up(p)
    /\ user[p][u].pc = "unregister"
    /\ LET n == user[p][u].node
           procs == { pub.pUuid : pub \in known[p] \cup adv[p] }
       IN  /\ chan' = Sent(p, SetToSeq({ EndConnection(n, q) : q \in procs }))
           /\ user' = [user EXCEPT ![p][u] = [pc |-> "broadcast", node |-> n]]
           /\ overtaken' = Overtaken(p, n)
    /\ UNCHANGED <<state, adv, known, local, connections, linked, filter,
                   remote, recv, lost, faults, ops>>

\* ... and to everybody, with an empty process.
Broadcast(p, u) ==
    /\ Up(p)
    /\ user[p][u].pc = "broadcast"
    /\ chan' = Sent(p, <<EndConnection(user[p][u].node, NoCtrl)>>)
    /\ user' = [user EXCEPT ![p][u] = Idle]
    /\ overtaken' = Overtaken(p, user[p][u].node)
    /\ UNCHANGED <<state, adv, known, local, connections, linked, filter,
                   remote, recv, lost, faults, ops>>

-----------------------------------------------------------------------------
(* The reception thread: one datagram from q.                              *)

\* The head of the channel is consumed; msgs are sent.
Consume(p, q, msgs) ==
    chan' = [[chan EXCEPT ![q][p] = Tail(@)] EXCEPT ![p] =
                [r \in Proc |-> IF r # p /\ Up(r) THEN chan[p][r] \o msgs
                                                  ELSE chan[p][r]]]

\* A new publisher is stored; its callback comes next.
ReceiveAdvertise(p, q, m) ==
    /\ m.kind = "ADVERTISE"
    /\ IF CanAdd(known[p], m.pub)
       THEN /\ known' = [known EXCEPT ![p] = AddPublisher(@, m.pub)]
            /\ recv' = [recv EXCEPT ![p] = [pc |-> "connect", pub |-> m.pub]]
       ELSE UNCHANGED <<known, recv>>
    /\ Consume(p, q, <<>>)
    /\ UNCHANGED <<connections, remote>>

\* The publishers of p answer.
ReceiveSubscribe(p, q, m) ==
    /\ m.kind = "SUBSCRIBE"
    /\ Consume(p, q, SetToSeq({ Advertised(pub) : pub \in adv[p] }))
    /\ UNCHANGED <<known, recv, connections, remote>>

\* OnNewDisconnection with a topic and a node.
Disconnect(p, pub) ==
    /\ remote' = [remote EXCEPT ![p] =
                     DelPublisherByNode(@, pub.topic, pub.pUuid, pub.nUuid)]
    /\ connections' = [connections EXCEPT ![p] =
                          DelPublisherByNode(@, pub.topic, pub.pUuid, pub.nUuid)]

\* The client is told first, the entry is deleted next.
ReceiveUnadvertise(p, q, m) ==
    /\ m.kind = "UNADVERTISE"
    /\ Disconnect(p, m.pub)
    /\ recv' = [recv EXCEPT ![p] = [pc |-> "drop", pub |-> m.pub]]
    /\ Consume(p, q, <<>>)
    /\ UNCHANGED known

\* Slip: a silent process is taken for one that wants nothing.
DisconnectProcessAndSubscribers(p, q) ==
    /\ known' = [known EXCEPT ![p] = DelPublishersByProc(@, q)]
    /\ remote' = [remote EXCEPT ![p] = DelPublishersByProc(@, q)]
    /\ UNCHANGED connections

\* OnNewDisconnection with a process only, and the deletion of its entries.
\* connections has no topic "", so the callback returns before it removes
\* anything; the remote subscribers are kept on purpose.
DisconnectProcess(p, q) ==
    /\ known' = [known EXCEPT ![p] = DelPublishersByProc(@, q)]
    /\ UNCHANGED <<connections, remote>>

\* OnNewRegistration
ReceiveNewConnection(p, q, m) ==
    /\ m.kind = "NEW_CONNECTION"
    /\ remote' = IF m.ctrl # p THEN remote
                 ELSE [remote EXCEPT ![p] = AddPublisher(@, m.sub)]
    /\ Consume(p, q, <<>>)
    /\ UNCHANGED <<known, recv, connections>>

\* OnEndRegistration
ReceiveEndConnection(p, q, m) ==
    /\ m.kind = "END_CONNECTION"
    /\ remote' = IF m.ctrl \notin {p, NoCtrl} THEN remote
                 ELSE [remote EXCEPT ![p] =
                          DelPublisherByNode(@, TheTopic, q, m.node)]
    /\ Consume(p, q, <<>>)
    /\ UNCHANGED <<known, recv, connections>>

Receive(p) ==
    /\ Up(p)
    /\ recv[p] = Idle
    /\ \E q \in Proc \ {p} :
          /\ chan[q][p] # <<>>
          /\ LET m == Head(chan[q][p])
             IN  \/ ReceiveAdvertise(p, q, m)
                 \/ ReceiveSubscribe(p, q, m)
                 \/ ReceiveUnadvertise(p, q, m)
                 \/ ReceiveNewConnection(p, q, m)
                 \/ ReceiveEndConnection(p, q, m)
    /\ UNCHANGED <<state, adv, local, linked, filter, user, overtaken, lost, faults, ops>>

\* OnNewConnection under the mutex.
OnNewConnection(p) ==
    /\ Up(p)
    /\ recv[p].pc = "connect"
    /\ LET pub == recv[p].pub
       IN  IF local[p] = {}
           THEN /\ recv' = [recv EXCEPT ![p] = Idle]
                /\ UNCHANGED <<connections, linked, filter>>
           ELSE /\ filter[p] < MaxFilter
                /\ Connect(p, {pub})
                /\ recv' = [recv EXCEPT ![p] =
                       [pc |-> "register",
                        regs |-> Registrations(p, local[p], pub),
                        ctrl |-> pub.pUuid]]
    /\ UNCHANGED <<state, adv, known, local, remote, user, chan, overtaken, lost, faults, ops>>

\* ... and the NEW_CONNECTIONs without it.
Register(p) ==
    /\ Up(p)
    /\ recv[p].pc = "register"
    /\ chan' = Sent(p, SetToSeq({ NewConnection(sub, recv[p].ctrl) :
                                    sub \in recv[p].regs }))
    /\ recv' = [recv EXCEPT ![p] = Idle]
    /\ UNCHANGED <<state, adv, known, local, connections, linked, filter,
                   remote, user, overtaken, lost, faults, ops>>

\* The end of UNADVERTISE.
Drop(p) ==
    /\ Up(p)
    /\ recv[p].pc = "drop"
    /\ LET pub == recv[p].pub
       IN  known' = [known EXCEPT ![p] =
                        DelPublisherByNode(@, pub.topic, pub.pUuid, pub.nUuid)]
    /\ recv' = [recv EXCEPT ![p] = Idle]
    /\ UNCHANGED <<state, adv, local, connections, linked, filter, remote,
                   user, chan, overtaken, lost, faults, ops>>

\* UpdateHeartbeat advertises everything again.  Bound: not while a datagram of
\* the last time is on its way.
Beat(p) ==
    /\ Up(p)
    /\ recv[p] = Idle
    /\ adv[p] # {}
    /\ \A q \in Proc : \A i \in DOMAIN chan[p][q] : chan[p][q][i].kind # "ADVERTISE"
    /\ chan' = Sent(p, SetToSeq({ Advertised(pub) : pub \in adv[p] }))
    /\ UNCHANGED <<state, adv, known, local, connections, linked, filter,
                   remote, recv, user, overtaken, lost, faults, ops>>

\* UpdateActivity forgets a process that has been silent for too long: it
\* ended, or its heartbeats were lost.
Expire(p, q) ==
    /\ Up(p)
    /\ recv[p] = Idle
    /\ state[q] = "ended"
    /\ chan[q][p] = <<>>
    /\ PublishersByProc(known[p], q) # {}
    /\ DisconnectProcess(p, q)
    /\ UNCHANGED <<state, adv, local, linked, filter, recv, user, chan, overtaken, lost, faults, ops>>

Suspect(p, q) ==
    /\ Up(p)
    /\ recv[p] = Idle
    /\ Up(q)
    /\ faults < MaxFaults
    /\ faults' = faults + 1
    /\ PublishersByProc(known[p], q) # {}
    /\ DisconnectProcess(p, q)
    /\ UNCHANGED <<state, adv, local, linked, filter, recv, user, chan, overtaken, lost, ops>>

-----------------------------------------------------------------------------
(* The end of a process and the loss of a datagram.                        *)

\* A process ends or dies; what it sent last may still arrive.
End(p) ==
    /\ Up(p)
    /\ Cardinality({ q \in Proc : ~ Up(q) }) < MaxEnds
    /\ state' = [state EXCEPT ![p] = "ended"]
    /\ chan' = [q \in Proc |-> [chan[q] EXCEPT ![p] = <<>>]]
    /\ UNCHANGED <<adv, known, local, connections, linked, filter, remote,
                   recv, user, overtaken, lost, faults, ops>>

Lose(p, q) ==
    /\ faults < MaxFaults
    /\ faults' = faults + 1
    /\ lost' = TRUE
    /\ \E i \in DOMAIN chan[p][q] :
          chan' = [chan EXCEPT ![p][q] = RemoveAt(@, i)]
    /\ UNCHANGED <<state, adv, known, local, connections, linked, filter,
                   remote, recv, user, overtaken, ops>>

-----------------------------------------------------------------------------
Init ==
    /\ state = [p \in Proc |-> "up"]
    /\ adv = [p \in Proc |-> {}]
    /\ known = [p \in Proc |-> {}]
    /\ local = [p \in Proc |-> {}]
    /\ connections = [p \in Proc |-> {}]
    /\ linked = [p \in Proc |-> {}]
    /\ filter = [p \in Proc |-> 0]
    /\ remote = [p \in Proc |-> {}]
    /\ recv = [p \in Proc |-> Idle]
    /\ user = [p \in Proc |-> [u \in User |-> Idle]]
    /\ chan = [p \in Proc |-> [q \in Proc |-> <<>>]]
    /\ overtaken = [p \in Proc |-> {}]
    /\ lost = FALSE
    /\ faults = 0
    /\ ops = 0

UserContinues(p, u) == Unregister(p, u) \/ Broadcast(p, u)

RecvContinues(p) == OnNewConnection(p) \/ Register(p) \/ Drop(p)

Next ==
    \/ \E p \in Pubs : \E u \in User :
          \/ \E n \in PubNodes : \E type \in Type : Advertise(p, u, n, type)
          \/ \E pub \in adv[p] : Unadvertise(p, u, pub)
    \/ \E p \in Subs : \E u \in User :
          \/ \E h \in Handler : Subscribe(p, u, h)
          \/ \E n \in SubNodes : Unsubscribe(p, u, n)
    \/ \E p \in Proc : \E u \in User : UserContinues(p, u)
    \/ \E p \in Proc : Receive(p) \/ RecvContinues(p) \/ Beat(p)
    \/ \E p, q \in Proc : Expire(p, q) \/ Suspect(p, q) \/ Lose(p, q)
    \/ \E p \in Proc : End(p)

Spec == Init /\ [][Next]_vars

\* The reception threads run, what they have begun first, and so does a user
\* thread inside a call.
FairSpec ==
    /\ Spec
    /\ \A p \in Proc :
          /\ WF_vars(Receive(p))
          /\ WF_vars(RecvContinues(p))
          /\ WF_vars(Beat(p))
          /\ \A q \in Proc : WF_vars(Expire(p, q))
          /\ \A u \in User : WF_vars(UserContinues(p, u))

-----------------------------------------------------------------------------
(* Properties.                                                             *)

TypeOK ==
    /\ state \in [Proc -> {"up", "ended"}]
    /\ adv \in [Proc -> SUBSET Entries(PubNodes)]
    /\ known \in [Proc -> SUBSET Entries(PubNodes)]
    /\ local \in [Proc -> SUBSET Handler]
    /\ connections \in [Proc -> SUBSET Entries(PubNodes)]
    /\ linked \in [Proc -> SUBSET Proc]
    /\ filter \in [Proc -> 0..MaxFilter]
    /\ remote \in [Proc -> SUBSET Entries(SubNodes)]
    /\ recv \in [Proc -> RecvState]
    /\ user \in [Proc -> [User -> UserState]]
    /\ chan \in [Proc -> [Proc -> Seq(Datagram)]]
    /\ overtaken \in [Proc -> SUBSET SubNodes]
    /\ lost \in BOOLEAN
    /\ faults \in 0..MaxFaults
    /\ ops \in 0..MaxOps

\* Wherever a subscribing process knows a publisher, and the publisher's
\* callback has run, its socket is connected to it and filters for the topic:
\* whether the publisher or the subscription came first, and after any number
\* of Unsubscribes (OnNewConnection and Discover against Unsubscribe).
KnownIsConnected ==
    \A p \in Proc :
        local[p] # {} =>
            \A pub \in known[p] :
                \/ recv[p].pc = "connect" /\ recv[p].pub = pub
                \/ pub.addr \in linked[p] /\ filter[p] > 0

\* p's messages of this type reach the handler h of q.
Flows(p, type, q, h) ==
    /\ HasTopicOfType(remote[p], type)
    /\ p \in linked[q]
    /\ filter[q] > 0
    /\ h \in local[q] /\ Takes(h, type)

\* While both stay, and none of their datagrams is lost, a publisher and a
\* subscriber of its type find each other, and stay connected, after false
\* suspicions too: whichever was first, and with any other Subscribe or
\* Unsubscribe under way.  Except one, which has let go of the mutex with the last
\* handler of the same node: its END_CONNECTION, sent after the subscription, has
\* the publisher forget it for good.
Established ==
    \A p \in Pubs, q \in Subs : \A n \in PubNodes, type \in Type : \A h \in Handler :
        (p # q /\ Takes(h, type)) =>
            ( <>[](/\ Up(p) /\ Up(q)
                   /\ Entry(p, p, n, type) \in adv[p]
                   /\ h \in local[q] /\ h.node \notin overtaken[q]
                   /\ ~ lost)
              => <>[] Flows(p, type, q, h) )

\* A remote subscriber leaves the list only because its node said that it
\* unsubscribed (Discovery::UnregistrationsCb); in particular not because its
\* process was suspected, or ended (the note in OnNewDisconnection).
RemovedByItsNode ==
    [][\A p \in Proc : \A s \in remote[p] \ remote'[p] :
          /\ chan[s.pUuid][p] # <<>>
          /\ Head(chan[s.pUuid][p]).kind = "END_CONNECTION"
          /\ Head(chan[s.pUuid][p]).node = s.nUuid]_vars
=============================================================================
