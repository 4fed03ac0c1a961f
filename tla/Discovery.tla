----------------------------- MODULE Discovery -----------------------------
(***************************************************************************)
(* The discovery service of src/aerozen/discovery.hpp: how the processes   *)
(* of a network learn which topics the other ones publish.                 *)
(*                                                                         *)
(* Every process runs one reception thread (Discovery::RecvMessages), which*)
(* receives datagrams, sends the periodic heartbeat and expires silent     *)
(* processes, and has user threads that advertise, unadvertise and         *)
(* discover topics.  NodeShared::mutex serialises the user threads of a    *)
(* process, so there is one of them per process here.  Both threads share  *)
(* info and activity under Discovery::mutex and release it while they send *)
(* or run a callback: each action below is one stretch of code between two *)
(* points where the other thread, or another process, can interfere.       *)
(*                                                                         *)
(* Time is counted in heartbeat intervals.  activityInterval, a tenth of   *)
(* one, is taken as zero: UpdateActivity is always due.                    *)
(***************************************************************************)
EXTENDS Naturals, FiniteSets, TopicStorage

CONSTANTS
    Proc,       \* the process UUIDs; a restarted program has a new one
    Node,       \* the node UUIDs, unique within a process
    Topic,      \* the topic names
    Host,       \* the machines
    HostOf,     \* HostOf[p]: the machine process p runs on
    Group,      \* Group[p]: the processes p's multicast datagrams reach
    UnicastTo,  \* UnicastTo[h]: the process of h that the kernel hands the
                \* unicast datagrams of h to (SO_REUSEPORT picks one socket)
    Relays,     \* Relays[p]: the hosts in GZ_RELAY when p starts
    ScopeSet,   \* the scopes the users advertise with
    Callers,    \* bound: the processes whose users call
    NoEntry,    \* no activity entry for a process
    Silence,    \* silenceInterval / heartbeatInterval, 3 in the code
    InitCycles, \* heartbeat cycles until initialized, 3 in the code
    Timely,     \* TRUE: threads and network are fast, see Tick
    MaxFaults,  \* bound: datagrams lost or duplicated
    MaxEnds,    \* bound: processes that exit or crash
    MaxOps      \* bound: calls of Advertise, Unadvertise and Discover

Scopes == {"PROCESS", "HOST", "ALL"}

ASSUME TopologyAssumption ==
    /\ HostOf \in [Proc -> Host]
    /\ Group \in [Proc -> SUBSET Proc]
    /\ UnicastTo \in [Host -> Proc]
    /\ Relays \in [Proc -> SUBSET Host]

ASSUME ParameterAssumption ==
    /\ ScopeSet \subseteq Scopes
    /\ Callers \subseteq Proc
    /\ NoEntry \notin Nat
    /\ Silence \in Nat
    /\ InitCycles \in Nat
    /\ Timely \in BOOLEAN
    /\ MaxFaults \in Nat
    /\ MaxEnds \in Nat
    /\ MaxOps \in Nat

VARIABLES
    state,      \* state[p]: "off" before Start, "up", "gone" after exit or crash
    info,       \* info[p]: TopicStorage of the known publishers, own ones too
    activity,   \* activity[p][q]: intervals since p heard of q, or NoEntry
    relayAddrs, \* relayAddrs[p]: the hosts p relays to
    due,        \* due[p]: timeNextHeartbeat has passed
    cycles,     \* cycles[p]: numHeartbeatsUninitialized;
                \* initialized at InitCycles
    recv,       \* recv[p]: where the reception thread is
    user,       \* user[p]: where the user thread is
    announced,  \* announced[p]: publishers the client of p was told of by
                \* connectionCb, and not told the end of by disconnectionCb
    net,        \* the datagrams in flight
    faults,     \* how many datagrams were lost or duplicated
    ops         \* how many calls were made

vars == <<state, info, activity, relayAddrs, due, cycles, recv, user,
          announced, net, faults, ops>>

-----------------------------------------------------------------------------
\* A publisher.  The address belongs to the process (one ZeroMQ endpoint per
\* NodeShared), so the process stands for it.
Publisher == [topic : Topic, pUuid : Proc, addr : Proc, nUuid : Node,
              scope : Scopes]

Message ==
         [type : {"ADVERTISE", "UNADVERTISE"}, pUuid : Proc, pub : Publisher]
    \cup [type : {"SUBSCRIBE"}, pUuid : Proc, topic : Topic]
    \cup [type : {"HEARTBEAT", "BYE"}, pUuid : Proc]

\* A datagram on its way to one process.  "from" is the source address that
\* recvfrom reports, which a relay replaces by its own.
Packet == [to : Proc, from : Host, flag : {"NONE", "RELAY", "NO_RELAY"},
           msg : Message]

Idle == [pc |-> "idle"]

RecvState ==
         {Idle}
    \cup [pc : {"bye"}, pUuid : Proc]                 \* client told, entries still in
    \cup [pc : {"drop"}, pub : Publisher]             \* client told, entry still in
    \cup [pc : {"beat", "answer"}, pubs : SUBSET Publisher] \* copies left to send

UserState ==
         {Idle}
    \cup [pc : {"advertise", "unadvertise"}, pub : Publisher]
    \cup [pc : {"discover"}, topic : Topic]           \* SUBSCRIBE sent
    \cup [pc : {"notify"}, pubs : SUBSET Publisher]   \* callbacks left to run

Up(p) == state[p] = "up"

\* The publishers of p's own nodes.
Own(p) == PublishersByProc(info[p], p)

-----------------------------------------------------------------------------
(* Sending.                                                                *)

\* One copy of the datagram for every running member of the multicast group.
SendMulticast(p, msg, flag) ==
    { [to |-> q, from |-> HostOf[p], flag |-> flag, msg |-> msg] :
        q \in { r \in Group[p] : Up(r) } }

\* One datagram to each relay host, marked so that it is relayed there.
SendUnicast(p, msg) ==
    { [to |-> UnicastTo[h], from |-> HostOf[p], flag |-> "RELAY", msg |-> msg] :
        h \in { g \in relayAddrs[p] : Up(UnicastTo[g]) } }

\* SendMsg(DestinationType::ALL, ...)
SendMsg(p, msg) == SendMulticast(p, msg, "NONE") \cup SendUnicast(p, msg)

AdvertiseMsg(p, pub) == [type |-> "ADVERTISE", pUuid |-> p, pub |-> pub]
UnadvertiseMsg(p, pub) == [type |-> "UNADVERTISE", pUuid |-> p, pub |-> pub]
SubscribeMsg(p, topic) == [type |-> "SUBSCRIBE", pUuid |-> p, topic |-> topic]
PlainMsg(p, type) == [type |-> type, pUuid |-> p]

\* Slip: the machine is not compared.
InScopeAnywhere(p, pub, from) == pub.scope # "PROCESS"

\* A publisher of this scope concerns a receiver that sees the datagram come
\* from host "from".  isSenderLocal compares that address with p's own.
InScope(p, pub, from) ==
    \/ pub.scope = "ALL"
    \/ pub.scope = "HOST" /\ from = HostOf[p]

-----------------------------------------------------------------------------
Init ==
    /\ state = [p \in Proc |-> "off"]
    /\ info = [p \in Proc |-> {}]
    /\ activity = [p \in Proc |-> [q \in Proc |-> NoEntry]]
    /\ relayAddrs = [p \in Proc |-> {}]
    /\ due = [p \in Proc |-> FALSE]
    /\ cycles = [p \in Proc |-> 0]
    /\ recv = [p \in Proc |-> Idle]
    /\ user = [p \in Proc |-> Idle]
    /\ announced = [p \in Proc |-> {}]
    /\ net = {}
    /\ faults = 0
    /\ ops = 0

\* The constructor and Start(): both timers are set to now.
Start(p) ==
    /\ state[p] = "off"
    /\ state' = [state EXCEPT ![p] = "up"]
    /\ relayAddrs' = [relayAddrs EXCEPT ![p] = Relays[p]]
    /\ due' = [due EXCEPT ![p] = TRUE]
    /\ UNCHANGED <<info, activity, cycles, recv, user, announced, net, faults, ops>>

-----------------------------------------------------------------------------
(* The user thread.                                                        *)

CanCall(p) == p \in Callers /\ Up(p) /\ user[p] = Idle /\ ops < MaxOps

\* Advertise(), under the mutex: store the publisher, or return false.
Advertise(p, pub) ==
    /\ CanCall(p)
    /\ pub.pUuid = p /\ pub.addr = p /\ pub.scope \in ScopeSet
    /\ CanAdd(info[p], pub)
    /\ info' = [info EXCEPT ![p] = AddPublisher(@, pub)]
    /\ user' = [user EXCEPT ![p] = [pc |-> "advertise", pub |-> pub]]
    /\ ops' = ops + 1
    /\ UNCHANGED <<state, activity, relayAddrs, due, cycles, recv, announced, net, faults>>

\* Advertise(), after the mutex: connectionCb, then tell the other processes
\* unless the scope is PROCESS.
AdvertiseSend(p) ==
    /\ Up(p) /\ user[p].pc = "advertise"
    /\ LET pub == user[p].pub IN
         /\ announced' = [announced EXCEPT ![p] = @ \cup {pub}]
         /\ net' = IF pub.scope = "PROCESS" THEN net
                   ELSE net \cup SendMsg(p, AdvertiseMsg(p, pub))
    /\ user' = [user EXCEPT ![p] = Idle]
    /\ UNCHANGED <<state, info, activity, relayAddrs, due, cycles, recv, faults, ops>>

\* Unadvertise(), under the mutex: forget the publisher if it is stored.
Unadvertise(p, pub) ==
    /\ CanCall(p)
    /\ pub \in Own(p)
    /\ info' = [info EXCEPT ![p] = DelPublisherByNode(@, pub.topic, p, pub.nUuid)]
    /\ user' = [user EXCEPT ![p] = [pc |-> "unadvertise", pub |-> pub]]
    /\ ops' = ops + 1
    /\ UNCHANGED <<state, activity, relayAddrs, due, cycles, recv, announced, net, faults>>

\* Unadvertise(), after the mutex.
UnadvertiseSend(p) ==
    /\ Up(p) /\ user[p].pc = "unadvertise"
    /\ LET pub == user[p].pub IN
         net' = IF pub.scope = "PROCESS" THEN net
                ELSE net \cup SendMsg(p, UnadvertiseMsg(p, pub))
    /\ user' = [user EXCEPT ![p] = Idle]
    /\ UNCHANGED <<state, info, activity, relayAddrs, due, cycles, recv, announced,
                   faults, ops>>

\* Discover(): ask the network ...
Discover(p, topic) ==
    /\ CanCall(p)
    /\ net' = net \cup SendMsg(p, SubscribeMsg(p, topic))
    /\ user' = [user EXCEPT ![p] = [pc |-> "discover", topic |-> topic]]
    /\ ops' = ops + 1
    /\ UNCHANGED <<state, info, activity, relayAddrs, due, cycles, recv, announced, faults>>

\* ... copy under the mutex what is known already ...
DiscoverKnown(p) ==
    /\ Up(p) /\ user[p].pc = "discover"
    /\ user' = [user EXCEPT ![p] =
                    [pc |-> "notify", pubs |-> Publishers(info[p], user[p].topic)]]
    /\ UNCHANGED <<state, info, activity, relayAddrs, due, cycles, recv, announced,
                   net, faults, ops>>

\* ... and run connectionCb on the copies.
DiscoverNotify(p) ==
    /\ Up(p) /\ user[p].pc = "notify"
    /\ announced' = [announced EXCEPT ![p] = @ \cup user[p].pubs]
    /\ user' = [user EXCEPT ![p] = Idle]
    /\ UNCHANGED <<state, info, activity, relayAddrs, due, cycles, recv, net, faults, ops>>

-----------------------------------------------------------------------------
(* The reception thread: DispatchDiscoveryMsg.                             *)


\* The datagram pkt is read; rest is the network without it, or with it when
\* the network delivers it once more.
Read(pkt, rest) ==
    \/ rest = net \ {pkt} /\ UNCHANGED faults
    \/ rest = net /\ faults < MaxFaults /\ faults' = faults + 1

\* A process drops what it sent itself (multicast loops back).
IgnoreOwn(p, pkt, rest) ==
    /\ pkt.msg.pUuid = p
    /\ net' = rest
    /\ UNCHANGED <<info, activity, relayAddrs, recv, announced>>

\* Slips: the relaying process does not learn the address of its peer ...
RelayWithoutLearning(p, pkt, rest) ==
    /\ pkt.msg.pUuid # p
    /\ pkt.flag = "RELAY"
    /\ net' = rest \cup SendMulticast(p, pkt.msg, "NO_RELAY")
    /\ UNCHANGED <<info, activity, relayAddrs, recv, announced>>

\* ... or leaves the NO_RELAY flag out.
RelayWithoutFlag(p, pkt, rest) ==
    /\ pkt.msg.pUuid # p
    /\ pkt.flag = "RELAY"
    /\ net' = rest \cup SendMulticast(p, pkt.msg, "NONE")
    /\ relayAddrs' = [relayAddrs EXCEPT ![p] = @ \cup {pkt.from}]
    /\ UNCHANGED <<info, activity, recv, announced>>

\* A datagram from a relay peer is multicast here, and only that; the peer
\* becomes one of our own relays.
RelayPacket(p, pkt, rest) ==
    /\ pkt.msg.pUuid # p
    /\ pkt.flag = "RELAY"
    /\ net' = rest \cup SendMulticast(p, pkt.msg, "NO_RELAY")
    /\ relayAddrs' = [relayAddrs EXCEPT ![p] = @ \cup {pkt.from}]
    /\ UNCHANGED <<info, activity, recv, announced>>

\* Any other datagram is forwarded to our relays unless it comes from one,
\* and dispatched on its type.
Dispatched(p, pkt, rest) ==
    /\ pkt.msg.pUuid # p
    /\ pkt.flag # "RELAY"
    /\ net' = rest \cup IF pkt.flag = "NONE" THEN SendUnicast(p, pkt.msg) ELSE {}
    /\ UNCHANGED relayAddrs

\* What every dispatched datagram but BYE does to the sender's timestamp.
Heard(p, q) == activity' = [activity EXCEPT ![p][q] = 0]

\* Entries the callback disconnectionCb makes the client forget.
ForgetProc(p, q) == announced' = [announced EXCEPT ![p] = DelPublishersByProc(@, q)]

\* Slip: the callback is run for a process that was not heard of before only.
ReceiveAdvertiseTellingOnce(p, pkt, rest) ==
    /\ pkt.msg.type = "ADVERTISE"
    /\ Dispatched(p, pkt, rest)
    /\ Heard(p, pkt.msg.pUuid)
    /\ LET pub == pkt.msg.pub IN
         IF InScope(p, pub, pkt.from) /\ CanAdd(info[p], pub)
         THEN /\ info' = [info EXCEPT ![p] = AddPublisher(@, pub)]
              /\ announced' = [announced EXCEPT ![p] =
                     IF activity[p][pub.pUuid] = NoEntry THEN @ \cup {pub} ELSE @]
         ELSE UNCHANGED <<info, announced>>
    /\ UNCHANGED recv

ReceiveAdvertise(p, pkt, rest) ==
    /\ pkt.msg.type = "ADVERTISE"
    /\ Dispatched(p, pkt, rest)
    /\ Heard(p, pkt.msg.pUuid)
    /\ LET pub == pkt.msg.pub IN
         IF InScope(p, pub, pkt.from) /\ CanAdd(info[p], pub)
         THEN /\ info' = [info EXCEPT ![p] = AddPublisher(@, pub)]
              /\ announced' = [announced EXCEPT ![p] = @ \cup {pub}]
         ELSE UNCHANGED <<info, announced>>
    /\ UNCHANGED recv

\* SUBSCRIBE: copy my publishers of the topic and answer with each of them that
\* is in scope of the asker.
ReceiveSubscribe(p, pkt, rest) ==
    /\ pkt.msg.type = "SUBSCRIBE"
    /\ Dispatched(p, pkt, rest)
    /\ Heard(p, pkt.msg.pUuid)
    /\ LET pubs == { pub \in Publishers(info[p], pkt.msg.topic) :
                        pub.pUuid = p /\ InScope(p, pub, pkt.from) }
       IN recv' = IF pubs = {} THEN recv
                  ELSE [recv EXCEPT ![p] = [pc |-> "answer", pubs |-> pubs]]
    /\ UNCHANGED <<info, announced>>

ReceiveHeartbeat(p, pkt, rest) ==
    /\ pkt.msg.type = "HEARTBEAT"
    /\ Dispatched(p, pkt, rest)
    /\ Heard(p, pkt.msg.pUuid)
    /\ UNCHANGED <<info, recv, announced>>

\* BYE: the timestamp is erased and the client told; the entries go next.
ReceiveBye(p, pkt, rest) ==
    /\ pkt.msg.type = "BYE"
    /\ Dispatched(p, pkt, rest)
    /\ activity' = [activity EXCEPT ![p][pkt.msg.pUuid] = NoEntry]
    /\ ForgetProc(p, pkt.msg.pUuid)
    /\ recv' = [recv EXCEPT ![p] = [pc |-> "bye", pUuid |-> pkt.msg.pUuid]]
    /\ UNCHANGED info

\* UNADVERTISE: the client is told; the entry goes next.
ReceiveUnadvertise(p, pkt, rest) ==
    /\ pkt.msg.type = "UNADVERTISE"
    /\ Dispatched(p, pkt, rest)
    /\ Heard(p, pkt.msg.pUuid)
    /\ LET pub == pkt.msg.pub IN
         IF InScope(p, pub, pkt.from)
         THEN /\ announced' = [announced EXCEPT ![p] =
                     DelPublisherByNode(@, pub.topic, pub.pUuid, pub.nUuid)]
              /\ recv' = [recv EXCEPT ![p] = [pc |-> "drop", pub |-> pub]]
         ELSE UNCHANGED <<announced, recv>>
    /\ UNCHANGED info

\* recvfrom, and what DispatchDiscoveryMsg does with the datagram.
ReadAs(p, pkt, rest) ==
    /\ Read(pkt, rest)
    /\ \/ IgnoreOwn(p, pkt, rest)
       \/ RelayPacket(p, pkt, rest)
       \/ ReceiveAdvertise(p, pkt, rest)
       \/ ReceiveSubscribe(p, pkt, rest)
       \/ ReceiveHeartbeat(p, pkt, rest)
       \/ ReceiveBye(p, pkt, rest)
       \/ ReceiveUnadvertise(p, pkt, rest)

Receive(p) ==
    /\ Up(p) /\ recv[p] = Idle
    /\ \E pkt \in { k \in net : k.to = p } :
         \E rest \in {net, net \ {pkt}} : ReadAs(p, pkt, rest)
    /\ UNCHANGED <<state, due, cycles, user, ops>>

\* Slip: BYE erases the timestamp and leaves the entries to UpdateActivity.
ByeDropNothing(p) ==
    /\ Up(p) /\ recv[p].pc = "bye"
    /\ recv' = [recv EXCEPT ![p] = Idle]
    /\ UNCHANGED <<state, info, activity, relayAddrs, due, cycles, user, announced, net,
                   faults, ops>>

\* The second half of BYE.
ByeDrop(p) ==
    /\ Up(p) /\ recv[p].pc = "bye"
    /\ info' = [info EXCEPT ![p] = DelPublishersByProc(@, recv[p].pUuid)]
    /\ recv' = [recv EXCEPT ![p] = Idle]
    /\ UNCHANGED <<state, activity, relayAddrs, due, cycles, user, announced, net,
                   faults, ops>>

\* The second half of UNADVERTISE.
UnadvertiseDrop(p) ==
    /\ Up(p) /\ recv[p].pc = "drop"
    /\ LET pub == recv[p].pub IN
         info' = [info EXCEPT ![p] =
                     DelPublisherByNode(@, pub.topic, pub.pUuid, pub.nUuid)]
    /\ recv' = [recv EXCEPT ![p] = Idle]
    /\ UNCHANGED <<state, activity, relayAddrs, due, cycles, user, announced, net,
                   faults, ops>>

\* One ADVERTISE out of the copies, after an answer or within a heartbeat.
SendCopy(p) ==
    /\ Up(p) /\ recv[p].pc \in {"beat", "answer"}
    /\ \E pub \in recv[p].pubs :
         LET left == recv[p].pubs \ {pub} IN
           /\ net' = net \cup SendMsg(p, AdvertiseMsg(p, pub))
           /\ recv' = [recv EXCEPT ![p] =
                 IF left = {} /\ @.pc = "answer" THEN Idle
                 ELSE [@ EXCEPT !.pubs = left]]
    /\ UNCHANGED <<state, info, activity, relayAddrs, due, cycles, user, announced,
                   faults, ops>>

-----------------------------------------------------------------------------
(* The reception thread: UpdateHeartbeat and UpdateActivity.               *)

\* Slip: a heartbeat does not repeat the advertisements.
HeartbeatAlone(p) ==
    /\ Up(p) /\ recv[p] = Idle /\ due[p]
    /\ net' = net \cup SendMsg(p, PlainMsg(p, "HEARTBEAT"))
    /\ recv' = [recv EXCEPT ![p] = [pc |-> "beat", pubs |-> {}]]
    /\ UNCHANGED <<state, info, activity, relayAddrs, due, cycles, user, announced,
                   faults, ops>>

\* Send HEARTBEAT and copy my publishers, whatever their scope; SendCopy sends
\* the copies.
Heartbeat(p) ==
    /\ Up(p) /\ recv[p] = Idle /\ due[p]
    /\ net' = net \cup SendMsg(p, PlainMsg(p, "HEARTBEAT"))
    /\ recv' = [recv EXCEPT ![p] = [pc |-> "beat", pubs |-> Own(p)]]
    /\ UNCHANGED <<state, info, activity, relayAddrs, due, cycles, user, announced,
                   faults, ops>>

\* All copies are sent: count the cycle and set the timer.
EndHeartbeat(p) ==
    /\ Up(p) /\ recv[p] = [pc |-> "beat", pubs |-> {}]
    /\ due' = [due EXCEPT ![p] = FALSE]
    /\ cycles' = [cycles EXCEPT ![p] = IF @ < InitCycles THEN @ + 1 ELSE @]
    /\ recv' = [recv EXCEPT ![p] = Idle]
    /\ UNCHANGED <<state, info, activity, relayAddrs, user, announced, net, faults, ops>>

\* Slip: one interval too early.
ExpiredEarly(p) ==
    { q \in Proc : activity[p][q] # NoEntry /\ activity[p][q] >= Silence }

\* The processes p has not heard of for longer than silenceInterval.
Expired(p) ==
    { q \in Proc : activity[p][q] # NoEntry /\ activity[p][q] > Silence }

\* Slip: the timestamps go and the entries stay.
UpdateActivityOnly(p) ==
    /\ Up(p) /\ recv[p] = Idle
    /\ Expired(p) # {}
    /\ activity' = [activity EXCEPT ![p] =
           [q \in Proc |-> IF q \in Expired(p) THEN NoEntry ELSE @[q]]]
    /\ announced' = [announced EXCEPT ![p] =
                        { pub \in @ : pub.pUuid \notin Expired(p) }]
    /\ UNCHANGED <<state, info, relayAddrs, due, cycles, recv, user, net, faults, ops>>

\* Slip: all entries go.
UpdateActivityClear(p) ==
    /\ Up(p) /\ recv[p] = Idle
    /\ Expired(p) # {}
    /\ activity' = [activity EXCEPT ![p] =
           [q \in Proc |-> IF q \in Expired(p) THEN NoEntry ELSE @[q]]]
    /\ info' = [info EXCEPT ![p] = {}]
    /\ announced' = [announced EXCEPT ![p] = {}]
    /\ UNCHANGED <<state, relayAddrs, due, cycles, recv, user, net, faults, ops>>

\* Drop their timestamps and entries, and tell the client.  The client is told
\* after the mutex is released; a Discover of the user thread that comes in
\* between finds no entry to announce.
UpdateActivity(p) ==
    /\ Up(p) /\ recv[p] = Idle
    /\ Expired(p) # {}
    /\ activity' = [activity EXCEPT ![p] =
           [q \in Proc |-> IF q \in Expired(p) THEN NoEntry ELSE @[q]]]
    /\ info' = [info EXCEPT ![p] = { pub \in @ : pub.pUuid \notin Expired(p) }]
    /\ announced' = [announced EXCEPT ![p] =
                        { pub \in @ : pub.pUuid \notin Expired(p) }]
    /\ UNCHANGED <<state, relayAddrs, due, cycles, recv, user, net, faults, ops>>

-----------------------------------------------------------------------------
(* The end of a process, and the environment.                              *)

CanEnd(p) ==
    Up(p) /\ Cardinality({ q \in Proc : state[q] = "gone" }) < MaxEnds

\* What becomes of p's memory, and of the datagrams on their way to it.
Ended(p, sent) ==
    /\ state' = [state EXCEPT ![p] = "gone"]
    /\ info' = [info EXCEPT ![p] = {}]
    /\ activity' = [activity EXCEPT ![p] = [q \in Proc |-> NoEntry]]
    /\ relayAddrs' = [relayAddrs EXCEPT ![p] = {}]
    /\ due' = [due EXCEPT ![p] = FALSE]
    /\ recv' = [recv EXCEPT ![p] = Idle]
    /\ user' = [user EXCEPT ![p] = Idle]
    /\ announced' = [announced EXCEPT ![p] = {}]
    /\ net' = { pkt \in net \cup sent : pkt.to # p }
    /\ UNCHANGED <<cycles, faults, ops>>

\* The destructor, of a Discovery that somebody deletes: NodeShared keeps its own
\* to the end of the process, which is then a Crash to the others.  The reception
\* thread is joined between two rounds of its loop, then BYE is sent.
Exit(p) ==
    /\ CanEnd(p) /\ recv[p] = Idle /\ user[p] = Idle
    /\ Ended(p, SendMsg(p, PlainMsg(p, "BYE")))

\* The process dies, between any two steps of its threads.
Crash(p) == CanEnd(p) /\ Ended(p, {})

\* UDP loses a datagram.
Lose ==
    /\ faults < MaxFaults /\ faults' = faults + 1
    /\ \E pkt \in net : net' = net \ {pkt}
    /\ UNCHANGED <<state, info, activity, relayAddrs, due, cycles, recv, user,
                   announced, ops>>

\* One heartbeat interval passes.  With Timely, threads and network are fast
\* compared with it: everything sent was received, every heartbeat due was
\* completed and every expired process was dropped.
Tick ==
    /\ Timely => /\ net = {}
                 /\ \A p \in Proc : ~due[p] /\ recv[p] = Idle /\ Expired(p) = {}
    /\ due' = [p \in Proc |-> Up(p)]
    /\ activity' = [p \in Proc |-> [q \in Proc |->
           IF activity[p][q] = NoEntry \/ activity[p][q] > Silence
           THEN activity[p][q] ELSE activity[p][q] + 1]]
    /\ UNCHANGED <<state, info, relayAddrs, cycles, recv, user, announced, net,
                   faults, ops>>

UserContinues(p) ==
    AdvertiseSend(p) \/ UnadvertiseSend(p) \/ DiscoverKnown(p) \/ DiscoverNotify(p)

UserCalls(p) ==
    \/ \E pub \in Publisher : Advertise(p, pub) \/ Unadvertise(p, pub)
    \/ \E topic \in Topic : Discover(p, topic)

\* What RecvMessages does besides receiving.
RecvContinues(p) ==
    \/ ByeDrop(p) \/ UnadvertiseDrop(p) \/ SendCopy(p)
    \/ Heartbeat(p) \/ EndHeartbeat(p) \/ UpdateActivity(p)

Next ==
    \/ \E p \in Proc :
          \/ Start(p) \/ Exit(p) \/ Crash(p)
          \/ UserCalls(p) \/ UserContinues(p)
          \/ Receive(p) \/ RecvContinues(p)
    \/ Lose \/ Tick

Spec == Init /\ [][Next]_vars

\* A running thread keeps running, the network delivers what it does not lose,
\* and time passes.
Fairness ==
    /\ \A p \in Proc : WF_vars(Receive(p))
    /\ \A p \in Proc : WF_vars(RecvContinues(p))
    /\ \A p \in Proc : WF_vars(UserContinues(p))
    /\ WF_vars(Tick)

FairSpec == Spec /\ Fairness

-----------------------------------------------------------------------------
(* What makes the service correct.                                         *)

TypeOK ==
    /\ state \in [Proc -> {"off", "up", "gone"}]
    /\ info \in [Proc -> SUBSET Publisher]
    /\ activity \in [Proc -> [Proc -> (0 .. Silence + 1) \cup {NoEntry}]]
    /\ relayAddrs \in [Proc -> SUBSET Host]
    /\ due \in [Proc -> BOOLEAN]
    /\ cycles \in [Proc -> 0 .. InitCycles]
    /\ recv \in [Proc -> RecvState]
    /\ user \in [Proc -> UserState]
    /\ announced \in [Proc -> SUBSET Publisher]
    /\ net \subseteq Packet
    /\ faults \in 0 .. MaxFaults
    /\ ops \in 0 .. MaxOps

\* Every publisher of another process that is kept belongs to a process whose
\* silence is being timed: otherwise nothing would ever remove it if that
\* process crashed.  (UpdateActivity walks over activity, not over info.)
EveryKnownIsTimed ==
    \A p \in Proc : \A pub \in info[p] :
        pub.pUuid # p =>
            \/ activity[p][pub.pUuid] # NoEntry
            \/ recv[p] = [pc |-> "bye", pUuid |-> pub.pUuid]

\* The removal of an entry under way at p, after its client was told.
BeingDropped(p, pub) ==
    \/ recv[p] = [pc |-> "bye", pUuid |-> pub.pUuid]
    \/ /\ recv[p].pc = "drop"
       /\ pub.topic = recv[p].pub.topic
       /\ pub.pUuid = recv[p].pub.pUuid
       /\ pub.nUuid = recv[p].pub.nUuid

\* The client was told of every publisher of another process that is kept, and
\* not told of its end.  AddPublisher is the only test before connectionCb: an
\* entry kept without it would never be connected to, because each later
\* ADVERTISE of it is "already stored".
EveryKnownIsAnnounced ==
    \A p \in Proc : \A pub \in info[p] :
        pub.pUuid # p => pub \in announced[p] \/ BeingDropped(p, pub)

\* A publisher is kept outside its process only if its scope is not PROCESS,
\* and outside its machine only if its scope is ALL (Scope_t).
ScopeRespected ==
    \A p \in Proc : \A pub \in info[p] :
        pub.pUuid # p =>
            /\ pub.scope # "PROCESS"
            /\ pub.scope = "HOST" => HostOf[p] = HostOf[pub.pUuid]

\* With a timely network a running process is not expired by its peers unless
\* as many datagrams were lost as intervals fit into silenceInterval.
LiveNotExpired ==
    Timely /\ faults < Silence =>
        \A p, q \in Proc : Up(p) /\ Up(q) => q \notin Expired(p)

\* Own publishers come and go with calls of the own user thread only: no
\* datagram, not even an own one that loops back, and no expiry changes them.
OwnOnlyByUser ==
    [][\A p \in Proc : user'[p] = user[p] /\ state'[p] = state[p]
                          => Own(p)' = Own(p)]_vars

\* What a process that ended published is forgotten by everybody for good,
\* whether its BYE arrived or not, even if some of its ADVERTISE datagrams were
\* still on their way.
GoneIsForgotten ==
    \A p, q \in Proc :
        <>[](state[q] = "gone" => PublishersByProc(info[p], q) = {})

\* q publishes for p: an own publisher of q in scope of p, which is within reach.
PublishesFor(q, p, topic, n) ==
    /\ Up(q) /\ Up(p) /\ p # q /\ p \in Group[q]
    /\ \E pub \in ByNode(info[q], topic, q, n) : InScope(p, pub, HostOf[q])

\* A publisher that stays is known to every process in its scope that stays,
\* from some time on and for good, whatever was lost, duplicated, reordered or
\* expired before: the heartbeats repair it.
Convergence ==
    \A p, q \in Proc, topic \in Topic, n \in Node :
        <>[]PublishesFor(q, p, topic, n) => <>[](ByNode(info[p], topic, q, n) # {})

\* A relay that p, or a member of p's network, was given leads to q's network.
Linked(p, q) ==
    \E g \in Group[p] \cup {p}, h \in Host :
        h \in Relays[g] /\ q \in Group[UnicastTo[h]] \cup {UnicastTo[h]}

\* The same across relays, in both directions: the side that was given no relay
\* learns it from the first datagram it relays.
RelayConvergence ==
    \A p, q \in Proc, topic \in Topic, n \in Node :
        Linked(p, q) \/ Linked(q, p) =>
            (<>[](/\ \A r \in Proc : Up(r)
                  /\ \E pub \in ByNode(info[q], topic, q, n) : pub.scope = "ALL")
                => <>[](ByNode(info[p], topic, q, n) # {}))

\* Relays do not echo datagrams to each other: a datagram that asks to be relayed
\* comes from its author, or from a process that the author's own multicast
\* reached, and never from one that heard of it through a relay.
RelayedOnce ==
    \A pkt \in net :
        pkt.flag = "RELAY" =>
            \E p \in Proc : /\ HostOf[p] = pkt.from
                            /\ p = pkt.msg.pUuid \/ p \in Group[pkt.msg.pUuid]
=============================================================================
