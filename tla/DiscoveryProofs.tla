-------------------------- MODULE DiscoveryProofs --------------------------
(***************************************************************************)
(* Theorems about Discovery for every set of processes, nodes, topics and  *)
(* hosts, every network topology and every value of the bounds.            *)
(***************************************************************************)
EXTENDS Discovery, TLAPS

-----------------------------------------------------------------------------
(* Type correctness.                                                       *)

\* The four shapes of message are messages.
LEMMA MessageTypes ==
    ASSUME NEW p \in Proc
    PROVE  /\ \A pub \in Publisher : /\ AdvertiseMsg(p, pub) \in Message
                                     /\ UnadvertiseMsg(p, pub) \in Message
           /\ \A topic \in Topic : SubscribeMsg(p, topic) \in Message
           /\ PlainMsg(p, "HEARTBEAT") \in Message
           /\ PlainMsg(p, "BYE") \in Message
  BY DEF Message, AdvertiseMsg, UnadvertiseMsg, SubscribeMsg, PlainMsg

\* Sending a message puts well-formed datagrams on the network.
LEMMA SendTypes ==
    ASSUME NEW p \in Proc, NEW msg \in Message, TypeOK
    PROVE  /\ \A flag \in {"NONE", "NO_RELAY"} : SendMulticast(p, msg, flag) \subseteq Packet
           /\ SendUnicast(p, msg) \subseteq Packet
           /\ SendMsg(p, msg) \subseteq Packet
  BY TopologyAssumption DEF TypeOK, SendMulticast, SendUnicast, SendMsg, Packet

\* A thread that waits at the given program counter holds what belongs there.
LEMMA ThreadTypes ==
    ASSUME NEW p \in Proc, TypeOK
    PROVE  /\ user[p].pc \in {"advertise", "unadvertise"} => user[p].pub \in Publisher
           /\ user[p].pc = "discover" => user[p].topic \in Topic
           /\ user[p].pc = "notify" => user[p].pubs \subseteq Publisher
           /\ recv[p].pc = "bye" => recv[p].pUuid \in Proc
           /\ recv[p].pc = "drop" => recv[p].pub \in Publisher
           /\ recv[p].pc \in {"beat", "answer"} => /\ recv[p].pubs \subseteq Publisher
                                                  /\ recv[p] = [pc |-> recv[p].pc, pubs |-> recv[p].pubs]
  <1>1. user[p] \in UserState /\ recv[p] \in RecvState
    BY DEF TypeOK
  <1>2. QED
    BY <1>1 DEF UserState, RecvState, Idle

\* What a datagram carries.
LEMMA PacketTypes ==
    ASSUME NEW pkt \in Packet
    PROVE  /\ pkt.to \in Proc
           /\ pkt.from \in Host
           /\ pkt.msg \in Message
           /\ pkt.msg.pUuid \in Proc
           /\ pkt.msg.type \in {"ADVERTISE", "UNADVERTISE"} => pkt.msg.pub \in Publisher
           /\ pkt.msg.type = "SUBSCRIBE" => pkt.msg.topic \in Topic
  BY DEF Packet, Message

\* TypeOK holds at the start.
LEMMA TypeInit == Init => TypeOK
  BY ParameterAssumption, SMT DEF Init, TypeOK, RecvState, UserState

\* The user thread preserves types.
LEMMA TypeUser ==
    ASSUME TypeOK, NEW p \in Proc, UserCalls(p) \/ UserContinues(p)
    PROVE  TypeOK'
  <1>1. ASSUME NEW pub \in Publisher, Advertise(p, pub)
        PROVE  TypeOK'
    BY <1>1, ParameterAssumption DEF TypeOK, Advertise, CanCall, AddPublisher, UserState
  <1>2. ASSUME NEW pub \in Publisher, Unadvertise(p, pub)
        PROVE  TypeOK'
    BY <1>2, ParameterAssumption
       DEF TypeOK, Unadvertise, CanCall, DelPublisherByNode, UserState, Own, PublishersByProc
  <1>3. ASSUME NEW topic \in Topic, Discover(p, topic)
        PROVE  TypeOK'
    <2>1. SubscribeMsg(p, topic) \in Message
      BY MessageTypes
    <2>2. net' \subseteq Packet
      BY <1>3, <2>1, SendTypes DEF Discover, TypeOK
    <2>3. QED
      BY <1>3, <2>2, ParameterAssumption DEF TypeOK, Discover, CanCall, UserState
  <1>4. CASE AdvertiseSend(p)
    <2>1. user[p].pub \in Publisher /\ AdvertiseMsg(p, user[p].pub) \in Message
      BY <1>4, ThreadTypes, MessageTypes DEF AdvertiseSend
    <2>2. net' \subseteq Packet
      BY <1>4, <2>1, SendTypes DEF AdvertiseSend, TypeOK
    <2>3. QED
      BY <1>4, <2>1, <2>2 DEF TypeOK, AdvertiseSend, UserState
  <1>5. CASE UnadvertiseSend(p)
    <2>1. user[p].pub \in Publisher /\ UnadvertiseMsg(p, user[p].pub) \in Message
      BY <1>5, ThreadTypes, MessageTypes DEF UnadvertiseSend
    <2>2. net' \subseteq Packet
      BY <1>5, <2>1, SendTypes DEF UnadvertiseSend, TypeOK
    <2>3. QED
      BY <1>5, <2>2 DEF TypeOK, UnadvertiseSend, UserState
  <1>6. CASE DiscoverKnown(p)
    BY <1>6 DEF TypeOK, DiscoverKnown, Publishers, UserState
  <1>7. CASE DiscoverNotify(p)
    BY <1>7, ThreadTypes DEF TypeOK, DiscoverNotify, UserState
  <1>8. QED
    BY <1>1, <1>2, <1>3, <1>4, <1>5, <1>6, <1>7 DEF UserCalls, UserContinues

\* Whatever the datagram, reading it keeps the network and the clocks typed.
LEMMA TypeReceive ==
    ASSUME TypeOK, NEW p \in Proc, Receive(p)
    PROVE  TypeOK'
  <1>0. PICK pkt \in net : \E rest \in {net, net \ {pkt}} : ReadAs(p, pkt, rest)
    BY DEF Receive
  <1>1. PICK rest \in {net, net \ {pkt}} : ReadAs(p, pkt, rest)
    BY <1>0
  <1> DEFINE msg == pkt.msg
  <1>2. pkt \in Packet /\ rest \subseteq Packet
    BY <1>1 DEF TypeOK
  <1>3. /\ pkt.from \in Host /\ msg \in Message /\ msg.pUuid \in Proc
        /\ msg.type \in {"ADVERTISE", "UNADVERTISE"} => msg.pub \in Publisher
    BY <1>2, PacketTypes
  <1>4. faults' \in 0 .. MaxFaults
    BY <1>1, ParameterAssumption DEF ReadAs, Read, TypeOK
  <1>5. /\ SendMulticast(p, msg, "NO_RELAY") \subseteq Packet
        /\ SendUnicast(p, msg) \subseteq Packet
    BY <1>3, SendTypes
  <1>6. Dispatched(p, pkt, rest) => net' \subseteq Packet /\ relayAddrs' = relayAddrs
    BY <1>2, <1>5 DEF Dispatched
  <1>7. Heard(p, msg.pUuid) =>
            activity' \in [Proc -> [Proc -> (0 .. Silence + 1) \cup {NoEntry}]]
    BY <1>3, ParameterAssumption DEF Heard, TypeOK
  <1>8. UNCHANGED <<state, due, cycles, user, ops>>
    BY DEF Receive
  <1>9. CASE IgnoreOwn(p, pkt, rest)
    BY <1>2, <1>4, <1>8, <1>9 DEF TypeOK, IgnoreOwn
  <1>10. CASE RelayPacket(p, pkt, rest)
    BY <1>2, <1>3, <1>4, <1>5, <1>8, <1>10 DEF TypeOK, RelayPacket
  <1>11. CASE ReceiveAdvertise(p, pkt, rest)
    <2>1. /\ info[p] \subseteq Publisher /\ AddPublisher(info[p], msg.pub) \subseteq Publisher
          /\ announced[p] \cup {msg.pub} \subseteq Publisher
      BY <1>3, <1>11 DEF TypeOK, ReceiveAdvertise, AddPublisher
    <2>2. /\ info' \in {info, [info EXCEPT ![p] = AddPublisher(@, msg.pub)]}
          /\ announced' \in {announced, [announced EXCEPT ![p] = @ \cup {msg.pub}]}
      BY <1>11 DEF ReceiveAdvertise
    <2>3. info' \in [Proc -> SUBSET Publisher] /\ announced' \in [Proc -> SUBSET Publisher]
      BY <2>1, <2>2 DEF TypeOK
    <2>4. QED
      BY <1>4, <1>6, <1>7, <1>8, <1>11, <2>3 DEF TypeOK, ReceiveAdvertise
  <1>12. CASE ReceiveSubscribe(p, pkt, rest)
    <2>1. recv' \in [Proc -> RecvState]
      BY <1>12 DEF TypeOK, ReceiveSubscribe, RecvState, Publishers
    <2>2. QED
      BY <1>4, <1>6, <1>7, <1>8, <1>12, <2>1 DEF TypeOK, ReceiveSubscribe
  <1>13. CASE ReceiveHeartbeat(p, pkt, rest)
    BY <1>4, <1>6, <1>7, <1>8, <1>13 DEF TypeOK, ReceiveHeartbeat
  <1>14. CASE ReceiveBye(p, pkt, rest)
    <2>1. recv' \in [Proc -> RecvState]
      BY <1>3, <1>14 DEF TypeOK, ReceiveBye, RecvState
    <2>2. QED
      BY <1>3, <1>4, <1>6, <1>8, <1>14, <2>1
         DEF TypeOK, ReceiveBye, ForgetProc, DelPublishersByProc
  <1>15. CASE ReceiveUnadvertise(p, pkt, rest)
    <2>1. recv' \in [Proc -> RecvState]
      <3>1. msg.pub \in Publisher
        BY <1>3, <1>15 DEF ReceiveUnadvertise
      <3>2. recv' \in {recv, [recv EXCEPT ![p] = [pc |-> "drop", pub |-> msg.pub]]}
        BY <1>15 DEF ReceiveUnadvertise
      <3>3. [pc |-> "drop", pub |-> msg.pub] \in RecvState
        BY <3>1 DEF RecvState
      <3>4. QED
        BY <3>2, <3>3 DEF TypeOK
    <2>2. \/ announced' = announced
          \/ announced' = [announced EXCEPT ![p] =
                 DelPublisherByNode(@, msg.pub.topic, msg.pub.pUuid, msg.pub.nUuid)]
      BY <1>15 DEF ReceiveUnadvertise
    <2>3. announced' \in [Proc -> SUBSET Publisher]
      BY <2>2 DEF TypeOK, DelPublisherByNode
    <2>4. QED
      BY <1>4, <1>6, <1>7, <1>8, <1>15, <2>1, <2>3 DEF TypeOK, ReceiveUnadvertise
  <1>16. QED
    BY <1>1, <1>9, <1>10, <1>11, <1>12, <1>13, <1>14, <1>15 DEF ReadAs

\* So does the rest of the reception thread.
LEMMA TypeRecv ==
    ASSUME TypeOK, NEW p \in Proc, RecvContinues(p)
    PROVE  TypeOK'
  <1>1. CASE ByeDrop(p)
    BY <1>1 DEF TypeOK, ByeDrop, DelPublishersByProc, RecvState
  <1>2. CASE UnadvertiseDrop(p)
    BY <1>2 DEF TypeOK, UnadvertiseDrop, DelPublisherByNode, RecvState
  <1>3. CASE SendCopy(p)
    <2>1. PICK pub \in recv[p].pubs :
            /\ net' = net \cup SendMsg(p, AdvertiseMsg(p, pub))
            /\ recv' = [recv EXCEPT ![p] =
                  IF recv[p].pubs \ {pub} = {} /\ @.pc = "answer" THEN Idle
                  ELSE [@ EXCEPT !.pubs = recv[p].pubs \ {pub}]]
      BY <1>3 DEF SendCopy
    <2>2. recv[p].pubs \subseteq Publisher /\ recv[p].pc \in {"beat", "answer"}
      BY <1>3, ThreadTypes DEF SendCopy
    <2>3. net' \subseteq Packet
      BY <2>1, <2>2, MessageTypes, SendTypes DEF TypeOK
    <2>4. recv' \in [Proc -> RecvState]
      <3>1. recv[p] = [pc |-> recv[p].pc, pubs |-> recv[p].pubs]
        BY <2>2, ThreadTypes
      <3>2. [recv[p] EXCEPT !.pubs = recv[p].pubs \ {pub}] \in RecvState
        BY <2>2, <3>1 DEF RecvState
      <3>3. Idle \in RecvState /\ recv \in [Proc -> RecvState]
        BY DEF RecvState, TypeOK
      <3>4. QED
        BY <2>1, <3>2, <3>3
    <2>5. QED
      BY <1>3, <2>3, <2>4 DEF TypeOK, SendCopy
  <1>4. CASE Heartbeat(p)
    <2>1. net' \subseteq Packet
      BY <1>4, MessageTypes, SendTypes DEF TypeOK, Heartbeat
    <2>2. recv' \in [Proc -> RecvState]
      BY <1>4 DEF TypeOK, Heartbeat, RecvState, Own, PublishersByProc
    <2>3. QED
      BY <1>4, <2>1, <2>2 DEF TypeOK, Heartbeat
  <1>5. CASE EndHeartbeat(p)
    BY <1>5, ParameterAssumption DEF TypeOK, EndHeartbeat, RecvState
  <1>6. CASE UpdateActivity(p)
    <2>1. activity' \in [Proc -> [Proc -> (0 .. Silence + 1) \cup {NoEntry}]]
      BY <1>6 DEF TypeOK, UpdateActivity
    <2>2. QED
      BY <1>6, <2>1 DEF TypeOK, UpdateActivity
  <1>7. QED
    BY <1>1, <1>2, <1>3, <1>4, <1>5, <1>6 DEF RecvContinues

\* And the life of processes, losses and time.
LEMMA TypeEnd ==
    ASSUME TypeOK, NEW p \in Proc, NEW sent \in SUBSET Packet, Ended(p, sent)
    PROVE  TypeOK'
  BY DEF TypeOK, Ended, RecvState, UserState

LEMMA TypeStart ==
    ASSUME TypeOK, NEW p \in Proc, Start(p)
    PROVE  TypeOK'
  BY TopologyAssumption DEF TypeOK, Start

LEMMA TypeTick ==
    ASSUME TypeOK, Tick
    PROVE  TypeOK'
  <1>1. activity' \in [Proc -> [Proc -> (0 .. Silence + 1) \cup {NoEntry}]]
    <2>1. SUFFICES ASSUME NEW p \in Proc, NEW q \in Proc
                   PROVE  (IF activity[p][q] = NoEntry \/ activity[p][q] > Silence
                           THEN activity[p][q] ELSE activity[p][q] + 1)
                              \in (0 .. Silence + 1) \cup {NoEntry}
      BY DEF Tick
    <2>2. activity[p][q] \in (0 .. Silence + 1) \cup {NoEntry}
      BY DEF TypeOK
    <2>3. QED
      BY <2>2, ParameterAssumption
  <1>2. QED
    BY <1>1 DEF TypeOK, Tick, Up

\* Every step keeps the types.
LEMMA TypeNext == TypeOK /\ [Next]_vars => TypeOK'
  <1> SUFFICES ASSUME TypeOK, [Next]_vars
               PROVE  TypeOK'
    OBVIOUS
  <1>1. ASSUME NEW p \in Proc, Start(p) PROVE TypeOK'
    BY <1>1, TypeStart
  <1>2. ASSUME NEW p \in Proc, Exit(p) PROVE TypeOK'
    BY <1>2, TypeEnd, MessageTypes, SendTypes DEF Exit
  <1>3. ASSUME NEW p \in Proc, Crash(p) PROVE TypeOK'
    BY <1>3, TypeEnd DEF Crash
  <1>4. ASSUME NEW p \in Proc, UserCalls(p) \/ UserContinues(p) PROVE TypeOK'
    BY <1>4, TypeUser
  <1>5. ASSUME NEW p \in Proc, Receive(p) PROVE TypeOK'
    BY <1>5, TypeReceive
  <1>6. ASSUME NEW p \in Proc, RecvContinues(p) PROVE TypeOK'
    BY <1>6, TypeRecv
  <1>7. CASE Lose
    BY <1>7, ParameterAssumption DEF TypeOK, Lose
  <1>8. CASE Tick
    BY <1>8, TypeTick
  <1>9. CASE UNCHANGED vars
    BY <1>9 DEF TypeOK, vars
  <1>10. QED
    BY <1>1, <1>2, <1>3, <1>4, <1>5, <1>6, <1>7, <1>8, <1>9 DEF Next

\* Discovery is type correct: every datagram, table and thread state it ever
\* produces has the shape the code expects.
THEOREM TypeCorrect == Spec => []TypeOK
  BY TypeInit, TypeNext, PTL DEF Spec

-----------------------------------------------------------------------------
(* Processes speak for themselves only.                                    *)

\* A datagram about a publisher carries the UUID of the publisher's process.
AuthenticNet ==
    \A pkt \in net : pkt.msg.type \in {"ADVERTISE", "UNADVERTISE"}
                        => pkt.msg.pub.pUuid = pkt.msg.pUuid

\* The user thread, and the copies of a heartbeat or an answer, are about own
\* publishers; what the reception thread removes is not.
AuthenticThreads ==
    \A p \in Proc :
        /\ user[p].pc \in {"advertise", "unadvertise"} => user[p].pub.pUuid = p
        /\ recv[p].pc \in {"beat", "answer"} => \A pub \in recv[p].pubs : pub.pUuid = p
        /\ recv[p].pc = "drop" => recv[p].pub.pUuid # p
        /\ recv[p].pc = "bye" => recv[p].pUuid # p

\* No process times its own silence.
OwnUntimed == \A p \in Proc : activity[p][p] = NoEntry

Authentic == AuthenticNet /\ AuthenticThreads /\ OwnUntimed

\* Sending puts the message itself on the network, and nothing else.
LEMMA SendCarries ==
    ASSUME NEW p, NEW msg
    PROVE  /\ \A flag : \A pkt \in SendMulticast(p, msg, flag) :
                 pkt.msg = msg /\ pkt.flag = flag /\ pkt.from = HostOf[p]
           /\ \A pkt \in SendUnicast(p, msg) : pkt.msg = msg
           /\ \A pkt \in SendMsg(p, msg) : pkt.msg = msg
  BY DEF SendMulticast, SendUnicast, SendMsg

LEMMA AuthenticInit == Init => Authentic
  BY DEF Init, Authentic, AuthenticNet, AuthenticThreads, OwnUntimed, Idle

LEMMA AuthenticUser ==
    ASSUME TypeOK, Authentic, NEW p \in Proc, UserCalls(p) \/ UserContinues(p)
    PROVE  Authentic'
  <1> USE DEF Authentic
  <1>1. ASSUME NEW pub \in Publisher, Advertise(p, pub) PROVE Authentic'
    BY <1>1 DEF TypeOK, Advertise, AuthenticNet, AuthenticThreads, OwnUntimed
  <1>2. ASSUME NEW pub \in Publisher, Unadvertise(p, pub) PROVE Authentic'
    BY <1>2 DEF TypeOK, Unadvertise, AuthenticNet, AuthenticThreads, OwnUntimed,
                Own, PublishersByProc
  <1>3. ASSUME NEW topic \in Topic, Discover(p, topic) PROVE Authentic'
    <2>1. AuthenticNet'
      BY <1>3, SendCarries DEF Discover, AuthenticNet, SubscribeMsg
    <2>2. QED
      BY <1>3, <2>1 DEF TypeOK, Discover, AuthenticThreads, OwnUntimed
  <1>4. CASE AdvertiseSend(p)
    <2>1. AuthenticNet'
      BY <1>4, SendCarries DEF AdvertiseSend, AuthenticNet, AuthenticThreads, AdvertiseMsg
    <2>2. QED
      BY <1>4, <2>1 DEF TypeOK, AdvertiseSend, AuthenticThreads, OwnUntimed, Idle
  <1>5. CASE UnadvertiseSend(p)
    <2>1. AuthenticNet'
      BY <1>5, SendCarries
         DEF UnadvertiseSend, AuthenticNet, AuthenticThreads, UnadvertiseMsg
    <2>2. QED
      BY <1>5, <2>1 DEF TypeOK, UnadvertiseSend, AuthenticThreads, OwnUntimed, Idle
  <1>6. CASE DiscoverKnown(p)
    BY <1>6 DEF TypeOK, DiscoverKnown, AuthenticNet, AuthenticThreads, OwnUntimed
  <1>7. CASE DiscoverNotify(p)
    BY <1>7 DEF TypeOK, DiscoverNotify, AuthenticNet, AuthenticThreads, OwnUntimed, Idle
  <1>8. QED
    BY <1>1, <1>2, <1>3, <1>4, <1>5, <1>6, <1>7 DEF UserCalls, UserContinues

\* A relay passes a message on unchanged, with the sender's UUID.
LEMMA AuthenticReceive ==
    ASSUME TypeOK, Authentic, NEW p \in Proc, Receive(p)
    PROVE  Authentic'
  <1>0. PICK pkt \in net : \E rest \in {net, net \ {pkt}} : ReadAs(p, pkt, rest)
    BY DEF Receive
  <1>1. PICK rest \in {net, net \ {pkt}} : ReadAs(p, pkt, rest)
    BY <1>0
  <1>2. recv[p] = Idle /\ user' = user
    BY DEF Receive
  <1>3. /\ IgnoreOwn(p, pkt, rest) => AuthenticNet'
        /\ RelayPacket(p, pkt, rest) => AuthenticNet'
        /\ Dispatched(p, pkt, rest) => AuthenticNet'
    BY <1>1, SendCarries
       DEF IgnoreOwn, RelayPacket, Dispatched, Authentic, AuthenticNet
  <1>4. AuthenticNet'
    BY <1>1, <1>3 DEF ReadAs, ReceiveAdvertise, ReceiveSubscribe, ReceiveHeartbeat,
                      ReceiveBye, ReceiveUnadvertise
  <1>5. pkt.msg.pUuid \in Proc
    BY PacketTypes DEF TypeOK
  <1>6. OwnUntimed'
    <2>1. CASE activity' = activity
      BY <2>1 DEF Authentic, OwnUntimed
    <2>2. CASE pkt.msg.pUuid # p /\ Heard(p, pkt.msg.pUuid)
      BY <1>5, <2>2 DEF TypeOK, Authentic, OwnUntimed, Heard
    <2>3. CASE ReceiveBye(p, pkt, rest)
      BY <1>5, <2>3 DEF TypeOK, Authentic, OwnUntimed, ReceiveBye
    <2>4. QED
      BY <1>1, <2>1, <2>2, <2>3
         DEF ReadAs, IgnoreOwn, RelayPacket, ReceiveAdvertise, ReceiveSubscribe,
             ReceiveHeartbeat, ReceiveUnadvertise, Dispatched
  <1>7. AuthenticThreads'
    <2>1. CASE recv' = recv
      BY <1>2, <2>1 DEF Authentic, AuthenticThreads
    <2>2. CASE ReceiveSubscribe(p, pkt, rest)
      BY <1>2, <2>2 DEF TypeOK, Authentic, AuthenticThreads, ReceiveSubscribe
    <2>3. CASE ReceiveBye(p, pkt, rest)
      BY <1>2, <2>3 DEF TypeOK, Authentic, AuthenticThreads, ReceiveBye, Dispatched
    <2>4. CASE ReceiveUnadvertise(p, pkt, rest)
      <3>1. pkt.msg.pub.pUuid # p
        BY <2>4 DEF Authentic, AuthenticNet, ReceiveUnadvertise, Dispatched
      <3>2. recv' = recv \/ recv' = [recv EXCEPT ![p] = [pc |-> "drop", pub |-> pkt.msg.pub]]
        BY <2>4 DEF ReceiveUnadvertise
      <3>3. QED
        BY <1>2, <3>1, <3>2 DEF TypeOK, Authentic, AuthenticThreads
    <2>5. QED
      BY <1>1, <2>1, <2>2, <2>3, <2>4
         DEF ReadAs, IgnoreOwn, RelayPacket, ReceiveAdvertise, ReceiveHeartbeat
  <1>8. QED
    BY <1>4, <1>6, <1>7 DEF Authentic

LEMMA AuthenticRecv ==
    ASSUME TypeOK, Authentic, NEW p \in Proc, RecvContinues(p)
    PROVE  Authentic'
  <1> USE DEF Authentic
  <1>1. CASE ByeDrop(p)
    BY <1>1 DEF TypeOK, ByeDrop, AuthenticNet, AuthenticThreads, OwnUntimed, Idle
  <1>2. CASE UnadvertiseDrop(p)
    BY <1>2 DEF TypeOK, UnadvertiseDrop, AuthenticNet, AuthenticThreads, OwnUntimed, Idle
  <1>3. CASE SendCopy(p)
    <2>1. PICK pub \in recv[p].pubs :
            /\ net' = net \cup SendMsg(p, AdvertiseMsg(p, pub))
            /\ recv' = [recv EXCEPT ![p] =
                  IF recv[p].pubs \ {pub} = {} /\ @.pc = "answer" THEN Idle
                  ELSE [@ EXCEPT !.pubs = recv[p].pubs \ {pub}]]
      BY <1>3 DEF SendCopy
    <2>2. pub.pUuid = p
      BY <1>3 DEF SendCopy, AuthenticThreads
    <2>3. AuthenticNet'
      BY <2>1, <2>2, SendCarries DEF AuthenticNet, AdvertiseMsg
    <2>4. recv[p] = [pc |-> recv[p].pc, pubs |-> recv[p].pubs]
      BY <1>3, ThreadTypes DEF SendCopy
    <2>5. recv'[p] = Idle \/ recv'[p] = [pc |-> recv[p].pc, pubs |-> recv[p].pubs \ {pub}]
      BY <2>1, <2>4 DEF TypeOK
    <2>6. AuthenticThreads'
      BY <1>3, <2>1, <2>5 DEF TypeOK, SendCopy, AuthenticThreads, Idle
    <2>7. QED
      BY <1>3, <2>3, <2>6 DEF SendCopy, OwnUntimed
  <1>4. CASE Heartbeat(p)
    <2>1. AuthenticNet'
      BY <1>4, SendCarries DEF Heartbeat, AuthenticNet, PlainMsg
    <2>2. QED
      BY <1>4, <2>1 DEF TypeOK, Heartbeat, AuthenticThreads, OwnUntimed, Own, PublishersByProc
  <1>5. CASE EndHeartbeat(p)
    BY <1>5 DEF TypeOK, EndHeartbeat, AuthenticNet, AuthenticThreads, OwnUntimed, Idle
  <1>6. CASE UpdateActivity(p)
    BY <1>6 DEF TypeOK, UpdateActivity, Expired, AuthenticNet, AuthenticThreads, OwnUntimed
  <1>7. QED
    BY <1>1, <1>2, <1>3, <1>4, <1>5, <1>6 DEF RecvContinues

LEMMA AuthenticNext == TypeOK /\ Authentic /\ [Next]_vars => Authentic'
  <1> SUFFICES ASSUME TypeOK, Authentic, [Next]_vars
               PROVE  Authentic'
    OBVIOUS
  <1> USE DEF Authentic, AuthenticNet, AuthenticThreads, OwnUntimed
  <1>1. ASSUME NEW p \in Proc, Start(p) PROVE Authentic'
    BY <1>1 DEF Start
  <1>2. ASSUME NEW p \in Proc, Exit(p) PROVE Authentic'
    BY <1>2, SendCarries DEF TypeOK, Exit, Ended, PlainMsg, Idle
  <1>3. ASSUME NEW p \in Proc, Crash(p) PROVE Authentic'
    BY <1>3 DEF TypeOK, Crash, Ended, Idle
  <1>4. ASSUME NEW p \in Proc, UserCalls(p) \/ UserContinues(p) PROVE Authentic'
    BY <1>4, AuthenticUser
  <1>5. ASSUME NEW p \in Proc, Receive(p) PROVE Authentic'
    BY <1>5, AuthenticReceive
  <1>6. ASSUME NEW p \in Proc, RecvContinues(p) PROVE Authentic'
    BY <1>6, AuthenticRecv
  <1>7. CASE Lose
    BY <1>7 DEF Lose
  <1>8. CASE Tick
    BY <1>8 DEF Tick
  <1>9. CASE UNCHANGED vars
    BY <1>9 DEF vars
  <1>10. QED
    BY <1>1, <1>2, <1>3, <1>4, <1>5, <1>6, <1>7, <1>8, <1>9 DEF Next

-----------------------------------------------------------------------------
(* What is kept is timed and was announced.                                *)

Kept == EveryKnownIsTimed /\ EveryKnownIsAnnounced

\* The two of them, for one entry.
KeptEntry(p, pub) ==
    /\ \/ activity[p][pub.pUuid] # NoEntry
       \/ recv[p] = [pc |-> "bye", pUuid |-> pub.pUuid]
    /\ pub \in announced[p] \/ BeingDropped(p, pub)

LEMMA KeptByEntry ==
    Kept <=> \A p \in Proc : \A pub \in info[p] : pub.pUuid # p => KeptEntry(p, pub)
  BY DEF Kept, KeptEntry, EveryKnownIsTimed, EveryKnownIsAnnounced

LEMMA KeptInit == Init => Kept
  BY DEF Init, Kept, EveryKnownIsTimed, EveryKnownIsAnnounced

\* Steps that add no entry of another process, and take away neither a
\* timestamp nor an announcement nor a pending removal.
LEMMA KeptQuietly ==
    ASSUME Kept,
           \A p \in Proc : \A pub \in info'[p] : pub.pUuid # p => pub \in info[p],
           activity' = activity,
           \A p \in Proc : announced[p] \subseteq announced'[p],
           \A p \in Proc : recv[p].pc \in {"bye", "drop"} => recv'[p] = recv[p]
    PROVE  Kept'
  <1>1. ASSUME NEW p \in Proc, NEW pub \in info'[p], pub.pUuid # p
        PROVE  KeptEntry(p, pub)'
    <2>1. pub \in info[p] /\ KeptEntry(p, pub)
      BY <1>1, KeptByEntry
    <2>2. QED
      BY <2>1 DEF KeptEntry, BeingDropped
  <1>2. \A p \in Proc : \A pub \in info'[p] : pub.pUuid # p => KeptEntry(p, pub)'
    BY <1>1
  <1>3. EveryKnownIsTimed'
    BY <1>2 DEF EveryKnownIsTimed, KeptEntry
  <1>4. EveryKnownIsAnnounced'
    BY <1>2 DEF EveryKnownIsAnnounced, KeptEntry
  <1>5. QED
    BY <1>3, <1>4 DEF Kept

LEMMA KeptUser ==
    ASSUME TypeOK, Authentic, Kept, NEW p \in Proc, UserCalls(p) \/ UserContinues(p)
    PROVE  Kept'
  <1>1. /\ activity' = activity /\ recv' = recv
        /\ \A q \in Proc : announced[q] \subseteq announced'[q]
    <2>1. /\ activity' = activity /\ recv' = recv
          /\ \/ announced' = announced
             \/ \E more : announced' = [announced EXCEPT ![p] = @ \cup more]
      BY DEF UserCalls, UserContinues, Advertise, Unadvertise, Discover,
             AdvertiseSend, UnadvertiseSend, DiscoverKnown, DiscoverNotify
    <2>2. QED
      BY <2>1 DEF TypeOK
  <1>2. \A q \in Proc : \A pub \in info'[q] : pub.pUuid # q => pub \in info[q]
    <2>1. ASSUME NEW pub \in Publisher, Advertise(p, pub)
          PROVE  \A q \in Proc : \A k \in info'[q] : k.pUuid # q => k \in info[q]
      BY <2>1 DEF TypeOK, Advertise, AddPublisher
    <2>2. ASSUME NEW pub \in Publisher, Unadvertise(p, pub)
          PROVE  \A q \in Proc : \A k \in info'[q] : k \in info[q]
      BY <2>2 DEF TypeOK, Unadvertise, DelPublisherByNode
    <2>3. CASE info' = info
      BY <2>3
    <2>4. QED
      BY <2>1, <2>2, <2>3
         DEF UserCalls, UserContinues, Discover, AdvertiseSend, UnadvertiseSend,
             DiscoverKnown, DiscoverNotify
  <1>3. QED
    BY <1>1, <1>2, KeptQuietly

\* Timestamps survive every datagram but BYE.
LEMMA HeardKeeps ==
    ASSUME TypeOK, NEW p \in Proc, NEW q \in Proc, Heard(p, q)
    PROVE  /\ \A r \in Proc \ {p} : activity'[r] = activity[r]
           /\ \A r \in Proc : activity[p][r] # NoEntry => activity'[p][r] # NoEntry
           /\ activity'[p][q] # NoEntry
  BY ParameterAssumption DEF TypeOK, Heard

LEMMA KeptReceive ==
    ASSUME TypeOK, Authentic, Kept, NEW p \in Proc, Receive(p)
    PROVE  Kept'
  <1>0. PICK pkt \in net : \E rest \in {net, net \ {pkt}} : ReadAs(p, pkt, rest)
    BY DEF Receive
  <1>1. PICK rest \in {net, net \ {pkt}} : ReadAs(p, pkt, rest)
    BY <1>0
  <1> DEFINE from == pkt.msg.pUuid
  <1>2. recv[p] = Idle
    BY DEF Receive
  <1>3. /\ from \in Proc
        /\ pkt.msg.type \in {"ADVERTISE", "UNADVERTISE"}
               => pkt.msg.pub \in Publisher /\ pkt.msg.pub.pUuid = from
    BY PacketTypes DEF TypeOK, Authentic, AuthenticNet
  <1>4. SUFFICES ASSUME NEW q \in Proc, NEW pub \in info'[q], pub.pUuid # q
                 PROVE  KeptEntry(q, pub)'
    BY DEF Kept, EveryKnownIsTimed, EveryKnownIsAnnounced, KeptEntry
  <1>5. CASE q # p
    <2>1. /\ info'[q] = info[q] /\ recv'[q] = recv[q]
          /\ announced'[q] = announced[q] /\ activity'[q] = activity[q]
      BY <1>1, <1>3, <1>5
         DEF TypeOK, ReadAs, IgnoreOwn, RelayPacket, ReceiveAdvertise, ReceiveSubscribe,
             ReceiveHeartbeat, ReceiveBye, ReceiveUnadvertise, Heard, ForgetProc
    <2>2. KeptEntry(q, pub)
      BY <2>1, <1>4, KeptByEntry
    <2>3. QED
      BY <2>1, <2>2 DEF KeptEntry, BeingDropped
  <1>6. CASE q = p
    <2>0. ASSUME pub \in info[p]
          PROVE  activity[p][pub.pUuid] # NoEntry /\ pub \in announced[p]
      <3>1. recv[p].pc = "idle"
        BY <1>2 DEF Idle
      <3>2. recv[p] # [pc |-> "bye", pUuid |-> pub.pUuid] /\ ~BeingDropped(p, pub)
        BY <3>1 DEF BeingDropped
      <3>3. KeptEntry(p, pub)
        BY <1>4, <1>6, <2>0, KeptByEntry
      <3>4. QED
        BY <3>2, <3>3 DEF KeptEntry
    <2>p. pub \in info[p] => pub \in Publisher /\ pub.pUuid \in Proc
      BY DEF TypeOK, Publisher
    <2>1. CASE UNCHANGED <<info, activity, recv, announced>>
      BY <1>4, <1>6, <2>0, <2>1 DEF KeptEntry
    <2>2. CASE ReceiveAdvertise(p, pkt, rest)
      <3>1. Heard(p, from)
        BY <2>2 DEF ReceiveAdvertise
      <3>2. CASE pub \in info[p]
        BY <1>3, <1>6, <2>0, <2>p, <2>2, <3>1, <3>2, HeardKeeps
           DEF TypeOK, ReceiveAdvertise, KeptEntry
      <3>3. CASE pub \notin info[p]
        <4>1. pub = pkt.msg.pub /\ pub \in announced'[p]
          BY <1>3, <1>4, <1>6, <2>2, <3>3 DEF TypeOK, ReceiveAdvertise, AddPublisher
        <4>2. pub.pUuid = from
          BY <1>3, <2>2, <4>1 DEF ReceiveAdvertise
        <4>3. QED
          BY <1>3, <1>6, <3>1, <4>1, <4>2, HeardKeeps DEF KeptEntry
      <3>4. QED
        BY <3>2, <3>3
    <2>3. CASE ReceiveSubscribe(p, pkt, rest) \/ ReceiveHeartbeat(p, pkt, rest)
      <3>1. Heard(p, from) /\ info' = info /\ announced' = announced
        BY <2>3 DEF ReceiveSubscribe, ReceiveHeartbeat
      <3>2. QED
        BY <1>3, <1>4, <1>6, <2>0, <2>p, <3>1, HeardKeeps DEF KeptEntry
    <2>4. CASE ReceiveBye(p, pkt, rest)
      <3>1. /\ info' = info
            /\ recv'[p] = [pc |-> "bye", pUuid |-> from]
            /\ announced'[p] = DelPublishersByProc(announced[p], from)
            /\ \A r \in Proc : r # from => activity'[p][r] = activity[p][r]
        BY <1>3, <2>4 DEF TypeOK, ReceiveBye, ForgetProc
      <3>2. QED
        BY <1>4, <1>6, <2>0, <2>p, <3>1
           DEF KeptEntry, BeingDropped, DelPublishersByProc, PublishersByProc
    <2>5. CASE ReceiveUnadvertise(p, pkt, rest)
      <3>1. Heard(p, from) /\ info' = info
        BY <2>5 DEF ReceiveUnadvertise
      <3>2. activity'[p][pub.pUuid] # NoEntry
        BY <1>3, <1>4, <1>6, <2>0, <2>p, <3>1, HeardKeeps
      <3>3. \/ announced'[p] = announced[p]
            \/ /\ announced'[p] = DelPublisherByNode(announced[p], pkt.msg.pub.topic,
                                      pkt.msg.pub.pUuid, pkt.msg.pub.nUuid)
               /\ recv'[p] = [pc |-> "drop", pub |-> pkt.msg.pub]
        BY <2>5 DEF TypeOK, ReceiveUnadvertise
      <3>4. QED
        BY <1>4, <1>6, <2>0, <3>1, <3>2, <3>3
           DEF KeptEntry, BeingDropped, DelPublisherByNode, ByNode
    <2>6. QED
      BY <1>1, <2>1, <2>2, <2>3, <2>4, <2>5 DEF ReadAs, IgnoreOwn, RelayPacket
  <1>7. QED
    BY <1>5, <1>6

LEMMA KeptRecv ==
    ASSUME TypeOK, Authentic, Kept, NEW p \in Proc, RecvContinues(p)
    PROVE  Kept'
  <1>1. CASE SendCopy(p) \/ Heartbeat(p) \/ EndHeartbeat(p)
    <2>1. /\ info' = info /\ activity' = activity /\ announced' = announced
          /\ \A q \in Proc \ {p} : recv'[q] = recv[q]
          /\ recv[p].pc \notin {"bye", "drop"}
      BY <1>1 DEF TypeOK, SendCopy, Heartbeat, EndHeartbeat, Idle
    <2>2. QED
      BY <2>1, KeptQuietly
  <1>2. CASE ByeDrop(p) \/ UnadvertiseDrop(p)
    <2>1. /\ activity' = activity /\ announced' = announced
          /\ \A q \in Proc \ {p} : info'[q] = info[q] /\ recv'[q] = recv[q]
          /\ info'[p] \subseteq info[p]
      BY <1>2 DEF TypeOK, ByeDrop, UnadvertiseDrop, DelPublishersByProc, DelPublisherByNode
    <2>2. SUFFICES ASSUME NEW q \in Proc, NEW pub \in info'[q], pub.pUuid # q
                   PROVE  KeptEntry(q, pub)'
      BY DEF Kept, EveryKnownIsTimed, EveryKnownIsAnnounced, KeptEntry
    <2>3. pub \in info[q] /\ KeptEntry(q, pub)
      BY <2>1, <2>2, KeptByEntry
    <2>4. CASE q # p
      BY <2>1, <2>3, <2>4 DEF KeptEntry, BeingDropped
    <2>5. CASE q = p
      <3>1. recv[p] # [pc |-> "bye", pUuid |-> pub.pUuid] /\ ~BeingDropped(p, pub)
        <4>1. CASE ByeDrop(p)
          BY <2>2, <2>5, <4>1
             DEF TypeOK, ByeDrop, BeingDropped, DelPublishersByProc, PublishersByProc
        <4>2. CASE UnadvertiseDrop(p)
          BY <2>2, <2>5, <4>2
             DEF TypeOK, UnadvertiseDrop, BeingDropped, DelPublisherByNode, ByNode
        <4>3. QED
          BY <1>2, <4>1, <4>2
      <3>2. QED
        BY <2>1, <2>3, <2>5, <3>1 DEF KeptEntry
    <2>6. QED
      BY <2>4, <2>5
  <1>3. CASE UpdateActivity(p)
    <2>1. /\ recv' = recv
          /\ \A q \in Proc \ {p} : /\ info'[q] = info[q] /\ activity'[q] = activity[q]
                                   /\ announced'[q] = announced[q]
          /\ info'[p] = { pub \in info[p] : pub.pUuid \notin Expired(p) }
          /\ announced'[p] = { pub \in announced[p] : pub.pUuid \notin Expired(p) }
          /\ \A q \in Proc \ Expired(p) : activity'[p][q] = activity[p][q]
      BY <1>3 DEF TypeOK, UpdateActivity
    <2>2. SUFFICES ASSUME NEW q \in Proc, NEW pub \in info'[q], pub.pUuid # q
                   PROVE  KeptEntry(q, pub)'
      BY DEF Kept, EveryKnownIsTimed, EveryKnownIsAnnounced, KeptEntry
    <2>3. pub \in info[q] /\ KeptEntry(q, pub) /\ pub.pUuid \in Proc
      BY <2>1, <2>2, KeptByEntry DEF TypeOK, Publisher
    <2>4. QED
      BY <2>1, <2>2, <2>3 DEF KeptEntry, BeingDropped
  <1>4. QED
    BY <1>1, <1>2, <1>3 DEF RecvContinues

LEMMA KeptEnd ==
    ASSUME TypeOK, Kept, NEW p \in Proc, NEW sent, Ended(p, sent)
    PROVE  Kept'
  <1>1. /\ \A q \in Proc \ {p} : /\ info'[q] = info[q] /\ activity'[q] = activity[q]
                                 /\ announced'[q] = announced[q] /\ recv'[q] = recv[q]
        /\ info'[p] = {}
    BY DEF TypeOK, Ended
  <1>2. SUFFICES ASSUME NEW q \in Proc, NEW pub \in info'[q], pub.pUuid # q
                 PROVE  KeptEntry(q, pub)'
    BY DEF Kept, EveryKnownIsTimed, EveryKnownIsAnnounced, KeptEntry
  <1>3. q # p /\ KeptEntry(q, pub)
    BY <1>1, <1>2, KeptByEntry
  <1>4. QED
    BY <1>1, <1>3 DEF KeptEntry, BeingDropped

LEMMA KeptTick ==
    ASSUME TypeOK, Kept, Tick
    PROVE  Kept'
  <1>1. \A p, q \in Proc : activity[p][q] # NoEntry => activity'[p][q] # NoEntry
    BY ParameterAssumption DEF TypeOK, Tick
  <1>2. SUFFICES ASSUME NEW q \in Proc, NEW pub \in info'[q], pub.pUuid # q
                 PROVE  KeptEntry(q, pub)'
    BY DEF Kept, EveryKnownIsTimed, EveryKnownIsAnnounced, KeptEntry
  <1>3. pub \in info[q] /\ KeptEntry(q, pub) /\ pub.pUuid \in Proc
    BY <1>2, KeptByEntry DEF TypeOK, Publisher, Tick
  <1>4. QED
    BY <1>1, <1>3 DEF KeptEntry, BeingDropped, Tick

LEMMA KeptNext == TypeOK /\ Authentic /\ Kept /\ [Next]_vars => Kept'
  <1> SUFFICES ASSUME TypeOK, Authentic, Kept, [Next]_vars
               PROVE  Kept'
    OBVIOUS
  <1>1. ASSUME NEW p \in Proc, Start(p) PROVE Kept'
    BY <1>1, KeptQuietly DEF Start
  <1>2. ASSUME NEW p \in Proc, Exit(p) \/ Crash(p) PROVE Kept'
    BY <1>2, KeptEnd DEF Exit, Crash
  <1>3. ASSUME NEW p \in Proc, UserCalls(p) \/ UserContinues(p) PROVE Kept'
    BY <1>3, KeptUser
  <1>4. ASSUME NEW p \in Proc, Receive(p) PROVE Kept'
    BY <1>4, KeptReceive
  <1>5. ASSUME NEW p \in Proc, RecvContinues(p) PROVE Kept'
    BY <1>5, KeptRecv
  <1>6. CASE Lose \/ UNCHANGED vars
    BY <1>6, KeptQuietly DEF Lose, vars
  <1>7. CASE Tick
    BY <1>7, KeptTick
  <1>8. QED
    BY <1>1, <1>2, <1>3, <1>4, <1>5, <1>6, <1>7 DEF Next

\* The inductive invariant.
IInv == TypeOK /\ Authentic /\ Kept

LEMMA Inductive == Spec => []IInv
  <1>1. Init => IInv
    BY TypeInit, AuthenticInit, KeptInit DEF IInv
  <1>2. IInv /\ [Next]_vars => IInv'
    BY TypeNext, AuthenticNext, KeptNext DEF IInv
  <1>3. QED
    BY <1>1, <1>2, PTL DEF Spec

\* Whatever the network does, a process never keeps a publisher of another
\* process whose silence it does not time: UpdateActivity can always remove it.
THEOREM KnownIsTimed == Spec => []EveryKnownIsTimed
  BY Inductive, PTL DEF IInv, Kept

\* And the client of discovery knows of every publisher kept.
THEOREM KnownIsAnnounced == Spec => []EveryKnownIsAnnounced
  BY Inductive, PTL DEF IInv, Kept

-----------------------------------------------------------------------------
(* Only the user thread changes what its process publishes.                *)

OwnStep ==
    \A p \in Proc : user'[p] = user[p] /\ state'[p] = state[p] => Own(p)' = Own(p)

LEMMA OwnUser ==
    ASSUME TypeOK, NEW p \in Proc, UserCalls(p) \/ UserContinues(p)
    PROVE  OwnStep
  <1>1. \A q \in Proc \ {p} : info'[q] = info[q]
    BY DEF TypeOK, UserCalls, UserContinues, Advertise, Unadvertise, Discover,
           AdvertiseSend, UnadvertiseSend, DiscoverKnown, DiscoverNotify
  <1>2. user'[p] # user[p] \/ info' = info
    <2>1. ASSUME NEW pub \in Publisher, Advertise(p, pub)
          PROVE  user[p].pc = "idle" /\ user'[p].pc = "advertise"
      BY <2>1 DEF TypeOK, Advertise, CanCall, Idle
    <2>2. ASSUME NEW pub \in Publisher, Unadvertise(p, pub)
          PROVE  user[p].pc = "idle" /\ user'[p].pc = "unadvertise"
      BY <2>2 DEF TypeOK, Unadvertise, CanCall, Idle
    <2>3. (\E topic \in Topic : Discover(p, topic)) \/ UserContinues(p) => info' = info
      BY DEF UserContinues, Discover, AdvertiseSend, UnadvertiseSend, DiscoverKnown,
             DiscoverNotify
    <2>4. QED
      BY <2>1, <2>2, <2>3 DEF UserCalls
  <1>3. QED
    BY <1>1, <1>2 DEF OwnStep, Own

LEMMA OwnReceive ==
    ASSUME IInv, NEW p \in Proc, Receive(p)
    PROVE  OwnStep
  <1>0. PICK pkt \in net : \E rest \in {net, net \ {pkt}} : ReadAs(p, pkt, rest)
    BY DEF Receive
  <1>1. PICK rest \in {net, net \ {pkt}} : ReadAs(p, pkt, rest)
    BY <1>0
  <1>2. CASE info' = info
    BY <1>2 DEF OwnStep, Own
  <1>3. CASE ReceiveAdvertise(p, pkt, rest)
    <2>1. pkt.msg.pub.pUuid # p
      BY <1>3 DEF IInv, Authentic, AuthenticNet, ReceiveAdvertise, Dispatched
    <2>2. \/ info' = info
          \/ info' = [info EXCEPT ![p] = AddPublisher(@, pkt.msg.pub)]
      BY <1>3 DEF ReceiveAdvertise
    <2>3. QED
      BY <2>1, <2>2 DEF IInv, TypeOK, OwnStep, Own, PublishersByProc, AddPublisher
  <1>4. QED
    BY <1>1, <1>2, <1>3
       DEF ReadAs, IgnoreOwn, RelayPacket, ReceiveSubscribe, ReceiveHeartbeat, ReceiveBye,
           ReceiveUnadvertise

LEMMA OwnRecv ==
    ASSUME IInv, NEW p \in Proc, RecvContinues(p)
    PROVE  OwnStep
  <1>1. CASE info' = info
    BY <1>1 DEF OwnStep, Own
  <1>2. CASE ByeDrop(p)
    BY <1>2 DEF IInv, TypeOK, Authentic, AuthenticThreads, OwnStep, Own, ByeDrop,
                DelPublishersByProc, PublishersByProc
  <1>3. CASE UnadvertiseDrop(p)
    BY <1>3 DEF IInv, TypeOK, Authentic, AuthenticThreads, OwnStep, Own, UnadvertiseDrop,
                DelPublisherByNode, ByNode, PublishersByProc
  <1>4. CASE UpdateActivity(p)
    <2>1. p \notin Expired(p)
      BY DEF IInv, Authentic, OwnUntimed, Expired
    <2>2. QED
      BY <1>4, <2>1 DEF IInv, TypeOK, UpdateActivity, OwnStep, Own, PublishersByProc
  <1>5. QED
    BY <1>1, <1>2, <1>3, <1>4 DEF RecvContinues, SendCopy, Heartbeat, EndHeartbeat

LEMMA OwnNext == IInv /\ [Next]_vars => OwnStep
  <1> SUFFICES ASSUME IInv, [Next]_vars
               PROVE  OwnStep
    OBVIOUS
  <1>1. ASSUME NEW p \in Proc, Start(p) PROVE OwnStep
    BY <1>1 DEF Start, OwnStep, Own
  <1>2. ASSUME NEW p \in Proc, Exit(p) \/ Crash(p) PROVE OwnStep
    <2>1. state[p] = "up" /\ state'[p] = "gone" /\ \A q \in Proc \ {p} : info'[q] = info[q]
      BY <1>2 DEF IInv, TypeOK, Exit, Crash, Ended, CanEnd, Up
    <2>2. QED
      BY <2>1 DEF OwnStep, Own
  <1>3. ASSUME NEW p \in Proc, UserCalls(p) \/ UserContinues(p) PROVE OwnStep
    BY <1>3, OwnUser DEF IInv
  <1>4. ASSUME NEW p \in Proc, Receive(p) PROVE OwnStep
    BY <1>4, OwnReceive
  <1>5. ASSUME NEW p \in Proc, RecvContinues(p) PROVE OwnStep
    BY <1>5, OwnRecv
  <1>6. CASE Lose \/ Tick \/ UNCHANGED vars
    BY <1>6 DEF Lose, Tick, vars, OwnStep, Own
  <1>7. QED
    BY <1>1, <1>2, <1>3, <1>4, <1>5, <1>6 DEF Next

\* No datagram and no expiry ever changes what a process itself publishes.
THEOREM OwnIsTheUsers == Spec => OwnOnlyByUser
  <1>1. IInv /\ [Next]_vars => [OwnStep]_vars
    BY OwnNext
  <1>2. QED
    BY <1>1, Inductive, PTL DEF Spec, OwnOnlyByUser, OwnStep

-----------------------------------------------------------------------------
(* Without relays, scopes are respected.                                   *)

NoRelays == \A p \in Proc : Relays[p] = {}

\* No datagram is relayed, so each comes from the host of the process it
\* speaks for; and what is kept is in scope.
Direct ==
    /\ \A p \in Proc : relayAddrs[p] = {}
    /\ \A pkt \in net : pkt.flag = "NONE" /\ pkt.from = HostOf[pkt.msg.pUuid]
    /\ ScopeRespected

LEMMA DirectSend ==
    ASSUME NEW p \in Proc, relayAddrs[p] = {}, NEW msg, msg.pUuid = p
    PROVE  /\ SendUnicast(p, msg) = {}
           /\ \A pkt \in SendMsg(p, msg) : /\ pkt.flag = "NONE"
                                           /\ pkt.from = HostOf[pkt.msg.pUuid]
  BY DEF SendUnicast, SendMsg, SendMulticast

\* What every step does to the network and the tables, as far as scopes go.
QuietForScopes ==
    /\ relayAddrs' = relayAddrs
    /\ \A pkt \in net' : pkt.flag = "NONE" /\ pkt.from = HostOf[pkt.msg.pUuid]
    /\ \A p \in Proc : \A pub \in info'[p] : pub.pUuid = p \/ pub \in info[p]

LEMMA DirectQuietly == Direct /\ QuietForScopes => Direct'
  BY DEF Direct, QuietForScopes, ScopeRespected

LEMMA DirectUser ==
    ASSUME TypeOK, Direct, NEW p \in Proc, UserCalls(p) \/ UserContinues(p)
    PROVE  QuietForScopes
  <1>1. relayAddrs' = relayAddrs
    BY DEF UserCalls, UserContinues, Advertise, Unadvertise, Discover, AdvertiseSend,
           UnadvertiseSend, DiscoverKnown, DiscoverNotify
  <1>2. \A pkt \in net' : pkt.flag = "NONE" /\ pkt.from = HostOf[pkt.msg.pUuid]
    <2>1. \/ net' = net
          \/ \E topic \in Topic : net' = net \cup SendMsg(p, SubscribeMsg(p, topic))
          \/ net' = net \cup SendMsg(p, AdvertiseMsg(p, user[p].pub))
          \/ net' = net \cup SendMsg(p, UnadvertiseMsg(p, user[p].pub))
      BY DEF UserCalls, UserContinues, Advertise, Unadvertise, Discover, AdvertiseSend,
             UnadvertiseSend, DiscoverKnown, DiscoverNotify
    <2>2. \A msg : msg.pUuid = p =>
              \A pkt \in SendMsg(p, msg) : pkt.flag = "NONE" /\ pkt.from = HostOf[pkt.msg.pUuid]
      BY DirectSend DEF Direct
    <2>3. /\ \A pub : AdvertiseMsg(p, pub).pUuid = p /\ UnadvertiseMsg(p, pub).pUuid = p
          /\ \A topic : SubscribeMsg(p, topic).pUuid = p
      BY DEF AdvertiseMsg, UnadvertiseMsg, SubscribeMsg
    <2>4. QED
      BY <2>1, <2>2, <2>3 DEF Direct
  <1>3. \A q \in Proc : \A pub \in info'[q] : pub.pUuid = q \/ pub \in info[q]
    <2>1. ASSUME NEW pub \in Publisher, Advertise(p, pub)
          PROVE  \A q \in Proc : \A k \in info'[q] : k.pUuid = q \/ k \in info[q]
      BY <2>1 DEF TypeOK, Advertise, AddPublisher
    <2>2. ASSUME NEW pub \in Publisher, Unadvertise(p, pub)
          PROVE  \A q \in Proc : \A k \in info'[q] : k \in info[q]
      BY <2>2 DEF TypeOK, Unadvertise, DelPublisherByNode
    <2>3. QED
      BY <2>1, <2>2 DEF UserCalls, UserContinues, Discover, AdvertiseSend,
                        UnadvertiseSend, DiscoverKnown, DiscoverNotify
  <1>4. QED
    BY <1>1, <1>2, <1>3 DEF QuietForScopes

LEMMA DirectReceive ==
    ASSUME TypeOK, Authentic, Direct, NEW p \in Proc, Receive(p)
    PROVE  Direct'
  <1>0. PICK pkt \in net : \E rest \in {net, net \ {pkt}} : ReadAs(p, pkt, rest)
    BY DEF Receive
  <1>1. PICK rest \in {net, net \ {pkt}} : ReadAs(p, pkt, rest)
    BY <1>0
  <1>2. pkt.flag = "NONE" /\ pkt.from = HostOf[pkt.msg.pUuid]
    BY DEF Direct
  <1>3. SendUnicast(p, pkt.msg) = {}
    BY DEF Direct, SendUnicast
  <1>4. net' \subseteq net /\ relayAddrs' = relayAddrs
    BY <1>1, <1>2, <1>3
       DEF ReadAs, IgnoreOwn, RelayPacket, ReceiveAdvertise, ReceiveSubscribe,
           ReceiveHeartbeat, ReceiveBye, ReceiveUnadvertise, Dispatched
  <1>5. CASE info' = info
    BY <1>4, <1>5 DEF Direct, ScopeRespected
  <1>6. CASE ReceiveAdvertise(p, pkt, rest) /\ info' # info
    <2>1. /\ InScope(p, pkt.msg.pub, pkt.from)
          /\ info' = [info EXCEPT ![p] = AddPublisher(@, pkt.msg.pub)]
          /\ pkt.msg.pub.pUuid = pkt.msg.pUuid
      BY <1>6 DEF ReceiveAdvertise, Authentic, AuthenticNet
    <2>2. LET pub == pkt.msg.pub IN
            /\ pub.scope # "PROCESS"
            /\ pub.scope = "HOST" => HostOf[p] = HostOf[pub.pUuid]
      BY <1>2, <2>1 DEF InScope
    <2>3. ScopeRespected'
      BY <2>1, <2>2 DEF TypeOK, Direct, ScopeRespected, AddPublisher
    <2>4. QED
      BY <1>4, <2>3 DEF Direct
  <1>7. QED
    BY <1>1, <1>5, <1>6
       DEF ReadAs, IgnoreOwn, RelayPacket, ReceiveSubscribe, ReceiveHeartbeat, ReceiveBye,
           ReceiveUnadvertise

LEMMA DirectRecv ==
    ASSUME TypeOK, Direct, NEW p \in Proc, RecvContinues(p)
    PROVE  QuietForScopes
  <1>1. relayAddrs' = relayAddrs
    BY DEF RecvContinues, ByeDrop, UnadvertiseDrop, SendCopy, Heartbeat, EndHeartbeat,
           UpdateActivity
  <1>2. \A pkt \in net' : pkt.flag = "NONE" /\ pkt.from = HostOf[pkt.msg.pUuid]
    <2>1. \/ net' = net
          \/ \E pub : net' = net \cup SendMsg(p, AdvertiseMsg(p, pub))
          \/ net' = net \cup SendMsg(p, PlainMsg(p, "HEARTBEAT"))
      BY DEF RecvContinues, ByeDrop, UnadvertiseDrop, SendCopy, Heartbeat, EndHeartbeat,
             UpdateActivity
    <2>2. \A msg : msg.pUuid = p =>
              \A pkt \in SendMsg(p, msg) : pkt.flag = "NONE" /\ pkt.from = HostOf[pkt.msg.pUuid]
      BY DirectSend DEF Direct
    <2>3. (\A pub : AdvertiseMsg(p, pub).pUuid = p) /\ PlainMsg(p, "HEARTBEAT").pUuid = p
      BY DEF AdvertiseMsg, PlainMsg
    <2>4. QED
      BY <2>1, <2>2, <2>3 DEF Direct
  <1>3. \A q \in Proc : info'[q] \subseteq info[q]
    <2>1. CASE ByeDrop(p)
      BY <2>1 DEF TypeOK, ByeDrop, DelPublishersByProc
    <2>2. CASE UnadvertiseDrop(p)
      BY <2>2 DEF TypeOK, UnadvertiseDrop, DelPublisherByNode
    <2>3. CASE UpdateActivity(p)
      BY <2>3 DEF TypeOK, UpdateActivity
    <2>4. QED
      BY <2>1, <2>2, <2>3 DEF RecvContinues, SendCopy, Heartbeat, EndHeartbeat
  <1>4. QED
    BY <1>1, <1>2, <1>3 DEF QuietForScopes

LEMMA DirectEnd ==
    ASSUME TypeOK, Direct, NEW p \in Proc, Exit(p) \/ Crash(p)
    PROVE  Direct'
  <1>1. /\ relayAddrs' = [relayAddrs EXCEPT ![p] = {}]
        /\ info' = [info EXCEPT ![p] = {}]
        /\ net' \subseteq net \cup SendMsg(p, PlainMsg(p, "BYE"))
    BY DEF Exit, Crash, Ended
  <1>2. \A pkt \in net' : pkt.flag = "NONE" /\ pkt.from = HostOf[pkt.msg.pUuid]
    BY <1>1, DirectSend DEF Direct, PlainMsg
  <1>3. QED
    BY <1>1, <1>2 DEF TypeOK, Direct, ScopeRespected

LEMMA DirectInit == Init => Direct
  BY DEF Init, Direct, ScopeRespected

LEMMA DirectNext ==
    ASSUME NoRelays, IInv, Direct, [Next]_vars
    PROVE  Direct'
  <1>1. ASSUME NEW p \in Proc, Start(p) PROVE Direct'
    BY <1>1, NoRelays DEF Start, NoRelays, Direct, ScopeRespected, IInv, TypeOK
  <1>2. ASSUME NEW p \in Proc, Exit(p) \/ Crash(p) PROVE Direct'
    BY <1>2, DirectEnd DEF IInv
  <1>3. ASSUME NEW p \in Proc, UserCalls(p) \/ UserContinues(p) PROVE Direct'
    BY <1>3, DirectUser, DirectQuietly DEF IInv
  <1>4. ASSUME NEW p \in Proc, Receive(p) PROVE Direct'
    BY <1>4, DirectReceive DEF IInv
  <1>5. ASSUME NEW p \in Proc, RecvContinues(p) PROVE Direct'
    BY <1>5, DirectRecv, DirectQuietly DEF IInv
  <1>6. CASE Lose \/ Tick \/ UNCHANGED vars
    BY <1>6 DEF Lose, Tick, vars, Direct, ScopeRespected
  <1>7. QED
    BY <1>1, <1>2, <1>3, <1>4, <1>5, <1>6 DEF Next

\* With no relay configured, a publisher of scope PROCESS or HOST never reaches
\* another process, or another machine: the filter of DispatchDiscoveryMsg is
\* enough although UpdateHeartbeat sends ADVERTISE whatever the scope.
THEOREM ScopeWithoutRelays == ASSUME NoRelays PROVE Spec => []ScopeRespected
  <1>1. IInv /\ Direct /\ [Next]_vars => Direct'
    BY NoRelays, DirectNext
  <1>2. QED
    BY <1>1, DirectInit, Inductive, PTL DEF Spec, Direct

-----------------------------------------------------------------------------
(* Relays do not echo.                                                     *)

\* Where a datagram may come from: a plain one goes to a member of its author's
\* multicast group, and one that asks to be relayed was sent by the author or
\* by such a member.
Relayable(pkt) ==
    /\ pkt.flag = "NONE" => pkt.to \in Group[pkt.msg.pUuid]
    /\ pkt.flag = "RELAY" =>
           \E p \in Proc : /\ HostOf[p] = pkt.from
                           /\ p = pkt.msg.pUuid \/ p \in Group[pkt.msg.pUuid]

Relayed == \A pkt \in net : Relayable(pkt)

LEMMA RelayableSend ==
    ASSUME NEW p \in Proc, NEW msg, msg.pUuid = p
    PROVE  \A pkt \in SendMsg(p, msg) : Relayable(pkt)
  <1>1. \A pkt \in SendMulticast(p, msg, "NONE") : Relayable(pkt)
    BY DEF SendMulticast, Relayable
  <1>2. \A pkt \in SendUnicast(p, msg) : Relayable(pkt)
    BY DEF SendUnicast, Relayable
  <1>3. QED
    BY <1>1, <1>2 DEF SendMsg

\* What a step of p other than a reception puts on the network is a message of
\* its own.
SendsOwn(p) ==
    \/ net' \subseteq net
    \/ \E msg : msg.pUuid = p /\ net' \subseteq net \cup SendMsg(p, msg)

LEMMA OwnMessages ==
    ASSUME NEW p \in Proc,
           \/ Start(p) \/ Exit(p) \/ Crash(p)
           \/ UserCalls(p) \/ UserContinues(p) \/ RecvContinues(p)
    PROVE  SendsOwn(p)
  <1>1. /\ \A pub : AdvertiseMsg(p, pub).pUuid = p /\ UnadvertiseMsg(p, pub).pUuid = p
        /\ \A topic : SubscribeMsg(p, topic).pUuid = p
        /\ \A type : PlainMsg(p, type).pUuid = p
    BY DEF AdvertiseMsg, UnadvertiseMsg, SubscribeMsg, PlainMsg
  <1>2. \/ net' \subseteq net
        \/ \E topic \in Topic : net' = net \cup SendMsg(p, SubscribeMsg(p, topic))
        \/ \E pub : net' = net \cup SendMsg(p, AdvertiseMsg(p, pub))
        \/ net' = net \cup SendMsg(p, UnadvertiseMsg(p, user[p].pub))
        \/ \E type : net' \subseteq net \cup SendMsg(p, PlainMsg(p, type))
    <2>1. CASE Start(p)
      BY <2>1 DEF Start
    <2>2. CASE Exit(p)
      BY <2>2 DEF Exit, Ended
    <2>3. CASE Crash(p)
      BY <2>3 DEF Crash, Ended
    <2>4. CASE UserCalls(p)
      BY <2>4 DEF UserCalls, Advertise, Unadvertise, Discover
    <2>5. CASE UserContinues(p)
      BY <2>5 DEF UserContinues, AdvertiseSend, UnadvertiseSend, DiscoverKnown,
                  DiscoverNotify
    <2>6. CASE RecvContinues(p)
      BY <2>6 DEF RecvContinues, ByeDrop, UnadvertiseDrop, SendCopy, Heartbeat,
                  EndHeartbeat, UpdateActivity
    <2>7. QED
      BY <2>1, <2>2, <2>3, <2>4, <2>5, <2>6
  <1>3. QED
    BY <1>1, <1>2 DEF SendsOwn

\* A plain datagram is relayed by a process it was addressed to; one that asks
\* to be relayed is not relayed twice.
LEMMA RelayedReceive ==
    ASSUME TypeOK, Relayed, NEW p \in Proc, Receive(p)
    PROVE  Relayed'
  <1>0. PICK pkt \in { k \in net : k.to = p } :
             \E rest \in {net, net \ {pkt}} : ReadAs(p, pkt, rest)
    BY DEF Receive
  <1>1. PICK rest \in {net, net \ {pkt}} : ReadAs(p, pkt, rest)
    BY <1>0
  <1>2. \A k \in rest : Relayable(k)
    BY DEF Relayed
  <1>3. CASE net' = rest
    BY <1>2, <1>3 DEF Relayed, Relayable
  <1>4. CASE RelayPacket(p, pkt, rest)
    <2>1. \A k \in SendMulticast(p, pkt.msg, "NO_RELAY") : k.flag = "NO_RELAY"
      BY DEF SendMulticast
    <2>2. QED
      BY <1>2, <1>4, <2>1 DEF RelayPacket, Relayed, Relayable
  <1>5. CASE Dispatched(p, pkt, rest)
    <2>1. CASE pkt.flag = "NONE"
      <3>1. p \in Group[pkt.msg.pUuid]
        BY <2>1 DEF Relayed, Relayable
      <3>2. \A k \in SendUnicast(p, pkt.msg) : Relayable(k)
        BY <3>1 DEF SendUnicast, Relayable
      <3>3. QED
        BY <1>2, <1>5, <2>1, <3>2 DEF Dispatched, Relayed, Relayable
    <2>2. CASE pkt.flag # "NONE"
      BY <1>2, <1>5, <2>2 DEF Dispatched, Relayed, Relayable
    <2>3. QED
      BY <2>1, <2>2
  <1>6. QED
    BY <1>1, <1>3, <1>4, <1>5
       DEF ReadAs, IgnoreOwn, ReceiveAdvertise, ReceiveSubscribe, ReceiveHeartbeat,
           ReceiveBye, ReceiveUnadvertise

LEMMA RelayedNext == TypeOK /\ Relayed /\ [Next]_vars => Relayed'
  <1> SUFFICES ASSUME TypeOK, Relayed, [Next]_vars
               PROVE  Relayed'
    OBVIOUS
  <1>1. ASSUME NEW p \in Proc, SendsOwn(p) PROVE Relayed'
    <2>1. CASE net' \subseteq net
      BY <2>1 DEF Relayed, Relayable
    <2>2. ASSUME NEW msg, msg.pUuid = p, net' \subseteq net \cup SendMsg(p, msg)
          PROVE  Relayed'
      BY <2>2, RelayableSend DEF Relayed, Relayable
    <2>3. QED
      BY <1>1, <2>1, <2>2 DEF SendsOwn
  <1>2. ASSUME NEW p \in Proc, Receive(p) PROVE Relayed'
    BY <1>2, RelayedReceive
  <1>3. CASE Lose \/ Tick \/ UNCHANGED vars
    BY <1>3 DEF Lose, Tick, vars, Relayed, Relayable
  <1>4. QED
    BY <1>1, <1>2, <1>3, OwnMessages DEF Next

\* However the relays are set up, and whatever they learn from each other, no
\* datagram is passed on by a process that got it through a relay: GZ_RELAY
\* cannot make two networks flood each other.
THEOREM RelaysDoNotEcho == Spec => []RelayedOnce
  <1>1. Init => Relayed
    BY DEF Init, Relayed
  <1>2. Relayed => RelayedOnce
    BY DEF Relayed, Relayable, RelayedOnce
  <1>3. QED
    BY <1>1, <1>2, RelayedNext, TypeCorrect, PTL DEF Spec

-----------------------------------------------------------------------------
(* Without relays, a process that runs is not expired.                     *)

\* A process that has not started was heard of by nobody and heard of nobody.
OffSilent ==
    \A q \in Proc : state[q] = "off" =>
        /\ \A pkt \in net : pkt.msg.pUuid # q
        /\ \A p \in Proc : activity[p][q] = NoEntry /\ activity[q][p] = NoEntry

\* Who was heard of reaches the one that heard of it.
Reached ==
    \A p, q \in Proc : activity[p][q] # NoEntry => p \in Group[q]

\* A heartbeat of q is on its way to p, or will be before the next interval.
Pending(p, q) ==
    \/ due[q] /\ recv[q].pc # "beat"
    \/ \E pkt \in net : pkt.to = p /\ pkt.msg = PlainMsg(q, "HEARTBEAT")

\* p has missed no more heartbeats of q than datagrams were lost, but for the
\* one that is coming.
Heartbeats ==
    Timely => \A p, q \in Proc :
        Up(p) /\ Up(q) /\ activity[p][q] # NoEntry =>
            \/ activity[p][q] <= faults
            \/ Pending(p, q) /\ activity[p][q] <= faults + 1

Alive == OffSilent /\ Reached /\ Heartbeats

\* A step that neither delays a heartbeat nor counts a silent interval.
LEMMA HeartbeatsQuietly ==
    ASSUME TypeOK, Heartbeats, faults' \in Nat, faults <= faults',
           \A p, q \in Proc : Up(p)' /\ Up(q)' /\ activity'[p][q] # NoEntry =>
               \/ activity'[p][q] = 0
               \/ /\ Up(p) /\ Up(q) /\ activity'[p][q] = activity[p][q]
                  /\ Pending(p, q) => Pending(p, q)'
    PROVE  Heartbeats'
  <1>1. SUFFICES ASSUME Timely, NEW p \in Proc, NEW q \in Proc,
                        Up(p)', Up(q)', activity'[p][q] # NoEntry
                 PROVE  \/ activity'[p][q] <= faults'
                        \/ Pending(p, q)' /\ activity'[p][q] <= faults' + 1
    BY DEF Heartbeats
  <1>2. faults \in Nat /\ (activity[p][q] # NoEntry => activity[p][q] \in Nat)
    BY ParameterAssumption DEF TypeOK
  <1>3. CASE activity'[p][q] = 0
    <2>1. 0 <= faults'
      OBVIOUS
    <2>2. QED
      BY <1>3, <2>1
  <1>4. CASE /\ Up(p) /\ Up(q) /\ activity'[p][q] = activity[p][q]
             /\ Pending(p, q) => Pending(p, q)'
    <2>1. \/ activity[p][q] <= faults
          \/ Pending(p, q)' /\ activity[p][q] <= faults + 1
      BY <1>1, <1>4 DEF Heartbeats
    <2>2. activity[p][q] \in Nat
      BY <1>1, <1>2, <1>4
    <2>3. /\ activity[p][q] <= faults => activity[p][q] <= faults'
          /\ activity[p][q] <= faults + 1 => activity[p][q] <= faults' + 1
      BY <1>2, <2>2
    <2>4. QED
      BY <1>4, <2>1, <2>3
  <1>5. QED
    BY <1>1, <1>3, <1>4

\* Nobody is heard of by a step that erases entries at most.
LEMMA ReachedQuietly ==
    ASSUME Reached, \A p, q \in Proc : activity'[p][q] \in {activity[p][q], NoEntry}
    PROVE  Reached'
  BY DEF Reached

\* A step of a running process p: what is new on the network is p's.
LEMMA OffQuietly ==
    ASSUME OffSilent, NEW p \in Proc, SendsOwn(p), state'[p] # "off",
           \A q \in Proc : state'[q] = "off" => state[q] = "off",
           \A r, q \in Proc : activity'[r][q] \in {activity[r][q], NoEntry}
    PROVE  OffSilent'
  <1>1. \A pkt \in net' : pkt \in net \/ pkt.msg.pUuid = p
    BY SendCarries DEF SendsOwn
  <1>2. QED
    BY <1>1 DEF OffSilent

LEMMA AliveStart ==
    ASSUME TypeOK, Alive, NEW p \in Proc, Start(p)
    PROVE  Alive'
  <1>1. /\ state[p] = "off" /\ state' = [state EXCEPT ![p] = "up"]
        /\ due' = [due EXCEPT ![p] = TRUE]
        /\ UNCHANGED <<activity, recv, net, faults>>
    BY DEF Start
  <1>2. OffSilent'
    BY <1>1 DEF TypeOK, Alive, OffSilent
  <1>3. Reached'
    BY <1>1 DEF Alive, Reached
  <1>4. Heartbeats'
    <2>1. ASSUME NEW r \in Proc, NEW q \in Proc, Up(r)', Up(q)', activity'[r][q] # NoEntry
          PROVE  /\ Up(r) /\ Up(q) /\ activity'[r][q] = activity[r][q]
                 /\ Pending(r, q) => Pending(r, q)'
      <3>1. r # p /\ q # p
        BY <1>1, <2>1 DEF Alive, OffSilent
      <3>2. Up(r) /\ Up(q) /\ due'[q] = due[q]
        BY <1>1, <2>1, <3>1 DEF TypeOK, Up
      <3>3. QED
        BY <1>1, <3>2 DEF Pending
    <2>2. faults \in Nat
      BY ParameterAssumption DEF TypeOK
    <2>3. QED
      BY <1>1, <2>1, <2>2, HeartbeatsQuietly DEF Alive
  <1>5. QED
    BY <1>2, <1>3, <1>4 DEF Alive

LEMMA AliveEnd ==
    ASSUME TypeOK, Alive, NEW p \in Proc, Exit(p) \/ Crash(p)
    PROVE  Alive'
  <1>1. /\ state' = [state EXCEPT ![p] = "gone"]
        /\ activity' = [activity EXCEPT ![p] = [q \in Proc |-> NoEntry]]
        /\ due' = [due EXCEPT ![p] = FALSE]
        /\ recv' = [recv EXCEPT ![p] = Idle]
        /\ \A pkt \in net : pkt.to # p => pkt \in net'
        /\ faults' = faults
    BY DEF Exit, Crash, Ended
  <1>2. \A r, q \in Proc : activity'[r][q] \in {activity[r][q], NoEntry}
    BY <1>1 DEF TypeOK
  <1>3. OffSilent'
    BY <1>1, <1>2, OwnMessages, OffQuietly DEF TypeOK, Alive
  <1>4. Reached'
    BY <1>2, ReachedQuietly DEF Alive
  <1>5. Heartbeats'
    <2>1. ASSUME NEW r \in Proc, NEW q \in Proc, Up(r)', Up(q)', activity'[r][q] # NoEntry
          PROVE  /\ Up(r) /\ Up(q) /\ activity'[r][q] = activity[r][q]
                 /\ Pending(r, q) => Pending(r, q)'
      <3>1. /\ r # p /\ q # p /\ Up(r) /\ Up(q)
            /\ due'[q] = due[q] /\ recv'[q] = recv[q]
        BY <1>1, <2>1 DEF TypeOK, Up
      <3>2. activity'[r][q] = activity[r][q]
        BY <1>2, <2>1
      <3>3. QED
        BY <1>1, <3>1, <3>2 DEF Pending
    <2>2. faults \in Nat
      BY ParameterAssumption DEF TypeOK
    <2>3. QED
      BY <1>1, <2>1, <2>2, HeartbeatsQuietly DEF Alive
  <1>6. QED
    BY <1>3, <1>4, <1>5 DEF Alive

\* A step of a running process that leaves what is timed alone.
LEMMA AliveQuietly ==
    ASSUME TypeOK, Alive, NEW p \in Proc, SendsOwn(p), net \subseteq net', Up(p),
           UNCHANGED <<state, due, faults>>,
           \A r, q \in Proc : activity'[r][q] \in {activity[r][q], NoEntry},
           \A q \in Proc : recv'[q].pc = "beat" => recv[q].pc = "beat"
    PROVE  Alive'
  <1>1. OffSilent'
    BY OffQuietly DEF Alive, Up
  <1>2. Reached'
    BY ReachedQuietly DEF Alive
  <1>3. \A r, q \in Proc : Pending(r, q) => Pending(r, q)'
    BY DEF Pending
  <1>4. faults \in Nat
    BY ParameterAssumption DEF TypeOK
  <1>5. Heartbeats'
    BY <1>3, <1>4, HeartbeatsQuietly DEF Alive, Up
  <1>6. QED
    BY <1>1, <1>2, <1>5 DEF Alive

LEMMA AliveUser ==
    ASSUME TypeOK, Alive, NEW p \in Proc, UserCalls(p) \/ UserContinues(p)
    PROVE  Alive'
  <1>1. /\ Up(p) /\ net \subseteq net'
        /\ UNCHANGED <<state, activity, due, recv, faults>>
    BY DEF UserCalls, UserContinues, Advertise, Unadvertise, Discover, AdvertiseSend,
           UnadvertiseSend, DiscoverKnown, DiscoverNotify, CanCall
  <1>2. SendsOwn(p)
    BY OwnMessages
  <1>3. QED
    BY <1>1, <1>2, AliveQuietly

\* The heartbeat that was due is sent to everybody who times this process.
LEMMA AliveBeat ==
    ASSUME TypeOK, Alive, NEW p \in Proc, Heartbeat(p)
    PROVE  Alive'
  <1>1. /\ Up(p) /\ net' = net \cup SendMsg(p, PlainMsg(p, "HEARTBEAT"))
        /\ recv' = [recv EXCEPT ![p] = [pc |-> "beat", pubs |-> Own(p)]]
        /\ UNCHANGED <<state, activity, due, faults>>
    BY DEF Heartbeat
  <1>2. OffSilent'
    BY <1>1, OwnMessages, OffQuietly DEF Alive, RecvContinues, Up
  <1>3. Reached'
    BY <1>1, ReachedQuietly DEF Alive
  <1>4. Heartbeats'
    <2>1. ASSUME NEW r \in Proc, NEW q \in Proc, Up(r)', Up(q)', activity'[r][q] # NoEntry
          PROVE  /\ Up(r) /\ Up(q) /\ activity'[r][q] = activity[r][q]
                 /\ Pending(r, q) => Pending(r, q)'
      <3>1. CASE q = p
        <4>1. r \in Group[p] /\ Up(r)
          BY <1>1, <2>1, <3>1 DEF Alive, Reached, Up
        <4>2. [to |-> r, from |-> HostOf[p], flag |-> "NONE", msg |-> PlainMsg(p, "HEARTBEAT")]
                  \in SendMulticast(p, PlainMsg(p, "HEARTBEAT"), "NONE")
          BY <4>1 DEF SendMulticast
        <4>3. Pending(r, q)'
          BY <1>1, <3>1, <4>2 DEF Pending, SendMsg, PlainMsg
        <4>4. QED
          BY <1>1, <2>1, <4>3 DEF Up
      <3>2. CASE q # p
        <4>1. recv'[q] = recv[q]
          BY <1>1, <3>2 DEF TypeOK
        <4>2. QED
          BY <1>1, <2>1, <4>1 DEF Up, Pending
      <3>3. QED
        BY <3>1, <3>2
    <2>2. faults \in Nat
      BY ParameterAssumption DEF TypeOK
    <2>3. QED
      BY <1>1, <2>1, <2>2, HeartbeatsQuietly DEF Alive
  <1>5. QED
    BY <1>2, <1>3, <1>4 DEF Alive

\* A cycle ends when its heartbeat is no longer pending at the sender.
LEMMA AliveCycle ==
    ASSUME TypeOK, Alive, NEW p \in Proc, EndHeartbeat(p)
    PROVE  Alive'
  <1>1. /\ Up(p) /\ recv[p].pc = "beat"
        /\ due' = [due EXCEPT ![p] = FALSE]
        /\ recv' = [recv EXCEPT ![p] = Idle]
        /\ UNCHANGED <<state, activity, net, faults>>
    BY DEF EndHeartbeat
  <1>2. OffSilent' /\ Reached'
    BY <1>1 DEF Alive, OffSilent, Reached
  <1>3. \A r, q \in Proc : Pending(r, q) => Pending(r, q)'
    <2>1. SUFFICES ASSUME NEW r \in Proc, NEW q \in Proc, Pending(r, q)
                   PROVE  Pending(r, q)'
      OBVIOUS
    <2>2. CASE q = p
      BY <1>1, <2>1, <2>2 DEF Pending
    <2>3. CASE q # p
      <3>1. due'[q] = due[q] /\ recv'[q] = recv[q]
        BY <1>1, <2>3 DEF TypeOK
      <3>2. QED
        BY <1>1, <2>1, <3>1 DEF Pending
    <2>4. QED
      BY <2>2, <2>3
  <1>4. faults \in Nat
    BY ParameterAssumption DEF TypeOK
  <1>5. Heartbeats'
    BY <1>1, <1>3, <1>4, HeartbeatsQuietly DEF Alive, Up
  <1>6. QED
    BY <1>2, <1>5 DEF Alive

LEMMA AliveRecv ==
    ASSUME TypeOK, Alive, NEW p \in Proc, RecvContinues(p)
    PROVE  Alive'
  <1>1. SendsOwn(p)
    BY OwnMessages
  <1>2. CASE ByeDrop(p) \/ UnadvertiseDrop(p)
    <2>1. /\ Up(p) /\ net' = net
          /\ UNCHANGED <<state, activity, due, faults>>
          /\ recv' = [recv EXCEPT ![p] = Idle]
      BY <1>2 DEF ByeDrop, UnadvertiseDrop
    <2>2. \A q \in Proc : recv'[q].pc = "beat" => recv[q].pc = "beat"
      BY <2>1 DEF TypeOK, Idle
    <2>3. QED
      BY <1>1, <2>1, <2>2, AliveQuietly
  <1>3. CASE SendCopy(p)
    <2>1. /\ Up(p) /\ net \subseteq net'
          /\ UNCHANGED <<state, activity, due, faults>>
      BY <1>3 DEF SendCopy
    <2>2. PICK left : recv' = [recv EXCEPT ![p] =
                           IF left = {} /\ @.pc = "answer" THEN Idle
                           ELSE [@ EXCEPT !.pubs = left]]
      BY <1>3 DEF SendCopy
    <2>3. recv[p] = [pc |-> recv[p].pc, pubs |-> recv[p].pubs]
      BY <1>3, ThreadTypes DEF SendCopy
    <2>4. recv'[p] = Idle \/ recv'[p] = [pc |-> recv[p].pc, pubs |-> left]
      BY <2>2, <2>3 DEF TypeOK
    <2>5. \A q \in Proc : recv'[q].pc = "beat" => recv[q].pc = "beat"
      BY <2>2, <2>4 DEF TypeOK, Idle
    <2>6. QED
      BY <1>1, <2>1, <2>5, AliveQuietly
  <1>4. CASE Heartbeat(p)
    BY <1>4, AliveBeat
  <1>5. CASE EndHeartbeat(p)
    BY <1>5, AliveCycle
  <1>6. CASE UpdateActivity(p)
    <2>1. /\ Up(p) /\ net' = net
          /\ UNCHANGED <<state, due, recv, faults>>
      BY <1>6 DEF UpdateActivity
    <2>2. \A r, q \in Proc : activity'[r][q] \in {activity[r][q], NoEntry}
      BY <1>6 DEF UpdateActivity, TypeOK
    <2>3. QED
      BY <1>1, <2>1, <2>2, AliveQuietly
  <1>7. QED
    BY <1>2, <1>3, <1>4, <1>5, <1>6 DEF RecvContinues

\* Without relays a datagram is received by a member of its author's group, and
\* a heartbeat that is received counts from zero.
LEMMA AliveReceive ==
    ASSUME IInv, Direct, Relayed, Alive, OwnUntimed', NEW p \in Proc, Receive(p)
    PROVE  Alive'
  <1>0. PICK pkt \in { k \in net : k.to = p } :
             \E rest \in {net, net \ {pkt}} : ReadAs(p, pkt, rest)
    BY DEF Receive
  <1>1. PICK rest \in {net, net \ {pkt}} : ReadAs(p, pkt, rest)
    BY <1>0
  <1> DEFINE s == pkt.msg.pUuid
  <1>2. /\ pkt \in net /\ pkt.to = p /\ pkt.flag = "NONE" /\ s \in Proc /\ p \in Group[s]
        /\ state[s] # "off"
    BY PacketTypes DEF IInv, TypeOK, Direct, Relayed, Relayable, Alive, OffSilent
  <1>3. SendUnicast(p, pkt.msg) = {}
    BY DEF Direct, SendUnicast
  <1>4. net' = rest
    BY <1>1, <1>2, <1>3
       DEF ReadAs, IgnoreOwn, RelayPacket, ReceiveAdvertise, ReceiveSubscribe,
           ReceiveHeartbeat, ReceiveBye, ReceiveUnadvertise, Dispatched
  <1>5. /\ Up(p) /\ recv[p] = Idle
        /\ UNCHANGED <<state, due>>
    BY DEF Receive
  <1>6. faults \in Nat /\ faults' \in Nat /\ faults <= faults'
    <2>1. faults \in Nat
      BY ParameterAssumption DEF IInv, TypeOK
    <2>2. QED
      BY <1>1, <2>1 DEF ReadAs, Read
  <1>7. /\ \/ activity' = activity
           \/ Heard(p, s)
           \/ activity' = [activity EXCEPT ![p][s] = NoEntry]
        /\ s = p \/ pkt.msg.type # "HEARTBEAT" \/ Heard(p, s)
    BY <1>1, <1>2 DEF ReadAs, IgnoreOwn, RelayPacket, ReceiveAdvertise, ReceiveSubscribe,
           ReceiveHeartbeat, ReceiveBye, ReceiveUnadvertise
  <1>8. \A r, q \in Proc : \/ activity'[r][q] \in {activity[r][q], NoEntry}
                           \/ r = p /\ q = s /\ activity'[r][q] = 0
    BY <1>2, <1>7 DEF IInv, TypeOK, Heard
  <1>9. \A q \in Proc : recv'[q].pc = "beat" => recv[q].pc = "beat"
    <2>1. recv' = recv \/ \E at : at.pc # "beat" /\ recv' = [recv EXCEPT ![p] = at]
      BY <1>1 DEF ReadAs, IgnoreOwn, RelayPacket, ReceiveAdvertise, ReceiveSubscribe,
           ReceiveHeartbeat, ReceiveBye, ReceiveUnadvertise
    <2>2. QED
      BY <2>1 DEF IInv, TypeOK
  <1>10. OffSilent'
    BY <1>2, <1>4, <1>5, <1>8 DEF Alive, OffSilent, Up
  <1>11. Reached'
    BY <1>2, <1>8 DEF Alive, Reached
  <1>12. Heartbeats'
    <2>1. ASSUME NEW r \in Proc, NEW q \in Proc, Up(r)', Up(q)', activity'[r][q] # NoEntry
          PROVE  \/ activity'[r][q] = 0
                 \/ /\ Up(r) /\ Up(q) /\ activity'[r][q] = activity[r][q]
                    /\ Pending(r, q) => Pending(r, q)'
      <3>1. SUFFICES ASSUME activity'[r][q] = activity[r][q], Pending(r, q)
                     PROVE  activity'[r][q] = 0 \/ Pending(r, q)'
        BY <1>5, <1>8, <2>1 DEF Up
      <3>2. CASE due[q] /\ recv[q].pc # "beat"
        BY <1>5, <1>9, <3>2 DEF Pending
      <3>3. ASSUME NEW k \in net, k.to = r, k.msg = PlainMsg(q, "HEARTBEAT")
            PROVE  activity'[r][q] = 0 \/ Pending(r, q)'
        <4>1. CASE k \in net'
          BY <3>3, <4>1 DEF Pending, PlainMsg
        <4>2. CASE k \notin net'
          <5>1. k = pkt
            BY <1>4, <4>2
          <5>2. r = p /\ q = s /\ pkt.msg.type = "HEARTBEAT"
            BY <1>2, <3>3, <5>1 DEF PlainMsg
          <5>3. q # p
            BY <2>1, <5>2 DEF OwnUntimed
          <5>4. Heard(p, s)
            BY <1>7, <5>2, <5>3
          <5>5. QED
            BY <1>2, <5>2, <5>4 DEF Heard, IInv, TypeOK
        <4>3. QED
          BY <4>1, <4>2
      <3>4. QED
        BY <3>1, <3>2, <3>3 DEF Pending
    <2>2. QED
      BY <1>6, <2>1, HeartbeatsQuietly DEF Alive, IInv
  <1>13. QED
    BY <1>10, <1>11, <1>12 DEF Alive

\* A lost datagram may have been the heartbeat.
LEMMA AliveLose ==
    ASSUME TypeOK, Alive, Lose
    PROVE  Alive'
  <1>1. /\ faults' = faults + 1 /\ net' \subseteq net
        /\ UNCHANGED <<state, activity, due, recv>>
    BY DEF Lose
  <1>2. OffSilent' /\ Reached'
    BY <1>1 DEF Alive, OffSilent, Reached
  <1>3. Heartbeats'
    <2>1. SUFFICES ASSUME Timely, NEW p \in Proc, NEW q \in Proc,
                          Up(p)', Up(q)', activity'[p][q] # NoEntry
                   PROVE  activity'[p][q] <= faults'
      BY DEF Heartbeats
    <2>2. activity[p][q] <= faults \/ activity[p][q] <= faults + 1
      BY <1>1, <2>1 DEF Alive, Heartbeats, Up
    <2>3. activity[p][q] \in Nat /\ faults \in Nat
      BY <1>1, <2>1, ParameterAssumption DEF TypeOK
    <2>4. QED
      BY <1>1, <2>2, <2>3
  <1>4. QED
    BY <1>2, <1>3 DEF Alive

\* With a timely network an interval passes when no heartbeat is pending; the
\* next ones become due.
LEMMA AliveTick ==
    ASSUME TypeOK, Alive, Tick
    PROVE  Alive'
  <1>1. /\ due' = [p \in Proc |-> Up(p)]
        /\ UNCHANGED <<state, recv, net, faults>>
    BY DEF Tick
  <1>2. \A p, q \in Proc :
            activity'[p][q] = IF activity[p][q] = NoEntry \/ activity[p][q] > Silence
                              THEN activity[p][q] ELSE activity[p][q] + 1
    BY DEF Tick
  <1>3. \A p, q \in Proc : activity[p][q] = NoEntry => activity'[p][q] = NoEntry
    BY <1>2
  <1>4. OffSilent' /\ Reached'
    BY <1>1, <1>3 DEF Alive, OffSilent, Reached
  <1>5. Heartbeats'
    <2>1. SUFFICES ASSUME Timely, NEW p \in Proc, NEW q \in Proc,
                          Up(p)', Up(q)', activity'[p][q] # NoEntry
                   PROVE  Pending(p, q)' /\ activity'[p][q] <= faults' + 1
      BY DEF Heartbeats
    <2>2. net = {} /\ ~due[q] /\ recv[q] = Idle
      BY <2>1 DEF Tick
    <2>3. Up(p) /\ Up(q) /\ activity[p][q] # NoEntry
      BY <1>1, <1>3, <2>1 DEF Up
    <2>4. ~Pending(p, q)
      BY <2>2 DEF Pending
    <2>5. activity[p][q] <= faults
      BY <2>1, <2>3, <2>4 DEF Alive, Heartbeats
    <2>6. activity[p][q] \in Nat /\ faults \in Nat
      BY <2>3, ParameterAssumption DEF TypeOK
    <2>7. activity'[p][q] <= faults' + 1
      BY <1>1, <1>2, <2>5, <2>6
    <2>8. Pending(p, q)'
      BY <1>1, <2>2, <2>3 DEF Pending, Idle
    <2>9. QED
      BY <2>7, <2>8
  <1>6. QED
    BY <1>4, <1>5 DEF Alive

LEMMA AliveNext ==
    ASSUME IInv, IInv', Direct, Relayed, Alive, [Next]_vars
    PROVE  Alive'
  <1> USE DEF IInv
  <1>1. ASSUME NEW p \in Proc, Start(p) PROVE Alive'
    BY <1>1, AliveStart
  <1>2. ASSUME NEW p \in Proc, Exit(p) \/ Crash(p) PROVE Alive'
    BY <1>2, AliveEnd
  <1>3. ASSUME NEW p \in Proc, UserCalls(p) \/ UserContinues(p) PROVE Alive'
    BY <1>3, AliveUser
  <1>4. ASSUME NEW p \in Proc, Receive(p) PROVE Alive'
    BY <1>4, AliveReceive DEF Authentic
  <1>5. ASSUME NEW p \in Proc, RecvContinues(p) PROVE Alive'
    BY <1>5, AliveRecv
  <1>6. CASE Lose
    BY <1>6, AliveLose
  <1>7. CASE Tick
    BY <1>7, AliveTick
  <1>8. CASE UNCHANGED vars
    BY <1>8 DEF vars, Alive, OffSilent, Reached, Heartbeats, Pending, Up
  <1>9. QED
    BY <1>1, <1>2, <1>3, <1>4, <1>5, <1>6, <1>7, <1>8 DEF Next

\* With no relay configured and a timely network, a process that runs is never
\* taken for dead by another one while fewer datagrams were lost than heartbeats
\* fit into silenceInterval, for every silenceInterval and every loss: one beat
\* missed costs one interval, whichever it was, and every beat received repairs.
THEOREM LiveIsNotExpired == ASSUME NoRelays PROVE Spec => []LiveNotExpired
  <1> DEFINE AInv == IInv /\ Direct /\ Relayed /\ Alive
  <1>1. Init => AInv
    <2>1. Init => IInv
      BY TypeInit, AuthenticInit, KeptInit DEF IInv
    <2>2. Init => Relayed
      BY DEF Init, Relayed
    <2>3. Init => Alive
      BY DEF Init, Alive, OffSilent, Reached, Heartbeats
    <2>4. QED
      BY <2>1, <2>2, <2>3, DirectInit
  <1>2. AInv /\ [Next]_vars => AInv'
    <2>1. SUFFICES ASSUME AInv, [Next]_vars
                   PROVE  AInv'
      OBVIOUS
    <2>2. IInv'
      BY <2>1, TypeNext, AuthenticNext, KeptNext DEF IInv
    <2>3. Direct'
      BY <2>1, NoRelays, DirectNext
    <2>4. Relayed'
      BY <2>1, RelayedNext DEF IInv
    <2>5. Alive'
      BY <2>1, <2>2, AliveNext
    <2>6. QED
      BY <2>2, <2>3, <2>4, <2>5
  <1>3. AInv => LiveNotExpired
    <2>1. SUFFICES ASSUME TypeOK, Heartbeats, Timely, faults < Silence,
                          NEW p \in Proc, NEW q \in Proc, Up(p), Up(q),
                          activity[p][q] # NoEntry
                   PROVE  ~(activity[p][q] > Silence)
      BY DEF IInv, Alive, LiveNotExpired, Expired
    <2>2. activity[p][q] \in Nat /\ faults \in Nat /\ Silence \in Nat
      BY <2>1, ParameterAssumption DEF TypeOK
    <2>3. activity[p][q] <= faults \/ activity[p][q] <= faults + 1
      BY <2>1 DEF Heartbeats
    <2>4. QED
      BY <2>1, <2>2, <2>3
  <1>4. QED
    BY <1>1, <1>2, <1>3, PTL DEF Spec

=============================================================================
