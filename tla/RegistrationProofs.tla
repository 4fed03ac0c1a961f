------------------------- MODULE RegistrationProofs -------------------------
(***************************************************************************)
(* Theorems about Registration for every set of processes, nodes and types *)
(* and every value of the bounds.                                          *)
(***************************************************************************)
EXTENDS Registration, SequenceTheorems, FiniteSetTheorems, TLAPS

-----------------------------------------------------------------------------
(* The invariant.  What a process has registered of itself and of others is *)
(* finite, whatever the constants are: a set is sent one member at a time.  *)

Registered ==
    \A p \in Proc :
        /\ IsFiniteSet(adv[p])
        /\ IsFiniteSet(known[p])
        /\ IsFiniteSet(local[p])
        /\ recv[p].pc = "register" => IsFiniteSet(recv[p].regs)

TypeInv == TypeOK /\ Registered

Chan == [Proc -> [Proc -> Seq(Datagram)]]

-----------------------------------------------------------------------------
(* The operators of the model.                                             *)

LEMMA FiniteImage ==
    ASSUME NEW S, IsFiniteSet(S), NEW T, NEW f \in [S -> T],
           \A y \in T : \E x \in S : f[x] = y
    PROVE  IsFiniteSet(T)
  <1>1. f \in Surjection(S, T)
    BY DEF Surjection
  <1>2. QED
    BY <1>1, FS_Surjection

\* A finite set is sent in some order.
LEMMA SetSequenced ==
    ASSUME NEW T, NEW S \in SUBSET T, IsFiniteSet(S)
    PROVE  SetToSeq(S) \in Seq(T)
  <1> DEFINE n == Cardinality(S)
  <1>1. n \in Nat /\ ExistsBijection(1..n, S)
    BY FS_CardinalityType
  <1>2. PICK g : g \in Bijection(1..n, S)
    BY <1>1 DEF ExistsBijection
  <1>3. g \in [1..n -> S] /\ IsInjective(g)
    BY <1>2 DEF Bijection, Injection, IsInjective
  <1>4. SetToSeq(S) \in [1..n -> S]
    BY <1>3 DEF SetToSeq
  <1>5. SetToSeq(S) \in Seq(S)
    BY <1>1, <1>4, SeqDef
  <1>6. QED
    BY <1>5, SeqMonotonic

LEMMA TopicIsTheTopic == TheTopic \in Topic
  <1>1. Topic # {}
    BY NameAssumption, FS_EmptySet
  <1>2. QED
    BY <1>1 DEF TheTopic

LEMMA EntryTyped ==
    ASSUME NEW nodes, NEW p \in Proc, NEW addr \in Proc, NEW n \in nodes, NEW type \in Type
    PROVE  Entry(p, addr, n, type) \in Entries(nodes)
  BY TopicIsTheTopic DEF Entry, Entries

LEMMA SentTyped ==
    ASSUME TypeOK, NEW p \in Proc, NEW msgs \in Seq(Datagram)
    PROVE  Sent(p, msgs) \in Chan
  <1>1. chan \in [Proc -> [Proc -> Seq(Datagram)]]
    BY DEF TypeOK
  <1>2. \A q \in Proc : chan[p][q] \o msgs \in Seq(Datagram)
    BY <1>1, ConcatProperties
  <1>3. QED
    BY <1>1, <1>2 DEF Sent, Chan

LEMMA ConsumeTyped ==
    ASSUME TypeOK, NEW p \in Proc, NEW q \in Proc \ {p}, chan[q][p] # <<>>,
           NEW msgs \in Seq(Datagram), Consume(p, q, msgs)
    PROVE  chan' \in Chan
  <1>1. chan \in [Proc -> [Proc -> Seq(Datagram)]]
    BY DEF TypeOK
  <1>2. \A r \in Proc : chan[p][r] \o msgs \in Seq(Datagram)
    BY <1>1, ConcatProperties
  <1>3. Tail(chan[q][p]) \in Seq(Datagram)
    BY <1>1, HeadTailProperties
  <1>4. QED
    BY <1>1, <1>2, <1>3 DEF Consume, Chan

\* What a datagram of each kind carries.
LEMMA DatagramFields ==
    ASSUME NEW m \in Datagram
    PROVE  /\ m.kind \in {"ADVERTISE", "UNADVERTISE"} => m.pub \in Entries(PubNodes)
           /\ m.kind = "NEW_CONNECTION" => m.sub \in Entries(SubNodes) /\ m.ctrl \in Proc
           /\ m.kind = "END_CONNECTION" => m.node \in SubNodes
  BY DEF Datagram

LEMMA EntryFields ==
    ASSUME NEW nodes, NEW pub \in Entries(nodes)
    PROVE  /\ pub.topic \in Topic
           /\ pub.pUuid \in Proc
           /\ pub.addr \in Proc
           /\ pub.nUuid \in nodes
           /\ pub.type \in Type
  BY DEF Entries

\* OnNewConnection registers finitely many nodes, at the process of pub.
LEMMA RegistrationsTyped ==
    ASSUME NEW p \in Proc, NEW handlers \in SUBSET Handler, IsFiniteSet(handlers),
           NEW pub \in Entries(PubNodes)
    PROVE  /\ Registrations(p, handlers, pub) \in SUBSET Entries(SubNodes)
           /\ IsFiniteSet(Registrations(p, handlers, pub))
  <1> DEFINE suited == { g \in handlers : Takes(g, pub.type) }
             nodes == NodeUuids(handlers, pub.type)
             regs == Registrations(p, handlers, pub)
  <1>1. IsFiniteSet(suited)
    BY FS_Subset
  <1>2. IsFiniteSet(nodes) /\ nodes \subseteq SubNodes
    <2> DEFINE field == [h \in suited |-> h.node]
    <2>1. field \in [suited -> nodes] /\ \A n \in nodes : \E h \in suited : field[h] = n
      BY DEF NodeUuids
    <2>2. IsFiniteSet(nodes)
      BY <1>1, <2>1, FiniteImage
    <2>3. \A h \in suited : h.node \in SubNodes
      BY DEF Handler
    <2>4. QED
      BY <2>2, <2>3 DEF NodeUuids
  <1>3. IsFiniteSet(Registrations(p, handlers, pub))
    <2> DEFINE entry == [n \in nodes |-> Entry(p, pub.addr, n, pub.type)]
    <2>1. entry \in [nodes -> regs] /\ \A sub \in regs : \E n \in nodes : entry[n] = sub
      BY DEF Registrations
    <2>2. QED
      BY <1>2, <2>1, FiniteImage
  <1>4. \A n \in nodes : Entry(p, pub.addr, n, pub.type) \in Entries(SubNodes)
    BY <1>2, EntryFields, EntryTyped
  <1>5. QED
    BY <1>3, <1>4 DEF Registrations

-----------------------------------------------------------------------------
(* Type correctness.                                                       *)

LEMMA TypeInvInit == Init => TypeInv
  <1> SUFFICES ASSUME Init PROVE TypeInv
    OBVIOUS
  <1>1. MaxFaults \in Nat /\ MaxOps \in Nat /\ MaxFilter \in Nat
    BY BoundAssumption
  <1>2. Idle \in RecvState /\ Idle \in UserState
    BY DEF RecvState, UserState
  <1>3. <<>> \in Seq(Datagram)
    OBVIOUS
  <1>4. TypeOK
    <2>1. user \in [Proc -> [User -> UserState]] /\ chan \in [Proc -> [Proc -> Seq(Datagram)]]
      BY <1>2, <1>3 DEF Init
    <2>2. filter \in [Proc -> 0..MaxFilter] /\ faults \in 0..MaxFaults /\ ops \in 0..MaxOps
      BY <1>1 DEF Init
    <2>3. recv \in [Proc -> RecvState]
      BY <1>2 DEF Init
    <2>4. QED
      BY <2>1, <2>2, <2>3 DEF Init, TypeOK
  <1>5. Registered
    BY FS_EmptySet DEF Init, Registered, Idle
  <1>6. QED
    BY <1>4, <1>5 DEF TypeInv

\* A call is counted.
LEMMA CallCounted ==
    ASSUME TypeOK, NEW p \in Proc, NEW u \in User, Call(p, u)
    PROVE  ops' \in 0..MaxOps
  <1>1. ops \in 0..MaxOps /\ MaxOps \in Nat
    BY BoundAssumption DEF TypeOK
  <1>2. ops' = ops + 1 /\ ops < MaxOps
    BY DEF Call
  <1>3. QED
    BY <1>1, <1>2

\* The messages about one's own publishers, one for each.
LEMMA AdvertisedTyped ==
    ASSUME NEW S \in SUBSET Entries(PubNodes), IsFiniteSet(S)
    PROVE  SetToSeq({ Advertised(pub) : pub \in S }) \in Seq(Datagram)
  <1> DEFINE msgs == { Advertised(pub) : pub \in S }
             msg == [pub \in S |-> Advertised(pub)]
  <1>1. msg \in [S -> msgs] /\ \A m \in msgs : \E pub \in S : msg[pub] = m
    OBVIOUS
  <1>2. IsFiniteSet(msgs)
    BY <1>1, FiniteImage
  <1>3. msgs \in SUBSET Datagram
    BY DEF Advertised, Datagram
  <1>4. QED
    BY <1>2, <1>3, SetSequenced

\* The messages that register the nodes subs at the process ctrl.
LEMMA NewConnectionsTyped ==
    ASSUME NEW S \in SUBSET Entries(SubNodes), IsFiniteSet(S), NEW ctrl \in Proc
    PROVE  /\ { NewConnection(sub, ctrl) : sub \in S } \in SUBSET Datagram
           /\ IsFiniteSet({ NewConnection(sub, ctrl) : sub \in S })
  <1> DEFINE msgs == { NewConnection(sub, ctrl) : sub \in S }
             msg == [sub \in S |-> NewConnection(sub, ctrl)]
  <1>1. msg \in [S -> msgs] /\ \A m \in msgs : \E sub \in S : msg[sub] = m
    OBVIOUS
  <1>2. IsFiniteSet(msgs)
    BY <1>1, FiniteImage
  <1>3. msgs \in SUBSET Datagram
    BY DEF NewConnection, Datagram
  <1>4. QED
    BY <1>2, <1>3

LEMMA TypeAdvertise ==
    ASSUME TypeInv, NEW p \in Proc, NEW u \in User, NEW n \in PubNodes, NEW type \in Type,
           Advertise(p, u, n, type)
    PROVE  TypeInv'
  <1> USE DEF TypeInv
  <1> DEFINE pub == Entry(p, p, n, type)
  <1>1. pub \in Entries(PubNodes)
    BY EntryTyped
  <1>2. chan' \in Chan
    <2>1. <<Advertised(pub)>> \in Seq(Datagram)
      BY <1>1 DEF Advertised, Datagram
    <2>2. QED
      BY <2>1, SentTyped DEF Advertise
  <1>3. ops' \in 0..MaxOps
    BY CallCounted DEF Advertise
  <1>4. adv' = [adv EXCEPT ![p] = @ \cup {pub}]
    BY DEF Advertise
  <1>5. adv' \in [Proc -> SUBSET Entries(PubNodes)]
    BY <1>1, <1>4 DEF TypeOK
  <1>6. \A q \in Proc : IsFiniteSet(adv'[q])
    BY <1>4, FS_AddElement DEF TypeOK, Registered
  <1>7. TypeOK'
    BY <1>2, <1>3, <1>5 DEF Advertise, TypeOK, Chan
  <1>8. QED
    BY <1>6, <1>7 DEF Advertise, Registered

LEMMA TypeUnadvertise ==
    ASSUME TypeInv, NEW p \in Proc, NEW u \in User, NEW pub \in adv[p], Unadvertise(p, u, pub)
    PROVE  TypeInv'
  <1> USE DEF TypeInv
  <1>1. pub \in Entries(PubNodes)
    BY DEF TypeOK
  <1>2. chan' \in Chan
    <2>1. <<Unadvertised(pub)>> \in Seq(Datagram)
      BY <1>1 DEF Unadvertised, Datagram
    <2>2. QED
      BY <2>1, SentTyped DEF Unadvertise
  <1>3. ops' \in 0..MaxOps
    BY CallCounted DEF Unadvertise
  <1>4. adv' = [adv EXCEPT ![p] = @ \ {pub}]
    BY DEF Unadvertise
  <1>5. adv' \in [Proc -> SUBSET Entries(PubNodes)]
    BY <1>4 DEF TypeOK
  <1>6. \A q \in Proc : IsFiniteSet(adv'[q])
    BY <1>4, FS_Subset DEF TypeOK, Registered
  <1>7. TypeOK'
    BY <1>2, <1>3, <1>5 DEF Unadvertise, TypeOK, Chan
  <1>8. QED
    BY <1>6, <1>7 DEF Unadvertise, Registered

\* The effects of Connect for publishers of which there are finitely many.
LEMMA ConnectTyped ==
    ASSUME TypeOK, NEW p \in Proc, NEW pubs \in SUBSET Entries(PubNodes), IsFiniteSet(pubs),
           filter[p] + Cardinality(pubs) <= MaxFilter, Connect(p, pubs)
    PROVE  /\ linked' \in [Proc -> SUBSET Proc]
           /\ filter' \in [Proc -> 0..MaxFilter]
           /\ connections' \in [Proc -> SUBSET Entries(PubNodes)]
  <1>1. \A pub \in pubs : pub.addr \in Proc
    BY EntryFields
  <1>2. linked' \in [Proc -> SUBSET Proc]
    <2>1. linked' = [linked EXCEPT ![p] = @ \cup { pub.addr : pub \in pubs }]
      BY DEF Connect
    <2>2. QED
      BY <1>1, <2>1 DEF TypeOK
  <1>3. Cardinality(pubs) \in Nat
    BY FS_CardinalityType
  <1>4. filter' \in [Proc -> 0..MaxFilter]
    <2>1. MaxFilter \in Nat /\ filter \in [Proc -> 0..MaxFilter]
      BY BoundAssumption DEF TypeOK
    <2>2. filter[p] + Cardinality(pubs) \in 0..MaxFilter
      BY <1>3, <2>1
    <2>3. filter' = [filter EXCEPT ![p] = @ + Cardinality(pubs)]
      BY DEF Connect
    <2>4. QED
      BY <2>1, <2>2, <2>3
  <1>5. connections' \in [Proc -> SUBSET Entries(PubNodes)]
    <2>1. connections' = [connections EXCEPT ![p] = AddAll(@, pubs)]
      BY DEF Connect
    <2>2. AddAll(connections[p], pubs) \in SUBSET Entries(PubNodes)
      BY DEF AddAll, TypeOK
    <2>3. QED
      BY <2>1, <2>2 DEF TypeOK
  <1>6. QED
    BY <1>2, <1>4, <1>5

LEMMA TypeSubscribe ==
    ASSUME TypeInv, NEW p \in Proc, NEW u \in User, NEW h \in Handler, Subscribe(p, u, h)
    PROVE  TypeInv'
  <1> USE DEF TypeInv
  <1>1. known[p] \in SUBSET Entries(PubNodes) /\ IsFiniteSet(known[p])
    BY DEF TypeOK, Registered
  <1>2. local' = [local EXCEPT ![p] = @ \cup {h}]
    BY DEF Subscribe
  <1>3. local' \in [Proc -> SUBSET Handler]
    BY <1>2 DEF TypeOK
  <1>4. \A q \in Proc : IsFiniteSet(local'[q])
    BY <1>2, FS_AddElement DEF TypeOK, Registered
  <1> DEFINE answer(pub) == { NewConnection(sub, pub.pUuid) :
                                sub \in Registrations(p, local'[p], pub) }
             answers == { answer(pub) : pub \in known[p] }
             news == UNION answers
  <1>5. \A pub \in known[p] : answer(pub) \in SUBSET Datagram /\ IsFiniteSet(answer(pub))
    <2> SUFFICES ASSUME NEW pub \in known[p]
                 PROVE  answer(pub) \in SUBSET Datagram /\ IsFiniteSet(answer(pub))
      OBVIOUS
    <2>1. pub \in Entries(PubNodes) /\ pub.pUuid \in Proc
      BY <1>1, EntryFields
    <2>2. local'[p] \in SUBSET Handler /\ IsFiniteSet(local'[p])
      BY <1>3, <1>4
    <2>3. /\ Registrations(p, local'[p], pub) \in SUBSET Entries(SubNodes)
          /\ IsFiniteSet(Registrations(p, local'[p], pub))
      BY <2>1, <2>2, RegistrationsTyped
    <2>4. QED
      BY <2>1, <2>3, NewConnectionsTyped
  <1>6. IsFiniteSet(answers)
    <2> DEFINE f == [pub \in known[p] |-> answer(pub)]
    <2> HIDE DEF answer
    <2>1. f \in [known[p] -> answers] /\ \A a \in answers : \E pub \in known[p] : f[pub] = a
      OBVIOUS
    <2> HIDE DEF f, answers
    <2>2. QED
      BY <1>1, <2>1, FiniteImage
  <1> HIDE DEF answer
  <1>7. IsFiniteSet(news) /\ news \in SUBSET Datagram
    BY <1>5, <1>6, FS_UNION
  <1>8. SetToSeq(news) \in Seq(Datagram)
    BY <1>7, SetSequenced
  <1>9. <<Wanted>> \o SetToSeq(news) \in Seq(Datagram)
    <2>1. <<Wanted>> \in Seq(Datagram)
      BY DEF Wanted, Datagram
    <2>2. QED
      BY <1>8, <2>1, ConcatProperties
  <1>10. chan' = Sent(p, <<Wanted>> \o SetToSeq(news))
    BY DEF Subscribe, answer
  <1>11. chan' \in Chan
    BY <1>9, <1>10, SentTyped
  <1>12. /\ linked' \in [Proc -> SUBSET Proc]
         /\ filter' \in [Proc -> 0..MaxFilter]
         /\ connections' \in [Proc -> SUBSET Entries(PubNodes)]
    BY <1>1, ConnectTyped DEF Subscribe
  <1>13. ops' \in 0..MaxOps
    BY CallCounted DEF Subscribe
  <1>14. overtaken' \in [Proc -> SUBSET SubNodes]
    <2>1. overtaken' = [overtaken EXCEPT ![p] = @ \ {h.node}]
      BY DEF Subscribe
    <2>2. QED
      BY <2>1 DEF TypeOK
  <1>15. TypeOK'
    BY <1>3, <1>11, <1>12, <1>13, <1>14 DEF Subscribe, TypeOK, Chan
  <1>16. QED
    BY <1>4, <1>15 DEF Subscribe, Registered

LEMMA TypeUnsubscribe ==
    ASSUME TypeInv, NEW p \in Proc, NEW u \in User, NEW n \in SubNodes, Unsubscribe(p, u, n)
    PROVE  TypeInv'
  <1> USE DEF TypeInv
  <1>1. PICK H : local' = [local EXCEPT ![p] = @ \ H]
    BY DEF Unsubscribe
  <1>2. local' \in [Proc -> SUBSET Handler]
    BY <1>1 DEF TypeOK
  <1>3. \A q \in Proc : IsFiniteSet(local'[q])
    BY <1>1, FS_Subset DEF TypeOK, Registered
  <1>4. filter' \in [Proc -> 0..MaxFilter]
    <2>1. MaxFilter \in Nat /\ filter \in [Proc -> 0..MaxFilter]
      BY BoundAssumption DEF TypeOK
    <2>2. \/ filter' = filter
          \/ filter' = [filter EXCEPT ![p] = IF local'[p] = {} /\ @ > 0 THEN @ - 1 ELSE @]
      BY DEF Unsubscribe
    <2>3. QED
      BY <2>1, <2>2
  <1>5. user' \in [Proc -> [User -> UserState]]
    <2>1. [pc |-> "unregister", node |-> n] \in UserState
      BY DEF UserState
    <2>2. user \in [Proc -> [User -> UserState]]
      BY DEF TypeOK
    <2>3. \/ user' = user
          \/ user' = [user EXCEPT ![p][u] = [pc |-> "unregister", node |-> n]]
      BY DEF Unsubscribe
    <2>4. QED
      BY <2>1, <2>2, <2>3
  <1>6. ops' \in 0..MaxOps
    BY CallCounted DEF Unsubscribe
  <1>7. TypeOK'
    BY <1>2, <1>4, <1>5, <1>6 DEF Unsubscribe, TypeOK
  <1>8. QED
    BY <1>3, <1>7 DEF Unsubscribe, Registered

LEMMA OvertakenTyped ==
    ASSUME TypeOK, NEW p \in Proc, NEW n \in SubNodes
    PROVE  Overtaken(p, n) \in [Proc -> SUBSET SubNodes]
  <1>1. overtaken \in [Proc -> SUBSET SubNodes]
    BY DEF TypeOK
  <1>2. QED
    BY <1>1 DEF Overtaken

LEMMA TypeUnregister ==
    ASSUME TypeInv, NEW p \in Proc, NEW u \in User, Unregister(p, u)
    PROVE  TypeInv'
  <1> USE DEF TypeInv
  <1> DEFINE n == user[p][u].node
             pubs == known[p] \cup adv[p]
             procs == { pub.pUuid : pub \in pubs }
             msgs == { EndConnection(n, q) : q \in procs }
  <1>1. n \in SubNodes
    <2>1. user[p][u] \in UserState /\ user[p][u].pc = "unregister"
      BY DEF Unregister, TypeOK
    <2>2. QED
      BY <2>1 DEF UserState, Idle
  <1>2. IsFiniteSet(pubs) /\ pubs \in SUBSET Entries(PubNodes)
    BY FS_Union DEF TypeOK, Registered
  <1>3. IsFiniteSet(procs) /\ procs \in SUBSET Proc
    <2> DEFINE f == [pub \in pubs |-> pub.pUuid]
    <2>1. f \in [pubs -> procs] /\ \A q \in procs : \E pub \in pubs : f[pub] = q
      OBVIOUS
    <2>2. procs \in SUBSET Proc
      BY <1>2, EntryFields
    <2> HIDE DEF f, procs
    <2>3. QED
      BY <1>2, <2>1, <2>2, FiniteImage
  <1>4. IsFiniteSet(msgs) /\ msgs \in SUBSET Datagram
    <2> DEFINE f == [q \in procs |-> EndConnection(n, q)]
    <2> HIDE DEF procs, n
    <2>1. f \in [procs -> msgs] /\ \A m \in msgs : \E q \in procs : f[q] = m
      OBVIOUS
    <2>2. msgs \in SUBSET Datagram
      BY <1>1, <1>3 DEF EndConnection, Datagram
    <2> HIDE DEF f, msgs
    <2>3. QED
      BY <1>3, <2>1, <2>2, FiniteImage
  <1>5. chan' \in Chan
    <2>1. chan' = Sent(p, SetToSeq(msgs))
      BY DEF Unregister
    <2> HIDE DEF msgs
    <2>2. QED
      BY <1>4, <2>1, SetSequenced, SentTyped
  <1>6. user' \in [Proc -> [User -> UserState]]
    <2>1. [pc |-> "broadcast", node |-> n] \in UserState
      BY <1>1 DEF UserState
    <2>2. user' = [user EXCEPT ![p][u] = [pc |-> "broadcast", node |-> n]]
      BY DEF Unregister
    <2>3. QED
      BY <2>1, <2>2 DEF TypeOK
  <1>7. overtaken' \in [Proc -> SUBSET SubNodes]
    BY <1>1, OvertakenTyped DEF Unregister
  <1>8. TypeOK'
    BY <1>5, <1>6, <1>7 DEF Unregister, TypeOK, Chan
  <1>9. QED
    BY <1>8 DEF Unregister, Registered

LEMMA TypeBroadcast ==
    ASSUME TypeInv, NEW p \in Proc, NEW u \in User, Broadcast(p, u)
    PROVE  TypeInv'
  <1> USE DEF TypeInv
  <1>1. user[p][u].node \in SubNodes
    <2>1. user[p][u] \in UserState /\ user[p][u].pc = "broadcast"
      BY DEF Broadcast, TypeOK
    <2>2. QED
      BY <2>1 DEF UserState, Idle
  <1>2. <<EndConnection(user[p][u].node, NoCtrl)>> \in Seq(Datagram)
    BY <1>1 DEF EndConnection, Datagram
  <1>3. chan' \in Chan
    BY <1>2, SentTyped DEF Broadcast
  <1>4. user' \in [Proc -> [User -> UserState]]
    <2>1. Idle \in UserState
      BY DEF UserState
    <2>2. QED
      BY <2>1 DEF Broadcast, TypeOK
  <1>5. overtaken' \in [Proc -> SUBSET SubNodes]
    BY <1>1, OvertakenTyped DEF Broadcast
  <1>6. TypeOK'
    BY <1>3, <1>4, <1>5 DEF Broadcast, TypeOK, Chan
  <1>7. QED
    BY <1>6 DEF Broadcast, Registered

\* A process is forgotten for its silence.
LEMMA DisconnectProcessTyped ==
    ASSUME TypeInv, NEW p \in Proc, NEW q \in Proc, DisconnectProcess(p, q)
    PROVE  /\ known' \in [Proc -> SUBSET Entries(PubNodes)]
           /\ \A r \in Proc : known'[r] \subseteq known[r] /\ IsFiniteSet(known'[r])
           /\ connections' = connections
           /\ remote' = remote
  <1>1. known' = [known EXCEPT ![p] = @ \ PublishersByProc(@, q)]
    BY DEF DisconnectProcess, DelPublishersByProc
  <1>2. known \in [Proc -> SUBSET Entries(PubNodes)]
    BY DEF TypeInv, TypeOK
  <1>3. \A r \in Proc : known'[r] \in SUBSET known[r]
    BY <1>1, <1>2
  <1>4. \A r \in Proc : IsFiniteSet(known'[r])
    BY <1>3, FS_Subset DEF TypeInv, Registered
  <1>5. QED
    BY <1>1, <1>2, <1>3, <1>4 DEF DisconnectProcess

LEMMA TypeReceive ==
    ASSUME TypeInv, NEW p \in Proc, Receive(p)
    PROVE  TypeInv'
  <1> USE DEF TypeInv
  <1>1. PICK q \in Proc \ {p} :
            /\ chan[q][p] # <<>>
            /\ LET m == Head(chan[q][p])
               IN  \/ ReceiveAdvertise(p, q, m)
                   \/ ReceiveSubscribe(p, q, m)
                   \/ ReceiveUnadvertise(p, q, m)
                   \/ ReceiveNewConnection(p, q, m)
                   \/ ReceiveEndConnection(p, q, m)
    BY DEF Receive
  <1> DEFINE m == Head(chan[q][p])
  <1>2. m \in Datagram
    <2>1. chan[q][p] \in Seq(Datagram)
      BY DEF TypeOK
    <2>2. QED
      BY <1>1, <2>1, HeadTailProperties
  <1>3. UNCHANGED <<state, adv, local, linked, filter, user, overtaken, lost, faults, ops>>
    BY DEF Receive
  <1>4. <<>> \in Seq(Datagram)
    OBVIOUS
  <1>5. /\ known \in [Proc -> SUBSET Entries(PubNodes)]
        /\ connections \in [Proc -> SUBSET Entries(PubNodes)]
        /\ remote \in [Proc -> SUBSET Entries(SubNodes)]
        /\ recv \in [Proc -> RecvState]
    BY DEF TypeOK
  \* What is left to show: the five variables that a datagram may change.
  <1> DEFINE Typed ==
          /\ known' \in [Proc -> SUBSET Entries(PubNodes)]
          /\ \A r \in Proc : IsFiniteSet(known'[r])
          /\ connections' \in [Proc -> SUBSET Entries(PubNodes)]
          /\ remote' \in [Proc -> SUBSET Entries(SubNodes)]
          /\ recv' \in [Proc -> RecvState]
          /\ \A r \in Proc : recv'[r].pc = "register" => IsFiniteSet(recv'[r].regs)
          /\ chan' \in Chan
  <1>6. CASE ReceiveAdvertise(p, q, m)
    <2>1. m.pub \in Entries(PubNodes)
      BY <1>2, <1>6, DatagramFields DEF ReceiveAdvertise
    <2>2. chan' \in Chan
      BY <1>1, <1>4, <1>6, ConsumeTyped DEF ReceiveAdvertise
    <2>3. \/ known' = known /\ recv' = recv
          \/ /\ known' = [known EXCEPT ![p] = @ \cup {m.pub}]
             /\ recv' = [recv EXCEPT ![p] = [pc |-> "connect", pub |-> m.pub]]
      BY <1>5, <1>6 DEF ReceiveAdvertise, AddPublisher
    <2>4. [pc |-> "connect", pub |-> m.pub] \in RecvState
      BY <2>1 DEF RecvState
    <2>5. known' \in [Proc -> SUBSET Entries(PubNodes)] /\ recv' \in [Proc -> RecvState]
      BY <1>5, <2>1, <2>3, <2>4
    <2>6. \A r \in Proc : IsFiniteSet(known'[r])
      <3>1. IsFiniteSet(known[p] \cup {m.pub})
        BY FS_AddElement DEF Registered
      <3>2. QED
        BY <1>5, <2>3, <3>1 DEF Registered
    <2>7. \A r \in Proc : recv'[r].pc = "register" => IsFiniteSet(recv'[r].regs)
      BY <1>5, <2>3 DEF Registered
    <2>8. Typed
      BY <1>5, <1>6, <2>2, <2>5, <2>6, <2>7 DEF ReceiveAdvertise
    <2>9. QED
      BY <1>3, <2>8 DEF TypeOK, Registered, Chan
  <1>7. CASE ReceiveSubscribe(p, q, m)
    <2>1. SetToSeq({ Advertised(pub) : pub \in adv[p] }) \in Seq(Datagram)
      BY AdvertisedTyped DEF TypeOK, Registered
    <2>2. chan' \in Chan
      BY <1>1, <1>7, <2>1, ConsumeTyped DEF ReceiveSubscribe
    <2>3. Typed
      BY <1>5, <1>7, <2>2 DEF ReceiveSubscribe, Registered
    <2>4. QED
      BY <1>3, <2>3 DEF TypeOK, Registered, Chan
  <1>8. CASE ReceiveUnadvertise(p, q, m)
    <2>1. m.pub \in Entries(PubNodes)
      BY <1>2, <1>8, DatagramFields DEF ReceiveUnadvertise
    <2>2. chan' \in Chan
      BY <1>1, <1>4, <1>8, ConsumeTyped DEF ReceiveUnadvertise
    <2>3. /\ remote' \in [Proc -> SUBSET Entries(SubNodes)]
          /\ connections' \in [Proc -> SUBSET Entries(PubNodes)]
      BY <1>5, <1>8 DEF ReceiveUnadvertise, Disconnect, DelPublisherByNode
    <2>4. [pc |-> "drop", pub |-> m.pub] \in RecvState
      BY <2>1 DEF RecvState
    <2>5. recv' = [recv EXCEPT ![p] = [pc |-> "drop", pub |-> m.pub]]
      BY <1>8 DEF ReceiveUnadvertise
    <2>6. recv' \in [Proc -> RecvState]
      BY <1>5, <2>4, <2>5
    <2>7. \A r \in Proc : recv'[r].pc = "register" => IsFiniteSet(recv'[r].regs)
      BY <1>5, <2>5 DEF Registered
    <2>8. Typed
      BY <1>5, <1>8, <2>2, <2>3, <2>6, <2>7 DEF ReceiveUnadvertise, Registered
    <2>9. QED
      BY <1>3, <2>8 DEF TypeOK, Registered, Chan
  <1>9. CASE ReceiveNewConnection(p, q, m)
    <2>1. m.sub \in Entries(SubNodes)
      BY <1>2, <1>9, DatagramFields DEF ReceiveNewConnection
    <2>2. chan' \in Chan
      BY <1>1, <1>4, <1>9, ConsumeTyped DEF ReceiveNewConnection
    <2>3. remote' \in [Proc -> SUBSET Entries(SubNodes)]
      BY <1>5, <1>9, <2>1 DEF ReceiveNewConnection, AddPublisher
    <2>4. Typed
      BY <1>5, <1>9, <2>2, <2>3 DEF ReceiveNewConnection, Registered
    <2>5. QED
      BY <1>3, <2>4 DEF TypeOK, Registered, Chan
  <1>10. CASE ReceiveEndConnection(p, q, m)
    <2>1. chan' \in Chan
      BY <1>1, <1>4, <1>10, ConsumeTyped DEF ReceiveEndConnection
    <2>2. remote' \in [Proc -> SUBSET Entries(SubNodes)]
      BY <1>5, <1>10 DEF ReceiveEndConnection, DelPublisherByNode
    <2>3. Typed
      BY <1>5, <1>10, <2>1, <2>2 DEF ReceiveEndConnection, Registered
    <2>4. QED
      BY <1>3, <2>3 DEF TypeOK, Registered, Chan
  <1>11. QED
    BY <1>1, <1>6, <1>7, <1>8, <1>9, <1>10

LEMMA TypeOnNewConnection ==
    ASSUME TypeInv, NEW p \in Proc, OnNewConnection(p)
    PROVE  TypeInv'
  <1> USE DEF TypeInv
  <1> DEFINE pub == recv[p].pub
             regs == Registrations(p, local[p], pub)
             next == [pc |-> "register", regs |-> regs, ctrl |-> pub.pUuid]
  <1>1. pub \in Entries(PubNodes)
    <2>1. recv[p] \in RecvState /\ recv[p].pc = "connect"
      BY DEF OnNewConnection, TypeOK
    <2>2. QED
      BY <2>1 DEF RecvState, Idle
  <1>2. regs \in SUBSET Entries(SubNodes) /\ IsFiniteSet(regs)
    BY <1>1, RegistrationsTyped DEF TypeOK, Registered
  <1>3. recv \in [Proc -> RecvState]
    BY DEF TypeOK
  <1>4. CASE local[p] = {}
    <2>1. recv' = [recv EXCEPT ![p] = Idle]
      BY <1>4 DEF OnNewConnection
    <2>2. recv' \in [Proc -> RecvState]
      BY <1>3, <2>1 DEF RecvState
    <2>3. \A r \in Proc : recv'[r].pc = "register" => IsFiniteSet(recv'[r].regs)
      BY <1>3, <2>1 DEF Registered, Idle
    <2>4. TypeOK'
      BY <1>4, <2>2 DEF OnNewConnection, TypeOK
    <2>5. QED
      BY <2>3, <2>4 DEF OnNewConnection, Registered
  <1>5. CASE local[p] # {}
    <2>1. recv' = [recv EXCEPT ![p] = next] /\ Connect(p, {pub}) /\ filter[p] < MaxFilter
      BY <1>5 DEF OnNewConnection
    <2>2. next \in RecvState
      BY <1>1, <1>2, EntryFields DEF RecvState
    <2>3. recv' \in [Proc -> RecvState]
      BY <1>3, <2>1, <2>2
    <2>4. \A r \in Proc : recv'[r].pc = "register" => IsFiniteSet(recv'[r].regs)
      BY <1>2, <1>3, <2>1 DEF Registered
    <2>5. IsFiniteSet({pub}) /\ Cardinality({pub}) = 1
      BY FS_Singleton
    <2>6. filter[p] + Cardinality({pub}) <= MaxFilter
      <3>1. filter[p] \in 0..MaxFilter /\ MaxFilter \in Nat
        BY BoundAssumption DEF TypeOK
      <3>2. QED
        BY <2>1, <2>5, <3>1
    <2>7. /\ linked' \in [Proc -> SUBSET Proc]
          /\ filter' \in [Proc -> 0..MaxFilter]
          /\ connections' \in [Proc -> SUBSET Entries(PubNodes)]
      BY <1>1, <2>1, <2>5, <2>6, ConnectTyped
    <2>8. TypeOK'
      BY <1>5, <2>3, <2>7 DEF OnNewConnection, TypeOK
    <2>9. QED
      BY <2>4, <2>8 DEF OnNewConnection, Registered
  <1>6. QED
    BY <1>4, <1>5

LEMMA TypeRegister ==
    ASSUME TypeInv, NEW p \in Proc, Register(p)
    PROVE  TypeInv'
  <1> USE DEF TypeInv
  <1> DEFINE msgs == { NewConnection(sub, recv[p].ctrl) : sub \in recv[p].regs }
  <1>1. recv[p].regs \in SUBSET Entries(SubNodes) /\ recv[p].ctrl \in Proc
    <2>1. recv[p] \in RecvState /\ recv[p].pc = "register"
      BY DEF Register, TypeOK
    <2>2. QED
      BY <2>1 DEF RecvState, Idle
  <1>2. IsFiniteSet(recv[p].regs)
    BY DEF Register, Registered
  <1>3. SetToSeq(msgs) \in Seq(Datagram)
    BY <1>1, <1>2, NewConnectionsTyped, SetSequenced
  <1>4. chan' \in Chan
    BY <1>3, SentTyped DEF Register
  <1>5. recv' \in [Proc -> RecvState]
    BY DEF Register, TypeOK, RecvState
  <1>6. \A r \in Proc : recv'[r].pc = "register" => IsFiniteSet(recv'[r].regs)
    BY DEF Register, TypeOK, Registered, Idle
  <1>7. TypeOK'
    BY <1>4, <1>5 DEF Register, TypeOK, Chan
  <1>8. QED
    BY <1>6, <1>7 DEF Register, Registered

LEMMA TypeDrop ==
    ASSUME TypeInv, NEW p \in Proc, Drop(p)
    PROVE  TypeInv' /\ \A r \in Proc : known'[r] \subseteq known[r]
  <1> USE DEF TypeInv
  <1>1. PICK S : known' = [known EXCEPT ![p] = @ \ S]
    BY DEF Drop, DelPublisherByNode
  <1>2. known' \in [Proc -> SUBSET Entries(PubNodes)]
    BY <1>1 DEF TypeOK
  <1>3. \A r \in Proc : known'[r] \in SUBSET known[r]
    BY <1>1 DEF TypeOK
  <1>4. \A r \in Proc : IsFiniteSet(known'[r])
    BY <1>3, FS_Subset DEF Registered
  <1>5. recv' \in [Proc -> RecvState]
    BY DEF Drop, TypeOK, RecvState
  <1>6. \A r \in Proc : recv'[r].pc = "register" => IsFiniteSet(recv'[r].regs)
    BY DEF Drop, TypeOK, Registered, Idle
  <1>7. TypeOK'
    BY <1>2, <1>5 DEF Drop, TypeOK
  <1>8. QED
    BY <1>3, <1>4, <1>6, <1>7 DEF Drop, Registered

LEMMA TypeBeat ==
    ASSUME TypeInv, NEW p \in Proc, Beat(p)
    PROVE  TypeInv'
  <1> USE DEF TypeInv
  <1>1. SetToSeq({ Advertised(pub) : pub \in adv[p] }) \in Seq(Datagram)
    BY AdvertisedTyped DEF TypeOK, Registered
  <1>2. chan' \in Chan
    BY <1>1, SentTyped DEF Beat
  <1>3. TypeOK'
    BY <1>2 DEF Beat, TypeOK, Chan
  <1>4. QED
    BY <1>3 DEF Beat, Registered

LEMMA TypeForget ==
    ASSUME TypeInv, NEW p \in Proc, NEW q \in Proc, Expire(p, q) \/ Suspect(p, q)
    PROVE  TypeInv'
  <1> USE DEF TypeInv
  <1>1. /\ known' \in [Proc -> SUBSET Entries(PubNodes)]
        /\ \A r \in Proc : IsFiniteSet(known'[r])
        /\ UNCHANGED <<connections, remote>>
    BY DisconnectProcessTyped DEF Expire, Suspect
  <1>2. faults' \in 0..MaxFaults
    <2>1. faults \in 0..MaxFaults /\ MaxFaults \in Nat
      BY BoundAssumption DEF TypeOK
    <2>2. faults' = faults \/ (faults < MaxFaults /\ faults' = faults + 1)
      BY DEF Expire, Suspect
    <2>3. QED
      BY <2>1, <2>2
  <1>3. UNCHANGED <<state, adv, local, linked, filter, recv, user, chan, overtaken, lost, ops>>
    BY DEF Expire, Suspect
  <1>4. TypeOK'
    BY <1>1, <1>2, <1>3 DEF TypeOK
  <1>5. QED
    BY <1>1, <1>3, <1>4 DEF Registered

LEMMA TypeEnd ==
    ASSUME TypeInv, NEW p \in Proc, End(p)
    PROVE  TypeInv'
  <1> USE DEF TypeInv
  <1>1. chan' \in Chan
    <2>1. chan \in [Proc -> [Proc -> Seq(Datagram)]] /\ <<>> \in Seq(Datagram)
      BY DEF TypeOK
    <2>2. chan' = [q \in Proc |-> [chan[q] EXCEPT ![p] = <<>>]]
      BY DEF End
    <2>3. QED
      BY <2>1, <2>2 DEF Chan
  <1>2. state' \in [Proc -> {"up", "ended"}]
    BY DEF End, TypeOK
  <1>3. UNCHANGED <<adv, known, local, connections, linked, filter, remote,
                    recv, user, overtaken, lost, faults, ops>>
    BY DEF End
  <1>4. TypeOK'
    BY <1>1, <1>2, <1>3 DEF TypeOK, Chan
  <1>5. QED
    BY <1>3, <1>4 DEF Registered

LEMMA TypeLose ==
    ASSUME TypeInv, NEW p \in Proc, NEW q \in Proc, Lose(p, q)
    PROVE  TypeInv'
  <1> USE DEF TypeInv
  <1>1. PICK i \in DOMAIN chan[p][q] : chan' = [chan EXCEPT ![p][q] = RemoveAt(@, i)]
    BY DEF Lose
  <1>2. chan[p][q] \in Seq(Datagram)
    BY DEF TypeOK
  <1>3. RemoveAt(chan[p][q], i) \in Seq(Datagram)
    <2>1. i \in 1..Len(chan[p][q]) /\ Len(chan[p][q]) \in Nat
      BY <1>2
    <2>2. SubSeq(chan[p][q], 1, i-1) \in Seq(Datagram)
      BY <1>2, <2>1, SubSeqProperties
    <2>3. SubSeq(chan[p][q], i+1, Len(chan[p][q])) \in Seq(Datagram)
      BY <1>2, <2>1, SubSeqProperties
    <2>4. QED
      BY <2>2, <2>3, ConcatProperties DEF RemoveAt
  <1>4. chan' \in Chan
    BY <1>1, <1>3 DEF TypeOK, Chan
  <1>5. faults' \in 0..MaxFaults
    <2>1. faults \in 0..MaxFaults /\ MaxFaults \in Nat
      BY BoundAssumption DEF TypeOK
    <2>2. faults < MaxFaults /\ faults' = faults + 1
      BY DEF Lose
    <2>3. QED
      BY <2>1, <2>2
  <1>6. TypeOK'
    BY <1>4, <1>5 DEF Lose, TypeOK, Chan
  <1>7. QED
    BY <1>6 DEF Lose, Registered

LEMMA TypeStep == TypeInv /\ [Next]_vars => TypeInv'
  <1> SUFFICES ASSUME TypeInv, [Next]_vars PROVE TypeInv'
    OBVIOUS
  <1>1. Pubs \subseteq Proc /\ Subs \subseteq Proc
    BY NameAssumption
  <1>2. ASSUME NEW p \in Pubs, NEW u \in User, NEW n \in PubNodes, NEW type \in Type,
               Advertise(p, u, n, type)
        PROVE  TypeInv'
    BY <1>1, <1>2, TypeAdvertise
  <1>3. ASSUME NEW p \in Pubs, NEW u \in User, NEW pub \in adv[p], Unadvertise(p, u, pub)
        PROVE  TypeInv'
    BY <1>1, <1>3, TypeUnadvertise
  <1>4. ASSUME NEW p \in Subs, NEW u \in User, NEW h \in Handler, Subscribe(p, u, h)
        PROVE  TypeInv'
    BY <1>1, <1>4, TypeSubscribe
  <1>5. ASSUME NEW p \in Subs, NEW u \in User, NEW n \in SubNodes, Unsubscribe(p, u, n)
        PROVE  TypeInv'
    BY <1>1, <1>5, TypeUnsubscribe
  <1>6. ASSUME NEW p \in Proc, NEW u \in User, UserContinues(p, u)
        PROVE  TypeInv'
    BY <1>6, TypeUnregister, TypeBroadcast DEF UserContinues
  <1>7. ASSUME NEW p \in Proc, Receive(p) \/ RecvContinues(p) \/ Beat(p)
        PROVE  TypeInv'
    BY <1>7, TypeReceive, TypeOnNewConnection, TypeRegister, TypeDrop, TypeBeat DEF RecvContinues
  <1>8. ASSUME NEW p \in Proc, NEW q \in Proc, Expire(p, q) \/ Suspect(p, q) \/ Lose(p, q)
        PROVE  TypeInv'
    BY <1>8, TypeForget, TypeLose
  <1>9. ASSUME NEW p \in Proc, End(p)
        PROVE  TypeInv'
    BY <1>9, TypeEnd
  <1>10. CASE UNCHANGED vars
    BY <1>10 DEF vars, TypeInv, TypeOK, Registered
  <1>11. QED
    BY <1>2, <1>3, <1>4, <1>5, <1>6, <1>7, <1>8, <1>9, <1>10 DEF Next

\* Every variable has its type in every reachable state, and the sets that are
\* sent one member at a time are finite (NodeShared's and Discovery's maps).
THEOREM TypeCorrect == Spec => []TypeOK
  <1>1. Spec => []TypeInv
    BY TypeInvInit, TypeStep, PTL DEF Spec
  <1>2. TypeInv => TypeOK
    BY DEF TypeInv
  <1>3. QED
    BY <1>1, <1>2, PTL

-----------------------------------------------------------------------------
(* A subscribing process is connected to the publishers it knows.          *)

LEMMA ConnectedStep == TypeInv /\ KnownIsConnected /\ [Next]_vars => KnownIsConnected'
  <1> SUFFICES ASSUME TypeInv, KnownIsConnected, [Next]_vars,
                      NEW p \in Proc, local'[p] # {}, NEW pub \in known'[p]
               PROVE  \/ recv'[p].pc = "connect" /\ recv'[p].pub = pub
                      \/ pub.addr \in linked'[p] /\ filter'[p] > 0
    BY DEF KnownIsConnected
  <1>1. /\ known \in [Proc -> SUBSET Entries(PubNodes)]
        /\ local \in [Proc -> SUBSET Handler]
        /\ linked \in [Proc -> SUBSET Proc]
        /\ filter \in [Proc -> 0..MaxFilter] /\ MaxFilter \in Nat
        /\ recv \in [Proc -> RecvState]
    BY BoundAssumption DEF TypeInv, TypeOK
  <1>2. ASSUME UNCHANGED <<local, linked, filter, recv>>, known'[p] \subseteq known[p]
        PROVE  \/ recv'[p].pc = "connect" /\ recv'[p].pub = pub
               \/ pub.addr \in linked'[p] /\ filter'[p] > 0
    BY <1>2 DEF KnownIsConnected
  \* What Connect does for the publishers it is given, and to the others.
  <1>3. ASSUME NEW q \in Proc, NEW pubs, IsFiniteSet(pubs), Connect(q, pubs)
        PROVE  /\ q = p /\ pub \in pubs => pub.addr \in linked'[p] /\ filter'[p] > 0
               /\ linked[p] \subseteq linked'[p]
               /\ filter'[p] >= filter[p]
    <2>1. Cardinality(pubs) \in Nat /\ (pub \in pubs => Cardinality(pubs) # 0)
      BY <1>3, FS_CardinalityType, FS_EmptySet
    <2>2. /\ linked' = [linked EXCEPT ![q] = @ \cup { r.addr : r \in pubs }]
          /\ filter' = [filter EXCEPT ![q] = @ + Cardinality(pubs)]
      BY <1>3 DEF Connect
    <2>3. filter[p] \in Nat /\ filter[q] \in Nat
      BY <1>1
    <2>4. filter'[p] >= filter[p] /\ (q = p /\ pub \in pubs => filter'[p] > 0)
      BY <1>1, <2>1, <2>2, <2>3
    <2>5. linked[p] \subseteq linked'[p]
      BY <1>1, <2>2
    <2>6. q = p /\ pub \in pubs => pub.addr \in linked'[p]
      BY <1>1, <2>2
    <2>7. QED
      BY <2>4, <2>5, <2>6
  <1>4. ASSUME NEW q \in Pubs, NEW u \in User,
               \/ \E n \in PubNodes : \E type \in Type : Advertise(q, u, n, type)
               \/ \E own \in adv[q] : Unadvertise(q, u, own)
        PROVE  \/ recv'[p].pc = "connect" /\ recv'[p].pub = pub
               \/ pub.addr \in linked'[p] /\ filter'[p] > 0
    BY <1>2, <1>4 DEF Advertise, Unadvertise
  <1>5. ASSUME NEW q \in Subs, NEW u \in User, NEW h \in Handler, Subscribe(q, u, h)
        PROVE  \/ recv'[p].pc = "connect" /\ recv'[p].pub = pub
               \/ pub.addr \in linked'[p] /\ filter'[p] > 0
    <2>1. q \in Proc /\ IsFiniteSet(known[q]) /\ Connect(q, known[q])
      BY <1>5, NameAssumption DEF Subscribe, TypeInv, Registered
    <2>2. UNCHANGED <<known, recv>> /\ local' = [local EXCEPT ![q] = @ \cup {h}]
      BY <1>5 DEF Subscribe
    <2>3. CASE q = p
      BY <1>3, <2>1, <2>2, <2>3
    <2>4. CASE q # p
      <3>1. local'[p] = local[p]
        BY <1>1, <2>2, <2>4
      <3>2. \/ recv[p].pc = "connect" /\ recv[p].pub = pub
            \/ pub.addr \in linked[p] /\ filter[p] > 0
        BY <2>2, <3>1 DEF KnownIsConnected
      <3>3. linked'[p] = linked[p] /\ filter'[p] = filter[p]
        BY <1>1, <2>1, <2>4 DEF Connect
      <3>4. QED
        BY <2>2, <3>2, <3>3
    <2>5. QED
      BY <2>3, <2>4
  <1>6. ASSUME NEW q \in Subs, NEW u \in User, NEW n \in SubNodes, Unsubscribe(q, u, n)
        PROVE  \/ recv'[p].pc = "connect" /\ recv'[p].pub = pub
               \/ pub.addr \in linked'[p] /\ filter'[p] > 0
    <2>1. q \in Proc /\ UNCHANGED <<known, recv, linked>>
      BY <1>6, NameAssumption DEF Unsubscribe
    <2>2. PICK H : local' = [local EXCEPT ![q] = @ \ H]
      BY <1>6 DEF Unsubscribe
    <2>3. \/ filter' = filter
          \/ filter' = [filter EXCEPT ![q] = IF local'[q] = {} /\ @ > 0 THEN @ - 1 ELSE @]
      BY <1>6 DEF Unsubscribe
    <2>4. filter'[p] = filter[p]
      BY <1>1, <2>1, <2>3
    <2>5. local[p] # {}
      BY <1>1, <2>1, <2>2
    <2>6. QED
      BY <2>1, <2>4, <2>5 DEF KnownIsConnected
  <1>7. ASSUME NEW q \in Proc, NEW u \in User, UserContinues(q, u)
        PROVE  \/ recv'[p].pc = "connect" /\ recv'[p].pub = pub
               \/ pub.addr \in linked'[p] /\ filter'[p] > 0
    BY <1>2, <1>7 DEF UserContinues, Unregister, Broadcast
  <1>8. ASSUME NEW q \in Proc, Receive(q)
        PROVE  \/ recv'[p].pc = "connect" /\ recv'[p].pub = pub
               \/ pub.addr \in linked'[p] /\ filter'[p] > 0
    <2>1. UNCHANGED <<local, linked, filter>> /\ recv[q] = Idle
      BY <1>8 DEF Receive
    <2>2. PICK r \in Proc \ {q} :
              LET m == Head(chan[r][q])
              IN  \/ ReceiveAdvertise(q, r, m)
                  \/ ReceiveSubscribe(q, r, m)
                  \/ ReceiveUnadvertise(q, r, m)
                  \/ ReceiveNewConnection(q, r, m)
                  \/ ReceiveEndConnection(q, r, m)
      BY <1>8 DEF Receive
    <2> DEFINE m == Head(chan[r][q])
    <2>3. CASE ReceiveAdvertise(q, r, m)
      <3>1. \/ UNCHANGED <<known, recv>>
            \/ /\ known' = [known EXCEPT ![q] = @ \cup {m.pub}]
               /\ recv' = [recv EXCEPT ![q] = [pc |-> "connect", pub |-> m.pub]]
        BY <1>1, <2>3 DEF ReceiveAdvertise, AddPublisher
      <3>2. recv[q].pc # "connect"
        BY <2>1 DEF Idle
      <3>3. CASE pub \in known[p]
        <4>1. \/ recv[p].pc = "connect" /\ recv[p].pub = pub
              \/ pub.addr \in linked[p] /\ filter[p] > 0
          BY <2>1, <3>3 DEF KnownIsConnected
        <4>2. QED
          BY <1>1, <2>1, <3>1, <3>2, <4>1
      <3>4. CASE pub \notin known[p]
        BY <1>1, <3>1, <3>4
      <3>5. QED
        BY <3>3, <3>4
    <2>4. CASE ReceiveUnadvertise(q, r, m)
      <3>1. known' = known /\ recv' = [recv EXCEPT ![q] = [pc |-> "drop", pub |-> m.pub]]
        BY <2>4 DEF ReceiveUnadvertise
      <3>2. recv[q].pc # "connect"
        BY <2>1 DEF Idle
      <3>3. \/ recv[p].pc = "connect" /\ recv[p].pub = pub
            \/ pub.addr \in linked[p] /\ filter[p] > 0
        BY <2>1, <3>1 DEF KnownIsConnected
      <3>4. QED
        BY <1>1, <2>1, <3>1, <3>2, <3>3
    <2>5. CASE ReceiveSubscribe(q, r, m) \/ ReceiveNewConnection(q, r, m)
                    \/ ReceiveEndConnection(q, r, m)
      BY <1>2, <2>1, <2>5 DEF ReceiveSubscribe, ReceiveNewConnection, ReceiveEndConnection
    <2>6. QED
      BY <2>2, <2>3, <2>4, <2>5
  <1>9. ASSUME NEW q \in Proc, OnNewConnection(q)
        PROVE  \/ recv'[p].pc = "connect" /\ recv'[p].pub = pub
               \/ pub.addr \in linked'[p] /\ filter'[p] > 0
    <2>1. known' = known /\ local' = local
      BY <1>9 DEF OnNewConnection
    <2>2. \/ recv[p].pc = "connect" /\ recv[p].pub = pub
          \/ pub.addr \in linked[p] /\ filter[p] > 0
      BY <2>1 DEF KnownIsConnected
    <2>3. CASE q = p
      <3>1. Connect(p, {recv[p].pub})
        BY <1>9, <2>1, <2>3 DEF OnNewConnection
      <3>2. IsFiniteSet({recv[p].pub})
        BY FS_Singleton
      <3>3. /\ recv[p].pub = pub => pub.addr \in linked'[p] /\ filter'[p] > 0
            /\ linked[p] \subseteq linked'[p]
            /\ filter'[p] >= filter[p]
        BY <1>3, <3>1, <3>2
      <3>4. filter[p] \in Nat /\ filter'[p] \in Nat
        <4>1. TypeInv'
          BY <1>9, TypeOnNewConnection
        <4>2. QED
          BY <1>1, <4>1 DEF TypeInv, TypeOK
      <3>5. QED
        BY <2>2, <3>3, <3>4
    <2>4. CASE q # p
      <3>1. recv'[p] = recv[p] /\ linked'[p] = linked[p] /\ filter'[p] = filter[p]
        BY <1>1, <1>9, <2>4 DEF OnNewConnection, Connect
      <3>2. QED
        BY <2>2, <3>1
    <2>5. QED
      BY <2>3, <2>4
  <1>10. ASSUME NEW q \in Proc, Register(q) \/ Drop(q)
         PROVE  \/ recv'[p].pc = "connect" /\ recv'[p].pub = pub
                \/ pub.addr \in linked'[p] /\ filter'[p] > 0
    <2>1. known'[p] \subseteq known[p]
      BY <1>10, TypeDrop DEF Register
    <2>2. UNCHANGED <<local, linked, filter>> /\ recv' = [recv EXCEPT ![q] = Idle]
      BY <1>10 DEF Register, Drop
    <2>3. recv[q].pc # "connect"
      BY <1>10 DEF Register, Drop
    <2>4. \/ recv[p].pc = "connect" /\ recv[p].pub = pub
          \/ pub.addr \in linked[p] /\ filter[p] > 0
      BY <2>1, <2>2 DEF KnownIsConnected
    <2>5. QED
      BY <1>1, <2>2, <2>3, <2>4
  <1>11. ASSUME NEW q \in Proc, Beat(q) \/ End(q)
         PROVE  \/ recv'[p].pc = "connect" /\ recv'[p].pub = pub
                \/ pub.addr \in linked'[p] /\ filter'[p] > 0
    BY <1>2, <1>11 DEF Beat, End
  <1>12. ASSUME NEW q \in Proc, NEW r \in Proc, Expire(q, r) \/ Suspect(q, r) \/ Lose(q, r)
         PROVE  \/ recv'[p].pc = "connect" /\ recv'[p].pub = pub
                \/ pub.addr \in linked'[p] /\ filter'[p] > 0
    BY <1>2, <1>12, DisconnectProcessTyped DEF Expire, Suspect, Lose
  <1>13. CASE UNCHANGED vars
    BY <1>2, <1>13 DEF vars
  <1>14. QED
    BY <1>4, <1>5, <1>6, <1>7, <1>8, <1>9, <1>10, <1>11, <1>12, <1>13 DEF Next, RecvContinues

\* In every reachable state a process that subscribes is connected to every
\* publisher it knows, and filters for the topic, except while OnNewConnection
\* for that publisher is about to run: whatever the order of its Subscribes and
\* Unsubscribes and of the ADVERTISEs of others.
THEOREM SubscriberIsConnected == Spec => []KnownIsConnected
  <1>1. Init => KnownIsConnected
    BY DEF Init, KnownIsConnected
  <1>2. QED
    BY <1>1, TypeInvInit, TypeStep, ConnectedStep, PTL DEF Spec

-----------------------------------------------------------------------------
(* Only its own node removes a remote subscriber, provided that no node both *)
(* advertises and subscribes to the topic.                                 *)

\* The steps that remove no remote subscriber but at its node's word.
Removal ==
    \A p \in Proc : \A s \in remote[p] \ remote'[p] :
        /\ chan[s.pUuid][p] # <<>>
        /\ Head(chan[s.pUuid][p]).kind = "END_CONNECTION"
        /\ Head(chan[s.pUuid][p]).node = s.nUuid

LEMMA RemovalStep ==
    ASSUME PubNodes \cap SubNodes = {}, TypeInv, [Next]_vars
    PROVE  Removal
  <1>1. remote \in [Proc -> SUBSET Entries(SubNodes)]
    BY DEF TypeInv, TypeOK
  <1>2. ASSUME NEW p \in Proc, Receive(p)
        PROVE  Removal
    <2>1. PICK q \in Proc \ {p} :
              /\ chan[q][p] # <<>>
              /\ LET m == Head(chan[q][p])
                 IN  \/ ReceiveAdvertise(p, q, m)
                     \/ ReceiveSubscribe(p, q, m)
                     \/ ReceiveUnadvertise(p, q, m)
                     \/ ReceiveNewConnection(p, q, m)
                     \/ ReceiveEndConnection(p, q, m)
      BY <1>2 DEF Receive
    <2> DEFINE m == Head(chan[q][p])
    <2>2. m \in Datagram
      <3>1. chan[q][p] \in Seq(Datagram)
        BY DEF TypeInv, TypeOK
      <3>2. QED
        BY <2>1, <3>1, HeadTailProperties
    <2>3. CASE ReceiveUnadvertise(p, q, m)
      <3>1. m.pub \in Entries(PubNodes)
        BY <2>2, <2>3, DatagramFields DEF ReceiveUnadvertise
      <3>2. m.pub.nUuid \in PubNodes
        BY <3>1, EntryFields
      <3>3. remote' = [remote EXCEPT ![p] = @ \ ByNode(@, m.pub.topic, m.pub.pUuid, m.pub.nUuid)]
        BY <2>3 DEF ReceiveUnadvertise, Disconnect, DelPublisherByNode
      <3>4. \A s \in remote[p] : s.nUuid \in SubNodes
        BY <1>1, EntryFields
      <3>5. ByNode(remote[p], m.pub.topic, m.pub.pUuid, m.pub.nUuid) = {}
        BY <3>2, <3>4 DEF ByNode
      <3>6. remote' = remote
        BY <1>1, <3>3, <3>5
      <3>7. QED
        BY <3>6 DEF Removal
    <2>4. CASE ReceiveEndConnection(p, q, m)
      <3>1. /\ m.kind = "END_CONNECTION"
            /\ \/ remote' = remote
               \/ remote' = [remote EXCEPT ![p] = @ \ ByNode(@, TheTopic, q, m.node)]
        BY <2>4 DEF ReceiveEndConnection, DelPublisherByNode
      <3>2. \A r \in Proc : \A s \in remote[r] \ remote'[r] :
                r = p /\ s.pUuid = q /\ s.nUuid = m.node
        BY <1>1, <3>1 DEF ByNode
      <3>3. QED
        BY <2>1, <3>1, <3>2 DEF Removal
    <2>5. CASE ReceiveNewConnection(p, q, m)
      <3>1. \A r \in Proc : remote[r] \subseteq remote'[r]
        BY <1>1, <2>5 DEF ReceiveNewConnection, AddPublisher
      <3>2. QED
        BY <3>1 DEF Removal
    <2>6. CASE ReceiveAdvertise(p, q, m) \/ ReceiveSubscribe(p, q, m)
      BY <2>6 DEF ReceiveAdvertise, ReceiveSubscribe, Removal
    <2>7. QED
      BY <2>1, <2>3, <2>4, <2>5, <2>6
  <1>3. ASSUME remote' = remote
        PROVE  Removal
    BY <1>3 DEF Removal
  <1>4. ASSUME NEW p \in Proc, NEW u \in User,
               \/ \E n \in PubNodes : \E type \in Type : Advertise(p, u, n, type)
               \/ \E pub \in adv[p] : Unadvertise(p, u, pub)
               \/ \E h \in Handler : Subscribe(p, u, h)
               \/ \E n \in SubNodes : Unsubscribe(p, u, n)
               \/ UserContinues(p, u)
        PROVE  Removal
    BY <1>3, <1>4 DEF Advertise, Unadvertise, Subscribe, Unsubscribe, UserContinues,
                      Unregister, Broadcast
  <1>5. ASSUME NEW p \in Proc, RecvContinues(p) \/ Beat(p) \/ End(p)
        PROVE  Removal
    BY <1>3, <1>5 DEF RecvContinues, OnNewConnection, Register, Drop, Beat, End
  <1>6. ASSUME NEW p \in Proc, NEW q \in Proc, Expire(p, q) \/ Suspect(p, q) \/ Lose(p, q)
        PROVE  Removal
    BY <1>3, <1>6 DEF Expire, Suspect, Lose, DisconnectProcess
  <1>7. CASE UNCHANGED vars
    BY <1>3, <1>7 DEF vars
  <1>8. Pubs \subseteq Proc /\ Subs \subseteq Proc
    BY NameAssumption
  <1>9. QED
    BY <1>2, <1>4, <1>5, <1>6, <1>7, <1>8 DEF Next

\* Where no node both advertises and subscribes to the topic, a remote subscriber
\* leaves the list only at a word of its own node: not because a publisher of its
\* process was unadvertised, nor because its process was suspected or ended.
\* (OnNewDisconnection removes by topic, process and node; the run reg_both shows
\* that the hypothesis is needed.)
THEOREM OnlyItsNodeRemoves == PubNodes \cap SubNodes = {} => (Spec => RemovedByItsNode)
  <1> SUFFICES ASSUME PubNodes \cap SubNodes = {}
               PROVE  Spec => RemovedByItsNode
    OBVIOUS
  <1>1. TypeInv /\ [Next]_vars => Removal
    BY RemovalStep
  <1>2. Spec => [][Removal]_vars
    BY <1>1, TypeInvInit, TypeStep, PTL DEF Spec
  <1>3. QED
    BY <1>2 DEF RemovedByItsNode, Removal
=============================================================================
