------------------------- MODULE ServiceCallProofs --------------------------
(***************************************************************************)
(* Theorems about ServiceCall for every set of requests, servers and types *)
(* and every value of the bounds.                                          *)
(***************************************************************************)
EXTENDS ServiceCall, SequenceTheorems, FiniteSetTheorems, TLAPS

-----------------------------------------------------------------------------
(* The invariant that the refinement rests on: where the one copy of a     *)
(* request, and the one answer to it, may be.                              *)

\* No server has been given r, nor is about to be.
NotSent(r) ==
    /\ executed[r] = <<>>
    /\ \A s \in Server :
          /\ serving[s] # r
          /\ \A i \in DOMAIN wire[s] : wire[s][i] # r

\* What nobody asked is not stored, and what is not marked was not sent.
MarkedBeforeSent ==
    \A r \in Req :
        /\ call[r] = "idle" => handler[r] = "none" /\ NotSent(r)
        /\ handler[r] = "stored" => NotSent(r)

\* The requests stored are those that have been asked, of which there are ever
\* finitely many.
StoredFinite == IsFiniteSet({ r \in Req : handler[r] # "none" })

\* One copy of a request travels, and none once it is being executed.
OneCopy ==
    /\ \A s, t \in Server : \A i \in DOMAIN wire[s], j \in DOMAIN wire[t] :
          wire[s][i] = wire[t][j] => s = t /\ i = j
    /\ \A s, t \in Server : serving[s] # None /\ serving[s] = serving[t] => s = t
    /\ \A s, t \in Server : \A i \in DOMAIN wire[s] :
          serving[t] # None => wire[s][i] # serving[t]
    /\ \A s \in Server : \A i \in DOMAIN wire[s] : executed[wire[s][i]] = <<>>
    /\ \A s \in Server : serving[s] # None => executed[serving[s]] = <<>>

\* resp is the answer to its request, which nobody has been told.
Untold(resp) ==
    /\ resp.req \notin OneWay
    /\ executed[resp.req] = <<resp.result>>
    /\ told[resp.req] = <<>>

\* One answer to a request travels, and none once it is found.
OneAnswer ==
    /\ \A i \in DOMAIN back : Untold(back[i])
    /\ \A i, j \in DOMAIN back : back[i].req = back[j].req => i = j
    /\ \A r \in Req : executed[r] = <<>> => told[r] = <<>>
    /\ recv.pc = "notify" =>
          /\ Untold(recv.resp)
          /\ \A i \in DOMAIN back : back[i].req # recv.resp.req

Once == MarkedBeforeSent /\ OneCopy /\ OneAnswer

-----------------------------------------------------------------------------
(* Sending what is pending.                                                *)

\* Sequenced visits each member of a finite set once.
LEMMA SequencedOnce ==
    ASSUME NEW S, IsFiniteSet(S)
    PROVE  /\ Sequenced(S) \in Seq(S)
           /\ \A i, j \in DOMAIN Sequenced(S) : Sequenced(S)[i] = Sequenced(S)[j] => i = j
  <1> DEFINE n == Cardinality(S)
             IsOrder(f) == { f[i] : i \in DOMAIN f } = S
             F == Sequenced(S)
  <1>1. n \in Nat /\ ExistsBijection(1..n, S)
    BY FS_CardinalityType
  <1>2. PICK g : g \in Bijection(1..n, S)
    BY <1>1 DEF ExistsBijection
  <1>3. g \in [1..n -> S] /\ IsOrder(g)
    BY <1>2 DEF Bijection, Surjection, Injection
  <1>4. F \in [1..n -> S] /\ IsOrder(F)
    BY <1>3 DEF Sequenced
  <1>5. F \in Surjection(1..n, S)
    BY <1>4 DEF Surjection
  <1>6. IsFiniteSet(1..n) /\ Cardinality(1..n) = n
    BY <1>1, FS_Interval
  <1>7. F \in Injection(1..n, S)
    BY <1>5, <1>6, FS_SurjSameCardinalityImpliesInj
  <1>8. F \in Seq(S)
    BY <1>1, <1>4, SeqDef
  <1>9. QED
    BY <1>4, <1>7, <1>8 DEF Injection, IsInjective

HandlerState == {"none", "stored", "requested"}

Stored(handlers) == { r \in Req : handlers[r] # "none" }

\* SendPendingRemoteReqs puts some of the pending requests on the wire, each
\* once, leaves none of them pending and does not touch the others.
LEMMA SendPendingEffect ==
    ASSUME TypeOK, NEW s \in Server, NEW handlers \in [Req -> HandlerState],
           IsFiniteSet(Stored(handlers)), SendPending(s, handlers)
    PROVE  /\ linked' \subseteq Server
           /\ faults' \in 0..MaxFaults
           /\ handler' \in [Req -> HandlerState]
           /\ \A r \in Req :
                 /\ handlers[r] = "none" => handler'[r] = "none"
                 /\ handler'[r] = "stored" =>
                       handlers[r] = "stored" /\ r \notin Pending(KindOf[s], handlers)
           /\ \E new \in Seq(Pending(KindOf[s], handlers)) :
                 /\ wire' = [wire EXCEPT ![s] = @ \o new]
                 /\ \A i, j \in DOMAIN new : new[i] = new[j] => i = j
  <1> DEFINE S == Pending(KindOf[s], handlers)
  <1>1. PICK L \in Losses(s, S) :
            /\ linked' = linked \cup {s}
            /\ handler' = [r \in Req |->
                   IF r \notin S THEN handlers[r]
                   ELSE IF r \in OneWay THEN "none" ELSE "requested"]
            /\ wire' = [wire EXCEPT ![s] = @ \o Sequenced(S \ L)]
            /\ faults' = IF Alive(s) THEN faults + Cardinality(L) ELSE faults
    BY DEF SendPending
  <1>2. S \subseteq Stored(handlers) /\ S \subseteq Req
    BY DEF Pending, Stored
  <1>3. IsFiniteSet(S)
    BY <1>2, FS_Subset
  <1>4. L \subseteq S /\ IsFiniteSet(L) /\ IsFiniteSet(S \ L) /\ Cardinality(L) \in Nat
    <2>1. L \subseteq S
      BY DEF Losses
    <2>2. IsFiniteSet(L) /\ IsFiniteSet(S \ L)
      BY <1>3, <2>1, FS_Subset
    <2>3. QED
      BY <2>1, <2>2, FS_CardinalityType
  <1>5. Alive(s) => faults + Cardinality(L) <= MaxFaults
    BY DEF Losses
  <1>6. faults' \in 0..MaxFaults
    <2>1. faults \in 0..MaxFaults /\ MaxFaults \in Nat
      BY CallAssumption DEF TypeOK
    <2>2. faults' = IF Alive(s) THEN faults + Cardinality(L) ELSE faults
      BY <1>1
    <2>3. QED
      BY <1>4, <1>5, <2>1, <2>2
  <1>7. Sequenced(S \ L) \in Seq(S)
    BY <1>4, SequencedOnce, SeqMonotonic
  <1>8. \E new \in Seq(S) :
           /\ wire' = [wire EXCEPT ![s] = @ \o new]
           /\ \A i, j \in DOMAIN new : new[i] = new[j] => i = j
    BY <1>1, <1>4, <1>7, SequencedOnce
  <1>9. /\ handler' \in [Req -> HandlerState]
        /\ \A r \in Req :
              /\ handlers[r] = "none" => handler'[r] = "none"
              /\ handler'[r] = "stored" => handlers[r] = "stored" /\ r \notin S
    BY <1>1 DEF HandlerState, Pending
  <1>10. linked' \subseteq Server
    BY <1>1 DEF TypeOK
  <1>11. QED
    BY <1>6, <1>8, <1>9, <1>10

\* What a sequence that stays typed, grown at the end, holds.
LEMMA ConcatElements ==
    ASSUME NEW T, NEW a \in Seq(T), NEW b \in Seq(T)
    PROVE  /\ a \o b \in Seq(T)
           /\ \A i \in DOMAIN (a \o b) :
                 \/ i \in DOMAIN a /\ (a \o b)[i] = a[i]
                 \/ /\ i > Len(a) /\ i - Len(a) \in DOMAIN b
                    /\ (a \o b)[i] = b[i - Len(a)]
  BY ConcatProperties, LenProperties

\* The tail of a sequence holds what the sequence holds after its first element.
LEMMA TailElements ==
    ASSUME NEW T, NEW a \in Seq(T), a # <<>>
    PROVE  /\ Head(a) \in T /\ Head(a) = a[1] /\ 1 \in DOMAIN a
           /\ Tail(a) \in Seq(T)
           /\ \A i \in DOMAIN Tail(a) : i + 1 \in DOMAIN a /\ Tail(a)[i] = a[i + 1]
           /\ \A i \in DOMAIN Tail(a) : i \in Nat /\ i # 0
  BY HeadTailProperties, LenProperties, EmptySeq

\* An element appended is the last one.
LEMMA AppendElements ==
    ASSUME NEW T, NEW a \in Seq(T), NEW e \in T
    PROVE  /\ Append(a, e) \in Seq(T)
           /\ \A i \in DOMAIN Append(a, e) :
                 \/ i \in DOMAIN a /\ Append(a, e)[i] = a[i]
                 \/ i \notin DOMAIN a /\ i = Len(a) + 1 /\ Append(a, e)[i] = e
  BY AppendProperties, LenProperties

-----------------------------------------------------------------------------
(* Type correctness, with the finiteness that sending needs.               *)

TypeInv == TypeOK /\ StoredFinite

LEMMA TypeInvInit == Init => TypeInv
  <1> SUFFICES ASSUME Init PROVE TypeInv
    OBVIOUS
  <1>1. Idle \in DiscState /\ Idle \in WorkerState /\ Idle \in RecvState
    BY DEF DiscState, WorkerState, RecvState
  <1>2. /\ 0 \in 0..MaxFaults /\ 0 \in 0..MaxStops /\ 0 \in 0..MaxWakeups
        /\ \A S : <<>> \in Seq(S)
        /\ "idle" \in CallState
    BY CallAssumption, EmptySeq DEF CallState
  <1>3. TypeOK
    BY <1>1, <1>2 DEF Init, TypeOK
  <1>4. { r \in Req : handler[r] # "none" } = {}
    BY DEF Init
  <1>5. QED
    BY <1>3, <1>4, FS_EmptySet DEF TypeInv, StoredFinite

\* The counters, and their bounds.
LEMMA Counters ==
    ASSUME TypeOK
    PROVE  /\ faults \in 0..MaxFaults /\ MaxFaults \in Nat
           /\ stops \in 0..MaxStops /\ MaxStops \in Nat
           /\ wakeups \in 0..MaxWakeups /\ MaxWakeups \in Nat
  BY CallAssumption DEF TypeOK

\* handlers, once SendPendingRemoteReqs has been through them.
LEMMA StoredAfterSend ==
    ASSUME NEW handlers, IsFiniteSet(Stored(handlers)),
           \A r \in Req : handlers[r] = "none" => handler'[r] = "none"
    PROVE  StoredFinite'
  <1>1. { r \in Req : handler'[r] # "none" } \subseteq Stored(handlers)
    BY DEF Stored
  <1>2. QED
    BY <1>1, FS_Subset DEF StoredFinite

\* Storing one more request leaves finitely many.
LEMMA StoreOne ==
    ASSUME TypeInv, NEW r \in Req
    PROVE  /\ [handler EXCEPT ![r] = "stored"] \in [Req -> HandlerState]
           /\ IsFiniteSet(Stored([handler EXCEPT ![r] = "stored"]))
  <1> DEFINE stored == [handler EXCEPT ![r] = "stored"]
  <1>1. stored \in [Req -> HandlerState]
    BY DEF TypeInv, TypeOK, HandlerState
  <1>2. Stored(stored) \subseteq Stored(handler) \cup {r}
    BY DEF TypeInv, TypeOK, Stored
  <1>3. IsFiniteSet(Stored(handler) \cup {r})
    BY FS_AddElement DEF TypeInv, StoredFinite, Stored
  <1>4. QED
    BY <1>1, <1>2, <1>3, FS_Subset

\* More requests on the wire are requests.
LEMMA WireTypes ==
    ASSUME TypeOK, NEW s \in Server, NEW new \in Seq(Req),
           wire' = [wire EXCEPT ![s] = @ \o new]
    PROVE  wire' \in [Server -> Seq(Req)]
  BY ConcatElements DEF TypeOK

LEMMA PendingIsReq ==
    ASSUME NEW kind, NEW handlers, NEW new \in Seq(Pending(kind, handlers))
    PROVE  new \in Seq(Req)
  BY SeqMonotonic DEF Pending

\* The threads of the callers preserve types.
LEMMA TypeCall ==
    ASSUME TypeInv, NEW r \in Req,
           Request(r) \/ CallContinues(r) \/ SpuriousWakeup(r) \/ Timeout(r)
    PROVE  TypeInv'
  <1>1. CASE Request(r)
    <2> DEFINE stored == [handler EXCEPT ![r] = "stored"]
    <2>1. stored \in [Req -> HandlerState] /\ IsFiniteSet(Stored(stored))
      BY StoreOne
    <2>2. call' \in [Req -> CallState]
      BY <1>1 DEF Request, TypeInv, TypeOK, CallState
    <2>3. CASE Matching(KindOf[r]) = {}
      <3>1. handler' = stored /\ UNCHANGED <<linked, wire, faults>>
        BY <1>1, <2>3 DEF Request
      <3>2. TypeOK'
        BY <1>1, <2>1, <2>2, <3>1 DEF Request, TypeInv, TypeOK, HandlerState
      <3>3. QED
        BY <2>1, <3>1, <3>2 DEF TypeInv, StoredFinite, Stored
    <2>4. CASE Matching(KindOf[r]) # {}
      <3>1. PICK s \in Matching(KindOf[r]) : SendPending(s, stored)
        BY <1>1, <2>4 DEF Request
      <3>2. s \in Server /\ TypeOK
        BY DEF TypeInv, TypeOK, Matching
      <3> DEFINE S == Pending(KindOf[s], stored)
      <3>3. /\ linked' \subseteq Server
            /\ faults' \in 0..MaxFaults
            /\ handler' \in [Req -> HandlerState]
            /\ \A q \in Req : stored[q] = "none" => handler'[q] = "none"
            /\ \E new \in Seq(S) : wire' = [wire EXCEPT ![s] = @ \o new]
        BY <2>1, <3>1, <3>2, SendPendingEffect
      <3>4. wire' \in [Server -> Seq(Req)]
        BY <3>2, <3>3, PendingIsReq, WireTypes
      <3>5. StoredFinite'
        BY <2>1, <3>3, StoredAfterSend
      <3>6. TypeOK'
        BY <1>1, <2>2, <3>3, <3>4 DEF Request, TypeInv, TypeOK, HandlerState
      <3>7. QED
        BY <3>5, <3>6 DEF TypeInv
    <2>5. QED
      BY <2>3, <2>4
  <1>2. CASE CallContinues(r) \/ Timeout(r)
    <2>1. call' \in [Req -> CallState]
      BY <1>2 DEF CallContinues, Block, Resume, Timeout, TypeInv, TypeOK, CallState
    <2>2. UNCHANGED <<info, disc, srvQueue, worker, linked, handler, told, recv,
                      wakeups, faults, servers>>
      BY <1>2 DEF CallContinues, Block, Resume, Timeout
    <2>3. QED
      BY <2>1, <2>2 DEF TypeInv, TypeOK, StoredFinite, servers
  <1>3. CASE SpuriousWakeup(r)
    <2>1. wakeups' \in 0..MaxWakeups
      BY <1>3, Counters DEF SpuriousWakeup, TypeInv
    <2>2. call' \in [Req -> CallState]
      BY <1>3 DEF SpuriousWakeup, TypeInv, TypeOK, CallState
    <2>3. QED
      BY <1>3, <2>1, <2>2 DEF SpuriousWakeup, TypeInv, TypeOK, StoredFinite, servers
  <1>4. QED
    BY <1>1, <1>2, <1>3

\* What a thread that is not idle has in its hands.
LEMMA ThreadTypes ==
    ASSUME TypeOK
    PROVE  /\ disc.pc \in {"connect", "disconnect"} => disc.server \in Server
           /\ worker.pc = "found" => worker.server \in Server
           /\ recv.pc \in {"notify", "wake", "remove"} =>
                 /\ recv.resp.req \in Req /\ recv.resp.result \in Result
                 /\ recv = [pc |-> recv.pc, resp |-> recv.resp]
                 /\ recv.resp \in Response
           /\ recv.pc \in {"idle", "notify", "wake", "remove"}
  <1>1. disc \in DiscState /\ worker \in WorkerState /\ recv \in RecvState
    BY DEF TypeOK
  <1>2. /\ disc.pc \in {"connect", "disconnect"} => disc.server \in Server
        /\ worker.pc = "found" => worker.server \in Server
    BY <1>1 DEF DiscState, WorkerState, Idle
  <1>3. recv = Idle \/ recv \in [pc : {"notify", "wake", "remove"}, resp : Response]
    BY <1>1 DEF RecvState
  <1>4. QED
    BY <1>2, <1>3 DEF Idle, Response

\* The discovery thread preserves types.
LEMMA TypeDiscovery ==
    ASSUME TypeInv, NEW s \in Server,
           DiscoveryStep(s) \/ Suspected(s) \/ OnNewSrvConnection \/ Forget
    PROVE  TypeInv'
  <1>1. CASE Discovered(s)
    <2>1. disc' \in DiscState
      BY <1>1 DEF Discovered, DiscState
    <2>2. QED
      BY <1>1, <2>1 DEF Discovered, TypeInv, TypeOK, StoredFinite, servers
  <1>2. CASE Stopped(s) \/ Suspected(s)
    <2>1. OnNewSrvDisconnection(s)
      BY <1>2 DEF Stopped, Suspected
    <2>2. disc' \in DiscState
      BY <2>1 DEF OnNewSrvDisconnection, DiscState
    <2>3. faults' \in 0..MaxFaults
      BY <1>2, Counters DEF Stopped, Suspected, TypeInv
    <2>4. linked' \subseteq Server
      BY <2>1 DEF OnNewSrvDisconnection, TypeInv, TypeOK
    <2>5. QED
      BY <2>1, <2>2, <2>3, <2>4
         DEF OnNewSrvDisconnection, TypeInv, TypeOK, StoredFinite, servers
  <1>3. CASE OnNewSrvConnection
    <2>1. disc.server \in Server
      BY <1>3, ThreadTypes DEF OnNewSrvConnection, TypeInv
    <2>2. srvQueue' \in Seq(Server)
      BY <1>3, <2>1, AppendProperties DEF OnNewSrvConnection, TypeInv, TypeOK
    <2>3. disc' \in DiscState
      BY <1>3 DEF OnNewSrvConnection, DiscState
    <2>4. QED
      BY <1>3, <2>1, <2>2, <2>3
         DEF OnNewSrvConnection, TypeInv, TypeOK, StoredFinite, servers
  <1>4. CASE Forget
    <2>1. disc' \in DiscState
      BY <1>4 DEF Forget, DiscState
    <2>2. QED
      BY <1>4, <2>1 DEF Forget, TypeInv, TypeOK, StoredFinite, servers
  <1>5. QED
    BY <1>1, <1>2, <1>3, <1>4 DEF DiscoveryStep

\* The service thread preserves types.
LEMMA TypeWorker ==
    ASSUME TypeInv, WorkerStep
    PROVE  TypeInv'
  <1>1. CASE TakeServer
    <2>1. srvQueue' \in Seq(Server)
      BY <1>1, HeadTailProperties DEF TakeServer, TypeInv, TypeOK
    <2>2. worker' \in WorkerState
      <3>1. worker' = worker \/ \E s \in Server : worker' = [pc |-> "found", server |-> s]
        BY <1>1 DEF TakeServer, Matching, TypeInv, TypeOK
      <3>2. worker \in WorkerState
        BY DEF TypeInv, TypeOK
      <3>3. QED
        BY <3>1, <3>2 DEF WorkerState
    <2>3. QED
      BY <1>1, <2>1, <2>2 DEF TakeServer, TypeInv, TypeOK, StoredFinite, servers
  <1>2. CASE SendFromWorker
    <2> DEFINE s == worker.server
               S == Pending(KindOf[s], handler)
    <2>1. TypeOK /\ s \in Server /\ handler \in [Req -> HandlerState]
      BY <1>2, ThreadTypes DEF SendFromWorker, TypeInv, TypeOK, HandlerState
    <2>2. IsFiniteSet(Stored(handler))
      BY DEF TypeInv, StoredFinite, Stored
    <2>3. SendPending(s, handler)
      BY <1>2 DEF SendFromWorker
    <2>4. /\ linked' \subseteq Server
          /\ faults' \in 0..MaxFaults
          /\ handler' \in [Req -> HandlerState]
          /\ \A q \in Req : /\ handler[q] = "none" => handler'[q] = "none"
                            /\ handler'[q] = "stored" =>
                                  handler[q] = "stored" /\ q \notin Pending(KindOf[s], handler)
          /\ \E new \in Seq(Pending(KindOf[s], handler)) :
                /\ wire' = [wire EXCEPT ![s] = @ \o new]
                /\ \A i, j \in DOMAIN new : new[i] = new[j] => i = j
      <3> HIDE DEF s
      <3>1. QED
        BY <2>1, <2>2, <2>3, SendPendingEffect
    <2>5. wire' \in [Server -> Seq(Req)]
      <3>1. PICK new \in Seq(S) : wire' = [wire EXCEPT ![s] = @ \o new]
        BY <2>4
      <3>2. new \in Seq(Req)
        BY <3>1, PendingIsReq
      <3>3. QED
        BY <2>1, <3>1, <3>2, WireTypes
    <2>6. StoredFinite'
      BY <2>2, <2>4, StoredAfterSend
    <2>7. worker' \in WorkerState
      BY <1>2 DEF SendFromWorker, WorkerState
    <2>8. TypeOK'
      BY <1>2, <2>4, <2>5, <2>7 DEF SendFromWorker, TypeInv, TypeOK, HandlerState
    <2>9. QED
      BY <2>6, <2>8 DEF TypeInv
  <1>3. QED
    BY <1>1, <1>2 DEF WorkerStep

\* The servers preserve types.
LEMMA TypeServer ==
    ASSUME TypeInv, NEW s \in Server,
           ServerStep(s) \/ Offer(s) \/ Withdraw(s) \/ Crash(s)
    PROVE  TypeInv'
  <1>1. CASE Offer(s)
    BY <1>1 DEF Offer, TypeInv, TypeOK, StoredFinite, client
  <1>2. CASE RecvSrvRequest(s)
    <2>1. Head(wire[s]) \in Req /\ Tail(wire[s]) \in Seq(Req)
      BY <1>2, HeadTailProperties DEF RecvSrvRequest, TypeInv, TypeOK
    <2>2. wire' \in [Server -> Seq(Req)] /\ serving' \in [Server -> {None} \cup Req]
      BY <1>2, <2>1 DEF RecvSrvRequest, TypeInv, TypeOK
    <2>3. QED
      BY <1>2, <2>2 DEF RecvSrvRequest, TypeInv, TypeOK, StoredFinite, client
  <1>3. CASE Serve(s)
    <2> DEFINE r == serving[s]
    <2>1. r \in Req
      BY <1>3 DEF Serve, TypeInv, TypeOK
    <2>2. PICK result \in Result :
              /\ executed' = [executed EXCEPT ![r] = Append(@, result)]
              /\ \/ back' = back
                 \/ back' = Append(back, [req |-> r, result |-> result])
      BY <1>3 DEF Serve
    <2>3. back' \in Seq(Response)
      <3>1. [req |-> r, result |-> result] \in Response /\ back \in Seq(Response)
        BY <2>1 DEF Response, TypeInv, TypeOK
      <3>2. QED
        BY <2>2, <3>1, AppendProperties
    <2>4. executed[r] \in Seq(Result) /\ Append(executed[r], result) \in Seq(Result)
      BY <2>1, AppendProperties DEF TypeInv, TypeOK
    <2>5. executed' \in [Req -> Seq(Result)]
      BY <2>2, <2>4 DEF TypeInv, TypeOK
    <2>6. faults' \in 0..MaxFaults
      BY <1>3, Counters DEF Serve, TypeInv
    <2>7. /\ serving' \in [Server -> {None} \cup Req]
          /\ UNCHANGED <<offers, info, client, wire, stops>>
      BY <1>3 DEF Serve, TypeInv, TypeOK
    <2>8. QED
      BY <2>3, <2>5, <2>6, <2>7 DEF TypeInv, TypeOK, StoredFinite, client
  <1>4. CASE Withdraw(s)
    <2>1. stops' \in 0..MaxStops
      BY <1>4, Counters DEF Withdraw, TypeInv
    <2>2. QED
      BY <1>4, <2>1 DEF Withdraw, TypeInv, TypeOK, StoredFinite, client
  <1>5. CASE Crash(s)
    <2>1. stops' \in 0..MaxStops
      BY <1>5, Counters DEF Crash, TypeInv
    <2>2. wire' \in [Server -> Seq(Req)]
      BY <1>5, EmptySeq DEF Crash, TypeInv, TypeOK
    <2>3. QED
      BY <1>5, <2>1, <2>2 DEF Crash, TypeInv, TypeOK, StoredFinite, client
  <1>6. QED
    BY <1>1, <1>2, <1>3, <1>4, <1>5 DEF ServerStep

\* The reception thread preserves types.
LEMMA TypeRecv ==
    ASSUME TypeInv, RecvStep
    PROVE  TypeInv'
  <1>1. CASE RecvSrvResponse
    <2>1. Head(back) \in Response /\ Tail(back) \in Seq(Response)
      BY <1>1, HeadTailProperties DEF RecvSrvResponse, TypeInv, TypeOK
    <2>2. recv' \in RecvState
      BY <1>1, <2>1 DEF RecvSrvResponse, RecvState
    <2>3. QED
      BY <1>1, <2>1, <2>2 DEF RecvSrvResponse, TypeInv, TypeOK, StoredFinite
  <1>2. CASE NotifyResult
    <2>1. /\ recv.resp.req \in Req /\ recv.resp.result \in Result
          /\ recv = [pc |-> recv.pc, resp |-> recv.resp] /\ recv.resp \in Response
      BY <1>2, ThreadTypes DEF NotifyResult, TypeInv
    <2>2. recv' \in RecvState
      BY <1>2, <2>1 DEF NotifyResult, RecvState
    <2>3. told' \in [Req -> Seq(Result)]
      BY <1>2, <2>1, AppendProperties DEF NotifyResult, TypeInv, TypeOK
    <2>4. QED
      BY <1>2, <2>2, <2>3 DEF NotifyResult, TypeInv, TypeOK, StoredFinite, servers
  <1>3. CASE Notify
    <2>1. /\ recv.resp.req \in Req
          /\ recv = [pc |-> recv.pc, resp |-> recv.resp] /\ recv.resp \in Response
      BY <1>3, ThreadTypes DEF Notify, TypeInv
    <2>2. recv' \in RecvState
      BY <1>3, <2>1 DEF Notify, RecvState
    <2>3. call' \in [Req -> CallState]
      BY <1>3, <2>1 DEF Notify, TypeInv, TypeOK, CallState
    <2>4. QED
      BY <1>3, <2>2, <2>3 DEF Notify, TypeInv, TypeOK, StoredFinite, servers
  <1>4. CASE RemoveHandler
    <2>1. recv' \in RecvState
      BY <1>4 DEF RemoveHandler, RecvState
    <2>2. handler' \in [Req -> HandlerState]
      BY <1>4 DEF RemoveHandler, TypeInv, TypeOK, HandlerState
    <2>3. \A r \in Req : handler[r] = "none" => handler'[r] = "none"
      BY <1>4 DEF RemoveHandler, TypeInv, TypeOK
    <2>4. StoredFinite'
      BY <2>3, StoredAfterSend DEF TypeInv, StoredFinite, Stored
    <2>5. TypeOK'
      BY <1>4, <2>1, <2>2 DEF RemoveHandler, TypeInv, TypeOK, HandlerState, servers
    <2>6. QED
      BY <2>4, <2>5 DEF TypeInv
  <1>5. QED
    BY <1>1, <1>2, <1>3, <1>4 DEF RecvStep

LEMMA TypeStep == TypeInv /\ [Next]_vars => TypeInv'
  <1> SUFFICES ASSUME TypeInv, [Next]_vars PROVE TypeInv'
    OBVIOUS
  <1>1. CASE UNCHANGED vars
    BY <1>1 DEF vars, TypeInv, TypeOK, StoredFinite
  <1>2. CASE Next
    <2>1. CASE OnNewSrvConnection \/ Forget
      <3>1. disc.server \in Server
        BY <2>1, ThreadTypes DEF OnNewSrvConnection, Forget, TypeInv
      <3>2. QED
        BY <2>1, <3>1, TypeDiscovery
    <2>2. QED
      BY <1>2, <2>1, TypeCall, TypeDiscovery, TypeWorker, TypeServer, TypeRecv DEF Next
  <1>3. QED
    BY <1>1, <1>2

\* Every thread, whatever its interleaving with the others, keeps the variables of
\* the call path in their types, and there are ever finitely many requests stored.
THEOREM TypeCorrect == Spec => []TypeOK
  <1>1. TypeInv => TypeOK
    BY DEF TypeInv
  <1>2. QED
    BY <1>1, TypeInvInit, TypeStep, PTL DEF Spec

-----------------------------------------------------------------------------
(* One copy, one answer.                                                   *)

\* What holds of the wires, the callbacks and the answers stays so while they do.
LEMMA OnceUnchanged ==
    ASSUME Once, UNCHANGED <<executed, serving, wire, back, told>>,
           \A r \in Req : call'[r] = "idle" => call[r] = "idle",
           \A r \in Req : handler'[r] = handler[r] \/ handler'[r] = "none",
           recv'.pc = "notify" => recv' = recv
    PROVE  Once'
  <1>1. \A r : NotSent(r)' <=> NotSent(r)
    BY DEF NotSent
  <1>2. MarkedBeforeSent'
    BY <1>1 DEF Once, MarkedBeforeSent
  <1>3. OneCopy'
    BY DEF Once, OneCopy
  <1>4. OneAnswer'
    BY DEF Once, OneAnswer, Untold
  <1>5. QED
    BY <1>2, <1>3, <1>4 DEF Once

\* The positions of a wire, and what it holds.
LEMMA WireDomain ==
    ASSUME NEW w \in [Server -> Seq(Req)], NEW s \in Server
    PROVE  /\ w[s] \in Seq(Req)
           /\ Len(w[s]) \in Nat
           /\ \A i \in DOMAIN w[s] : i \in Nat /\ w[s][i] \in Req
  <1>1. w[s] \in Seq(Req)
    OBVIOUS
  <1>2. /\ Len(w[s]) \in Nat
        /\ DOMAIN w[s] = 1..Len(w[s])
        /\ w[s] \in [1..Len(w[s]) -> Req]
    BY <1>1, LenProperties
  <1>3. QED
    BY <1>1, <1>2

\* What a wire holds that something was added to.
LEMMA WireGrown ==
    ASSUME NEW w \in [Server -> Seq(Req)], NEW s \in Server, NEW new \in Seq(Req),
           NEW t \in Server
    PROVE  LET w2 == [w EXCEPT ![s] = @ \o new]
           IN  /\ w2 \in [Server -> Seq(Req)]
               /\ \A i \in DOMAIN w2[t] :
                     \/ i \in DOMAIN w[t] /\ w2[t][i] = w[t][i]
                     \/ /\ t = s /\ i > Len(w[s]) /\ i - Len(w[s]) \in DOMAIN new
                        /\ w2[t][i] = new[i - Len(w[s])]
  <1>1. w[s] \in Seq(Req) /\ w[t] \in Seq(Req)
    OBVIOUS
  <1>2. /\ w[s] \o new \in Seq(Req)
        /\ \A i \in DOMAIN (w[s] \o new) :
              \/ i \in DOMAIN w[s] /\ (w[s] \o new)[i] = w[s][i]
              \/ /\ i > Len(w[s]) /\ i - Len(w[s]) \in DOMAIN new
                 /\ (w[s] \o new)[i] = new[i - Len(w[s])]
    BY <1>1, ConcatElements
  <1> DEFINE w2 == [w EXCEPT ![s] = @ \o new]
  <1>3. w2 \in [Server -> Seq(Req)] /\ w2[s] = w[s] \o new /\ (t # s => w2[t] = w[t])
    BY <1>2
  <1>4. QED
    BY <1>2, <1>3

\* Who sends what is pending, the caller or the service thread, sends nothing that
\* travels already.
LEMMA OnceSend ==
    ASSUME TypeOK, Once, NEW s \in Server, NEW handlers \in [Req -> HandlerState],
           IsFiniteSet(Stored(handlers)), SendPending(s, handlers),
           \A r \in Req : handlers[r] = "stored" => NotSent(r),
           \A r \in Req : call'[r] = "idle" => handlers[r] = "none" /\ NotSent(r),
           UNCHANGED <<executed, serving, back, recv, told>>
    PROVE  Once'
  <1> DEFINE S == Pending(KindOf[s], handlers)
             old == Len(wire[s])
  <1>1. PICK new \in Seq(S) :
            /\ wire' = [wire EXCEPT ![s] = @ \o new]
            /\ \A i, j \in DOMAIN new : new[i] = new[j] => i = j
    BY SendPendingEffect
  <1>2. \A r \in Req :
            /\ handlers[r] = "none" => handler'[r] = "none"
            /\ handler'[r] = "stored" => handlers[r] = "stored" /\ r \notin S
    BY SendPendingEffect
  <1>3. /\ new \in Seq(Req) /\ wire \in [Server -> Seq(Req)]
        /\ wire[s] \in Seq(Req) /\ old \in Nat
    <2>1. new \in Seq(Req) /\ wire \in [Server -> Seq(Req)]
      BY PendingIsReq DEF TypeOK
    <2>2. QED
      BY <2>1, WireDomain
  <1>4. \A i \in DOMAIN new : new[i] \in S
    BY LenProperties, ElementOfSeq
  <1>5. \A i \in DOMAIN new : NotSent(new[i]) /\ handlers[new[i]] = "stored"
    BY <1>4 DEF Pending
  <1>6. \A t \in Server : \A i \in DOMAIN wire'[t] :
            \/ i \in DOMAIN wire[t] /\ wire'[t][i] = wire[t][i]
            \/ /\ t = s /\ i > old /\ i - old \in DOMAIN new
               /\ wire'[t][i] = new[i - old]
    BY <1>1, <1>3, WireGrown
  <1>7. wire' \in [Server -> Seq(Req)]
    BY <1>1, <1>3, WireGrown
  <1>8. MarkedBeforeSent'
    <2>1. ASSUME NEW r \in Req, NotSent(r), \A i \in DOMAIN new : new[i] # r
          PROVE  NotSent(r)'
      BY <1>6, <2>1 DEF NotSent
    <2>2. ASSUME NEW r \in Req, call'[r] = "idle"
          PROVE  handler'[r] = "none" /\ NotSent(r)'
      BY <1>2, <1>5, <2>1, <2>2
    <2>3. ASSUME NEW r \in Req, handler'[r] = "stored"
          PROVE  NotSent(r)'
      BY <1>2, <1>4, <2>1, <2>3
    <2>4. QED
      BY <2>2, <2>3 DEF MarkedBeforeSent
  <1>9. OneCopy'
    <2> DEFINE Old(t, i) == i \in DOMAIN wire[t] /\ wire'[t][i] = wire[t][i]
               New(t, i) == /\ t = s /\ i > old /\ i - old \in DOMAIN new
                            /\ wire'[t][i] = new[i - old]
    <2> HIDE DEF Old, New
    <2>0. ASSUME NEW t \in Server, NEW u \in Server, NEW i, NEW j, Old(t, i), New(u, j)
          PROVE  wire'[t][i] # wire'[u][j]
      <3>1. wire[t][i] # new[j - old]
        BY <1>5, <2>0 DEF NotSent, Old, New
      <3>2. QED
        BY <2>0, <3>1 DEF Old, New
    <2>1. ASSUME NEW t \in Server, NEW u \in Server,
                 NEW i \in DOMAIN wire'[t], NEW j \in DOMAIN wire'[u],
                 wire'[t][i] = wire'[u][j]
          PROVE  t = u /\ i = j
      <3>0. (Old(t, i) \/ New(t, i)) /\ (Old(u, j) \/ New(u, j))
        BY <1>6 DEF Old, New
      <3>1. CASE Old(t, i)
        <4>1. Old(u, j)
          BY <2>0, <2>1, <3>0, <3>1
        <4>2. wire[t][i] = wire[u][j]
          BY <2>1, <3>1, <4>1 DEF Old
        <4>3. QED
          BY <3>1, <4>1, <4>2 DEF Once, OneCopy, Old
      <3>2. CASE New(t, i)
        <4>1. New(u, j)
          BY <2>0, <2>1, <3>0, <3>2
        <4>2. i - old = j - old
          BY <1>1, <2>1, <3>2, <4>1 DEF New
        <4>3. i \in Nat /\ j \in Nat
          BY <1>7, WireDomain
        <4>4. QED
          BY <1>3, <3>2, <4>1, <4>2, <4>3 DEF New
      <3>3. QED
        BY <3>0, <3>1, <3>2
    <2>2. ASSUME NEW t \in Server, NEW i \in DOMAIN wire'[t]
          PROVE  /\ executed'[wire'[t][i]] = <<>>
                 /\ \A u \in Server : serving'[u] # None => wire'[t][i] # serving'[u]
      BY <1>5, <1>6 DEF NotSent, Once, OneCopy
    <2>3. /\ \A t, u \in Server : serving'[t] # None /\ serving'[t] = serving'[u] => t = u
          /\ \A t \in Server : serving'[t] # None => executed'[serving'[t]] = <<>>
      BY DEF Once, OneCopy
    <2>4. QED
      BY <2>1, <2>2, <2>3 DEF OneCopy
  <1>10. OneAnswer'
    BY DEF Once, OneAnswer, Untold
  <1>11. QED
    BY <1>8, <1>9, <1>10 DEF Once

\* The threads of the callers.
LEMMA OnceCall ==
    ASSUME TypeInv, Once, NEW r \in Req,
           Request(r) \/ CallContinues(r) \/ SpuriousWakeup(r) \/ Timeout(r)
    PROVE  Once'
  <1>1. CASE Request(r)
    <2> DEFINE stored == [handler EXCEPT ![r] = "stored"]
    <2>1. stored \in [Req -> HandlerState] /\ IsFiniteSet(Stored(stored))
      BY StoreOne
    <2>2. /\ call[r] = "idle"
          /\ call' = [call EXCEPT ![r] = IF r \in Sync THEN "checked" ELSE "done"]
          /\ UNCHANGED <<executed, serving, back, recv, told>>
      BY <1>1 DEF Request
    <2>3. call'[r] # "idle" /\ \A q \in Req \ {r} : call'[q] = call[q]
      BY <2>2 DEF TypeInv, TypeOK
    <2>4. stored[r] = "stored" /\ \A q \in Req \ {r} : stored[q] = handler[q]
      BY DEF TypeInv, TypeOK
    <2>5. \A q \in Req : stored[q] = "stored" => NotSent(q)
      BY <2>2, <2>4 DEF Once, MarkedBeforeSent
    <2>6. \A q \in Req : call'[q] = "idle" => stored[q] = "none" /\ NotSent(q)
      BY <2>3, <2>4 DEF Once, MarkedBeforeSent
    <2>7. CASE Matching(KindOf[r]) = {}
      <3>1. handler' = stored /\ wire' = wire
        BY <1>1, <2>7 DEF Request
      <3>2. MarkedBeforeSent'
        BY <2>2, <2>5, <2>6, <3>1 DEF MarkedBeforeSent, NotSent
      <3>3. OneCopy' /\ OneAnswer'
        BY <2>2, <3>1 DEF Once, OneCopy, OneAnswer, Untold
      <3>4. QED
        BY <3>2, <3>3 DEF Once
    <2>8. CASE Matching(KindOf[r]) # {}
      <3>1. PICK s \in Matching(KindOf[r]) : SendPending(s, stored)
        BY <1>1, <2>8 DEF Request
      <3>2. s \in Server /\ TypeOK
        BY DEF TypeInv, TypeOK, Matching
      <3>3. QED
        BY <2>1, <2>2, <2>5, <2>6, <3>1, <3>2, OnceSend
    <2>9. QED
      BY <2>7, <2>8
  <1>2. CASE CallContinues(r) \/ SpuriousWakeup(r) \/ Timeout(r)
    <2>1. UNCHANGED <<executed, serving, wire, back, told, handler, recv>>
      BY <1>2 DEF CallContinues, Block, Resume, SpuriousWakeup, Timeout, servers
    <2>2. \A q \in Req : call'[q] = "idle" => call[q] = "idle"
      BY <1>2 DEF CallContinues, Block, Resume, SpuriousWakeup, Timeout, TypeInv, TypeOK
    <2>3. QED
      BY <2>1, <2>2, OnceUnchanged
  <1>3. QED
    BY <1>1, <1>2

\* The service thread.
LEMMA OnceWorker ==
    ASSUME TypeInv, Once, WorkerStep
    PROVE  Once'
  <1>1. CASE TakeServer
    <2>1. UNCHANGED <<executed, serving, wire, back, told, handler, recv, call>>
      BY <1>1 DEF TakeServer, servers
    <2>2. QED
      BY <2>1, OnceUnchanged
  <1>2. CASE SendFromWorker
    <2> DEFINE s == worker.server
    <2>1. TypeOK /\ s \in Server /\ handler \in [Req -> HandlerState]
      BY <1>2, ThreadTypes DEF SendFromWorker, TypeInv, TypeOK, HandlerState
    <2>2. IsFiniteSet(Stored(handler))
      BY DEF TypeInv, StoredFinite, Stored
    <2>3. SendPending(s, handler) /\ UNCHANGED <<call, executed, serving, back, recv, told>>
      BY <1>2 DEF SendFromWorker
    <2>4. \A r \in Req : handler[r] = "stored" => NotSent(r)
      BY DEF Once, MarkedBeforeSent
    <2>5. \A r \in Req : call'[r] = "idle" => handler[r] = "none" /\ NotSent(r)
      BY <2>3 DEF Once, MarkedBeforeSent
    <2>6. QED
      BY <2>1, <2>2, <2>3, <2>4, <2>5, OnceSend
  <1>3. QED
    BY <1>1, <1>2 DEF WorkerStep

\* The discovery thread, and servers that come and go.
LEMMA OnceOthers ==
    ASSUME TypeInv, Once, NEW s \in Server,
           \/ DiscoveryStep(s) \/ Suspected(s) \/ OnNewSrvConnection \/ Forget
           \/ Offer(s) \/ Withdraw(s)
    PROVE  Once'
  <1>1. UNCHANGED <<executed, serving, wire, back, told, handler, recv, call>>
    BY DEF DiscoveryStep, Discovered, Stopped, Suspected, OnNewSrvDisconnection,
           OnNewSrvConnection, Forget, Offer, Withdraw, client, servers
  <1>2. QED
    BY <1>1, OnceUnchanged

\* What a server reads of its wire goes to its callback, or nowhere.
LEMMA OnceRead ==
    ASSUME TypeInv, Once, NEW s \in Server, RecvSrvRequest(s)
    PROVE  Once'
  <1> DEFINE r == Head(wire[s])
  <1>1. /\ wire \in [Server -> Seq(Req)] /\ wire[s] # <<>> /\ serving[s] = None
        /\ wire' = [wire EXCEPT ![s] = Tail(@)]
        /\ serving' = serving \/ serving' = [serving EXCEPT ![s] = r]
        /\ UNCHANGED <<executed, back, told, handler, recv, call>>
        /\ serving \in [Server -> {None} \cup Req]
    BY DEF RecvSrvRequest, TypeInv, TypeOK, client
  <1>2. /\ r = wire[s][1] /\ 1 \in DOMAIN wire[s]
        /\ \A i \in DOMAIN Tail(wire[s]) :
              i + 1 \in DOMAIN wire[s] /\ Tail(wire[s])[i] = wire[s][i + 1] /\ i \in Nat /\ i # 0
    BY <1>1, TailElements
  <1>3. \A t \in Server : \A i \in DOMAIN wire'[t] :
           \/ t # s /\ i \in DOMAIN wire[t] /\ wire'[t][i] = wire[t][i]
           \/ /\ t = s /\ i \in Nat /\ i # 0
              /\ i + 1 \in DOMAIN wire[t] /\ wire'[t][i] = wire[t][i + 1]
    BY <1>1, <1>2
  <1>4. \A t \in Server : serving'[t] = serving[t] \/ (t = s /\ serving'[t] = r)
    BY <1>1
  <1>5. MarkedBeforeSent'
    <2>1. \A q \in Req : NotSent(q) => NotSent(q)'
      BY <1>1, <1>2, <1>3, <1>4 DEF NotSent
    <2>2. QED
      BY <1>1, <2>1 DEF Once, MarkedBeforeSent
  <1>6. OneCopy'
    <2>1. ASSUME NEW t \in Server, NEW u \in Server,
                 NEW i \in DOMAIN wire'[t], NEW j \in DOMAIN wire'[u],
                 wire'[t][i] = wire'[u][j]
          PROVE  t = u /\ i = j
      BY <1>3, <2>1 DEF Once, OneCopy
    <2>2. ASSUME NEW t \in Server, NEW i \in DOMAIN wire'[t]
          PROVE  wire'[t][i] # r /\ executed'[wire'[t][i]] = <<>>
      BY <1>1, <1>2, <1>3 DEF Once, OneCopy
    <2>3. ASSUME NEW t \in Server, NEW i \in DOMAIN wire'[t],
                 NEW u \in Server, serving'[u] # None
          PROVE  wire'[t][i] # serving'[u]
      BY <1>3, <1>4, <2>2, <2>3 DEF Once, OneCopy
    <2>4. \A u \in Server : serving[u] # None => serving[u] # r
      BY <1>2 DEF Once, OneCopy
    <2>5. \A t, u \in Server : serving'[t] # None /\ serving'[t] = serving'[u] => t = u
      BY <1>4, <2>4 DEF Once, OneCopy
    <2>6. \A u \in Server : serving'[u] # None => executed'[serving'[u]] = <<>>
      BY <1>1, <1>2, <1>4 DEF Once, OneCopy
    <2>7. QED
      BY <2>1, <2>2, <2>3, <2>5, <2>6 DEF OneCopy
  <1>7. OneAnswer'
    BY <1>1 DEF Once, OneAnswer, Untold
  <1>8. QED
    BY <1>5, <1>6, <1>7 DEF Once

\* The callback of a server runs for the first time for its request.
LEMMA OnceServe ==
    ASSUME TypeInv, Once, NEW s \in Server, Serve(s)
    PROVE  /\ Once'
           /\ serving[s] \in Req /\ call[serving[s]] # "idle" /\ executed[serving[s]] = <<>>
           /\ \E result \in Result :
                 executed' = [executed EXCEPT ![serving[s]] = <<result>>]
  <1> DEFINE r == serving[s]
  <1>1. r \in Req /\ r # None /\ executed[r] = <<>> /\ told[r] = <<>>
    BY DEF Serve, TypeInv, TypeOK, Once, OneCopy, OneAnswer
  <1>2. PICK result \in Result :
            /\ executed' = [executed EXCEPT ![r] = Append(@, result)]
            /\ \/ back' = back
               \/ /\ r \notin OneWay
                  /\ back' = Append(back, [req |-> r, result |-> result])
    BY DEF Serve
  <1>3. Append(<<>>, result) = <<result>> /\ <<result>> # <<>>
    OBVIOUS
  <1>4. /\ executed \in [Req -> Seq(Result)]
        /\ executed' = [executed EXCEPT ![r] = <<result>>]
        /\ executed'[r] = <<result>>
        /\ \A q \in Req \ {r} : executed'[q] = executed[q]
    BY <1>1, <1>2, <1>3 DEF TypeInv, TypeOK
  <1>5. /\ serving' = [serving EXCEPT ![s] = None]
        /\ UNCHANGED <<wire, told, handler, recv, call>>
        /\ serving \in [Server -> {None} \cup Req]
    BY DEF Serve, client, TypeInv, TypeOK
  <1>6. \A t \in Server : serving'[t] # None => t # s /\ serving'[t] = serving[t]
    BY <1>5
  <1>7. call[r] # "idle" /\ handler[r] # "stored"
    BY <1>1 DEF Once, MarkedBeforeSent, NotSent
  <1>8. MarkedBeforeSent'
    <2>1. \A q \in Req : call'[q] = "idle" \/ handler'[q] = "stored" => q # r
      BY <1>5, <1>7
    <2>2. ASSUME NEW q \in Req, NotSent(q), q # r
          PROVE  NotSent(q)'
      BY <1>4, <1>5, <2>2, CallAssumption DEF NotSent
    <2>3. QED
      BY <1>5, <2>1, <2>2 DEF Once, MarkedBeforeSent
  <1>9. OneCopy'
    <2>1. ASSUME NEW t \in Server, NEW i \in DOMAIN wire[t]
          PROVE  wire[t][i] # r /\ executed'[wire[t][i]] = <<>>
      <3>1. wire[t][i] \in Req
        BY WireDomain DEF TypeInv, TypeOK
      <3>2. wire[t][i] # r
        BY <1>1 DEF Once, OneCopy
      <3>3. QED
        BY <1>4, <3>1, <3>2 DEF Once, OneCopy
    <2>2. ASSUME NEW t \in Server, serving'[t] # None
          PROVE  executed'[serving'[t]] = <<>>
      <3>1. serving'[t] # r /\ serving'[t] \in Req
        BY <1>1, <1>5, <1>6, <2>2 DEF Once, OneCopy
      <3>2. QED
        BY <1>4, <1>6, <2>2, <3>1 DEF Once, OneCopy
    <2>3. \A t, u \in Server : serving'[t] # None /\ serving'[t] = serving'[u] => t = u
      BY <1>6 DEF Once, OneCopy
    <2>4. \A t, u \in Server : \A i \in DOMAIN wire[t] :
              serving'[u] # None => wire[t][i] # serving'[u]
      BY <1>6 DEF Once, OneCopy
    <2>5. QED
      BY <1>5, <2>1, <2>2, <2>3, <2>4 DEF Once, OneCopy
  <1>10. OneAnswer'
    <2> DEFINE resp == [req |-> r, result |-> result]
               UntoldNext(x) == /\ x.req \notin OneWay
                                /\ executed'[x.req] = <<x.result>>
                                /\ told'[x.req] = <<>>
    <2>1. ASSUME NEW x \in Response, Untold(x)
          PROVE  x.req # r /\ UntoldNext(x)
      <3>1. x.req \in Req /\ <<x.result>> # <<>>
        BY DEF Response
      <3>2. x.req # r
        BY <1>1, <2>1, <3>1 DEF Untold
      <3>3. QED
        BY <1>4, <1>5, <2>1, <3>1, <3>2 DEF Untold
    <2>2. back \in Seq(Response) /\ resp \in Response
      BY <1>1 DEF TypeInv, TypeOK, Response
    <2>3. \A i \in DOMAIN back : back[i] \in Response /\ back[i].req # r
      BY <2>1, <2>2, ElementOfSeq, LenProperties DEF Once, OneAnswer
    <2>4. \A i \in DOMAIN back' :
             \/ i \in DOMAIN back /\ back'[i] = back[i]
             \/ /\ i \notin DOMAIN back /\ i = Len(back) + 1 /\ back'[i] = resp
                /\ r \notin OneWay
      BY <1>2, <2>2, AppendElements
    <2>5. r \notin OneWay => UntoldNext(resp)
      BY <1>1, <1>4, <1>5
    <2> HIDE DEF resp, UntoldNext
    <2>6. \A i \in DOMAIN back' : UntoldNext(back'[i])
      BY <2>1, <2>3, <2>4, <2>5 DEF Once, OneAnswer
    <2>7. \A i, j \in DOMAIN back' : back'[i].req = back'[j].req => i = j
      BY <2>3, <2>4 DEF resp, Once, OneAnswer
    <2>8. \A q \in Req : executed'[q] = <<>> => told'[q] = <<>>
      BY <1>1, <1>3, <1>4, <1>5 DEF Once, OneAnswer
    <2>9. recv'.pc = "notify" =>
             /\ UntoldNext(recv'.resp)
             /\ \A i \in DOMAIN back' : back'[i].req # recv'.resp.req
      <3>1. SUFFICES ASSUME recv.pc = "notify"
                     PROVE  /\ UntoldNext(recv.resp)
                            /\ \A i \in DOMAIN back' : back'[i].req # recv.resp.req
        BY <1>5
      <3>2. recv.resp \in Response /\ Untold(recv.resp)
        BY <3>1, ThreadTypes DEF TypeInv, Once, OneAnswer
      <3>3. recv.resp.req # r /\ UntoldNext(recv.resp)
        BY <2>1, <3>2
      <3>4. QED
        BY <2>4, <3>1, <3>3 DEF Once, OneAnswer, resp
    <2>10. QED
      BY <2>6, <2>7, <2>8, <2>9 DEF OneAnswer, Untold, UntoldNext
  <1>11. QED
    BY <1>1, <1>4, <1>7, <1>8, <1>9, <1>10 DEF Once

\* A server that crashes takes the requests on their way to it with it.
LEMMA OnceCrash ==
    ASSUME TypeInv, Once, NEW s \in Server, Crash(s)
    PROVE  Once'
  <1>1. /\ wire \in [Server -> Seq(Req)] /\ serving \in [Server -> {None} \cup Req]
        /\ wire' = [wire EXCEPT ![s] = <<>>] /\ serving' = [serving EXCEPT ![s] = None]
        /\ UNCHANGED <<executed, back, told, handler, recv, call>>
    BY DEF Crash, TypeInv, TypeOK, client
  <1>2. \A t \in Server : \A i \in DOMAIN wire'[t] :
            i \in DOMAIN wire[t] /\ wire'[t][i] = wire[t][i]
    BY <1>1
  <1>3. \A t \in Server : serving'[t] # None => serving'[t] = serving[t]
    BY <1>1
  <1>4. MarkedBeforeSent'
    <2>1. \A q \in Req : NotSent(q) => NotSent(q)'
      BY <1>1, <1>2, <1>3, CallAssumption DEF NotSent
    <2>2. QED
      BY <1>1, <2>1 DEF Once, MarkedBeforeSent
  <1>5. OneCopy'
    BY <1>1, <1>2, <1>3 DEF Once, OneCopy
  <1>6. OneAnswer'
    BY <1>1 DEF Once, OneAnswer, Untold
  <1>7. QED
    BY <1>4, <1>5, <1>6 DEF Once

\* A response found is the only one to its request.
LEMMA OnceFound ==
    ASSUME TypeInv, Once, RecvSrvResponse
    PROVE  Once'
  <1>1. /\ back \in Seq(Response) /\ back # <<>> /\ back' = Tail(back)
        /\ recv' = Idle \/ recv' = [pc |-> "notify", resp |-> Head(back)]
        /\ UNCHANGED <<wire, serving, executed, told, handler, call>>
    BY DEF RecvSrvResponse, TypeInv, TypeOK
  <1>2. /\ Head(back) = back[1] /\ 1 \in DOMAIN back
        /\ \A i \in DOMAIN Tail(back) :
              i + 1 \in DOMAIN back /\ Tail(back)[i] = back[i + 1] /\ i \in Nat /\ i # 0
    BY <1>1, TailElements
  <1>3. MarkedBeforeSent' /\ OneCopy'
    BY <1>1 DEF Once, MarkedBeforeSent, NotSent, OneCopy
  <1>4. \A i \in DOMAIN back' : Untold(back'[i])
    BY <1>1, <1>2 DEF Once, OneAnswer
  <1>5. \A i, j \in DOMAIN back' : back'[i].req = back'[j].req => i = j
    BY <1>1, <1>2 DEF Once, OneAnswer
  <1>6. recv'.pc = "notify" =>
           /\ Untold(recv'.resp)
           /\ \A i \in DOMAIN back' : back'[i].req # recv'.resp.req
    BY <1>1, <1>2 DEF Once, OneAnswer, Idle
  <1>7. OneAnswer'
    BY <1>1, <1>4, <1>5, <1>6 DEF Once, OneAnswer, Untold
  <1>8. QED
    BY <1>3, <1>7 DEF Once

\* The caller is told the result of the one execution, and nothing before that.
LEMMA OnceNotify ==
    ASSUME TypeInv, Once, NotifyResult
    PROVE  /\ Once'
           /\ recv.resp.req \in Req \ OneWay
           /\ executed[recv.resp.req] # <<>> /\ told[recv.resp.req] = <<>>
           /\ told' = [told EXCEPT ![recv.resp.req] = executed[recv.resp.req]]
  <1> DEFINE r == recv.resp.req
             result == recv.resp.result
  <1>1. /\ r \in Req /\ Untold(recv.resp)
        /\ \A i \in DOMAIN back : back[i].req # r
        /\ recv = [pc |-> "notify", resp |-> recv.resp]
    BY ThreadTypes DEF NotifyResult, TypeInv, Once, OneAnswer
  <1>2. /\ r \notin OneWay /\ executed[r] = <<result>> /\ told[r] = <<>>
    BY <1>1 DEF Untold
  <1>3. Append(<<>>, result) = <<result>> /\ <<result>> # <<>>
    OBVIOUS
  <1>4. /\ told \in [Req -> Seq(Result)]
        /\ told' = [told EXCEPT ![r] = executed[r]]
        /\ \A q \in Req \ {r} : told'[q] = told[q]
    BY <1>1, <1>2, <1>3 DEF NotifyResult, TypeInv, TypeOK
  <1>5. /\ UNCHANGED <<wire, serving, executed, back, handler, call>>
        /\ recv'.pc = "wake"
    BY <1>1 DEF NotifyResult, servers
  <1>6. MarkedBeforeSent' /\ OneCopy'
    BY <1>5 DEF Once, MarkedBeforeSent, NotSent, OneCopy
  <1>7. OneAnswer'
    <2>1. \A i \in DOMAIN back : back[i].req \in Req
      <3>1. back \in Seq(Response)
        BY DEF TypeInv, TypeOK
      <3>2. \A i \in DOMAIN back : back[i] \in Response
        BY <3>1, ElementOfSeq, LenProperties
      <3>3. QED
        BY <3>2 DEF Response
    <2>2. QED
      BY <1>1, <1>2, <1>3, <1>4, <1>5, <2>1 DEF Once, OneAnswer, Untold
  <1>8. QED
    BY <1>1, <1>2, <1>3, <1>4, <1>6, <1>7 DEF Once

\* The rest of the reception thread.
LEMMA OnceDone ==
    ASSUME TypeInv, Once, Notify \/ RemoveHandler
    PROVE  Once'
  <1>1. UNCHANGED <<executed, serving, wire, back, told>> /\ recv'.pc # "notify"
    <2>1. recv = [pc |-> recv.pc, resp |-> recv.resp]
      BY ThreadTypes DEF Notify, RemoveHandler, TypeInv
    <2>2. QED
      BY <2>1 DEF Notify, RemoveHandler, servers, Idle
  <1>2. \A q \in Req : call'[q] = "idle" => call[q] = "idle"
    BY DEF Notify, RemoveHandler, TypeInv, TypeOK
  <1>3. \A q \in Req : handler'[q] = handler[q] \/ handler'[q] = "none"
    BY DEF Notify, RemoveHandler, TypeInv, TypeOK
  <1>4. QED
    BY <1>1, <1>2, <1>3, OnceUnchanged

-----------------------------------------------------------------------------
(* The invariant, and the refinement of Calls.                             *)

LEMMA InvInit == Init => TypeInv /\ Once
  <1> SUFFICES ASSUME Init PROVE TypeInv /\ Once
    OBVIOUS
  <1>1. TypeInv
    BY TypeInvInit
  <1>2. /\ \A s \in Server : wire[s] = <<>> /\ serving[s] = None
        /\ \A r \in Req : /\ executed[r] = <<>> /\ told[r] = <<>>
                          /\ handler[r] = "none"
        /\ back = <<>> /\ recv.pc # "notify"
    BY DEF Init, Idle
  <1>3. DOMAIN <<>> = {}
    OBVIOUS
  <1>4. MarkedBeforeSent
    BY <1>2, <1>3, CallAssumption DEF MarkedBeforeSent, NotSent
  <1>5. OneCopy /\ OneAnswer
    BY <1>2, <1>3 DEF OneCopy, OneAnswer
  <1>6. QED
    BY <1>1, <1>4, <1>5 DEF Once

LEMMA OnceStep == TypeInv /\ Once /\ [Next]_vars => Once'
  <1> SUFFICES ASSUME TypeInv, Once, [Next]_vars PROVE Once'
    OBVIOUS
  <1>1. CASE UNCHANGED vars
    BY <1>1, OnceUnchanged DEF vars
  <1>2. CASE OnNewSrvConnection \/ Forget
    <2>1. disc.server \in Server
      BY <1>2, ThreadTypes DEF OnNewSrvConnection, Forget, TypeInv
    <2>2. QED
      BY <1>2, <2>1, OnceOthers
  <1>3. CASE RecvStep
    BY <1>3, OnceFound, OnceNotify, OnceDone DEF RecvStep
  <1>4. QED
    BY <1>1, <1>2, <1>3, OnceCall, OnceWorker, OnceOthers, OnceRead, OnceServe, OnceCrash
       DEF Next, ServerStep

\* There is one copy of a request and one answer to it: though the caller and the
\* service thread both send what is pending, and the reception thread finds and
\* removes requests in two steps, what was sent is marked before the mutex is free.
THEOREM OneCopyOneAnswer == Spec => []Once
  BY InvInit, TypeStep, OnceStep, PTL DEF Spec

\* What the abstract specification sees of the call of r.
Asked(r) ==
    CASE call[r] = "idle" -> "no"
      [] call[r] = "done" -> "returned"
      [] call[r] = "timeout" -> "timeout"
      [] OTHER -> "waiting"

asked == [r \in Req |-> Asked(r)]

\* The thread of one caller moves, as seen in asked.
LEMMA AskedMoves ==
    ASSUME TypeInv, NEW r \in Req, NEW pc \in CallState,
           call' = [call EXCEPT ![r] = pc]
    PROVE  asked' = [asked EXCEPT ![r] =
                        CASE pc = "idle" -> "no"
                          [] pc = "done" -> "returned"
                          [] pc = "timeout" -> "timeout"
                          [] OTHER -> "waiting"]
  <1>1. call'[r] = pc /\ \A q \in Req \ {r} : call'[q] = call[q]
    BY DEF TypeInv, TypeOK
  <1>2. QED
    BY <1>1 DEF asked, Asked

\* A step of the program is a step of Calls, or none: asking, returning and giving
\* up are the caller's, executing a server's, telling the reception thread's.
LEMMA RefineInit == Init => Promised!Init
  BY DEF Init, Promised!Init

LEMMA RefineStep ==
    TypeInv /\ Once /\ [Next]_vars => [Promised!Next]_(Promised!vars)
  <1> SUFFICES ASSUME TypeInv, Once, [Next]_vars
               PROVE  Promised!Next \/ UNCHANGED <<asked, executed, told>>
    BY DEF Promised!vars, asked, Asked
  <1>1. ASSUME UNCHANGED <<call, executed, told>>
        PROVE  UNCHANGED <<asked, executed, told>>
    BY <1>1 DEF asked, Asked
  <1>2. ASSUME NEW r \in Req, Request(r)
        PROVE  Promised!Next
    <2>1. /\ call[r] = "idle" /\ UNCHANGED <<executed, told>>
          /\ call' = [call EXCEPT ![r] = IF r \in Sync THEN "checked" ELSE "done"]
      BY <1>2 DEF Request
    <2>2. asked[r] = "no"
      BY <2>1 DEF asked, Asked
    <2>3. asked' = [asked EXCEPT ![r] = IF r \in Sync THEN "waiting" ELSE "returned"]
      <3>1. CASE r \in Sync
        <4>1. call' = [call EXCEPT ![r] = "checked"] /\ "checked" \in CallState
          BY <2>1, <3>1 DEF CallState
        <4>2. QED
          BY <3>1, <4>1, AskedMoves
      <3>2. CASE r \notin Sync
        <4>1. call' = [call EXCEPT ![r] = "done"] /\ "done" \in CallState
          BY <2>1, <3>2 DEF CallState
        <4>2. QED
          BY <3>2, <4>1, AskedMoves
      <3>3. QED
        BY <3>1, <3>2
    <2>4. Promised!Ask(r)
      BY <2>1, <2>2, <2>3 DEF asked, Asked, Promised!Ask
    <2>5. QED
      BY <2>4 DEF Promised!Next
  <1>3. ASSUME NEW r \in Req, call[r] \in {"checked", "blocked", "woken"},
               NEW pc \in {"checked", "blocked", "woken"},
               call' = [call EXCEPT ![r] = pc], UNCHANGED <<executed, told>>
        PROVE  UNCHANGED <<asked, executed, told>>
    <2>1. asked' = [asked EXCEPT ![r] = "waiting"] /\ asked[r] = "waiting"
      BY <1>3, AskedMoves DEF CallState, asked, Asked
    <2>2. QED
      BY <1>3, <2>1 DEF asked
  <1>4. ASSUME NEW r \in Req, call[r] \in {"blocked", "woken"},
               NEW pc \in {"done", "timeout"}, pc = "done" <=> told[r] # <<>>,
               call' = [call EXCEPT ![r] = pc], UNCHANGED <<executed, told>>
        PROVE  Promised!Next
    <2>1. asked[r] = "waiting"
      BY <1>4 DEF asked, Asked
    <2>2. asked' = [asked EXCEPT ![r] = IF told[r] = <<>> THEN "timeout" ELSE "returned"]
      BY <1>4, AskedMoves DEF CallState
    <2>3. Promised!Return(r)
      BY <1>4, <2>1, <2>2 DEF asked, Asked, Promised!Return
    <2>4. QED
      BY <2>3 DEF Promised!Next
  <1>5. ASSUME NEW r \in Req, CallContinues(r) \/ SpuriousWakeup(r) \/ Timeout(r)
        PROVE  Promised!Next \/ UNCHANGED <<asked, executed, told>>
    <2>1. UNCHANGED <<executed, told>>
      BY <1>5 DEF CallContinues, Block, Resume, SpuriousWakeup, Timeout, servers
    <2>2. CASE Block(r) \/ SpuriousWakeup(r)
      <3>1. call[r] \in {"checked", "blocked"}
        BY <2>2 DEF Block, SpuriousWakeup
      <3>2. \/ call' = [call EXCEPT ![r] = "blocked"]
            \/ call' = [call EXCEPT ![r] = "woken"]
        BY <2>2 DEF Block, SpuriousWakeup
      <3>3. QED
        BY <1>3, <2>1, <3>1, <3>2
    <2>3. CASE Resume(r)
      <3>1. call[r] = "woken"
            /\ call' = [call EXCEPT ![r] = IF told[r] # <<>> THEN "done" ELSE "checked"]
        BY <2>3 DEF Resume
      <3>2. CASE told[r] = <<>>
        <4>1. call' = [call EXCEPT ![r] = "checked"]
          BY <3>1, <3>2
        <4>2. QED
          BY <1>3, <2>1, <3>1, <4>1
      <3>3. CASE told[r] # <<>>
        <4>1. call' = [call EXCEPT ![r] = "done"]
          BY <3>1, <3>3
        <4>2. QED
          BY <1>4, <2>1, <3>1, <3>3, <4>1
      <3>4. QED
        BY <3>2, <3>3
    <2>4. CASE Timeout(r)
      <3>1. call[r] = "blocked"
            /\ call' = [call EXCEPT ![r] = IF told[r] # <<>> THEN "done" ELSE "timeout"]
        BY <2>4 DEF Timeout
      <3> DEFINE pc == IF told[r] # <<>> THEN "done" ELSE "timeout"
      <3>2. pc \in {"done", "timeout"} /\ (pc = "done" <=> told[r] # <<>>)
        OBVIOUS
      <3>3. QED
        BY <1>4, <2>1, <3>1, <3>2
    <2>5. QED
      BY <1>5, <2>2, <2>3, <2>4 DEF CallContinues
  <1>6. ASSUME NEW s \in Server, Serve(s)
        PROVE  Promised!Next
    <2> DEFINE r == serving[s]
    <2>1. /\ r \in Req /\ call[r] # "idle" /\ executed[r] = <<>>
          /\ \E result \in Result : executed' = [executed EXCEPT ![r] = <<result>>]
      BY <1>6, OnceServe
    <2>2. UNCHANGED <<call, told>>
      BY <1>6 DEF Serve, client
    <2>3. asked[r] # "no" /\ asked' = asked
      BY <2>1, <2>2 DEF asked, Asked
    <2>4. Promised!Execute(r)
      BY <2>1, <2>2, <2>3 DEF asked, Asked, Promised!Execute
    <2>5. QED
      BY <2>1, <2>4 DEF Promised!Next
  <1>7. ASSUME NotifyResult
        PROVE  Promised!Next
    <2> DEFINE r == recv.resp.req
    <2>1. /\ r \in Req \ OneWay /\ executed[r] # <<>> /\ told[r] = <<>>
          /\ told' = [told EXCEPT ![r] = executed[r]]
      BY <1>7, OnceNotify
    <2>2. UNCHANGED <<call, executed>>
      BY <1>7 DEF NotifyResult, servers
    <2>3. asked' = asked
      BY <2>2 DEF asked, Asked
    <2>4. Promised!Tell(r)
      BY <2>1, <2>2, <2>3 DEF asked, Asked, Promised!Tell
    <2>5. QED
      BY <2>1, <2>4 DEF Promised!Next
  <1>8. ASSUME Notify
        PROVE  UNCHANGED <<asked, executed, told>>
    <2> DEFINE r == recv.resp.req
    <2>1. r \in Req /\ UNCHANGED <<executed, told>>
      BY <1>8, ThreadTypes DEF Notify, TypeInv, servers
    <2>2. \/ call[r] = "blocked" /\ call' = [call EXCEPT ![r] = "woken"]
          \/ call' = call
      BY <1>8 DEF Notify
    <2>3. QED
      BY <1>1, <1>3, <2>1, <2>2
  <1>9. ASSUME NEW s \in Server,
               \/ DiscoveryStep(s) \/ Suspected(s) \/ RecvSrvRequest(s)
               \/ Offer(s) \/ Withdraw(s) \/ Crash(s)
        PROVE  UNCHANGED <<asked, executed, told>>
    <2>1. UNCHANGED <<call, executed, told>>
      BY <1>9 DEF DiscoveryStep, Discovered, Stopped, Suspected, OnNewSrvDisconnection,
         RecvSrvRequest, Offer, Withdraw, Crash, client, servers
    <2>2. QED
      BY <1>1, <2>1
  <1>10. ASSUME OnNewSrvConnection \/ Forget \/ WorkerStep \/ RecvSrvResponse \/ RemoveHandler
         PROVE  UNCHANGED <<asked, executed, told>>
    <2>1. UNCHANGED <<call, executed, told>>
      BY <1>10 DEF OnNewSrvConnection, Forget, WorkerStep, TakeServer, SendFromWorker,
         RecvSrvResponse, RemoveHandler, servers
    <2>2. QED
      BY <1>1, <2>1
  <1>11. CASE UNCHANGED vars
    BY <1>1, <1>11 DEF vars
  <1>12. QED
    BY <1>2, <1>5, <1>6, <1>7, <1>8, <1>9, <1>10, <1>11
       DEF Next, ServerStep, RecvStep

\* Callers, service thread, discovery, reception and any number of servers together
\* keep what Calls promises.
THEOREM CallsImplemented == Spec => ImplementsCalls
  BY RefineInit, RefineStep, InvInit, TypeStep, OnceStep, PTL
     DEF Spec, ImplementsCalls, Promised!Spec
=============================================================================
