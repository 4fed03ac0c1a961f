---------------------------- MODULE ServiceCall ----------------------------
(***************************************************************************)
(* Service calls between processes (src/aerozen/node_shared.cpp,           *)
(* detail/node.hpp, req_handler.hpp): one process that requests, with its  *)
(* user threads, its service discovery thread, its service thread and its  *)
(* reception thread, and the processes that offer the service.             *)
(*                                                                         *)
(* NodeShared::mutex guards the pending requests.  Node::Request holds it  *)
(* from storing the request to the wait for the response; the discovery    *)
(* thread changes what it knows without it and runs its callback with it;  *)
(* RecvSrvResponse lets go of it between finding the request and removing  *)
(* it.  There is one service name, and a Kind per pair of message types.   *)
(***************************************************************************)
EXTENDS Naturals, Sequences, FiniteSets

CONSTANTS
    Req,       \* the calls of Node::Request, each in its own thread
    Server,    \* the other processes that can offer the service
    Kind,      \* the pairs of request and response types
    KindOf,    \* KindOf[r], KindOf[s]: what is asked for, and offered
    Sync,      \* the calls that block; the other ones have a callback
    OneWay,    \* the calls whose response type is Empty
    MaxFaults, \* bound: sends that fail though the other side is alive, and
               \* servers taken for dead
    MaxStops,  \* bound: servers that crash or withdraw the service
    MaxWakeups \* bound: spurious wakeups

\* No request.
None == "none"

ASSUME CallAssumption ==
    /\ None \notin Req
    /\ KindOf \in [Req \cup Server -> Kind]
    /\ Sync \subseteq Req
    /\ OneWay \subseteq Req
    /\ MaxFaults \in Nat
    /\ MaxStops \in Nat
    /\ MaxWakeups \in Nat

VARIABLES
    offers,   \* offers[s]: "not yet", "yes", "withdrawn", "crashed"
    info,     \* the servers the service discovery knows
    disc,     \* the service discovery thread
    srvQueue, \* srvQueue: the servers to send pending requests for
    worker,   \* SrvPublishThread
    linked,   \* srvConnections: the servers the requester is connected to
    handler,  \* handler[r]: "none", "stored" or "requested" in requests
    call,     \* call[r]: where the thread of r is
    told,     \* told[r]: the results r was given: by its callback, or a blocking
              \* call as rep, with repAvailable
    recv,     \* the reception thread
    wire,     \* wire[s]: the requests on their way to s
    serving,  \* serving[s]: the request whose callback s runs, or None
    back,     \* the responses on their way
    executed, \* executed[r]: the results of the callbacks servers ran for r
    faults,   \* how many sends failed or servers were suspected
    stops,    \* how many servers stopped
    wakeups   \* how many waits ended for no reason

vars == <<offers, info, disc, srvQueue, worker, linked, handler, call, told,
          recv, wire, serving, back, executed, faults, stops, wakeups>>

client == <<disc, srvQueue, worker, linked, handler, call, told, recv, wakeups>>

servers == <<offers, wire, serving, back, executed, stops>>

-----------------------------------------------------------------------------
Result == {"success", "failure"}

Response == [req : Req, result : Result]

Idle == [pc |-> "idle"]

DiscState == {Idle} \cup [pc : {"connect", "disconnect"}, server : Server]

\* "found": SendPendingRemoteReqs has chosen a server.
WorkerState == {Idle} \cup [pc : {"found"}, server : Server]

RecvState == {Idle} \cup [pc : {"notify", "wake", "remove"}, resp : Response]

\* "checked": the predicate of wait_until was false and the mutex is still held;
\* "woken": notified, and wants the mutex again.
CallState == {"idle", "checked", "blocked", "woken", "done", "timeout"}

\* Nobody holds NodeShared::mutex between two steps.
Unlocked == \A r \in Req : call[r] # "checked"

Alive(s) == offers[s] # "crashed"

\* Slip: the types are not compared.
MatchingAnyKind(kind) == info

\* The servers known to offer a pair of types.
Matching(kind) == { s \in info : KindOf[s] = kind }

-----------------------------------------------------------------------------
(* SendPendingRemoteReqs, from the lock on: all requests of the server's   *)
(* kind that nobody sent yet.                                              *)

Pending(kind, handlers) ==
    { r \in Req : handlers[r] = "stored" /\ KindOf[r] = kind }

\* One of the orders in which the handlers are visited.
Sequenced(S) == CHOOSE f \in [1..Cardinality(S) -> S] : { f[i] : i \in DOMAIN f } = S

\* Some of the sends fail: all of them when the server is gone.
Losses(s, S) ==
    IF Alive(s) THEN { L \in SUBSET S : faults + Cardinality(L) <= MaxFaults }
                ELSE {S}

\* Slip: a request is not marked.
SendPendingUnmarked(s, handlers) ==
    \E L \in Losses(s, Pending(KindOf[s], handlers)) :
        LET S == Pending(KindOf[s], handlers)
        IN  /\ linked' = linked \cup {s}
            /\ handler' = [r \in Req |->
                   IF r \in S \cap OneWay THEN "none" ELSE handlers[r]]
            /\ wire' = [wire EXCEPT ![s] = @ \o Sequenced(S \ L)]
            /\ faults' = IF Alive(s) THEN faults + Cardinality(L) ELSE faults

\* A request is marked before it is sent, and stays marked when the send fails.
\* One whose response is Empty is forgotten.
SendPending(s, handlers) ==
    \E L \in Losses(s, Pending(KindOf[s], handlers)) :
        LET S == Pending(KindOf[s], handlers)
        IN  /\ linked' = linked \cup {s}
            /\ handler' = [r \in Req |->
                   IF r \notin S THEN handlers[r]
                   ELSE IF r \in OneWay THEN "none" ELSE "requested"]
            /\ wire' = [wire EXCEPT ![s] = @ \o Sequenced(S \ L)]
            /\ faults' = IF Alive(s) THEN faults + Cardinality(L) ELSE faults

-----------------------------------------------------------------------------
(* Node::Request, in the thread of r.                                      *)

\* Store the request, and send it when a server of the service is known.  When
\* one of other types is, nothing is sent and nobody is asked.
Request(r) ==
    /\ call[r] = "idle"
    /\ Unlocked
    /\ LET stored == [handler EXCEPT ![r] = "stored"]
       IN  IF Matching(KindOf[r]) = {}
           THEN /\ handler' = stored
                /\ UNCHANGED <<linked, wire, faults>>
           ELSE \E s \in Matching(KindOf[r]) : SendPending(s, stored)
    /\ call' = [call EXCEPT ![r] = IF r \in Sync THEN "checked" ELSE "done"]
    /\ UNCHANGED <<offers, info, disc, srvQueue, worker, told, recv, serving,
                   back, executed, wakeups, stops>>

\* The wait begins and the mutex is free.
Block(r) ==
    /\ call[r] = "checked"
    /\ call' = [call EXCEPT ![r] = "blocked"]
    /\ UNCHANGED <<info, disc, srvQueue, worker, linked, handler, told, recv,
                   wakeups, faults, servers>>

\* wait_until returns when the response is available, and else waits again.
Resume(r) ==
    /\ call[r] = "woken"
    /\ Unlocked
    /\ call' = [call EXCEPT ![r] = IF told[r] # <<>> THEN "done" ELSE "checked"]
    /\ UNCHANGED <<info, disc, srvQueue, worker, linked, handler, told, recv,
                   wakeups, faults, servers>>

SpuriousWakeup(r) ==
    /\ wakeups < MaxWakeups
    /\ wakeups' = wakeups + 1
    /\ call[r] = "blocked"
    /\ call' = [call EXCEPT ![r] = "woken"]
    /\ UNCHANGED <<info, disc, srvQueue, worker, linked, handler, told, recv,
                   faults, servers>>

\* The timeout: the predicate has the last word.  The request stays stored.
Timeout(r) ==
    /\ call[r] = "blocked"
    /\ Unlocked
    /\ call' = [call EXCEPT ![r] = IF told[r] # <<>> THEN "done" ELSE "timeout"]
    /\ UNCHANGED <<info, disc, srvQueue, worker, linked, handler, told, recv,
                   wakeups, faults, servers>>

-----------------------------------------------------------------------------
(* The service discovery thread and the service thread.                    *)

\* An ADVERTISE, of which a heartbeat sends more.
Discovered(s) ==
    /\ disc = Idle
    /\ offers[s] = "yes"
    /\ s \notin info
    /\ info' = info \cup {s}
    /\ disc' = [pc |-> "connect", server |-> s]
    /\ UNCHANGED <<srvQueue, worker, linked, handler, call, told, recv,
                   wakeups, faults, servers>>

\* Slip: only the first callback of a server queues it.
OnNewSrvConnectionOnce ==
    /\ disc.pc = "connect"
    /\ Unlocked
    /\ linked' = linked \cup {disc.server}
    /\ srvQueue' = IF /\ disc.server \notin linked
                      /\ \E r \in Req : handler[r] # "none" /\ KindOf[r] = KindOf[disc.server]
                   THEN Append(srvQueue, disc.server)
                   ELSE srvQueue
    /\ disc' = Idle
    /\ UNCHANGED <<info, worker, handler, call, told, recv, wakeups, faults, servers>>

\* FirstHandler finds a request of the server's kind, requested or not.
OnNewSrvConnection ==
    /\ disc.pc = "connect"
    /\ Unlocked
    /\ linked' = linked \cup {disc.server}
    /\ srvQueue' = IF \E r \in Req : handler[r] # "none" /\ KindOf[r] = KindOf[disc.server]
                   THEN Append(srvQueue, disc.server)
                   ELSE srvQueue
    /\ disc' = Idle
    /\ UNCHANGED <<info, worker, handler, call, told, recv, wakeups, faults, servers>>

\* UNADVERTISE; or silence, which comes without an address, so that the
\* connection stays listed.  (NodeShared, which is never deleted, sends no BYE.)
OnNewSrvDisconnection(s) ==
    /\ disc = Idle
    /\ Unlocked
    /\ s \in info
    /\ linked' = IF offers[s] = "withdrawn" THEN linked \ {s} ELSE linked
    /\ disc' = [pc |-> "disconnect", server |-> s]
    /\ UNCHANGED <<info, srvQueue, worker, handler, call, told, recv, wakeups, servers>>

Stopped(s) ==
    /\ offers[s] \in {"withdrawn", "crashed"}
    /\ OnNewSrvDisconnection(s)
    /\ UNCHANGED faults

\* The heartbeats of a live server were lost.
Suspected(s) ==
    /\ offers[s] = "yes"
    /\ faults < MaxFaults
    /\ faults' = faults + 1
    /\ OnNewSrvDisconnection(s)

\* The client is told first, the entry is deleted next.
Forget ==
    /\ disc.pc = "disconnect"
    /\ info' = info \ {disc.server}
    /\ disc' = Idle
    /\ UNCHANGED <<srvQueue, worker, linked, handler, call, told, recv,
                   wakeups, faults, servers>>

\* SrvPublishThread takes an entry: SendPendingRemoteReqs looks for a server of
\* these types among those known now, without the mutex.
TakeServer ==
    /\ worker = Idle
    /\ srvQueue # <<>>
    /\ srvQueue' = Tail(srvQueue)
    /\ LET M == Matching(KindOf[Head(srvQueue)])
       IN  IF M = {} THEN UNCHANGED worker
           ELSE \E s \in M : worker' = [pc |-> "found", server |-> s]
    /\ UNCHANGED <<info, disc, linked, handler, call, told, recv, wakeups,
                   faults, servers>>

SendFromWorker ==
    /\ worker.pc = "found"
    /\ Unlocked
    /\ SendPending(worker.server, handler)
    /\ worker' = Idle
    /\ UNCHANGED <<offers, info, disc, srvQueue, call, told, recv, serving,
                   back, executed, wakeups, stops>>

-----------------------------------------------------------------------------
(* The servers.                                                            *)

Offer(s) ==
    /\ offers[s] = "not yet"
    /\ offers' = [offers EXCEPT ![s] = "yes"]
    /\ UNCHANGED <<info, client, wire, serving, back, executed, faults, stops>>

\* RecvSrvRequest: nothing is answered when the service is not offered.
RecvSrvRequest(s) ==
    /\ Alive(s)
    /\ serving[s] = None
    /\ wire[s] # <<>>
    /\ wire' = [wire EXCEPT ![s] = Tail(@)]
    /\ serving' = IF offers[s] = "yes" /\ KindOf[Head(wire[s])] = KindOf[s]
                  THEN [serving EXCEPT ![s] = Head(wire[s])]
                  ELSE serving
    /\ UNCHANGED <<offers, info, client, back, executed, faults, stops>>

\* The callback, and the response.
Serve(s) ==
    /\ Alive(s)
    /\ serving[s] # None
    /\ LET r == serving[s]
       IN \E result \in Result :
           /\ executed' = [executed EXCEPT ![r] = Append(@, result)]
           /\ \/ /\ r \in OneWay
                 /\ UNCHANGED <<back, faults>>
              \/ /\ r \notin OneWay
                 /\ back' = Append(back, [req |-> r, result |-> result])
                 /\ UNCHANGED faults
              \/ /\ r \notin OneWay
                 /\ faults < MaxFaults
                 /\ faults' = faults + 1
                 /\ UNCHANGED back
    /\ serving' = [serving EXCEPT ![s] = None]
    /\ UNCHANGED <<offers, info, client, wire, stops>>

\* UnadvertiseSrv; a callback under way goes on.
Withdraw(s) ==
    /\ offers[s] = "yes"
    /\ stops < MaxStops
    /\ stops' = stops + 1
    /\ offers' = [offers EXCEPT ![s] = "withdrawn"]
    /\ UNCHANGED <<info, client, wire, serving, back, executed, faults>>

Crash(s) ==
    /\ Alive(s)
    /\ stops < MaxStops
    /\ stops' = stops + 1
    /\ offers' = [offers EXCEPT ![s] = "crashed"]
    /\ wire' = [wire EXCEPT ![s] = <<>>]
    /\ serving' = [serving EXCEPT ![s] = None]
    /\ UNCHANGED <<info, client, back, executed, faults>>

-----------------------------------------------------------------------------
(* The reception thread.                                                   *)

\* Slip: the lookup does not take the mutex.
RecvSrvResponseUnlocked ==
    /\ recv = Idle
    /\ back # <<>>
    /\ back' = Tail(back)
    /\ recv' = IF handler[Head(back).req] = "none" THEN Idle
               ELSE [pc |-> "notify", resp |-> Head(back)]
    /\ UNCHANGED <<offers, info, disc, srvQueue, worker, linked, handler, call,
                   told, wire, serving, executed, wakeups, faults, stops>>

\* A response finds its request by the handler's UUID, or is dropped.
RecvSrvResponse ==
    /\ recv = Idle
    /\ Unlocked
    /\ back # <<>>
    /\ back' = Tail(back)
    /\ recv' = IF handler[Head(back).req] = "none" THEN Idle
               ELSE [pc |-> "notify", resp |-> Head(back)]
    /\ UNCHANGED <<offers, info, disc, srvQueue, worker, linked, handler, call,
                   told, wire, serving, executed, wakeups, faults, stops>>

\* NotifyResult without the mutex: the callback, or the result ...
NotifyResult ==
    /\ recv.pc = "notify"
    /\ told' = [told EXCEPT ![recv.resp.req] = Append(@, recv.resp.result)]
    /\ recv' = [recv EXCEPT !.pc = "wake"]
    /\ UNCHANGED <<info, disc, srvQueue, worker, linked, handler, call, wakeups, faults,
                   servers>>

\* ... and condition.notify_one, which wakes a thread that is blocked already.
Notify ==
    /\ recv.pc = "wake"
    /\ LET r == recv.resp.req
       IN  call' = IF call[r] = "blocked" THEN [call EXCEPT ![r] = "woken"] ELSE call
    /\ recv' = [recv EXCEPT !.pc = "remove"]
    /\ UNCHANGED <<info, disc, srvQueue, worker, linked, handler, told, wakeups,
                   faults, servers>>

RemoveHandler ==
    /\ recv.pc = "remove"
    /\ Unlocked
    /\ handler' = [handler EXCEPT ![recv.resp.req] = "none"]
    /\ recv' = Idle
    /\ UNCHANGED <<info, disc, srvQueue, worker, linked, call, told, wakeups,
                   faults, servers>>

-----------------------------------------------------------------------------
Init ==
    /\ offers = [s \in Server |-> "not yet"]
    /\ info = {}
    /\ disc = Idle
    /\ srvQueue = <<>>
    /\ worker = Idle
    /\ linked = {}
    /\ handler = [r \in Req |-> "none"]
    /\ call = [r \in Req |-> "idle"]
    /\ told = [r \in Req |-> <<>>]
    /\ recv = Idle
    /\ wire = [s \in Server |-> <<>>]
    /\ serving = [s \in Server |-> None]
    /\ back = <<>>
    /\ executed = [r \in Req |-> <<>>]
    /\ faults = 0
    /\ stops = 0
    /\ wakeups = 0

CallContinues(r) == Block(r) \/ Resume(r)

DiscoveryStep(s) == Discovered(s) \/ Stopped(s)

WorkerStep == TakeServer \/ SendFromWorker

ServerStep(s) == RecvSrvRequest(s) \/ Serve(s)

RecvStep == RecvSrvResponse \/ NotifyResult \/ Notify \/ RemoveHandler

Next ==
    \/ \E r \in Req : Request(r) \/ CallContinues(r) \/ SpuriousWakeup(r) \/ Timeout(r)
    \/ \E s \in Server :
          \/ DiscoveryStep(s) \/ Suspected(s) \/ ServerStep(s)
          \/ Offer(s) \/ Withdraw(s) \/ Crash(s)
    \/ OnNewSrvConnection \/ Forget
    \/ WorkerStep
    \/ RecvStep

Spec == Init /\ [][Next]_vars

\* The threads run whenever they can, and take the mutex when it is free often
\* enough; discovery repeats its datagrams.  No timeout is counted on.
FairSpec ==
    /\ Spec
    /\ \A r \in Sync : SF_vars(CallContinues(r))
    /\ \A s \in Server : SF_vars(DiscoveryStep(s)) /\ WF_vars(ServerStep(s))
    /\ SF_vars(OnNewSrvConnection)
    /\ WF_vars(Forget)
    /\ SF_vars(WorkerStep)
    /\ SF_vars(RecvStep)

-----------------------------------------------------------------------------
(* Properties.                                                             *)

TypeOK ==
    /\ offers \in [Server -> {"not yet", "yes", "withdrawn", "crashed"}]
    /\ info \subseteq Server
    /\ disc \in DiscState
    /\ srvQueue \in Seq(Server)
    /\ worker \in WorkerState
    /\ linked \subseteq Server
    /\ handler \in [Req -> {"none", "stored", "requested"}]
    /\ call \in [Req -> CallState]
    /\ told \in [Req -> Seq(Result)]
    /\ recv \in RecvState
    /\ wire \in [Server -> Seq(Req)]
    /\ serving \in [Server -> {None} \cup Req]
    /\ back \in Seq(Response)
    /\ executed \in [Req -> Seq(Result)]
    /\ faults \in 0..MaxFaults
    /\ stops \in 0..MaxStops
    /\ wakeups \in 0..MaxWakeups

\* What module Calls says of requests and answers: though the caller's thread and
\* the service thread both send what is pending, servers come and go, and the
\* reception thread lets go of the mutex between finding the request and removing
\* it, a request is executed at most once, its caller is told the result of its
\* own execution, at most once, and a blocking call reports a result exactly if it
\* was told one.
Promised == INSTANCE Calls WITH
    asked <- [r \in Req |->
                 CASE call[r] = "idle" -> "no"
                   [] call[r] = "done" -> "returned"
                   [] call[r] = "timeout" -> "timeout"
                   [] OTHER -> "waiting"]

ImplementsCalls == Promised!Spec

\* A stored request leaves: it is sent as soon as servers of its types are known
\* for long enough, whichever came first.
StoredIsSent ==
    \A r \in Req :
        (handler[r] = "stored" /\ Matching(KindOf[r]) # {})
            ~> (handler[r] # "stored" \/ Matching(KindOf[r]) = {})

\* Where servers stay and sends succeed, every request that a server offers the
\* types of is answered, and none is kept.
RequestsLeave ==
    \A r \in Req :
        (/\ handler[r] # "none"
         /\ \E s \in Server : offers[s] = "yes" /\ KindOf[s] = KindOf[r])
            ~> (handler[r] = "none" \/ stops > 0 \/ faults > 0)

\* Requests leave the caller, with faults, and the store, without.
RequestsServed == StoredIsSent /\ RequestsLeave

\* A blocking call whose response is there returns without the timeout, though
\* NotifyResult sets and notifies without the mutex: the caller keeps the mutex
\* until it blocks, and the reception thread needs it to find the request.  A
\* spurious wakeup reopens the window; then only the timeout ends the wait.
WakeupNotLost ==
    \A r \in Sync :
        told[r] # <<>> ~> (call[r] \in {"done", "timeout"} \/ wakeups > 0)
=============================================================================
