----------------------------- MODULE ZenohCalls -----------------------------
(***************************************************************************)
(* Service calls with the Zenoh backend (src/aerozen/req_handler.cpp,      *)
(* rep_handler.cpp, node_shared.cpp, detail/node.hpp, discovery.hpp): a    *)
(* request is a query, a service a queryable, and what a process offers is *)
(* known from liveliness tokens.                                           *)
(*                                                                         *)
(* CreateZenohGet returns when Zenoh is done with the query, and whoever   *)
(* calls it holds NodeShared::mutex: the thread of Node::Request or the    *)
(* service thread.  Meanwhile the threads that receive for Zenoh run the   *)
(* callbacks of replies and tokens, some of which want that mutex.  Of     *)
(* Zenoh itself: a query goes to all queryables of its name, its reply is  *)
(* handed over when the last of them has finished or the query's time is   *)
(* up, its onDone runs after its onReply, and what comes on a link is      *)
(* handled in order by one thread.                                         *)
(***************************************************************************)
EXTENDS Naturals, Sequences, FiniteSets

CONSTANTS
    Req,       \* the calls of Node::Request, each in its own thread
    Server,    \* the other processes that can offer the service
    KindOf,    \* KindOf[r], KindOf[s]: the pair of message types
    Sync,      \* the calls that block; the other ones have a callback
    OneWay,    \* the calls whose response type is Empty
    Link,      \* the connections of the requesting process
    LinkOf,    \* LinkOf[s]: the one that s is reached by
    MaxEvents  \* bound: servers that stop, and waits that end for no reason

VARIABLES
    offers,   \* offers[s]: "not yet", "yes", "stopped"
    inbox,    \* inbox[s]: the queries s has to answer
    executed, \* executed[r][s]: the results of the callback of s for r
    back,     \* back[l]: what comes on l: tokens, and ends of queries
    rx,       \* rx[t]: what a receiving thread, or Zenoh's timer, is doing
    query,    \* the query that CreateZenohGet waits for
    cut,      \* the requests whose query ran out of time
    info,     \* the servers the service discovery knows
    srvQueue, \* srvQueue: the kinds to send pending requests of
    service,  \* SrvPublishThread
    mutex,    \* who holds NodeShared::mutex
    todo,     \* the requests the holder has yet to send
    handler,  \* handler[r]: "none", "stored" or "requested" in requests
    call,     \* call[r]: where the thread of r is
    told,     \* the requests whose callback ran, or that have their response
    events    \* how many servers stopped and waits ended for no reason

vars == <<offers, inbox, executed, back, rx, query, cut, info, srvQueue, service,
          mutex, todo, handler, call, told, events>>

servers == <<offers, inbox, executed>>

callers == <<srvQueue, service, mutex, todo, handler, call>>

-----------------------------------------------------------------------------
None == "none"

Service == "service"

Timer == "timer"

Idle == [pc |-> "idle"]

\* "open": to whom the query went and who replied; "done": onDone ran.
Query == {Idle} \cup [pc : {"open", "handing", "done"}, req : Req, to : SUBSET Server,
                      replied : BOOLEAN]

Sample == [kind : {"put", "delete"}, server : Server]

End == [kind : {"end"}, server : Server, req : Req, replied : BOOLEAN]

RxState == {Idle} \cup [pc : {"connect"}, server : Server]
                  \cup [pc : {"reply", "wake", "done"}, req : Req]

\* "sending": in SendPendingRemoteReqs; "checked": the predicate of wait_until was
\* false; "woken": notified, and wants the mutex again.
CallState == {"idle", "sending", "checked", "blocked", "woken", "done", "timeout"}

Matching(kind) == { s \in info : KindOf[s] = kind }

Pending(kind, handlers) ==
    { r \in Req : handlers[r] = "stored" /\ KindOf[r] = kind }

-----------------------------------------------------------------------------
(* Node::Request, in the thread of r.                                      *)

\* Store the request and, when a server of its types is known, send what is
\* pending.  A service that nobody offers is not asked for: the tokens tell.
Request(r) ==
    /\ call[r] = "idle"
    /\ mutex = None
    /\ LET stored == [handler EXCEPT ![r] = "stored"]
           found  == Matching(KindOf[r]) # {}
       IN  /\ handler' = stored
           /\ todo' = IF found THEN Pending(KindOf[r], stored) ELSE {}
           /\ call' = [call EXCEPT ![r] = IF found THEN "sending"
                                          ELSE IF r \in Sync THEN "checked" ELSE "done"]
           /\ mutex' = IF found \/ r \in Sync THEN r ELSE None
    /\ UNCHANGED <<servers, back, rx, query, cut, info, srvQueue, service, told, events>>

\* SendPendingRemoteReqs returned.
Sent(r) ==
    /\ call[r] = "sending"
    /\ mutex = r /\ todo = {} /\ query = Idle
    /\ call' = [call EXCEPT ![r] = IF r \in Sync /\ r \notin told THEN "checked" ELSE "done"]
    /\ mutex' = IF call'[r] = "done" THEN None ELSE r
    /\ UNCHANGED <<servers, back, rx, query, cut, info, srvQueue, service, todo,
                   handler, told, events>>

\* wait_until, whose predicate was false, gives the mutex back.
Block(r) ==
    /\ call[r] = "checked"
    /\ call' = [call EXCEPT ![r] = "blocked"]
    /\ mutex' = None
    /\ UNCHANGED <<servers, back, rx, query, cut, info, srvQueue, service, todo,
                   handler, told, events>>

Resume(r) ==
    /\ call[r] = "woken"
    /\ mutex = None
    /\ call' = [call EXCEPT ![r] = IF r \in told THEN "done" ELSE "checked"]
    /\ mutex' = IF r \in told THEN None ELSE r
    /\ UNCHANGED <<servers, back, rx, query, cut, info, srvQueue, service, todo,
                   handler, told, events>>

SpuriousWakeup(r) ==
    /\ call[r] = "blocked"
    /\ events < MaxEvents
    /\ events' = events + 1
    /\ call' = [call EXCEPT ![r] = "woken"]
    /\ UNCHANGED <<servers, back, rx, query, cut, info, srvQueue, service, mutex, todo,
                   handler, told>>

\* The predicate has the last word.  The request stays stored.
Timeout(r) ==
    /\ call[r] = "blocked"
    /\ mutex = None
    /\ call' = [call EXCEPT ![r] = IF r \in told THEN "done" ELSE "timeout"]
    /\ UNCHANGED <<servers, back, rx, query, cut, info, srvQueue, service, mutex, todo,
                   handler, told, events>>

-----------------------------------------------------------------------------
(* SrvPublishThread.                                                       *)

\* The known servers are looked up without the mutex.
TakeKind ==
    /\ service = "idle"
    /\ srvQueue # <<>>
    /\ srvQueue' = Tail(srvQueue)
    /\ service' = IF Matching(Head(srvQueue)) = {} THEN "idle" ELSE Head(srvQueue)
    /\ UNCHANGED <<servers, back, rx, query, cut, info, mutex, todo, handler, call,
                   told, events>>

SendFromService ==
    /\ service # "idle"
    /\ mutex = None
    /\ mutex' = Service
    /\ todo' = Pending(service, handler)
    /\ UNCHANGED <<servers, back, rx, query, cut, info, srvQueue, service, handler,
                   call, told, events>>

SentFromService ==
    /\ mutex = Service /\ todo = {} /\ query = Idle
    /\ mutex' = None
    /\ service' = "idle"
    /\ UNCHANGED <<servers, back, rx, query, cut, info, srvQueue, todo, handler,
                   call, told, events>>

-----------------------------------------------------------------------------
(* CreateZenohGet, by the holder of the mutex.                             *)

\* The request is marked; the query goes to all who declared the name, whatever
\* their types.
Get(r) ==
    /\ r \in todo
    /\ query = Idle
    /\ handler' = [handler EXCEPT ![r] = "requested"]
    /\ LET to == { s \in Server : offers[s] = "yes" }
       IN  /\ query' = [pc |-> IF to = {} THEN "done" ELSE "open", req |-> r,
                        to |-> to, replied |-> FALSE]
           /\ inbox' = [s \in Server |-> IF s \in to THEN Append(inbox[s], r) ELSE inbox[s]]
    /\ UNCHANGED <<offers, executed, back, rx, cut, info, srvQueue, service,
                   mutex, todo, call, told, events>>

\* Slip: onDone comes before onReply.
QueryHanding(q) == q.pc \in {"handing", "done"}

\* doneSignal is waited for.
QueryDone(q) == q.pc = "done"

\* A request whose response is Empty is forgotten.
GetReturns ==
    /\ QueryDone(query)
    /\ todo' = todo \ {query.req}
    /\ handler' = IF query.req \in OneWay THEN [handler EXCEPT ![query.req] = "none"]
                                          ELSE handler
    /\ query' = Idle
    /\ UNCHANGED <<servers, back, rx, cut, info, srvQueue, service, mutex, call,
                   told, events>>

-----------------------------------------------------------------------------
(* The servers.                                                            *)

\* The queryable, then the token.
Offer(s) ==
    /\ offers[s] = "not yet"
    /\ offers' = [offers EXCEPT ![s] = "yes"]
    /\ back' = [back EXCEPT ![LinkOf[s]] = Append(@, [kind |-> "put", server |-> s])]
    /\ UNCHANGED <<callers, inbox, executed, events, rx, query, cut, info, told>>

\* onQuery: the types of the request are not known here, and a callback that fails
\* is not answered.
Serve(s) ==
    /\ inbox[s] # <<>>
    /\ inbox' = [inbox EXCEPT ![s] = Tail(@)]
    /\ \E result \in BOOLEAN :
           /\ executed' = [executed EXCEPT ![Head(inbox[s])][s] = Append(@, result)]
           /\ back' = [back EXCEPT ![LinkOf[s]] =
                  Append(@, [kind |-> "end", server |-> s, req |-> Head(inbox[s]),
                             replied |-> result])]
    /\ UNCHANGED <<callers, offers, events, rx, query, cut, info, told>>

\* UnadvertiseSrv destroys the handler, or the process ends: the token is dropped,
\* and what was not answered ends.
Stop(s) ==
    /\ offers[s] = "yes"
    /\ events < MaxEvents
    /\ events' = events + 1
    /\ offers' = [offers EXCEPT ![s] = "stopped"]
    /\ inbox' = [inbox EXCEPT ![s] = <<>>]
    /\ back' = [back EXCEPT ![LinkOf[s]] =
           Append(@, [kind |-> "delete", server |-> s])
               \o [i \in 1..Len(inbox[s]) |->
                      [kind |-> "end", server |-> s, req |-> inbox[s][i], replied |-> FALSE]]]
    /\ UNCHANGED <<callers, executed, rx, query, cut, info, told>>

-----------------------------------------------------------------------------
(* The threads that receive for Zenoh.                                     *)

\* LivelinessSrvDataHandler: only a new token has a callback.
ReceiveSample(l) ==
    /\ rx[l] = Idle
    /\ back[l] # <<>>
    /\ back' = [back EXCEPT ![l] = Tail(@)]
    /\ LET m == Head(back[l])
       IN  \/ /\ m.kind = "put"
              /\ info' = info \cup {m.server}
              /\ rx' = [rx EXCEPT ![l] = [pc |-> "connect", server |-> m.server]]
           \/ /\ m.kind = "delete"
              /\ info' = info \ {m.server}
              /\ UNCHANGED rx
    /\ UNCHANGED <<servers, callers, query, cut, told, events>>

\* The query ends on the thread of t.
Hand(t, replied) ==
    rx' = [rx EXCEPT ![t] = [pc |-> IF replied THEN "reply" ELSE "done", req |-> query.req]]

\* The last queryable ends the query; one that Zenoh gave up is not known any more.
ReceiveEnd(l) ==
    /\ rx[l] = Idle
    /\ back[l] # <<>>
    /\ back' = [back EXCEPT ![l] = Tail(@)]
    /\ LET m  == Head(back[l])
           to == query.to \ {m.server}
           replied == query.replied \/ m.replied
       IN  /\ m.kind = "end"
           /\ IF query.pc # "open" \/ query.req # m.req THEN UNCHANGED <<rx, query>>
              ELSE /\ query' = [query EXCEPT !.to = to, !.replied = replied,
                                            !.pc = IF to = {} THEN "handing" ELSE "open"]
                   /\ IF to = {} THEN Hand(l, replied) ELSE UNCHANGED rx
    /\ UNCHANGED <<servers, callers, cut, info, told, events>>

\* The query's time is up: what has been replied is handed over.
TimeUp ==
    /\ query.pc = "open"
    /\ rx[Timer] = Idle
    /\ cut' = cut \cup {query.req}
    /\ query' = [query EXCEPT !.pc = "handing"]
    /\ Hand(Timer, query.replied)
    /\ UNCHANGED <<servers, callers, back, info, told, events>>

\* FirstHandler finds a request of the server's kind, requested or not.
QueueKind(kind) ==
    srvQueue' = IF \E r \in Req : handler[r] # "none" /\ KindOf[r] = kind
                THEN Append(srvQueue, kind) ELSE srvQueue

OnNewSrvConnection(l) ==
    /\ rx[l].pc = "connect"
    /\ mutex = None
    /\ QueueKind(KindOf[rx[l].server])
    /\ rx' = [rx EXCEPT ![l] = Idle]
    /\ UNCHANGED <<servers, back, query, cut, info, service, mutex, todo, handler,
                   call, told, events>>

\* onReply: NotifyResult runs the callback, or stores the response ...
NotifyResult(t) ==
    /\ rx[t].pc = "reply"
    /\ told' = told \cup {rx[t].req}
    /\ rx' = [rx EXCEPT ![t].pc = "wake"]
    /\ UNCHANGED <<servers, callers, back, query, cut, info, events>>

\* ... and condition.notify_one.
Notify(t) ==
    /\ rx[t].pc = "wake"
    /\ LET r == rx[t].req
       IN  call' = IF call[r] = "blocked" THEN [call EXCEPT ![r] = "woken"] ELSE call
    /\ rx' = [rx EXCEPT ![t].pc = "done"]
    /\ UNCHANGED <<servers, back, query, cut, info, srvQueue, service, mutex, todo,
                   handler, told, events>>

\* onDone.
Done(t) ==
    /\ rx[t].pc = "done"
    /\ query.pc = "handing"
    /\ query' = [query EXCEPT !.pc = "done"]
    /\ rx' = [rx EXCEPT ![t] = Idle]
    /\ UNCHANGED <<servers, callers, back, cut, info, told, events>>

-----------------------------------------------------------------------------
Init ==
    /\ offers = [s \in Server |-> "not yet"]
    /\ inbox = [s \in Server |-> <<>>]
    /\ executed = [r \in Req |-> [s \in Server |-> <<>>]]
    /\ back = [l \in Link |-> <<>>]
    /\ rx = [t \in Link \cup {Timer} |-> Idle]
    /\ query = Idle
    /\ cut = {}
    /\ info = {}
    /\ srvQueue = <<>>
    /\ service = "idle"
    /\ mutex = None
    /\ todo = {}
    /\ handler = [r \in Req |-> "none"]
    /\ call = [r \in Req |-> "idle"]
    /\ told = {}
    /\ events = 0

CallContinues(r) == Sent(r) \/ Block(r) \/ Resume(r)

ServiceStep == TakeKind \/ SendFromService \/ SentFromService

HolderStep == GetReturns \/ \E r \in Req : Get(r)

LinkStep(l) == ReceiveSample(l) \/ ReceiveEnd(l) \/ OnNewSrvConnection(l)

ThreadStep(t) ==
    \/ NotifyResult(t) \/ Notify(t) \/ Done(t)
    \/ t \in Link /\ LinkStep(t)
    \/ t = Timer /\ TimeUp

Next ==
    \/ \E r \in Req : Request(r) \/ CallContinues(r) \/ SpuriousWakeup(r) \/ Timeout(r)
    \/ ServiceStep \/ HolderStep
    \/ \E s \in Server : Offer(s) \/ Serve(s) \/ Stop(s)
    \/ \E t \in Link \cup {Timer} : ThreadStep(t)

Spec == Init /\ [][Next]_vars

-----------------------------------------------------------------------------
(* Properties.                                                             *)

\* A thread that holds the mutex is in SendPendingRemoteReqs or before its wait.
TypeOK ==
    /\ offers \in [Server -> {"not yet", "yes", "stopped"}]
    /\ inbox \in [Server -> Seq(Req)]
    /\ executed \in [Req -> [Server -> Seq(BOOLEAN)]]
    /\ back \in [Link -> Seq(Sample \cup End)]
    /\ rx \in [Link \cup {Timer} -> RxState]
    /\ query \in Query
    /\ cut \subseteq Req
    /\ info \subseteq Server
    /\ srvQueue \in Seq({ KindOf[s] : s \in Server })
    /\ service \in {"idle"} \cup { KindOf[s] : s \in Server }
    /\ mutex \in {None, Service} \cup { r \in Req : call[r] \in {"sending", "checked"} }
    /\ todo \subseteq Req
    /\ handler \in [Req -> {"none", "stored", "requested"}]
    /\ call \in [Req -> CallState]
    /\ told \subseteq Req
    /\ events \in 0..MaxEvents

\* A blocked caller whose response is there is about to be notified, though
\* NotifyResult takes no mutex: the query is over before its sender lets go of the
\* mutex, and a caller that checks whether it has its response holds it.
NoLostWakeup ==
    \A r \in Sync :
        call[r] = "blocked" /\ r \in told
            => \E t \in Link \cup {Timer} : rx[t] = [pc |-> "wake", req |-> r]

\* No server executes a request twice, though the caller and the service thread
\* both send what is pending and tokens come at any time.
ExecutedOnce ==
    \A r \in Req, s \in Server :
        Len(executed[r][s]) + Cardinality({ i \in DOMAIN inbox[s] : inbox[s][i] = r }) <= 1

\* A caller is told of a success, and of nothing else: some server's callback
\* returned true for its request.
ToldOfSuccess == \A r \in told : \E s \in Server : executed[r][s] = <<TRUE>>

\* The mutex is held through the query, and a receiving thread may be waiting for
\* it with the query's answers behind it on the same link.  Then the timer ends the
\* query, and who ends it is not waiting for the mutex, as long as the callbacks
\* of users leave the node alone.
QueryEnds ==
    /\ query # Idle => mutex # None /\ query.req \in todo
    /\ query.pc = "open" => rx[Timer] = Idle
    /\ query.pc = "handing" =>
          \E t \in Link \cup {Timer} :
              rx[t].pc \in {"reply", "wake", "done"} /\ rx[t].req = query.req

\* What a caller may count on though its request is a query for which a mutex is
\* held.
QueriesSound == TypeOK /\ NoLostWakeup /\ ExecutedOnce /\ ToldOfSuccess /\ QueryEnds
=============================================================================
