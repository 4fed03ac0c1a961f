------------------------------ MODULE NodeApi ------------------------------
(***************************************************************************)
(* What the nodes of a process hold in the state they share: publishers    *)
(* through Node::Publisher objects, subscriptions by the node itself or    *)
(* through Node::Subscriber objects, and services (src/aerozen/node.cpp,   *)
(* detail/node.hpp).  What the other processes hear of it is module        *)
(* Discovery, what is delivered is PubQueue.                               *)
(*                                                                         *)
(* Topics and services stand for fully qualified names.  Threads interleave*)
(* between the critical sections of NodeShared::mutex.                     *)
(***************************************************************************)
EXTENDS Naturals, FiniteSets, HandlerStorage

CONSTANTS
    Nodes,
    Topics,
    Services,
    ServiceTypes,   \* pairs of message types, [req, rep]
    Threads,
    Slots,          \* the program's variables of type Publisher and Subscriber,
                    \* which it does not assign to from two threads at once
    MaxObjects      \* bound: publishers and handlers ever made

VARIABLES
    advertised,         \* the own entries of msgDiscovery
    publishers,         \* the PublisherPrivate with a topic, until destroyed
    held,               \* held[s]: the publisher that slot s refers to
    localSubscribers,   \* a HandlerStorage
    topicsSubscribed,   \* by node
    owned,              \* owned[s]: the handler that the Subscriber s owns
    srvsAdvertised,     \* by node
    repliers,           \* a HandlerStorage
    offered,            \* the own entries of srvDiscovery
    thread,             \* what each thread is in the middle of
    alive,              \* nodes not yet being destroyed
    made                \* publishers and handlers made so far

vars == <<advertised, publishers, held, localSubscribers, topicsSubscribed,
          owned, srvsAdvertised, repliers, offered, thread, alive, made>>

publisherVars == <<advertised, publishers, held>>
subscriberVars == <<localSubscribers, topicsSubscribed, owned>>
serviceVars == <<srvsAdvertised, repliers, offered>>

Entry(node, topic) == [node |-> node, topic |-> topic]

Nothing == [at |-> "nothing"]   \* an invalid Publisher or Subscriber too

Init ==
    /\ advertised = {} /\ publishers = {}
    /\ held = [s \in Slots |-> Nothing]
    /\ localSubscribers = {} /\ topicsSubscribed = {}
    /\ owned = [s \in Slots |-> Nothing]
    /\ srvsAdvertised = {} /\ repliers = {} /\ offered = {}
    /\ thread = [t \in Threads |-> Nothing]
    /\ alive = Nodes
    /\ made = 0

Idle(t) == thread[t] = Nothing
Doing(t, what) == thread[t].at = what
Continue(t, state) == thread' = [thread EXCEPT ![t] = state]

-----------------------------------------------------------------------------
(***************************************************************************)
(* Publishers.                                                             *)
(***************************************************************************)
AdvertisedTopics(node) == {e.topic : e \in {e \in advertised : e.node = node}}

\* Advertise looks at the topics of the node first.
AdvertiseTest(t, node, topic, slot) ==
    /\ Idle(t) /\ node \in alive
    /\ Continue(t, IF topic \in AdvertisedTopics(node)
                   THEN [at |-> "assigning", slot |-> slot, to |-> Nothing]
                   ELSE [at |-> "advertising", node |-> node, topic |-> topic,
                         slot |-> slot])
    /\ UNCHANGED <<publisherVars, subscriberVars, serviceVars, alive, made>>

NewPublisher(t) == [at |-> "publisher", id |-> made + 1,
                    node |-> thread[t].node, topic |-> thread[t].topic]

\* Slip: a publisher that discovery has already is taken for advertised.
AdvertisePublisherAnyway(t) ==
    /\ Doing(t, "advertising") /\ made < MaxObjects
    /\ advertised' = advertised \cup {Entry(thread[t].node, thread[t].topic)}
    /\ publishers' = publishers \cup {NewPublisher(t)}
    /\ made' = made + 1
    /\ Continue(t, [at |-> "assigning", slot |-> thread[t].slot, to |-> NewPublisher(t)])
    /\ UNCHANGED <<held, subscriberVars, serviceVars, alive>>

\* In a second critical section, discovery refuses a publisher that it has.
AdvertisePublisher(t) ==
    LET entry == Entry(thread[t].node, thread[t].topic)
        fresh == entry \notin advertised
    IN  /\ Doing(t, "advertising") /\ made < MaxObjects
        /\ advertised' = advertised \cup {entry}
        /\ publishers' = publishers \cup (IF fresh THEN {NewPublisher(t)} ELSE {})
        /\ made' = IF fresh THEN made + 1 ELSE made
        /\ Continue(t, [at |-> "assigning", slot |-> thread[t].slot,
                        to |-> IF fresh THEN NewPublisher(t) ELSE Nothing])
        /\ UNCHANGED <<held, subscriberVars, serviceVars, alive>>

\* slot = publisher: the copy shares the object, and the one that the slot
\* referred to before goes with its last reference.
Assign(t, slot, publisher) ==
    /\ held' = [held EXCEPT ![slot] = publisher]
    /\ Continue(t, IF held[slot] # Nothing /\ \A s \in Slots : held'[s] # held[slot]
                      /\ \A u \in Threads \ {t} :
                            Doing(u, "assigning") => thread[u].to # held[slot]
                   THEN [at |-> "destroying", publisher |-> held[slot]]
                   ELSE Nothing)
    /\ UNCHANGED <<advertised, publishers, subscriberVars, serviceVars, alive, made>>

AssignResult(t) ==
    Doing(t, "assigning") /\ Assign(t, thread[t].slot, thread[t].to)

CopyPublisher(t, from, to) == Idle(t) /\ from # to /\ Assign(t, to, held[from])

DropPublisher(t, slot) == Idle(t) /\ held[slot] # Nothing /\ Assign(t, slot, Nothing)

\* ~PublisherPrivate
DestroyPublisher(t) ==
    /\ Doing(t, "destroying")
    /\ advertised' = advertised \
            {Entry(thread[t].publisher.node, thread[t].publisher.topic)}
    /\ publishers' = publishers \ {thread[t].publisher}
    /\ Continue(t, Nothing)
    /\ UNCHANGED <<held, subscriberVars, serviceVars, alive, made>>

-----------------------------------------------------------------------------
(***************************************************************************)
(* Subscriptions.                                                          *)
(***************************************************************************)

\* SubscribeImpl of a message type, or SubscribeRaw; CreateSubscriber keeps
\* the handler in a Subscriber, which lets go of what it was given before.
Subscribe(t, node, topic, slot) ==
    LET handler == [topic |-> topic, node |-> node, id |-> made + 1]
    IN  /\ Idle(t) /\ node \in alive /\ made < MaxObjects
        /\ localSubscribers' = AddHandler(localSubscribers, handler)
        /\ topicsSubscribed' = topicsSubscribed \cup {Entry(node, topic)}
        /\ owned' = IF slot \in Slots THEN [owned EXCEPT ![slot] = handler] ELSE owned
        /\ made' = made + 1
        /\ UNCHANGED <<publisherVars, serviceVars, thread, alive>>

\* The critical section of NodeShared::Unsubscribe, after it removed handlers.
Unsubscribed(handlers, node, topic) ==
    /\ localSubscribers' = handlers
    /\ topicsSubscribed' = IF HasHandlersForNode(handlers, topic, node)
                           THEN topicsSubscribed
                           ELSE topicsSubscribed \ {Entry(node, topic)}

UnsubscribeNode(t, node, topic) ==
    /\ Idle(t) /\ node \in alive
    /\ Unsubscribed(RemoveHandlersForNode(localSubscribers, topic, node), node, topic)
    /\ UNCHANGED <<owned, publisherVars, serviceVars, thread, alive, made>>

\* Subscriber::Unsubscribe, also from the destructor; the node may be gone.
UnsubscribeOwned(t, slot) ==
    LET h == owned[slot]
    IN  /\ Idle(t) /\ h # Nothing
        /\ Unsubscribed(RemoveHandler(localSubscribers, h.topic, h.node, h.id),
                        h.node, h.topic)
        /\ owned' = [owned EXCEPT ![slot] = Nothing]
        /\ UNCHANGED <<publisherVars, serviceVars, thread, alive, made>>

\* Subscriber's move assignment.
MoveSubscriber(t, from, to) ==
    /\ Idle(t) /\ from # to
    /\ owned' = [owned EXCEPT ![to] = owned[from], ![from] = Nothing]
    /\ owned' # owned
    /\ UNCHANGED <<localSubscribers, topicsSubscribed, publisherVars, serviceVars,
                   thread, alive, made>>

-----------------------------------------------------------------------------
(***************************************************************************)
(* Services.                                                               *)
(***************************************************************************)

\* A service may be advertised twice by a node, with other types or another
\* callback: discovery refuses the second, which local requests still find.
AdvertiseSrv(t, node, service, types) ==
    LET handler == [topic |-> service, node |-> node, id |-> made + 1,
                    req |-> types.req, rep |-> types.rep]
    IN  /\ Idle(t) /\ node \in alive /\ made < MaxObjects
        /\ srvsAdvertised' = srvsAdvertised \cup {Entry(node, service)}
        /\ repliers' = AddHandler(repliers, handler)
        /\ offered' = IF HandlersOfNode(offered, service, node) # {} THEN offered
                      ELSE offered \cup {[node |-> node, topic |-> service,
                                          req |-> types.req, rep |-> types.rep]}
        /\ made' = made + 1
        /\ UNCHANGED <<publisherVars, subscriberVars, thread, alive>>

Unadvertise(node, service) ==
    /\ srvsAdvertised' = srvsAdvertised \ {Entry(node, service)}
    /\ repliers' = RemoveHandlersForNode(repliers, service, node)
    /\ offered' = offered \ HandlersOfNode(offered, service, node)

UnadvertiseSrv(t, node, service) ==
    /\ Idle(t) /\ node \in alive
    /\ Entry(node, service) \in srvsAdvertised  \* else of no effect
    /\ Unadvertise(node, service)
    /\ UNCHANGED <<publisherVars, subscriberVars, thread, alive, made>>

-----------------------------------------------------------------------------
(***************************************************************************)
(* ~Node: the program calls the node no more, but objects of it live on.   *)
(***************************************************************************)
SubscribedTopics(node) ==
    {e.topic : e \in {e \in topicsSubscribed : e.node = node}}
AdvertisedServices(node) ==
    {e.topic : e \in {e \in srvsAdvertised : e.node = node}}

DestroyNode(t, node) ==
    /\ Idle(t) /\ node \in alive
    /\ \A u \in Threads : Doing(u, "advertising") => thread[u].node # node
    /\ alive' = alive \ {node}
    /\ Continue(t, [at |-> "unsubscribing", node |-> node,
                    topics |-> SubscribedTopics(node)])
    /\ UNCHANGED <<publisherVars, subscriberVars, serviceVars, made>>

DestroyUnsubscribe(t) ==
    /\ Doing(t, "unsubscribing")
    /\ \E topic \in thread[t].topics :
          /\ Unsubscribed(RemoveHandlersForNode(localSubscribers, topic, thread[t].node),
                          thread[t].node, topic)
          /\ Continue(t, [thread[t] EXCEPT !.topics = @ \ {topic}])
    /\ UNCHANGED <<owned, publisherVars, serviceVars, alive, made>>

DestroyListServices(t) ==
    /\ Doing(t, "unsubscribing") /\ thread[t].topics = {}
    /\ Continue(t, [at |-> "unadvertising", node |-> thread[t].node,
                    services |-> AdvertisedServices(thread[t].node)])
    /\ UNCHANGED <<publisherVars, subscriberVars, serviceVars, alive, made>>

DestroyUnadvertise(t) ==
    /\ Doing(t, "unadvertising")
    /\ IF thread[t].services = {} THEN Continue(t, Nothing) /\ UNCHANGED serviceVars
       ELSE \E service \in thread[t].services :
                /\ Unadvertise(thread[t].node, service)
                /\ Continue(t, [thread[t] EXCEPT !.services = @ \ {service}])
    /\ UNCHANGED <<publisherVars, subscriberVars, alive, made>>

Next ==
    \E t \in Threads :
        \/ \E n \in Nodes, x \in Topics, s \in Slots : AdvertiseTest(t, n, x, s)
        \/ AdvertisePublisher(t) \/ AssignResult(t) \/ DestroyPublisher(t)
        \/ \E s \in Slots : DropPublisher(t, s) \/ UnsubscribeOwned(t, s)
        \/ \E s, u \in Slots : CopyPublisher(t, s, u) \/ MoveSubscriber(t, s, u)
        \/ \E n \in Nodes, x \in Topics, s \in Slots \cup {0} : Subscribe(t, n, x, s)
        \/ \E n \in Nodes, x \in Topics : UnsubscribeNode(t, n, x)
        \/ \E n \in Nodes, x \in Services :
              \/ UnadvertiseSrv(t, n, x)
              \/ \E types \in ServiceTypes : AdvertiseSrv(t, n, x, types)
        \/ \E n \in Nodes : DestroyNode(t, n)
        \/ DestroyUnsubscribe(t) \/ DestroyListServices(t) \/ DestroyUnadvertise(t)

Spec == Init /\ [][Next]_vars

-----------------------------------------------------------------------------
(***************************************************************************)
(* Properties.                                                             *)
(***************************************************************************)

\* A topic is advertised for a node exactly as long as an object for it
\* exists, of which there is one, however the calls of Advertise and the ends
\* of Publishers interleave: a second object's end would silence the first
\* (node.cpp:139, :1067, :1088).
AdvertisedWhileHeld ==
    /\ advertised = {Entry(p.node, p.topic) : p \in publishers}
    /\ \A p, q \in publishers : p.node = q.node /\ p.topic = q.topic => p = q
    /\ \A s \in Slots : held[s] = Nothing \/ held[s] \in publishers

\* What the node lists, what discovery announces and what answers requests or
\* receives messages agree between the critical sections: a request from
\* outside with the announced types finds a responder, and none is left that
\* is not announced, though discovery refuses what a node offers twice
\* (node.cpp:771-778, node_shared.cpp:1998-2016, detail/node.hpp:269-286).
ListedIsServed ==
    /\ \A e \in offered : RepliersOf(repliers, e.topic, e.req, e.rep) # {}
    /\ srvsAdvertised = {Entry(e.node, e.topic) : e \in offered}
    /\ srvsAdvertised = {Entry(r.node, r.topic) : r \in repliers}
    /\ topicsSubscribed = {Entry(h.node, h.topic) : h \in localSubscribers}

\* After ~Node nothing of the node is left but the publishers that the program
\* holds on to (the assertions of node.cpp:674 and :686), although Subscribers
\* of it may unsubscribe before, meanwhile and after.
NodeLeavesNothing ==
    \A n \in Nodes \ alive :
        \/ \E t \in Threads : thread[t].at \in {"unsubscribing", "unadvertising"}
                                /\ thread[t].node = n
        \/ /\ SubscribedTopics(n) = {} /\ AdvertisedServices(n) = {}
           /\ \A h \in localSubscribers \cup repliers : h.node # n
           /\ \A e \in offered : e.node # n
=============================================================================
