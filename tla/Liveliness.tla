----------------------------- MODULE Liveliness -----------------------------
(***************************************************************************)
(* Discovery over Zenoh (GZ_IMPLEMENTATION=zenoh), seen by one process:    *)
(* publishers, subscribers and services each declare a liveliness token,   *)
(* and the liveliness subscriber of Discovery turns the samples of tokens  *)
(* that come and go into the address books that datagrams fill otherwise   *)
(* (module Discovery).                                                     *)
(*                                                                         *)
(* Zenoh itself is external: the samples of a key come in order, one when  *)
(* its first token is declared and one when its last one is gone, and the  *)
(* end of a process removes its tokens.  There is one topic, of which the  *)
(* services are taken to be too: msgDiscovery and srvDiscovery have an     *)
(* address book each.                                                      *)
(***************************************************************************)
EXTENDS Naturals, Sequences, FiniteSets, TopicStorage

CONSTANTS
    Self,       \* the process
    Others,     \* the other ones
    TokenNodes, \* the nodes, in every process
    TokenTypes, \* the message types
    MaxTokens   \* bound: tokens ever declared

VARIABLES
    tokens,      \* the live tokens
    samples,     \* what Zenoh is to hand to the handler
    found,       \* info, of both discoveries
    subscribers, \* Discovery::remoteSubscribers
    registered,  \* NodeShared::remoteSubscribers
    dataHandler, \* where LivelinessMsgDataHandler is
    destructor,  \* the publisher being destroyed, and how far it is
    declared,    \* how many tokens were declared
    mixed        \* the nodes that had tokens of two types at a time

vars == <<tokens, samples, found, subscribers, registered, dataHandler, destructor,
          declared, mixed>>

zenoh == <<tokens, samples, declared, mixed>>

-----------------------------------------------------------------------------
Kind == {"MP", "MS", "SS"}   \* publisher, subscriber, service

Key == [kind : Kind, pUuid : {Self} \cup Others, nUuid : TokenNodes, type : TokenTypes]

\* What DecomposeLivelinessToken finds in a key, with neither address.
Entry(key) ==
    [topic |-> key.kind, pUuid |-> key.pUuid, nUuid |-> key.nUuid,
     addr |-> "", type |-> key.type]

KeysOf(T) == { t.key : t \in T }

Idle == [pc |-> "idle"]

\* The owner of a token: a node can have tokens of several types and handlers.
SameOwner(k1, k2) == k1.kind = k2.kind /\ k1.pUuid = k2.pUuid /\ k1.nUuid = k2.nUuid

\* Nobody holds NodeShared::mutex or Discovery::mutex between two steps.
SharedUnlocked == destructor.pc # "unadvertise"
DiscoveryUnlocked == dataHandler.pc = "idle"

-----------------------------------------------------------------------------
(* Tokens.                                                                 *)

Declare(key) ==
    /\ declared < MaxTokens
    /\ declared' = declared + 1
    /\ tokens' = tokens \cup {[id |-> declared + 1, key |-> key]}
    /\ samples' = IF key \in KeysOf(tokens) THEN samples
                  ELSE Append(samples, [sample |-> "PUT", key |-> key])
    /\ mixed' = mixed \cup { k \in KeysOf(tokens) : SameOwner(k, key) /\ k # key }

\* The keys that nothing else has declared go, in any order.
Undeclare(T) ==
    LET gone == KeysOf(T) \ KeysOf(tokens \ T)
    IN  /\ tokens' = tokens \ T
        /\ \E order \in { s \in [1..Cardinality(gone) -> gone] :
                            { s[i] : i \in DOMAIN s } = gone } :
              samples' = samples \o
                  [i \in DOMAIN order |-> [sample |-> "DELETE", key |-> order[i]]]
        /\ UNCHANGED <<declared, mixed>>

here == <<found, subscribers, registered, dataHandler>>

\* Another process advertises, subscribes or offers a service.
DeclareElsewhere(key) ==
    /\ key.pUuid \in Others
    /\ Declare(key)
    /\ UNCHANGED <<here, destructor>>

UndeclareElsewhere(t) ==
    /\ t.key.pUuid \in Others
    /\ Undeclare({t})
    /\ UNCHANGED <<here, destructor>>

Crash(p) ==
    /\ \E t \in tokens : t.key.pUuid = p
    /\ Undeclare({ t \in tokens : t.key.pUuid = p })
    /\ UNCHANGED <<here, destructor>>

\* Node::Advertise: the topics of the node are those the handler has found.
Advertise(key) ==
    /\ key.pUuid = Self /\ key.kind = "MP"
    /\ SharedUnlocked
    /\ ByNode(found, "MP", Self, key.nUuid) = {}
    /\ Declare(key)
    /\ UNCHANGED <<here, destructor>>

\* CreateGenericZenohSubscriber: every handler has a token.
Subscribe(key) ==
    /\ key.pUuid = Self /\ key.kind = "MS"
    /\ SharedUnlocked
    /\ Declare(key)
    /\ UNCHANGED <<here, destructor>>

\* Unsubscribe destroys the handler, and its token with it.
Unsubscribe(t) ==
    /\ t.key.pUuid = Self /\ t.key.kind = "MS"
    /\ SharedUnlocked
    /\ Undeclare({t})
    /\ UNCHANGED <<here, destructor>>

\* ~PublisherPrivate: NodeShared::mutex, ...
DestroyPublisher(t) ==
    /\ destructor = Idle
    /\ t.key.pUuid = Self /\ t.key.kind = "MP"
    /\ destructor' = [pc |-> "unadvertise", token |-> t]
    /\ UNCHANGED <<zenoh, here>>

\* ... Unadvertise with Discovery::mutex, ...
Unadvertise ==
    /\ destructor.pc = "unadvertise"
    /\ DiscoveryUnlocked
    /\ found' = DelPublisherByNode(found, "MP", Self, destructor.token.key.nUuid)
    /\ destructor' = [destructor EXCEPT !.pc = "token"]
    /\ UNCHANGED <<zenoh, subscribers, registered, dataHandler>>

\* ... and, both let go of, the member zToken.
DestroyToken ==
    /\ destructor.pc = "token"
    /\ Undeclare({destructor.token})
    /\ destructor' = Idle
    /\ UNCHANGED here

-----------------------------------------------------------------------------
(* LivelinessMsgDataHandler and LivelinessSrvDataHandler.                  *)

Sample(kind) ==
    /\ dataHandler = Idle
    /\ samples # <<>>
    /\ Head(samples).sample = kind
    /\ samples' = Tail(samples)
    /\ UNCHANGED <<tokens, declared, mixed, registered, destructor>>

\* A subscriber of another process: registrationCb or unregistrationCb is called
\* with Discovery::mutex.
Callback(pc, entry) == [pc |-> pc, entry |-> entry]

\* A subscriber of the process itself changes nothing.  connectionCb connects to
\* nobody.
Put ==
    /\ Sample("PUT")
    /\ LET key == Head(samples).key
       IN  IF key.kind # "MS"
           THEN /\ found' = AddPublisher(found, Entry(key))
                /\ UNCHANGED <<subscribers, dataHandler>>
           ELSE IF key.pUuid = Self THEN UNCHANGED <<found, subscribers, dataHandler>>
           ELSE /\ subscribers' = AddPublisher(subscribers, Entry(key))
                /\ dataHandler' = Callback("register", Entry(key))
                /\ UNCHANGED found

Delete ==
    /\ Sample("DELETE")
    /\ LET key == Head(samples).key
       IN  IF key.kind # "MS"
           THEN /\ found' = DelPublisherByNode(found, key.kind, key.pUuid, key.nUuid)
                /\ UNCHANGED <<subscribers, dataHandler>>
           ELSE IF key.pUuid = Self THEN UNCHANGED <<found, subscribers, dataHandler>>
           ELSE /\ subscribers' =
                       DelPublisherByNode(subscribers, key.kind, key.pUuid, key.nUuid)
                /\ dataHandler' = Callback("unregister", Entry(key))
                /\ UNCHANGED found

\* OnNewRegistration: the control field is the own UUID.
Register ==
    /\ dataHandler.pc = "register"
    /\ SharedUnlocked
    /\ registered' = AddPublisher(registered, dataHandler.entry)
    /\ dataHandler' = Idle
    /\ UNCHANGED <<zenoh, found, subscribers, destructor>>

\* Slip: only the process is looked at.
UnregisterProcess ==
    /\ dataHandler.pc = "unregister"
    /\ SharedUnlocked
    /\ registered' = DelPublishersByProc(registered, dataHandler.entry.pUuid)
    /\ dataHandler' = Idle
    /\ UNCHANGED <<zenoh, found, subscribers, destructor>>

\* OnEndRegistration
Unregister ==
    /\ dataHandler.pc = "unregister"
    /\ SharedUnlocked
    /\ registered' = LET e == dataHandler.entry
                     IN  DelPublisherByNode(registered, e.topic, e.pUuid, e.nUuid)
    /\ dataHandler' = Idle
    /\ UNCHANGED <<zenoh, found, subscribers, destructor>>

-----------------------------------------------------------------------------
Init ==
    /\ tokens = {}
    /\ samples = <<>>
    /\ found = {}
    /\ subscribers = {}
    /\ registered = {}
    /\ dataHandler = Idle
    /\ destructor = Idle
    /\ declared = 0
    /\ mixed = {}

Next ==
    \/ \E key \in Key : DeclareElsewhere(key) \/ Advertise(key) \/ Subscribe(key)
    \/ \E t \in tokens : UndeclareElsewhere(t) \/ Unsubscribe(t) \/ DestroyPublisher(t)
    \/ \E p \in Others : Crash(p)
    \/ Unadvertise \/ DestroyToken
    \/ Put \/ Delete \/ Register \/ Unregister

Spec == Init /\ [][Next]_vars

-----------------------------------------------------------------------------
Settled == samples = <<>> /\ dataHandler = Idle

\* The tokens of an entry's owner that are live.
TokensOf(e) ==
    { t \in tokens : /\ t.key.kind = e.topic
                     /\ t.key.pUuid = e.pUuid
                     /\ t.key.nUuid = e.nUuid }

\* Once all samples are handled, everybody listed is alive, and every other
\* process's publisher, service or subscriber that is alive is listed, in the
\* book of Discovery and in that of NodeShared, which is filled by a callback.
\* The code keeps one entry per node and drops it with the first of its tokens:
\* that every token is listed is claimed of nodes with one type only.
BooksAgreeWithTokens ==
    Settled =>
        /\ \A e \in found \cup subscribers \cup registered : TokensOf(e) # {}
        /\ subscribers = registered
        /\ \A t \in tokens :
              \/ t.key.pUuid = Self
              \/ \E k \in mixed : SameOwner(k, t.key)
              \/ \E e \in found \cup registered : t \in TokensOf(e)
=============================================================================
