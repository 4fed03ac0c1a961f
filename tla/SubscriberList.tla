--------------------------- MODULE SubscriberList ---------------------------
(***************************************************************************)
(* Discovery::TopicList (src/aerozen/discovery.hpp): a process asks the    *)
(* others for their subscribers, and lists the topics of those that have   *)
(* answered when it is initialized, at once if it already is.              *)
(* Node::TopicInfo calls it for the answers, and reads those for one topic *)
(* in a critical section of their own.                                     *)
(*                                                                         *)
(* What is advertised, which is listed too, is module Discovery.  Datagrams*)
(* are delayed, lost and reordered.                                        *)
(***************************************************************************)
EXTENDS Naturals, FiniteSets

CONSTANTS
    Peers,      \* the other processes
    SubTopics,
    Askers,     \* threads of the process that lists topics
    MaxAsks,    \* bound: calls of TopicList and TopicInfo
    MaxChanges  \* bound: (un)subscriptions by the peers

VARIABLES
    peerSubs,           \* the peers' localSubscribers, by [proc, topic]
    wire,               \* requests to, and answers from the peers
    remoteSubscribers,
    cycles,             \* heartbeats sent while not initialized
    asker,              \* what each thread is in the middle of
    asks, changes,      \* calls and (un)subscriptions so far
    answered,           \* history: answered[c]: the answers since c's clear
    disturbed           \* history: disturbed[c]: another thread cleared since

vars == <<peerSubs, wire, remoteSubscribers, cycles, asker, asks, changes,
          answered, disturbed>>

history == <<answered, disturbed>>

Subscriptions == [proc : Peers, topic : SubTopics]

Request(p) == [type |-> "SUBSCRIBERS_REQ", to |-> p]
Reply(s) == [type |-> "SUBSCRIBERS_REP", sub |-> s]

InitCycle == 3
Initialized == cycles = InitCycle

At(state) == [at |-> state, found |-> {}]

Init ==
    /\ peerSubs = {}
    /\ wire = {}
    /\ remoteSubscribers = {}
    /\ cycles = 0
    /\ asker = [c \in Askers |-> At("idle")]
    /\ asks = 0 /\ changes = 0
    /\ answered = [c \in Askers |-> {}]
    /\ disturbed = [c \in Askers |-> FALSE]

Begins(c) ==
    /\ asker' = [asker EXCEPT ![c] = At("cleared")]
    /\ asks' = asks + 1
    /\ answered' = [answered EXCEPT ![c] = {}]
    /\ disturbed' = [d \in Askers |-> d # c]

-----------------------------------------------------------------------------
(***************************************************************************)
(* TopicList.                                                              *)
(***************************************************************************)

\* Slip: what was answered to earlier requests stays.
ClearNothing(c) ==
    /\ asker[c].at = "idle" /\ asks < MaxAsks
    /\ Begins(c)
    /\ UNCHANGED <<peerSubs, wire, remoteSubscribers, cycles, changes>>

Clear(c) ==
    /\ asker[c].at = "idle" /\ asks < MaxAsks
    /\ remoteSubscribers' = {}
    /\ Begins(c)
    /\ UNCHANGED <<peerSubs, wire, cycles, changes>>

SendRequest(c) ==
    /\ asker[c].at = "cleared"
    /\ wire' = wire \cup {Request(p) : p \in Peers}
    /\ asker' = [asker EXCEPT ![c] = At("waiting")]
    /\ UNCHANGED <<peerSubs, remoteSubscribers, cycles, asks, changes, history>>

\* WaitForInit lets go of the mutex before it is locked again.
WaitForInit(c) ==
    /\ asker[c].at = "waiting" /\ Initialized
    /\ asker' = [asker EXCEPT ![c] = At("reading")]
    /\ UNCHANGED <<peerSubs, wire, remoteSubscribers, cycles, asks, changes, history>>

ReadTopics(c) ==
    /\ asker[c].at = "reading"
    /\ asker' = [asker EXCEPT ![c] = [at |-> "listed", found |->
                    {s.topic : s \in remoteSubscribers}]]
    /\ UNCHANGED <<peerSubs, wire, remoteSubscribers, cycles, asks, changes, history>>

\* TopicInfo, which makes nothing of the list: Discovery::RemoteSubscribers.
ReadSubscribers(c, topic) ==
    /\ asker[c].at = "reading"
    /\ asker' = [asker EXCEPT ![c] = [at |-> "informed", topic |-> topic, found |->
                    {s \in remoteSubscribers : s.topic = topic}]]
    /\ UNCHANGED <<peerSubs, wire, remoteSubscribers, cycles, asks, changes, history>>

Return(c) ==
    /\ asker[c].at \in {"listed", "informed"}
    /\ asker' = [asker EXCEPT ![c] = At("idle")]
    /\ UNCHANGED <<peerSubs, wire, remoteSubscribers, cycles, asks, changes, history>>

-----------------------------------------------------------------------------
(***************************************************************************)
(* The discovery threads.                                                  *)
(***************************************************************************)

\* UpdateHeartbeat: initialized with the third heartbeat.
Heartbeat ==
    /\ ~Initialized
    /\ cycles' = cycles + 1
    /\ UNCHANGED <<peerSubs, wire, remoteSubscribers, asker, asks, changes, history>>

\* OnSubscribers: one answer for each handler that the peer has then.
AnswerRequest(p) ==
    /\ Request(p) \in wire
    /\ wire' = (wire \ {Request(p)}) \cup {Reply(s) : s \in {s \in peerSubs : s.proc = p}}
    /\ UNCHANGED <<peerSubs, remoteSubscribers, cycles, asker, asks, changes, history>>

\* An answer to another process's request, which everybody receives.
AnswerOthers(p) ==
    /\ wire' = wire \cup {Reply(s) : s \in {s \in peerSubs : s.proc = p}}
    /\ UNCHANGED <<peerSubs, remoteSubscribers, cycles, asker, asks, changes, history>>

Stored(s) == remoteSubscribers \cup {s}

ReceiveReply(s) ==
    /\ Reply(s) \in wire
    /\ wire' = wire \ {Reply(s)}
    /\ remoteSubscribers' = Stored(s)
    /\ answered' = [c \in Askers |->
                        IF asker[c].at \in {"idle", "listed", "informed"} THEN answered[c]
                        ELSE answered[c] \cup {s}]
    /\ UNCHANGED <<peerSubs, cycles, asker, asks, changes, disturbed>>

LoseDatagram ==
    /\ \E m \in wire : wire' = wire \ {m}
    /\ UNCHANGED <<peerSubs, remoteSubscribers, cycles, asker, asks, changes, history>>

ChangeSubscription(s) ==
    /\ changes < MaxChanges
    /\ changes' = changes + 1
    /\ peerSubs' = IF s \in peerSubs THEN peerSubs \ {s} ELSE peerSubs \cup {s}
    /\ UNCHANGED <<wire, remoteSubscribers, cycles, asker, asks, history>>

Next ==
    \/ \E c \in Askers :
          \/ Clear(c) \/ SendRequest(c) \/ WaitForInit(c) \/ ReadTopics(c) \/ Return(c)
          \/ \E topic \in SubTopics : ReadSubscribers(c, topic)
    \/ Heartbeat \/ LoseDatagram
    \/ \E p \in Peers : AnswerRequest(p) \/ AnswerOthers(p)
    \/ \E s \in Subscriptions : ReceiveReply(s) \/ ChangeSubscription(s)

Spec == Init /\ [][Next]_vars

-----------------------------------------------------------------------------
(***************************************************************************)
(* Properties.                                                             *)
(***************************************************************************)

\* A call lists every topic, or every subscriber of its topic, that it has had
\* an answer for, unless another thread's call took the answers away, and nothing
\* that was answered before it cleared the list (discovery.hpp:734, :747, :1171;
\* node.cpp:957, :991).  Answers that come after the read are missed.
ListIsOfThisCall ==
    \A c \in Askers :
        LET due == CASE asker[c].at = "listed" -> {s.topic : s \in answered[c]}
                     [] asker[c].at = "informed" ->
                            {s \in answered[c] : s.topic = asker[c].topic}
                     [] OTHER -> {}
        IN  /\ asker[c].found \subseteq due
            /\ disturbed[c] \/ asker[c].found = due
=============================================================================
