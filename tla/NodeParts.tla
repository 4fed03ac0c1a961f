----------------------------- MODULE NodeParts ------------------------------
(***************************************************************************)
(* The small modules that make up a node and what it tells other           *)
(* processes: the Node API, the names of topics, the records of publishers,*)
(* the liveliness tokens of Zenoh and the calls that are its queries.      *)
(* Which of them moves, if one of them does, is said by part.              *)
(***************************************************************************)
EXTENDS Integers, Sequences, FiniteSets

CONSTANTS
    Nodes, Topics, Services, ServiceTypes, Threads, Slots, MaxObjects,
    GivenPartitions, GivenNamespaces, GivenTopics, GivenTypes, MaxNameLength,
    RecordNames, Rates,
    Self, Others, TokenNodes, TokenTypes, MaxTokens,
    Queries, Queryables, QueryKind, Blocking, Forgotten, Link, LinkOf, MaxEvents

\* What users pass are texts: sequences of characters, whatever these are.  The
\* name of a message type is that of a protobuf message, which has no slash.
Text(s) == s \in Seq({s[i] : i \in DOMAIN s})

ASSUME NamesAssumption ==
    /\ MaxNameLength \in Nat
    /\ \A s \in GivenPartitions \cup GivenNamespaces \cup GivenTopics : Text(s)
    /\ \A types \in GivenTypes :
          /\ Text(types)
          /\ \A i \in DOMAIN types : Text(types[i]) /\ \A j \in DOMAIN types[i] : types[i][j] # "/"

ASSUME QueriesAssumption ==
    /\ LinkOf \in [Queryables -> Link] /\ "timer" \notin Link
    /\ {"none", "service"} \cap Queries = {}
    /\ MaxEvents \in Nat

VARIABLES
    part,
    advertised, publishers, held, localSubscribers, topicsSubscribed, owned,
    srvsAdvertised, repliers, offered, thread, alive, made,
    stage, given, name, token, entity,
    pub, sent, msg, got,
    tokens, samples, found, subscribers, registered, dataHandler, destructor,
    declared, mixed,
    offers, inbox, executed, back, rx, query, cut, info, srvQueue, service, mutex,
    toSend, handler, queryCall, answeredQueries, events

NA == INSTANCE NodeApi
TN == INSTANCE TopicNames
PR == INSTANCE PublisherRecords
LI == INSTANCE Liveliness
ZC == INSTANCE ZenohCalls WITH
    Req <- Queries, Server <- Queryables, KindOf <- QueryKind, Sync <- Blocking,
    OneWay <- Forgotten, todo <- toSend, call <- queryCall, told <- answeredQueries

-----------------------------------------------------------------------------
nodeVars ==
    <<advertised, publishers, held, localSubscribers, topicsSubscribed, owned,
      srvsAdvertised, repliers, offered, thread, alive, made>>
namesVars == <<stage, given, name, token, entity>>
recordsVars == <<pub, sent, msg, got>>
livelinessVars ==
    <<tokens, samples, found, subscribers, registered, dataHandler, destructor,
      declared, mixed>>
queryVars ==
    <<offers, inbox, executed, back, rx, query, cut, info, srvQueue, service, mutex,
      toSend, handler, queryCall, answeredQueries, events>>

nodePartsVars ==
    <<part, nodeVars, namesVars, recordsVars, livelinessVars, queryVars>>

NodePartsInit ==
    /\ NA!Init /\ TN!Init /\ PR!Init /\ LI!Init /\ ZC!Init
    /\ part = "records" \/ pub.kind = "message"

NodePartsNext ==
    /\ UNCHANGED part
    /\ IF part = "node" THEN NA!Next ELSE UNCHANGED nodeVars
    /\ IF part = "names" THEN TN!Next ELSE UNCHANGED namesVars
    /\ IF part = "records" THEN PR!Next ELSE UNCHANGED recordsVars
    /\ IF part = "liveliness" THEN LI!Next ELSE UNCHANGED livelinessVars
    /\ IF part = "queries" THEN ZC!Next ELSE UNCHANGED queryVars

NodePartsSpec == NodePartsInit /\ [][NodePartsNext]_nodePartsVars

-----------------------------------------------------------------------------
(* The properties of these parts; each speaks of the part that moves.       *)

\* The books of a node and of its process agree with what its user holds and
\* has offered, and are empty of the node when it is gone.
NodeState ==
    part = "node" =>
        NA!AdvertisedWhileHeld /\ NA!ListedIsServed /\ NA!NodeLeavesNothing

\* The names of topics, the tokens of Zenoh and the records of publishers are
\* read as they were written.
NamesSurvive ==
    /\ part = "names" => TN!NamesSurvive /\ TN!TokensSurvive
    /\ part = "records" => PR!RecordsSurvive

\* The address books follow the tokens of Zenoh.
BooksAgreeWithTokens == part = "liveliness" => LI!BooksAgreeWithTokens

\* Requests that are queries of Zenoh are asked once, and their answers found.
QueriesSound == part = "queries" => ZC!QueriesSound
=============================================================================
