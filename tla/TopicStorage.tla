---------------------------- MODULE TopicStorage ----------------------------
(***************************************************************************)
(* The address book of the transport (src/aerozen/topic_storage.hpp).      *)
(*                                                                         *)
(* The C++ class keeps a map  topic -> process UUID -> vector of           *)
(* publishers.  Here a storage is the plain set of the publishers in it,   *)
(* each a record with at least the fields                                  *)
(*                                                                         *)
(*    topic, pUuid, nUuid  (strings in the code)  and  addr.               *)
(*                                                                         *)
(* Every operator below is a pure function of a storage.                   *)
(***************************************************************************)

\* The publishers of a topic, with the processes as their field pUuid.
Publishers(s, topic) == { pub \in s : pub.topic = topic }

\* A topic is present when at least one publisher is stored for it.
HasTopic(s, topic) == Publishers(s, topic) # {}

\* Some node of the process publishes the topic.
HasAnyPublishers(s, topic, pUuid) ==
    \E pub \in s : pub.topic = topic /\ pub.pUuid = pUuid

\* The entries one node has under a topic.  Publisher() returns the first of
\* them; no caller stores two of one node with different addresses.
ByNode(s, topic, pUuid, nUuid) ==
    { pub \in s : pub.topic = topic /\ pub.pUuid = pUuid /\ pub.nUuid = nUuid }

\* Everything one process publishes.
PublishersByProc(s, pUuid) == { pub \in s : pub.pUuid = pUuid }

\* Everything one node publishes.
PublishersByNode(s, pUuid, nUuid) ==
    { pub \in s : pub.pUuid = pUuid /\ pub.nUuid = nUuid }

\* Some entry has this address, under any topic.
HasPublisher(s, addr) == \E pub \in s : pub.addr = addr

\* AddPublisher returns false, and stores nothing, when the process already
\* has an entry of the same node and address under the topic, whatever the
\* other fields (scope, message types) say.
CanAdd(s, pub) ==
    ~ \E old \in s : /\ old.topic = pub.topic
                     /\ old.pUuid = pub.pUuid
                     /\ old.addr = pub.addr
                     /\ old.nUuid = pub.nUuid

AddPublisher(s, pub) == IF CanAdd(s, pub) THEN s \cup {pub} ELSE s

DelPublisherByNode(s, topic, pUuid, nUuid) == s \ ByNode(s, topic, pUuid, nUuid)

DelPublishersByProc(s, pUuid) == s \ PublishersByProc(s, pUuid)

\* The keys of the outer map.
TopicList(s) == { pub.topic : pub \in s }
=============================================================================
