----------------------------- MODULE TopicNames -----------------------------
(***************************************************************************)
(* Names of topics (src/aerozen/topic_utils.cpp): made valid, fully        *)
(* qualified, put into a liveliness token and taken out of it by another   *)
(* process, and listed by the nodes of a partition (Node::TopicList).      *)
(*                                                                         *)
(* A name is a sequence of characters, so that what is done to them can be *)
(* said; those that the code does not treat specially are all alike.       *)
(***************************************************************************)
EXTENDS Integers, FiniteSets, Sequences, SequencesExt

CONSTANTS
    GivenPartitions, GivenNamespaces, GivenTopics,  \* what users pass
    GivenTypes,         \* the message types of a topic or a service, in order
    MaxNameLength

VARIABLES
    stage,      \* what has been done so far
    given,      \* [partition, ns, topic, types]
    name,       \* the fully qualified name, or NoName
    token,      \* the liveliness token
    entity      \* what the other process understood, or NoParts

vars == <<stage, given, name, token, entity>>

NoName == <<>>            \* of an operation that failed
NoParts == [topic |-> <<>>]
Slash == <<"/">>

Init ==
    /\ stage = "start"
    /\ given = NoParts /\ name = NoName /\ token = <<>> /\ entity = NoParts

Has(s, sub) == sub \in SubSeqs(s)
Starts(s, c) == s # <<>> /\ Head(s) = c
Ends(s, c) == s # <<>> /\ Last(s) = c

\* The pieces of s between the characters c, one more than there are of them.
Split(s, c) ==
    LET cuts == {0, Len(s) + 1} \cup {i \in 1..Len(s) : s[i] = c}
        cut(k) == CHOOSE i \in cuts : Cardinality({j \in cuts : j < i}) = k - 1
    IN  [k \in 1..Cardinality(cuts) - 1 |-> SubSeq(s, cut(k) + 1, cut(k + 1) - 1)]

Join(pieces, c) ==
    FlattenSeq([i \in 1..Len(pieces) |-> IF i = 1 THEN pieces[i] ELSE <<c>> \o pieces[i]])

-----------------------------------------------------------------------------
(***************************************************************************)
(* Validity, and fully qualified names.                                    *)
(***************************************************************************)
IsValidNamespace(s) ==
    /\ Len(s) <= MaxNameLength
    /\ s # Slash
    /\ \A sub \in {<<"~">>, <<" ">>, <<"/", "/">>, <<"@">>, <<":", "=">>} : ~Has(s, sub)

IsValidPartition(s) == IsValidNamespace(s)
IsValidTopic(s) == IsValidNamespace(s) /\ s # <<>>

\* One pass from the left: of ":=" and "//" both characters go.
AsValidTopic(s) ==
    LET at(i) == IF i \in 1..Len(s) THEN s[i] ELSE "end"
        cleaned[i \in 1..Len(s) + 2] ==
            CASE i > Len(s) -> <<>>
              [] at(i) = " " -> <<"_">> \o cleaned[i + 1]
              [] at(i) \in {"@", "~"} -> cleaned[i + 1]
              [] \/ at(i) = ":" /\ at(i + 1) = "="
                 \/ at(i) = "/" /\ at(i + 1) = "/" -> cleaned[i + 2]
              [] OTHER -> <<at(i)>> \o cleaned[i + 1]
    IN  IF IsValidTopic(cleaned[1]) THEN cleaned[1] ELSE <<>>

WithFront(s) == IF Starts(s, "/") THEN s ELSE Slash \o s
WithBack(s) == IF Ends(s, "/") THEN s ELSE s \o Slash
WithoutBack(s) == IF Ends(s, "/") THEN Front(s) ELSE s

\* Slip: no slash is put in front.
PartitionPartUnslashed(p) == WithoutBack(p)

PartitionPart(p) == IF p = <<>> THEN p ELSE WithoutBack(WithFront(p))

FullyQualifiedName(partition, ns, topic) ==
    LET short == WithoutBack(topic)
        long == IF Starts(short, "/") THEN short ELSE WithFront(WithBack(ns)) \o short
        full == <<"@">> \o PartitionPart(partition) \o <<"@">> \o long
    IN  IF /\ IsValidPartition(partition) /\ IsValidNamespace(ns) /\ IsValidTopic(topic)
           /\ Len(full) <= MaxNameLength
        THEN full ELSE NoName

DecomposeFullyQualifiedTopic(full) ==
    LET pieces == Split(full, "@")
        partition == Join(SubSeq(pieces, 2, Len(pieces) - 1), "@")
        topic == Last(pieces)
    IN  IF /\ Starts(full, "@") /\ Len(pieces) > 2 /\ topic # <<>>
           /\ IsValidPartition(partition) /\ IsValidTopic(topic)
        THEN [partition |-> partition, topic |-> topic] ELSE NoParts

-----------------------------------------------------------------------------
(***************************************************************************)
(* Liveliness tokens.                                                      *)
(***************************************************************************)
Prefix == <<"@", "g", "z">>
Unused == <<"%">>
ProcUuid == <<"p">>
NodeUuid == <<"n">>
Kind == <<"M", "P">>

MangleName(s) == ReplaceAll(s, "/", "%")
DemangleName(s) == ReplaceAll(s, "%", "/")

MangleType(types) ==
    IF types = <<>> \/ \E t \in ToSet(types) : t = <<>> \/ Contains(t, "&")
    THEN <<>> ELSE Join(types, "&")

DemangleType(s) ==
    IF \E t \in ToSet(Split(s, "&")) : t = <<>> THEN <<>> ELSE Split(s, "&")

\* A message has one type, which is taken as it is; a service has two.
TypeField(types) == IF Len(types) = 1 THEN types[1] ELSE MangleType(types)
TypeParts(field, n) ==
    IF n = 1 THEN <<field>>
    ELSE IF Len(DemangleType(field)) = n THEN DemangleType(field) ELSE <<>>

\* Of an invalid topic only the end of the token is left.  A service's types may not be
\* empty; that of a message is not looked at.
CreateLivelinessToken(full, types) ==
    LET d == DecomposeFullyQualifiedTopic(full)
        head == IF d = NoParts THEN <<>>
                ELSE <<Prefix, MangleName(d.partition), ProcUuid, NodeUuid, NodeUuid,
                       Kind, Unused, Unused, Unused, MangleName(d.topic)>>
    IN  IF Len(types) # 1 /\ TypeField(types) = <<>> THEN <<>>
        ELSE Join(head \o <<TypeField(types), Unused, Unused>>, "/")

\* No field may be empty but the types and the last.
DecomposeLivelinessToken(s, n) ==
    LET f == Split(s, "/")
    IN  IF \/ Len(f) # 13 \/ ~Starts(s, "@") \/ \E i \in (2..10) \cup {12} : f[i] = <<>>
           \/ ~IsValidPartition(DemangleName(f[2])) \/ ~IsValidTopic(DemangleName(f[10]))
           \/ TypeParts(f[11], n) = <<>>
        THEN NoParts
        ELSE [partition |-> DemangleName(f[2]), topic |-> DemangleName(f[10]),
              pUuid |-> f[3], nUuid |-> f[4], kind |-> f[6], types |-> TypeParts(f[11], n)]

-----------------------------------------------------------------------------
(***************************************************************************)
(* A name's way.                                                           *)
(***************************************************************************)
Give(partition, ns, topic, types) ==
    /\ stage = "start"
    /\ given' = [partition |-> partition, ns |-> ns, topic |-> topic, types |-> types]
    /\ stage' = "given"
    /\ UNCHANGED <<name, token, entity>>

Clean ==
    /\ stage = "given"
    /\ given' = [given EXCEPT !.topic = AsValidTopic(@)]
    /\ stage' = "clean"
    /\ UNCHANGED <<name, token, entity>>

Qualify ==
    /\ stage \in {"given", "clean"}
    /\ name' = FullyQualifiedName(given.partition, given.ns, given.topic)
    /\ stage' = IF name' = NoName THEN "refused" ELSE "qualified"
    /\ UNCHANGED <<given, token, entity>>

Declare ==
    /\ stage = "qualified"
    /\ token' = CreateLivelinessToken(name, given.types)
    /\ stage' = "declared"
    /\ UNCHANGED <<given, name, entity>>

Understand ==
    /\ stage = "declared" /\ token # <<>>
    /\ entity' = DecomposeLivelinessToken(token, Len(given.types))
    /\ stage' = "understood"
    /\ UNCHANGED <<given, name, token>>

Next ==
    \/ \E p \in GivenPartitions, n \in GivenNamespaces, t \in GivenTopics,
          types \in GivenTypes : Give(p, n, t, types)
    \/ Clean \/ Qualify \/ Declare \/ Understand

Spec == Init /\ [][Next]_vars

\* Node::TopicList: the topic is listed by a node of a partition if this is the
\* name's without its slash, as it was given to the node.
Lists(partition, full) ==
    LET d == DecomposeFullyQualifiedTopic(full)
    IN  d # NoParts /\ partition = IF d.partition = <<>> THEN <<>> ELSE Tail(d.partition)

\* Node::ServiceList takes the partition out by itself.
ListsService(partition, full) ==
    LET part == SubSeq(full, 2, SelectLastInSeq(full, LAMBDA c : c = "@") - 1)
    IN  partition = IF part = <<>> THEN <<>> ELSE Tail(part)

-----------------------------------------------------------------------------
(***************************************************************************)
(* Properties.                                                             *)
(***************************************************************************)
Plain(partition) == ~Starts(partition, "/") /\ ~Ends(partition, "/")

\* Whatever parts it was made of, a fully qualified name is taken apart again
\* into parts that make the same name, and a node of the partition it was made
\* in lists it, as a topic or a service, other nodes do not; both fail for nodes
\* whose partition was given with a slash at an end, which list nothing
\* (topic_utils.cpp:101-133, :145-163, node.cpp:800-805, :819-828).  AsValidTopic
\* refuses no valid name.
NamesSurvive ==
    /\ stage \in {"qualified", "declared", "understood"} =>
          LET d == DecomposeFullyQualifiedTopic(name)
          IN  /\ d # NoParts
              /\ FullyQualifiedName(d.partition, given.ns, d.topic) = name
              /\ \A p \in GivenPartitions : Plain(p) =>
                    LET same == PartitionPart(p) = PartitionPart(given.partition)
                    IN  (Lists(p, name) <=> same) /\ (ListsService(p, name) <=> same)
    /\ stage = "given" /\ IsValidTopic(given.topic) => AsValidTopic(given.topic) = given.topic
    /\ stage = "clean" => given.topic = <<>> \/ IsValidTopic(given.topic)

\* What one process declares another understands, unless the partition is
\* empty or a name has a percent sign (topic_utils.cpp:187, :431, :437).
TokensSurvive ==
    stage = "understood" /\ given.partition # <<>> /\ ~Contains(name, "%") =>
        /\ entity # NoParts
        /\ FullyQualifiedName(entity.partition, <<>>, entity.topic) = name
        /\ entity.types = given.types
        /\ <<entity.pUuid, entity.nUuid, entity.kind>> = <<ProcUuid, NodeUuid, Kind>>
=============================================================================
