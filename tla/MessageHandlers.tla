-------------------------- MODULE MessageHandlers ---------------------------
(***************************************************************************)
(* What the handlers of a topic make of one message                        *)
(* (src/aerozen/subscription_handler.hpp): of the object a publisher of    *)
(* the process gives (PublishThread), or of the bytes that PublishRaw, the *)
(* reception thread (NodeShared::TriggerCallbacks) or Zenoh brings.  Who   *)
(* is in the list, and when, is the matter of module PubQueue, throttling  *)
(* that of module Throttling.                                              *)
(***************************************************************************)
EXTENDS FiniteSets

CONSTANTS
    Typed,    \* handlers made for one type: SubscriptionHandler<T>
    Generic,  \* handlers for any: SubscriptionHandler<ProtoMsg>
    Raw,      \* handlers of bytes: RawSubscriptionHandler
    Throwing, \* those whose callback may throw
    TypeOf,   \* a handler's TypeName(): of typed ones in Linked, of generic ones AnyType
    Linked,   \* the types of the generated pool
    Loaded    \* those the Factory has descriptors of

Handlers == Typed \cup Generic \cup Raw
AnyType == "google.protobuf.Message" \* kGenericMessageType

VARIABLES
    data,  \* the message: where it comes from, its type, whether it can be parsed
    msg,   \* the object the handlers share: of a class of its own (static) or not
    todo,  \* the handlers still to be looked at
    called,\* those whose callback was called
    thrown \* whether one of them threw

vars == <<data, msg, todo, called, thrown>>

NoMessage == "none"
Objects == {"static", "dynamic"}
Suits(h, type) == TypeOf[h] \in {type, AnyType}

Init ==
    /\ data = [from |-> "nowhere"]
    /\ msg = NoMessage
    /\ todo = {} /\ called = {} /\ thrown = FALSE

\* Slip: the Factory comes first.
LoadedClassOf(type) ==
    IF type \in Loaded THEN "dynamic" ELSE IF type \in Linked THEN "static" ELSE NoMessage

\* CreateMsg of a generic handler: the generated pool comes first.
ClassOf(type) ==
    IF type \in Linked THEN "static" ELSE IF type \in Loaded THEN "dynamic" ELSE NoMessage

\* Only a generic handler minds bytes it cannot parse.
CreateMsg(h) ==
    CASE h \in Typed   -> "static"
      [] h \in Generic -> IF data.parses THEN ClassOf(data.type) ELSE NoMessage

\* Node::Publisher::Publish: an object, of a type of the program or made by the
\* Factory; the handlers the message does not suit are left out.
Publish(type, object) ==
    /\ data.from = "nowhere"
    /\ data' = [from |-> "publisher", type |-> type, parses |-> TRUE]
    /\ msg' = object
    /\ todo' = {h \in Handlers : Suits(h, type)}
    /\ UNCHANGED <<called, thrown>>

\* PublishRaw takes any bytes and sends them.
Arrive(from, type, parses) ==
    /\ data.from = "nowhere"
    /\ data' = [from |-> from, type |-> type, parses |-> parses]
    /\ todo' = Handlers
    /\ UNCHANGED <<msg, called, thrown>>

\* The order of the loops; Zenoh calls each handler by itself.
Turn(h) ==
    /\ h \in todo
    /\ CASE data.from = "publisher" -> todo \ Raw = {} \/ h \notin Raw
         [] data.from = "bytes"     -> todo \cap Raw = {} \/ h \in Raw
         [] data.from = "zenoh"     -> TRUE

\* PublishThread goes on when a callback throws, TriggerCallbacks does not.
Call(h) ==
    /\ called' = called \cup {h}
    /\ \E throws \in BOOLEAN :
          /\ throws => h \in Throwing
          /\ thrown' = (thrown \/ throws)
          /\ todo' = IF throws /\ data.from = "bytes" THEN {} ELSE todo \ {h}

NotCalled(h) == todo' = todo \ {h} /\ UNCHANGED <<called, thrown>>

RunRawCallback(h) ==
    /\ Turn(h) /\ h \in Raw
    /\ IF Suits(h, data.type) THEN Call(h) ELSE NotCalled(h)
    /\ UNCHANGED <<data, msg>>

NotSuitable(h) ==
    /\ Turn(h) /\ h \notin Raw
    /\ ~Suits(h, data.type)
    /\ NotCalled(h)
    /\ UNCHANGED <<data, msg>>

\* The first suitable handler makes the object the others are given too, but
\* for Zenoh, which comes to each with the bytes.
Object(h) == IF msg # NoMessage THEN msg ELSE CreateMsg(h)

Keep(object) == msg' = IF data.from = "zenoh" THEN NoMessage ELSE object

\* A typed handler casts the object to its class.
RunLocalCallback(h) ==
    /\ Turn(h) /\ h \notin Raw
    /\ Suits(h, data.type)
    /\ Object(h) # NoMessage
    /\ IF h \in Typed /\ Object(h) = "dynamic" THEN NotCalled(h) ELSE Call(h)
    /\ Keep(Object(h))
    /\ UNCHANGED data

\* If it cannot be made, none of the others is asked to.
GiveUp(h) ==
    /\ Turn(h) /\ h \notin Raw
    /\ Suits(h, data.type)
    /\ Object(h) = NoMessage
    /\ todo' = IF data.from = "zenoh" THEN todo \ {h} ELSE {}
    /\ UNCHANGED <<data, msg, called, thrown>>

Next ==
    \/ \E type \in Linked \cup Loaded \cup {"unknown"} :
          \/ \E object \in Objects :
                /\ object = "static" => type \in Linked
                /\ object = "dynamic" => type \in Loaded
                /\ Publish(type, object)
          \/ \E from \in {"bytes", "zenoh"}, parses \in BOOLEAN : Arrive(from, type, parses)
    \/ \E h \in Handlers :
          \/ RunRawCallback(h) \/ NotSuitable(h)
          \/ RunLocalCallback(h) \/ GiveUp(h)

Spec == Init /\ [][Next]_vars

-----------------------------------------------------------------------------
\* Who can be given the message, whatever the others are.
CanTake(h) ==
    \/ h \in Raw
    \/ data.from = "publisher" /\ (h \in Generic \/ msg = "static")
    \/ data.from # "publisher" /\ (h \in Typed \/ ClassOf(data.type) # NoMessage)

\* In whatever order the handlers come, a message that can be parsed reaches
\* every handler it suits that can take it, and no other, unless a callback of
\* TriggerCallbacks throws, for that ends the loop.  Of one that cannot be
\* parsed the order decides: the comment at node_shared.cpp:572 says none could
\* have made the object, but a typed handler that comes first does make it, and
\* everybody is called (subscription_handler.hpp:211, :338; node_shared.cpp:564,
\* :1810).
SuitableAreCalled ==
    data.from # "nowhere" =>
        LET takers == {h \in Handlers : Suits(h, data.type) /\ CanTake(h)}
        IN  /\ called \subseteq takers
            /\ todo = {} =>
                  \/ called = takers
                  \/ ~data.parses /\ takers \cap Raw \subseteq called
                  \/ data.from = "bytes" /\ thrown
=============================================================================
