--------------------------- MODULE HandlerStorage ---------------------------
(***************************************************************************)
(* HandlerStorage (src/aerozen/handler_storage.hpp): handlers by topic,    *)
(* node and identifier, as a set of records with at least these fields.    *)
(* The maps of the code never keep an empty inner map, so that an entry    *)
(* for a topic or a node is the same as a handler of it.                   *)
(***************************************************************************)
LOCAL INSTANCE FiniteSets

Handlers(H, topic) == {h \in H : h.topic = topic}
HandlersOfNode(H, topic, node) == {h \in H : h.topic = topic /\ h.node = node}

HasHandlersForTopic(H, topic) == Handlers(H, topic) # {}
HasHandlersForNode(H, topic, node) == HandlersOfNode(H, topic, node) # {}

\* Those that FirstHandler takes one of, for a service: both types must match.
RepliersOf(H, topic, req, rep) ==
    {h \in Handlers(H, topic) : h.req = req /\ h.rep = rep}

\* Handler: the one with an identifier.
Handler(H, topic, node, id) ==
    {h \in HandlersOfNode(H, topic, node) : h.id = id}

AddHandler(H, handler) == H \cup {handler}

RemoveHandler(H, topic, node, id) == H \ Handler(H, topic, node, id)

RemoveHandlersForNode(H, topic, node) == H \ HandlersOfNode(H, topic, node)
=============================================================================
