--------------------------- MODULE ServiceAnswers ---------------------------
(***************************************************************************)
(* What the caller of a service is told, by a responder of its own process *)
(* (Node::Request in src/aerozen/detail/node.hpp runs the callback itself, *)
(* RunLocalCallback) and by one of another process (RecvSrvRequest there   *)
(* runs it with RunCallback, NotifyResult here takes the bytes that come   *)
(* back).  One call; the way of the messages is that of module ServiceCall.*)
(***************************************************************************)
EXTENDS FiniteSets

CONSTANTS
    Responders, \* the handlers of the service, each advertised at most once
    Here,       \* those of the caller's process
    TypesOf,    \* a handler's types, [req, rep]
    Known,      \* the types that Factory::New makes messages of
    ReturnedBy  \* what its callback returns; the reply it fills in is named for it

VARIABLES
    offered, \* the handlers in the two storages of repliers
    used,    \* those that were advertised
    call,    \* where the call is, its form and types, and the handler it has
    seen,    \* the handlers there were since the call began
    told     \* what the caller is told

vars == <<offered, used, call, seen, told>>

Empty == "Empty"                \* the message type of one-way calls
AllTypes == {TypesOf[h] : h \in Responders}
NotExecuted == [executed |-> FALSE]
Told(result, reply) == [executed |-> TRUE, result |-> result, reply |-> reply]

Init ==
    /\ offered = {} /\ used = {} /\ seen = {}
    /\ call = [pc |-> "idle"]
    /\ told = NotExecuted

Goes(pc) == call' = [call EXCEPT !.pc = pc]

-----------------------------------------------------------------------------
\* Node::Advertise for services, UnadvertiseSrv.
Offer(h) ==
    /\ h \notin used
    /\ offered' = offered \cup {h} /\ used' = used \cup {h} /\ seen' = seen \cup {h}
    /\ UNCHANGED <<call, told>>

Withdraw(h) ==
    /\ h \in offered
    /\ offered' = offered \ {h}
    /\ UNCHANGED <<used, call, seen, told>>

FirstHandler(H, types) == {h \in H \cap offered : TypesOf[h] = types}

\* The lookup under the mutex; a handler found is a copy of the pointer.
Request(form, types) ==
    /\ call.pc = "idle"
    /\ seen' = offered
    /\ LET found == FirstHandler(Here, types)
           asked == [form |-> form, types |-> types]
       IN  call' \in IF found # {}
                     THEN {[asked |-> asked, pc |-> "found", handler |-> h] : h \in found}
                     ELSE {[asked |-> asked, pc |-> "sent"]}
    /\ UNCHANGED <<offered, used, told>>

\* RequestRaw: a waiting call with messages it makes from the types' names.
RequestRaw(types) == {types.req, types.rep} \subseteq Known /\ Request("raw", types)

\* Without the mutex, in the caller's thread.  What the callback wrote into the
\* reply stays there whatever it returns.
RunLocalCallback ==
    /\ call.pc = "found"
    /\ told' = Told(ReturnedBy[call.handler], call.handler)
    /\ Goes("done")
    /\ UNCHANGED <<offered, used, seen>>

\* RecvSrvRequest: a request for which there is no handler is dropped.
RecvSrvRequest ==
    /\ call.pc = "sent"
    /\ LET found == FirstHandler(Responders \ Here, call.asked.types)
       IN  call' \in IF found = {} THEN {[call EXCEPT !.pc = "dropped"]}
                     ELSE {[asked |-> call.asked, pc |-> "serving", handler |-> h] : h \in found}
    /\ UNCHANGED <<offered, used, seen, told>>

\* A failed call has no bytes, a one-way call no response.
RunCallback ==
    /\ call.pc = "serving"
    /\ IF call.asked.types.rep = Empty THEN Goes("dropped") ELSE Goes("responded")
    /\ UNCHANGED <<offered, used, seen, told>>

\* NotifyResult: a message made of the bytes for the callback; the caller that
\* waits parses them only if the result is true.
NotifyResult ==
    /\ call.pc = "responded"
    /\ LET result == ReturnedBy[call.handler]
           failed == IF call.asked.form = "waiting" THEN "as it was" ELSE ""
       IN  told' = Told(result, IF result THEN call.handler ELSE failed)
    /\ Goes("done")
    /\ UNCHANGED <<offered, used, seen>>

\* The caller that waits gives up.
Timeout ==
    /\ call.pc \in {"sent", "dropped", "serving", "responded"}
    /\ call.asked.form # "callback"
    /\ UNCHANGED told
    /\ Goes("done")
    /\ UNCHANGED <<offered, used, seen>>

Next ==
    \/ \E h \in Responders : Offer(h) \/ Withdraw(h)
    \/ \E types \in AllTypes :
          Request("callback", types) \/ Request("waiting", types) \/ RequestRaw(types)
    \/ RunLocalCallback \/ RecvSrvRequest \/ RunCallback \/ NotifyResult \/ Timeout

Spec == Init /\ [][Next]_vars

-----------------------------------------------------------------------------
\* Wherever the responder is, whoever is told that the call was executed is
\* told the result, and if it is true the reply, of one callback that was
\* offered for both types since the call began, though it may be gone by now;
\* and nobody hears of a handler of another process that has no reply to give,
\* for which a caller that waits can only time out (detail/node.hpp:413, :419,
\* :540, :565; node_shared.cpp:697, :709; rep_handler.hpp:233).
AnswerOfOneOffered ==
    told.executed =>
        \E h \in seen :
            /\ TypesOf[h] = call.asked.types
            /\ told.result = ReturnedBy[h]
            /\ told.result => told.reply = h
            /\ h \in Here \/ call.asked.types.rep # Empty
=============================================================================
