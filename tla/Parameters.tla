----------------------------- MODULE Parameters -----------------------------
(***************************************************************************)
(* A registry of parameters (src/aerozen/parameters/registry.cpp) with its *)
(* users in the same process, and clients (client.cpp) that reach it with  *)
(* service requests.                                                       *)
(*                                                                         *)
(* Every operation on the map holds parametersMapMutex from its first read *)
(* to its last write, so that it is one step.  What a client asks for is   *)
(* executed while its Request waits, after the wait timed out, or not at   *)
(* all: what is lost stays in requests or responses (module ServiceCall).  *)
(***************************************************************************)
EXTENDS Integers, FiniteSets, TLC

CONSTANTS
    Names,      \* parameter names
    MessageTypes, \* message types
    KnownTypes, \* those that Factory::New makes messages of
    Contents,   \* what the messages of a type differ in
    Unparsable, \* those of messages that can be packed but not unpacked
    Clients,    \* the clients
    MaxCalls,   \* bound: calls of one client
    MaxLocal    \* bound: calls in the process that change the map

ASSUME ParametersAssumption ==
    /\ KnownTypes \subseteq MessageTypes /\ Unparsable \subseteq Contents
    /\ {MaxCalls, MaxLocal} \subseteq Nat

VARIABLES
    parametersMap,  \* from names to messages
    client,         \* client[c]: the call that c is in, or its result
    requests,       \* requests that may still be executed, [client, id, op, name, msg]
    responses,      \* responses on their way
    localCalls,     \* calls in the process so far
    applied,        \* requests that were done or changed the map
    current         \* current[c]: what the parameter asked for has been since
                    \* the call of c began, or the declarations to be listed

vars == <<parametersMap, client, requests, responses, localCalls, applied, current>>

Message == [type : MessageTypes, content : Contents]
NoMessage == [type |-> "none"]

Has(name) == name \in DOMAIN parametersMap
ValueOf(map, name) == IF name \in DOMAIN map THEN map[name] ELSE NoMessage
Declarations(map) == [typeOf |-> {<<n, map[n].type>> : n \in DOMAIN map}]

Operations == {"get", "set", "declare"}

\* ListParameters has no parameter's name.
AnyName == CHOOSE n \in Names : TRUE

Idle(id) == [at |-> "idle", id |-> id]

Init ==
    /\ parametersMap = [n \in {} |-> NoMessage]
    /\ client = [c \in Clients |-> Idle(0)]
    /\ requests = {} /\ responses = {}
    /\ localCalls = 0
    /\ applied = {}
    /\ current = [c \in Clients |-> {}]

-----------------------------------------------------------------------------
(***************************************************************************)
(* The map.  An operation yields the new map and the answer.               *)
(***************************************************************************)
Outcome(map, result) == [map |-> map, result |-> result, msg |-> NoMessage]

\* emplace: a parameter that is there stays as it is.
Emplace(name, msg) ==
    IF Has(name) THEN Outcome(parametersMap, "ALREADY_DECLARED")
    ELSE Outcome(parametersMap @@ (name :> msg), "SUCCESS")

\* A value of another type than the declared one is refused.
Assign(name, msg) ==
    IF ~Has(name) THEN Outcome(parametersMap, "NOT_DECLARED")
    ELSE IF parametersMap[name].type # msg.type
    THEN Outcome(parametersMap, "INVALID_TYPE")
    ELSE Outcome([parametersMap EXCEPT ![name] = msg], "SUCCESS")

\* DeclareParameter of the registry, given a message.
DeclareOwned(name, msg) == Emplace(name, msg)

\* DeclareParameter of the registry, given a reference: it copies the message,
\* which it can for known types only, and does not pass on what the other
\* overload returned.
DeclareCopy(name, msg) ==
    IF msg.type \notin KnownTypes THEN Outcome(parametersMap, "Unexpected")
    ELSE [Emplace(name, msg) EXCEPT !.result = "SUCCESS"]

-----------------------------------------------------------------------------
(***************************************************************************)
(* The services.                                                           *)
(***************************************************************************)

\* The result of Request is false.
NoResult == "false"

Get(name) ==
    IF Has(name) THEN [Outcome(parametersMap, "SUCCESS") EXCEPT
                            !.msg = parametersMap[name]]
    ELSE Outcome(parametersMap, NoResult)

List == [Outcome(parametersMap, "SUCCESS") EXCEPT !.msg = Declarations(parametersMap)]

Unpacks(msg) == msg.content \notin Unparsable

\* The value is unpacked into the message that the map holds: when this fails, what
\* was parsed of it has taken the place of the old content.
Set(name, msg) ==
    LET done == Assign(name, msg)
    IN  IF done.result = "SUCCESS" /\ ~Unpacks(msg)
        THEN {Outcome([parametersMap EXCEPT ![name].content = parsed], NoResult) :
                 parsed \in Contents}
        ELSE {done}

Declare(name, msg) ==
    IF msg.type \notin KnownTypes THEN Outcome(parametersMap, "INVALID_TYPE")
    ELSE IF ~Unpacks(msg) THEN Outcome(parametersMap, NoResult)
    ELSE Emplace(name, msg)

Executed(r) ==
    CASE r.op = "get"     -> {Get(r.name)}
      [] r.op = "list"    -> {List}
      [] r.op = "set"     -> Set(r.name, r.msg)
      [] r.op = "declare" -> {Declare(r.name, r.msg)}

\* What a client that waits for a value or the declarations may be told.
Readable(map, op, name) == IF op = "list" THEN Declarations(map) ELSE ValueOf(map, name)
Seen(map) ==
    [c \in Clients |->
        IF client[c].at = "waiting"
        THEN current[c] \cup {Readable(map, client[c].op, client[c].name)} ELSE current[c]]

Serve(r) ==
    \E outcome \in Executed(r) :
        /\ r \in requests
        /\ requests' = requests \ {r}
        /\ parametersMap' = outcome.map
        /\ applied' = IF \/ r.op \in {"set", "declare"} /\ outcome.result = "SUCCESS"
                         \/ outcome.map # parametersMap
                      THEN applied \cup {r} ELSE applied
        /\ responses' = responses \cup
                {[to |-> r, result |-> outcome.result, msg |-> outcome.msg]}
        /\ current' = Seen(outcome.map)
        /\ UNCHANGED <<client, localCalls>>

-----------------------------------------------------------------------------
(***************************************************************************)
(* The users in the process of the registry.                               *)
(***************************************************************************)
Local(outcome) ==
    /\ localCalls < MaxLocal
    /\ localCalls' = localCalls + 1
    /\ parametersMap' = outcome.map
    /\ parametersMap' # parametersMap       \* otherwise of no effect
    /\ current' = Seen(outcome.map)
    /\ UNCHANGED <<client, requests, responses, applied>>

LocalCall(name, msg) ==
    \/ Local(DeclareOwned(name, msg))
    \/ Local(DeclareCopy(name, msg))
    \/ Local(Assign(name, msg))

-----------------------------------------------------------------------------
(***************************************************************************)
(* The clients.                                                            *)
(***************************************************************************)
Call(c, op, name, msg) ==
    LET r == [client |-> c, id |-> client[c].id + 1, op |-> op, name |-> name,
              msg |-> msg]
    IN  /\ client[c].at # "waiting"
        /\ client[c].id < MaxCalls
        /\ msg = NoMessage <=> op \in {"get", "list"}
        /\ requests' = requests \cup {r}
        /\ client' = [client EXCEPT ![c] =
                        [at |-> "waiting", id |-> r.id, op |-> op, name |-> name,
                         msg |-> msg]]
        /\ current' = [current EXCEPT ![c] = {Readable(parametersMap, op, name)}]
        /\ UNCHANGED <<parametersMap, responses, localCalls, applied>>

\* What the client returns.  Parameter() does not look at what
\* getParameterCommon returned: without a value, whether the parameter is not
\* declared or the request timed out, the type of the empty answer fails.  It
\* unpacks the value that it was sent.
\* ListParameters throws after a timeout, the others have a result for it.
ResultOf(r, result, msg) ==
    CASE result = NoResult  -> "Unexpected"
      [] result = "timeout" -> IF r.op = "get" THEN "Unexpected" ELSE "ClientTimeout"
      [] result = "SUCCESS" -> IF r.op = "get" /\ ~Unpacks(msg) THEN "Unexpected" ELSE result
      [] OTHER              -> result

Return(c, result, msg) ==
    /\ client' = [client EXCEPT ![c] =
            [at |-> "returned", id |-> @.id, op |-> @.op, name |-> @.name,
             msg |-> @.msg, result |-> ResultOf(@, result, msg), value |-> msg]]
    /\ UNCHANGED <<parametersMap, requests, localCalls, applied, current>>

\* Slip: any response to this client ends its wait.
AnswersAny(response, c) == response.to.client = c

\* The handler of a request is known by the identifier in its response.
Answers(response, c) == response.to.client = c /\ response.to.id = client[c].id

Receive(c) ==
    \E response \in responses :
        /\ response.to.client = c
        /\ responses' = responses \ {response}
        /\ IF client[c].at = "waiting" /\ Answers(response, c)
           THEN Return(c, response.result, response.msg)
           ELSE UNCHANGED <<parametersMap, client, requests, localCalls, applied,
                            current>>

Timeout(c) ==
    /\ client[c].at = "waiting"
    /\ Return(c, "timeout", NoMessage)
    /\ UNCHANGED responses

Next ==
    \/ \E r \in requests : Serve(r)
    \/ \E n \in Names, m \in Message : LocalCall(n, m)
    \/ \E c \in Clients :
        \/ \E op \in Operations, n \in Names, m \in Message \cup {NoMessage} :
              Call(c, op, n, m)
        \/ Call(c, "list", AnyName, NoMessage)
        \/ Receive(c) \/ Timeout(c)

Spec == Init /\ [][Next]_vars

-----------------------------------------------------------------------------
(***************************************************************************)
(* Properties.                                                             *)
(***************************************************************************)
RequestOf(c) == [client |-> c, id |-> client[c].id, op |-> client[c].op,
                 name |-> client[c].name, msg |-> client[c].msg]

\* What a client is told is true: after Success of a set or a declaration it
\* has been done, after a refusal it has not and never will be; after a
\* timeout it may yet be (client.cpp:138, registry.cpp:145).  Unexpected, said of a set,
\* is no refusal: it is the answer to a value that cannot be unpacked, and the parameter
\* may have been changed by the attempt, which is over (registry.cpp:164).
ToldTheTruth ==
    \A c \in Clients :
        client[c].at = "returned" /\ client[c].op \in {"set", "declare"} =>
            CASE client[c].result = "SUCCESS" -> RequestOf(c) \in applied
              [] client[c].result = "ClientTimeout" -> TRUE
              [] client[c].result = "Unexpected" /\ client[c].op = "set" ->
                     ~Unpacks(client[c].msg) /\ RequestOf(c) \notin requests
              [] OTHER -> RequestOf(c) \notin applied \cup requests

\* What a client reads, a value or the list of all declarations, is what the map
\* had between the call and its return, not one that an earlier request of this
\* client, timed out since, was answered with (client.cpp:60, registry.cpp:117).
ReadIsCurrent ==
    \A c \in Clients :
        client[c].at = "returned" /\ client[c].op \in {"get", "list"}
            /\ client[c].result = "SUCCESS" => client[c].value \in current[c]
=============================================================================
