----------------------------- MODULE Factories ------------------------------
(***************************************************************************)
(* The factory of messages by the name of their type                       *)
(* (src/aerozen/message_factory.cpp, dynamic_factory.cpp; the class        *)
(* Factory is one such object of the process): types are registered by the *)
(* generated code or come from files of descriptors.  Protobuf's pool is   *)
(* external: it takes a descriptor file whose imports it has and whose     *)
(* types are new, or which it has already.                                 *)
(***************************************************************************)
EXTENDS Integers, Sequences, FiniteSets, SequencesExt

CONSTANTS
    Registered, \* the types generated code registers
    Files,      \* what can be loaded: [readable, protos], protos a sequence of
                \* descriptor files [name, types, imports]
    Converted   \* for the old spellings of type names, the one New looks for

VARIABLES
    msgMap,        \* MessageFactory: the registered types
    pool,          \* DynamicFactory: the descriptor files placed in the pool,
    db,            \* those in the database of names,
    dynamicMsgMap, \* and the types made once, with the file they come from
    made           \* what the last New returned

vars == <<msgMap, pool, db, dynamicMsgMap, made>>

Null == "null"
TypesIn(protos) == UNION {p.types : p \in protos}
AllTypes == Registered \cup UNION {TypesIn({f.protos[i] : i \in DOMAIN f.protos}) : f \in Files}
Spelled(type) == IF type \in DOMAIN Converted THEN Converted[type] ELSE type

\* DescriptorPool::BuildFile
Builds(in, proto) ==
    \/ proto \in in
    \/ /\ \A p \in in : p.name # proto.name /\ p.types \cap proto.types = {}
       /\ proto.imports \subseteq {p.name : p \in in}

\* Slip: the names are listed whatever the pool says.
AddAnyway(factory, proto) ==
    [pool |-> IF Builds(factory.pool, proto) THEN factory.pool \cup {proto} ELSE factory.pool,
     db |-> factory.db \cup {proto}]

\* One that does not build is reported, and the next one tried.
Add(factory, proto) ==
    IF Builds(factory.pool, proto)
    THEN [pool |-> factory.pool \cup {proto}, db |-> factory.db \cup {proto}]
    ELSE factory

Init ==
    /\ msgMap = {} /\ pool = {} /\ db = {} /\ dynamicMsgMap = <<>>
    /\ made = [type |-> Null, from |-> Null]

Register(type) ==
    /\ msgMap' = msgMap \cup {type}
    /\ UNCHANGED <<pool, db, dynamicMsgMap, made>>

\* A file that has another extension or cannot be opened or parsed is passed over.
LoadDescFile(factory, file) ==
    LET loaded[n \in 0..Len(file.protos)] ==
            IF n = 0 THEN factory ELSE Add(loaded[n - 1], file.protos[n])
    IN  IF file.readable THEN loaded[Len(file.protos)] ELSE factory

\* The files of a directory, in whatever order it has them.
LoadDescriptors(files) ==
    LET loaded[n \in 0..Len(files)] ==
            IF n = 0 THEN [pool |-> pool, db |-> db]
            ELSE LoadDescFile(loaded[n - 1], files[n])
    IN  /\ pool' = loaded[Len(files)].pool
        /\ db' = loaded[Len(files)].db
        /\ UNCHANGED <<msgMap, dynamicMsgMap, made>>

\* DynamicFactory::New
Origins(type) == {p.name : p \in {q \in pool : type \in q.types}}

DynamicNew(type) ==
    IF type \in DOMAIN dynamicMsgMap
    THEN /\ made' = [type |-> type, from |-> dynamicMsgMap[type]]
         /\ UNCHANGED dynamicMsgMap
    ELSE IF Origins(type) = {}
    THEN /\ made' = [type |-> type, from |-> Null]
         /\ UNCHANGED dynamicMsgMap
    ELSE LET origin == CHOOSE o \in Origins(type) : TRUE
         IN  /\ made' = [type |-> type, from |-> origin]
             /\ dynamicMsgMap' =
                    [t \in DOMAIN dynamicMsgMap \cup {type} |->
                        IF t = type THEN origin ELSE dynamicMsgMap[t]]

\* MessageFactory::New
New(type) ==
    /\ IF Spelled(type) \in msgMap
       THEN /\ made' = [type |-> Spelled(type), from |-> "registered"]
            /\ UNCHANGED dynamicMsgMap
       ELSE DynamicNew(Spelled(type))
    /\ UNCHANGED <<msgMap, pool, db>>

\* MessageFactory::Types
Types == msgMap \cup TypesIn(db)

Next ==
    \/ \E type \in Registered : Register(type)
    \/ \E S \in SUBSET Files : \E files \in SetToSeqs(S) : LoadDescriptors(files)
    \/ \E type \in AllTypes \cup DOMAIN Converted : New(type)

Spec == Init /\ [][Next]_vars

-----------------------------------------------------------------------------
\* Whatever files were loaded in whatever order: every type listed can be made,
\* unless it is spelled in a way New converts, and only from one place; and all
\* that its file imports was loaded too (dynamic_factory.cpp:103, :130, :151;
\* message_factory.cpp:40, :92).
ListedIsMade ==
    /\ \A type \in Types : type \notin DOMAIN Converted =>
          type \in msgMap \/ Cardinality(Origins(type)) = 1
    /\ \A p \in pool : p.imports \subseteq {q.name : q \in pool}
    /\ \A type \in DOMAIN dynamicMsgMap : dynamicMsgMap[type] \in Origins(type)
=============================================================================
