-------------------------- MODULE PublisherRecords --------------------------
(***************************************************************************)
(* The record of a publisher or of a service's responder and its options   *)
(* (src/aerozen/publisher.cpp, advertise_options.cpp), sent to the other   *)
(* processes in the discovery messages (Discovery::SendMsg) and read there *)
(* into a new record.  A record has its options twice: those of the class  *)
(* Publisher, of which only the scope is used, when the record is sent     *)
(* (scope), and those of the class for messages or services (opts), which  *)
(* Options() returns and SetOptions() sets.                                *)
(***************************************************************************)
EXTENDS Integers

CONSTANTS
    RecordNames, \* [topic, ids, own]: the topic, the address and the two uuids,
                 \* and control address and type, or socket id and types
    Rates        \* messages per second, among them Unthrottled

VARIABLES
    pub, \* the publisher's record
    sent,\* what it was when it was sent (for the property)
    msg, \* the message on its way
    got  \* the record another process has made of it

vars == <<pub, sent, msg, got>>

Scopes == {"PROCESS", "HOST", "ALL"}
Unthrottled == -1 \* kUnthrottled, the largest number of 64 bits
EmptyNames == [topic |-> "", ids |-> "", own |-> ""]

\* A service has no rate.
Options(kind) == [scope : Scopes, rate : IF kind = "message" THEN Rates ELSE {Unthrottled}]
DefaultOptions == [scope |-> "ALL", rate |-> Unthrottled]
Throttled(opts) == opts.rate # Unthrottled

Record(kind, names, opts) ==
    [kind |-> kind, names |-> names, scope |-> opts.scope, opts |-> opts]

EmptyRecord(kind) == Record(kind, EmptyNames, DefaultOptions)

SetOptions(p, opts) == [p EXCEPT !.opts = opts]

FillPublisher(p) == [names |-> p.names, scope |-> p.scope]

FillMessage(p) ==
    [base |-> FillPublisher(p), throttled |-> Throttled(p.opts), rate |-> p.opts.rate]

FillService(p) == [base |-> FillPublisher(p)]

FillDiscovery(p) == IF p.kind = "message" THEN FillMessage(p) ELSE FillService(p)

SetFromPublisher(p, base) == [p EXCEPT !.names = base.names, !.scope = base.scope]

SetFromMessage(p, m) ==
    [SetFromPublisher(p, m.base) EXCEPT
        !.opts = [scope |-> m.base.scope,
                  rate |-> IF m.throttled THEN m.rate ELSE Unthrottled]]

SetFromService(p, m) ==
    [SetFromPublisher(p, m.base) EXCEPT !.opts.scope = m.base.scope]

SetFromDiscovery(p, m) ==
    IF p.kind = "message" THEN SetFromMessage(p, m) ELSE SetFromService(p, m)

\* Equal by the classes' operators: Options() is virtual, but what it returns is
\* compared as AdvertiseOptions, which have no rate.
Same(p, q) == p.kind = q.kind /\ p.names = q.names /\ p.opts.scope = q.opts.scope

-----------------------------------------------------------------------------
Nothing == [none |-> TRUE]

Init ==
    /\ pub \in {EmptyRecord(kind) : kind \in {"message", "service"}}
    /\ sent = pub /\ msg = Nothing /\ got = EmptyRecord(pub.kind)

Construct(names, opts) ==
    /\ pub' = Record(pub.kind, names, opts)
    /\ UNCHANGED <<sent, msg, got>>

ChangeOptions(opts) ==
    /\ pub' = SetOptions(pub, opts)
    /\ UNCHANGED <<sent, msg, got>>

\* SendMsg, for the kinds of messages the receiver makes a record of.
Send ==
    /\ msg = Nothing
    /\ msg' = FillDiscovery(pub) /\ sent' = pub
    /\ UNCHANGED <<pub, got>>

\* DispatchDiscoveryMsg, which starts from an empty record.
Receive ==
    /\ msg # Nothing
    /\ got' = SetFromDiscovery(EmptyRecord(pub.kind), msg)
    /\ msg' = Nothing
    /\ UNCHANGED <<pub, sent>>

\* NodeShared::OnNewConnection asks the publisher for messages with a copy of
\* the publisher's record, in which the uuids and the control address are its own.
CopyReceived(names) ==
    /\ names.topic = got.names.topic
    /\ pub' = [got EXCEPT !.names = names]
    /\ UNCHANGED <<sent, msg, got>>

Next ==
    \/ \E names \in RecordNames : CopyReceived(names) \/
          \E opts \in Options(pub.kind) : Construct(names, opts)
    \/ \E opts \in Options(pub.kind) : ChangeOptions(opts)
    \/ Send \/ Receive

Spec == Init /\ [][Next]_vars

-----------------------------------------------------------------------------
\* The record another process makes has the names and the options of the one that was
\* sent, whatever became of that since, with one scope for two: it is the one the
\* record was constructed with, so that the two are equal unless SetOptions gave the
\* publisher another, which it then alone acts by (publisher.cpp:81, :103, :120, :162, :174).
RecordsSurvive ==
    msg = Nothing =>
        /\ got.names = sent.names /\ got.scope = sent.scope
        /\ got.opts = [sent.opts EXCEPT !.scope = sent.scope]
        /\ Same(got, sent) <=> sent.opts.scope = sent.scope
=============================================================================
