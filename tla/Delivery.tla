------------------------------ MODULE Delivery ------------------------------
(***************************************************************************)
(* What subscribers of one topic are promised inside one process, without  *)
(* queues, threads and mutexes: a message is due to exactly the handlers   *)
(* registered when it is published, each handler is called with each       *)
(* message due to it once and in the order of each publisher's calls, and  *)
(* only an Unsubscribe of the handler itself may drop what is due.  Module *)
(* PubQueue implements it.                                                 *)
(***************************************************************************)
EXTENDS Naturals, Sequences

CONSTANTS
    Handler,      \* the subscription handlers
    Thread,       \* the publishing threads
    Wants(_, _)   \* Wants(m, h): whether h takes m, by its type and options

VARIABLES
    subs,    \* the handlers registered
    gone,    \* the handlers that were unsubscribed
    leaving, \* the handlers being unsubscribed
    sent,    \* sent[t]: how many messages t published
    due,     \* due[h]: the messages h is to be called with
    log      \* log[h]: the messages h was called with

vars == <<subs, gone, leaving, sent, due, log>>

Init ==
    /\ subs = {}
    /\ gone = {}
    /\ leaving = {}
    /\ sent = [t \in Thread |-> 0]
    /\ due = [h \in Handler |-> {}]
    /\ log = [h \in Handler |-> <<>>]

Subscribe(h) ==
    /\ h \notin subs \cup gone
    /\ subs' = subs \cup {h}
    /\ UNCHANGED <<gone, leaving, sent, due, log>>

\* The handlers registered at this moment, no earlier and no later.
Publish(t, raw) ==
    LET m == [from |-> t, seq |-> sent[t] + 1, raw |-> raw]
    IN  /\ sent' = [sent EXCEPT ![t] = @ + 1]
        /\ due' = [h \in Handler |->
                      IF h \in subs /\ Wants(m, h) THEN due[h] \cup {m} ELSE due[h]]
        /\ UNCHANGED <<subs, gone, leaving, log>>

\* The same call of the same thread, and earlier.
Before(m1, m2) == m1.from = m2.from /\ m1.raw = m2.raw /\ m1.seq < m2.seq

Deliver(h) ==
    \E m \in due[h] :
        /\ \A earlier \in due[h] : ~ Before(earlier, m)
        /\ due' = [due EXCEPT ![h] = @ \ {m}]
        /\ log' = [log EXCEPT ![h] = Append(@, m)]
        /\ UNCHANGED <<subs, gone, leaving, sent>>

\* Unsubscribe begins: some of what is due to the handlers H is dropped, and
\* nothing of what is due to others.
Leave(H) ==
    /\ leaving' = leaving \cup H
    /\ DOMAIN due' = Handler
    /\ \A h \in Handler : due'[h] \subseteq due[h]
    /\ \A h \in Handler \ H : due'[h] = due[h]
    /\ UNCHANGED <<subs, gone, sent, log>>

\* Unsubscribe returns: from now on nothing becomes due.
Return(H) ==
    /\ subs' = subs \ H
    /\ gone' = gone \cup H
    /\ leaving' = leaving \ H
    /\ UNCHANGED <<sent, due, log>>

Next ==
    \/ \E h \in Handler : Subscribe(h) \/ Deliver(h)
    \/ \E t \in Thread, raw \in BOOLEAN : Publish(t, raw)
    \/ \E H \in (SUBSET Handler) \ {{}} : Leave(H) \/ Return(H)

Spec == Init /\ [][Next]_vars
=============================================================================
