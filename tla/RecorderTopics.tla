--------------------------- MODULE RecorderTopics ---------------------------
(***************************************************************************)
(* Which topics a recorder subscribes to (src/aerozen/log/src/recorder.cpp)*)
(* The user adds topics by name or by pattern; the reception thread of a   *)
(* discovery of the recorder's own adds those that match as they appear.   *)
(* topicMutex is never locked, so that the two interleave between any two  *)
(* reads and writes of alreadySubscribed and patterns.                     *)
(***************************************************************************)
EXTENDS Naturals, FiniteSets

CONSTANTS
    RecTopics,  \* the topics of the recorder's partition, and of others
    Partition,  \* Partition[t]: whether it is the recorder's
    Regexes,    \* the patterns, as the sets of topics they match
    MaxRequests \* bound: the user's calls

VARIABLES
    listed,             \* topics known to the discovery of the node
    heard,              \* topics that the recorder's discovery called back for
    patterns,
    alreadySubscribed,  \* names, see Name
    subscriptions,      \* subscriptions[t]: handlers of the recorder
    adder,              \* what each thread is in the middle of
    pattern,            \* the pattern that the user is adding, or {}
    userCalls,          \* the user's calls so far
    overlooked          \* history: topics that a pattern came too late for

vars == <<listed, heard, patterns, alreadySubscribed, subscriptions, adder,
          pattern, userCalls, overlooked>>

\* A topic without the leading slash is another name for alreadySubscribed.
Name == [topic : RecTopics, slash : BOOLEAN]
Full(topic) == [topic |-> topic, slash |-> TRUE]

Step(at, names) == [at |-> at, names |-> names]
Rest == Step("rest", {})

Init ==
    /\ listed = {} /\ heard = {}
    /\ patterns = {}
    /\ alreadySubscribed = {}
    /\ subscriptions = [t \in RecTopics |-> 0]
    /\ adder = [p \in {"user", "discovery"} |-> Rest]
    /\ pattern = {}
    /\ userCalls = 0
    /\ overlooked = {}

Moves(p, step) == adder' = [adder EXCEPT ![p] = step]

\* The two discoveries hear of a new topic one after the other, or one only
\* after a lost datagram has been repeated.
ListTopic(t) ==
    /\ t \notin listed
    /\ listed' = listed \cup {t}
    /\ UNCHANGED <<heard, patterns, alreadySubscribed, subscriptions, adder,
                   pattern, userCalls, overlooked>>

-----------------------------------------------------------------------------
(***************************************************************************)
(* AddTopic of a name, by either thread: find, subscribe, insert.          *)
(***************************************************************************)
Find(p, name) ==
    /\ adder[p].at = "adding" /\ name \in adder[p].names
    /\ Moves(p, IF name \in alreadySubscribed
                THEN Step("adding", adder[p].names \ {name})
                ELSE [at |-> "subscribing", names |-> adder[p].names, name |-> name])
    /\ UNCHANGED <<listed, heard, patterns, alreadySubscribed, subscriptions,
                   pattern, userCalls, overlooked>>

SubscribeRaw(p) ==
    /\ adder[p].at = "subscribing"
    /\ subscriptions' = [subscriptions EXCEPT ![adder[p].name.topic] = @ + 1]
    /\ Moves(p, [adder[p] EXCEPT !.at = "inserting"])
    /\ UNCHANGED <<listed, heard, patterns, alreadySubscribed, pattern, userCalls,
                   overlooked>>

Insert(p) ==
    /\ adder[p].at = "inserting"
    /\ alreadySubscribed' = alreadySubscribed \cup {adder[p].name}
    /\ Moves(p, Step("adding", adder[p].names \ {adder[p].name}))
    /\ UNCHANGED <<listed, heard, patterns, subscriptions, pattern, userCalls,
                   overlooked>>

-----------------------------------------------------------------------------
(***************************************************************************)
(* The user.                                                               *)
(***************************************************************************)
AddTopic(name) ==
    /\ adder["user"] = Rest /\ userCalls < MaxRequests
    /\ userCalls' = userCalls + 1
    /\ Moves("user", Step("adding", {name}))
    /\ UNCHANGED <<listed, heard, patterns, alreadySubscribed, subscriptions,
                   pattern, overlooked>>

\* AddTopic of a pattern begins with the topics that are listed now.
AddPattern(regex) ==
    /\ adder["user"] = Rest /\ userCalls < MaxRequests
    /\ userCalls' = userCalls + 1
    /\ pattern' = regex
    /\ Moves("user", Step("adding", {Full(t) : t \in {t \in listed \cap regex : Partition[t]}}))
    /\ UNCHANGED <<listed, heard, patterns, alreadySubscribed, subscriptions, overlooked>>

\* After the last of them the pattern is kept for those to come.
FinishUser ==
    /\ adder["user"] = Step("adding", {})
    /\ Moves("user", Rest)
    /\ patterns' = IF pattern = {} THEN patterns ELSE patterns \cup {pattern}
    /\ pattern' = {}
    /\ UNCHANGED <<listed, heard, alreadySubscribed, subscriptions, userCalls, overlooked>>

-----------------------------------------------------------------------------
(***************************************************************************)
(* The reception thread.                                                   *)
(***************************************************************************)

\* Slip: the first pattern that does not match ends the search.
Matched(t) == patterns # {} /\ \A regex \in patterns : t \in regex

Matches(t) == \E regex \in patterns : t \in regex

\* OnAdvertisement, once for each topic.
OnAdvertisement(t) ==
    /\ adder["discovery"] = Rest /\ t \notin heard
    /\ heard' = heard \cup {t}
    /\ IF Partition[t] /\ Full(t) \notin alreadySubscribed /\ Matches(t)
       THEN Moves("discovery", Step("adding", {Full(t)})) ELSE UNCHANGED adder
    /\ overlooked' = IF \E regex \in patterns : t \in regex THEN overlooked
                     ELSE overlooked \cup {t}
    /\ UNCHANGED <<listed, patterns, alreadySubscribed, subscriptions, pattern, userCalls>>

FinishDiscovery ==
    /\ adder["discovery"] = Step("adding", {})
    /\ Moves("discovery", Rest)
    /\ UNCHANGED <<listed, heard, patterns, alreadySubscribed, subscriptions,
                   pattern, userCalls, overlooked>>

Next ==
    \/ \E t \in RecTopics : ListTopic(t) \/ OnAdvertisement(t)
    \/ \E p \in {"user", "discovery"} :
        (\E name \in Name : Find(p, name)) \/ SubscribeRaw(p) \/ Insert(p)
    \/ \E name \in Name : AddTopic(name)
    \/ \E regex \in Regexes : AddPattern(regex)
    \/ FinishUser \/ FinishDiscovery

Spec == Init /\ [][Next]_vars

-----------------------------------------------------------------------------
(***************************************************************************)
(* Properties.                                                             *)
(***************************************************************************)
AtRest == \A p \in {"user", "discovery"} : adder[p] = Rest

\* When nothing is under way, a topic that one of the patterns matches and
\* that the recorder's discovery knows is recorded, unless it was announced
\* before the pattern was kept; that one may be missed, though it was announced
\* after the pattern's topics had been listed (recorder.cpp:303, :334, :347).
\* Topics() is what is subscribed, and a topic is subscribed once more than it
\* has names at most.
MatchingIsRecorded ==
    AtRest =>
        /\ \A t \in heard \ overlooked :
              Partition[t] => Full(t) \in alreadySubscribed
        /\ \A t \in RecTopics :
              LET names == {name \in alreadySubscribed : name.topic = t}
              IN  /\ subscriptions[t] >= Cardinality(names)
                  /\ subscriptions[t] <= Cardinality(names) + 1
                  /\ names = {} => subscriptions[t] = 0
=============================================================================
