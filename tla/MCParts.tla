------------------------------ MODULE MCParts -------------------------------
(* Instances of the small modules for TLC, which have nothing to do with    *)
(* each other: one part moves in a behavior, the others stay at the start.  *)
(* Those that make up a node are composed in NodeParts.                     *)
EXTENDS NodeParts, Parameters

CONSTANTS
    Callers, Period, MaxTime,
    Senders, MaxSeq,
    RecTopics, Partition, Regexes, MaxRequests,
    LoggedKeys, MaxMessages, LastTime,
    Peers, SubTopics, Askers, MaxAsks, MaxChanges,
    Responders, Here, TypesOf, ReturnedBy, Known,
    Typed, Generic, Raw, Throwing, TypeOf, Linked, Loaded,
    Registered, Files, Converted,
    Clock, BaseOf, Servers, Times, Second, IntLimit, MaxSet

ASSUME PeriodAssumption == Period \in Int

ASSUME StatisticsAssumption == IsFiniteSet(Senders) /\ MaxSeq \in Nat

VARIABLES
    kind, now, lastCbTimestamp, caller, passed,
    topicPubSeq, channel, enabled, started, seq, droppedMsgCount, updated,
    listed, heard, patterns, alreadySubscribed, subscriptions, adder, pattern,
    userCalls, overlooked,
    log, guessed,
    peerSubs, wire, remoteSubscribers, cycles, asker, asks, changes, answered,
    disturbed,
    responders, used, call, seen, told,
    data, object, todo, called, thrown,
    msgMap, pool, db, dynamicMsgMap, newest,
    clockTimeNS, clockMessages, lastSet, published

TH == INSTANCE Throttling
TS == INSTANCE TopicStatistics
RT == INSTANCE RecorderTopics
LH == INSTANCE LogHandle
SL == INSTANCE SubscriberList
SA == INSTANCE ServiceAnswers WITH offered <- responders
MH == INSTANCE MessageHandlers WITH msg <- object
FA == INSTANCE Factories WITH made <- newest
CL == INSTANCE Clocks WITH channel <- clockMessages

\* There are so many files, with so many descriptor files each.
ASSUME FilesAssumption ==
    IsFiniteSet(Files) /\ \A f \in Files : Len(f.protos) \in Nat

\* A handler is of one class; a typed one is made for a type of the program.
ASSUME HandlersAssumption ==
    /\ Typed \cap Generic = {} /\ Raw \cap (Typed \cup Generic) = {}
    /\ \A h \in Typed : TypeOf[h] \in Linked
    /\ MH!AnyType \notin Linked

-----------------------------------------------------------------------------
MCServiceTypes == {[req |-> "a", rep |-> "a"], [req |-> "b", rep |-> "a"]}

MCPartition == [t \in RecTopics |-> TRUE]
MCRegexes == {{"a"}, {"a", "b"}}

MCPartitions == {<<>>, <<"p">>, <<"/", "p">>, <<"p", "/">>, <<"@">>, <<"%">>}
MCNamespaces == {<<>>, <<"n">>, <<"/", "n", "/">>}
MCTopics ==
    {<<a, b>> : a, b \in {"/", "a", "@", ":", "="}}
    \cup {<<>>, <<"a">>, <<"/">>, <<"/", "a", "/">>, <<"%">>, <<"a", " ", "b">>,
          <<"~", "a">>, <<"a", "/", "b">>, <<"/", "/", "/">>}
MCTypes == {<<<<"t">>>>, <<<<>>>>, <<<<"t">>, <<"u">>>>, <<<<"t">>, <<>>>>}

MCLoggedKeys ==
    {[topic |-> "a", type |-> "t"], [topic |-> "a", type |-> "u"],
     [topic |-> "b", type |-> "t"]}

\* Two publishers of one topic.
MCRecordNames == {[topic |-> "x", ids |-> i, own |-> o] : i \in {"p"}, o \in {"t", "u"}}
MCRates == {-1, 1}

\* Two responders of equal types in different processes, one of other types in
\* either.
MCTypesOf ==
    [h \in Responders |->
        [req |-> "r", rep |-> CASE h = "b" -> "q" [] h = "d" -> "Empty" [] OTHER -> "p"]]
MCReturnedBy == [h \in Responders |-> h # "c"]

MCTypeOf ==
    [h \in Typed \cup Generic \cup Raw |->
        CASE h \in {"t1", "r1"} -> "A" [] h = "t2" -> "B"
          [] OTHER -> "google.protobuf.Message"]

\* A file, one that imports it, one with a type of the first and a second file,
\* and one that is no descriptor set.
MCFiles ==
    LET base == [name |-> "base", types |-> {"a", "g.y"}, imports |-> {}]
        next == [name |-> "next", types |-> {"b"}, imports |-> {"base"}]
        other == [name |-> "other", types |-> {"a", "c"}, imports |-> {}]
        own == [name |-> "own", types |-> {"c"}, imports |-> {}]
    IN  {[readable |-> TRUE, protos |-> <<base>>],
         [readable |-> TRUE, protos |-> <<next>>],
         [readable |-> TRUE, protos |-> <<other, own>>],
         [readable |-> FALSE, protos |-> <<[own EXCEPT !.types = {"d"}]>>]}
MCConverted == [t \in {"g_y"} |-> "g.y"]

MCBaseOf == [c \in Clock |-> IF c = "c1" THEN "SIM" ELSE "SYS"]
MCTimes == {-4, 9}

\* Each caller has a server of its types; all come by one connection.
MCQueryKind == [x \in Queries \cup Queryables |-> IF x \in {"b", "t"} THEN "k2" ELSE "k1"]
MCLinkOf == [s \in Queryables |-> "l"]

-----------------------------------------------------------------------------
(* What each part may do.                                                   *)
throttlingVars == <<kind, now, lastCbTimestamp, caller, passed>>
statisticsVars == <<topicPubSeq, channel, enabled, started, seq, droppedMsgCount, updated>>
recorderVars ==
    <<listed, heard, patterns, alreadySubscribed, subscriptions, adder, pattern,
      userCalls, overlooked>>
logVars == <<log, guessed>>
subscribersVars ==
    <<peerSubs, wire, remoteSubscribers, cycles, asker, asks, changes, answered, disturbed>>
answersVars == <<responders, used, call, seen, told>>
handlersVars == <<data, object, todo, called, thrown>>
factoryVars == <<msgMap, pool, db, dynamicMsgMap, newest>>
clocksVars == <<clockTimeNS, clockMessages, lastSet, published>>

PartsInit ==
    /\ part \in {"parameters", "node", "throttling", "statistics", "recorder",
                 "names", "log", "subscribers", "records", "answers", "handlers",
                 "factory", "clocks", "liveliness", "queries"}
    /\ NodePartsInit
    /\ Init /\ TH!Init /\ TS!Init /\ RT!Init /\ LH!Init /\ SL!Init /\ SA!Init /\ MH!Init
    /\ FA!Init /\ CL!Init
    /\ part = "throttling" \/ kind = "handler"

PartsNext ==
    /\ NodePartsNext
    /\ IF part = "parameters" THEN Next ELSE UNCHANGED vars
    /\ IF part = "throttling" THEN TH!Next ELSE UNCHANGED throttlingVars
    /\ IF part = "statistics" THEN TS!Next ELSE UNCHANGED statisticsVars
    /\ IF part = "recorder" THEN RT!Next ELSE UNCHANGED recorderVars
    /\ IF part = "log" THEN LH!Next ELSE UNCHANGED logVars
    /\ IF part = "subscribers" THEN SL!Next ELSE UNCHANGED subscribersVars
    /\ IF part = "answers" THEN SA!Next ELSE UNCHANGED answersVars
    /\ IF part = "handlers" THEN MH!Next ELSE UNCHANGED handlersVars
    /\ IF part = "factory" THEN FA!Next ELSE UNCHANGED factoryVars
    /\ IF part = "clocks" THEN CL!Next ELSE UNCHANGED clocksVars

AllVars ==
    <<nodePartsVars, vars, throttlingVars, statisticsVars, recorderVars, logVars,
      subscribersVars, answersVars, handlersVars, factoryVars, clocksVars>>

PartsSpec == PartsInit /\ [][PartsNext]_AllVars

-----------------------------------------------------------------------------
(* The properties of the parts; each speaks of the part that moves.         *)

\* The clients of the parameter registry are told what it did and held.
ClientsAreTold == part = "parameters" => ToldTheTruth /\ ReadIsCurrent

\* A thread passes messages once per period, and some if there are any.
RateKept == part = "throttling" => TH!OncePerPeriod /\ TH!NotStarved

\* The messages said to be dropped were.
DropsBounded == part = "statistics" => TS!DropsBounded

\* What matches a pattern is recorded, from each side it may be known from.
MatchingIsRecorded == part = "recorder" => RT!MatchingIsRecorded

\* The answers of a log are those of the file, each message once.
LogAnswers == part = "log" => LH!CachesCurrent /\ LH!QueriesPartition

\* The subscribers listed have answered this call.
ListIsOfThisCall == part = "subscribers" => SL!ListIsOfThisCall

\* A message reaches the handlers it suits, and no other; a caller is told the
\* answer of one callback that was offered for its types.
HandlersSuit ==
    /\ part = "handlers" => MH!SuitableAreCalled
    /\ part = "answers" => SA!AnswerOfOneOffered

\* What the factory lists it can make.
ListedIsMade == part = "factory" => FA!ListedIsMade

\* The clocks of a topic follow those who set them.
ClocksFollow == part = "clocks" => CL!ClocksFollow
=============================================================================
