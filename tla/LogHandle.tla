----------------------------- MODULE LogHandle ------------------------------
(***************************************************************************)
(* A program with an open log file (class Log, src/aerozen/log/src/log.cpp)*)
(* that inserts messages, asks for the times of the first and the last,    *)
(* and queries; any statement may fail.                                    *)
(***************************************************************************)
EXTENDS LogFile

CONSTANTS
    LoggedKeys, \* pairs of a topic and a type, [topic, type]
    MaxMessages,\* bound: messages inserted
    LastTime    \* bound: the times of messages

VARIABLES
    log,
    guessed     \* those of "start" and "end" that are cached from a query that failed

vars == <<log, guessed>>

Rows == {[topic |-> k.topic, type |-> k.type, time |-> t] :
            k \in LoggedKeys, t \in 0..LastTime}

Init == log = NewLog /\ guessed = {}

\* What is no longer cached is no longer guessed.
Uncached(l) ==
    (IF l.startTime = Unknown THEN {"start"} ELSE {})
    \cup (IF l.endTime = Unknown THEN {"end"} ELSE {})

Insert(row) ==
    /\ Len(Table(log)) < MaxMessages
    /\ \/ log' = Inserted(log, row)
       \/ log' = EmptyRefused(log, row)
       \/ log' \in InsertFailed(log, row) \cup EndFailed(log, row)
    /\ guessed' = guessed \ Uncached(log')

Ask ==
    /\ log' \in {AskStartTime(log), AskEndTime(log), WithDescriptor(log)}
    /\ UNCHANGED guessed

AskFails ==
    \/ /\ log.startTime = Unknown
       /\ log' = StartTimeFailed(log)
       /\ guessed' = guessed \cup {"start"}
    \/ /\ log.endTime = Unknown
       /\ log' \in EndTimeFailed(log)
       /\ guessed' = guessed \cup {"end"}

Grow == log' = Older(log) /\ UNCHANGED guessed

Next == (\E row \in Rows : Insert(row)) \/ Ask \/ AskFails \/ Grow

Spec == Init /\ [][Next]_vars

-----------------------------------------------------------------------------
\* What the handle has cached is what the database holds, whichever statements
\* of insertions failed (log.cpp:241, :344).  A time that a failed query left is
\* 0 or the time of a message, and is not left over from before an insertion
\* (log.cpp:531, :569): a time cached by a later query that succeeds is right.
CachesCurrent ==
    /\ ~log.needNewDescriptor => log.descriptor = log.keys
    /\ log.startTime # Unknown =>
          log.startTime = IF "start" \in guessed THEN 0 ELSE Earliest(Table(log))
    /\ log.endTime # Unknown =>
          IF "end" \in guessed
          THEN log.endTime \in {0} \cup {Table(log)[i].time : i \in DOMAIN Table(log)}
          ELSE log.endTime = Latest(Table(log))

\* A query of some topics that does not fail returns each of their messages
\* once, ordered by time and then by insertion, and the queries before and
\* after a point of time share the messages between them, whichever of the two
\* the point itself is given to (qualified_time.cpp:126, query_options.cpp:62, :175, :255).
QueriesPartition ==
    LET rows == Table(log)
        descriptor == WithDescriptor(log).descriptor
    IN  \A topics \in SUBSET {k.topic : k \in LoggedKeys}, t \in 0..LastTime :
          LET Answer(range) == Seen(TopicList(rows, descriptor, topics, range))
              wanted == {i \in DOMAIN rows : rows[i].topic \in topics}
              all == Answer(AllTime)
          IN  /\ Len(all) = Cardinality(wanted)
              /\ \E from \in [DOMAIN all -> wanted] :
                    /\ \A i \in DOMAIN all : all[i] = rows[from[i]]
                    /\ \A i, j \in DOMAIN all : i < j => Precedes(rows, from[i], from[j])
              /\ \A q \in {"INCLUSIVE", "EXCLUSIVE"} :
                    Answer(Until(QualifiedTime(t, q))) \o
                        Answer(From(QualifiedTime(t, IF q = "INCLUSIVE" THEN "EXCLUSIVE"
                                                     ELSE "INCLUSIVE"))) = all
=============================================================================
