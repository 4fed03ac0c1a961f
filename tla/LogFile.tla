------------------------------ MODULE LogFile -------------------------------
(***************************************************************************)
(* A log file and its handle, class Log (src/aerozen/log/src/log.cpp), as  *)
(* operators on the state of the handle.                                   *)
(*                                                                         *)
(* SQLite is external: a transaction, begun by the first insertion, holds  *)
(* what was inserted since in pending, until END puts it into the file.    *)
(* A process that dies, or a handle closed in a transaction, leaves what   *)
(* the file had.                                                           *)
(*                                                                         *)
(* A row is a record with at least topic, type and time.                   *)
(***************************************************************************)
EXTENDS LogQuery

Unknown == -1

\* committed, pending, keys: the database.  age: the time since BEGIN, in
\* halves of transactionPeriod, as far as it matters.  The rest is what the
\* handle caches.
NewLog ==
    [open |-> TRUE,
     committed |-> <<>>, pending |-> <<>>, keys |-> {},
     inTransaction |-> FALSE, age |-> 0,
     needNewDescriptor |-> TRUE, descriptor |-> {},
     startTime |-> Unknown, endTime |-> Unknown]

NoLog == [NewLog EXCEPT !.open = FALSE]

\* What a query of this handle sees.
Table(log) == log.committed \o log.pending

\* TimeForNewTransaction.
TransactionPeriod == 2
TimeForNewTransaction(log) == log.age > TransactionPeriod
Older(log) == [log EXCEPT !.age = IF log.inTransaction /\ @ <= TransactionPeriod
                                  THEN @ + 1 ELSE @]

-----------------------------------------------------------------------------
(***************************************************************************)
(* Insertion.                                                              *)
(***************************************************************************)

\* Slip: the time of the transaction is that of its last insertion.
BeginOrRenew(log) == [log EXCEPT !.inTransaction = TRUE, !.age = 0]

\* The time that EndTransactionIfEnoughTimeHasPassed compares with is set when
\* the transaction begins.
BeginTransactionIfNotInOne(log) ==
    IF log.inTransaction THEN log
    ELSE [log EXCEPT !.inTransaction = TRUE, !.age = 0]

EndTransaction(log) ==
    [log EXCEPT !.inTransaction = FALSE,
                !.committed = log.committed \o log.pending, !.pending = <<>>]

\* Descriptor(): read again after a topic was inserted.
WithDescriptor(log) ==
    IF log.needNewDescriptor
    THEN [log EXCEPT !.needNewDescriptor = FALSE, !.descriptor = log.keys]
    ELSE log

\* Slip: a new topic leaves the descriptor as it was.
InsertTopicOnly(log, row) ==
    [log EXCEPT !.keys = @ \cup {[topic |-> row.topic, type |-> row.type,
                                  id |-> Cardinality(log.keys) + 1]},
                !.startTime = Unknown, !.endTime = Unknown]

InsertTopic(log, row) ==
    [log EXCEPT !.keys = @ \cup {[topic |-> row.topic, type |-> row.type,
                                  id |-> Cardinality(log.keys) + 1]},
                !.needNewDescriptor = TRUE,
                !.startTime = Unknown, !.endTime = Unknown]

InsertOrGetTopicId(log, row) ==
    LET l == WithDescriptor(log)
    IN  IF TopicId(l.descriptor, row.topic, row.type) >= 0
        THEN l ELSE InsertTopic(l, row)

InsertRow(log, row) ==
    [log EXCEPT !.pending = Append(@, row),
                !.startTime = Unknown, !.endTime = Unknown]

\* Log::InsertMessage: the states it may leave.  BEGIN, the reading of the
\* descriptor, the insertion of the topic, that of the row, and END each may
\* fail; each failure makes it return false, but the last one does not keep the
\* row out.  A row without data is refused when the transaction and its
\* topic are there.
Kept(log, row) ==
    InsertRow(InsertOrGetTopicId(BeginTransactionIfNotInOne(log), row), row)

Inserted(log, row) ==
    LET l == Kept(log, row)
    IN  IF TimeForNewTransaction(l) THEN EndTransaction(l) ELSE l

EmptyRefused(log, row) ==
    InsertOrGetTopicId(BeginTransactionIfNotInOne(log), row)

\* A failure before the statements for the topic or the row are run leaves the
\* times that are cached.
Unset(log) == [log EXCEPT !.startTime = Unknown, !.endTime = Unknown]

InsertFailed(log, row) ==
    LET begun == BeginTransactionIfNotInOne(log)
        read  == WithDescriptor(begun)
        stale == [read EXCEPT !.needNewDescriptor = TRUE]
        there == InsertOrGetTopicId(begun, row)
    IN  {log, there, Unset(there)}
        \cup (IF log.needNewDescriptor THEN {begun} ELSE {})
        \cup (IF TopicId(read.descriptor, row.topic, row.type) < 0
              THEN {stale, Unset(stale)} ELSE {})

EndFailed(log, row) ==
    {l \in {Kept(log, row)} : TimeForNewTransaction(l)}

\* ~Log, whose END succeeds or whose open transaction is rolled back: what
\* the file holds.
FileOf(log)          == EndTransaction(log).committed
FileAfterCrash(log)  == log.committed

-----------------------------------------------------------------------------
(***************************************************************************)
(* Questions about the log, with what they cache.                          *)
(***************************************************************************)

Earliest(rows) ==
    IF rows = <<>> THEN 0
    ELSE CHOOSE t \in {rows[i].time : i \in DOMAIN rows} :
            \A i \in DOMAIN rows : t <= rows[i].time

Latest(rows) ==
    IF rows = <<>> THEN 0
    ELSE CHOOSE t \in {rows[i].time : i \in DOMAIN rows} :
            \A i \in DOMAIN rows : t >= rows[i].time

\* StartTime and EndTime: 0 is cached for a log without messages.
AskStartTime(log) ==
    IF log.startTime >= 0 THEN log
    ELSE [log EXCEPT !.startTime = Earliest(Table(log))]

AskEndTime(log) ==
    IF log.endTime >= 0 THEN log
    ELSE [log EXCEPT !.endTime = Latest(Table(log))]

\* The same, when a statement of the query fails: the 0 cached before it stays.
\* Of a corrupt database the time of any message may be taken for the last.
StartTimeFailed(log) == [log EXCEPT !.startTime = 0]

EndTimeFailed(log) ==
    {[log EXCEPT !.endTime = t] :
        t \in {0} \cup {Table(log)[i].time : i \in DOMAIN Table(log)}}

\* QueryMessages with the topics of the descriptor.
QueryMessages(log, topics, range) ==
    LET l == WithDescriptor(log)
    IN  Begin(TopicList(Table(l), l.descriptor, topics, range))
=============================================================================
