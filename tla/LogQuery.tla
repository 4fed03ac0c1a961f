------------------------------ MODULE LogQuery ------------------------------
(***************************************************************************)
(* How messages are chosen from a log file and read from it: time ranges   *)
(* (src/aerozen/log/src/qualified_time.cpp), queries (query_options.cpp),  *)
(* the descriptor (descriptor.cpp), batches and their iterator (batch.cpp, *)
(* msg_iter.cpp).                                                          *)
(*                                                                         *)
(* The table of messages is the sequence of its rows in the order they     *)
(* were inserted, a row a record with fields topic, type and time (when it *)
(* was received).  A statement is the sequence of rows that SQLite returns *)
(* for it.                                                                 *)
(***************************************************************************)
EXTENDS Integers, Sequences, FiniteSets, SequencesExt

(***************************************************************************)
(* Times and ranges.                                                       *)
(***************************************************************************)
Indeterminate == [qualifier |-> "none"]
QualifiedTime(time, qualifier) == [qualifier |-> qualifier, time |-> time]
IsIndeterminate(t) == t.qualifier = "none"

\* operator==: an indeterminate time equals nothing, itself included ...
SameTime(t, u) == ~IsIndeterminate(t) /\ ~IsIndeterminate(u) /\ t = u

\* ... but as the ends of two ranges, two of them are equal.
EndPointEqual(t, u) ==
    (IsIndeterminate(t) /\ IsIndeterminate(u)) \/ SameTime(t, u)

TimeRange(start, finish) == [start |-> start, finish |-> finish]
From(start)   == TimeRange(start, Indeterminate)
Until(finish) == TimeRange(Indeterminate, finish)
AllTime       == TimeRange(Indeterminate, Indeterminate)

SameRange(r, s) ==
    EndPointEqual(r.start, s.start) /\ EndPointEqual(r.finish, s.finish)

\* The qualifiers are not looked at: a range that holds no time, like the
\* one after t and before t, is valid.
ValidRange(range) ==
    \/ IsIndeterminate(range.start)
    \/ IsIndeterminate(range.finish)
    \/ range.start.time <= range.finish.time

\* Slip: the end of the range is compared with <= whatever its qualifier.
TimeConditionsInclusive(range, time) ==
    /\ range.start.qualifier = "INCLUSIVE" => time >= range.start.time
    /\ range.start.qualifier = "EXCLUSIVE" => time > range.start.time
    /\ ~IsIndeterminate(range.finish) => time <= range.finish.time

\* GenerateTimeConditions: one comparison for each end that is determined.
TimeConditions(range, time) ==
    /\ range.start.qualifier = "INCLUSIVE"  => time >= range.start.time
    /\ range.start.qualifier = "EXCLUSIVE"  => time > range.start.time
    /\ range.finish.qualifier = "INCLUSIVE" => time <= range.finish.time
    /\ range.finish.qualifier = "EXCLUSIVE" => time < range.finish.time

(***************************************************************************)
(* The descriptor: which topics of which types the file holds, and the row *)
(* identifiers of the pairs.                                               *)
(***************************************************************************)
TopicsToMsgTypesToId(descriptor, topic) ==
    {key \in descriptor : key.topic = topic}

MsgTypesToTopicsToId(descriptor, type) ==
    {key \in descriptor : key.type = type}

TopicId(descriptor, topic, type) ==
    IF \E key \in TopicsToMsgTypesToId(descriptor, topic) : key.type = type
    THEN (CHOOSE key \in descriptor : key.topic = topic /\ key.type = type).id
    ELSE -1

LoggedTopics(descriptor) == {key.topic : key \in descriptor}

(***************************************************************************)
(* Queries.  Rows with equal times keep the order they were inserted in.   *)
(***************************************************************************)
Precedes(rows, i, j) ==
    \/ rows[i].time < rows[j].time
    \/ rows[i].time = rows[j].time /\ i < j

\* The place of one of the rows at the positions that were chosen.
Place(rows, chosen, i) == Cardinality({j \in chosen : Precedes(rows, j, i)}) + 1

OrderByTime(rows, chosen) ==
    [k \in 1..Cardinality(chosen) |->
        rows[CHOOSE i \in chosen : Place(rows, chosen, i) = k]]

Statement(rows, Condition(_)) ==
    OrderByTime(rows, {i \in DOMAIN rows : Condition(rows[i])})

\* The topics of the list that the file does not hold are passed over.
RowsOf(descriptor, topics) ==
    UNION {TopicsToMsgTypesToId(descriptor, t) : t \in topics}

TopicList(rows, descriptor, topics, range) ==
    LET ids == {key.id : key \in RowsOf(descriptor, topics)}
    IN  <<Statement(rows,
            LAMBDA r : /\ TopicId(descriptor, r.topic, r.type) \in ids
                       /\ TimeConditions(range, r.time))>>

\* pattern is the set of the names that the regular expression matches.
TopicPattern(rows, descriptor, pattern, range) ==
    LET ids == {key.id : key \in {k \in descriptor : k.topic \in pattern}}
    IN  <<Statement(rows,
            LAMBDA r : /\ TopicId(descriptor, r.topic, r.type) \in ids
                       /\ TimeConditions(range, r.time))>>

AllTopics(rows, range) ==
    <<Statement(rows, LAMBDA r : TimeConditions(range, r.time))>>

(***************************************************************************)
(* The iterator over a batch.  open: it has a prepared statement, of which *)
(* rows are still to be fetched; statements: those not yet prepared;       *)
(* message: the row it points to.                                          *)
(***************************************************************************)
NoMessage == [topic |-> "none", type |-> "none", time |-> -1]

PrepareNextStatement(it) ==
    IF it.statements = <<>>
    THEN [it EXCEPT !.open = FALSE]
    ELSE [it EXCEPT !.open = TRUE, !.rows = Head(it.statements),
                    !.statements = Tail(it.statements)]

\* The end of a statement prepares the next one without fetching its first
\* row: until the next step the iterator points to the old message.
StepStatement(it) ==
    CASE ~it.open -> it
      [] it.open /\ it.rows # <<>> ->
            [it EXCEPT !.message = Head(it.rows), !.rows = Tail(it.rows)]
      [] it.open /\ it.rows = <<>> -> PrepareNextStatement(it)

Begin(statements) ==
    StepStatement(PrepareNextStatement(
        [open |-> FALSE, rows |-> <<>>, statements |-> statements,
         message |-> NoMessage]))

\* Equality with the end iterator.
AtEnd(it) == ~it.open

\* The messages that a loop from begin to end sees: an iterator at the end stays
\* there.
Seen(statements) ==
    LET steps == Len(FlattenSeq(statements)) + Len(statements)
        it[n \in 0..steps] == IF n = 0 THEN Begin(statements)
                              ELSE StepStatement(it[n - 1])
    IN  [n \in 1..Cardinality({m \in 0..steps : ~AtEnd(it[m])}) |-> it[n - 1].message]
=============================================================================
