--------------------------- MODULE TopicStatistics ---------------------------
(***************************************************************************)
(* The statistics of a topic at a receiving process (src/aerozen/          *)
(* topic_statistics.cpp), from the sequence numbers that the publishing    *)
(* processes attach (NodeShared::Publish, RecvMsgUpdate), while the user   *)
(* enables and disables them.  A sender is the address of a process.       *)
(*                                                                         *)
(* Averages and extremes are left out.                                     *)
(***************************************************************************)
EXTENDS Naturals, Sequences, FiniteSets

CONSTANTS
    Senders,
    MaxSeq      \* bound: messages of a sender

VARIABLES
    topicPubSeq,        \* at each sender
    channel,            \* what is on its way from each sender, in order
    enabled,            \* the topic is in enabledTopicStatistics
    started,            \* prevPublicationStamp is not 0
    seq,                \* the last number from each sender, 0 at first
    droppedMsgCount,
    updated             \* history: updated[s]: numbers that were counted

vars == <<topicPubSeq, channel, enabled, started, seq, droppedMsgCount, updated>>

Init ==
    /\ topicPubSeq = [s \in Senders |-> 0]
    /\ channel = [s \in Senders |-> <<>>]
    /\ enabled = FALSE
    /\ started = FALSE
    /\ seq = [s \in Senders |-> 0]
    /\ droppedMsgCount = 0
    /\ updated = [s \in Senders |-> {}]

\* The number is incremented after it was used: the first message has 0.
Publish(s) ==
    /\ topicPubSeq[s] < MaxSeq
    /\ channel' = [channel EXCEPT ![s] = Append(@, topicPubSeq[s])]
    /\ topicPubSeq' = [topicPubSeq EXCEPT ![s] = @ + 1]
    /\ UNCHANGED <<enabled, started, seq, droppedMsgCount, updated>>

\* ZeroMQ drops a message at its high-water mark, or before the connection.
Lose(s) ==
    /\ channel[s] # <<>>
    /\ channel' = [channel EXCEPT ![s] = Tail(@)]
    /\ UNCHANGED <<topicPubSeq, enabled, started, seq, droppedMsgCount, updated>>

\* Slip: after a gap the old number stays.
UpdateInOrderOnly(s, n) ==
    /\ started' = TRUE
    /\ IF started /\ seq[s] + 1 # n
       THEN droppedMsgCount' = droppedMsgCount + 1 /\ UNCHANGED seq
       ELSE seq' = [seq EXCEPT ![s] = n] /\ UNCHANGED droppedMsgCount
    /\ updated' = [updated EXCEPT ![s] = @ \cup {n}]

\* TopicStatistics::Update.  A gap counts once however long it is; the very
\* first message is not looked at, the first one of a further sender is.
Update(s, n) ==
    /\ started' = TRUE
    /\ droppedMsgCount' = IF started /\ seq[s] + 1 # n THEN droppedMsgCount + 1
                          ELSE droppedMsgCount
    /\ seq' = [seq EXCEPT ![s] = n]
    /\ updated' = [updated EXCEPT ![s] = @ \cup {n}]

Receive(s) ==
    /\ channel[s] # <<>>
    /\ channel' = [channel EXCEPT ![s] = Tail(@)]
    /\ IF enabled THEN Update(s, Head(channel[s]))
       ELSE UNCHANGED <<started, seq, droppedMsgCount, updated>>
    /\ UNCHANGED <<topicPubSeq, enabled>>

\* What was counted so far is kept.
EnableStats(enable) ==
    /\ enabled' = enable
    /\ UNCHANGED <<topicPubSeq, channel, started, seq, droppedMsgCount, updated>>

Next ==
    \/ \E s \in Senders : Publish(s) \/ Lose(s) \/ Receive(s)
    \/ \E enable \in BOOLEAN : EnableStats(enable)

Spec == Init /\ [][Next]_vars

-----------------------------------------------------------------------------
(***************************************************************************)
(* Properties.                                                             *)
(***************************************************************************)

\* The messages that were lost, or came while disabled, between two counted
\* ones of their sender.
Missed(s) ==
    {n \in 0..MaxSeq : /\ n \notin updated[s]
                       /\ \E a, b \in updated[s] : a < n /\ n < b}

AllMissed == UNION {{s} \X Missed(s) : s \in Senders}
Heard == {s \in Senders : updated[s] # {}}

\* droppedMsgCount is nothing without a lost message and something with one,
\* and never more than the lost messages and one for each sender but the first
\* (topic_statistics.cpp:137-152, node_shared.cpp:390, :475).
DropsBounded ==
    /\ AllMissed # {} => droppedMsgCount > 0
    /\ droppedMsgCount <= Cardinality(AllMissed)
                            + (IF Heard = {} THEN 0 ELSE Cardinality(Heard) - 1)
=============================================================================
