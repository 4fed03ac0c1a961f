------------------------------- MODULE Clocks -------------------------------
(***************************************************************************)
(* The clocks of several processes on one topic (class NetworkClock of     *)
(* src/aerozen/clock.cpp).  A clock set distributes the time in a message, *)
(* which every clock gets by its own subscription, the one that was set as *)
(* well: by the publish thread there and the reception thread elsewhere.   *)
(* The messages of one publisher keep their order, as module PubQueue has  *)
(* it.  Other programs publish clock messages too.                         *)
(***************************************************************************)
EXTENDS Integers, Sequences

CONSTANTS
    Clock,     \* the clocks
    BaseOf,    \* their time bases, each one of Bases
    Servers,   \* other publishers on the topic
    Times,     \* the times set, in nanoseconds
    Second,    \* nanoseconds per second, scaled down
    IntLimit,  \* 2^31, scaled down
    MaxSet     \* bound: messages published

VARIABLES
    clockTimeNS, \* each clock's time
    channel,     \* the messages on their way from a publisher to a clock
    lastSet,     \* the last message of each publisher (for the property)
    published    \* how many there were

vars == <<clockTimeNS, channel, lastSet, published>>

Bases == {"SIM", "REAL", "SYS"}
Publishers == Clock \cup Servers

Init ==
    /\ clockTimeNS = [c \in Clock |-> 0]
    /\ channel = [s \in Publishers |-> [c \in Clock |-> <<>>]]
    /\ lastSet = [s \in Publishers |-> <<>>]
    /\ published = 0

\* duration_cast rounds to zero; the seconds pass through an int.
Abs(t) == IF t < 0 THEN -t ELSE t
Seconds(t) == IF t < 0 THEN -(Abs(t) \div Second) ELSE t \div Second
ToInt(n) == ((n + IntLimit) % (2 * IntLimit)) - IntLimit
TimeMessage(t) == [sec |-> ToInt(Seconds(t)), nsec |-> t - Seconds(t) * Second]
TimeIn(m) == m.sec * Second + m.nsec

\* A message has a time for some of the bases.
Send(s, msg) ==
    /\ published < MaxSet
    /\ published' = published + 1
    /\ channel' = [channel EXCEPT ![s] = [c \in Clock |-> Append(@[c], msg)]]
    /\ lastSet' = [lastSet EXCEPT ![s] =
           [b \in DOMAIN @ \cup DOMAIN msg |-> IF b \in DOMAIN msg THEN msg[b] ELSE @[b]]]
    /\ UNCHANGED clockTimeNS

SetTime(c, t) == Send(c, [b \in {BaseOf[c]} |-> TimeMessage(t)])

\* Another program's message.
ServerSends(s, bases, t) == Send(s, [b \in bases |-> TimeMessage(t)])

\* Slip: whatever time the message has.
UpdateFromAny(c, msg) ==
    clockTimeNS' = [clockTimeNS EXCEPT ![c] = TimeIn(msg[CHOOSE b \in DOMAIN msg : TRUE])]

\* OnClockMessageReceived: a message without the clock's base changes nothing.
UpdateTimeFromMessage(c, msg) ==
    clockTimeNS' = IF BaseOf[c] \in DOMAIN msg
                   THEN [clockTimeNS EXCEPT ![c] = TimeIn(msg[BaseOf[c]])]
                   ELSE clockTimeNS

OnClockMessageReceived(c, s) ==
    /\ channel[s][c] # <<>>
    /\ UpdateTimeFromMessage(c, Head(channel[s][c]))
    /\ channel' = [channel EXCEPT ![s][c] = Tail(@)]
    /\ UNCHANGED <<lastSet, published>>

IsReady(c) == clockTimeNS[c] # 0

Next ==
    \/ \E c \in Clock, t \in Times : SetTime(c, t)
    \/ \E s \in Servers, bases \in (SUBSET Bases) \ {{}}, t \in Times : ServerSends(s, bases, t)
    \/ \E c \in Clock, s \in Publishers : OnClockMessageReceived(c, s)

Spec == Init /\ [][Next]_vars

-----------------------------------------------------------------------------
Delivered(c) == \A s \in Publishers : channel[s][c] = <<>>
Setters(b) == {s \in Publishers : b \in DOMAIN lastSet[s]}

\* Nobody arbitrates between publishers, but a clock that has got all messages
\* reads what one of those that ever set its base has set last, so that with a
\* single one all clocks agree; and it is ready unless that was zero.  A time
\* whose seconds an int cannot hold is read as another (clock.cpp:103, :136,
\* :145, :193).
ClocksFollow ==
    \A c \in Clock : Delivered(c) =>
        IF Setters(BaseOf[c]) = {} THEN ~IsReady(c)
        ELSE \E s \in Setters(BaseOf[c]) :
                clockTimeNS[c] = TimeIn(lastSet[s][BaseOf[c]])
=============================================================================
