------------------------------ MODULE Recorder ------------------------------
(***************************************************************************)
(* The log recorder: Recorder::Start and Stop, the callback that every     *)
(* subscription of the recorder shares, and the thread that writes what    *)
(* the callback queued.                                                    *)
(*                                                                         *)
(* Callbacks run on the threads of the transport, any number at a time.    *)
(* They test dataWriterState without a lock and queue under                *)
(* dataQueueMutex.  Stop clears the flag and notifies without that mutex,  *)
(* joins the writer and writes the rest of the queue itself.               *)
(*                                                                         *)
(* The byte count bufferSize grows with every queued message and shrinks   *)
(* only when the callback discards one; taking a message to write it       *)
(* leaves the count alone.                                                 *)
(*                                                                         *)
(* The writer and Stop insert into the handle of LogFile, whose            *)
(* transactions decide what a file holds when the process dies.            *)
(*                                                                         *)
(* The subscriptions are there from the beginning, one thread calls Start  *)
(* and Stop, and the size of the buffer is not changed on the way.         *)
(***************************************************************************)
EXTENDS LogFile

CONSTANTS
    Source,         \* the threads that call OnMessageReceived
    LenOf,          \* LenOf[c]: the bytes of each message of c
    MaxBuffer,      \* maxBufferSize; 0 stands for no limit
    Quota,          \* bound: Quota[c] messages of c
    MaxRecordings,  \* bound: calls of Start
    MaxFailures,    \* bound: failures of SQLite
    MaxWakeups,     \* bound: spurious wakeups of the writer
    MaxCrashes      \* bound: processes that die

ASSUME BufferAssumption ==
    /\ LenOf \in [Source -> Nat]
    /\ MaxBuffer \in Nat

ASSUME BoundAssumption ==
    /\ Quota \in [Source -> Nat]
    /\ MaxRecordings \in Nat
    /\ MaxFailures \in Nat
    /\ MaxWakeups \in Nat
    /\ MaxCrashes \in Nat

VARIABLES
    recording,  \* logFile is not null
    running,    \* dataWriterState
    queue,      \* dataQueue
    bufferSize,
    writer,     \* the data writer thread
    callback,   \* callback[c]: "push" once c has found the writer running
    user,       \* the thread that calls Start and Stop
    started,    \* how many recordings have been started
    received,   \* received[c]: how many messages c was called with
    taken,      \* the messages ever queued, in this order
    dropped,    \* the messages discarded to make room
    lost,       \* the messages that SQLite did not accept or gave up, and those
                \* that a process that died had in memory
    failures,   \* failures of SQLite so far
    log,        \* logFile
    files,      \* what the closed files hold, one after the other
    waiting,    \* the time that the oldest row not on disk has been waiting for,
                \* in halves of transactionPeriod, as far as it matters
    spread,     \* what waiting was when the newest row not on disk was inserted
    missed,     \* Stop notified between the writer's test and its blocking
    wakeups,    \* spurious wakeups so far
    crashes     \* processes that have died so far

vars == <<recording, running, queue, bufferSize, writer, callback, user,
          started, received, taken, dropped, lost, failures, log, files,
          waiting, spread, missed, wakeups, crashes>>

\* What the recordings consist of.
written == <<lost, failures, log, files, waiting, spread>>

-----------------------------------------------------------------------------
Message == [from : Source, seq : Nat \ {0}]

At(pc) == [pc |-> pc]

\* "checked": holds dataQueueMutex, has found the queue empty and the flag
\* set, and is about to block.  "none": not started, or ended.
WriterState ==
         [pc : {"none", "loop", "enter", "checked", "blocked"}]
    \cup [pc : {"write"}, msg : Message]

QueueUnlocked == writer.pc # "checked"

\* Slip: nobody is notified.
NotifiedNobody == writer

\* dataQueueCondVar.notify_one: the writer, if it is blocked, tests again.
Notified == IF writer.pc = "blocked" THEN At("enter") ELSE writer

-----------------------------------------------------------------------------
(* OnMessageReceived.                                                      *)

\* The flag is tested and the message copied; nothing is kept of a message
\* that finds the writer stopped.
Receive(c) ==
    /\ callback[c] = "idle"
    /\ received[c] < Quota[c]
    /\ received' = [received EXCEPT ![c] = @ + 1]
    /\ callback' = [callback EXCEPT ![c] = IF running THEN "push" ELSE "idle"]
    /\ UNCHANGED <<recording, running, queue, bufferSize, writer, user, started,
                   taken, dropped, written, missed, wakeups, crashes>>

\* There is no room for len more bytes.
Full(len) == MaxBuffer > 0 /\ bufferSize + len > MaxBuffer

\* Slip: one discard empties the buffer.
DecrementedToZero(len) == 0

\* DecrementBufferSize: never below zero.
Decremented(len) == IF bufferSize >= len THEN bufferSize - len ELSE 0

\* The oldest message makes room, one at most, however large the new one is.
Discards(c) == Full(LenOf[c]) /\ queue # <<>>

\* The rest of the callback, under dataQueueMutex.
Push(c) ==
    LET m == [from |-> c, seq |-> received[c]]
    IN  /\ callback[c] = "push"
        /\ QueueUnlocked
        /\ IF Discards(c)
           THEN /\ queue' = Append(Tail(queue), m)
                /\ bufferSize' = Decremented(LenOf[Head(queue).from]) + LenOf[c]
                /\ dropped' = dropped \cup {Head(queue)}
           ELSE /\ queue' = Append(queue, m)
                /\ bufferSize' = bufferSize + LenOf[c]
                /\ UNCHANGED dropped
        /\ taken' = Append(taken, m)
        /\ writer' = Notified
        /\ callback' = [callback EXCEPT ![c] = "idle"]
        /\ UNCHANGED <<recording, running, user, started, received, written,
                       missed, wakeups, crashes>>

-----------------------------------------------------------------------------
(* DataWriterThread.                                                       *)

WriterStep(pc) ==
    /\ writer' = At(pc)
    /\ UNCHANGED <<recording, running, queue, bufferSize, callback, user, started,
                   received, taken, dropped, written, missed, crashes>>

\* The condition of the loop.
WriterLoop ==
    /\ writer.pc = "loop"
    /\ WriterStep(IF running THEN "enter" ELSE "none")
    /\ UNCHANGED wakeups

\* Slip: the predicate of the wait tests the queue alone.
WriterFindNothingFlagless ==
    /\ writer.pc = "enter"
    /\ queue = <<>>
    /\ WriterStep("checked")
    /\ UNCHANGED wakeups

\* The queue is empty: wait when the flag is still set, and otherwise test it
\* again.
WriterFindNothing ==
    /\ writer.pc = "enter"
    /\ queue = <<>>
    /\ WriterStep(IF running THEN "checked" ELSE "loop")
    /\ UNCHANGED wakeups

\* The mutex is given up only here.
WriterBlock ==
    /\ writer.pc = "checked"
    /\ WriterStep("blocked")
    /\ UNCHANGED wakeups

SpuriousWakeup ==
    /\ writer.pc = "blocked"
    /\ wakeups < MaxWakeups
    /\ wakeups' = wakeups + 1
    /\ WriterStep("enter")

\* The oldest message, even when the flag has been cleared meanwhile.
WriterTake ==
    /\ writer.pc = "enter"
    /\ queue # <<>>
    /\ writer' = [pc |-> "write", msg |-> Head(queue)]
    /\ queue' = Tail(queue)
    /\ UNCHANGED <<recording, running, bufferSize, callback, user, started,
                   received, taken, dropped, written, missed, wakeups, crashes>>

\* What a message becomes in the file.
Row(m) == [topic |-> m.from, type |-> "type", time |-> m.seq, msg |-> m]

Messages(rows) == [i \in DOMAIN rows |-> rows[i].msg]

\* waiting and spread, once the handle has gone to l.
Waiting(l) == IF l.pending = <<>> THEN 0 ELSE waiting

Spread(l) ==
    IF Len(Table(l)) > Len(Table(log)) THEN Waiting(l)
    ELSE IF l.pending = <<>> THEN 0 ELSE spread

Fails ==
    /\ failures < MaxFailures
    /\ failures' = failures + 1

\* WriteToLogFile, of which nothing comes without a file; what InsertMessage
\* returns is not looked at.
WriteToLogFile(m) ==
    \/ ~ recording /\ UNCHANGED written
    \/ /\ recording
       /\ UNCHANGED files
       /\ \/ /\ LenOf[m.from] # 0
             /\ log' = Inserted(log, Row(m))
             /\ UNCHANGED <<lost, failures>>
          \/ /\ LenOf[m.from] = 0
             /\ log' = EmptyRefused(log, Row(m))
             /\ lost' = lost \cup {m}
             /\ UNCHANGED failures
          \/ /\ Fails
             /\ log' \in InsertFailed(log, Row(m))
             /\ lost' = lost \cup {m}
          \/ /\ LenOf[m.from] # 0
             /\ Fails
             /\ log' \in EndFailed(log, Row(m))
             /\ UNCHANGED lost
       /\ waiting' = Waiting(log')
       /\ spread' = Spread(log')

WriterWrite ==
    /\ writer.pc = "write"
    /\ WriteToLogFile(writer.msg)
    /\ writer' = At("loop")
    /\ UNCHANGED <<recording, running, queue, bufferSize, callback, user, started,
                   received, taken, dropped, missed, wakeups, crashes>>

-----------------------------------------------------------------------------
(* Start and Stop.                                                         *)

\* Start on a file that opens.  The queue and the count are as they were left.
Start ==
    /\ user = "idle"
    /\ ~ recording
    /\ started < MaxRecordings
    /\ started' = started + 1
    /\ recording' = TRUE
    /\ log' = NewLog
    /\ running' = TRUE
    /\ writer' = At("loop")
    /\ UNCHANGED <<queue, bufferSize, callback, user, received, taken, dropped,
                   lost, failures, files, waiting, spread, missed, wakeups, crashes>>

\* Stop while a recording is in progress; it is without effect otherwise.
Stop ==
    /\ user = "idle"
    /\ recording
    /\ running' = FALSE
    /\ user' = "notify"
    /\ UNCHANGED <<recording, queue, bufferSize, writer, callback, started,
                   received, taken, dropped, written, missed, wakeups, crashes>>

\* notify_one, which does not take dataQueueMutex.
StopNotify ==
    /\ user = "notify"
    /\ writer' = Notified
    /\ missed' = (writer.pc = "checked")
    /\ user' = "join"
    /\ UNCHANGED <<recording, running, queue, bufferSize, callback, started,
                   received, taken, dropped, written, wakeups, crashes>>

\* Slip: the thread is detached.
StopWithoutJoin ==
    /\ user = "join"
    /\ user' = "flush"
    /\ UNCHANGED <<recording, running, queue, bufferSize, writer, callback, started,
                   received, taken, dropped, written, missed, wakeups, crashes>>

StopJoin ==
    /\ user = "join"
    /\ writer.pc = "none"
    /\ user' = "flush"
    /\ UNCHANGED <<recording, running, queue, bufferSize, writer, callback, started,
                   received, taken, dropped, written, missed, wakeups, crashes>>

\* One round of FlushDataQueue.  Nobody else writes, so that to take a message
\* and to write it are one step.
Flush ==
    /\ user = "flush"
    /\ QueueUnlocked
    /\ queue # <<>>
    /\ queue' = Tail(queue)
    /\ WriteToLogFile(Head(queue))
    /\ UNCHANGED <<recording, running, bufferSize, writer, callback, user, started,
                   received, taken, dropped, missed, wakeups, crashes>>

FlushDone ==
    /\ user = "flush"
    /\ QueueUnlocked
    /\ queue = <<>>
    /\ user' = "close"
    /\ UNCHANGED <<recording, running, queue, bufferSize, writer, callback, started,
                   received, taken, dropped, written, missed, wakeups, crashes>>

\* logFile is reset, which ends its transaction if SQLite does not fail, and
\* Stop returns.
Close ==
    /\ user = "close"
    /\ recording' = FALSE
    /\ user' = "idle"
    /\ log' = NoLog
    /\ waiting' = 0
    /\ spread' = 0
    /\ \/ /\ files' = files \o FileOf(log)
          /\ UNCHANGED <<lost, failures>>
       \/ /\ log.inTransaction
          /\ Fails
          /\ files' = files \o FileAfterCrash(log)
          /\ lost' = lost \cup Range(Messages(log.pending))
    /\ UNCHANGED <<running, queue, bufferSize, writer, callback, started, received,
                   taken, dropped, missed, wakeups, crashes>>

\* Half a transactionPeriod passes.
Tick ==
    /\ log.inTransaction
    /\ log' = Older(log)
    /\ waiting' = IF log.pending # <<>> /\ waiting <= TransactionPeriod THEN waiting + 1
                  ELSE waiting
    /\ UNCHANGED <<recording, running, queue, bufferSize, writer, callback, user,
                   started, received, taken, dropped, lost, failures, files,
                   spread, missed, wakeups, crashes>>

-----------------------------------------------------------------------------
(* The process.                                                            *)

\* The message the writer has in its hands.
InHand == IF writer.pc = "write" THEN <<writer.msg>> ELSE <<>>

\* The process dies, and another may go on with a file of its own: of the file
\* that was open, what its ended transactions put there stays.
Crash ==
    /\ crashes < MaxCrashes
    /\ crashes' = crashes + 1
    /\ recording' = FALSE
    /\ running' = FALSE
    /\ queue' = <<>>
    /\ bufferSize' = 0
    /\ writer' = At("none")
    /\ callback' = [c \in Source |-> "idle"]
    /\ user' = "idle"
    /\ log' = NoLog
    /\ files' = files \o FileAfterCrash(log)
    /\ lost' = lost \cup Range(Messages(log.pending) \o InHand \o queue)
    /\ waiting' = 0
    /\ spread' = 0
    /\ missed' = FALSE
    /\ UNCHANGED <<started, received, taken, dropped, failures, wakeups>>

-----------------------------------------------------------------------------
Init ==
    /\ recording = FALSE
    /\ running = FALSE
    /\ queue = <<>>
    /\ bufferSize = 0
    /\ writer = At("none")
    /\ callback = [c \in Source |-> "idle"]
    /\ user = "idle"
    /\ started = 0
    /\ received = [c \in Source |-> 0]
    /\ taken = <<>>
    /\ dropped = {}
    /\ lost = {}
    /\ failures = 0
    /\ log = NoLog
    /\ files = <<>>
    /\ waiting = 0
    /\ spread = 0
    /\ missed = FALSE
    /\ wakeups = 0
    /\ crashes = 0

WriterRuns ==
    WriterLoop \/ WriterFindNothing \/ WriterBlock \/ WriterTake \/ WriterWrite

StopContinues == StopNotify \/ StopJoin \/ Flush \/ FlushDone \/ Close

Next ==
    \/ \E c \in Source : Receive(c) \/ Push(c)
    \/ WriterRuns \/ SpuriousWakeup
    \/ Start \/ Stop \/ StopContinues
    \/ Tick \/ Crash

Spec == Init /\ [][Next]_vars

\* The threads run: the writer, a callback and a Stop that have begun.  Nobody
\* counts on a spurious wakeup, nor on the user's calling Stop.
FairSpec ==
    /\ Spec
    /\ WF_vars(WriterRuns)
    /\ \A c \in Source : WF_vars(Push(c))
    /\ WF_vars(StopContinues)

-----------------------------------------------------------------------------
(* Properties.                                                             *)

InQueue == Range(queue)

Of(c, S) == { m \in S : m.from = c }

\* What Row makes of the messages.
LogRow == [topic : Source, type : {"type"}, time : Nat, msg : Message]

TypeOK ==
    /\ recording \in BOOLEAN
    /\ running \in BOOLEAN
    /\ queue \in Seq(Message)
    /\ bufferSize \in Nat
    /\ writer \in WriterState
    /\ callback \in [Source -> {"idle", "push"}]
    /\ user \in {"idle", "notify", "join", "flush", "close"}
    /\ started \in 0..MaxRecordings
    /\ received \in [Source -> Nat]
    /\ \A c \in Source : received[c] <= Quota[c]
    /\ taken \in Seq(Message)
    /\ dropped \in SUBSET Message
    /\ lost \in SUBSET Message
    /\ failures \in 0..MaxFailures
    /\ DOMAIN log = DOMAIN NewLog
    /\ log.committed \in Seq(LogRow)
    /\ log.pending \in Seq(LogRow)
    /\ log.inTransaction \in BOOLEAN
    /\ log.age \in 0..TransactionPeriod + 1
    /\ files \in Seq(LogRow)
    /\ waiting \in 0..TransactionPeriod + 1
    /\ spread \in 0..TransactionPeriod + 1
    /\ missed \in BOOLEAN
    /\ wakeups \in 0..MaxWakeups
    /\ crashes \in 0..MaxCrashes

\* kept is all without what is gone, in the same order and without doubles.
RestOf(kept, all, gone) ==
    /\ Range(kept) = Range(all) \ gone
    /\ \A i, j \in DOMAIN kept : \A k, l \in DOMAIN all :
          i < j /\ kept[i] = all[k] /\ kept[j] = all[l] => k < l

\* What was queued and not discarded is, in the order it was queued, written,
\* in the writer's hands, or still queued: over several recordings, whatever
\* Stop interrupts, nothing is lost, doubled or reordered but what SQLite
\* refused or a process that died had in memory.  In particular nobody writes
\* without a file (WriteToLogFile would skip the message).
Conserved ==
    RestOf(Messages(files \o Table(log)) \o InHand \o queue,
           taken, dropped \cup lost)

\* The bytes of the messages of a queue.
Bytes(q) ==
    LET sum[i \in 0..Len(q)] == IF i = 0 THEN 0 ELSE sum[i-1] + LenOf[q[i].from]
    IN  sum[Len(q)]

\* bufferSize is never less than the bytes in the queue, so that the branch of
\* DecrementBufferSize that "shouldn't happen" does not, and the limit of
\* SetBufferSize holds for the number of messages: the queue never has more of
\* them than MaxBuffer bytes can be made of.
BufferBounded ==
    /\ bufferSize >= Bytes(queue)
    /\ \/ MaxBuffer = 0
       \/ Len(queue) <= 1
       \/ \E c \in Source : Len(queue) * LenOf[c] <= MaxBuffer

\* Once Stop has returned, the queue holds at most the one message of each
\* thread whose callback had found the writer running: the rest is in the file
\* ("This function will block if there is any data in the internal buffer that
\* has not yet been written to disk", Recorder::Stop).
LeftBehind ==
    ~ recording => \A c \in Source : Cardinality(Of(c, InQueue)) <= 1

\* What was queued is written once and in order, up to Stop and through it.
WrittenOnce == Conserved /\ LeftBehind

\* Of the rows inserted, a process that dies takes with it at most those of one
\* period: the oldest and the newest of them were inserted no further apart
\* than that, because the insertion that finds the transaction older ends it.
\* And Stop leaves no row in memory.  Unless SQLite failed (log.cpp:186, :226,
\* :376).
OnDisk ==
    [][/\ crashes' # crashes /\ failures = 0 => spread <= TransactionPeriod
       /\ crashes' = crashes /\ failures' = 0 /\ recording /\ ~ recording' =>
              Len(files') = Len(files \o Table(log))]_vars

\* What is queued during a recording is written or discarded without any help
\* from messages to come.
EventuallyWritten ==
    \A c \in Source : \A i \in 1..Quota[c] :
        LET m == [from |-> c, seq |-> i]
        IN  m \in InQueue /\ running ~>
                m \in Range(Messages(files \o Table(log))) \cup lost \cup dropped \/ ~ running

\* Stop returns, unless its notification fell between the writer's test of the
\* flag and its blocking: it is sent without the mutex, and then the join
\* waits for a wakeup that need not come.
StopReturns == user = "notify" ~> user = "idle" \/ missed
=============================================================================
