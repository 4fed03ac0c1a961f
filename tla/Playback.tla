------------------------------ MODULE Playback ------------------------------
(***************************************************************************)
(* The playback of a log (src/aerozen/log/src/playback.cpp): the choice of *)
(* the topics, and one handle, whose thread publishes the messages at the  *)
(* pace of the log while users pause, resume, step, seek, stop, and wait   *)
(* for its end.                                                            *)
(*                                                                         *)
(* stop, paused and finished are atomic; the times and the iterator are    *)
(* read and written with batchMutex, pauseMutex or no mutex at all, so     *)
(* that every stretch of code between two of their accesses by the other   *)
(* side is an action of its own.                                           *)
(*                                                                         *)
(* Time is discrete.  elapsed is the time since lastEventTime, a wait is   *)
(* known by what remains of it; Tick lets one unit pass.                   *)
(***************************************************************************)
EXTENDS LogQuery

CONSTANTS
    Rows,       \* the messages in the file, see LogQuery
    Keys,       \* its descriptor
    MsgWaiting, \* whether the pace of the log is kept
    Users,      \* the threads that use the handle
    Waiters,    \* those of them that call WaitUntilFinished only
    Steps,      \* the durations Step is called with
    Offsets,    \* the elapsed times Seek is called with
    Patterns,   \* sets of topics that regular expressions match
    MaxChoices, \* bound: calls of AddTopic and RemoveTopic
    MaxCalls,   \* bound: calls by the users
    Horizon     \* bound: the time since an event that passes with no wait left

\* nanoseconds::max().
Forever == 10000

TimesOf(rows) == {rows[i].time : i \in DOMAIN rows}

\* Seek does not test that a message is left: past the last one it
\* dereferences the end of the batch, which is undefined.
ASSUME PlaybackAssumption ==
    /\ Rows \in Seq({Rows[i] : i \in DOMAIN Rows})
    /\ TimesOf(Rows) \subseteq 0..Forever
    /\ \A i \in DOMAIN Rows : TopicId(Keys, Rows[i].topic, Rows[i].type) # -1
    /\ Users # {} /\ Waiters \subseteq Users
    /\ MsgWaiting \in BOOLEAN
    /\ Steps \subseteq Nat /\ Offsets \subseteq Nat
    /\ \A p \in Patterns : p \subseteq LoggedTopics(Keys)
    /\ {MaxChoices, MaxCalls, Horizon} \subseteq Nat

VARIABLES
    topicNames, addTopicWasUsed,    \* Playback: the choice of topics
    choices,                        \* calls that made the choice
    tracked,                        \* trackedTopics of the handle
    iter,                           \* messageIter
    stop, paused, finished,
    firstMessageTime, playbackTime, boundaryTime, nextMessageTime,
    elapsed,                        \* time since lastEventTime
    thread,                         \* the playback thread
    user,                           \* user[u]: where u is in its call
    calls,                          \* calls begun
    late,       \* messages published against the command in force
    settled,    \* a step began when the thread was blocked in a pause, no Seek
                \* was on its way or had spoilt nextMessageTime, and nothing was
                \* called since
    resumed,    \* Resume was the last call, in no step, and nothing was since
    missed      \* waiters that finished fell between the test and the wait of

chosen  == <<topicNames, addTopicWasUsed, choices>>
times   == <<playbackTime, boundaryTime, nextMessageTime, elapsed>>
flags   == <<stop, paused, finished>>
ghosts  == <<late, settled, resumed, missed>>
vars == <<chosen, tracked, iter, flags, firstMessageTime, times, thread, user,
          calls, ghosts>>

-----------------------------------------------------------------------------
(***************************************************************************)
(* The thread is                                                           *)
(*   "none"    not started;        "loop"    before the loop's condition;  *)
(*   "checked" past the condition; "paused"  blocked in a pause;           *)
(*   "chose"   past the test of paused;                                    *)
(*   "wait"    about to test whether the wait is over;                     *)
(*   "tested"  it is not;          "asleep"  blocked in the wait;          *)
(*   "act"     past the wait;                                              *)
(*   "ended"   past the loop;      "notify"  past finished = true;         *)
(*   "done".                                                               *)
(* remaining: what remains of its wait.  ending: the wait ends a step.     *)
(***************************************************************************)
Thread(at) == [thread EXCEPT !.at = at]
ThreadAt(at) == thread.at = at

UserAt(u, at) == user[u].at = at
UserGoes(u, at) == user' = [user EXCEPT ![u].at = at]

Init ==
    /\ topicNames = {} /\ addTopicWasUsed = FALSE /\ choices = 0
    /\ tracked = {}
    /\ iter = Begin(<<>>)
    /\ stop = TRUE /\ paused = FALSE /\ finished = FALSE
    /\ firstMessageTime = 0
    /\ playbackTime = 0 /\ boundaryTime = Forever /\ nextMessageTime = 0
    /\ elapsed = 0
    /\ thread = [at |-> "none", remaining |-> 0, ending |-> FALSE]
    /\ user = [u \in Users |-> [at |-> "new", read |-> 0]]
    /\ calls = 0
    /\ late = 0 /\ settled = FALSE /\ resumed = FALSE /\ missed = {}

-----------------------------------------------------------------------------
(***************************************************************************)
(* Playback::AddTopic and RemoveTopic, before Start.                       *)
(***************************************************************************)
Choose(names) ==
    /\ \A u \in Users : UserAt(u, "new")
    /\ choices < MaxChoices
    /\ choices' = choices + 1
    /\ addTopicWasUsed' = TRUE
    /\ topicNames' = names
    /\ UNCHANGED <<tracked, iter, flags, firstMessageTime, times, thread, user,
                   calls, ghosts>>

\* A topic that the log does not hold is not added, but from now on only
\* the topics that were asked for are played.
AddTopic(topic) == Choose(topicNames \cup ({topic} \cap LoggedTopics(Keys)))

AddTopics(pattern) ==
    Choose(topicNames \cup {t \in LoggedTopics(Keys) : t \in pattern})

DefaultToAllTopics ==
    IF addTopicWasUsed THEN topicNames ELSE topicNames \cup LoggedTopics(Keys)

RemoveTopic(topic) == Choose(DefaultToAllTopics \ {topic})

RemoveTopics(pattern) == Choose(DefaultToAllTopics \ pattern)

\* Playback::Start: the topics and the first batch of the handle, and the
\* thread, unless there is nothing to play.  The publishers are created and
\* waited for.
Start ==
    LET topics == IF addTopicWasUsed THEN topicNames ELSE LoggedTopics(Keys)
        first  == Begin(TopicList(Rows, Keys, topics, AllTime))
    IN  /\ \A u \in Users : UserAt(u, "new")
        /\ user' = [u \in Users |-> [at |-> "idle", read |-> 0]]
        /\ tracked' = topics
        /\ iter' = first
        /\ IF AtEnd(first)
           THEN UNCHANGED <<firstMessageTime, times, stop, thread>>
           ELSE /\ stop' = FALSE
                /\ firstMessageTime' = first.message.time
                /\ playbackTime' = OrderByTime(Rows, DOMAIN Rows)[1].time
                /\ nextMessageTime' = first.message.time
                /\ boundaryTime' = Forever
                /\ elapsed' = 0
                /\ thread' = Thread("loop")
        /\ UNCHANGED <<chosen, paused, finished, calls, ghosts>>

-----------------------------------------------------------------------------
(***************************************************************************)
(* The playback thread.                                                    *)
(***************************************************************************)
ThreadGoes(at) ==
    /\ thread' = Thread(at)
    /\ UNCHANGED <<chosen, tracked, iter, flags, firstMessageTime, times, user,
                   calls, ghosts>>

\* The condition of the loop.
LoopTest ==
    /\ ThreadAt("loop")
    /\ ThreadGoes(IF stop \/ AtEnd(iter) THEN "ended" ELSE "checked")

\* Slip: a pause is noticed in a wait only.
TestNothing == ThreadAt("checked") /\ ThreadGoes("chose")

TestPaused ==
    /\ ThreadAt("checked")
    /\ ThreadGoes(IF paused THEN "paused" ELSE "chose")

\* The wait under pauseMutex, which every change of paused takes.
PauseOver ==
    /\ ThreadAt("paused")
    /\ ~paused
    /\ elapsed' = 0
    /\ thread' = Thread("loop")
    /\ UNCHANGED <<chosen, tracked, iter, flags, firstMessageTime, playbackTime,
                   boundaryTime, nextMessageTime, user, calls, ghosts>>

\* How long until a time of the log, if playbackTime was elapsed ago.
Remaining(time) ==
    LET r == time - playbackTime - elapsed IN IF r > 0 THEN r ELSE 0

\* Slip: a step ends with the first message that it does not reach.
ChooseTargetByPlaybackTime ==
    /\ ThreadAt("chose")
    /\ thread' =
        IF playbackTime <= boundaryTime
        THEN [at |-> IF MsgWaiting THEN "wait" ELSE "act",
              remaining |-> IF MsgWaiting THEN Remaining(nextMessageTime) ELSE 0,
              ending |-> FALSE]
        ELSE [at |-> "wait", remaining |-> Remaining(boundaryTime),
              ending |-> TRUE]
    /\ UNCHANGED <<chosen, tracked, iter, flags, firstMessageTime, times, user,
                   calls, ghosts>>

\* The next message, or the end of the step if that comes first.
ChooseTarget ==
    /\ ThreadAt("chose")
    /\ thread' =
        IF nextMessageTime <= boundaryTime
        THEN [at |-> IF MsgWaiting THEN "wait" ELSE "act",
              remaining |-> IF MsgWaiting THEN Remaining(nextMessageTime) ELSE 0,
              ending |-> FALSE]
        ELSE [at |-> "wait", remaining |-> Remaining(boundaryTime),
              ending |-> TRUE]
    /\ UNCHANGED <<chosen, tracked, iter, flags, firstMessageTime, times, user,
                   calls, ghosts>>

\* WaitUntil: wait_for gives the value of its predicate, which is true as
\* well when stop or paused ended the wait, so that the caller goes on in
\* every case.
WaitTest ==
    /\ ThreadAt("wait")
    /\ ThreadGoes(IF thread.remaining = 0 \/ stop \/ paused
                  THEN "act" ELSE "tested")

Block == ThreadAt("tested") /\ ThreadGoes("asleep")

\* The time has come, also if it came before the thread blocked.
WaitOver ==
    /\ ThreadAt("asleep") /\ thread.remaining = 0
    /\ ThreadGoes("wait")

SpuriousWakeup == ThreadAt("asleep") /\ ThreadGoes("wait")

\* A Seek is on its way, at whose end no step is in force.
Seeking == \E u \in Users : user[u].at \in {"seek", "sought"}

\* What a message published now would go against: a pause, a stop, or the
\* end of a step, unless a Seek is about to take it back.
Forbidden ==
    \/ paused \/ stop
    \/ /\ boundaryTime # Forever
       /\ ~(iter.message.time <= boundaryTime)
       /\ ~Seeking

\* The message the iterator points to, under batchMutex.
Publish ==
    /\ ThreadAt("act") /\ ~thread.ending
    /\ late' = late + (IF Forbidden THEN 1 ELSE 0)
    /\ iter' = StepStatement(iter)
    /\ playbackTime' = nextMessageTime
    /\ elapsed' = 0
    /\ nextMessageTime' = iter'.message.time
    /\ thread' = Thread("loop")
    /\ UNCHANGED <<chosen, tracked, flags, firstMessageTime, boundaryTime, user,
                   calls, settled, resumed, missed>>

\* Slip: the pause does not end the step.
DoPauseKeepingBoundary ==
    IF paused THEN UNCHANGED <<paused, playbackTime, boundaryTime, elapsed>>
    ELSE /\ paused' = TRUE
         /\ playbackTime' = playbackTime + elapsed
         /\ elapsed' = 0
         /\ UNCHANGED boundaryTime

\* Implementation::Pause, under pauseMutex. stopConditionVariable, on which
\* the thread may be asleep, is not notified.
DoPause ==
    IF paused THEN UNCHANGED <<paused, playbackTime, boundaryTime, elapsed>>
    ELSE /\ paused' = TRUE
         /\ playbackTime' = playbackTime + elapsed
         /\ elapsed' = 0
         /\ boundaryTime' = Forever

\* A step is over: the thread pauses itself.
EndStep ==
    /\ ThreadAt("act") /\ thread.ending
    /\ DoPause
    /\ thread' = Thread("loop")
    /\ UNCHANGED <<chosen, tracked, iter, stop, finished, firstMessageTime,
                   nextMessageTime, user, calls, ghosts>>

Finish ==
    /\ ThreadAt("ended")
    /\ finished' = TRUE
    /\ thread' = Thread("notify")
    /\ UNCHANGED <<chosen, tracked, iter, stop, paused, firstMessageTime, times,
                   user, calls, ghosts>>

\* notify_all, without waitMutex: it wakes the waiters that are blocked.
NotifyFinished ==
    /\ ThreadAt("notify")
    /\ thread' = Thread("done")
    /\ user' = [u \in Users |-> IF UserAt(u, "blocked")
                                THEN [user[u] EXCEPT !.at = "test"] ELSE user[u]]
    /\ missed' = {u \in Users : UserAt(u, "tested")}
    /\ UNCHANGED <<chosen, tracked, iter, flags, firstMessageTime, times, calls,
                   late, settled, resumed>>

-----------------------------------------------------------------------------
(***************************************************************************)
(* The users' calls.                                                       *)
(***************************************************************************)
CanCall(u) == u \notin Waiters /\ UserAt(u, "idle") /\ calls < MaxCalls

\* The thread is between the start of the wait that ends a step and its end.
InStep == thread.ending /\ thread.at \in {"wait", "tested", "asleep", "act"}

Pause(u) ==
    /\ CanCall(u)
    /\ calls' = calls + 1
    /\ DoPause
    /\ late' = IF paused THEN late ELSE 0
    /\ settled' = FALSE /\ resumed' = FALSE
    /\ UNCHANGED <<chosen, tracked, iter, stop, finished, firstMessageTime,
                   nextMessageTime, thread, user, missed>>

Resume(u) ==
    /\ CanCall(u)
    /\ calls' = calls + 1
    /\ paused' = FALSE
    /\ settled' = FALSE
    /\ resumed' = (paused /\ ~stop /\ ~InStep)
    /\ UNCHANGED <<chosen, tracked, iter, stop, finished, firstMessageTime, times,
                   thread, user, late, missed>>

\* Step, whose precondition is that playback is paused: the boundary, and
\* then Resume.
Step(u, duration) ==
    /\ CanCall(u)
    /\ paused
    /\ duration # 0
    /\ calls' = calls + 1
    /\ boundaryTime' = playbackTime + duration
    /\ user' = [user EXCEPT ![u].at = "step"]
    /\ late' = 0
    /\ settled' = /\ ThreadAt("paused") /\ ~Seeking
                  /\ nextMessageTime = iter.message.time
    /\ resumed' = FALSE
    /\ UNCHANGED <<chosen, tracked, iter, flags, firstMessageTime, playbackTime,
                   nextMessageTime, elapsed, thread, missed>>

StepResume(u) ==
    /\ UserAt(u, "step")
    /\ paused' = FALSE
    /\ UserGoes(u, "idle")
    /\ UNCHANGED <<chosen, tracked, iter, stop, finished, firstMessageTime, times,
                   thread, calls, ghosts>>

\* Seek: a batch from the time on, under batchMutex ...
Seek(u, offset) ==
    LET begin == firstMessageTime + offset
        range == TimeRange(QualifiedTime(begin, "INCLUSIVE"),
                           QualifiedTime(Forever, "INCLUSIVE"))
    IN  /\ CanCall(u)
        /\ ~stop
        /\ calls' = calls + 1
        /\ iter' = Begin(TopicList(Rows, Keys, tracked, range))
        /\ ~AtEnd(iter')
        /\ UserGoes(u, "seek")
        /\ settled' = FALSE /\ resumed' = FALSE
        /\ UNCHANGED <<chosen, tracked, flags, firstMessageTime, times, thread,
                       late, missed>>

\* ... and without a mutex the time of its message, read twice ...
SeekPlaybackTime(u) ==
    /\ UserAt(u, "seek")
    /\ playbackTime' = iter.message.time
    /\ user' = [user EXCEPT ![u] = [at |-> "sought", read |-> iter.message.time]]
    /\ UNCHANGED <<chosen, tracked, iter, flags, firstMessageTime, boundaryTime,
                   nextMessageTime, elapsed, thread, calls, ghosts>>

\* ... and stored after the thread may have published that message.
SeekNextMessageTime(u) ==
    /\ UserAt(u, "sought")
    /\ nextMessageTime' = user[u].read
    /\ boundaryTime' = Forever
    /\ elapsed' = 0
    /\ user' = [user EXCEPT ![u] = [at |-> "idle", read |-> 0]]
    /\ UNCHANGED <<chosen, tracked, iter, flags, firstMessageTime, playbackTime,
                   thread, calls, ghosts>>

\* stopConditionVariable.notify_all wakes the thread if it is blocked.
StopNotified == IF ThreadAt("asleep") THEN Thread("wait") ELSE thread

Stop(u) ==
    /\ CanCall(u)
    /\ calls' = calls + 1
    /\ stop' = TRUE
    /\ thread' = StopNotified
    /\ UserGoes(u, "stop")
    /\ late' = 0
    /\ settled' = FALSE /\ resumed' = FALSE
    /\ UNCHANGED <<chosen, tracked, iter, paused, finished, firstMessageTime,
                   times, missed>>

\* Slip: a paused thread is left in its pause.
StopWithoutResume(u) ==
    /\ UserAt(u, "stop")
    /\ UserGoes(u, "join")
    /\ UNCHANGED <<chosen, tracked, iter, flags, firstMessageTime, times, thread,
                   calls, ghosts>>

\* The test of paused and, if it is set, the end of the pause.
StopPaused(u) ==
    /\ UserAt(u, "stop")
    /\ paused' = FALSE
    /\ UserGoes(u, "join")
    /\ UNCHANGED <<chosen, tracked, iter, stop, finished, firstMessageTime, times,
                   thread, calls, ghosts>>

StopJoin(u) ==
    /\ UserAt(u, "join")
    /\ thread.at \in {"none", "done"}
    /\ UserGoes(u, "idle")
    /\ UNCHANGED <<chosen, tracked, iter, flags, firstMessageTime, times, thread,
                   calls, ghosts>>

-----------------------------------------------------------------------------
(***************************************************************************)
(* WaitUntilFinished.                                                      *)
(***************************************************************************)
Waits(u, from, to) ==
    /\ UserAt(u, from)
    /\ UserGoes(u, to)
    /\ UNCHANGED <<chosen, tracked, iter, flags, firstMessageTime, times, thread,
                   calls, ghosts>>

WaitUntilFinished(u) ==
    u \in Waiters /\ Waits(u, "idle", IF stop THEN "gone" ELSE "test")

WaiterTest(u)  == Waits(u, "test", IF finished THEN "gone" ELSE "tested")
WaiterBlock(u) == Waits(u, "tested", "blocked")

-----------------------------------------------------------------------------
\* One unit of time.  While the thread has nothing to wait for, only so many
\* are told apart.
Tick ==
    /\ ~ThreadAt("none")
    /\ elapsed < Horizon \/ thread.remaining > 0
    /\ elapsed' = elapsed + 1
    /\ thread' = [thread EXCEPT !.remaining = IF @ > 0 THEN @ - 1 ELSE 0]
    /\ UNCHANGED <<chosen, tracked, iter, flags, firstMessageTime, playbackTime,
                   boundaryTime, nextMessageTime, user, calls, ghosts>>

Choice ==
    \/ \E t \in LoggedTopics(Keys) \cup {"unlogged"} : AddTopic(t) \/ RemoveTopic(t)
    \/ \E p \in Patterns : AddTopics(p) \/ RemoveTopics(p)
    \/ Start

ThreadContinues ==
    \/ LoopTest \/ TestPaused \/ PauseOver \/ ChooseTarget \/ WaitTest \/ Block
    \/ WaitOver \/ Publish \/ EndStep \/ Finish \/ NotifyFinished

UserCalls(u) ==
    \/ Pause(u) \/ Resume(u) \/ Stop(u) \/ WaitUntilFinished(u)
    \/ \E d \in Steps : Step(u, d)
    \/ \E o \in Offsets : Seek(u, o)

UserContinues(u) ==
    \/ StepResume(u) \/ SeekPlaybackTime(u) \/ SeekNextMessageTime(u)
    \/ StopPaused(u) \/ StopJoin(u)
    \/ WaiterTest(u) \/ WaiterBlock(u)

Next ==
    \/ Choice
    \/ ThreadContinues \/ SpuriousWakeup
    \/ \E u \in Users : UserCalls(u) \/ UserContinues(u)
    \/ Tick

Spec == Init /\ [][Next]_vars

\* Time passes, and the threads run.
FairSpec ==
    /\ Spec
    /\ WF_vars(Tick)
    /\ WF_vars(ThreadContinues)
    /\ \A u \in Users : WF_vars(UserContinues(u))

-----------------------------------------------------------------------------
(***************************************************************************)
(* Properties.                                                             *)
(***************************************************************************)

\* After Pause, Stop, or from the end of a step on, at most one message is
\* still published, the one that the thread was waiting to publish or past
\* its tests for (playback.cpp:544, :683, :689).
AtMostOneLate == late <= 1

\* A step begun when the thread was blocked in the pause, and no Seek was on its
\* way or had left it a stale nextMessageTime, publishes nothing beyond its
\* boundary, and its pause comes when the whole interval has been played and its
\* time has passed
\* (playback.cpp:534, :567).
StepIsExact ==
    [][settled /\ settled' =>
          /\ late' = 0
          /\ paused' /\ ~paused => /\ nextMessageTime > boundaryTime
                                   /\ playbackTime' >= boundaryTime]_vars

\* Stop returns, wherever the thread is, as long as nobody else pauses it
\* meanwhile (playback.cpp:670).
StopReturns ==
    \A u \in Users : UserAt(u, "stop") ~> UserAt(u, "idle")

\* Resume, in a pause that no step is about to make its own, lets playback
\* go on to the end unless something else is called (playback.cpp:704).
ResumePlays == resumed ~> (finished \/ ~resumed)

\* WaitUntilFinished returns once playback has finished, unless the end fell
\* between its test and its wait, since the notification is made without
\* waitMutex (playback.cpp:503, :594).
WaiterReturns ==
    \A u \in Waiters :
        (finished /\ user[u].at \in {"test", "tested", "blocked"})
            ~> (UserAt(u, "gone") \/ u \in missed)

\* Whoever waits in Stop or WaitUntilFinished is let go.
CallsReturn == StopReturns /\ WaiterReturns
=============================================================================
