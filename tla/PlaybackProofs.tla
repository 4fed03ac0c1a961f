--------------------------- MODULE PlaybackProofs ---------------------------
(***************************************************************************)
(* Theorems about Playback for every log, every set of users and waiters,  *)
(* and every value of the bounds.                                          *)
(***************************************************************************)
EXTENDS Playback, SequenceTheorems, FiniteSetTheorems, TLAPS

-----------------------------------------------------------------------------
(* The invariant.  Once a message went against the command in force, the    *)
(* thread has no other one on its way; a command that could forbid what is  *)
(* on its way begins a new count.                                           *)

Waiting == thread.at \in {"wait", "tested", "asleep", "act"}

\* The thread is past the test of paused, and not ending a step.
OnItsWay == ThreadAt("chose") \/ (Waiting /\ ~thread.ending)

\* The next message is beyond the end of the step in force.
BeyondStep ==
    /\ boundaryTime # Forever
    /\ ~(iter.message.time <= boundaryTime)
    /\ ~Seeking

LateInv ==
    /\ late \in {0, 1}
    /\ late = 1 =>
          /\ paused => ~OnItsWay
          /\ stop => thread.at \in {"loop", "ended", "notify", "done"}
          /\ BeyondStep => /\ nextMessageTime = iter.message.time
                           /\ Waiting => thread.ending

\* The records are records.
Shape ==
    /\ DOMAIN thread = {"at", "remaining", "ending"}
    /\ DOMAIN user = Users
    /\ \A u \in Users : DOMAIN user[u] = {"at", "read"}

Started == \E u \in Users : ~UserAt(u, "new")

\* Before Start there is no thread.
Fresh == ~Started => late = 0 /\ ThreadAt("none")

Inv == Shape /\ LateInv

LEMMA InvInit == Init => Inv
  <1> SUFFICES ASSUME Init PROVE Inv
    OBVIOUS
  <1>1. Shape
    BY DEF Init, Shape
  <1>2. LateInv
    BY DEF Init, LateInv
  <1>3. QED
    BY <1>1, <1>2 DEF Inv

-----------------------------------------------------------------------------
(* The shape.                                                              *)

LEMMA ThreadMoves ==
    ASSUME Shape, NEW at, thread' = Thread(at)
    PROVE  /\ DOMAIN thread' = DOMAIN thread
           /\ thread'.at = at /\ thread'.ending = thread.ending
  BY DEF Shape, Thread

\* One user goes on; a Seek ends in SeekNextMessageTime only.
LEMMA UserMoves ==
    ASSUME Shape, NEW u \in Users, NEW at, UserGoes(u, at),
           user[u].at \in {"seek", "sought"} => at \in {"seek", "sought"}
    PROVE  /\ DOMAIN user' = Users
           /\ \A v \in Users : DOMAIN user'[v] = {"at", "read"}
           /\ Seeking => Seeking'
  <1>1. user' = [user EXCEPT ![u] = [user[u] EXCEPT !.at = at]]
    BY DEF UserGoes
  <1>2. /\ DOMAIN user' = Users
        /\ user'[u] = [user[u] EXCEPT !.at = at]
        /\ \A v \in Users \ {u} : user'[v] = user[v]
    BY <1>1 DEF Shape
  <1>3. DOMAIN user'[u] = {"at", "read"} /\ user'[u].at = at
    BY <1>2 DEF Shape
  <1>4. \A v \in Users : DOMAIN user'[v] = {"at", "read"}
    BY <1>2, <1>3 DEF Shape
  <1>5. ASSUME Seeking PROVE Seeking'
    <2>1. PICK v \in Users : user[v].at \in {"seek", "sought"}
      BY <1>5 DEF Seeking
    <2>2. user'[v].at \in {"seek", "sought"}
      BY <1>2, <1>3, <2>1
    <2>3. QED
      BY <2>2 DEF Seeking
  <1>6. QED
    BY <1>2, <1>4, <1>5

-----------------------------------------------------------------------------
(* The steps.                                                              *)

\* The steps that neither publish nor command: no more is on its way than was.
LEMMA NothingNew ==
    ASSUME LateInv, late' = late,
           UNCHANGED <<iter, stop, nextMessageTime>>,
           paused' => paused,
           boundaryTime' = boundaryTime, Seeking => Seeking',
           OnItsWay' => OnItsWay \/ ~paused,
           thread.at \in {"loop", "ended", "notify", "done"} /\ stop =>
               thread'.at \in {"loop", "ended", "notify", "done"},
           Waiting' /\ ~thread'.ending =>
               (Waiting /\ ~thread.ending) \/ nextMessageTime <= boundaryTime
    PROVE  LateInv'
  <1>1. BeyondStep' => BeyondStep
    BY DEF BeyondStep
  <1>2. late' \in {0, 1}
    BY DEF LateInv
  <1>3. SUFFICES ASSUME late = 1
                 PROVE  /\ paused' => ~OnItsWay'
                        /\ stop' => thread'.at \in {"loop", "ended", "notify", "done"}
                        /\ BeyondStep' => /\ nextMessageTime' = iter'.message.time
                                          /\ Waiting' => thread'.ending
    BY <1>2 DEF LateInv
  <1>4. paused' => ~OnItsWay'
    BY <1>3 DEF LateInv
  <1>5. stop' => thread'.at \in {"loop", "ended", "notify", "done"}
    BY <1>3 DEF LateInv
  <1>6. ASSUME BeyondStep'
        PROVE  nextMessageTime' = iter'.message.time /\ (Waiting' => thread'.ending)
    <2>1. nextMessageTime = iter.message.time /\ (Waiting => thread.ending)
      BY <1>1, <1>3, <1>6 DEF LateInv
    <2>2. ~(nextMessageTime <= boundaryTime)
      BY <1>1, <1>6, <2>1 DEF BeyondStep
    <2>3. QED
      BY <2>1, <2>2
  <1>7. QED
    BY <1>4, <1>5, <1>6

\* A call that begins a new count.
LEMMA NewCount ==
    ASSUME late' = 0
    PROVE  LateInv'
  BY DEF LateInv

\* Without a step in force.
LEMMA NoStep ==
    ASSUME LateInv, late' = late, boundaryTime' = Forever, UNCHANGED <<paused, stop, thread>>
    PROVE  LateInv'
  BY DEF LateInv, BeyondStep, OnItsWay, Waiting, ThreadAt

\* The thread moves on, and nothing else of what counts does.
LEMMA ThreadStep ==
    ASSUME Inv, NEW at, thread' = Thread(at),
           UNCHANGED <<iter, stop, paused, nextMessageTime, boundaryTime, user, late>>,
           at = "chose" => ~paused,
           at \in {"wait", "tested", "asleep", "act"} => Waiting,
           thread.at \in {"loop", "ended", "notify", "done"} /\ stop =>
               at \in {"loop", "ended", "notify", "done"}
    PROVE  Inv'
  <1>1. Shape /\ LateInv
    BY DEF Inv
  <1>2. DOMAIN thread' = DOMAIN thread /\ thread'.at = at /\ thread'.ending = thread.ending
    BY <1>1, ThreadMoves
  <1>3. Shape'
    BY <1>1, <1>2 DEF Shape
  <1>4. Seeking' = Seeking
    BY DEF Seeking
  <1>5. Waiting' => Waiting
    BY <1>2 DEF Waiting
  <1>6. OnItsWay' => OnItsWay \/ ~paused
    BY <1>2, <1>5 DEF OnItsWay, ThreadAt
  <1>7. LateInv'
    BY <1>1, <1>2, <1>4, <1>5, <1>6, NothingNew
  <1>8. QED
    BY <1>3, <1>7 DEF Inv

LEMMA ThreadSteps ==
    ASSUME Inv, LoopTest \/ TestPaused \/ PauseOver \/ WaitTest \/ Block \/ WaitOver
                \/ SpuriousWakeup
    PROVE  Inv'
  <1>1. UNCHANGED <<iter, stop, paused, nextMessageTime, boundaryTime, user, late>>
    BY DEF LoopTest, TestPaused, PauseOver, WaitTest, Block, WaitOver, SpuriousWakeup,
           ThreadGoes, times, flags, ghosts
  <1>2. CASE LoopTest
    <2>1. PICK at \in {"ended", "checked"} : thread' = Thread(at) /\ (stop => at = "ended")
      BY <1>2 DEF LoopTest, ThreadGoes
    <2>2. QED
      BY <1>1, <2>1, ThreadStep
  <1>3. CASE TestPaused
    <2>1. PICK at \in {"paused", "chose"} :
              thread' = Thread(at) /\ (at = "chose" => ~paused) /\ thread.at = "checked"
      BY <1>3 DEF TestPaused, ThreadGoes, ThreadAt
    <2>2. QED
      BY <1>1, <2>1, ThreadStep
  <1>4. CASE PauseOver
    <2>1. thread' = Thread("loop")
      BY <1>4 DEF PauseOver
    <2>2. QED
      BY <1>1, <2>1, ThreadStep
  <1>5. CASE WaitTest \/ Block \/ WaitOver \/ SpuriousWakeup
    <2>1. PICK at \in {"act", "tested", "asleep", "wait"} :
              thread' = Thread(at) /\ thread.at \in {"wait", "tested", "asleep"}
      BY <1>5 DEF WaitTest, Block, WaitOver, SpuriousWakeup, ThreadGoes, ThreadAt
    <2>2. Waiting
      BY <2>1 DEF Waiting
    <2>3. QED
      BY <1>1, <2>1, <2>2, ThreadStep
  <1>6. QED
    BY <1>2, <1>3, <1>4, <1>5

LEMMA ChooseStep ==
    ASSUME Inv, ChooseTarget
    PROVE  Inv'
  <1>1. Shape /\ LateInv
    BY DEF Inv
  <1>2. /\ thread.at = "chose"
        /\ UNCHANGED <<iter, stop, paused, nextMessageTime, boundaryTime, user, late>>
    BY DEF ChooseTarget, ThreadAt, times, flags, ghosts
  <1>3. /\ DOMAIN thread' = {"at", "remaining", "ending"}
        /\ thread'.at \in {"wait", "act"}
        /\ ~thread'.ending => nextMessageTime <= boundaryTime
    BY DEF ChooseTarget
  <1>4. Shape'
    BY <1>1, <1>2, <1>3 DEF Shape
  <1>5. Seeking' = Seeking
    BY <1>2 DEF Seeking
  <1>6. OnItsWay
    BY <1>2 DEF OnItsWay, ThreadAt
  <1>7. LateInv'
    BY <1>1, <1>2, <1>3, <1>5, <1>6, NothingNew
  <1>8. QED
    BY <1>4, <1>7 DEF Inv

\* The message that is published leaves the thread at its loop, with the time
\* of the next one.
LEMMA PublishStep ==
    ASSUME Inv, Publish
    PROVE  Inv'
  <1>1. Shape /\ LateInv
    BY DEF Inv
  <1>2. /\ thread.at = "act" /\ ~thread.ending
        /\ late' = late + (IF Forbidden THEN 1 ELSE 0)
        /\ nextMessageTime' = iter'.message.time
        /\ thread' = Thread("loop")
        /\ UNCHANGED <<user, stop, paused, boundaryTime>>
    BY DEF Publish, ThreadAt, flags
  <1>3. DOMAIN thread' = DOMAIN thread /\ thread'.at = "loop"
    BY <1>1, <1>2, ThreadMoves
  <1>4. Shape'
    BY <1>1, <1>2, <1>3 DEF Shape
  <1>5. ~OnItsWay' /\ ~Waiting'
    BY <1>3 DEF OnItsWay, Waiting, ThreadAt
  \* It was not on its way when one had gone against the command.
  <1>6. late = 1 => ~Forbidden
    <2>1. Waiting /\ OnItsWay
      BY <1>2 DEF Waiting, OnItsWay
    <2>2. Forbidden => paused \/ stop \/ BeyondStep
      BY DEF Forbidden, BeyondStep
    <2>3. QED
      BY <1>1, <1>2, <2>1, <2>2 DEF LateInv
  <1>7. late' \in {0, 1}
    BY <1>1, <1>2, <1>6 DEF LateInv
  <1>8. LateInv'
    BY <1>2, <1>3, <1>5, <1>7 DEF LateInv
  <1>9. QED
    BY <1>4, <1>8 DEF Inv

LEMMA EndStepStep ==
    ASSUME Inv, EndStep
    PROVE  Inv'
  <1>1. Shape /\ LateInv
    BY DEF Inv
  <1>2. /\ thread.at = "act"
        /\ thread' = Thread("loop")
        /\ boundaryTime' \in {boundaryTime, Forever}
        /\ UNCHANGED <<user, stop, iter, nextMessageTime, late>>
    BY DEF EndStep, DoPause, ThreadAt, ghosts
  <1>3. DOMAIN thread' = DOMAIN thread /\ thread'.at = "loop"
    BY <1>1, <1>2, ThreadMoves
  <1>4. Shape'
    BY <1>1, <1>2, <1>3 DEF Shape
  <1>5. ~OnItsWay' /\ ~Waiting'
    BY <1>3 DEF OnItsWay, Waiting, ThreadAt
  <1>6. BeyondStep' => BeyondStep
    BY <1>2 DEF BeyondStep, Seeking
  <1>7. LateInv'
    BY <1>1, <1>2, <1>3, <1>5, <1>6 DEF LateInv
  <1>8. QED
    BY <1>4, <1>7 DEF Inv

LEMMA FinishSteps ==
    ASSUME Inv, Finish \/ NotifyFinished
    PROVE  Inv'
  <1>1. Shape /\ LateInv
    BY DEF Inv
  <1>2. PICK at \in {"notify", "done"} : thread' = Thread(at)
    BY DEF Finish, NotifyFinished
  <1>3. UNCHANGED <<iter, stop, paused, nextMessageTime, boundaryTime, late>>
    BY DEF Finish, NotifyFinished, times, flags, ghosts
  <1>4. DOMAIN thread' = DOMAIN thread /\ thread'.at = at
    BY <1>1, <1>2, ThreadMoves
  <1>5. /\ DOMAIN user' = Users
        /\ \A u \in Users : DOMAIN user'[u] = {"at", "read"}
        /\ Seeking => Seeking'
    <2>1. CASE Finish
      BY <1>1, <2>1 DEF Finish, Shape, Seeking
    <2>2. CASE NotifyFinished
      <3>1. user' = [u \in Users |-> IF UserAt(u, "blocked")
                                    THEN [user[u] EXCEPT !.at = "test"] ELSE user[u]]
        BY <2>2 DEF NotifyFinished
      <3>2. \A u \in Users : /\ DOMAIN user'[u] = DOMAIN user[u]
                             /\ user'[u] = user[u] \/ user[u].at = "blocked"
        BY <3>1 DEF UserAt
      <3>3. DOMAIN user' = Users
        BY <3>1
      <3>4. Seeking => Seeking'
        BY <3>2 DEF Seeking
      <3>5. QED
        BY <1>1, <3>2, <3>3, <3>4 DEF Shape
    <2>3. QED
      BY <2>1, <2>2
  <1>6. Shape'
    BY <1>1, <1>4, <1>5 DEF Shape
  <1>7. ~OnItsWay' /\ ~Waiting'
    BY <1>4 DEF OnItsWay, Waiting, ThreadAt
  <1>8. LateInv'
    BY <1>1, <1>3, <1>4, <1>5, <1>7, NothingNew
  <1>9. QED
    BY <1>6, <1>8 DEF Inv

LEMMA ChoiceSteps ==
    ASSUME Inv, Fresh, Choice
    PROVE  Inv'
  <1>1. Shape /\ LateInv
    BY DEF Inv
  <1>2. CASE Start
    <2>1. late' = late /\ user' = [u \in Users |-> [at |-> "idle", read |-> 0]]
      BY <1>2 DEF Start, ghosts
    <2>2. /\ DOMAIN user' = Users
          /\ \A u \in Users : DOMAIN user'[u] = {"at", "read"}
      BY <2>1
    <2>3. DOMAIN thread' = DOMAIN thread
      <3>1. thread' = thread \/ thread' = Thread("loop")
        BY <1>2 DEF Start
      <3>2. QED
        BY <1>1, <3>1, ThreadMoves
    <2>4. Shape'
      BY <1>1, <2>2, <2>3 DEF Shape
    <2>5. late' = 0
      BY <1>2, <2>1 DEF Start, Fresh, Started
    <2>6. QED
      BY <2>4, <2>5, NewCount DEF Inv
  <1>3. CASE ~Start
    <2>1. UNCHANGED <<iter, flags, times, thread, user, ghosts>>
      BY <1>3 DEF Choice, AddTopic, AddTopics, RemoveTopic, RemoveTopics, Choose
    <2>2. UNCHANGED <<iter, stop, paused, nextMessageTime, boundaryTime, late, thread, user>>
      BY <2>1 DEF times, flags, ghosts
    <2>3. Seeking' = Seeking /\ OnItsWay' = OnItsWay /\ Waiting' = Waiting
      BY <2>2 DEF Seeking, OnItsWay, Waiting, ThreadAt
    <2>4. QED
      BY <1>1, <2>2, <2>3 DEF Inv, Shape, LateInv, BeyondStep
  <1>4. QED
    BY <1>2, <1>3

\* The calls of the users.  A Pause that finds no pause, a Step and a Stop begin
\* a new count.
LEMMA CallSteps ==
    ASSUME Inv, NEW u \in Users, UserCalls(u)
    PROVE  Inv'
  <1>1. Shape /\ LateInv
    BY DEF Inv
  <1>2. CASE Pause(u)
    <2>1. UNCHANGED <<thread, user>>
      BY <1>2 DEF Pause
    <2>2. Shape'
      BY <1>1, <2>1 DEF Shape
    <2>3. CASE paused
      <3>1. UNCHANGED <<paused, boundaryTime, iter, stop, nextMessageTime, late>>
        BY <1>2, <2>3 DEF Pause, DoPause
      <3>2. LateInv'
        BY <1>1, <2>1, <3>1 DEF LateInv, BeyondStep, Seeking, OnItsWay, Waiting, ThreadAt
      <3>3. QED
        BY <2>2, <3>2 DEF Inv
    <2>4. CASE ~paused
      BY <1>2, <2>2, <2>4, NewCount DEF Pause, Inv
    <2>5. QED
      BY <2>3, <2>4
  <1>3. CASE Resume(u)
    <2>1. UNCHANGED <<thread, user, iter, stop, nextMessageTime, boundaryTime, late>> /\ ~paused'
      BY <1>3 DEF Resume, times
    <2>2. Shape'
      BY <1>1, <2>1 DEF Shape
    <2>3. LateInv'
      BY <1>1, <2>1 DEF LateInv, BeyondStep, Seeking, OnItsWay, Waiting, ThreadAt
    <2>4. QED
      BY <2>2, <2>3 DEF Inv
  <1>4. CASE Stop(u)
    <2>1. UserGoes(u, "stop") /\ UserAt(u, "idle") /\ late' = 0 /\ thread' = StopNotified
      BY <1>4 DEF Stop, CanCall
    <2>2. /\ DOMAIN user' = Users
          /\ \A v \in Users : DOMAIN user'[v] = {"at", "read"}
      BY <1>1, <2>1, UserMoves DEF UserAt
    <2>3. DOMAIN thread' = DOMAIN thread
      BY <1>1, <2>1, ThreadMoves DEF StopNotified
    <2>4. QED
      BY <1>1, <2>1, <2>2, <2>3, NewCount DEF Shape, Inv
  <1>5. CASE WaitUntilFinished(u)
    <2>1. PICK at \in {"gone", "test"} : Waits(u, "idle", at)
      BY <1>5 DEF WaitUntilFinished
    <2>2. /\ DOMAIN user' = Users
          /\ \A v \in Users : DOMAIN user'[v] = {"at", "read"}
          /\ Seeking => Seeking'
      BY <1>1, <2>1, UserMoves DEF Waits, UserAt
    <2>3. UNCHANGED <<iter, stop, paused, nextMessageTime, boundaryTime, late, thread>>
      BY <2>1 DEF Waits, times, flags, ghosts
    <2>4. LateInv'
      BY <1>1, <2>2, <2>3 DEF LateInv, BeyondStep, OnItsWay, Waiting, ThreadAt
    <2>5. QED
      BY <1>1, <2>2, <2>3, <2>4 DEF Inv, Shape
  <1>6. CASE \E d \in Steps : Step(u, d)
    <2>1. user' = [user EXCEPT ![u].at = "step"] /\ UserAt(u, "idle") /\ late' = 0
          /\ thread' = thread
      BY <1>6 DEF Step, CanCall
    <2>2. /\ DOMAIN user' = Users
          /\ \A v \in Users : DOMAIN user'[v] = {"at", "read"}
      BY <1>1, <2>1, UserMoves DEF UserAt, UserGoes
    <2>3. QED
      BY <1>1, <2>1, <2>2, NewCount DEF Shape, Inv
  <1>7. CASE \E o \in Offsets : Seek(u, o)
    <2>1. /\ UserGoes(u, "seek") /\ UserAt(u, "idle")
          /\ UNCHANGED <<thread, stop, paused, late>>
      BY <1>7 DEF Seek, CanCall, flags
    <2>2. /\ DOMAIN user' = Users
          /\ \A v \in Users : DOMAIN user'[v] = {"at", "read"}
      BY <1>1, <2>1, UserMoves DEF UserAt
    <2>3. Seeking'
      BY <1>1, <2>1 DEF Seeking, UserGoes, Shape
    <2>4. LateInv'
      BY <1>1, <2>1, <2>3 DEF LateInv, BeyondStep, OnItsWay, Waiting, ThreadAt
    <2>5. QED
      BY <1>1, <2>1, <2>2, <2>4 DEF Inv, Shape
  <1>8. QED
    BY <1>2, <1>3, <1>4, <1>5, <1>6, <1>7 DEF UserCalls

LEMMA ContinueSteps ==
    ASSUME Inv, NEW u \in Users, UserContinues(u)
    PROVE  Inv'
  <1>1. Shape /\ LateInv
    BY DEF Inv
  <1>2. CASE StepResume(u) \/ StopPaused(u) \/ StopJoin(u) \/ WaiterTest(u) \/ WaiterBlock(u)
    <2>1. PICK at \in {"idle", "join", "gone", "tested", "blocked"} :
              UserGoes(u, at) /\ user[u].at \notin {"seek", "sought"}
      BY <1>2 DEF StepResume, StopPaused, StopJoin, WaiterTest, WaiterBlock, Waits, UserAt
    <2>2. /\ DOMAIN user' = Users
          /\ \A v \in Users : DOMAIN user'[v] = {"at", "read"}
          /\ Seeking => Seeking'
      BY <1>1, <2>1, UserMoves
    <2>3. UNCHANGED <<iter, stop, nextMessageTime, boundaryTime, late, thread>>
          /\ (paused' => paused)
      BY <1>2 DEF StepResume, StopPaused, StopJoin, WaiterTest, WaiterBlock, Waits, times,
              flags, ghosts
    <2>4. LateInv'
      BY <1>1, <2>2, <2>3 DEF LateInv, BeyondStep, OnItsWay, Waiting, ThreadAt
    <2>5. QED
      BY <1>1, <2>2, <2>3, <2>4 DEF Inv, Shape
  <1>3. CASE SeekPlaybackTime(u)
    <2>1. /\ user' = [user EXCEPT ![u] = [at |-> "sought", read |-> iter.message.time]]
          /\ UNCHANGED <<thread, stop, paused, late>>
      BY <1>3 DEF SeekPlaybackTime, flags, ghosts
    <2>2. Shape' /\ Seeking'
      BY <1>1, <2>1 DEF Shape, Seeking
    <2>3. LateInv'
      BY <1>1, <2>1, <2>2 DEF LateInv, BeyondStep, OnItsWay, Waiting, ThreadAt
    <2>4. QED
      BY <2>2, <2>3 DEF Inv
  <1>4. CASE SeekNextMessageTime(u)
    <2>1. /\ user' = [user EXCEPT ![u] = [at |-> "idle", read |-> 0]]
          /\ boundaryTime' = Forever
          /\ UNCHANGED <<thread, stop, paused, late>>
      BY <1>4 DEF SeekNextMessageTime, flags, ghosts
    <2>2. Shape'
      BY <1>1, <2>1 DEF Shape
    <2>3. LateInv'
      BY <1>1, <2>1, NoStep
    <2>4. QED
      BY <2>2, <2>3 DEF Inv
  <1>5. QED
    BY <1>2, <1>3, <1>4 DEF UserContinues

LEMMA TickStep ==
    ASSUME Inv, Tick
    PROVE  Inv'
  <1>1. Shape /\ LateInv
    BY DEF Inv
  <1>2. /\ UNCHANGED <<user, iter, stop, paused, nextMessageTime, boundaryTime, late>>
        /\ thread' = [thread EXCEPT !.remaining = IF @ > 0 THEN @ - 1 ELSE 0]
    BY DEF Tick, flags, ghosts
  <1>3. DOMAIN thread' = DOMAIN thread /\ thread'.at = thread.at /\ thread'.ending = thread.ending
    BY <1>1, <1>2 DEF Shape
  <1>4. Shape'
    BY <1>1, <1>2, <1>3 DEF Shape
  <1>5. LateInv'
    BY <1>1, <1>2, <1>3 DEF LateInv, BeyondStep, Seeking, OnItsWay, Waiting, ThreadAt
  <1>6. QED
    BY <1>4, <1>5 DEF Inv

\* Once started, a handle stays so.
LEMMA FreshStep ==
    ASSUME Shape, Fresh, [Next]_vars
    PROVE  Fresh'
  <1>1. CASE Started'
    BY <1>1 DEF Fresh
  <1>2. CASE ~Started'
    <2>1. ASSUME UNCHANGED <<user, late, thread>> PROVE Fresh'
      BY <2>1 DEF Fresh, Started, UserAt, ThreadAt
    <2>2. CASE UNCHANGED vars
      BY <2>1, <2>2 DEF vars, ghosts
    <2>3. CASE Choice
      <3>1. ~Start
        <4>1. \A u \in Users : Start => user'[u].at = "idle"
          BY DEF Start
        <4>2. QED
          BY <1>2, <4>1, PlaybackAssumption DEF Started, UserAt
      <3>2. UNCHANGED <<user, late, thread>>
        BY <2>3, <3>1 DEF Choice, AddTopic, AddTopics, RemoveTopic, RemoveTopics, Choose, ghosts
      <3>3. QED
        BY <2>1, <3>2
    <2>4. CASE ThreadContinues \/ SpuriousWakeup \/ Tick
      <3>1. thread.at # "none"
        BY <2>4 DEF ThreadContinues, LoopTest, TestPaused, PauseOver, ChooseTarget, WaitTest,
           Block, WaitOver, Publish, EndStep, Finish, NotifyFinished, SpuriousWakeup, Tick, ThreadAt
      <3>2. PICK u \in Users : user[u].at # "new"
        BY <3>1 DEF Fresh, Started, ThreadAt, UserAt
      <3>3. user'[u].at # "new"
        <4>1. CASE NotifyFinished
          BY <3>2, <4>1 DEF NotifyFinished, UserAt, Shape
        <4>2. CASE ~NotifyFinished
          <5>1. user' = user
            BY <2>4, <4>2 DEF ThreadContinues, LoopTest, TestPaused, PauseOver, ChooseTarget,
               WaitTest, Block, WaitOver, Publish, EndStep, Finish, SpuriousWakeup, Tick, ThreadGoes
          <5>2. QED
            BY <3>2, <5>1
        <4>3. QED
          BY <4>1, <4>2
      <3>4. QED
        BY <1>2, <3>3 DEF Started, UserAt
    <2>5. CASE \E u \in Users : UserCalls(u) \/ UserContinues(u)
      <3>1. PICK u \in Users : UserCalls(u) \/ UserContinues(u)
        BY <2>5
      <3>2. user'[u].at # "new"
        <4>1. CASE UserCalls(u)
          <5>1. \/ user' = user /\ user[u].at = "idle"
                \/ \E at \in {"step", "seek", "stop", "gone", "test"} : UserGoes(u, at)
            BY <4>1 DEF UserCalls, Pause, Resume, Stop, WaitUntilFinished, Waits, Step, Seek,
               CanCall, UserAt, UserGoes
          <5>2. QED
            BY <5>1 DEF UserGoes, Shape
        <4>2. CASE UserContinues(u)
          BY <4>2 DEF UserContinues, Waits, StepResume, SeekPlaybackTime, SeekNextMessageTime,
             StopPaused, StopJoin, WaiterTest, WaiterBlock, UserGoes, Shape
        <4>3. QED
          BY <3>1, <4>1, <4>2
      <3>3. QED
        BY <1>2, <3>2 DEF Started, UserAt
    <2>6. QED
      BY <2>2, <2>3, <2>4, <2>5 DEF Next
  <1>3. QED
    BY <1>1, <1>2

LEMMA InvStep == Inv /\ Fresh /\ [Next]_vars => Inv' /\ Fresh'
  <1> SUFFICES ASSUME Inv, Fresh, [Next]_vars
               PROVE  Inv' /\ Fresh'
    OBVIOUS
  <1>1. Fresh'
    BY FreshStep DEF Inv
  <1>2. CASE UNCHANGED vars
    <2>1. UNCHANGED <<user, thread, late, iter, stop, paused, nextMessageTime, boundaryTime>>
      BY <1>2 DEF vars, times, flags, ghosts
    <2>2. Shape'
      BY <2>1 DEF Inv, Shape
    <2>3. LateInv'
      BY <2>1 DEF Inv, LateInv, BeyondStep, Seeking, OnItsWay, Waiting, ThreadAt
    <2>4. QED
      BY <1>1, <2>2, <2>3 DEF Inv
  <1>3. CASE Next
    <2>1. Inv'
      BY <1>3, ThreadSteps, ChooseStep, PublishStep, EndStepStep, FinishSteps, ChoiceSteps,
         CallSteps, ContinueSteps, TickStep DEF Next, ThreadContinues
    <2>2. QED
      BY <1>1, <2>1
  <1>4. QED
    BY <1>2, <1>3

\* After a Pause, a Stop, or from the end of a step on, the thread publishes one
\* more message at most, however many users command it and however their calls
\* fall between its tests: the unlocked tests of paused and stop let one
\* message through, never two.
THEOREM OneMoreAtMost == Spec => []AtMostOneLate
  <1>1. Init => Inv /\ Fresh
    <2>1. Init => Fresh
      BY DEF Init, Fresh, ThreadAt
    <2>2. QED
      BY <2>1, InvInit
  <1>2. Inv => AtMostOneLate
    BY DEF Inv, LateInv, AtMostOneLate
  <1>3. QED
    BY <1>1, <1>2, InvStep, PTL DEF Spec

-----------------------------------------------------------------------------
(* What a query reads.                                                     *)

Timed(rows) == \A i \in DOMAIN rows : rows[i].time \in Int

\* The places of the rows that were positions are the numbers up to their count: a row
\* that precedes another has a lower place, so that no two have the same.
LEMMA PlacesAreFilled ==
    ASSUME NEW S, NEW rows \in Seq(S), Timed(rows), NEW positions \in SUBSET DOMAIN rows
    PROVE  /\ Cardinality(positions) \in Nat
           /\ \A k \in 1..Cardinality(positions) : \E i \in positions : Place(rows, positions, i) = k
  <1> DEFINE n == Cardinality(positions)
             Before(i) == { j \in positions : Precedes(rows, j, i) }
             place == [i \in positions |-> Place(rows, positions, i)]
  <1>1. IsFiniteSet(positions) /\ n \in Nat /\ \A i \in positions : i \in Nat
    <2>1. DOMAIN rows = 1..Len(rows) /\ Len(rows) \in Nat
      OBVIOUS
    <2>2. IsFiniteSet(1..Len(rows))
      BY <2>1, FS_Interval
    <2>3. QED
      BY <2>1, <2>2, FS_Subset, FS_CardinalityType
  <1>2. \A i \in positions : rows[i].time \in Int
    BY DEF Timed
  <1>3. \A i : Place(rows, positions, i) = Cardinality(Before(i)) + 1
    BY DEF Place
  <1>4. ASSUME NEW i \in positions
        PROVE  /\ IsFiniteSet(Before(i)) /\ Cardinality(Before(i)) \in Nat
               /\ Place(rows, positions, i) \in 1..n
    <2>1. Before(i) \subseteq positions \ {i}
      BY <1>1, <1>2 DEF Precedes
    <2> HIDE DEF Before
    <2>2. IsFiniteSet(positions \ {i}) /\ Cardinality(positions \ {i}) = n - 1
      BY <1>1, FS_RemoveElement
    <2>3. IsFiniteSet(Before(i)) /\ Cardinality(Before(i)) <= n - 1
      BY <2>1, <2>2, FS_Subset
    <2>4. Cardinality(Before(i)) \in Nat
      BY <2>3, FS_CardinalityType
    <2> HIDE DEF n
    <2>5. QED
      BY <1>1, <1>3, <2>3, <2>4
  <1>5. ASSUME NEW i \in positions, NEW j \in positions, Precedes(rows, i, j)
        PROVE  Place(rows, positions, i) < Place(rows, positions, j)
    <2>1. Before(i) \cup {i} \subseteq Before(j) /\ i \notin Before(i)
      BY <1>1, <1>2, <1>5 DEF Precedes
    <2> HIDE DEF Before
    <2>2. Cardinality(Before(i) \cup {i}) = Cardinality(Before(i)) + 1
      BY <1>4, <2>1, FS_AddElement
    <2>3. Cardinality(Before(i) \cup {i}) <= Cardinality(Before(j))
      BY <1>4, <2>1, FS_Subset
    <2>4. Cardinality(Before(i)) \in Nat /\ Cardinality(Before(j)) \in Nat
      BY <1>4
    <2>5. QED
      BY <1>3, <2>2, <2>3, <2>4
  <1>6. place \in Surjection(positions, 1..n)
    <2>1. \A i \in positions : place[i] = Place(rows, positions, i) /\ place[i] \in 1..n
      BY <1>4
    <2>2. place \in [positions -> 1..n]
      BY <2>1
    <2> HIDE DEF place, n
    <2>3. ASSUME NEW i \in positions, NEW j \in positions, i # j PROVE place[i] # place[j]
      <3>1. Precedes(rows, i, j) \/ Precedes(rows, j, i)
        BY <1>1, <1>2, <2>3 DEF Precedes
      <3>2. place[i] < place[j] \/ place[j] < place[i]
        BY <1>5, <2>1, <3>1
      <3>3. place[i] \in Nat /\ place[j] \in Nat
        BY <1>1, <2>1
      <3>4. QED
        BY <3>2, <3>3
    <2>4. place \in Injection(positions, 1..n)
      BY <2>2, <2>3 DEF Injection, IsInjective
    <2>5. IsFiniteSet(1..n) /\ Cardinality(1..n) = n
      BY <1>1, FS_Interval
    <2>6. QED
      BY <2>4, <2>5, FS_Injection DEF n
  <1>7. QED
    BY <1>1, <1>6 DEF Surjection

\* What a statement returns is a sequence of rows of the table.
LEMMA StatementIsOfRows ==
    ASSUME NEW S, NEW rows \in Seq(S), Timed(rows), NEW positions \in SUBSET DOMAIN rows
    PROVE  OrderByTime(rows, positions) \in Seq(S)
  <1> DEFINE n == Cardinality(positions)
             from(k) == CHOOSE i \in positions : Place(rows, positions, i) = k
  <1>1. n \in Nat /\ \A k \in 1..n : from(k) \in positions
    BY PlacesAreFilled
  <1>2. \A i \in positions : rows[i] \in S
    OBVIOUS
  <1>3. [k \in 1..n |-> rows[from(k)]] \in Seq(S)
    BY <1>1, <1>2
  <1>4. QED
    BY <1>3 DEF OrderByTime

Logged == {NoMessage} \cup { Rows[i] : i \in DOMAIN Rows }

LEMMA LoggedIsTimed ==
    /\ \A m \in Logged : m.time \in Int
    /\ Rows \in Seq(Logged) /\ Timed(Rows)
  <1>1. \A i \in DOMAIN Rows : Rows[i].time \in Int
    <2>1. TimesOf(Rows) \subseteq 0..Forever
      BY PlaybackAssumption
    <2>2. \A i \in DOMAIN Rows : Rows[i].time \in TimesOf(Rows)
      BY DEF TimesOf
    <2>3. 0..Forever \subseteq Int
      BY DEF Forever
    <2>4. QED
      BY <2>1, <2>2, <2>3
  <1>2. Rows \in Seq(Logged)
    BY PlaybackAssumption DEF Logged
  <1>3. QED
    BY <1>1, <1>2 DEF Logged, NoMessage, Timed

LEMMA TopicsAreLogged ==
    ASSUME NEW topics, NEW range
    PROVE  TopicList(Rows, Keys, topics, range) \in Seq(Seq(Logged))
  <1> DEFINE ids == { key.id : key \in RowsOf(Keys, topics) }
             positions == { i \in DOMAIN Rows :
                           /\ TopicId(Keys, Rows[i].topic, Rows[i].type) \in ids
                           /\ TimeConditions(range, Rows[i].time) }
  <1>1. TopicList(Rows, Keys, topics, range) = <<OrderByTime(Rows, positions)>>
    BY DEF TopicList, Statement
  <1>2. OrderByTime(Rows, positions) \in Seq(Logged)
    <2>1. positions \in SUBSET DOMAIN Rows
      OBVIOUS
    <2> HIDE DEF positions
    <2>2. QED
      BY <2>1, LoggedIsTimed, StatementIsOfRows
  <1> HIDE DEF positions
  <1>3. QED
    BY <1>1, <1>2

\* An iterator over rows of the log.
Iterates(it) ==
    /\ it = [open |-> it.open, rows |-> it.rows, statements |-> it.statements,
             message |-> it.message]
    /\ it.rows \in Seq(Logged) /\ it.statements \in Seq(Seq(Logged))
    /\ it.message \in Logged

LEMMA PreparedIterates ==
    ASSUME NEW it, Iterates(it)
    PROVE  Iterates(PrepareNextStatement(it))
  <1>1. CASE it.statements = <<>>
    BY <1>1 DEF Iterates, PrepareNextStatement
  <1>2. CASE it.statements # <<>>
    <2>1. Head(it.statements) \in Seq(Logged) /\ Tail(it.statements) \in Seq(Seq(Logged))
      BY <1>2 DEF Iterates
    <2>2. QED
      BY <1>2, <2>1 DEF Iterates, PrepareNextStatement
  <1>3. QED
    BY <1>1, <1>2

LEMMA SteppedIterates ==
    ASSUME NEW it, Iterates(it)
    PROVE  Iterates(StepStatement(it))
  <1>1. CASE ~ it.open
    BY <1>1 DEF StepStatement
  <1>2. CASE it.open /\ it.rows # <<>>
    <2>1. Head(it.rows) \in Logged /\ Tail(it.rows) \in Seq(Logged)
      BY <1>2 DEF Iterates
    <2>2. QED
      BY <1>2, <2>1 DEF Iterates, StepStatement
  <1>3. CASE it.open /\ it.rows = <<>>
    BY <1>3, PreparedIterates DEF StepStatement
  <1>4. QED
    BY <1>1, <1>2, <1>3

LEMMA BeginIterates ==
    ASSUME NEW statements \in Seq(Seq(Logged))
    PROVE  Iterates(Begin(statements))
  <1> DEFINE it == [open |-> FALSE, rows |-> <<>>, statements |-> statements,
                    message |-> NoMessage]
  <1>1. Iterates(it)
    BY DEF Iterates, Logged
  <1> HIDE DEF it
  <1>2. Iterates(StepStatement(PrepareNextStatement(it)))
    BY <1>1, PreparedIterates, SteppedIterates
  <1>3. QED
    BY <1>2 DEF Begin, it

-----------------------------------------------------------------------------
(* The steps that are exact.                                               *)

Numbers ==
    /\ playbackTime \in Int /\ boundaryTime \in Int /\ nextMessageTime \in Int
    /\ elapsed \in Int
    /\ thread.remaining \in Nat
    /\ \A u \in Users : user[u].read \in Int
    /\ Iterates(iter)

\* In a step that is exact the thread is where its command lets it be, and the wait
\* that it is in ends when its time has come.
Exact ==
    settled =>
        /\ late = 0 /\ ~Seeking /\ ~ThreadAt("none")
        /\ nextMessageTime = iter.message.time
        /\ paused => thread.at \in {"paused", "loop", "checked", "ended", "notify", "done"}
        /\ stop => thread.at \in {"paused", "loop", "ended", "notify", "done"}
        /\ Waiting /\ ~thread.ending => nextMessageTime <= boundaryTime
        /\ Waiting /\ thread.ending =>
              /\ boundaryTime < nextMessageTime
              /\ playbackTime + elapsed + thread.remaining >= boundaryTime
              /\ ThreadAt("act") => thread.remaining = 0

LEMMA ThreadKeeps ==
    ASSUME Shape, NEW at, thread' = Thread(at)
    PROVE  /\ thread'.at = at /\ thread'.ending = thread.ending
           /\ thread'.remaining = thread.remaining
  BY DEF Shape, Thread

LEMMA UserKeeps ==
    ASSUME Shape, NEW u \in Users, NEW at, UserGoes(u, at)
    PROVE  /\ \A v \in Users : user'[v].read = user[v].read
           /\ at \notin {"seek", "sought"} /\ ~Seeking => ~Seeking'
  <1>1. user' = [user EXCEPT ![u] = [user[u] EXCEPT !.at = at]]
    BY DEF UserGoes
  <1>2. /\ user'[u] = [user[u] EXCEPT !.at = at]
        /\ \A v \in Users \ {u} : user'[v] = user[v]
    BY <1>1 DEF Shape
  <1>3. user'[u].read = user[u].read /\ user'[u].at = at
    BY <1>2 DEF Shape
  <1>4. QED
    BY <1>2, <1>3 DEF Seeking

LEMMA MessageIsTimed == ASSUME NEW it, Iterates(it) PROVE it.message.time \in Int
  BY LoggedIsTimed DEF Iterates

\* The first message of the log, which there is if some topics have one.
LEMMA StartIsTimed ==
    ASSUME NEW topics, ~AtEnd(Begin(TopicList(Rows, Keys, topics, AllTime)))
    PROVE  OrderByTime(Rows, DOMAIN Rows)[1].time \in Int
  <1> DEFINE ids == { key.id : key \in RowsOf(Keys, topics) }
             positions == { i \in DOMAIN Rows :
                           /\ TopicId(Keys, Rows[i].topic, Rows[i].type) \in ids
                           /\ TimeConditions(AllTime, Rows[i].time) }
  <1>1. TopicList(Rows, Keys, topics, AllTime) = <<OrderByTime(Rows, positions)>>
    BY DEF TopicList, Statement
  <1>2. positions \in SUBSET DOMAIN Rows
    OBVIOUS
  <1> HIDE DEF positions
  <1>3. ASSUME DOMAIN Rows = {} PROVE FALSE
    <2>1. OrderByTime(Rows, positions) = <<>>
      <3>1. positions = {} /\ Cardinality({}) = 0
        BY <1>2, <1>3, FS_EmptySet
      <3>2. 1..Cardinality(positions) = {}
        BY <3>1
      <3>3. QED
        BY <3>2 DEF OrderByTime
    <2> DEFINE it == [open |-> FALSE, rows |-> <<>>, statements |-> << <<>> >>,
                      message |-> NoMessage]
               next == [open |-> TRUE, rows |-> <<>>, statements |-> <<>>,
                      message |-> NoMessage]
    <2>2. PrepareNextStatement(it) = next
      <3>1. Len(<< <<>> >>) = 1 /\ Head(<< <<>> >>) = <<>> /\ Tail(<< <<>> >>) = <<>>
        OBVIOUS
      <3>2. it.statements # <<>>
        BY <3>1
      <3>3. QED
        BY <3>1, <3>2 DEF PrepareNextStatement
    <2>3. StepStatement(next) = PrepareNextStatement(next)
      BY DEF StepStatement
    <2>4. ~PrepareNextStatement(next).open
      BY DEF PrepareNextStatement
    <2>5. Begin(<< <<>> >>) = StepStatement(PrepareNextStatement(it))
      BY DEF Begin
    <2> HIDE DEF it, next
    <2>6. ~Begin(<< <<>> >>).open
      BY <2>2, <2>3, <2>4, <2>5
    <2>7. QED
      BY <1>1, <2>1, <2>6 DEF AtEnd
  <1>4. Cardinality(DOMAIN Rows) \in Nat \ {0}
    <2>1. DOMAIN Rows = 1..Len(Rows) /\ Len(Rows) \in Nat
      BY LoggedIsTimed
    <2>2. Cardinality(1..Len(Rows)) = Len(Rows)
      <3>1. \A n \in Nat : Cardinality(1..n) = n
        BY FS_Interval
      <3>2. QED
        BY <2>1, <3>1
    <2>3. Len(Rows) # 0
      BY <1>3, <2>1
    <2>4. QED
      BY <2>1, <2>2, <2>3
  <1>5. OrderByTime(Rows, DOMAIN Rows) \in Seq(Logged)
    BY LoggedIsTimed, StatementIsOfRows
  <1>6. DOMAIN OrderByTime(Rows, DOMAIN Rows) = 1..Cardinality(DOMAIN Rows)
    BY DEF OrderByTime
  <1>7. OrderByTime(Rows, DOMAIN Rows)[1] \in Logged
    BY <1>4, <1>5, <1>6
  <1>8. QED
    BY <1>7, LoggedIsTimed

\* A step that leaves what is read alone.
LEMMA NumbersKept ==
    ASSUME Numbers, UNCHANGED <<iter, playbackTime, boundaryTime, nextMessageTime, elapsed>>,
           thread'.remaining \in Nat, \A u \in Users : user'[u].read \in Int
    PROVE  Numbers'
  BY DEF Numbers, Iterates

LEMMA NumbersOfThread ==
    ASSUME Shape, Numbers, ThreadContinues \/ SpuriousWakeup \/ Tick
    PROVE  Numbers'
  <1>1. CASE LoopTest \/ TestPaused \/ WaitTest \/ Block \/ WaitOver \/ SpuriousWakeup \/ Finish
    <2>1. PICK at : thread' = Thread(at)
      BY <1>1 DEF LoopTest, TestPaused, WaitTest, Block, WaitOver, SpuriousWakeup, Finish,
         ThreadGoes
    <2>2. thread'.remaining = thread.remaining
      BY <2>1, ThreadKeeps
    <2>3. UNCHANGED <<iter, user, playbackTime, boundaryTime, nextMessageTime, elapsed>>
      BY <1>1 DEF LoopTest, TestPaused, WaitTest, Block, WaitOver, SpuriousWakeup, Finish,
         ThreadGoes, times
    <2>4. thread'.remaining \in Nat /\ \A u \in Users : user'[u].read \in Int
      BY <2>2, <2>3 DEF Numbers
    <2>5. QED
      BY <2>3, <2>4, NumbersKept
  <1>2. CASE PauseOver
    <2>1. thread'.remaining = thread.remaining
      BY <1>2, ThreadKeeps DEF PauseOver
    <2>2. UNCHANGED <<iter, user, playbackTime, boundaryTime, nextMessageTime>> /\ elapsed' = 0
      BY <1>2 DEF PauseOver
    <2>3. QED
      BY <2>1, <2>2 DEF Numbers, Iterates
  <1>3. CASE ChooseTarget
    <2>1. \A t \in Int : Remaining(t) \in Nat
      BY DEF Numbers, Remaining
    <2>2. thread'.remaining \in Nat
      <3>1. nextMessageTime \in Int /\ boundaryTime \in Int
        BY DEF Numbers
      <3>2. Remaining(nextMessageTime) \in Nat /\ Remaining(boundaryTime) \in Nat
        BY <2>1, <3>1
      <3>3. thread'.remaining \in {0, Remaining(nextMessageTime), Remaining(boundaryTime)}
        BY <1>3 DEF ChooseTarget
      <3>4. QED
        BY <3>2, <3>3
    <2>3. UNCHANGED <<iter, user, playbackTime, boundaryTime, nextMessageTime, elapsed>>
      BY <1>3 DEF ChooseTarget, times
    <2>4. \A u \in Users : user'[u].read \in Int
      BY <2>3 DEF Numbers
    <2>5. QED
      BY <2>2, <2>3, <2>4, NumbersKept
  <1>4. CASE Publish
    <2>1. /\ thread' = Thread("loop") /\ iter' = StepStatement(iter)
          /\ playbackTime' = nextMessageTime /\ elapsed' = 0
          /\ nextMessageTime' = iter'.message.time
          /\ UNCHANGED <<boundaryTime, user>>
      BY <1>4 DEF Publish
    <2>2. Iterates(iter)'
      <3>1. Iterates(StepStatement(iter))
        BY SteppedIterates DEF Numbers
      <3>2. QED
        BY <2>1, <3>1 DEF Iterates
    <2>3. nextMessageTime' \in Int
      BY <2>1, <2>2, LoggedIsTimed DEF Iterates, Logged
    <2>4. thread'.remaining = thread.remaining
      BY <2>1, ThreadKeeps
    <2>5. QED
      BY <2>1, <2>2, <2>3, <2>4 DEF Numbers
  <1>5. CASE EndStep
    <2>1. thread'.remaining = thread.remaining
      BY <1>5, ThreadKeeps DEF EndStep
    <2>2. /\ UNCHANGED <<iter, user, nextMessageTime>>
          /\ playbackTime' \in {playbackTime, playbackTime + elapsed}
          /\ elapsed' \in {elapsed, 0} /\ boundaryTime' \in {boundaryTime, Forever}
      BY <1>5 DEF EndStep, DoPause
    <2>3. QED
      BY <2>1, <2>2 DEF Numbers, Iterates, Forever
  <1>6. CASE NotifyFinished
    <2>1. /\ thread' = Thread("done")
          /\ UNCHANGED <<iter, playbackTime, boundaryTime, nextMessageTime, elapsed>>
          /\ user' = [u \in Users |-> IF UserAt(u, "blocked")
                                      THEN [user[u] EXCEPT !.at = "test"] ELSE user[u]]
      BY <1>6 DEF NotifyFinished, times
    <2>2. thread'.remaining = thread.remaining
      BY <2>1, ThreadKeeps
    <2>3. \A u \in Users : user'[u].read = user[u].read
      BY <2>1 DEF Shape
    <2>4. thread'.remaining \in Nat /\ \A u \in Users : user'[u].read \in Int
      BY <2>2, <2>3 DEF Numbers
    <2>5. QED
      BY <2>1, <2>4, NumbersKept
  <1>7. CASE Tick
    <2>1. thread' = [thread EXCEPT !.remaining = IF @ > 0 THEN @ - 1 ELSE 0]
      BY <1>7 DEF Tick
    <2>2. thread'.remaining \in Nat
      BY <2>1 DEF Shape, Numbers
    <2>3. /\ UNCHANGED <<iter, user, playbackTime, boundaryTime, nextMessageTime>>
          /\ elapsed' = elapsed + 1
      BY <1>7 DEF Tick
    <2>4. QED
      BY <2>2, <2>3 DEF Numbers, Iterates
  <1>8. QED
    BY <1>1, <1>2, <1>3, <1>4, <1>5, <1>6, <1>7 DEF ThreadContinues

LEMMA NumbersOfUsers ==
    ASSUME Shape, Numbers, NEW u \in Users, UserCalls(u) \/ UserContinues(u)
    PROVE  Numbers'
  <1>1. CASE Pause(u)
    <2>1. /\ UNCHANGED <<iter, user, thread, nextMessageTime>>
          /\ playbackTime' \in {playbackTime, playbackTime + elapsed}
          /\ elapsed' \in {elapsed, 0} /\ boundaryTime' \in {boundaryTime, Forever}
      BY <1>1 DEF Pause, DoPause
    <2>2. QED
      BY <2>1 DEF Numbers, Iterates, Forever
  <1>2. CASE Resume(u)
    <2>1. UNCHANGED <<iter, user, thread, playbackTime, boundaryTime, nextMessageTime, elapsed>>
      BY <1>2 DEF Resume, times
    <2>2. QED
      BY <2>1 DEF Numbers, Iterates
  <1>3. CASE Stop(u) \/ WaitUntilFinished(u) \/ StepResume(u) \/ StopPaused(u) \/ StopJoin(u)
             \/ WaiterTest(u) \/ WaiterBlock(u)
    <2>1. PICK at : UserGoes(u, at)
      BY <1>3 DEF Stop, WaitUntilFinished, StepResume, StopPaused, StopJoin, WaiterTest,
         WaiterBlock, Waits
    <2>2. \A v \in Users : user'[v].read = user[v].read
      BY <2>1, UserKeeps
    <2>3. thread' \in {thread, Thread("wait")}
      BY <1>3 DEF Stop, StopNotified, WaitUntilFinished, StepResume, StopPaused, StopJoin,
         WaiterTest, WaiterBlock, Waits
    <2>4. thread'.remaining = thread.remaining
      BY <2>3, ThreadKeeps
    <2>5. UNCHANGED <<iter, playbackTime, boundaryTime, nextMessageTime, elapsed>>
      BY <1>3 DEF Stop, WaitUntilFinished, StepResume, StopPaused, StopJoin, WaiterTest,
         WaiterBlock, Waits, times
    <2>6. thread'.remaining \in Nat /\ \A v \in Users : user'[v].read \in Int
      BY <2>2, <2>4 DEF Numbers
    <2>7. QED
      BY <2>5, <2>6, NumbersKept
  <1>4. CASE \E d \in Steps : Step(u, d)
    <2>1. PICK d \in Steps : Step(u, d)
      BY <1>4
    <2>2. d \in Nat
      BY PlaybackAssumption
    <2>3. /\ UNCHANGED <<iter, thread, playbackTime, nextMessageTime, elapsed>>
          /\ boundaryTime' = playbackTime + d /\ UserGoes(u, "step")
      BY <2>1 DEF Step, UserGoes
    <2>4. \A v \in Users : user'[v].read = user[v].read
      BY <2>3, UserKeeps
    <2>5. boundaryTime' \in Int
      BY <2>2, <2>3 DEF Numbers
    <2>6. QED
      BY <2>3, <2>4, <2>5 DEF Numbers, Iterates
  <1>5. CASE \E o \in Offsets : Seek(u, o)
    <2>1. /\ UNCHANGED <<thread, playbackTime, boundaryTime, nextMessageTime, elapsed>>
          /\ UserGoes(u, "seek")
          /\ \E range : iter' = Begin(TopicList(Rows, Keys, tracked, range))
      BY <1>5 DEF Seek, times
    <2>2. \A v \in Users : user'[v].read = user[v].read
      BY <2>1, UserKeeps
    <2>3. PICK range : iter' = Begin(TopicList(Rows, Keys, tracked, range))
      BY <2>1
    <2>4. Iterates(iter)'
      <3>1. Iterates(Begin(TopicList(Rows, Keys, tracked, range)))
        BY TopicsAreLogged, BeginIterates
      <3>2. QED
        BY <2>3, <3>1 DEF Iterates
    <2>5. QED
      BY <2>1, <2>2, <2>4 DEF Numbers
  <1>6. CASE SeekPlaybackTime(u) \/ SeekNextMessageTime(u)
    <2>1. PICK at \in {"sought", "idle"}, read \in {0, iter.message.time} :
              user' = [user EXCEPT ![u] = [at |-> at, read |-> read]]
      BY <1>6 DEF SeekPlaybackTime, SeekNextMessageTime
    <2>2. iter.message.time \in Int /\ user[u].read \in Int
      BY MessageIsTimed DEF Numbers
    <2>3. \A v \in Users : user'[v].read \in Int
      BY <2>1, <2>2 DEF Shape, Numbers
    <2>4. /\ UNCHANGED <<iter, thread>>
          /\ playbackTime' \in {playbackTime, iter.message.time}
          /\ boundaryTime' \in {boundaryTime, Forever}
          /\ nextMessageTime' \in {nextMessageTime, user[u].read}
          /\ elapsed' \in {elapsed, 0}
      BY <1>6 DEF SeekPlaybackTime, SeekNextMessageTime
    <2>5. QED
      BY <2>2, <2>3, <2>4 DEF Numbers, Iterates, Forever
  <1>7. QED
    BY <1>1, <1>2, <1>3, <1>4, <1>5, <1>6 DEF UserCalls, UserContinues

LEMMA NumbersOfChoice ==
    ASSUME Shape, Numbers, Choice
    PROVE  Numbers'
  <1>1. CASE ~Start
    <2>1. UNCHANGED <<iter, times, thread, user>>
      BY <1>1 DEF Choice, AddTopic, AddTopics, RemoveTopic, RemoveTopics, Choose
    <2>2. QED
      BY <2>1 DEF Numbers, Iterates, times
  <1>2. CASE Start
    <2> DEFINE topics == IF addTopicWasUsed THEN topicNames ELSE LoggedTopics(Keys)
               first  == Begin(TopicList(Rows, Keys, topics, AllTime))
    <2>1. Iterates(first)
      BY TopicsAreLogged, BeginIterates
    <2>2. first.message.time \in Int
      BY <2>1, MessageIsTimed
    <2>3. ~AtEnd(first) => OrderByTime(Rows, DOMAIN Rows)[1].time \in Int
      BY StartIsTimed
    <2>4. iter' = first /\ user' = [u \in Users |-> [at |-> "idle", read |-> 0]]
      BY <1>2 DEF Start
    <2>5. \/ UNCHANGED <<times, thread>>
          \/ /\ ~AtEnd(first)
             /\ playbackTime' = OrderByTime(Rows, DOMAIN Rows)[1].time
             /\ nextMessageTime' = first.message.time
             /\ boundaryTime' = Forever /\ elapsed' = 0 /\ thread' = Thread("loop")
      BY <1>2 DEF Start
    <2> HIDE DEF first
    <2>6. Iterates(iter)' /\ \A u \in Users : user'[u].read \in Int
      BY <2>1, <2>4 DEF Iterates
    <2>7. thread' \in {thread, Thread("loop")}
      BY <2>5
    <2>8. thread'.remaining \in Nat
      BY <2>7, ThreadKeeps DEF Numbers
    <2>9. QED
      BY <2>2, <2>3, <2>5, <2>6, <2>8 DEF Numbers, times, Forever
  <1>3. QED
    BY <1>1, <1>2

LEMMA NumbersNext ==
    ASSUME Shape, Numbers, [Next]_vars
    PROVE  Numbers'
  <1>1. CASE UNCHANGED vars
    BY <1>1 DEF vars, times, Numbers, Iterates
  <1>2. CASE Next
    BY <1>2, NumbersOfChoice, NumbersOfThread, NumbersOfUsers DEF Next
  <1>3. QED
    BY <1>1, <1>2

-----------------------------------------------------------------------------
(* Every step keeps Exact.                                                 *)

\* The thread moves on to a place that the command lets it be at.
LEMMA ThreadIsExact ==
    ASSUME Shape, Exact, NEW at, ThreadGoes(at),
           at \in {"ended", "checked", "paused", "chose", "wait", "tested", "asleep", "act"},
           at \in {"wait", "tested", "asleep", "act"} => Waiting,
           at = "act" => thread.remaining = 0 \/ paused \/ stop,
           paused => at \in {"ended", "checked", "paused"} \/ Waiting,
           stop => at = "ended" \/ thread.at = "checked" \/ Waiting
    PROVE  Exact'
  <1>1. /\ thread'.at = at /\ thread'.ending = thread.ending
        /\ thread'.remaining = thread.remaining
    BY ThreadKeeps DEF ThreadGoes
  <1>2. UNCHANGED <<settled, late, user, iter, playbackTime, boundaryTime, nextMessageTime,
                    elapsed, paused, stop>>
    BY DEF ThreadGoes, times, flags, ghosts
  <1>3. SUFFICES ASSUME settled PROVE Exact'
    BY <1>2 DEF Exact
  <1>4. /\ late = 0 /\ ~Seeking /\ nextMessageTime = iter.message.time
        /\ paused => thread.at \in {"paused", "loop", "checked", "ended", "notify", "done"}
        /\ stop => thread.at \in {"paused", "loop", "ended", "notify", "done"}
        /\ Waiting /\ ~thread.ending => nextMessageTime <= boundaryTime
        /\ Waiting /\ thread.ending =>
              /\ boundaryTime < nextMessageTime
              /\ playbackTime + elapsed + thread.remaining >= boundaryTime
              /\ ThreadAt("act") => thread.remaining = 0
    BY <1>3 DEF Exact
  <1>5. Waiting => ~paused /\ ~stop
    BY <1>4 DEF Waiting
  <1>6. QED
    BY <1>1, <1>2, <1>4, <1>5 DEF Exact, Waiting, Seeking, ThreadAt

\* What is not read in Exact.
LEMMA UserIsExact ==
    ASSUME Exact, ~Seeking => ~Seeking', late' = late, settled' => settled,
           UNCHANGED <<thread, iter, playbackTime, boundaryTime, nextMessageTime, elapsed>>,
           paused' => paused, stop' => stop
    PROVE  Exact'
  BY DEF Exact, Waiting, ThreadAt

LEMMA ExactOfThread ==
    ASSUME Shape, Numbers, Exact, ThreadContinues \/ SpuriousWakeup \/ Tick
    PROVE  Exact'
  <1>1. CASE LoopTest
    <2>1. PICK at \in {"ended", "checked"} : ThreadGoes(at) /\ (stop => at = "ended")
      BY <1>1 DEF LoopTest
    <2>2. QED
      BY <2>1, ThreadIsExact
  <1>2. CASE TestPaused
    <2>1. PICK at \in {"paused", "chose"} :
              ThreadGoes(at) /\ (paused => at = "paused") /\ thread.at = "checked"
      BY <1>2 DEF TestPaused, ThreadAt
    <2>2. QED
      BY <2>1, ThreadIsExact
  <1>3. CASE WaitTest \/ Block \/ WaitOver \/ SpuriousWakeup
    <2>1. PICK at \in {"act", "tested", "asleep", "wait"} :
              /\ ThreadGoes(at) /\ thread.at \in {"wait", "tested", "asleep"}
              /\ at = "act" => thread.remaining = 0 \/ paused \/ stop
      BY <1>3 DEF WaitTest, Block, WaitOver, SpuriousWakeup, ThreadAt
    <2>2. Waiting
      BY <2>1 DEF Waiting
    <2>3. QED
      BY <2>1, <2>2, ThreadIsExact
  <1>4. CASE PauseOver
    <2>1. thread'.at = "loop"
      BY <1>4, ThreadKeeps DEF PauseOver
    <2>2. UNCHANGED <<settled, late, user, iter, nextMessageTime, paused, stop>>
      BY <1>4 DEF PauseOver, flags, ghosts
    <2>3. QED
      BY <2>1, <2>2 DEF Exact, Waiting, Seeking, ThreadAt
  <1>5. CASE ChooseTarget
    <2>1. UNCHANGED <<settled, late, user, iter, playbackTime, boundaryTime, nextMessageTime,
                      elapsed, paused, stop>> /\ thread.at = "chose"
      BY <1>5 DEF ChooseTarget, times, flags, ghosts, ThreadAt
    <2>2. SUFFICES ASSUME settled PROVE Exact'
      BY <2>1 DEF Exact
    <2>3. late = 0 /\ ~Seeking /\ nextMessageTime = iter.message.time /\ ~paused /\ ~stop
      BY <2>1, <2>2 DEF Exact
    <2>4. thread'.at \in {"wait", "act"}
      BY <1>5 DEF ChooseTarget
    <2>5. ~thread'.ending => nextMessageTime <= boundaryTime
      BY <1>5 DEF ChooseTarget
    <2>6. thread'.ending => /\ boundaryTime < nextMessageTime
                            /\ thread'.at = "wait"
                            /\ playbackTime + elapsed + thread'.remaining >= boundaryTime
      BY <1>5 DEF ChooseTarget, Remaining, Numbers
    <2>7. QED
      BY <2>1, <2>3, <2>4, <2>5, <2>6 DEF Exact, Waiting, Seeking, ThreadAt
  <1>6. CASE Publish
    <2>1. /\ thread.at = "act" /\ ~thread.ending
          /\ late' = late + (IF Forbidden THEN 1 ELSE 0)
          /\ nextMessageTime' = iter'.message.time
          /\ thread' = Thread("loop")
          /\ UNCHANGED <<user, settled, stop, paused>>
      BY <1>6 DEF Publish, ThreadAt, flags
    <2>2. SUFFICES ASSUME settled PROVE Exact'
      BY <2>1 DEF Exact
    <2>3. ~Seeking /\ ~paused /\ ~stop /\ late = 0 /\ iter.message.time <= boundaryTime
      BY <2>1, <2>2 DEF Exact, Waiting
    <2>4. late' = 0
      BY <2>1, <2>3 DEF Forbidden
    <2>5. thread'.at = "loop"
      BY <2>1, ThreadKeeps
    <2>6. QED
      BY <2>1, <2>3, <2>4, <2>5 DEF Exact, Waiting, Seeking, ThreadAt
  <1>7. CASE EndStep
    <2>1. /\ thread.at = "act" /\ thread' = Thread("loop")
          /\ UNCHANGED <<user, settled, late, stop, iter, nextMessageTime>>
      BY <1>7 DEF EndStep, ThreadAt, ghosts
    <2>2. thread'.at = "loop"
      BY <2>1, ThreadKeeps
    <2>3. QED
      BY <2>1, <2>2 DEF Exact, Waiting, Seeking, ThreadAt
  <1>8. CASE Finish
    <2>1. /\ thread.at = "ended" /\ thread' = Thread("notify")
          /\ UNCHANGED <<user, settled, late, stop, paused, iter, nextMessageTime>>
      BY <1>8 DEF Finish, ThreadAt, ghosts, times
    <2>2. thread'.at = "notify"
      BY <2>1, ThreadKeeps
    <2>3. QED
      BY <2>1, <2>2 DEF Exact, Waiting, Seeking, ThreadAt
  <1>9. CASE NotifyFinished
    <2>1. /\ thread' = Thread("done")
          /\ UNCHANGED <<settled, late, stop, paused, iter, nextMessageTime>>
          /\ user' = [u \in Users |-> IF UserAt(u, "blocked")
                                      THEN [user[u] EXCEPT !.at = "test"] ELSE user[u]]
      BY <1>9 DEF NotifyFinished, times, flags
    <2>2. thread'.at = "done"
      BY <2>1, ThreadKeeps
    <2>3. ~Seeking => ~Seeking'
      BY <2>1 DEF Seeking, Shape
    <2>4. QED
      BY <2>1, <2>2, <2>3 DEF Exact, Waiting, ThreadAt
  <1>10. CASE Tick
    <2>1. /\ UNCHANGED <<user, iter, stop, paused, playbackTime, nextMessageTime, boundaryTime,
                         late, settled>>
          /\ elapsed' = elapsed + 1
          /\ thread' = [thread EXCEPT !.remaining = IF @ > 0 THEN @ - 1 ELSE 0]
      BY <1>10 DEF Tick, flags, ghosts
    <2>2. /\ thread'.at = thread.at /\ thread'.ending = thread.ending
          /\ thread'.remaining = IF thread.remaining > 0 THEN thread.remaining - 1 ELSE 0
      BY <2>1 DEF Shape
    <2>3. playbackTime + elapsed + thread.remaining >= boundaryTime =>
              playbackTime + elapsed' + thread'.remaining >= boundaryTime
      BY <2>1, <2>2 DEF Numbers
    <2>4. thread.remaining = 0 => thread'.remaining = 0
      BY <2>2
    <2>5. SUFFICES ASSUME settled PROVE Exact'
      BY <2>1 DEF Exact
    <2>6. QED
      BY <2>1, <2>2, <2>3, <2>4, <2>5 DEF Exact, Waiting, Seeking, ThreadAt
  <1>11. QED
    BY <1>1, <1>2, <1>3, <1>4, <1>5, <1>6, <1>7, <1>8, <1>9, <1>10 DEF ThreadContinues

LEMMA ExactOfUsers ==
    ASSUME Shape, Exact, NEW u \in Users, UserCalls(u) \/ UserContinues(u)
    PROVE  Exact'
  <1>1. CASE Pause(u) \/ Resume(u) \/ Stop(u) \/ (\E o \in Offsets : Seek(u, o))
    <2>1. ~settled'
      BY <1>1 DEF Pause, Resume, Stop, Seek
    <2>2. QED
      BY <2>1 DEF Exact
  <1>2. CASE WaitUntilFinished(u) \/ StepResume(u) \/ StopPaused(u) \/ StopJoin(u)
             \/ WaiterTest(u) \/ WaiterBlock(u)
    <2>1. PICK at \in {"gone", "test", "idle", "join", "tested", "blocked"} : UserGoes(u, at)
      BY <1>2 DEF WaitUntilFinished, StepResume, StopPaused, StopJoin, WaiterTest,
         WaiterBlock, Waits
    <2>2. ~Seeking => ~Seeking'
      BY <2>1, UserKeeps
    <2>3. /\ UNCHANGED <<settled, late, thread, iter, stop, playbackTime, boundaryTime,
                         nextMessageTime, elapsed>>
          /\ paused' => paused
      BY <1>2 DEF WaitUntilFinished, StepResume, StopPaused, StopJoin, WaiterTest,
         WaiterBlock, Waits, times, flags, ghosts
    <2>4. QED
      BY <2>2, <2>3, UserIsExact
  <1>3. CASE \E d \in Steps : Step(u, d)
    <2>1. /\ UserGoes(u, "step") /\ late' = 0
          /\ UNCHANGED <<thread, iter, nextMessageTime>>
          /\ settled' => ThreadAt("paused") /\ ~Seeking /\ nextMessageTime = iter.message.time
      BY <1>3 DEF Step, UserGoes
    <2>2. ~Seeking => ~Seeking'
      BY <2>1, UserKeeps
    <2>3. QED
      BY <2>1, <2>2 DEF Exact, Waiting, ThreadAt
  \* No Seek is under way while a step is exact.
  <1>4. CASE SeekPlaybackTime(u) \/ SeekNextMessageTime(u)
    <2>1. Seeking /\ settled' = settled
      BY <1>4 DEF SeekPlaybackTime, SeekNextMessageTime, Seeking, UserAt, ghosts
    <2>2. QED
      BY <2>1 DEF Exact
  <1>5. QED
    BY <1>1, <1>2, <1>3, <1>4 DEF UserCalls, UserContinues

LEMMA ExactOfChoice ==
    ASSUME Shape, Fresh, Exact, Choice
    PROVE  Exact'
  <1>1. CASE ~Start
    <2>1. UNCHANGED <<iter, times, flags, thread, user, ghosts>>
      BY <1>1 DEF Choice, AddTopic, AddTopics, RemoveTopic, RemoveTopics, Choose
    <2>2. QED
      BY <2>1 DEF Exact, Waiting, Seeking, ThreadAt, times, flags, ghosts
  <1>2. CASE Start
    <2>1. ThreadAt("none") /\ settled' = settled
      BY <1>2 DEF Start, Fresh, Started, ghosts
    <2>2. QED
      BY <2>1 DEF Exact
  <1>3. QED
    BY <1>1, <1>2

LEMMA ExactNext ==
    ASSUME Shape, Fresh, Numbers, Exact, [Next]_vars
    PROVE  Exact'
  <1>1. CASE UNCHANGED vars
    BY <1>1 DEF vars, times, flags, ghosts, Exact, Waiting, Seeking, ThreadAt
  <1>2. CASE Next
    BY <1>2, ExactOfChoice, ExactOfThread, ExactOfUsers DEF Next
  <1>3. QED
    BY <1>1, <1>2

\* What sets paused is a Pause, which ends the exact step, and the end of the step.
LEMMA StepEndsInTime ==
    ASSUME Exact, Numbers, Next, settled, settled', paused', ~paused
    PROVE  nextMessageTime > boundaryTime /\ playbackTime' >= boundaryTime
  <1>1. EndStep
    <2>1. CASE Choice
      BY <2>1 DEF Choice, AddTopic, AddTopics, RemoveTopic, RemoveTopics, Choose, Start, flags
    <2>2. CASE ThreadContinues \/ SpuriousWakeup \/ Tick
      BY <2>2 DEF ThreadContinues, LoopTest, TestPaused, PauseOver, ChooseTarget, WaitTest,
         Block, WaitOver, Publish, Finish, NotifyFinished, SpuriousWakeup, Tick, ThreadGoes, flags
    <2>3. CASE \E u \in Users : UserCalls(u) \/ UserContinues(u)
      <3>1. PICK u \in Users : UserCalls(u) \/ UserContinues(u)
        BY <2>3
      <3>2. CASE UserCalls(u)
        BY <3>2 DEF UserCalls, Pause, Resume, Stop, WaitUntilFinished, Waits, Step, Seek, flags
      <3>3. CASE UserContinues(u)
        BY <3>3 DEF UserContinues, Waits, StepResume, SeekPlaybackTime, SeekNextMessageTime,
           StopPaused, StopJoin, WaiterTest, WaiterBlock, flags
      <3>4. QED
        BY <3>1, <3>2, <3>3
    <2>4. QED
      BY <2>1, <2>2, <2>3 DEF Next
  <1>2. thread.at = "act" /\ thread.ending /\ playbackTime' = playbackTime + elapsed
    BY <1>1 DEF EndStep, DoPause, ThreadAt
  <1>3. /\ boundaryTime < nextMessageTime
        /\ playbackTime + elapsed + thread.remaining >= boundaryTime
        /\ thread.remaining = 0
    BY <1>2 DEF Exact, Waiting, ThreadAt
  <1>4. QED
    BY <1>2, <1>3 DEF Numbers

\* A step begun when the thread was blocked in the pause, and no Seek was on its way
\* or had left a stale nextMessageTime, publishes nothing beyond its boundary, and
\* pauses when its interval has been played and its time has passed, whatever the
\* log, the other users and the pace, and however long the time that passes.
THEOREM StepsAreExact == Spec => StepIsExact
  <1> DEFINE IInv == Inv /\ Fresh /\ Numbers /\ Exact
  <1>1. Init => IInv
    <2> SUFFICES ASSUME Init PROVE IInv
      OBVIOUS
    <2>1. Inv /\ Fresh
      BY InvInit DEF Init, Fresh, ThreadAt
    <2>2. Iterates(iter)
      <3>1. <<>> \in Seq(Seq(Logged))
        OBVIOUS
      <3>2. iter = Begin(<<>>)
        BY DEF Init
      <3>3. QED
        BY <3>1, <3>2, BeginIterates
    <2>3. Numbers
      BY <2>2 DEF Init, Numbers, Forever
    <2>4. Exact
      BY DEF Init, Exact
    <2>5. QED
      BY <2>1, <2>3, <2>4
  <1>2. IInv /\ [Next]_vars => IInv'
    BY InvStep, NumbersNext, ExactNext DEF Inv
  <1>3. IInv /\ IInv' /\ [Next]_vars =>
          [settled /\ settled' =>
              /\ late' = 0
              /\ paused' /\ ~paused => /\ nextMessageTime > boundaryTime
                                       /\ playbackTime' >= boundaryTime]_vars
    BY StepEndsInTime DEF Exact
  <1>4. QED
    BY <1>1, <1>2, <1>3, PTL DEF Spec, StepIsExact
=============================================================================
