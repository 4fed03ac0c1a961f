----------------------------- MODULE Throttling -----------------------------
(***************************************************************************)
(* UpdateThrottling of a publisher (src/aerozen/node.cpp) or of a          *)
(* subscription handler (src/aerozen/subscription_handler.cpp), called by  *)
(* several threads.  A publisher tests and sets lastCbTimestamp in two     *)
(* critical sections; a handler has no lock, so that its test and its      *)
(* assignment are steps of their own too.                                  *)
(***************************************************************************)
EXTENDS Integers

CONSTANTS
    Callers,    \* threads that publish, or deliver
    Period,     \* periodNs
    MaxTime     \* bound: the clock

VARIABLES
    kind,               \* "publisher" or "handler"
    now,                \* std::chrono::steady_clock
    lastCbTimestamp,
    caller,             \* what each thread is in the middle of
    passed              \* history: [caller, time] of the messages let through

vars == <<kind, now, lastCbTimestamp, caller, passed>>

At(state, sampled) == [at |-> state, sampled |-> sampled]

Init ==
    /\ kind \in {"publisher", "handler"}
    /\ now = 0
    /\ lastCbTimestamp = -Period    \* long ago
    /\ caller = [c \in Callers |-> At("idle", 0)]
    /\ passed = {}

Tick ==
    /\ now < MaxTime
    /\ now' = now + 1
    /\ UNCHANGED <<kind, lastCbTimestamp, caller, passed>>

\* Both sample the clock before they look at the last time.
Sample(c) ==
    /\ caller[c].at \in {"idle", "refused"}
    /\ caller' = [caller EXCEPT ![c] = At("testing", now)]
    /\ UNCHANGED <<kind, now, lastCbTimestamp, passed>>

Test(c) ==
    /\ caller[c].at = "testing"
    /\ caller' = [caller EXCEPT ![c].at =
                    IF caller[c].sampled - lastCbTimestamp >= Period
                    THEN "updating" ELSE "refused"]
    /\ UNCHANGED <<kind, now, lastCbTimestamp, passed>>

\* Slip: a publisher sets the time it tested with.
StampSampled(c) == caller[c].sampled

\* A publisher takes the time anew, a handler sets the one it tested with.
Stamp(c) == IF kind = "publisher" THEN now ELSE caller[c].sampled

\* The message is let through.
Update(c) ==
    /\ caller[c].at = "updating"
    /\ lastCbTimestamp' = Stamp(c)
    /\ caller' = [caller EXCEPT ![c] = At("idle", 0)]
    /\ passed' = passed \cup {[caller |-> c, time |-> now]}
    /\ UNCHANGED <<kind, now>>

Next == Tick \/ \E c \in Callers : Sample(c) \/ Test(c) \/ Update(c)

Spec == Init /\ [][Next]_vars

-----------------------------------------------------------------------------
(***************************************************************************)
(* Properties.                                                             *)
(***************************************************************************)

\* Through a publisher one thread sends at most once in a period, whatever the
\* others do: as many messages as threads may pass in a period, not more
\* (node.cpp:102, :123).  A handler does not keep this: a thread that was held
\* up sets the time back.
OncePerPeriod ==
    kind = "publisher" =>
        /\ \A p, q \in passed :
              p.caller = q.caller => p = q \/ p.time + Period <= q.time
                                           \/ q.time + Period <= p.time
        /\ \A c \in Callers : caller[c].at = "updating" =>
              \A p \in passed : p.caller = c => p.time + Period <= now

\* No message is suppressed that was sent a period after the last that passed
\* (node.cpp:106, subscription_handler.cpp:135).
NotStarved ==
    \A c \in Callers : caller[c].at = "refused" =>
        \E p \in passed : caller[c].sampled < p.time + Period
=============================================================================
