------------------------------- MODULE Calls --------------------------------
(***************************************************************************)
(* What a caller of a service is promised, whatever number of servers,     *)
(* threads and connections there is between: its request is executed at    *)
(* most once, and only if it was made; what it is told is the result of    *)
(* that execution; it is told once; and a blocking call that returns       *)
(* reports a result exactly if it was told one.  Module ServiceCall        *)
(* implements it.                                                          *)
(***************************************************************************)
EXTENDS Sequences

CONSTANTS
    Req,    \* the calls
    Sync,   \* those that block
    OneWay, \* those whose response is empty
    Result  \* what a service answers

VARIABLES
    asked,    \* asked[r]: "no", "waiting", "returned", "timeout"
    executed, \* executed[r]: the results of its executions
    told      \* told[r]: the results the caller was given

vars == <<asked, executed, told>>

Init ==
    /\ asked = [r \in Req |-> "no"]
    /\ executed = [r \in Req |-> <<>>]
    /\ told = [r \in Req |-> <<>>]

\* A call with a callback returns at once.
Ask(r) ==
    /\ asked[r] = "no"
    /\ asked' = [asked EXCEPT ![r] = IF r \in Sync THEN "waiting" ELSE "returned"]
    /\ UNCHANGED <<executed, told>>

\* A caller that gave up is not waited for: its request may be executed later.
Execute(r) ==
    /\ asked[r] # "no"
    /\ executed[r] = <<>>
    /\ \E result \in Result : executed' = [executed EXCEPT ![r] = <<result>>]
    /\ UNCHANGED <<asked, told>>

\* The answer may come after the timeout.
Tell(r) ==
    /\ r \notin OneWay
    /\ executed[r] # <<>>
    /\ told[r] = <<>>
    /\ told' = [told EXCEPT ![r] = executed[r]]
    /\ UNCHANGED <<asked, executed>>

Return(r) ==
    /\ asked[r] = "waiting"
    /\ asked' = [asked EXCEPT ![r] = IF told[r] = <<>> THEN "timeout" ELSE "returned"]
    /\ UNCHANGED <<executed, told>>

Next == \E r \in Req : Ask(r) \/ Execute(r) \/ Tell(r) \/ Return(r)

Spec == Init /\ [][Next]_vars
=============================================================================
