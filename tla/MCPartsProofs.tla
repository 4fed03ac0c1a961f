---------------------------- MODULE MCPartsProofs ----------------------------
(***************************************************************************)
(* Theorems about the small modules, each of them for every value of its   *)
(* constants.  As in MCParts one part moves in a behavior; what is proved  *)
(* of it is what its own specification says.                               *)
(***************************************************************************)
EXTENDS MCParts, SequenceTheorems, FiniteSetTheorems, WellFoundedInduction, TLAPS

-----------------------------------------------------------------------------
(* The parts of a node.                                                    *)

\* What is proved of NodePartsSpec holds of the behaviors in which any part moves:
\* they are its behaviors, whatever the other parts do.
THEOREM NodePartsAmongThem == PartsSpec => NodePartsSpec
  <1>1. PartsInit => NodePartsInit
    BY DEF PartsInit
  <1>2. [PartsNext]_AllVars => [NodePartsNext]_nodePartsVars
    BY DEF PartsNext, AllVars
  <1>3. QED
    BY <1>1, <1>2, PTL DEF PartsSpec, NodePartsSpec

LEMMA PartStays == [PartsNext]_AllVars => UNCHANGED part
  BY DEF PartsNext, NodePartsNext, AllVars, nodePartsVars

-----------------------------------------------------------------------------
(* Throttling.                                                             *)

CallerAt == {"idle", "testing", "updating", "refused"}

ThrottlingTypes ==
    /\ kind \in {"publisher", "handler"}
    /\ now \in Nat /\ lastCbTimestamp \in Int
    /\ caller \in [Callers -> [at : CallerAt, sampled : Nat]]
    /\ passed \subseteq [caller : Callers, time : Nat]

\* Nobody has sampled, and nothing has passed, later than now.
NotInFuture ==
    /\ \A c \in Callers : caller[c].sampled <= now
    /\ \A p \in passed : p.time <= now

\* A publisher's last time is that of the last message that passed.
LastIsLast == kind = "publisher" => \A p \in passed : p.time <= lastCbTimestamp

\* The last time is that of a message which passed then or later, or long ago.
LastPassed == lastCbTimestamp = -Period \/ \E p \in passed : lastCbTimestamp <= p.time

Throttled ==
    /\ ThrottlingTypes /\ NotInFuture /\ LastIsLast /\ LastPassed
    /\ TH!OncePerPeriod /\ TH!NotStarved

LEMMA ThrottledInit == ASSUME TH!Init PROVE Throttled
  <1>1. caller = [c \in Callers |-> [at |-> "idle", sampled |-> 0]] /\ passed = {}
    BY DEF TH!Init, TH!At
  <1>2. QED
    BY <1>1, PeriodAssumption DEF TH!Init, Throttled, ThrottlingTypes, NotInFuture, LastIsLast, LastPassed, CallerAt,
       TH!OncePerPeriod, TH!NotStarved

LEMMA ThrottledTick == ASSUME Throttled, TH!Tick PROVE Throttled'
  <1>1. now' = now + 1 /\ UNCHANGED <<kind, lastCbTimestamp, caller, passed>>
    BY DEF TH!Tick
  <1>2. (ThrottlingTypes /\ NotInFuture /\ LastIsLast /\ LastPassed)'
    BY <1>1 DEF Throttled, ThrottlingTypes, NotInFuture, LastIsLast, LastPassed
  <1>3. TH!OncePerPeriod' /\ TH!NotStarved'
    <2>1. \A p \in passed : p.time + Period <= now => p.time + Period <= now + 1
      BY PeriodAssumption DEF Throttled, ThrottlingTypes
    <2>2. QED
      BY <1>1, <2>1 DEF Throttled, TH!OncePerPeriod, TH!NotStarved
  <1>4. QED
    BY <1>2, <1>3 DEF Throttled

LEMMA ThrottledSample == ASSUME Throttled, NEW c \in Callers, TH!Sample(c) PROVE Throttled'
  <1>1. /\ caller' = [caller EXCEPT ![c] = [at |-> "testing", sampled |-> now]]
        /\ UNCHANGED <<kind, now, lastCbTimestamp, passed>>
    BY DEF TH!Sample, TH!At
  <1>2. ThrottlingTypes' /\ NotInFuture' /\ LastIsLast' /\ LastPassed'
    BY <1>1 DEF Throttled, ThrottlingTypes, NotInFuture, LastIsLast, LastPassed, CallerAt
  <1>3. /\ caller'[c].at = "testing"
        /\ \A d \in Callers : d # c => caller'[d] = caller[d]
    BY <1>1 DEF Throttled, ThrottlingTypes
  <1>4. TH!OncePerPeriod' /\ TH!NotStarved'
    BY <1>1, <1>3 DEF Throttled, TH!OncePerPeriod, TH!NotStarved
  <1>5. QED
    BY <1>2, <1>4 DEF Throttled

\* A thread passes the test a period after all that has passed by a publisher, and
\* fails it only because of something that has passed.
LEMMA ThrottledTest == ASSUME Throttled, NEW c \in Callers, TH!Test(c) PROVE Throttled'
  <1> DEFINE sampled == caller[c].sampled
             at == IF sampled - lastCbTimestamp >= Period THEN "updating" ELSE "refused"
  <1>1. /\ caller' = [caller EXCEPT ![c].at = at]
        /\ UNCHANGED <<kind, now, lastCbTimestamp, passed>>
        /\ caller \in [Callers -> [at : CallerAt, sampled : Nat]]
        /\ lastCbTimestamp \in Int /\ now \in Nat /\ sampled \in Nat /\ sampled <= now
        /\ \A p \in passed : p.time \in Nat
    BY DEF TH!Test, Throttled, ThrottlingTypes, NotInFuture
  <1>2. /\ caller'[c].at = at /\ caller'[c].sampled = sampled
        /\ \A d \in Callers : d # c => caller'[d] = caller[d]
    BY <1>1
  <1>3. caller' \in [Callers -> [at : CallerAt, sampled : Nat]]
    BY <1>1 DEF CallerAt
  <1>4. ThrottlingTypes' /\ NotInFuture' /\ LastIsLast' /\ LastPassed'
    BY <1>1, <1>2, <1>3 DEF Throttled, ThrottlingTypes, NotInFuture, LastIsLast, LastPassed
  <1>5. TH!OncePerPeriod'
    <2>1. kind = "publisher" /\ at = "updating" => \A p \in passed : p.time + Period <= now
      <3> SUFFICES ASSUME kind = "publisher", at = "updating", NEW p \in passed
                   PROVE  p.time + Period <= now
        OBVIOUS
      <3>1. p.time <= lastCbTimestamp /\ sampled - lastCbTimestamp >= Period
        BY DEF Throttled, LastIsLast
      <3>2. QED
        BY <1>1, <3>1, PeriodAssumption
    <2>2. QED
      BY <1>1, <1>2, <2>1 DEF Throttled, TH!OncePerPeriod
  <1>6. TH!NotStarved'
    <2>1. at = "refused" => \E p \in passed : sampled < p.time + Period
      <3> SUFFICES ASSUME ~ (sampled - lastCbTimestamp >= Period)
                   PROVE  \E p \in passed : sampled < p.time + Period
        OBVIOUS
      <3>1. lastCbTimestamp # -Period
        BY <1>1, PeriodAssumption
      <3>2. PICK p \in passed : lastCbTimestamp <= p.time
        BY <3>1 DEF Throttled, LastPassed
      <3>3. sampled < p.time + Period
        BY <1>1, <3>2, PeriodAssumption
      <3>4. QED
        BY <3>3
    <2>2. QED
      BY <1>1, <1>2, <2>1 DEF Throttled, TH!NotStarved
  <1>7. QED
    BY <1>4, <1>5, <1>6 DEF Throttled

LEMMA ThrottledUpdate == ASSUME Throttled, NEW c \in Callers, TH!Update(c) PROVE Throttled'
  <1> PICK new \in [caller : Callers, time : Nat] : new = [caller |-> c, time |-> now]
    BY DEF Throttled, ThrottlingTypes
  <1>1. /\ caller' = [caller EXCEPT ![c] = [at |-> "idle", sampled |-> 0]]
        /\ passed' = passed \cup {new} /\ new.caller = c /\ new.time = now
        /\ lastCbTimestamp' = IF kind = "publisher" THEN now ELSE caller[c].sampled
        /\ UNCHANGED <<kind, now>>
        /\ caller[c].at = "updating"
    BY DEF TH!Update, TH!At, TH!Stamp
  <1>2. /\ caller \in [Callers -> [at : CallerAt, sampled : Nat]]
        /\ now \in Nat /\ caller[c].sampled \in Nat /\ caller[c].sampled <= now
        /\ passed \subseteq [caller : Callers, time : Nat]
        /\ \A p \in passed : p.time \in Nat /\ p.time <= now
    BY DEF Throttled, ThrottlingTypes, NotInFuture
  <1>3. /\ caller'[c].at = "idle" /\ caller'[c].sampled = 0
        /\ \A d \in Callers : d # c => caller'[d] = caller[d]
    BY <1>1, <1>2
  <1>4. ThrottlingTypes'
    BY <1>1, <1>2 DEF Throttled, ThrottlingTypes, CallerAt
  <1>5. NotInFuture'
    BY <1>1, <1>2, <1>3 DEF Throttled, NotInFuture
  <1>6. LastIsLast' /\ LastPassed'
    BY <1>1, <1>2 DEF Throttled, LastIsLast, LastPassed
  <1>7. TH!OncePerPeriod'
    <2> SUFFICES ASSUME kind = "publisher" PROVE TH!OncePerPeriod'
      BY <1>1 DEF TH!OncePerPeriod
    <2>1. \A p \in passed : p.caller = c => p.time + Period <= now
      BY <1>1 DEF Throttled, TH!OncePerPeriod
    <2>2. \A p, q \in passed' :
              p.caller = q.caller => p = q \/ p.time + Period <= q.time
                                           \/ q.time + Period <= p.time
      BY <1>1, <2>1 DEF Throttled, TH!OncePerPeriod
    <2>3. \A d \in Callers : caller'[d].at = "updating" =>
              \A p \in passed' : p.caller = d => p.time + Period <= now
      BY <1>1, <1>3 DEF Throttled, TH!OncePerPeriod
    <2>4. QED
      BY <1>1, <2>2, <2>3 DEF TH!OncePerPeriod
  <1>8. TH!NotStarved'
    BY <1>1, <1>3 DEF Throttled, TH!NotStarved
  <1>9. QED
    BY <1>4, <1>5, <1>6, <1>7, <1>8 DEF Throttled

LEMMA ThrottledNext == ASSUME Throttled, TH!Next \/ UNCHANGED throttlingVars PROVE Throttled'
  <1>1. CASE UNCHANGED throttlingVars
    BY <1>1 DEF throttlingVars, Throttled, ThrottlingTypes, NotInFuture, LastIsLast, LastPassed,
       TH!OncePerPeriod, TH!NotStarved
  <1>2. QED
    BY <1>1, ThrottledTick, ThrottledSample, ThrottledTest, ThrottledUpdate DEF TH!Next

\* UpdateThrottling, called by any number of threads: through a publisher one
\* thread sends at most once in a period, and neither a publisher nor a handler
\* suppresses a message that comes a period after the last that passed.
THEOREM RateIsKept == PartsSpec => []RateKept
  <1>1. PartsInit => (part = "throttling" => Throttled)
    BY ThrottledInit DEF PartsInit
  <1>2. (part = "throttling" => Throttled) /\ [PartsNext]_AllVars
            => (part = "throttling" => Throttled)'
    BY PartStays, ThrottledNext DEF PartsNext, AllVars
  <1>3. (part = "throttling" => Throttled) => RateKept
    BY DEF Throttled, RateKept
  <1>4. QED
    BY <1>1, <1>2, <1>3, PTL DEF PartsSpec

-----------------------------------------------------------------------------
(* Parameters.                                                             *)

AllOperations == Operations \cup {"list"}

Results == {"SUCCESS", "ALREADY_DECLARED", "NOT_DECLARED", "INVALID_TYPE", NoResult}

\* A request, done or not, is of a call of its client, and no later one.
OfItsCall(r) ==
    /\ r.client \in Clients /\ r.id \in Nat \ {0} /\ r.op \in AllOperations
    /\ r.id <= client[r.client].id
    /\ r.id = client[r.client].id => r = RequestOf(r.client)

CallsOk ==
    /\ DOMAIN client = Clients /\ DOMAIN current = Clients
    /\ \A c \in Clients : /\ client[c].id \in Nat
                          /\ client[c].at \in {"idle", "waiting", "returned"}
                          /\ client[c].at = "idle" => client[c].id = 0
    /\ \A r \in requests \cup applied : OfItsCall(r)
    /\ requests \cap applied = {}

\* What the result of a set or a declaration tells of it.
Truth(r, result) ==
    CASE result = "SUCCESS" -> r \in applied
      [] result = NoResult /\ r.op = "set" -> ~Unpacks(r.msg)
      [] OTHER -> r \notin applied

\* A response tells what was done, and what was read during the call.
TrueResponse(p) ==
    /\ OfItsCall(p.to) /\ p.to \notin requests
    /\ p.result \in Results
    /\ p.to.op \in {"set", "declare"} => Truth(p.to, p.result)
    /\ LET c == p.to.client
       IN  client[c].at = "waiting" /\ client[c].id = p.to.id /\ p.to.op \in {"get", "list"}
               /\ p.result = "SUCCESS" => p.msg \in current[c]

Responsive ==
    CallsOk /\ (\A p \in responses : TrueResponse(p)) /\ ToldTheTruth /\ ReadIsCurrent

LEMMA ResponsiveInit == Init => Responsive
  BY DEF Init, Idle, Responsive, CallsOk, ToldTheTruth, ReadIsCurrent

\* What a service answers, and which answers are given with a change.
LEMMA ExecutedAnswers ==
    ASSUME NEW r, r.op \in AllOperations, NEW e \in Executed(r)
    PROVE  /\ e.result \in Results
           /\ r.op \in {"get", "list"} => e.map = parametersMap
           /\ r.op \in {"get", "list"} /\ e.result = "SUCCESS"
                  => e.msg = Readable(parametersMap, r.op, r.name)
           /\ r.op = "set" /\ e.result = NoResult => ~Unpacks(r.msg)
           /\ e.result # "SUCCESS" /\ ~(r.op = "set" /\ e.result = NoResult)
                  => e.map = parametersMap
  <1>1. CASE r.op = "get"
    BY <1>1 DEF Executed, Get, Outcome, Results, NoResult, Readable, ValueOf, Has
  <1>2. CASE r.op = "list"
    BY <1>2 DEF Executed, List, Outcome, Results, Readable
  <1>3. CASE r.op = "set"
    <2>1. e \in Set(r.name, r.msg)
      BY <1>3 DEF Executed
    <2>2. /\ Assign(r.name, r.msg).result \in {"SUCCESS", "NOT_DECLARED", "INVALID_TYPE"}
          /\ Assign(r.name, r.msg).result # "SUCCESS" => Assign(r.name, r.msg).map = parametersMap
      BY DEF Assign, Outcome
    <2>3. CASE e = Assign(r.name, r.msg)
      BY <1>3, <2>2, <2>3 DEF Results, NoResult
    <2>4. CASE e # Assign(r.name, r.msg)
      <3>1. /\ ~Unpacks(r.msg)
            /\ e \in {Outcome([parametersMap EXCEPT ![r.name].content = parsed], NoResult) :
                         parsed \in Contents}
        BY <2>1, <2>4 DEF Set
      <3>2. PICK map : e = Outcome(map, NoResult)
        BY <3>1
      <3>3. e.result = NoResult
        BY <3>2 DEF Outcome
      <3>4. QED
        BY <1>3, <3>1, <3>3 DEF Results, NoResult
    <2>5. QED
      BY <2>3, <2>4
  <1>4. CASE r.op = "declare"
    BY <1>4 DEF Executed, Declare, Emplace, Outcome, Results
  <1>5. QED
    BY <1>1, <1>2, <1>3, <1>4 DEF AllOperations, Operations

\* While a client waits, what it may be told grows.
LEMMA SeenGrows ==
    ASSUME NEW map, NEW c \in Clients
    PROVE  /\ current[c] \subseteq Seen(map)[c]
           /\ client[c].at = "waiting" => Readable(map, client[c].op, client[c].name) \in Seen(map)[c]
           /\ client[c].at # "waiting" => Seen(map)[c] = current[c]
           /\ DOMAIN Seen(map) = Clients
  BY DEF Seen

LEMMA ResponsiveServe == ASSUME Responsive, NEW r, Serve(r) PROVE Responsive'
  <1>0. PICK e \in Executed(r) :
            /\ r \in requests /\ requests' = requests \ {r}
            /\ applied' = IF \/ r.op \in {"set", "declare"} /\ e.result = "SUCCESS"
                             \/ e.map # parametersMap
                          THEN applied \cup {r} ELSE applied
            /\ responses' = responses \cup {[to |-> r, result |-> e.result, msg |-> e.msg]}
            /\ current' = Seen(e.map)
            /\ client' = client
    BY DEF Serve
  <1> PICK new : new = [to |-> r, result |-> e.result, msg |-> e.msg]
    OBVIOUS
  <1>1. /\ r \in requests /\ requests' = requests \ {r}
        /\ applied \subseteq applied' /\ applied' \subseteq applied \cup {r}
        /\ responses' = responses \cup {new}
        /\ current' = Seen(e.map)
        /\ client' = client
    BY <1>0
  <1>2. OfItsCall(r) /\ r \notin applied
    BY <1>1 DEF Responsive, CallsOk
  <1>3. /\ e.result \in Results
        /\ r.op \in {"get", "list"} => e.map = parametersMap
        /\ r.op \in {"get", "list"} /\ e.result = "SUCCESS"
               => e.msg = Readable(parametersMap, r.op, r.name)
        /\ r.op = "set" /\ e.result = NoResult => ~Unpacks(r.msg)
        /\ e.result # "SUCCESS" /\ ~(r.op = "set" /\ e.result = NoResult)
               => e.map = parametersMap
    BY <1>2, ExecutedAnswers DEF OfItsCall
  <1>4. \A x : OfItsCall(x) => OfItsCall(x)'
    BY <1>1 DEF OfItsCall, RequestOf
  <1>5. \A c \in Clients : /\ current[c] \subseteq current'[c]
                           /\ client[c].at # "waiting" => current'[c] = current[c]
    BY <1>1, SeenGrows
  <1>6. CallsOk'
    <2>1. DOMAIN current' = Clients
      BY <1>1 DEF Seen
    <2>2. QED
      BY <1>1, <1>2, <1>4, <2>1 DEF Responsive, CallsOk
  <1>7. ASSUME NEW p \in responses PROVE TrueResponse(p)'
    <2>1. TrueResponse(p) /\ p.to # r
      BY <1>1 DEF Responsive, TrueResponse
    <2>2. p.to.client \in Clients
      BY <2>1 DEF TrueResponse, OfItsCall
    <2>3. QED
      BY <1>1, <1>4, <1>5, <2>1, <2>2 DEF TrueResponse, Truth
  <1>8. TrueResponse(new)'
    <2>1. new.to = r /\ new.result = e.result /\ new.msg = e.msg
      OBVIOUS
    <2>2. ASSUME NEW c, c = r.client, client[c].at = "waiting", client[c].id = r.id,
                 r.op \in {"get", "list"}, e.result = "SUCCESS"
          PROVE  e.msg \in current'[c]
      <3>1. c \in Clients /\ r = RequestOf(c)
        BY <1>2, <2>2 DEF OfItsCall
      <3>2. r.op = client[c].op /\ r.name = client[c].name
        BY <3>1 DEF RequestOf
      <3>3. Readable(e.map, client[c].op, client[c].name) \in current'[c]
        BY <1>1, <2>2, <3>1, SeenGrows
      <3>4. QED
        BY <1>3, <2>2, <3>2, <3>3
    <2>3. OfItsCall(r)' /\ r \notin requests'
      BY <1>1, <1>2, <1>4
    <2>4. r.op \in {"set", "declare"} => Truth(r, e.result)'
      <3>1. r.op \in {"set", "declare"} /\ e.result = "SUCCESS" => r \in applied'
        BY <1>0
      <3>2. e.result # "SUCCESS" /\ ~(r.op = "set" /\ e.result = NoResult) => r \notin applied'
        BY <1>0, <1>2, <1>3
      <3>3. NoResult # "SUCCESS"
        BY DEF NoResult
      <3>4. QED
        BY <1>3, <3>1, <3>2, <3>3 DEF Truth
    <2>5. QED
      BY <1>1, <1>3, <2>1, <2>2, <2>3, <2>4 DEF TrueResponse
  <1>9. ToldTheTruth'
    <2>1. \A c \in Clients : RequestOf(c)' = RequestOf(c)
      BY <1>1 DEF RequestOf
    <2>2. applied \subseteq applied' /\ applied' \cup requests' \subseteq applied \cup requests
      BY <1>1
    <2>3. QED
      BY <1>1, <2>1, <2>2 DEF Responsive, ToldTheTruth
  <1>10. ReadIsCurrent'
    BY <1>1, <1>5 DEF Responsive, ReadIsCurrent
  <1>11. \A p \in responses' : TrueResponse(p)'
    BY <1>1, <1>7, <1>8
  <1>12. QED
    BY <1>6, <1>9, <1>10, <1>11 DEF Responsive

LEMMA ResponsiveLocal ==
    ASSUME Responsive, NEW outcome, Local(outcome)
    PROVE  Responsive'
  <1>1. current' = Seen(outcome.map) /\ UNCHANGED <<client, requests, responses, applied>>
    BY DEF Local
  <1>2. \A c \in Clients : current[c] \subseteq current'[c]
    BY <1>1, SeenGrows
  <1>3. \A x : OfItsCall(x) => OfItsCall(x)'
    BY <1>1 DEF OfItsCall, RequestOf
  <1>4. CallsOk'
    <2>1. DOMAIN current' = Clients
      BY <1>1 DEF Seen
    <2>2. QED
      BY <1>1, <1>3, <2>1 DEF Responsive, CallsOk
  <1>5. ASSUME NEW p \in responses PROVE TrueResponse(p)'
    <2>1. TrueResponse(p)
      BY DEF Responsive
    <2>2. p.to.client \in Clients
      BY <2>1 DEF TrueResponse, OfItsCall
    <2>3. QED
      BY <1>1, <1>2, <1>3, <2>1, <2>2 DEF TrueResponse, Truth
  <1>6. ToldTheTruth' /\ ReadIsCurrent'
    BY <1>1, <1>2 DEF Responsive, ToldTheTruth, ReadIsCurrent, RequestOf
  <1>7. QED
    BY <1>1, <1>4, <1>5, <1>6 DEF Responsive

LEMMA ResponsiveCall ==
    ASSUME Responsive, NEW c \in Clients, NEW op \in AllOperations, NEW par, NEW m,
           Call(c, op, par, m)
    PROVE  Responsive'
  <1> PICK id, r : /\ id = client[c].id + 1
                   /\ r = [client |-> c, id |-> id, op |-> op, name |-> par, msg |-> m]
    OBVIOUS
  <1>1. /\ client' = [client EXCEPT ![c] = [at |-> "waiting", id |-> id, op |-> op,
                                            name |-> par, msg |-> m]]
        /\ requests' = requests \cup {r}
        /\ current' = [current EXCEPT ![c] = {Readable(parametersMap, op, par)}]
        /\ UNCHANGED <<responses, applied>>
    BY DEF Call
  <1>2. /\ DOMAIN client = Clients /\ DOMAIN current = Clients
        /\ \A d \in Clients : client[d].id \in Nat
        /\ client[c].id < id /\ id \in Nat \ {0}
    BY DEF Responsive, CallsOk
  <1>3. /\ DOMAIN client' = Clients /\ DOMAIN current' = Clients
        /\ \A d \in Clients : d # c => client'[d] = client[d] /\ current'[d] = current[d]
    BY <1>1, <1>2
  <1>4. /\ client'[c].at = "waiting" /\ client'[c].id = id /\ client'[c].op = op
        /\ client'[c].name = par /\ client'[c].msg = m
    BY <1>1, <1>2
  <1>5. RequestOf(c)' = r /\ \A d \in Clients : d # c => RequestOf(d)' = RequestOf(d)
    BY <1>3, <1>4 DEF RequestOf
  <1>6. \A x : OfItsCall(x) => OfItsCall(x)' /\ (x.client = c => x.id < id)
    BY <1>2, <1>3, <1>4, <1>5 DEF OfItsCall
  <1>7. r.client = c /\ r.id = id /\ OfItsCall(r)'
    BY <1>2, <1>4, <1>5 DEF OfItsCall
  <1>8. \A x : OfItsCall(x) => x # r
    BY <1>2, <1>6, <1>7
  <1>9. CallsOk'
    <2>1. \A d \in Clients : /\ client'[d].id \in Nat
                             /\ client'[d].at \in {"idle", "waiting", "returned"}
                             /\ client'[d].at = "idle" => client'[d].id = 0
      BY <1>2, <1>3, <1>4 DEF Responsive, CallsOk
    <2>2. \A x \in requests' \cup applied' : OfItsCall(x)'
      BY <1>1, <1>6, <1>7 DEF Responsive, CallsOk
    <2>3. requests' \cap applied' = {}
      BY <1>1, <1>8 DEF Responsive, CallsOk
    <2>4. QED
      BY <1>3, <2>1, <2>2, <2>3 DEF CallsOk
  <1>10. ASSUME NEW p \in responses PROVE TrueResponse(p)'
    <2>1. TrueResponse(p) /\ OfItsCall(p.to)
      BY DEF Responsive, TrueResponse
    <2>2. OfItsCall(p.to)' /\ p.to \notin requests' /\ p.to.client \in Clients
      BY <1>1, <1>6, <1>8, <2>1 DEF TrueResponse, OfItsCall
    <2>3. CASE p.to.client = c
      <3>1. client'[c].id # p.to.id
        BY <1>2, <1>4, <1>6, <2>1, <2>3 DEF OfItsCall
      <3>2. QED
        BY <1>1, <2>1, <2>2, <2>3, <3>1 DEF TrueResponse, Truth
    <2>4. CASE p.to.client # c
      BY <1>1, <1>3, <2>1, <2>2, <2>4 DEF TrueResponse, Truth
    <2>5. QED
      BY <2>3, <2>4
  <1>11. ToldTheTruth'
    <2>1. \A d \in Clients : d # c => RequestOf(d) # r
      BY <1>7 DEF RequestOf
    <2>2. QED
      BY <1>1, <1>3, <1>4, <1>5, <2>1 DEF Responsive, ToldTheTruth
  <1>12. ReadIsCurrent'
    BY <1>3, <1>4 DEF Responsive, ReadIsCurrent
  <1>13. QED
    BY <1>1, <1>9, <1>10, <1>11, <1>12 DEF Responsive

\* What ToldTheTruth says of a client that is told this.
ToldTruly(c, result) ==
    CASE result = "SUCCESS" -> RequestOf(c) \in applied
      [] result = "ClientTimeout" -> TRUE
      [] result = "Unexpected" /\ client[c].op = "set" ->
             ~Unpacks(client[c].msg) /\ RequestOf(c) \notin requests
      [] OTHER -> RequestOf(c) \notin applied \cup requests

LEMMA ToldTrulyIs ==
    ToldTheTruth <=> \A c \in Clients :
        client[c].at = "returned" /\ client[c].op \in {"set", "declare"} =>
            ToldTruly(c, client[c].result)
  BY DEF ToldTheTruth, ToldTruly

\* A call that returns with the truth.
LEMMA ResponsiveReturn ==
    ASSUME Responsive, NEW c \in Clients, NEW result, NEW value, Return(c, result, value),
           client[c].at = "waiting", responses' \subseteq responses,
           client[c].op \in {"set", "declare"} => ToldTruly(c, ResultOf(client[c], result, value)),
           (/\ client[c].op \in {"get", "list"}
            /\ ResultOf(client[c], result, value) = "SUCCESS") => value \in current[c]
    PROVE  Responsive'
  <1> PICK outcome : outcome = ResultOf(client[c], result, value)
    OBVIOUS
  <1>1. /\ client' = [client EXCEPT ![c] =
              [at |-> "returned", id |-> @.id, op |-> @.op, name |-> @.name, msg |-> @.msg,
               result |-> outcome, value |-> value]]
        /\ UNCHANGED <<requests, applied, current>>
        /\ DOMAIN client = Clients
    BY DEF Return, Responsive, CallsOk
  <1>2. /\ DOMAIN client' = Clients
        /\ \A d \in Clients : d # c => client'[d] = client[d]
        /\ client'[c].at = "returned" /\ client'[c].id = client[c].id
        /\ client'[c].op = client[c].op /\ client'[c].name = client[c].name
        /\ client'[c].msg = client[c].msg
        /\ client'[c].result = outcome /\ client'[c].value = value
    BY <1>1
  <1>3. \A d \in Clients : RequestOf(d)' = RequestOf(d) /\ client'[d].id = client[d].id
    BY <1>2 DEF RequestOf
  <1>4. \A x : OfItsCall(x) => OfItsCall(x)'
    BY <1>3 DEF OfItsCall
  <1>5. CallsOk'
    BY <1>1, <1>2, <1>3, <1>4 DEF Responsive, CallsOk
  <1>6. ASSUME NEW p \in responses PROVE TrueResponse(p)'
    <2>1. TrueResponse(p)
      BY DEF Responsive
    <2>2. p.to.client \in Clients
      BY <2>1 DEF TrueResponse, OfItsCall
    <2>3. client'[p.to.client].at = "waiting" => p.to.client # c
      BY <1>2
    <2>4. QED
      BY <1>1, <1>2, <1>4, <2>1, <2>2, <2>3 DEF TrueResponse, Truth
  <1>7. ToldTheTruth'
    <2>1. ASSUME NEW d \in Clients, client'[d].at = "returned",
                 client'[d].op \in {"set", "declare"}
          PROVE  ToldTruly(d, client[d].result)'
      <3>1. CASE d = c
        BY <1>1, <1>2, <1>3, <2>1, <3>1 DEF ToldTruly
      <3>2. CASE d # c
        <4>1. ToldTruly(d, client[d].result)
          BY <1>2, <2>1, <3>2, ToldTrulyIs DEF Responsive
        <4>2. QED
          BY <1>1, <1>2, <1>3, <3>2, <4>1 DEF ToldTruly
      <3>3. QED
        BY <3>1, <3>2
    <2>2. QED
      BY <2>1 DEF ToldTheTruth, ToldTruly
  <1>8. ReadIsCurrent'
    BY <1>1, <1>2 DEF Responsive, ReadIsCurrent
  <1>9. QED
    BY <1>5, <1>6, <1>7, <1>8 DEF Responsive

LEMMA ResponsiveReceive ==
    ASSUME Responsive, NEW c \in Clients, Receive(c) \/ Timeout(c)
    PROVE  Responsive'
  <1>1. CASE Timeout(c)
    <2>1. ResultOf(client[c], "timeout", NoMessage) \in {"Unexpected", "ClientTimeout"}
      BY DEF ResultOf, NoResult
    <2>2. client[c].op \in {"set", "declare"} =>
              ToldTruly(c, ResultOf(client[c], "timeout", NoMessage))
      BY DEF ResultOf, NoResult, ToldTruly
    <2>3. QED
      BY <1>1, <2>1, <2>2, ResponsiveReturn DEF Timeout
  <1>2. CASE Receive(c)
    <2>1. PICK p \in responses :
              /\ p.to.client = c /\ responses' = responses \ {p}
              /\ IF client[c].at = "waiting" /\ Answers(p, c)
                 THEN Return(c, p.result, p.msg)
                 ELSE UNCHANGED <<parametersMap, client, requests, localCalls, applied, current>>
      BY <1>2 DEF Receive
    <2>2. TrueResponse(p)
      BY DEF Responsive
    <2>3. CASE client[c].at = "waiting" /\ Answers(p, c)
      <3>1. Return(c, p.result, p.msg) /\ p.to.id = client[c].id
        BY <2>1, <2>3 DEF Answers
      <3>2. p.to = RequestOf(c) /\ p.to \notin requests /\ p.result \in Results
        BY <2>1, <2>2, <3>1 DEF TrueResponse, OfItsCall
      <3>3. p.to.op = client[c].op
        BY <3>2 DEF RequestOf
      <3>4. ResultOf(client[c], p.result, p.msg) = "SUCCESS" => p.result = "SUCCESS"
        BY <3>2 DEF ResultOf, Results, NoResult
      <3>5. client[c].op \in {"get", "list"} /\ ResultOf(client[c], p.result, p.msg) = "SUCCESS"
                => p.msg \in current[c]
        BY <2>1, <2>2, <2>3, <3>1, <3>3, <3>4 DEF TrueResponse
      <3>6. client[c].op \in {"set", "declare"} =>
                ToldTruly(c, ResultOf(client[c], p.result, p.msg))
        <4>1. SUFFICES ASSUME client[c].op \in {"set", "declare"}
                       PROVE  ToldTruly(c, ResultOf(client[c], p.result, p.msg))
          OBVIOUS
        <4>2. Truth(RequestOf(c), p.result) /\ RequestOf(c) \notin requests
          BY <2>2, <3>2, <3>3, <4>1 DEF TrueResponse
        <4>3. RequestOf(c).op = client[c].op /\ RequestOf(c).msg = client[c].msg
          BY DEF RequestOf
        <4>4. CASE p.result = NoResult
          <5>1. ResultOf(client[c], p.result, p.msg) = "Unexpected"
            BY <4>4 DEF ResultOf, NoResult
          <5>2. client[c].op = "set" => ~Unpacks(client[c].msg)
            BY <4>2, <4>3, <4>4 DEF Truth, NoResult
          <5>3. client[c].op # "set" => RequestOf(c) \notin applied
            BY <4>2, <4>3, <4>4 DEF Truth, NoResult
          <5>4. QED
            BY <4>2, <5>1, <5>2, <5>3 DEF ToldTruly
        <4>5. CASE p.result # NoResult
          <5>1. ResultOf(client[c], p.result, p.msg) = p.result
            BY <3>2, <4>1, <4>5 DEF ResultOf, NoResult, Results
          <5>2. p.result # "Unexpected" /\ p.result # "ClientTimeout"
            BY <3>2 DEF Results, NoResult
          <5>3. IF p.result = "SUCCESS" THEN RequestOf(c) \in applied
                                        ELSE RequestOf(c) \notin applied
            BY <4>2, <4>5 DEF Truth
          <5>4. QED
            BY <4>2, <5>1, <5>2, <5>3 DEF ToldTruly
        <4>6. QED
          BY <4>4, <4>5
      <3>7. QED
        BY <2>1, <2>3, <3>1, <3>4, <3>5, <3>6, ResponsiveReturn
    <2>4. CASE ~ (client[c].at = "waiting" /\ Answers(p, c))
      <3>1. UNCHANGED <<client, requests, applied, current>>
        BY <2>1, <2>4
      <3>2. responses' \subseteq responses
        BY <2>1
      <3>3. QED
        BY <3>1, <3>2 DEF Responsive, CallsOk, TrueResponse, Truth, OfItsCall, RequestOf,
           ToldTheTruth, ReadIsCurrent
    <2>5. QED
      BY <2>3, <2>4
  <1>3. QED
    BY <1>1, <1>2

LEMMA ResponsiveNext == ASSUME Responsive, Next \/ UNCHANGED vars PROVE Responsive'
  <1>1. CASE UNCHANGED vars
    BY <1>1 DEF vars, Responsive, CallsOk, TrueResponse, Truth, OfItsCall, RequestOf,
       ToldTheTruth, ReadIsCurrent
  <1>2. \A n, m : LocalCall(n, m) => \E outcome : Local(outcome)
    BY DEF LocalCall
  <1>3. QED
    BY <1>1, <1>2, ResponsiveServe, ResponsiveLocal, ResponsiveCall, ResponsiveReceive
       DEF Next, AllOperations

\* The clients of a parameter registry are told the truth: after Success of a set or
\* a declaration it has been done, after a refusal it never will be, a set that is
\* answered Unexpected had a value that cannot be unpacked, and what is read is what the
\* map had during the call, whatever was lost, late or timed out before.
THEOREM ClientsToldTheTruth == PartsSpec => []ClientsAreTold
  <1>1. PartsInit => (part = "parameters" => Responsive)
    BY ResponsiveInit DEF PartsInit
  <1>2. (part = "parameters" => Responsive) /\ [PartsNext]_AllVars
            => (part = "parameters" => Responsive)'
    BY PartStays, ResponsiveNext DEF PartsNext, AllVars
  <1>3. (part = "parameters" => Responsive) => ClientsAreTold
    BY DEF Responsive, ClientsAreTold
  <1>4. QED
    BY <1>1, <1>2, <1>3, PTL DEF PartsSpec

-----------------------------------------------------------------------------
(* The list of subscribers.                                                *)

Asking == {"cleared", "waiting", "reading"}

\* Between its clear and its read a call may read what has been answered since, and
\* everything unless another thread has cleared.
MayRead(c) ==
    /\ asker[c].at \in {"idle", "listed", "informed"} \cup Asking
    /\ asker[c].at \in Asking =>
          /\ remoteSubscribers \subseteq answered[c]
          /\ disturbed[c] \/ remoteSubscribers = answered[c]

TopicsOf(S) == {s.topic : s \in S}

OfTopic(S, topic) == {s \in S : s.topic = topic}

HasRead(c) ==
    /\ asker[c].at = "listed" =>
          /\ asker[c].found \subseteq TopicsOf(answered[c])
          /\ disturbed[c] \/ asker[c].found = TopicsOf(answered[c])
    /\ asker[c].at = "informed" =>
          /\ asker[c].found \subseteq OfTopic(answered[c], asker[c].topic)
          /\ disturbed[c] \/ asker[c].found = OfTopic(answered[c], asker[c].topic)
    /\ asker[c].at \notin {"listed", "informed"} => asker[c].found = {}

Listing ==
    /\ DOMAIN asker = Askers /\ DOMAIN answered = Askers /\ DOMAIN disturbed = Askers
    /\ \A c \in Askers : MayRead(c) /\ HasRead(c)

LEMMA ListingSuffices == Listing => SL!ListIsOfThisCall
  <1> SUFFICES ASSUME Listing, NEW c \in Askers
               PROVE  LET due == CASE asker[c].at = "listed" -> TopicsOf(answered[c])
                                   [] asker[c].at = "informed" ->
                                          OfTopic(answered[c], asker[c].topic)
                                   [] OTHER -> {}
                      IN  asker[c].found \subseteq due /\ (disturbed[c] \/ asker[c].found = due)
    BY DEF SL!ListIsOfThisCall, TopicsOf, OfTopic
  <1>1. HasRead(c)
    BY DEF Listing
  <1>2. CASE asker[c].at = "listed"
    BY <1>1, <1>2 DEF HasRead
  <1>3. CASE asker[c].at = "informed"
    BY <1>1, <1>3 DEF HasRead
  <1>4. CASE asker[c].at \notin {"listed", "informed"}
    BY <1>1, <1>4 DEF HasRead
  <1>5. QED
    BY <1>2, <1>3, <1>4

LEMMA ListingInit == SL!Init => Listing
  BY DEF SL!Init, SL!At, Listing, MayRead, HasRead, Asking

\* A step that leaves a call alone.
LEMMA ListingElsewhere ==
    ASSUME NEW c, MayRead(c) /\ HasRead(c), UNCHANGED remoteSubscribers,
           asker'[c] = asker[c], answered'[c] = answered[c], disturbed'[c] = disturbed[c]
    PROVE  MayRead(c)' /\ HasRead(c)'
  BY DEF MayRead, HasRead

LEMMA ListingClear ==
    ASSUME Listing, NEW c \in Askers, SL!Clear(c)
    PROVE  Listing'
  <1>1. /\ remoteSubscribers' = {}
        /\ asker' = [asker EXCEPT ![c] = [at |-> "cleared", found |-> {}]]
        /\ answered' = [answered EXCEPT ![c] = {}]
        /\ disturbed' = [d \in Askers |-> d # c]
        /\ DOMAIN asker = Askers /\ DOMAIN answered = Askers
    BY DEF SL!Clear, SL!Begins, SL!At, Listing
  <1>2. /\ asker'[c].at = "cleared" /\ asker'[c].found = {} /\ answered'[c] = {}
        /\ \A d \in Askers : d # c => /\ asker'[d] = asker[d] /\ answered'[d] = answered[d]
                                      /\ disturbed'[d]
        /\ DOMAIN asker' = Askers /\ DOMAIN answered' = Askers /\ DOMAIN disturbed' = Askers
    BY <1>1
  <1>3. MayRead(c)' /\ HasRead(c)'
    BY <1>1, <1>2 DEF MayRead, HasRead, Asking
  <1>4. ASSUME NEW d \in Askers, d # c PROVE MayRead(d)' /\ HasRead(d)'
    BY <1>1, <1>2, <1>4 DEF Listing, MayRead, HasRead
  <1>5. QED
    BY <1>2, <1>3, <1>4 DEF Listing

\* The thread goes on, without having listed.
LEMMA ListingGoesOn ==
    ASSUME Listing, NEW c \in Askers,
           SL!SendRequest(c) \/ SL!WaitForInit(c) \/ SL!Return(c)
    PROVE  Listing'
  <1>1. PICK at \in Asking \cup {"idle"} :
            /\ asker' = [asker EXCEPT ![c] = [at |-> at, found |-> {}]]
            /\ at \in Asking => asker[c].at \in Asking
    BY DEF SL!SendRequest, SL!WaitForInit, SL!Return, SL!At, Asking
  <1>2. UNCHANGED <<remoteSubscribers, answered, disturbed>>
    BY DEF SL!SendRequest, SL!WaitForInit, SL!Return, SL!history
  <1>3. /\ asker'[c].at = at /\ asker'[c].found = {} /\ DOMAIN asker' = Askers
        /\ \A d \in Askers : d # c => asker'[d] = asker[d]
    BY <1>1 DEF Listing
  <1>4. MayRead(c)' /\ HasRead(c)'
    BY <1>1, <1>2, <1>3 DEF Listing, MayRead, HasRead, Asking
  <1>5. QED
    BY <1>2, <1>3, <1>4, ListingElsewhere DEF Listing

LEMMA ListingReads ==
    ASSUME Listing, NEW c \in Askers,
           SL!ReadTopics(c) \/ \E topic \in SubTopics : SL!ReadSubscribers(c, topic)
    PROVE  Listing'
  <1>1. UNCHANGED <<remoteSubscribers, answered, disturbed>> /\ asker[c].at = "reading"
    BY DEF SL!ReadTopics, SL!ReadSubscribers, SL!history
  <1>2. /\ remoteSubscribers \subseteq answered[c]
        /\ disturbed[c] \/ remoteSubscribers = answered[c]
    BY <1>1 DEF Listing, MayRead, Asking
  <1>3. ASSUME NEW state, asker' = [asker EXCEPT ![c] = state],
               \/ state.at = "listed" /\ state.found = TopicsOf(remoteSubscribers)
               \/ state.at = "informed" /\ state.found = OfTopic(remoteSubscribers, state.topic)
        PROVE  Listing'
    <2>1. /\ asker'[c] = state /\ DOMAIN asker' = Askers
          /\ \A d \in Askers : d # c => asker'[d] = asker[d]
      BY <1>3 DEF Listing
    <2>2. MayRead(c)'
      BY <1>3, <2>1 DEF MayRead, Asking
    <2>3. HasRead(c)'
      BY <1>1, <1>2, <1>3, <2>1 DEF HasRead, TopicsOf, OfTopic
    <2>4. QED
      BY <1>1, <2>1, <2>2, <2>3, ListingElsewhere DEF Listing
  <1>4. CASE SL!ReadTopics(c)
    BY <1>3, <1>4 DEF SL!ReadTopics, TopicsOf
  <1>5. ASSUME NEW topic, SL!ReadSubscribers(c, topic) PROVE Listing'
    BY <1>3, <1>5 DEF SL!ReadSubscribers, OfTopic
  <1>6. QED
    BY <1>4, <1>5

LEMMA ListingReply ==
    ASSUME Listing, NEW s, SL!ReceiveReply(s)
    PROVE  Listing'
  <1>1. /\ remoteSubscribers' = remoteSubscribers \cup {s}
        /\ answered' = [c \in Askers |-> IF asker[c].at \in {"idle", "listed", "informed"}
                                         THEN answered[c] ELSE answered[c] \cup {s}]
        /\ UNCHANGED <<asker, disturbed>>
    BY DEF SL!ReceiveReply, SL!Stored
  <1>2. ASSUME NEW c \in Askers PROVE MayRead(c)' /\ HasRead(c)'
    <2>1. MayRead(c) /\ HasRead(c)
      BY DEF Listing
    <2>2. CASE asker[c].at \in Asking
      <3>1. answered'[c] = answered[c] \cup {s} /\ asker[c].at \notin {"listed", "informed"}
        BY <1>1, <2>2 DEF Asking
      <3>2. QED
        BY <1>1, <2>1, <2>2, <3>1 DEF MayRead, HasRead
    <2>3. CASE asker[c].at \notin Asking
      <3>1. answered'[c] = answered[c]
        BY <1>1, <2>1, <2>3 DEF MayRead
      <3>2. QED
        BY <1>1, <2>1, <2>3, <3>1 DEF MayRead, HasRead
    <2>4. QED
      BY <2>2, <2>3
  <1>3. QED
    BY <1>1, <1>2 DEF Listing

LEMMA ListingNext == ASSUME Listing, SL!Next \/ UNCHANGED subscribersVars PROVE Listing'
  <1>1. CASE \/ SL!Heartbeat \/ SL!LoseDatagram \/ UNCHANGED subscribersVars
             \/ \E p \in Peers : SL!AnswerRequest(p) \/ SL!AnswerOthers(p)
             \/ \E s \in SL!Subscriptions : SL!ChangeSubscription(s)
    <2>1. UNCHANGED <<remoteSubscribers, asker, answered, disturbed>>
      BY <1>1 DEF SL!Heartbeat, SL!LoseDatagram, subscribersVars, SL!AnswerRequest,
         SL!AnswerOthers, SL!ChangeSubscription, SL!history
    <2>2. QED
      BY <2>1, ListingElsewhere DEF Listing
  <1>2. QED
    BY <1>1, ListingClear, ListingGoesOn, ListingReads, ListingReply DEF SL!Next

\* TopicList and TopicInfo, called by any number of threads, list what has been
\* answered since they cleared the list and nothing older; all of it unless another
\* call cleared it meanwhile.
THEOREM ListsOfTheirCalls == PartsSpec => []ListIsOfThisCall
  <1>1. PartsInit => (part = "subscribers" => Listing)
    BY ListingInit DEF PartsInit
  <1>2. (part = "subscribers" => Listing) /\ [PartsNext]_AllVars
            => (part = "subscribers" => Listing)'
    BY PartStays, ListingNext DEF PartsNext, AllVars
  <1>3. (part = "subscribers" => Listing) => ListIsOfThisCall
    BY ListingSuffices DEF ListIsOfThisCall
  <1>4. QED
    BY <1>1, <1>2, <1>3, PTL DEF PartsSpec

-----------------------------------------------------------------------------
(* What becomes of a message at the handlers of its topic.                 *)

Takers == {h \in MH!Handlers : MH!Suits(h, data.type) /\ MH!CanTake(h)}

\* Who can take the message is called or has still to be looked at, unless it
\* cannot be parsed or a callback threw.
Reached ==
    \/ Takers \subseteq called \cup todo
    \/ ~ data.parses /\ Takers \cap Raw \subseteq called \cup todo
    \/ data.from = "bytes" /\ thrown

Arrived ==
    /\ data.from \in {"publisher", "bytes", "zenoh"}
    /\ todo \subseteq MH!Handlers /\ called \subseteq Takers
    /\ data.from = "publisher" => object \in MH!Objects /\ data.parses = TRUE
    /\ data.from # "publisher" => object \in {MH!NoMessage, MH!ClassOf(data.type)}
    /\ Reached

Handling ==
    \/ data.from = "nowhere" /\ object = MH!NoMessage /\ todo = {} /\ called = {}
    \/ Arrived

LEMMA HandlingArrives ==
    ASSUME Handling,
           \/ \E type, o : o \in MH!Objects /\ MH!Publish(type, o)
           \/ \E from \in {"bytes", "zenoh"}, parses \in BOOLEAN : \E type : MH!Arrive(from, type, parses)
    PROVE  Handling'
  <1>1. data.from = "nowhere" /\ object = MH!NoMessage /\ called = {} /\ called' = {}
    BY DEF MH!Publish, MH!Arrive, Handling, Arrived
  <1>2. ASSUME NEW type, NEW o \in MH!Objects, MH!Publish(type, o) PROVE Arrived'
    <2>1. /\ data'.from = "publisher" /\ data'.type = type /\ data'.parses = TRUE
          /\ object' = o /\ todo' = {h \in MH!Handlers : MH!Suits(h, type)}
      BY <1>2 DEF MH!Publish
    <2>2. Takers' \subseteq todo'
      BY <2>1 DEF Takers
    <2>3. QED
      BY <1>1, <2>1, <2>2 DEF Arrived, Reached
  <1>3. ASSUME NEW from \in {"bytes", "zenoh"}, NEW parses \in BOOLEAN, NEW type,
               MH!Arrive(from, type, parses)
        PROVE  Arrived'
    <2>1. data'.from = from /\ object' = MH!NoMessage /\ todo' = MH!Handlers
      BY <1>1, <1>3 DEF MH!Arrive
    <2>2. Takers' \subseteq todo'
      BY <2>1 DEF Takers
    <2>3. QED
      BY <1>1, <2>1, <2>2 DEF Arrived, Reached
  <1>4. QED
    BY <1>2, <1>3 DEF Handling

\* The object stays what it is, or is made of the bytes.
LEMMA ObjectMade ==
    ASSUME Arrived, NEW h \in todo, h \notin Raw, MH!Suits(h, data.type)
    PROVE  /\ data.from = "publisher" => MH!Object(h) = object /\ MH!Object(h) # MH!NoMessage
           /\ data.from # "publisher" /\ h \in Typed =>
                  /\ MH!ClassOf(data.type) = "static"
                  /\ MH!Object(h) = "static"
           /\ data.from # "publisher" /\ h \in Generic =>
                  /\ MH!Object(h) \in {MH!NoMessage, MH!ClassOf(data.type)}
                  /\ data.parses => MH!Object(h) = MH!ClassOf(data.type)
           /\ h \in Typed \/ h \in Generic
  <1>1. h \in Typed \/ h \in Generic
    BY DEF Arrived, MH!Handlers
  <1>2. h \in Typed => h \notin Generic /\ data.type \in Linked
    BY HandlersAssumption DEF MH!Suits
  <1>3. data.type \in Linked => MH!ClassOf(data.type) = "static"
    BY DEF MH!ClassOf
  <1>4. h \in Typed => MH!CreateMsg(h) = "static"
    BY <1>2 DEF MH!CreateMsg
  <1>5. h \in Generic => MH!CreateMsg(h) = IF data.parses THEN MH!ClassOf(data.type) ELSE MH!NoMessage
    BY <1>2 DEF MH!CreateMsg
  <1>6. CASE data.from = "publisher"
    BY <1>1, <1>6 DEF Arrived, MH!Objects, MH!NoMessage, MH!Object
  <1>7. CASE data.from # "publisher"
    <2>1. object = MH!NoMessage \/ object = MH!ClassOf(data.type)
      BY <1>7 DEF Arrived
    <2>2. QED
      BY <1>1, <1>2, <1>3, <1>4, <1>5, <1>7, <2>1 DEF MH!Object, MH!NoMessage
  <1>8. QED
    BY <1>6, <1>7

\* The next handler: called if it can take the message, and left out if not.
LEMMA HandlingGoesOn ==
    ASSUME Arrived, NEW h \in todo, data' = data, Takers' = Takers,
           \/ h \in Takers /\ MH!Call(h)
           \/ h \notin Takers /\ MH!NotCalled(h)
    PROVE  Reached' /\ called' \subseteq Takers' /\ todo' \subseteq MH!Handlers
  <1>1. CASE h \in Takers /\ MH!Call(h)
    <2>1. called' = called \cup {h}
      BY <1>1 DEF MH!Call
    <2>2. \/ data.from = "bytes" /\ thrown' /\ todo' = {}
          \/ todo' = todo \ {h} /\ (thrown => thrown')
      BY <1>1 DEF MH!Call
    <2>3. QED
      BY <1>1, <2>1, <2>2 DEF Arrived, Reached
  <1>2. CASE h \notin Takers /\ MH!NotCalled(h)
    BY <1>2 DEF MH!NotCalled, Arrived, Reached
  <1>3. QED
    BY <1>1, <1>2

LEMMA HandlingCalls ==
    ASSUME Arrived, NEW h \in MH!Handlers,
           MH!RunRawCallback(h) \/ MH!NotSuitable(h) \/ MH!RunLocalCallback(h)
    PROVE  Arrived'
  <1>1. h \in todo /\ data' = data
    BY DEF MH!RunRawCallback, MH!NotSuitable, MH!RunLocalCallback, MH!Turn
  <1>2. CASE MH!RunRawCallback(h) \/ MH!NotSuitable(h)
    <2>1. object' = object
      BY <1>2 DEF MH!RunRawCallback, MH!NotSuitable
    <2>2. Takers' = Takers
      BY <1>1, <2>1 DEF Takers, MH!CanTake, MH!Suits, MH!ClassOf
    <2>3. \/ h \in Takers /\ MH!Call(h)
          \/ h \notin Takers /\ MH!NotCalled(h)
      BY <1>2 DEF MH!RunRawCallback, MH!NotSuitable, Takers, MH!CanTake
    <2>4. QED
      BY <1>1, <2>1, <2>2, <2>3, HandlingGoesOn DEF Arrived, MH!ClassOf
  <1>3. CASE MH!RunLocalCallback(h)
    <2>1. h \notin Raw /\ MH!Suits(h, data.type) /\ MH!Object(h) # MH!NoMessage
      BY <1>3 DEF MH!RunLocalCallback
    <2>2. object' = IF data.from = "zenoh" THEN MH!NoMessage ELSE MH!Object(h)
      BY <1>3 DEF MH!RunLocalCallback, MH!Keep
    <2>3. /\ data.from = "publisher" => object' = object
          /\ data.from # "publisher" => object' \in {MH!NoMessage, MH!ClassOf(data.type)}
      BY <1>1, <2>1, <2>2, ObjectMade DEF Arrived
    <2>4. Takers' = Takers
      BY <1>1, <2>3 DEF Takers, MH!CanTake, MH!Suits, MH!ClassOf
    <2>5. h \in Takers <=> ~ (h \in Typed /\ MH!Object(h) = "dynamic")
      <3>1. h \in Typed => h \notin Generic
        BY HandlersAssumption
      <3>2. data.from = "publisher" => object \in {"static", "dynamic"}
        BY DEF Arrived, MH!Objects
      <3>3. QED
        BY <1>1, <2>1, <3>1, <3>2, ObjectMade DEF Takers, MH!CanTake
    <2>6. \/ h \in Takers /\ MH!Call(h)
          \/ h \notin Takers /\ MH!NotCalled(h)
      BY <1>3, <2>5 DEF MH!RunLocalCallback
    <2>7. QED
      BY <1>1, <2>3, <2>4, <2>6, HandlingGoesOn DEF Arrived, MH!ClassOf
  <1>4. QED
    BY <1>2, <1>3

\* If no object can be made, no other handler could have made it, unless of bytes
\* that cannot be parsed; those of bytes come first.
LEMMA HandlingGivesUp ==
    ASSUME Arrived, NEW h \in MH!Handlers, MH!GiveUp(h) PROVE Arrived'
  <1>1. /\ h \in todo /\ h \notin Raw /\ MH!Suits(h, data.type)
        /\ MH!Object(h) = MH!NoMessage
        /\ UNCHANGED <<data, object, called, thrown>>
        /\ data.from # "bytes" \/ todo \cap Raw = {}
        /\ todo' = IF data.from = "zenoh" THEN todo \ {h} ELSE {}
    BY DEF MH!GiveUp, MH!Turn
  <1>2. /\ data.from # "publisher" /\ h \in Generic /\ h \notin Typed
        /\ data.parses => MH!ClassOf(data.type) = MH!NoMessage
    BY <1>1, ObjectMade DEF MH!NoMessage
  <1>3. Takers' = Takers
    BY <1>1 DEF Takers, MH!CanTake, MH!Suits, MH!ClassOf
  <1>4. data.parses => Takers \subseteq Raw
    <2>1. ASSUME data.parses, NEW k \in Takers PROVE k \in Raw
      <3>1. k \in Typed => data.type \in Linked
        BY HandlersAssumption DEF Takers, MH!Suits
      <3>2. data.type \notin Linked
        BY <1>2, <2>1 DEF MH!ClassOf, MH!NoMessage
      <3>3. QED
        BY <1>2, <2>1, <3>1, <3>2 DEF Takers, MH!CanTake
    <2>2. QED
      BY <2>1
  <1>5. Takers \cap Raw \cap todo \subseteq todo'
    BY <1>1, <1>2 DEF Arrived
  <1>6. Reached'
    BY <1>1, <1>3, <1>4, <1>5 DEF Arrived, Reached
  <1>7. todo' \subseteq MH!Handlers
    BY <1>1 DEF Arrived
  <1>8. QED
    BY <1>1, <1>3, <1>6, <1>7 DEF Arrived, MH!ClassOf

LEMMA HandlingNext ==
    ASSUME Handling, MH!Next \/ UNCHANGED handlersVars PROVE Handling'
  <1>1. CASE UNCHANGED handlersVars
    BY <1>1 DEF handlersVars, Handling, Arrived, Reached, Takers, MH!CanTake, MH!Suits,
       MH!ClassOf
  <1>2. CASE MH!Next
    <2>1. \/ \E type, o : o \in MH!Objects /\ MH!Publish(type, o)
          \/ \E from \in {"bytes", "zenoh"}, parses \in BOOLEAN : \E type : MH!Arrive(from, type, parses)
          \/ \E h \in MH!Handlers :
                \/ MH!RunRawCallback(h) \/ MH!NotSuitable(h) \/ MH!RunLocalCallback(h)
                \/ MH!GiveUp(h)
      BY <1>2 DEF MH!Next
    <2>2. ASSUME NEW h \in MH!Handlers,
                 \/ MH!RunRawCallback(h) \/ MH!NotSuitable(h) \/ MH!RunLocalCallback(h)
                 \/ MH!GiveUp(h)
          PROVE  Arrived'
      <3>1. h \in todo
        BY <2>2 DEF MH!RunRawCallback, MH!NotSuitable, MH!RunLocalCallback, MH!GiveUp, MH!Turn
      <3>2. Arrived
        BY <3>1 DEF Handling
      <3>3. QED
        BY <2>2, <3>2, HandlingCalls, HandlingGivesUp
    <2>3. QED
      BY <2>1, <2>2, HandlingArrives DEF Handling
  <1>3. QED
    BY <1>1, <1>2

LEMMA HandlingSuffices == ASSUME Handling PROVE MH!SuitableAreCalled
  BY DEF Handling, Arrived, Reached, Takers, MH!SuitableAreCalled

-----------------------------------------------------------------------------
(* What the caller of a service is told.                                   *)

\* The call as it goes on: asked for, and given to a handler or not.
IsCall ==
    \/ call.pc = "idle"
    \/ \E a, p : call = [asked |-> a, pc |-> p]
    \/ \E a, p, h : call = [asked |-> a, pc |-> p, handler |-> h]

\* The handler of a call was offered for its types, and seen by it.
Answering ==
    /\ IsCall /\ responders \subseteq seen
    /\ call.pc \in {"found", "serving", "responded"} =>
          /\ \E a, p, h : call = [asked |-> a, pc |-> p, handler |-> h]
          /\ call.handler \in seen /\ TypesOf[call.handler] = call.asked.types
    /\ call.pc = "found" => call.handler \in Here
    /\ call.pc = "responded" => call.asked.types.rep # SA!Empty
    /\ told.executed => call.pc = "done"
    /\ SA!AnswerOfOneOffered

LEMMA CallGoes ==
    ASSUME IsCall, call.pc # "idle", NEW p, SA!Goes(p)
    PROVE  /\ IsCall' /\ call'.pc = p /\ call'.asked = call.asked
           /\ (\E a, q, h : call = [asked |-> a, pc |-> q, handler |-> h]) =>
                 /\ \E a, q, h : call' = [asked |-> a, pc |-> q, handler |-> h]
                 /\ call'.handler = call.handler
  <1>1. call' = [call EXCEPT !.pc = p]
    BY DEF SA!Goes
  <1>2. ASSUME NEW a, NEW q, call = [asked |-> a, pc |-> q]
        PROVE  /\ call' = [asked |-> a, pc |-> p]
               /\ ~ \E b, r, h : call = [asked |-> b, pc |-> r, handler |-> h]
    BY <1>1, <1>2
  <1>3. ASSUME NEW a, NEW q, NEW h, call = [asked |-> a, pc |-> q, handler |-> h]
        PROVE  call' = [asked |-> a, pc |-> p, handler |-> h]
    BY <1>1, <1>3
  <1>4. QED
    BY <1>2, <1>3 DEF IsCall

LEMMA AnsweringBegins ==
    ASSUME Answering,
           \/ \E h \in Responders : SA!Offer(h) \/ SA!Withdraw(h)
           \/ \E form, types : SA!Request(form, types)
    PROVE  Answering'
  <1>1. ASSUME NEW h \in Responders, SA!Offer(h) \/ SA!Withdraw(h) PROVE Answering'
    <2>1. UNCHANGED <<call, told>> /\ seen \subseteq seen' /\ responders' \subseteq seen'
      BY <1>1 DEF SA!Offer, SA!Withdraw, Answering
    <2>2. QED
      BY <2>1 DEF Answering, IsCall, SA!AnswerOfOneOffered
  <1>2. ASSUME NEW form, NEW types, SA!Request(form, types) PROVE Answering'
    <2>1. PICK asked, matching : /\ asked = [form |-> form, types |-> types]
                              /\ matching = SA!FirstHandler(Here, types)
      OBVIOUS
    <2>2. /\ call.pc = "idle" /\ seen' = responders /\ UNCHANGED <<responders, told>>
          /\ \/ \E h \in matching : call' = [asked |-> asked, pc |-> "found", handler |-> h]
             \/ call' = [asked |-> asked, pc |-> "sent"]
      BY <1>2, <2>1 DEF SA!Request
    <2>3. ~ told.executed /\ ~ told'.executed
      BY <2>2 DEF Answering
    <2>4. CASE call' = [asked |-> asked, pc |-> "sent"]
      <3>1. call'.pc = "sent"
        BY <2>4
      <3>2. QED
        BY <2>2, <2>3, <2>4, <3>1 DEF Answering, IsCall, SA!AnswerOfOneOffered
    <2>5. ASSUME NEW h \in matching, call' = [asked |-> asked, pc |-> "found", handler |-> h]
          PROVE  Answering'
      <3>1. h \in Here \cap responders /\ TypesOf[h] = types
        BY <2>1 DEF SA!FirstHandler
      <3>2. call'.pc = "found" /\ call'.handler = h /\ call'.asked.types = types
        BY <2>1, <2>5
      <3>3. QED
        BY <2>2, <2>3, <2>5, <3>1, <3>2 DEF Answering, IsCall, SA!AnswerOfOneOffered
    <2>6. QED
      BY <2>2, <2>4, <2>5
  <1>3. QED
    BY <1>1, <1>2

LEMMA AnsweringServes ==
    ASSUME Answering, SA!RecvSrvRequest \/ SA!RunCallback \/ SA!Timeout
    PROVE  Answering'
  <1>1. UNCHANGED <<responders, seen, told>> /\ call.pc # "idle" /\ call.pc # "done"
    BY DEF SA!RecvSrvRequest, SA!RunCallback, SA!Timeout
  <1>2. ~ told.executed /\ ~ told'.executed
    BY <1>1 DEF Answering
  <1>3. CASE SA!Goes("done") \/ SA!Goes("dropped")
    <2>1. IsCall' /\ call'.pc \in {"done", "dropped"}
      BY <1>1, <1>3, CallGoes DEF Answering
    <2>2. QED
      BY <1>1, <1>2, <2>1 DEF Answering, SA!AnswerOfOneOffered
  <1>4. CASE call.pc = "serving" /\ call.asked.types.rep # SA!Empty /\ SA!Goes("responded")
    <2>1. /\ IsCall' /\ call'.pc = "responded" /\ call'.asked = call.asked
          /\ \E a, q, h : call' = [asked |-> a, pc |-> q, handler |-> h]
          /\ call'.handler = call.handler
      BY <1>1, <1>4, CallGoes DEF Answering
    <2>2. QED
      BY <1>1, <1>2, <1>4, <2>1 DEF Answering, SA!AnswerOfOneOffered
  <1>5. ASSUME SA!RecvSrvRequest, ~ SA!Goes("dropped") PROVE Answering'
    <2>1. PICK h \in SA!FirstHandler(Responders \ Here, call.asked.types) :
              call' = [asked |-> call.asked, pc |-> "serving", handler |-> h]
      BY <1>5 DEF SA!RecvSrvRequest, SA!Goes
    <2>2. h \in responders /\ TypesOf[h] = call.asked.types
      BY DEF SA!FirstHandler
    <2>3. call'.pc = "serving" /\ call'.handler = h /\ call'.asked = call.asked
      BY <2>1
    <2>4. QED
      BY <1>1, <1>2, <2>1, <2>2, <2>3 DEF Answering, IsCall, SA!AnswerOfOneOffered
  <1>6. QED
    BY <1>3, <1>4, <1>5 DEF SA!RecvSrvRequest, SA!RunCallback, SA!Timeout

LEMMA AnsweringTells ==
    ASSUME Answering, SA!RunLocalCallback \/ SA!NotifyResult PROVE Answering'
  <1>1. PICK h, result, reply :
            /\ h = call.handler /\ result = ReturnedBy[h]
            /\ result => reply = h
            /\ told' = SA!Told(result, reply)
    BY DEF SA!RunLocalCallback, SA!NotifyResult
  <1>2. /\ call.pc \in {"found", "responded"} /\ SA!Goes("done")
        /\ UNCHANGED <<responders, seen>>
    BY DEF SA!RunLocalCallback, SA!NotifyResult
  <1>3. IsCall' /\ call'.pc = "done" /\ call'.asked = call.asked
    BY <1>2, CallGoes DEF Answering
  <1>4. told'.result = result /\ told'.reply = reply
    BY <1>1 DEF SA!Told
  <1>5. h \in seen /\ TypesOf[h] = call.asked.types
        /\ (h \in Here \/ call.asked.types.rep # SA!Empty)
    BY <1>1, <1>2 DEF Answering
  <1>6. SA!AnswerOfOneOffered'
    BY <1>1, <1>2, <1>3, <1>4, <1>5 DEF SA!AnswerOfOneOffered
  <1>7. QED
    BY <1>2, <1>3, <1>6 DEF Answering

LEMMA AnsweringNext ==
    ASSUME Answering, SA!Next \/ UNCHANGED answersVars PROVE Answering'
  <1>1. CASE UNCHANGED answersVars
    BY <1>1 DEF answersVars, Answering, IsCall, SA!AnswerOfOneOffered
  <1>2. CASE SA!Next
    BY <1>2, AnsweringBegins, AnsweringServes, AnsweringTells DEF SA!Next, SA!RequestRaw
  <1>3. QED
    BY <1>1, <1>2

LEMMA AnsweringInit == ASSUME SA!Init PROVE Answering
  BY DEF SA!Init, Answering, IsCall, SA!AnswerOfOneOffered, SA!NotExecuted

\* In whatever order the handlers of a topic come, a message reaches those that can
\* take it and no other; and a caller is told the answer of one responder that was
\* offered for the types of its call, wherever that is.
THEOREM HandlersAreSuited == PartsSpec => []HandlersSuit
  <1> DEFINE I == /\ part = "handlers" => Handling
                  /\ part = "answers" => Answering
  <1>1. PartsInit => I
    BY AnsweringInit DEF PartsInit, MH!Init, Handling
  <1>2. I /\ [PartsNext]_AllVars => I'
    BY PartStays, HandlingNext, AnsweringNext DEF PartsNext, AllVars
  <1>3. I => HandlersSuit
    BY HandlingSuffices DEF HandlersSuit, Answering
  <1>4. QED
    BY <1>1, <1>2, <1>3, PTL DEF PartsSpec

-----------------------------------------------------------------------------
(* Clocks.                                                                 *)

ClockPublishers == CL!Publishers

\* Any message a clock can be sent.
Stamped == UNION {[B -> {CL!TimeMessage(t) : t \in Times}] :
                     B \in SUBSET (CL!Bases \cup {BaseOf[c] : c \in Clock})}

Queued(q, b) == \E i \in DOMAIN q : b \in DOMAIN q[i]

\* The last message of a queue that has a time for b has the time x.
NewestIs(q, b, x) ==
    \A i \in DOMAIN q :
        b \in DOMAIN q[i] /\ (\A j \in DOMAIN q : j > i => b \notin DOMAIN q[j]) => q[i][b] = x

ClockTypes ==
    /\ DOMAIN clockTimeNS = Clock
    /\ clockMessages \in [ClockPublishers -> [Clock -> Seq(Stamped)]]
    /\ DOMAIN lastSet = ClockPublishers

\* What is on its way from a publisher ends with what it set last.
EndsWithLast(s, c) ==
    /\ Queued(clockMessages[s][c], BaseOf[c]) => BaseOf[c] \in DOMAIN lastSet[s]
    /\ NewestIs(clockMessages[s][c], BaseOf[c], lastSet[s][BaseOf[c]])

\* A clock shows what somebody set last, unless there is something on its way.
Shows(c) ==
    \/ \E s \in ClockPublishers : Queued(clockMessages[s][c], BaseOf[c])
    \/ CL!Setters(BaseOf[c]) = {} /\ clockTimeNS[c] = 0
    \/ \E s \in CL!Setters(BaseOf[c]) : clockTimeNS[c] = CL!TimeIn(lastSet[s][BaseOf[c]])

Following ==
    \A c \in Clock : Shows(c) /\ \A s \in ClockPublishers : EndsWithLast(s, c)

LEMMA QueueAppends ==
    ASSUME NEW S, NEW q \in Seq(S), NEW m \in S, NEW b
    PROVE  /\ b \notin DOMAIN m => /\ Queued(Append(q, m), b) <=> Queued(q, b)
                                   /\ \A x : NewestIs(q, b, x) => NewestIs(Append(q, m), b, x)
           /\ b \in DOMAIN m => Queued(Append(q, m), b) /\ NewestIs(Append(q, m), b, m[b])
  <1>0. Len(q) \in Nat /\ Append(q, m) \in Seq(S)
    OBVIOUS
  <1>1. PICK n \in Nat, r \in Seq(S) : n = Len(q) /\ r = Append(q, m)
    BY <1>0
  <1>2. /\ DOMAIN q = 1..n /\ DOMAIN r = 1..(n + 1) /\ r[n + 1] = m
        /\ \A i \in 1..n : r[i] = q[i]
    BY <1>1
  <1>3. ASSUME b \notin DOMAIN m
        PROVE  /\ Queued(r, b) <=> Queued(q, b)
               /\ \A x : NewestIs(q, b, x) => NewestIs(r, b, x)
    <2>1. Queued(r, b) <=> Queued(q, b)
      BY <1>2, <1>3 DEF Queued
    <2>2. ASSUME NEW x, NewestIs(q, b, x), NEW i \in DOMAIN r, b \in DOMAIN r[i],
                 \A j \in DOMAIN r : j > i => b \notin DOMAIN r[j]
          PROVE  r[i][b] = x
      <3>1. i \in 1..n /\ q[i] = r[i]
        BY <1>2, <1>3, <2>2
      <3>2. \A j \in 1..n : j > i => b \notin DOMAIN q[j]
        BY <1>2, <2>2
      <3>3. QED
        BY <1>2, <2>2, <3>1, <3>2 DEF NewestIs
    <2>3. QED
      BY <2>1, <2>2 DEF NewestIs
  <1>4. ASSUME b \in DOMAIN m PROVE Queued(r, b) /\ NewestIs(r, b, m[b])
    <2>1. Queued(r, b)
      BY <1>2, <1>4 DEF Queued
    <2>2. ASSUME NEW i \in DOMAIN r, \A j \in DOMAIN r : j > i => b \notin DOMAIN r[j]
          PROVE  r[i] = m
      BY <1>2, <1>4, <2>2
    <2>3. QED
      BY <2>1, <2>2 DEF NewestIs
  <1>5. QED
    BY <1>1, <1>3, <1>4

LEMMA QueueTails ==
    ASSUME NEW S, NEW q \in Seq(S), q # <<>>, NEW b
    PROVE  /\ \A x : NewestIs(q, b, x) => NewestIs(Tail(q), b, x)
           /\ Queued(Tail(q), b) => Queued(q, b)
           /\ b \notin DOMAIN Head(q) /\ Queued(q, b) => Queued(Tail(q), b)
           /\ \A x : NewestIs(q, b, x) /\ b \in DOMAIN Head(q) /\ ~ Queued(Tail(q), b) =>
                 Head(q)[b] = x
           /\ b \in DOMAIN Head(q) => Queued(q, b)
  <1>0. Len(Tail(q)) \in Nat /\ Tail(q) \in Seq(S)
    OBVIOUS
  <1>1. PICK n \in Nat, r \in Seq(S) : n = Len(r) /\ r = Tail(q)
    BY <1>0
  <1>2. /\ DOMAIN r = 1..n /\ DOMAIN q = 1..(n + 1) /\ q[1] = Head(q)
        /\ \A i \in 1..n : r[i] = q[i + 1]
    BY <1>1
  <1>3. \A j \in 1..(n + 1) : j = 1 \/ (j - 1 \in 1..n /\ r[j - 1] = q[j])
    BY <1>2
  <1>4. ASSUME NEW x, NewestIs(q, b, x) PROVE NewestIs(r, b, x)
    <2>1. ASSUME NEW i \in 1..n, b \in DOMAIN r[i],
                 \A j \in 1..n : j > i => b \notin DOMAIN r[j]
          PROVE  r[i][b] = x
      <3>1. i + 1 \in 1..(n + 1) /\ q[i + 1] = r[i]
        BY <1>2
      <3>2. \A j \in 1..(n + 1) : j > i + 1 => j - 1 \in 1..n /\ j - 1 > i /\ r[j - 1] = q[j]
        BY <1>3
      <3>3. \A j \in 1..(n + 1) : j > i + 1 => b \notin DOMAIN q[j]
        BY <2>1, <3>2
      <3>4. QED
        BY <1>2, <1>4, <2>1, <3>1, <3>3 DEF NewestIs
    <2>2. QED
      BY <1>2, <2>1 DEF NewestIs
  <1>5. Queued(r, b) => Queued(q, b)
    <2>1. \A i \in 1..n : i + 1 \in 1..(n + 1)
      BY <1>2
    <2>2. QED
      BY <1>2, <2>1 DEF Queued
  <1>6. b \notin DOMAIN Head(q) /\ Queued(q, b) => Queued(r, b)
    BY <1>2, <1>3 DEF Queued
  <1>7. ASSUME NEW x, NewestIs(q, b, x), b \in DOMAIN Head(q), ~ Queued(r, b)
        PROVE  Head(q)[b] = x
    <2>1. \A j \in 1..(n + 1) : j > 1 => b \notin DOMAIN q[j]
      BY <1>2, <1>3, <1>7 DEF Queued
    <2>2. 1 \in 1..(n + 1)
      BY <1>2
    <2>3. QED
      BY <1>2, <1>7, <2>1, <2>2 DEF NewestIs
  <1>8. b \in DOMAIN Head(q) => Queued(q, b)
    BY <1>2 DEF Queued
  <1>9. QED
    BY <1>1, <1>4, <1>5, <1>6, <1>7, <1>8

LEMMA ClocksSend ==
    ASSUME ClockTypes, Following, NEW s \in ClockPublishers, NEW m \in Stamped, CL!Send(s, m)
    PROVE  ClockTypes' /\ Following'
  <1>1. /\ clockTimeNS' = clockTimeNS
        /\ clockMessages' = [clockMessages EXCEPT ![s] = [c \in Clock |-> Append(@[c], m)]]
        /\ lastSet' = [lastSet EXCEPT ![s] =
               [b \in DOMAIN @ \cup DOMAIN m |-> IF b \in DOMAIN m THEN m[b] ELSE @[b]]]
    BY DEF CL!Send
  <1>2. /\ \A c \in Clock : clockMessages[s][c] \in Seq(Stamped)
        /\ \A c \in Clock : clockMessages'[s][c] = Append(clockMessages[s][c], m)
        /\ \A c \in Clock, u \in ClockPublishers : u # s =>
              clockMessages'[u][c] = clockMessages[u][c]
    BY <1>1 DEF ClockTypes
  <1>3. ClockTypes'
    BY <1>1 DEF ClockTypes
  <1>4. /\ DOMAIN lastSet'[s] = DOMAIN lastSet[s] \cup DOMAIN m
        /\ \A b \in DOMAIN m : lastSet'[s][b] = m[b]
        /\ \A b \in DOMAIN lastSet[s] : b \notin DOMAIN m => lastSet'[s][b] = lastSet[s][b]
        /\ \A u \in ClockPublishers : u # s => lastSet'[u] = lastSet[u]
    BY <1>1 DEF ClockTypes
  <1>5. ASSUME NEW c \in Clock
        PROVE  Shows(c)' /\ \A u \in ClockPublishers : EndsWithLast(u, c)'
    <2>1. PICK b, q : b = BaseOf[c] /\ q = clockMessages[s][c]
      OBVIOUS
    <2>2. q \in Seq(Stamped) /\ clockMessages'[s][c] = Append(q, m)
      BY <1>2, <2>1
    <2>3. Shows(c) /\ \A u \in ClockPublishers : EndsWithLast(u, c)
      BY DEF Following
    <2>4. ASSUME NEW u \in ClockPublishers, u # s PROVE EndsWithLast(u, c)'
      BY <1>2, <1>4, <2>3, <2>4 DEF EndsWithLast
    <2>5. CASE b \in DOMAIN m
      <3>1. Queued(Append(q, m), b) /\ NewestIs(Append(q, m), b, m[b])
        BY <2>2, <2>5, QueueAppends
      <3>2. EndsWithLast(s, c)' /\ Shows(c)'
        BY <1>4, <2>1, <2>2, <2>5, <3>1 DEF EndsWithLast, Shows
      <3>3. QED
        BY <2>4, <3>2
    <2>6. CASE b \notin DOMAIN m
      <3>1. /\ Queued(Append(q, m), b) <=> Queued(q, b)
            /\ \A x : NewestIs(q, b, x) => NewestIs(Append(q, m), b, x)
        BY <2>2, <2>6, QueueAppends
      <3>2. /\ Queued(q, b) => b \in DOMAIN lastSet[s]
            /\ NewestIs(q, b, lastSet[s][b])
        BY <2>1, <2>3 DEF EndsWithLast
      <3>3. \A u \in ClockPublishers : /\ b \in DOMAIN lastSet'[u] <=> b \in DOMAIN lastSet[u]
                                       /\ b \in DOMAIN lastSet[u] => lastSet'[u][b] = lastSet[u][b]
        BY <1>4, <2>6
      <3>4. NewestIs(Append(q, m), b, lastSet'[s][b])
        <4>1. CASE b \in DOMAIN lastSet[s]
          BY <3>1, <3>2, <3>3, <4>1
        <4>2. CASE b \notin DOMAIN lastSet[s]
          BY <3>1, <3>2, <4>2 DEF NewestIs, Queued
        <4>3. QED
          BY <4>1, <4>2
      <3>5. EndsWithLast(s, c)'
        BY <2>1, <2>2, <3>1, <3>2, <3>3, <3>4 DEF EndsWithLast
      <3>6. \A u \in ClockPublishers :
               Queued(clockMessages'[u][c], b) <=> Queued(clockMessages[u][c], b)
        BY <1>2, <2>1, <2>2, <3>1
      <3>7. CL!Setters(b)' = CL!Setters(b)
        BY <3>3 DEF CL!Setters, ClockPublishers
      <3>8. CL!Setters(b) \subseteq ClockPublishers
        BY DEF CL!Setters, ClockPublishers
      <3>9. \A u \in CL!Setters(b) : lastSet'[u][b] = lastSet[u][b]
        BY <3>3 DEF CL!Setters, ClockPublishers
      <3>10. Shows(c)'
        <4>1. CASE \E u \in ClockPublishers : Queued(clockMessages[u][c], b)
          BY <2>1, <3>6, <4>1 DEF Shows
        <4>2. CASE CL!Setters(b) = {} /\ clockTimeNS[c] = 0
          BY <1>1, <2>1, <3>7, <4>2 DEF Shows
        <4>3. ASSUME NEW u \in CL!Setters(b), clockTimeNS[c] = CL!TimeIn(lastSet[u][b])
              PROVE  Shows(c)'
          <5>1. u \in CL!Setters(b)' /\ clockTimeNS'[c] = CL!TimeIn(lastSet'[u][b])
            BY <1>1, <3>7, <3>9, <4>3
          <5>2. QED
            BY <2>1, <5>1 DEF Shows, CL!TimeIn
        <4>4. QED
          BY <2>1, <2>3, <4>1, <4>2, <4>3 DEF Shows
      <3>11. QED
        BY <2>4, <3>5, <3>10
    <2>7. QED
      BY <2>5, <2>6
  <1>6. QED
    BY <1>3, <1>5 DEF Following

LEMMA ClocksReceive ==
    ASSUME ClockTypes, Following, NEW d \in Clock, NEW s \in ClockPublishers,
           CL!OnClockMessageReceived(d, s)
    PROVE  ClockTypes' /\ Following'
  <1>1. PICK q, m : q = clockMessages[s][d] /\ m = Head(q)
    OBVIOUS
  <1>2. /\ q \in Seq(Stamped) /\ q # <<>> /\ lastSet' = lastSet
        /\ clockMessages' = [clockMessages EXCEPT ![s][d] = Tail(q)]
        /\ clockTimeNS' = IF BaseOf[d] \in DOMAIN m
                          THEN [clockTimeNS EXCEPT ![d] = CL!TimeIn(m[BaseOf[d]])]
                          ELSE clockTimeNS
    BY <1>1 DEF CL!OnClockMessageReceived, CL!UpdateTimeFromMessage, ClockTypes
  <1>3. /\ clockMessages'[s][d] = Tail(q)
        /\ \A c \in Clock, u \in ClockPublishers : u # s \/ c # d =>
              clockMessages'[u][c] = clockMessages[u][c]
        /\ \A c \in Clock : c # d => clockTimeNS'[c] = clockTimeNS[c]
        /\ BaseOf[d] \in DOMAIN m => clockTimeNS'[d] = CL!TimeIn(m[BaseOf[d]])
        /\ BaseOf[d] \notin DOMAIN m => clockTimeNS'[d] = clockTimeNS[d]
    BY <1>2 DEF ClockTypes
  <1>4. ClockTypes'
    <2>1. Tail(q) \in Seq(Stamped)
      BY <1>2
    <2>2. DOMAIN clockTimeNS' = Clock
      BY <1>2 DEF ClockTypes
    <2>3. QED
      BY <1>2, <2>1, <2>2 DEF ClockTypes
  <1>5. \A b : CL!Setters(b)' = CL!Setters(b) /\ CL!Setters(b) \subseteq ClockPublishers
    BY <1>2 DEF CL!Setters, ClockPublishers
  <1>6. ASSUME NEW c \in Clock, c # d
        PROVE  Shows(c)' /\ \A u \in ClockPublishers : EndsWithLast(u, c)'
    <2>1. Shows(c) /\ \A u \in ClockPublishers : EndsWithLast(u, c)
      BY DEF Following
    <2>2. QED
      BY <1>2, <1>3, <1>5, <1>6, <2>1 DEF Shows, EndsWithLast
  <1>7. Shows(d)' /\ \A u \in ClockPublishers : EndsWithLast(u, d)'
    <2>1. PICK b : b = BaseOf[d]
      OBVIOUS
    <2>2. Shows(d) /\ \A u \in ClockPublishers : EndsWithLast(u, d)
      BY DEF Following
    <2>3. /\ \A x : NewestIs(q, b, x) => NewestIs(Tail(q), b, x)
          /\ Queued(Tail(q), b) => Queued(q, b)
          /\ b \notin DOMAIN m /\ Queued(q, b) => Queued(Tail(q), b)
          /\ \A x : NewestIs(q, b, x) /\ b \in DOMAIN m /\ ~ Queued(Tail(q), b) => m[b] = x
          /\ b \in DOMAIN m => Queued(q, b)
      BY <1>1, <1>2, QueueTails
    <2>4. /\ Queued(q, b) => b \in DOMAIN lastSet[s]
          /\ NewestIs(q, b, lastSet[s][b])
      BY <1>1, <2>1, <2>2 DEF EndsWithLast
    <2>5. EndsWithLast(s, d)'
      BY <1>2, <1>3, <2>1, <2>3, <2>4 DEF EndsWithLast
    <2>6. \A u \in ClockPublishers : u # s => EndsWithLast(u, d)'
      BY <1>2, <1>3, <2>2 DEF EndsWithLast
    <2>7. CASE Queued(Tail(q), b)
      BY <1>3, <2>1, <2>5, <2>6, <2>7 DEF Shows
    <2>8. CASE ~ Queued(Tail(q), b) /\ b \in DOMAIN m
      <3>1. s \in CL!Setters(b)
        BY <2>3, <2>4, <2>8 DEF CL!Setters, ClockPublishers
      <3>2. m[b] = lastSet[s][b]
        BY <2>3, <2>4, <2>8
      <3>3. clockTimeNS'[d] = CL!TimeIn(lastSet'[s][b])
        BY <1>2, <1>3, <2>1, <2>8, <3>2
      <3>4. Shows(d)'
        BY <1>5, <2>1, <3>1, <3>3 DEF Shows, CL!TimeIn
      <3>5. QED
        BY <2>5, <2>6, <3>4
    <2>9. CASE ~ Queued(Tail(q), b) /\ b \notin DOMAIN m
      <3>1. \A u \in ClockPublishers :
               Queued(clockMessages[u][d], b) => Queued(clockMessages'[u][d], b)
        BY <1>1, <1>3, <2>3, <2>9
      <3>2. clockTimeNS'[d] = clockTimeNS[d]
        BY <1>3, <2>1, <2>9
      <3>3. Shows(d)'
        BY <1>2, <1>5, <2>1, <2>2, <3>1, <3>2 DEF Shows, CL!TimeIn
      <3>4. QED
        BY <2>5, <2>6, <3>3
    <2>10. QED
      BY <2>7, <2>8, <2>9
  <1>8. QED
    BY <1>4, <1>6, <1>7 DEF Following

LEMMA ClocksNext ==
    ASSUME ClockTypes, Following, CL!Next \/ UNCHANGED clocksVars
    PROVE  ClockTypes' /\ Following'
  <1>1. ASSUME NEW B \in SUBSET (CL!Bases \cup {BaseOf[c] : c \in Clock}), NEW t \in Times
        PROVE  [b \in B |-> CL!TimeMessage(t)] \in Stamped
    BY DEF Stamped
  <1>2. ASSUME NEW c \in Clock, NEW t \in Times, CL!SetTime(c, t)
        PROVE  ClockTypes' /\ Following'
    <2>1. PICK B : B = {BaseOf[c]}
      OBVIOUS
    <2>2. [b \in B |-> CL!TimeMessage(t)] \in Stamped
      BY <1>1, <2>1
    <2>3. QED
      BY <1>2, <2>1, <2>2, ClocksSend DEF CL!SetTime, ClockPublishers, CL!Publishers
  <1>3. ASSUME NEW s \in Servers, NEW B \in SUBSET CL!Bases, NEW t \in Times,
               CL!ServerSends(s, B, t)
        PROVE  ClockTypes' /\ Following'
    <2>1. [b \in B |-> CL!TimeMessage(t)] \in Stamped
      BY <1>1
    <2>2. QED
      BY <1>3, <2>1, ClocksSend DEF CL!ServerSends, ClockPublishers, CL!Publishers
  <1>4. CASE UNCHANGED clocksVars
    <2>1. UNCHANGED <<clockTimeNS, clockMessages, lastSet>>
      BY <1>4 DEF clocksVars
    <2>2. QED
      BY <2>1 DEF ClockTypes, Following, Shows, EndsWithLast, CL!Setters, CL!TimeIn
  <1>5. QED
    BY <1>2, <1>3, <1>4, ClocksReceive DEF CL!Next, ClockPublishers

LEMMA ClocksInit == ASSUME CL!Init PROVE ClockTypes /\ Following
  <1>1. ClockTypes
    BY DEF CL!Init, ClockTypes, ClockPublishers
  <1>2. ASSUME NEW c \in Clock, NEW s \in ClockPublishers
        PROVE  clockMessages[s][c] = <<>> /\ lastSet[s] = <<>>
    BY DEF CL!Init, ClockPublishers
  <1>3. \A b, x : ~ Queued(<<>>, b) /\ NewestIs(<<>>, b, x) /\ b \notin DOMAIN <<>>
    BY DEF Queued, NewestIs
  <1>4. \A b : CL!Setters(b) = {}
    BY <1>3 DEF CL!Setters, CL!Init
  <1>5. ASSUME NEW c \in Clock, NEW s \in ClockPublishers PROVE EndsWithLast(s, c)
    <2>1. PICK x : x = lastSet[s][BaseOf[c]]
      OBVIOUS
    <2>2. QED
      BY <1>2, <1>3, <2>1 DEF EndsWithLast
  <1>6. \A c \in Clock : clockTimeNS[c] = 0
    BY DEF CL!Init
  <1>7. QED
    BY <1>1, <1>4, <1>5, <1>6 DEF Following, Shows

\* A clock that has got all messages shows what one of those who ever set its base
\* has set last, and is not ready if nobody has, whoever else publishes.
THEOREM ClocksAreFollowed == PartsSpec => []ClocksFollow
  <1> DEFINE I == part = "clocks" => ClockTypes /\ Following
  <1>1. PartsInit => I
    BY ClocksInit DEF PartsInit
  <1>2. I /\ [PartsNext]_AllVars => I'
    BY PartStays, ClocksNext DEF PartsNext, AllVars
  <1>3. I => ClocksFollow
    <2>1. ASSUME Following, NEW c \in Clock, CL!Delivered(c)
          PROVE  IF CL!Setters(BaseOf[c]) = {} THEN ~ CL!IsReady(c)
                 ELSE \E s \in CL!Setters(BaseOf[c]) :
                         clockTimeNS[c] = CL!TimeIn(lastSet[s][BaseOf[c]])
      <3>1. \A s \in ClockPublishers : ~ Queued(clockMessages[s][c], BaseOf[c])
        BY <2>1 DEF CL!Delivered, ClockPublishers, Queued
      <3>2. QED
        BY <2>1, <3>1 DEF Following, Shows, CL!IsReady
    <2>2. QED
      BY <2>1 DEF ClocksFollow, CL!ClocksFollow
  <1>4. QED
    BY <1>1, <1>2, <1>3, PTL DEF PartsSpec

-----------------------------------------------------------------------------
(* Statistics.                                                             *)

StatisticsTypes ==
    /\ topicPubSeq \in [Senders -> 0..MaxSeq]
    /\ channel \in [Senders -> Seq(Nat)]
    /\ seq \in [Senders -> Nat]
    /\ updated \in [Senders -> SUBSET Nat]
    /\ droppedMsgCount \in Nat /\ started \in BOOLEAN

\* The numbers of a sender come in their order, later ones than were counted.
InOrder(s) ==
    /\ \A i, j \in 1..Len(channel[s]) : i < j => channel[s][i] < channel[s][j]
    /\ \A i \in 1..Len(channel[s]) : /\ channel[s][i] < topicPubSeq[s]
                                     /\ \A n \in updated[s] : n < channel[s][i]
    /\ \A n \in updated[s] : n < topicPubSeq[s] /\ n <= seq[s]
    /\ updated[s] # {} => seq[s] \in updated[s]

Counting ==
    /\ StatisticsTypes
    /\ \A s \in Senders : InOrder(s)
    /\ started <=> TS!Heard # {}
    /\ TS!DropsBounded

LEMMA SameCardinality == \A S : TS!Cardinality(S) = Cardinality(S)
  BY DEF TS!Cardinality, Cardinality

LEMMA CountsAreFinite ==
    /\ IsFiniteSet(TS!AllMissed) /\ IsFiniteSet(TS!Heard)
    /\ Cardinality(TS!AllMissed) \in Nat /\ Cardinality(TS!Heard) \in Nat
    /\ TS!Heard # {} => Cardinality(TS!Heard) > 0
  <1>1. IsFiniteSet(TS!Heard)
    BY StatisticsAssumption, FS_Subset DEF TS!Heard
  <1>2. IsFiniteSet(0..MaxSeq)
    BY StatisticsAssumption, FS_Interval
  <1>3. IsFiniteSet(Senders \X (0..MaxSeq))
    BY <1>2, StatisticsAssumption, FS_Product
  <1>4. TS!AllMissed \subseteq Senders \X (0..MaxSeq)
    BY DEF TS!AllMissed, TS!Missed
  <1>5. IsFiniteSet(TS!AllMissed)
    BY <1>3, <1>4, FS_Subset
  <1>6. Cardinality(TS!AllMissed) \in Nat /\ Cardinality(TS!Heard) \in Nat
    BY <1>1, <1>5, FS_CardinalityType
  <1>7. TS!Heard # {} => Cardinality(TS!Heard) > 0
    BY <1>1, <1>6, FS_EmptySet
  <1>8. QED
    BY <1>1, <1>5, <1>6, <1>7

LEMMA CountingRests ==
    ASSUME Counting, UNCHANGED <<started, seq, droppedMsgCount, updated>>,
           StatisticsTypes', \A s \in Senders : InOrder(s)'
    PROVE  Counting'
  BY DEF Counting, TS!DropsBounded, TS!AllMissed, TS!Heard, TS!Missed

\* The number at the head of a channel is gone, counted or not.
LEMMA OrderGoesOn ==
    ASSUME StatisticsTypes, \A s \in Senders : InOrder(s), NEW s \in Senders,
           channel[s] # <<>>, channel' = [channel EXCEPT ![s] = Tail(@)],
           topicPubSeq' = topicPubSeq
    PROVE  /\ channel' \in [Senders -> Seq(Nat)]
           /\ Head(channel[s]) \in Nat /\ Head(channel[s]) < topicPubSeq[s]
           /\ \A n \in updated[s] : n < Head(channel[s])
           /\ \A i, j \in 1..Len(channel'[s]) : i < j => channel'[s][i] < channel'[s][j]
           /\ \A i \in 1..Len(channel'[s]) : /\ channel'[s][i] < topicPubSeq[s]
                                             /\ Head(channel[s]) < channel'[s][i]
                                             /\ \A n \in updated[s] : n < channel'[s][i]
           /\ \A u \in Senders : u # s => channel'[u] = channel[u]
  <1>1. PICK q, r : q \in Seq(Nat) /\ q = channel[s] /\ r = Tail(q)
    BY DEF StatisticsTypes
  <1>2. /\ r \in Seq(Nat) /\ channel'[s] = r
        /\ \A u \in Senders : u # s => channel'[u] = channel[u]
    BY <1>1 DEF StatisticsTypes
  <1>3. PICK n \in Nat : n = Len(r)
    BY <1>2
  <1>4. /\ 1 \in 1..Len(q) /\ Head(q) = q[1] /\ Head(q) \in Nat
        /\ \A i \in 1..n : i + 1 \in 1..Len(q) /\ r[i] = q[i + 1]
    BY <1>1, <1>2, <1>3
  <1>5. /\ \A i, j \in 1..Len(q) : i < j => q[i] < q[j]
        /\ \A i \in 1..Len(q) : /\ q[i] < topicPubSeq[s]
                                /\ \A k \in updated[s] : k < q[i]
    BY <1>1 DEF InOrder
  <1>6. \A i, j \in 1..n : i < j => r[i] < r[j]
    <2>1. ASSUME NEW i \in 1..n, NEW j \in 1..n, i < j PROVE r[i] < r[j]
      <3>1. i + 1 < j + 1
        BY <2>1
      <3>2. QED
        BY <1>4, <1>5, <3>1
    <2>2. QED
      BY <2>1
  <1>7. \A i \in 1..n : q[1] < r[i]
    <2>1. \A i \in 1..n : 1 < i + 1
      OBVIOUS
    <2>2. QED
      BY <1>4, <1>5, <2>1
  <1>8. channel' \in [Senders -> Seq(Nat)]
    BY <1>1, <1>2 DEF StatisticsTypes
  <1>9. QED
    BY <1>1, <1>2, <1>3, <1>4, <1>5, <1>6, <1>7, <1>8

\* A number after a gap: what was missed of its sender is more than before.
LEMMA MissedGrows ==
    ASSUME StatisticsTypes, \A s \in Senders : InOrder(s), NEW s \in Senders,
           NEW n \in 0..MaxSeq, \A m \in updated[s] : m < n,
           updated' = [updated EXCEPT ![s] = @ \cup {n}]
    PROVE  /\ TS!AllMissed \subseteq TS!AllMissed'
           /\ updated[s] = {} => TS!AllMissed' = TS!AllMissed
           /\ updated[s] # {} /\ seq[s] + 1 = n => TS!AllMissed' = TS!AllMissed
           /\ updated[s] # {} /\ seq[s] + 1 # n =>
                 \E x \in TS!AllMissed' : x \notin TS!AllMissed
  <1>1. /\ \A u \in Senders : u # s => updated'[u] = updated[u]
        /\ updated'[s] = updated[s] \cup {n} /\ updated[s] \subseteq Nat
        /\ seq[s] \in Nat /\ n \in Nat
    BY StatisticsAssumption DEF StatisticsTypes
  <1>2. /\ \A u \in Senders : u # s => TS!Missed(u)' = TS!Missed(u)
        /\ \A x : x \in TS!AllMissed <=>
                 \E u \in Senders : \E m \in TS!Missed(u) : x = <<u, m>>
        /\ \A x : x \in TS!AllMissed' <=>
                 \E u \in Senders : \E m \in TS!Missed(u)' : x = <<u, m>>
    BY <1>1 DEF TS!AllMissed, TS!Missed
  <1>3. /\ \A m \in updated[s] : m <= seq[s]
        /\ updated[s] # {} => seq[s] \in updated[s]
    BY DEF InOrder
  <1>4. TS!Missed(s) \subseteq TS!Missed(s)'
    <2>1. ASSUME NEW m \in TS!Missed(s) PROVE m \in TS!Missed(s)'
      <3>1. PICK a \in updated[s], b \in updated[s] : a < m /\ m < b
        BY DEF TS!Missed
      <3>2. m # n /\ m \in 0..MaxSeq /\ m \notin updated[s]
        BY <1>1, <3>1 DEF TS!Missed
      <3>3. QED
        BY <1>1, <3>1, <3>2 DEF TS!Missed
    <2>2. QED
      BY <2>1
  <1>5. ASSUME updated[s] = {} \/ (updated[s] # {} /\ seq[s] + 1 = n),
               NEW m \in TS!Missed(s)'
        PROVE  m \in TS!Missed(s)
    <2>1. PICK a \in updated'[s], b \in updated'[s] : a < m /\ m < b
      BY <1>5 DEF TS!Missed
    <2>2. m \in 0..MaxSeq /\ m \notin updated'[s] /\ m \in Nat
      BY <1>5, StatisticsAssumption DEF TS!Missed
    <2>3. a \in updated[s]
      BY <1>1, <2>1, <2>2
    <2>4. seq[s] \in updated[s]
      BY <1>3, <2>3
    <2>5. CASE b = n
      <3>1. m < n /\ n = seq[s] + 1 /\ m # seq[s]
        BY <1>1, <1>5, <2>1, <2>2, <2>3, <2>4, <2>5
      <3>2. m < seq[s]
        BY <1>1, <2>2, <3>1
      <3>3. QED
        BY <1>1, <2>1, <2>2, <2>3, <2>4, <3>2 DEF TS!Missed
    <2>6. CASE b # n
      BY <1>1, <2>1, <2>2, <2>3, <2>6 DEF TS!Missed
    <2>7. QED
      BY <2>5, <2>6
  <1>6. TS!AllMissed \subseteq TS!AllMissed'
    BY <1>2, <1>4
  <1>7. ASSUME updated[s] = {} \/ (updated[s] # {} /\ seq[s] + 1 = n)
        PROVE  TS!AllMissed' = TS!AllMissed
    <2>1. TS!Missed(s)' \subseteq TS!Missed(s)
      BY <1>5, <1>7
    <2>2. TS!AllMissed' \subseteq TS!AllMissed
      BY <1>2, <2>1
    <2>3. QED
      BY <1>6, <2>2
  <1>8. ASSUME updated[s] # {}, seq[s] + 1 # n
        PROVE  \E x \in TS!AllMissed' : x \notin TS!AllMissed
    <2>1. PICK m \in Nat : m = seq[s] + 1
      BY <1>1
    <2>2. seq[s] \in updated[s] /\ seq[s] < n
      BY <1>3, <1>8
    <2>3. seq[s] < m /\ m < n /\ m \in 0..MaxSeq /\ m \notin updated'[s]
      BY <1>1, <1>3, <1>8, <2>1, <2>2, StatisticsAssumption
    <2>4. m \in TS!Missed(s)'
      BY <1>1, <2>2, <2>3 DEF TS!Missed
    <2>5. m \notin TS!Missed(s)
      BY <1>1, <1>3, <2>1 DEF TS!Missed
    <2>6. <<s, m>> \in TS!AllMissed'
      BY <1>2, <2>4
    <2>7. <<s, m>> \notin TS!AllMissed
      BY <1>2, <2>5
    <2>8. QED
      BY <2>6, <2>7
  <1>9. QED
    BY <1>6, <1>7, <1>8

LEMMA CountingUpdates ==
    ASSUME Counting, NEW s \in Senders, NEW n \in 0..MaxSeq, \A m \in updated[s] : m < n,
           TS!Update(s, n)
    PROVE  TS!DropsBounded' /\ (started' <=> TS!Heard' # {}) /\ droppedMsgCount' \in Nat
  <1>1. /\ updated' = [updated EXCEPT ![s] = @ \cup {n}] /\ started' = TRUE
        /\ droppedMsgCount' = IF started /\ seq[s] + 1 # n THEN droppedMsgCount + 1
                              ELSE droppedMsgCount
        /\ droppedMsgCount \in Nat /\ DOMAIN updated = Senders
    BY DEF TS!Update, Counting, StatisticsTypes
  <1>2. TS!Heard' = TS!Heard \cup {s} /\ (s \in TS!Heard <=> updated[s] # {})
    BY <1>1 DEF TS!Heard
  <1>3. PICK am, am1, h, h1 :
            /\ am = Cardinality(TS!AllMissed) /\ am1 = Cardinality(TS!AllMissed')
            /\ h = Cardinality(TS!Heard) /\ h1 = Cardinality(TS!Heard')
    OBVIOUS
  <1>4. /\ IsFiniteSet(TS!AllMissed) /\ IsFiniteSet(TS!AllMissed') /\ IsFiniteSet(TS!Heard)
        /\ am \in Nat /\ h \in Nat /\ am1 \in Nat /\ h1 \in Nat
        /\ TS!Heard # {} => h > 0
    <2>1. (/\ IsFiniteSet(TS!AllMissed) /\ Cardinality(TS!AllMissed) \in Nat
           /\ Cardinality(TS!Heard) \in Nat)'
      BY CountsAreFinite, PTL
    <2>2. QED
      BY <1>3, <2>1, CountsAreFinite
  <1>5. /\ started <=> TS!Heard # {}
        /\ TS!AllMissed # {} => droppedMsgCount > 0
        /\ droppedMsgCount <= am + (IF TS!Heard = {} THEN 0 ELSE h - 1)
    BY <1>3, SameCardinality DEF Counting, TS!DropsBounded
  <1>6. h1 = IF s \in TS!Heard THEN h ELSE h + 1
    BY <1>2, <1>3, <1>4, FS_AddElement
  <1>7. /\ updated[s] = {} => TS!AllMissed' = TS!AllMissed
        /\ updated[s] # {} /\ seq[s] + 1 = n => TS!AllMissed' = TS!AllMissed
        /\ updated[s] # {} /\ seq[s] + 1 # n => am1 >= am + 1
    <2>1. /\ TS!AllMissed \subseteq TS!AllMissed'
          /\ updated[s] = {} => TS!AllMissed' = TS!AllMissed
          /\ updated[s] # {} /\ seq[s] + 1 = n => TS!AllMissed' = TS!AllMissed
          /\ updated[s] # {} /\ seq[s] + 1 # n =>
                \E x \in TS!AllMissed' : x \notin TS!AllMissed
      BY <1>1, MissedGrows DEF Counting
    <2>2. ASSUME NEW x \in TS!AllMissed', x \notin TS!AllMissed PROVE am1 >= am + 1
      <3>1. am <= am1 /\ (am1 = am => TS!AllMissed' = TS!AllMissed)
        BY <1>3, <1>4, <2>1, FS_Subset
      <3>2. QED
        BY <1>4, <2>2, <3>1
    <2>3. QED
      BY <2>1, <2>2
  <1>8. TS!AllMissed' = TS!AllMissed => am1 = am
    BY <1>3
  <1>9. /\ TS!AllMissed' # {} => droppedMsgCount' > 0
        /\ droppedMsgCount' <= am1 + (h1 - 1)
        /\ droppedMsgCount' \in Nat
    <2>1. CASE updated[s] = {}
      BY <1>1, <1>2, <1>4, <1>5, <1>6, <1>7, <1>8, <2>1
    <2>2. CASE updated[s] # {} /\ seq[s] + 1 = n
      BY <1>1, <1>2, <1>4, <1>5, <1>6, <1>7, <1>8, <2>2
    <2>3. CASE updated[s] # {} /\ seq[s] + 1 # n
      BY <1>1, <1>2, <1>4, <1>5, <1>6, <1>7, <2>3
    <2>4. QED
      BY <2>1, <2>2, <2>3
  <1>10. TS!Heard' # {}
    BY <1>2
  <1>11. TS!DropsBounded'
    BY <1>3, <1>9, <1>10, SameCardinality DEF TS!DropsBounded
  <1>12. QED
    BY <1>1, <1>9, <1>10, <1>11

LEMMA CountingReceives ==
    ASSUME Counting, NEW s \in Senders, TS!Receive(s) PROVE Counting'
  <1>1. /\ channel[s] # <<>> /\ channel' = [channel EXCEPT ![s] = Tail(@)]
        /\ topicPubSeq' = topicPubSeq
    BY DEF TS!Receive
  <1>2. PICK n : n = Head(channel[s])
    OBVIOUS
  <1>3. /\ channel' \in [Senders -> Seq(Nat)]
        /\ n \in Nat /\ n < topicPubSeq[s]
        /\ \A m \in updated[s] : m < n
        /\ \A i, j \in 1..Len(channel'[s]) : i < j => channel'[s][i] < channel'[s][j]
        /\ \A i \in 1..Len(channel'[s]) : /\ channel'[s][i] < topicPubSeq[s]
                                          /\ n < channel'[s][i]
                                          /\ \A m \in updated[s] : m < channel'[s][i]
        /\ \A u \in Senders : u # s => channel'[u] = channel[u]
    BY <1>1, <1>2, OrderGoesOn DEF Counting
  <1>4. CASE UNCHANGED <<started, seq, droppedMsgCount, updated>>
    <2>1. \A u \in Senders : InOrder(u)'
      BY <1>1, <1>3, <1>4 DEF Counting, InOrder
    <2>2. StatisticsTypes'
      BY <1>1, <1>3, <1>4 DEF Counting, StatisticsTypes
    <2>3. QED
      BY <1>4, <2>1, <2>2, CountingRests
  <1>5. CASE TS!Update(s, n)
    <2>1. n \in 0..MaxSeq
      BY <1>3, StatisticsAssumption DEF Counting, StatisticsTypes
    <2>2. TS!DropsBounded' /\ (started' <=> TS!Heard' # {}) /\ droppedMsgCount' \in Nat
      BY <1>3, <1>5, <2>1, CountingUpdates
    <2>3. /\ updated' = [updated EXCEPT ![s] = @ \cup {n}] /\ seq' = [seq EXCEPT ![s] = n]
          /\ started' = TRUE
      BY <1>5 DEF TS!Update
    <2>4. StatisticsTypes'
      BY <1>1, <1>3, <2>2, <2>3 DEF Counting, StatisticsTypes
    <2>5. /\ seq'[s] = n /\ updated'[s] = updated[s] \cup {n}
          /\ \A u \in Senders : u # s => updated'[u] = updated[u] /\ seq'[u] = seq[u]
      BY <2>3 DEF Counting, StatisticsTypes
    <2>6. \A m \in updated'[s] : m < topicPubSeq[s] /\ m <= n
      <3>1. \A m \in updated[s] : m \in Nat /\ m < topicPubSeq[s]
        BY DEF Counting, StatisticsTypes, InOrder
      <3>2. QED
        BY <1>3, <2>5, <3>1
    <2>7. InOrder(s)'
      BY <1>1, <1>3, <2>5, <2>6 DEF InOrder
    <2>8. \A u \in Senders : u # s => InOrder(u)'
      BY <1>1, <1>3, <2>5 DEF Counting, InOrder
    <2>9. QED
      BY <2>2, <2>4, <2>7, <2>8 DEF Counting
  <1>6. QED
    BY <1>2, <1>4, <1>5 DEF TS!Receive

LEMMA CountingNext ==
    ASSUME Counting, TS!Next \/ UNCHANGED statisticsVars PROVE Counting'
  <1>1. ASSUME NEW s \in Senders, TS!Publish(s) PROVE Counting'
    <2>1. /\ UNCHANGED <<started, seq, droppedMsgCount, updated>>
          /\ topicPubSeq[s] < MaxSeq /\ topicPubSeq[s] \in Nat
          /\ topicPubSeq' = [topicPubSeq EXCEPT ![s] = topicPubSeq[s] + 1]
          /\ channel' = [channel EXCEPT ![s] = Append(channel[s], topicPubSeq[s])]
      BY <1>1, StatisticsAssumption DEF TS!Publish, Counting, StatisticsTypes
    <2>2. /\ topicPubSeq'[s] = topicPubSeq[s] + 1
          /\ channel'[s] = Append(channel[s], topicPubSeq[s])
          /\ \A u \in Senders : u # s => /\ topicPubSeq'[u] = topicPubSeq[u]
                                         /\ channel'[u] = channel[u]
      BY <2>1 DEF Counting, StatisticsTypes
    <2>3. Append(channel[s], topicPubSeq[s]) \in Seq(Nat) /\ channel[s] \in Seq(Nat)
      BY <2>1 DEF Counting, StatisticsTypes
    <2>4. StatisticsTypes'
      BY <2>1, <2>3, StatisticsAssumption DEF Counting, StatisticsTypes
    <2>5. InOrder(s)'
      <3>1. PICK q, r, t : q = channel[s] /\ t = topicPubSeq[s] /\ r = Append(q, t)
        OBVIOUS
      <3>2. /\ Len(q) \in Nat /\ Len(r) = Len(q) + 1 /\ r[Len(q) + 1] = t /\ t \in Nat
            /\ \A i \in 1..Len(q) : r[i] = q[i] /\ q[i] \in Nat
        BY <2>1, <2>3, <3>1
      <3>3. /\ \A i, j \in 1..Len(q) : i < j => q[i] < q[j]
            /\ \A i \in 1..Len(q) : q[i] < t /\ \A m \in updated[s] : m < q[i]
            /\ \A m \in updated[s] : m < t /\ m <= seq[s] /\ m \in Nat
            /\ updated[s] # {} => seq[s] \in updated[s]
        BY <3>1 DEF Counting, InOrder, StatisticsTypes
      <3>4. /\ \A i, j \in 1..Len(r) : i < j => r[i] < r[j]
            /\ \A i \in 1..Len(r) : r[i] < t + 1 /\ \A m \in updated[s] : m < r[i]
        <4>1. \A i \in 1..Len(r) : i \in 1..Len(q) \/ i = Len(q) + 1
          BY <3>2
        <4>2. \A i \in 1..Len(r) : r[i] < t + 1 /\ \A m \in updated[s] : m < r[i]
          BY <3>2, <3>3, <4>1
        <4>3. ASSUME NEW i \in 1..Len(r), NEW j \in 1..Len(r), i < j PROVE r[i] < r[j]
          <5>1. i \in 1..Len(q)
            BY <3>2, <4>3
          <5>2. QED
            BY <3>2, <3>3, <4>1, <4>3, <5>1
        <4>4. QED
          BY <4>2, <4>3
      <3>5. \A m \in updated[s] : m < t + 1
        BY <3>2, <3>3
      <3>6. QED
        BY <2>1, <2>2, <3>1, <3>3, <3>4, <3>5 DEF InOrder
    <2>6. \A u \in Senders : u # s => InOrder(u)'
      BY <2>1, <2>2 DEF Counting, InOrder
    <2>7. QED
      BY <2>1, <2>4, <2>5, <2>6, CountingRests
  <1>2. ASSUME NEW s \in Senders, TS!Lose(s) PROVE Counting'
    <2>1. /\ UNCHANGED <<topicPubSeq, started, seq, droppedMsgCount, updated>>
          /\ channel[s] # <<>> /\ channel' = [channel EXCEPT ![s] = Tail(@)]
      BY <1>2 DEF TS!Lose
    <2>2. /\ channel' \in [Senders -> Seq(Nat)]
          /\ \A i, j \in 1..Len(channel'[s]) : i < j => channel'[s][i] < channel'[s][j]
          /\ \A i \in 1..Len(channel'[s]) : /\ channel'[s][i] < topicPubSeq[s]
                                            /\ \A m \in updated[s] : m < channel'[s][i]
          /\ \A u \in Senders : u # s => channel'[u] = channel[u]
      BY <2>1, OrderGoesOn DEF Counting
    <2>3. StatisticsTypes' /\ \A u \in Senders : InOrder(u)'
      BY <2>1, <2>2 DEF Counting, StatisticsTypes, InOrder
    <2>4. QED
      BY <2>1, <2>3, CountingRests
  <1>3. ASSUME UNCHANGED <<topicPubSeq, channel, started, seq, droppedMsgCount, updated>>
        PROVE  Counting'
    <2>1. StatisticsTypes' /\ \A u \in Senders : InOrder(u)'
      BY <1>3 DEF Counting, StatisticsTypes, InOrder
    <2>2. QED
      BY <1>3, <2>1, CountingRests
  <1>4. CASE \E enable \in BOOLEAN : TS!EnableStats(enable)
    BY <1>3, <1>4 DEF TS!EnableStats
  <1>5. CASE UNCHANGED statisticsVars
    BY <1>3, <1>5 DEF statisticsVars
  <1>6. QED
    BY <1>1, <1>2, <1>4, <1>5, CountingReceives DEF TS!Next

LEMMA CountingInit == ASSUME TS!Init PROVE Counting
  <1>1. \A s \in Senders : updated[s] = {} /\ channel[s] = <<>>
    BY DEF TS!Init
  <1>2. StatisticsTypes
    <2>1. 0 \in 0..MaxSeq /\ 0 \in Nat /\ <<>> \in Seq(Nat) /\ {} \in SUBSET Nat
      BY StatisticsAssumption
    <2>2. topicPubSeq \in [Senders -> 0..MaxSeq] /\ channel \in [Senders -> Seq(Nat)]
      BY <2>1 DEF TS!Init
    <2>3. seq \in [Senders -> Nat] /\ updated \in [Senders -> SUBSET Nat]
      BY <2>1 DEF TS!Init
    <2>4. QED
      BY <2>1, <2>2, <2>3 DEF TS!Init, StatisticsTypes
  <1>3. TS!Heard = {} /\ TS!AllMissed = {}
    BY <1>1 DEF TS!Heard, TS!AllMissed, TS!Missed
  <1>4. \A s \in Senders : InOrder(s)
    BY <1>1 DEF InOrder
  <1>5. TS!DropsBounded
    <2>1. Cardinality(TS!AllMissed) = 0
      BY <1>3, FS_EmptySet
    <2>2. QED
      BY <1>3, <2>1, SameCardinality DEF TS!Init, TS!DropsBounded
  <1>6. QED
    BY <1>2, <1>3, <1>4, <1>5 DEF Counting, TS!Init

\* The count of dropped messages is 0 as long as nothing was missed between two
\* messages, positive then, and never more than what was missed and one for each
\* sender but the first.
THEOREM DropsAreCounted == PartsSpec => []DropsBounded
  <1> DEFINE I == part = "statistics" => Counting
  <1>1. PartsInit => I
    BY CountingInit DEF PartsInit
  <1>2. I /\ [PartsNext]_AllVars => I'
    BY PartStays, CountingNext DEF PartsNext, AllVars
  <1>3. I => DropsBounded
    BY DEF Counting, DropsBounded
  <1>4. QED
    BY <1>1, <1>2, <1>3, PTL DEF PartsSpec

-----------------------------------------------------------------------------
(* The topics of a recorder.                                               *)

Adders == {"user", "discovery"}

At(p, at) == adder[p].at = at

IsAdder(a) ==
    \/ \E at \in {"rest", "adding"}, names \in SUBSET RT!Name : a = [at |-> at, names |-> names]
    \/ \E at \in {"subscribing", "inserting"}, names \in SUBSET RT!Name : \E n \in names :
          a = [at |-> at, names |-> names, name |-> n]

RecorderTypes ==
    /\ listed \subseteq RecTopics /\ heard \subseteq RecTopics
    /\ alreadySubscribed \subseteq RT!Name
    /\ subscriptions \in [RecTopics -> Nat]
    /\ DOMAIN adder = Adders /\ \A p \in Adders : IsAdder(adder[p])

\* The reception thread has one name at a time, of a topic it has heard of.
Announcing ==
    \A n \in adder["discovery"].names :
        /\ n = RT!Full(n.topic) /\ n.topic \in heard
        /\ \A m \in adder["discovery"].names : m = n

\* A topic that a pattern matched is subscribed, or about to be.
Found ==
    \A t \in heard \ overlooked :
        Partition[t] => RT!Full(t) \in alreadySubscribed \cup adder["discovery"].names

\* The names of t that were subscribed and inserted, or are about to be inserted.
NamesOf(t) ==
    {n \in alreadySubscribed : n.topic = t}
    \cup {n \in RT!Name : n.topic = t /\ \E p \in Adders : At(p, "inserting") /\ adder[p].name = n}

\* The reception thread may still subscribe to t.
NotYet(t) ==
    \/ t \notin heard
    \/ At("discovery", "adding") /\ RT!Full(t) \in adder["discovery"].names
    \/ At("discovery", "subscribing") /\ adder["discovery"].name = RT!Full(t)

\* The user's thread is about to subscribe to a name of t a second time.
Twice(t) ==
    At("user", "subscribing") /\ adder["user"].name.topic = t /\ adder["user"].name \in NamesOf(t)

\* The user's thread may still find that the topic is not subscribed, though it is.
Hidden(t) ==
    /\ At("discovery", "inserting") /\ adder["discovery"].name = RT!Full(t)
    /\ RT!Full(t) \notin alreadySubscribed
    /\ ~ (At("user", "inserting") /\ adder["user"].name = RT!Full(t))

\* Every subscription to t so far has a name of its own.
OneEach(t) == subscriptions[t] <= Cardinality(NamesOf(t))

\* The one that has none was made by the reception thread or by the user's, when the
\* other one had not inserted the name yet, and neither can happen again.
Subscribed(t) ==
    /\ Cardinality(NamesOf(t)) <= subscriptions[t]
    /\ subscriptions[t] <= Cardinality(NamesOf(t)) + 1
    /\ NamesOf(t) = {} => subscriptions[t] = 0
    /\ NotYet(t) \/ Twice(t) \/ Hidden(t) => OneEach(t)
    /\ Twice(t) => adder["user"].name = RT!Full(t) /\ ~ NotYet(t)

Recording ==
    RecorderTypes /\ Announcing /\ Found /\ \A t \in RecTopics : Subscribed(t)

LEMMA NamesOfRecorder ==
    ASSUME NEW t
    PROVE  /\ t \in RecTopics => RT!Full(t) \in RT!Name
           /\ RT!Full(t).topic = t
           /\ \A u : RT!Full(t) = RT!Full(u) => t = u
  BY DEF RT!Full, RT!Name

LEMMA NamesAreFinite ==
    ASSUME RecorderTypes, NEW t
    PROVE  /\ IsFiniteSet(NamesOf(t)) /\ Cardinality(NamesOf(t)) \in Nat
           /\ NamesOf(t) = {} => Cardinality(NamesOf(t)) = 0
           /\ NamesOf(t) # {} => Cardinality(NamesOf(t)) > 0
  <1> DEFINE half == [topic |-> t, slash |-> FALSE]
  <1>1. NamesOf(t) \subseteq {RT!Full(t)} \cup {half}
    BY DEF NamesOf, RT!Name, RecorderTypes, RT!Full
  <1> HIDE DEF half
  <1>2. IsFiniteSet({RT!Full(t)} \cup {half})
    <2>1. IsFiniteSet({RT!Full(t)})
      BY FS_Singleton
    <2>2. QED
      BY <2>1, FS_AddElement
  <1>3. IsFiniteSet(NamesOf(t))
    BY <1>1, <1>2, FS_Subset
  <1>4. QED
    BY <1>3, FS_CardinalityType, FS_EmptySet

\* What a thread holds while it is at a name.
LEMMA AdderShapes ==
    ASSUME RecorderTypes, NEW p \in Adders
    PROVE  /\ adder[p].at \in {"rest", "adding", "subscribing", "inserting"}
           /\ adder[p].names \subseteq RT!Name
           /\ adder[p].at \in {"rest", "adding"} =>
                 adder[p] = [at |-> adder[p].at, names |-> adder[p].names]
           /\ adder[p].at \in {"subscribing", "inserting"} =>
                 /\ adder[p].name \in adder[p].names
                 /\ adder[p] = [at |-> adder[p].at, names |-> adder[p].names,
                                name |-> adder[p].name]
  <1>1. IsAdder(adder[p])
    BY DEF RecorderTypes
  <1>2. ASSUME NEW at \in {"rest", "adding"}, NEW names \in SUBSET RT!Name,
               adder[p] = [at |-> at, names |-> names]
        PROVE  /\ adder[p].at = at /\ adder[p].names = names
    BY <1>2
  <1>3. ASSUME NEW at \in {"subscribing", "inserting"}, NEW names \in SUBSET RT!Name,
               NEW n \in names, adder[p] = [at |-> at, names |-> names, name |-> n]
        PROVE  /\ adder[p].at = at /\ adder[p].names = names /\ adder[p].name = n
    BY <1>3
  <1>4. CASE \E at \in {"rest", "adding"}, names \in SUBSET RT!Name :
                 adder[p] = [at |-> at, names |-> names]
    BY <1>2, <1>4
  <1>5. CASE \E at \in {"subscribing", "inserting"}, names \in SUBSET RT!Name : \E n \in names :
                 adder[p] = [at |-> at, names |-> names, name |-> n]
    BY <1>3, <1>5
  <1>6. QED
    BY <1>1, <1>4, <1>5, Zenon DEF IsAdder

LEMMA AdderMoves ==
    ASSUME RecorderTypes, NEW p \in Adders, NEW a, RT!Moves(p, a), IsAdder(a)
    PROVE  /\ adder'[p] = a /\ \A q \in Adders \ {p} : adder'[q] = adder[q]
           /\ DOMAIN adder' = Adders /\ \A q \in Adders : IsAdder(adder'[q])
  BY DEF RT!Moves, RecorderTypes

\* A step of p that only changes what it goes through.
LEMMA AddingIsAdder ==
    ASSUME NEW at \in {"rest", "adding"}, NEW names \in SUBSET RT!Name
    PROVE  /\ IsAdder(RT!Step(at, names))
           /\ RT!Step(at, names).at = at /\ RT!Step(at, names).names = names
  BY DEF IsAdder, RT!Step

LEMMA RecordingInit == RT!Init => Recording
  <1> SUFFICES ASSUME RT!Init PROVE Recording
    OBVIOUS
  <1>1. /\ \A p \in Adders : adder[p] = [at |-> "rest", names |-> {}]
        /\ DOMAIN adder = Adders
    BY DEF RT!Init, RT!Rest, RT!Step, Adders
  <1>2. RecorderTypes
    <2>1. \A p \in Adders : IsAdder(adder[p])
      BY <1>1 DEF IsAdder
    <2>2. subscriptions \in [RecTopics -> Nat]
      BY DEF RT!Init
    <2>3. QED
      BY <1>1, <2>1, <2>2 DEF RT!Init, RecorderTypes
  <1>3. \A t : NamesOf(t) = {} /\ ~ Twice(t)
    BY <1>1 DEF RT!Init, NamesOf, Twice, At, Adders
  <1>4. \A t : Cardinality(NamesOf(t)) = 0
    BY <1>3, FS_EmptySet
  <1>5. \A t \in RecTopics : Subscribed(t)
    BY <1>3, <1>4 DEF RT!Init, Subscribed, OneEach
  <1>6. Announcing /\ Found
    BY <1>1 DEF Announcing, Found, RT!Init, Adders
  <1>7. QED
    BY <1>2, <1>5, <1>6 DEF Recording

\* A step that lets no thread do more than it could before.
LEMMA SubscribedRests ==
    ASSUME NEW t, Subscribed(t), NamesOf(t)' = NamesOf(t), subscriptions'[t] = subscriptions[t],
           NotYet(t)' => NotYet(t), Hidden(t)' => Hidden(t),
           Twice(t)' => Twice(t) /\ adder'["user"].name = adder["user"].name
    PROVE  Subscribed(t)'
  BY DEF Subscribed, OneEach

\* The names that count stay, if p inserts nothing before and after its step.
LEMMA NamesStay ==
    ASSUME NEW p \in Adders, UNCHANGED alreadySubscribed, ~ At(p, "inserting"),
           ~ At(p, "inserting")', \A q \in Adders \ {p} : adder'[q] = adder[q], NEW t
    PROVE  NamesOf(t)' = NamesOf(t)
  BY DEF NamesOf, At

LEMMA FoundStays ==
    ASSUME Found, UNCHANGED <<heard, overlooked>>, alreadySubscribed \subseteq alreadySubscribed',
           adder["discovery"].names \subseteq adder'["discovery"].names \cup alreadySubscribed'
    PROVE  Found'
  BY DEF Found

\* Find of a name that is subscribed: the thread goes on to the next one.
LEMMA RecordingSkips ==
    ASSUME Recording, NEW p \in Adders, NEW n \in RT!Name, RT!Find(p, n), n \in alreadySubscribed
    PROVE  Recording'
  <1> DEFINE names == adder[p].names \ {n}
  <1>1. /\ At(p, "adding") /\ n \in adder[p].names /\ names \in SUBSET RT!Name
        /\ RT!Moves(p, RT!Step("adding", names))
        /\ UNCHANGED <<listed, heard, alreadySubscribed, subscriptions, overlooked>>
    BY AdderShapes DEF RT!Find, At, Recording
  <1>2. IsAdder(RT!Step("adding", names)) /\ RT!Step("adding", names).at = "adding"
        /\ RT!Step("adding", names).names = names
    BY <1>1, AddingIsAdder
  <1> HIDE DEF names
  <1>3. /\ adder'[p].at = "adding" /\ adder'[p].names = names
        /\ \A q \in Adders \ {p} : adder'[q] = adder[q]
        /\ RecorderTypes'
    BY <1>1, <1>2, AdderMoves DEF Recording, RecorderTypes
  <1>4. names \subseteq adder[p].names /\ adder[p].names \subseteq names \cup {n}
    BY DEF names
  <1>5. Announcing' /\ Found'
    <2>1. /\ adder'["discovery"].names \subseteq adder["discovery"].names
          /\ adder["discovery"].names \subseteq adder'["discovery"].names \cup {n}
      BY <1>3, <1>4 DEF Adders
    <2>2. QED
      BY <1>1, <2>1, FoundStays DEF Announcing, Recording
  <1>6. ASSUME NEW t \in RecTopics PROVE Subscribed(t)'
    <2>1. NamesOf(t)' = NamesOf(t)
      BY <1>1, <1>3, NamesStay DEF At
    <2>2. /\ NotYet(t)' => NotYet(t)
          /\ Hidden(t)' => Hidden(t)
          /\ Twice(t)' => Twice(t) /\ adder'["user"].name = adder["user"].name
      BY <1>1, <1>3, <1>4, <2>1 DEF NotYet, Hidden, Twice, At, Adders
    <2>3. QED
      BY <1>1, <2>1, <2>2, SubscribedRests DEF Recording
  <1>7. QED
    BY <1>3, <1>5, <1>6 DEF Recording

\* Find of one that is not.
LEMMA RecordingFinds ==
    ASSUME Recording, NEW p \in Adders, NEW n \in RT!Name, RT!Find(p, n), n \notin alreadySubscribed
    PROVE  Recording'
  <1> DEFINE a == [at |-> "subscribing", names |-> adder[p].names, name |-> n]
  <1>1. /\ At(p, "adding") /\ n \in adder[p].names /\ RT!Moves(p, a)
        /\ UNCHANGED <<listed, heard, alreadySubscribed, subscriptions, overlooked>>
    BY DEF RT!Find, At
  <1>2. IsAdder(a) /\ a.at = "subscribing" /\ a.names = adder[p].names /\ a.name = n
    BY <1>1, AdderShapes DEF IsAdder, Recording
  <1> HIDE DEF a
  <1>3. /\ adder'[p].at = "subscribing" /\ adder'[p].names = adder[p].names /\ adder'[p].name = n
        /\ \A q \in Adders \ {p} : adder'[q] = adder[q]
        /\ RecorderTypes'
    BY <1>1, <1>2, AdderMoves DEF Recording, RecorderTypes
  <1>4. Announcing' /\ Found'
    <2>1. adder'["discovery"].names = adder["discovery"].names
      BY <1>3 DEF Adders
    <2>2. QED
      BY <1>1, <2>1, FoundStays DEF Announcing, Recording
  <1>5. ASSUME NEW t \in RecTopics PROVE Subscribed(t)'
    <2>1. NamesOf(t)' = NamesOf(t) /\ subscriptions'[t] = subscriptions[t] /\ Subscribed(t)
      BY <1>1, <1>3, NamesStay DEF At, Recording
    <2>2. /\ NotYet(t)' => NotYet(t)
          /\ Hidden(t)' => Hidden(t)
      <3>1. CASE p = "user"
        BY <1>1, <1>3, <3>1 DEF NotYet, Hidden, At, Adders
      <3>2. CASE p = "discovery"
        BY <1>1, <1>3, <3>2 DEF NotYet, Hidden, At, Adders
      <3>3. QED
        BY <3>1, <3>2 DEF Adders
    <2>3. CASE ~ Twice(t)' \/ p = "discovery"
      <3>1. Twice(t)' => Twice(t) /\ adder'["user"].name = adder["user"].name
        BY <1>1, <1>3, <2>1, <2>3 DEF Twice, At, Adders
      <3>2. QED
        BY <2>1, <2>2, <3>1, SubscribedRests
    <2>4. CASE Twice(t)' /\ p = "user"
      <3>1. n.topic = t /\ n \in NamesOf(t)
        BY <1>3, <2>1, <2>4 DEF Twice
      <3>2. At("discovery", "inserting") /\ adder["discovery"].name = n
        BY <1>1, <2>4, <3>1 DEF NamesOf, Adders, At
      <3>3. n \in adder["discovery"].names
        BY <3>2, AdderShapes DEF Recording, At, Adders
      <3>4. n = RT!Full(t) /\ t \in heard
        BY <3>1, <3>3 DEF Announcing, Recording
      <3>5. Hidden(t) /\ ~ NotYet(t)
        BY <1>1, <2>4, <3>2, <3>4 DEF Hidden, NotYet, At
      <3>6. OneEach(t) /\ ~ NotYet(t)' /\ adder'["user"].name = RT!Full(t)
        BY <1>3, <2>1, <2>2, <2>4, <3>4, <3>5 DEF Subscribed
      <3>7. QED
        BY <2>1, <3>6 DEF Subscribed, OneEach
    <2>5. QED
      BY <2>3, <2>4 DEF Adders
  <1>6. QED
    BY <1>3, <1>4, <1>5 DEF Recording

\* SubscribeRaw: one more subscription, for a name that is about to be inserted.
LEMMA SubscribesOnce ==
    ASSUME Recording, NEW p \in Adders, RT!SubscribeRaw(p), NEW n, n = adder[p].name
    PROVE  /\ n \in adder[p].names /\ n \in RT!Name /\ At(p, "subscribing")
           /\ adder'[p].at = "inserting" /\ adder'[p].names = adder[p].names
           /\ adder'[p].name = n
           /\ \A q \in Adders \ {p} : adder'[q] = adder[q]
           /\ RecorderTypes' /\ Announcing' /\ Found'
           /\ UNCHANGED <<heard, alreadySubscribed>>
           /\ subscriptions'[n.topic] = subscriptions[n.topic] + 1
           /\ \A t \in RecTopics \ {n.topic} : /\ subscriptions'[t] = subscriptions[t]
                                                /\ NamesOf(t)' = NamesOf(t)
           /\ NamesOf(n.topic)' = NamesOf(n.topic) \cup {n}
  <1> DEFINE a == [at |-> "inserting", names |-> adder[p].names, name |-> n]
  <1>1. At(p, "subscribing") /\ UNCHANGED <<listed, heard, alreadySubscribed, overlooked>>
    BY DEF RT!SubscribeRaw, At
  <1>2. /\ n \in adder[p].names /\ adder[p].names \subseteq RT!Name
        /\ adder[p] = [at |-> "subscribing", names |-> adder[p].names, name |-> n]
    BY <1>1, AdderShapes DEF At, Recording
  <1>3. n.topic \in RecTopics
    BY <1>2 DEF RT!Name
  <1>4. [adder[p] EXCEPT !.at = "inserting"] = a
    BY <1>2
  <1>5. RT!Moves(p, a)
    BY <1>4 DEF RT!SubscribeRaw
  <1>6. IsAdder(a) /\ a.at = "inserting" /\ a.names = adder[p].names /\ a.name = n
    BY <1>2 DEF IsAdder
  <1> HIDE DEF a
  <1>7. subscriptions' = [subscriptions EXCEPT ![n.topic] = @ + 1]
    BY DEF RT!SubscribeRaw
  <1>8. /\ subscriptions' \in [RecTopics -> Nat]
        /\ subscriptions'[n.topic] = subscriptions[n.topic] + 1
        /\ \A t \in RecTopics \ {n.topic} : subscriptions'[t] = subscriptions[t]
    BY <1>3, <1>7 DEF Recording, RecorderTypes
  <1>9. /\ adder'[p].at = "inserting" /\ adder'[p].names = adder[p].names /\ adder'[p].name = n
        /\ \A q \in Adders \ {p} : adder'[q] = adder[q]
        /\ RecorderTypes'
    BY <1>1, <1>5, <1>6, <1>8, AdderMoves DEF Recording, RecorderTypes
  <1>10. Announcing' /\ Found'
    <2>1. adder'["discovery"].names = adder["discovery"].names
      BY <1>9 DEF Adders
    <2>2. QED
      BY <1>1, <2>1, FoundStays DEF Announcing, Recording
  <1>11. ASSUME NEW t
         PROVE  NamesOf(t)' = IF t = n.topic THEN NamesOf(t) \cup {n} ELSE NamesOf(t)
    BY <1>1, <1>2, <1>9 DEF NamesOf, At
  <1>12. QED
    BY <1>1, <1>2, <1>8, <1>9, <1>10, <1>11

\* The count of the names of a topic after one more, and after one that is there.
LEMMA OneMoreName ==
    ASSUME RecorderTypes, NEW t, NEW n, NamesOf(t)' = NamesOf(t) \cup {n}
    PROVE  /\ NamesOf(t)' # {}
           /\ n \in NamesOf(t) => NamesOf(t)' = NamesOf(t)
           /\ n \notin NamesOf(t) => Cardinality(NamesOf(t)') = Cardinality(NamesOf(t)) + 1
  <1>1. IsFiniteSet(NamesOf(t))
    BY NamesAreFinite
  <1>2. QED
    BY <1>1, FS_AddElement

\* What is left to show of a topic that has been subscribed to.
LEMMA SubscribedAgain ==
    ASSUME NEW t, NamesOf(t)' # {}, Cardinality(NamesOf(t)') <= subscriptions'[t],
           subscriptions'[t] <= Cardinality(NamesOf(t)') + 1,
           NotYet(t)' \/ Twice(t)' \/ Hidden(t)' => subscriptions'[t] <= Cardinality(NamesOf(t)'),
           Twice(t)' => adder'["user"].name = RT!Full(t) /\ ~ NotYet(t)'
    PROVE  Subscribed(t)'
  BY DEF Subscribed, OneEach

LEMMA RecordingUserSubscribes ==
    ASSUME Recording, RT!SubscribeRaw("user"), NEW n, n = adder["user"].name,
           NEW u, u = n.topic
    PROVE  Recording'
  <1>1. /\ n \in RT!Name /\ At("user", "subscribing")
        /\ adder'["user"].at = "inserting" /\ adder'["user"].name = n
        /\ adder'["discovery"] = adder["discovery"]
        /\ RecorderTypes' /\ Announcing' /\ Found'
        /\ UNCHANGED <<heard, alreadySubscribed>>
        /\ subscriptions'[u] = subscriptions[u] + 1
        /\ \A t \in RecTopics \ {u} : subscriptions'[t] = subscriptions[t] /\ NamesOf(t)' = NamesOf(t)
        /\ NamesOf(u)' = NamesOf(u) \cup {n}
    BY SubscribesOnce DEF Adders
  <1>2. u \in RecTopics
    BY <1>1 DEF RT!Name
  <1>3. \A t : /\ NotYet(t)' => NotYet(t)
               /\ Hidden(t)' => Hidden(t)
               /\ ~ Twice(t)'
    BY <1>1 DEF NotYet, Hidden, Twice, At
  <1>4. ASSUME NEW t \in RecTopics \ {u} PROVE Subscribed(t)'
    BY <1>1, <1>3, SubscribedRests DEF Recording
  <1>5. Subscribed(u) /\ subscriptions[u] \in Nat /\ Cardinality(NamesOf(u)) \in Nat
    BY <1>2, NamesAreFinite DEF Recording, RecorderTypes
  <1>6. ASSUME n \notin NamesOf(u) PROVE Subscribed(u)'
    <2>1. Cardinality(NamesOf(u)') = Cardinality(NamesOf(u)) + 1 /\ NamesOf(u)' # {}
      BY <1>1, <1>6, OneMoreName DEF Recording
    <2>2. Hidden(u)' => subscriptions[u] <= Cardinality(NamesOf(u))
      BY <1>3, <1>5 DEF Subscribed, OneEach
    <2>3. NotYet(u)' => subscriptions[u] <= Cardinality(NamesOf(u))
      BY <1>3, <1>5 DEF Subscribed, OneEach
    <2>4. /\ Cardinality(NamesOf(u)') <= subscriptions'[u]
          /\ subscriptions'[u] <= Cardinality(NamesOf(u)') + 1
      BY <1>1, <1>5, <2>1 DEF Subscribed
    <2>5. NotYet(u)' \/ Twice(u)' \/ Hidden(u)' => subscriptions'[u] <= Cardinality(NamesOf(u)')
      BY <1>1, <1>3, <1>5, <2>1, <2>2, <2>3
    <2>6. QED
      BY <1>3, <2>1, <2>4, <2>5, SubscribedAgain
  <1>7. ASSUME n \in NamesOf(u) PROVE Subscribed(u)'
    <2>1. /\ NamesOf(u)' = NamesOf(u) /\ NamesOf(u)' # {}
          /\ Cardinality(NamesOf(u)') = Cardinality(NamesOf(u))
      BY <1>1, <1>7
    <2>2. Twice(u)
      BY <1>1, <1>7 DEF Twice
    <2>3. n = RT!Full(u) /\ ~ NotYet(u) /\ OneEach(u)
      BY <1>5, <2>2 DEF Subscribed
    <2>4. ~ Hidden(u)'
      BY <1>1, <2>3 DEF Hidden, At
    <2>5. /\ Cardinality(NamesOf(u)') <= subscriptions'[u]
          /\ subscriptions'[u] <= Cardinality(NamesOf(u)') + 1
      <3>1. Cardinality(NamesOf(u)) <= subscriptions[u] /\ subscriptions[u] <= Cardinality(NamesOf(u))
        BY <1>5, <2>3 DEF Subscribed, OneEach
      <3>2. subscriptions'[u] = subscriptions[u] + 1
        BY <1>1
      <3>3. QED
        BY <1>5, <2>1, <3>1, <3>2
    <2>6. QED
      BY <1>3, <2>1, <2>3, <2>4, <2>5, SubscribedAgain
  <1>8. QED
    BY <1>1, <1>4, <1>6, <1>7 DEF Recording

LEMMA RecordingDiscoverySubscribes ==
    ASSUME Recording, RT!SubscribeRaw("discovery"), NEW n, n = adder["discovery"].name,
           NEW u, u = n.topic
    PROVE  Recording'
  <1>1. /\ n \in adder["discovery"].names /\ n \in RT!Name /\ At("discovery", "subscribing")
        /\ adder'["discovery"].at = "inserting" /\ adder'["discovery"].name = n
        /\ adder'["user"] = adder["user"]
        /\ RecorderTypes' /\ Announcing' /\ Found'
        /\ UNCHANGED <<heard, alreadySubscribed>>
        /\ subscriptions'[u] = subscriptions[u] + 1
        /\ \A t \in RecTopics \ {u} : subscriptions'[t] = subscriptions[t] /\ NamesOf(t)' = NamesOf(t)
        /\ NamesOf(u)' = NamesOf(u) \cup {n}
    BY SubscribesOnce DEF Adders
  <1>2. u \in RecTopics
    BY <1>1 DEF RT!Name
  <1>3. n = RT!Full(u) /\ u \in heard
    BY <1>1 DEF Announcing, Recording
  <1>4. NotYet(u) /\ ~ NotYet(u)'
    BY <1>1, <1>3 DEF NotYet, At
  <1>5. ASSUME NEW t \in RecTopics \ {u} PROVE Subscribed(t)'
    <2>1. RT!Full(t) # n
      BY <1>3, <1>5, NamesOfRecorder
    <2>2. /\ NotYet(t)' => NotYet(t)
          /\ ~ Hidden(t)'
          /\ Twice(t)' => Twice(t)
      BY <1>1, <1>5, <2>1 DEF NotYet, Hidden, Twice, At
    <2>3. QED
      BY <1>1, <2>2, SubscribedRests DEF Recording
  <1>6. /\ Subscribed(u) /\ subscriptions[u] \in Nat /\ Cardinality(NamesOf(u)) \in Nat
    BY <1>2, NamesAreFinite DEF Recording, RecorderTypes
  <1>7. OneEach(u) /\ ~ Twice(u)
    BY <1>4, <1>6 DEF Subscribed
  <1>8. ASSUME n \notin NamesOf(u) PROVE Subscribed(u)'
    <2>1. Cardinality(NamesOf(u)') = Cardinality(NamesOf(u)) + 1 /\ NamesOf(u)' # {}
      BY <1>1, <1>8, OneMoreName DEF Recording
    <2>2. adder'["user"].name \in NamesOf(u) => ~ Twice(u)'
      BY <1>1, <1>7 DEF Twice, At
    <2>3. Twice(u)' => adder'["user"].name = RT!Full(u)
      BY <1>1, <1>3, <2>2 DEF Twice
    <2>4. /\ Cardinality(NamesOf(u)') <= subscriptions'[u]
          /\ subscriptions'[u] <= Cardinality(NamesOf(u)')
          /\ subscriptions'[u] <= Cardinality(NamesOf(u)') + 1
      BY <1>1, <1>6, <1>7, <2>1 DEF OneEach, Subscribed
    <2>5. QED
      BY <1>4, <2>1, <2>3, <2>4, SubscribedAgain
  <1>9. ASSUME n \in NamesOf(u) PROVE Subscribed(u)'
    <2>1. /\ NamesOf(u)' = NamesOf(u) /\ NamesOf(u)' # {}
          /\ Cardinality(NamesOf(u)') = Cardinality(NamesOf(u))
      BY <1>1, <1>9
    <2>2. ~ Twice(u)'
      BY <1>1, <1>7, <2>1 DEF Twice, At
    <2>3. ~ Hidden(u)'
      <3>1. n \in alreadySubscribed \/ (At("user", "inserting") /\ adder["user"].name = n)
        BY <1>1, <1>9 DEF NamesOf, At, Adders
      <3>2. QED
        BY <1>1, <1>3, <3>1 DEF Hidden, At
    <2>4. /\ Cardinality(NamesOf(u)') <= subscriptions'[u]
          /\ subscriptions'[u] <= Cardinality(NamesOf(u)') + 1
      <3>1. Cardinality(NamesOf(u)) <= subscriptions[u] /\ subscriptions[u] <= Cardinality(NamesOf(u))
        BY <1>6, <1>7 DEF Subscribed, OneEach
      <3>2. subscriptions'[u] = subscriptions[u] + 1
        BY <1>1
      <3>3. QED
        BY <1>6, <2>1, <3>1, <3>2
    <2>5. QED
      BY <1>4, <2>1, <2>2, <2>3, <2>4, SubscribedAgain
  <1>10. QED
    BY <1>1, <1>5, <1>8, <1>9 DEF Recording

LEMMA RecordingInserts ==
    ASSUME Recording, NEW p \in Adders, RT!Insert(p), NEW n, n = adder[p].name
    PROVE  Recording'
  <1> DEFINE names == adder[p].names \ {n}
  <1>1. /\ At(p, "inserting") /\ n \in adder[p].names /\ names \in SUBSET RT!Name
        /\ RT!Moves(p, RT!Step("adding", names)) /\ n \in RT!Name
        /\ alreadySubscribed' = alreadySubscribed \cup {n}
        /\ UNCHANGED <<listed, heard, subscriptions, overlooked>>
    BY AdderShapes DEF RT!Insert, At, Recording
  <1>2. IsAdder(RT!Step("adding", names)) /\ RT!Step("adding", names).at = "adding"
        /\ RT!Step("adding", names).names = names
    BY <1>1, AddingIsAdder
  <1>3. names \subseteq adder[p].names /\ adder[p].names \subseteq names \cup {n} /\ n \notin names
    OBVIOUS
  <1> HIDE DEF names
  <1>4. /\ adder'[p].at = "adding" /\ adder'[p].names = names
        /\ \A q \in Adders \ {p} : adder'[q] = adder[q]
        /\ RecorderTypes'
    BY <1>1, <1>2, AdderMoves DEF Recording, RecorderTypes
  <1>5. Announcing' /\ Found'
    <2>1. /\ adder'["discovery"].names \subseteq adder["discovery"].names
          /\ adder["discovery"].names \subseteq adder'["discovery"].names \cup {n}
      BY <1>3, <1>4 DEF Adders
    <2>2. QED
      BY <1>1, <2>1, FoundStays DEF Announcing, Recording
  <1>6. ASSUME NEW t \in RecTopics PROVE Subscribed(t)'
    <2>1. NamesOf(t)' = NamesOf(t)
      <3>1. \A m : m \in NamesOf(t)' => m \in NamesOf(t)
        BY <1>1, <1>4 DEF NamesOf, At
      <3>2. \A m : m \in NamesOf(t) => m \in NamesOf(t)'
        BY <1>1, <1>4 DEF NamesOf, At
      <3>3. QED
        BY <3>1, <3>2
    <2>2. NotYet(t)' => NotYet(t)
      <3>1. CASE p = "user"
        BY <1>1, <1>4, <3>1 DEF NotYet, At, Adders
      <3>2. CASE p = "discovery"
        <4>1. names = {}
          BY <1>1, <1>3, <3>2 DEF Announcing, Recording
        <4>2. QED
          BY <1>1, <1>4, <3>2, <4>1 DEF NotYet, At
      <3>3. QED
        BY <3>1, <3>2 DEF Adders
    <2>3. Hidden(t)' => Hidden(t)
      BY <1>1, <1>4 DEF Hidden, At, Adders
    <2>4. Twice(t)' => Twice(t) /\ adder'["user"].name = adder["user"].name
      BY <1>1, <1>4, <2>1 DEF Twice, At, Adders
    <2>5. QED
      BY <1>1, <2>1, <2>2, <2>3, <2>4, SubscribedRests DEF Recording
  <1>7. QED
    BY <1>4, <1>5, <1>6 DEF Recording

\* The user begins or ends a call.
LEMMA RecordingUserMoves ==
    ASSUME Recording, NEW at \in {"rest", "adding"}, NEW names \in SUBSET RT!Name,
           RT!Moves("user", RT!Step(at, names)), ~ At("user", "inserting"),
           UNCHANGED <<listed, heard, alreadySubscribed, subscriptions, overlooked>>
    PROVE  Recording'
  <1>1. /\ adder'["user"].at = at /\ adder'["discovery"] = adder["discovery"]
        /\ \A q \in Adders \ {"user"} : adder'[q] = adder[q]
        /\ RecorderTypes'
    BY AddingIsAdder, AdderMoves DEF Recording, RecorderTypes, Adders
  <1>2. Announcing' /\ Found'
    BY <1>1, FoundStays DEF Announcing, Recording
  <1>3. ASSUME NEW t \in RecTopics PROVE Subscribed(t)'
    <2>1. NamesOf(t)' = NamesOf(t)
      BY <1>1, NamesStay DEF At, Adders
    <2>2. /\ NotYet(t)' => NotYet(t)
          /\ Hidden(t)' => Hidden(t)
          /\ ~ Twice(t)'
      BY <1>1 DEF NotYet, Hidden, Twice, At
    <2>3. QED
      BY <2>1, <2>2, SubscribedRests DEF Recording
  <1>4. QED
    BY <1>1, <1>2, <1>3 DEF Recording

LEMMA RecordingUser ==
    ASSUME Recording,
           \/ \E n \in RT!Name : RT!AddTopic(n)
           \/ \E regex \in Regexes : RT!AddPattern(regex)
           \/ RT!FinishUser
    PROVE  Recording'
  <1>1. RT!Rest.at = "rest" /\ RT!Step("adding", {}).at = "adding" /\ RT!Rest = RT!Step("rest", {})
    BY DEF RT!Rest, RT!Step
  <1>2. ASSUME NEW n \in RT!Name, RT!AddTopic(n) PROVE Recording'
    BY <1>1, <1>2, RecordingUserMoves DEF RT!AddTopic, At
  <1>3. ASSUME NEW regex, RT!AddPattern(regex) PROVE Recording'
    <2>1. {RT!Full(t) : t \in {t \in listed \cap regex : Partition[t]}} \in SUBSET RT!Name
      BY NamesOfRecorder DEF Recording, RecorderTypes
    <2>2. QED
      BY <1>1, <1>3, <2>1, RecordingUserMoves DEF RT!AddPattern, At
  <1>4. CASE RT!FinishUser
    BY <1>1, <1>4, RecordingUserMoves DEF RT!FinishUser, At
  <1>5. QED
    BY <1>2, <1>3, <1>4

\* The reception thread begins or ends an advertisement.
LEMMA RecordingDiscoveryMoves ==
    ASSUME Recording, NEW at \in {"rest", "adding"}, NEW names \in SUBSET RT!Name,
           adder'["discovery"] = [at |-> at, names |-> names],
           adder'["user"] = adder["user"], RecorderTypes', Announcing', Found',
           ~ At("discovery", "inserting"),
           UNCHANGED <<alreadySubscribed, subscriptions>>,
           \A t \in RecTopics : NotYet(t)' => NotYet(t)
    PROVE  Recording'
  <1>1. \A q \in Adders \ {"discovery"} : adder'[q] = adder[q]
    BY DEF Adders
  <1>2. adder'["discovery"].at # "inserting"
    OBVIOUS
  <1>3. ASSUME NEW t \in RecTopics PROVE Subscribed(t)'
    <2>1. NamesOf(t)' = NamesOf(t)
      BY <1>1, <1>2, NamesStay DEF At, Adders
    <2>2. /\ ~ Hidden(t)'
          /\ Twice(t)' => Twice(t)
      BY <1>2, <2>1 DEF Hidden, Twice, At
    <2>3. QED
      BY <2>1, <2>2, SubscribedRests DEF Recording
  <1>4. QED
    BY <1>3 DEF Recording

LEMMA RecordingFinishes ==
    ASSUME Recording, RT!FinishDiscovery
    PROVE  Recording'
  <1>1. /\ adder["discovery"] = [at |-> "adding", names |-> {}]
        /\ RT!Moves("discovery", RT!Step("rest", {}))
        /\ UNCHANGED <<listed, heard, alreadySubscribed, subscriptions, overlooked>>
    BY DEF RT!FinishDiscovery, RT!Step, RT!Rest
  <1>2. IsAdder(RT!Step("rest", {})) /\ {} \in SUBSET RT!Name
    BY AddingIsAdder
  <1>3. /\ adder'["discovery"] = [at |-> "rest", names |-> {}] /\ adder'["user"] = adder["user"]
        /\ RecorderTypes'
    BY <1>1, <1>2, AdderMoves DEF Recording, RecorderTypes, Adders, RT!Step
  <1>4. Announcing' /\ Found'
    BY <1>1, <1>3, FoundStays DEF Announcing, Recording
  <1>5. \A t : NotYet(t)' => NotYet(t)
    BY <1>1, <1>3 DEF NotYet, At
  <1>6. QED
    BY <1>1, <1>2, <1>3, <1>4, <1>5, RecordingDiscoveryMoves DEF At

LEMMA RecordingHears ==
    ASSUME Recording, NEW u \in RecTopics, RT!OnAdvertisement(u)
    PROVE  Recording'
  <1>1. /\ adder["discovery"] = [at |-> "rest", names |-> {}] /\ u \notin heard
        /\ heard' = heard \cup {u}
        /\ UNCHANGED <<listed, alreadySubscribed, subscriptions>>
        /\ overlooked \subseteq overlooked'
    BY DEF RT!OnAdvertisement, RT!Rest, RT!Step
  <1>2. RT!Full(u) \in RT!Name
    BY NamesOfRecorder
  <1>3. PICK at \in {"rest", "adding"}, names \in SUBSET {RT!Full(u)} :
            /\ adder'["discovery"] = [at |-> at, names |-> names]
            /\ adder'["user"] = adder["user"]
            /\ RecorderTypes'
            /\ Partition[u] /\ u \notin overlooked' => RT!Full(u) \in alreadySubscribed \cup names
    <2>1. RecorderTypes' \/ adder' # adder
      BY <1>1 DEF Recording, RecorderTypes
    <2>2. CASE UNCHANGED adder /\ (Partition[u] => RT!Full(u) \in alreadySubscribed \/ ~ RT!Matches(u))
      <3>1. Partition[u] /\ u \notin overlooked' => RT!Full(u) \in alreadySubscribed
        BY <2>2 DEF RT!OnAdvertisement, RT!Matches
      <3>2. {} \in SUBSET {RT!Full(u)}
        OBVIOUS
      <3>3. QED
        BY <1>1, <2>1, <2>2, <3>1, <3>2
    <2>3. CASE RT!Moves("discovery", RT!Step("adding", {RT!Full(u)}))
      <3>1. IsAdder(RT!Step("adding", {RT!Full(u)}))
        BY <1>2, AddingIsAdder
      <3>2. /\ adder'["discovery"] = [at |-> "adding", names |-> {RT!Full(u)}]
            /\ adder'["user"] = adder["user"]
            /\ RecorderTypes'
        BY <1>1, <2>3, <3>1, AdderMoves DEF Recording, RecorderTypes, Adders, RT!Step
      <3>3. QED
        BY <3>2
    <2>4. QED
      BY <2>2, <2>3 DEF RT!OnAdvertisement
  <1>4. Announcing'
    BY <1>1, <1>3, NamesOfRecorder DEF Announcing, Recording
  <1>5. Found'
    BY <1>1, <1>3 DEF Found, Recording
  <1>6. \A t \in RecTopics : NotYet(t)' => NotYet(t)
    BY <1>1, <1>3, NamesOfRecorder DEF NotYet, At
  <1>7. names \in SUBSET RT!Name
    BY <1>2
  <1>8. QED
    BY <1>1, <1>3, <1>4, <1>5, <1>6, <1>7, RecordingDiscoveryMoves DEF At

LEMMA RecordingNext == ASSUME Recording, RT!Next \/ UNCHANGED recorderVars PROVE Recording'
  <1>1. ASSUME UNCHANGED <<heard, alreadySubscribed, subscriptions, adder, overlooked>>,
               listed' \subseteq RecTopics
        PROVE  Recording'
    <2>1. RecorderTypes' /\ Announcing' /\ Found'
      BY <1>1 DEF Recording, RecorderTypes, Announcing, Found
    <2>2. ASSUME NEW t \in RecTopics PROVE Subscribed(t)'
      BY <1>1 DEF Recording, Subscribed, OneEach, NamesOf, NotYet, Twice, Hidden, At
    <2>3. QED
      BY <2>1, <2>2 DEF Recording
  <1>2. ASSUME NEW t \in RecTopics, RT!ListTopic(t) PROVE Recording'
    BY <1>1, <1>2 DEF RT!ListTopic, Recording, RecorderTypes
  <1>3. CASE UNCHANGED recorderVars
    BY <1>1, <1>3 DEF recorderVars, Recording, RecorderTypes
  <1>4. ASSUME NEW p \in Adders, NEW n \in RT!Name, RT!Find(p, n) PROVE Recording'
    BY <1>4, RecordingSkips, RecordingFinds
  <1>5. ASSUME NEW p \in Adders, RT!SubscribeRaw(p) PROVE Recording'
    BY <1>5, RecordingUserSubscribes, RecordingDiscoverySubscribes DEF Adders
  <1>6. ASSUME NEW p \in Adders, RT!Insert(p) PROVE Recording'
    BY <1>6, RecordingInserts
  <1>7. QED
    BY <1>2, <1>3, <1>4, <1>5, <1>6, RecordingUser, RecordingHears, RecordingFinishes
       DEF RT!Next, Adders

LEMMA RecordingSuffices == Recording => RT!MatchingIsRecorded
  <1> SUFFICES ASSUME Recording, RT!AtRest
               PROVE  /\ \A t \in heard \ overlooked :
                            Partition[t] => RT!Full(t) \in alreadySubscribed
                      /\ \A t \in RecTopics :
                            LET names == {n \in alreadySubscribed : n.topic = t}
                            IN  /\ subscriptions[t] >= Cardinality(names)
                                /\ subscriptions[t] <= Cardinality(names) + 1
                                /\ names = {} => subscriptions[t] = 0
    BY DEF RT!MatchingIsRecorded, RT!Cardinality, Cardinality
  <1>1. \A p \in Adders : adder[p] = [at |-> "rest", names |-> {}]
    BY DEF RT!AtRest, RT!Rest, RT!Step, Adders
  <1>2. \A p \in Adders : adder[p].at = "rest" /\ adder[p].names = {}
    BY <1>1
  <1>3. ASSUME NEW t \in RecTopics
        PROVE  /\ NamesOf(t) = {n \in alreadySubscribed : n.topic = t}
               /\ subscriptions[t] \in Nat /\ Cardinality(NamesOf(t)) \in Nat /\ Subscribed(t)
    BY <1>2, NamesAreFinite DEF NamesOf, At, Recording, RecorderTypes
  <1>4. ASSUME NEW t \in RecTopics
        PROVE  LET names == {n \in alreadySubscribed : n.topic = t}
               IN  /\ subscriptions[t] >= Cardinality(names)
                   /\ subscriptions[t] <= Cardinality(names) + 1
                   /\ names = {} => subscriptions[t] = 0
    BY <1>3 DEF Subscribed
  <1>5. \A t \in heard \ overlooked : Partition[t] => RT!Full(t) \in alreadySubscribed
    BY <1>2 DEF Recording, Found, Adders
  <1>6. QED
    BY <1>4, <1>5

\* What matches a pattern that was kept before it was announced is recorded when
\* the recorder's threads are at rest, for any topics, patterns and calls though
\* nothing is locked; a topic is subscribed once for each name, and once more at most.
THEOREM TopicsAreRecorded == PartsSpec => []MatchingIsRecorded
  <1> DEFINE I == part = "recorder" => Recording
  <1>1. PartsInit => I
    BY RecordingInit DEF PartsInit
  <1>2. I /\ [PartsNext]_AllVars => I'
    BY PartStays, RecordingNext DEF PartsNext, AllVars
  <1>3. I => MatchingIsRecorded
    BY RecordingSuffices DEF MatchingIsRecorded
  <1>4. QED
    BY <1>1, <1>2, <1>3, PTL DEF PartsSpec

-----------------------------------------------------------------------------
(* What the factory lists.                                                 *)

\* A set of numbers that is not empty has a least one.
LEMMA LeastNumber ==
    ASSUME NEW S \in SUBSET Nat, S # {}
    PROVE  \E n \in S : \A m \in S : n <= m
  <1> DEFINE T == { 0..n : n \in S }
             R == StrictSubsetOrdering(Nat)
  <1>1. IsWellFoundedOn(R, FiniteSubsetsOf(Nat))
    BY FS_StrictSubsetOrderingWellFounded
  <1>2. T \subseteq FiniteSubsetsOf(Nat) /\ T # {}
    <2>1. \A n \in S : IsFiniteSet(0..n) /\ 0..n \subseteq Nat
      BY FS_Interval
    <2>2. QED
      BY <2>1 DEF FiniteSubsetsOf
  <1>3. PICK I \in T : \A J \in T : <<J, I>> \notin R
    <2> HIDE DEF R, T
    <2> QED
      BY <1>1, <1>2, WFMin
  <1>4. PICK n \in S : I = 0..n
    OBVIOUS
  <1>5. ASSUME NEW m \in S, m < n PROVE FALSE
    <2>1. 0..m \in T /\ 0..m \subseteq 0..n /\ n \in 0..n /\ n \notin 0..m
      BY <1>5
    <2>2. 0..m # 0..n
      BY <2>1
    <2>3. 0..m \in SUBSET Nat /\ 0..n \in SUBSET Nat
      OBVIOUS
    <2>4. <<0..m, 0..n>> \in R
      BY <2>1, <2>2, <2>3 DEF StrictSubsetOrdering
    <2>5. QED
      BY <1>3, <1>4, <2>1, <2>4
  <1>6. QED
    BY <1>5

LEMMA UpTo ==
    ASSUME NEW n \in Nat, NEW S, 0 \in S,
           \A k \in 1..n : k - 1 \in S => k \in S
    PROVE  0..n \subseteq S
  <1> DEFINE Out == { k \in 0..n : k \notin S }
  <1>1. SUFFICES ASSUME Out # {} PROVE FALSE
    OBVIOUS
  <1>2. PICK k \in Out : \A m \in Out : k <= m
    <2>1. Out \in SUBSET Nat
      OBVIOUS
    <2> HIDE DEF Out
    <2>2. QED
      BY <1>1, <2>1, LeastNumber
  <1>3. k \in 1..n /\ k - 1 \in 0..n
    OBVIOUS
  <1>4. k - 1 \in S
    BY <1>2, <1>3
  <1>5. QED
    BY <1>3, <1>4

\* Pool and names agree, no type is in two descriptor files, and what they import
\* is there; old is what the pool had before.
SoundFactory(f, old) ==
    /\ f.db = f.pool /\ old \subseteq f.pool
    /\ \A p \in f.pool : p.imports \subseteq { q.name : q \in f.pool }
    /\ \A p, q \in f.pool : p # q => p.types \cap q.types = {}

Making ==
    /\ SoundFactory([pool |-> pool, db |-> db], pool)
    /\ \A type \in DOMAIN dynamicMsgMap : dynamicMsgMap[type] \in FA!Origins(type)

LEMMA AddIsSound ==
    ASSUME NEW f, NEW old, SoundFactory(f, old), NEW proto
    PROVE  SoundFactory(FA!Add(f, proto), old)
  <1>1. CASE ~ FA!Builds(f.pool, proto)
    BY <1>1 DEF FA!Add
  <1>2. CASE proto \in f.pool
    BY <1>2 DEF FA!Add, SoundFactory
  <1>3. CASE FA!Builds(f.pool, proto) /\ proto \notin f.pool
    <2> DEFINE g == FA!Add(f, proto)
    <2>1. g.pool = f.pool \cup {proto} /\ g.db = f.pool \cup {proto}
      BY <1>3 DEF FA!Add, SoundFactory
    <2>2. /\ \A p \in f.pool : p.types \cap proto.types = {}
          /\ proto.imports \subseteq { p.name : p \in f.pool }
      BY <1>3 DEF FA!Builds
    <2> HIDE DEF g
    <2>3. { p.name : p \in f.pool } \subseteq { p.name : p \in g.pool }
      BY <2>1
    <2>4. \A p \in g.pool : p.imports \subseteq { q.name : q \in g.pool }
      BY <2>1, <2>2, <2>3 DEF SoundFactory
    <2>5. \A p, q \in g.pool : p # q => p.types \cap q.types = {}
      BY <2>1, <2>2 DEF SoundFactory
    <2>6. SoundFactory(g, old)
      BY <2>1, <2>4, <2>5 DEF SoundFactory
    <2>7. QED
      BY <2>6 DEF g
  <1>4. QED
    BY <1>1, <1>2, <1>3

\* A file, descriptor by descriptor.
LEMMA FileIsSound ==
    ASSUME NEW f, NEW old, SoundFactory(f, old), NEW file, Len(file.protos) \in Nat
    PROVE  SoundFactory(FA!LoadDescFile(f, file), old)
  <1> DEFINE n == Len(file.protos)
             Step(g, k) ==
                 /\ g = [i \in 0..k |-> g[i]] /\ g[0] = f
                 /\ \A i \in 1..k : g[i] = FA!Add(g[i - 1], file.protos[i])
             Rec(g) == g = [i \in 0..n |-> IF i = 0 THEN f
                                           ELSE FA!Add(g[i - 1], file.protos[i])]
             chosen == CHOOSE g : Rec(g)
             Some == { k \in 0..n : \E g : Step(g, k) }
             Sound == { k \in 0..n : SoundFactory(chosen[k], old) }
  <1>1. n \in Nat
    OBVIOUS
  <1> HIDE DEF n
  <1>2. 0 \in Some
    <2>1. Step([i \in 0..0 |-> f], 0)
      OBVIOUS
    <2> HIDE DEF Step
    <2>2. \E g : Step(g, 0)
      BY <2>1
    <2>3. QED
      BY <1>1, <2>2
  <1>3. ASSUME NEW k \in 1..n, k - 1 \in Some PROVE k \in Some
    <2>1. PICK g : Step(g, k - 1)
      BY <1>3
    <2> DEFINE h == [i \in 0..k |-> IF i = k THEN FA!Add(g[k - 1], file.protos[k]) ELSE g[i]]
    <2>2. h = [i \in 0..k |-> h[i]] /\ h[0] = f
      BY <1>1, <2>1
    <2>3. ASSUME NEW i \in 1..k PROVE h[i] = FA!Add(h[i - 1], file.protos[i])
      <3>1. CASE i = k
        BY <1>1, <3>1
      <3>2. CASE i # k
        <4>1. i \in 1..(k - 1) /\ i - 1 \in 0..k /\ i - 1 # k
          BY <1>1, <3>2
        <4>2. h[i] = g[i] /\ h[i - 1] = g[i - 1]
          BY <1>1, <3>2, <4>1
        <4>3. QED
          BY <2>1, <4>1, <4>2
      <3>3. QED
        BY <3>1, <3>2
    <2> HIDE DEF h
    <2>4. Step(h, k)
      BY <2>2, <2>3
    <2> HIDE DEF Step
    <2>5. \E e : Step(e, k)
      BY <2>4
    <2>6. QED
      BY <1>1, <2>5
  <1>4. n \in Some
    <2>1. 0..n \subseteq Some
      <3> HIDE DEF Some
      <3>1. QED
        BY <1>1, <1>2, <1>3, UpTo
    <2>2. QED
      BY <1>1, <2>1
  <1>5. PICK g : Step(g, n)
    <2> HIDE DEF Step
    <2>1. QED
      BY <1>4
  <1>6. Rec(g)
    <2> DEFINE h == [i \in 0..n |-> IF i = 0 THEN f ELSE FA!Add(g[i - 1], file.protos[i])]
    <2>1. g = [i \in 0..n |-> g[i]] /\ g[0] = f
      BY <1>5
    <2>2. \A i \in 1..n : g[i] = FA!Add(g[i - 1], file.protos[i])
      BY <1>5
    <2>3. ASSUME NEW i \in 0..n PROVE g[i] = h[i]
      <3>1. h[i] = IF i = 0 THEN f ELSE FA!Add(g[i - 1], file.protos[i])
        OBVIOUS
      <3>2. i = 0 \/ i \in 1..n
        BY <1>1
      <3> HIDE DEF h
      <3>3. CASE i = 0
        BY <2>1, <3>1, <3>3
      <3>4. CASE i \in 1..n
        <4>1. i # 0
          BY <3>4
        <4>2. g[i] = FA!Add(g[i - 1], file.protos[i])
          BY <2>2, <3>4
        <4>3. QED
          BY <3>1, <4>1, <4>2
      <3>5. QED
        BY <3>2, <3>3, <3>4
    <2>4. h = [i \in 0..n |-> h[i]]
      OBVIOUS
    <2> HIDE DEF h
    <2>5. g = h
      BY <2>1, <2>3, <2>4
    <2>6. QED
      BY <2>5 DEF h
  <1>7. Rec(chosen)
    BY <1>6
  <1> HIDE DEF chosen
  <1>8. chosen[0] = f /\ \A k \in 1..n : chosen[k] = FA!Add(chosen[k - 1], file.protos[k])
    BY <1>1, <1>7
  <1>9. 0 \in Sound
    BY <1>1, <1>8
  <1>10. \A k \in 1..n : k - 1 \in Sound => k \in Sound
    BY <1>1, <1>8, AddIsSound
  <1>11. n \in Sound
    <2>1. 0..n \subseteq Sound
      <3> HIDE DEF Sound
      <3>1. QED
        BY <1>1, <1>9, <1>10, UpTo
    <2>2. QED
      BY <1>1, <2>1
  <1>12. FA!LoadDescFile(f, file) = IF file.readable THEN chosen[n] ELSE f
    BY DEF FA!LoadDescFile, chosen, n
  <1>13. QED
    BY <1>11, <1>12

\* A directory, file by file: what FileIsSound says of a file, again.
LEMMA FilesAreSound ==
    ASSUME NEW files, Len(files) \in Nat, NEW old, NEW f, f = [pool |-> pool, db |-> db],
           SoundFactory(f, old),
           \A k \in 1..Len(files) : Len(files[k].protos) \in Nat, FA!LoadDescriptors(files)
    PROVE  SoundFactory([pool |-> pool', db |-> db'], old)
  <1> DEFINE n == Len(files)
             Step(g, k) ==
                 /\ g = [i \in 0..k |-> g[i]] /\ g[0] = f
                 /\ \A i \in 1..k : g[i] = FA!LoadDescFile(g[i - 1], files[i])
             Rec(g) == g = [i \in 0..n |-> IF i = 0 THEN f
                                           ELSE FA!LoadDescFile(g[i - 1], files[i])]
             chosen == CHOOSE g : Rec(g)
             Some == { k \in 0..n : \E g : Step(g, k) }
             Sound == { k \in 0..n : SoundFactory(chosen[k], old) }
  <1>0. \A k \in 1..n : Len(files[k].protos) \in Nat
    OBVIOUS
  <1>1. n \in Nat
    OBVIOUS
  <1> HIDE DEF n
  <1>2. 0 \in Some
    <2>1. Step([i \in 0..0 |-> f], 0)
      OBVIOUS
    <2> HIDE DEF Step
    <2>2. \E g : Step(g, 0)
      BY <2>1
    <2>3. QED
      BY <1>1, <2>2
  <1>3. ASSUME NEW k \in 1..n, k - 1 \in Some PROVE k \in Some
    <2>1. PICK g : Step(g, k - 1)
      BY <1>3
    <2> DEFINE h == [i \in 0..k |-> IF i = k THEN FA!LoadDescFile(g[k - 1], files[k]) ELSE g[i]]
    <2>2. h = [i \in 0..k |-> h[i]] /\ h[0] = f
      BY <1>1, <2>1
    <2>3. ASSUME NEW i \in 1..k PROVE h[i] = FA!LoadDescFile(h[i - 1], files[i])
      <3>1. CASE i = k
        BY <1>1, <3>1
      <3>2. CASE i # k
        <4>1. i \in 1..(k - 1) /\ i - 1 \in 0..k /\ i - 1 # k
          BY <1>1, <3>2
        <4>2. h[i] = g[i] /\ h[i - 1] = g[i - 1]
          BY <1>1, <3>2, <4>1
        <4>3. QED
          BY <2>1, <4>1, <4>2
      <3>3. QED
        BY <3>1, <3>2
    <2> HIDE DEF h
    <2>4. Step(h, k)
      BY <2>2, <2>3
    <2> HIDE DEF Step
    <2>5. \E e : Step(e, k)
      BY <2>4
    <2>6. QED
      BY <1>1, <2>5
  <1>4. n \in Some
    <2>1. 0..n \subseteq Some
      <3> HIDE DEF Some
      <3>1. QED
        BY <1>1, <1>2, <1>3, UpTo
    <2>2. QED
      BY <1>1, <2>1
  <1>5. PICK g : Step(g, n)
    <2> HIDE DEF Step
    <2>1. QED
      BY <1>4
  <1>6. Rec(g)
    <2> DEFINE h == [i \in 0..n |-> IF i = 0 THEN f ELSE FA!LoadDescFile(g[i - 1], files[i])]
    <2>1. g = [i \in 0..n |-> g[i]] /\ g[0] = f
      BY <1>5
    <2>2. \A i \in 1..n : g[i] = FA!LoadDescFile(g[i - 1], files[i])
      BY <1>5
    <2>3. ASSUME NEW i \in 0..n PROVE g[i] = h[i]
      <3>1. h[i] = IF i = 0 THEN f ELSE FA!LoadDescFile(g[i - 1], files[i])
        OBVIOUS
      <3>2. i = 0 \/ i \in 1..n
        BY <1>1
      <3> HIDE DEF h
      <3>3. CASE i = 0
        BY <2>1, <3>1, <3>3
      <3>4. CASE i \in 1..n
        <4>1. i # 0
          BY <3>4
        <4>2. g[i] = FA!LoadDescFile(g[i - 1], files[i])
          BY <2>2, <3>4
        <4>3. QED
          BY <3>1, <4>1, <4>2
      <3>5. QED
        BY <3>2, <3>3, <3>4
    <2>4. h = [i \in 0..n |-> h[i]]
      OBVIOUS
    <2> HIDE DEF h
    <2>5. g = h
      BY <2>1, <2>3, <2>4
    <2>6. QED
      BY <2>5 DEF h
  <1>7. Rec(chosen)
    BY <1>6
  <1> HIDE DEF chosen
  <1>8. chosen[0] = f /\ \A k \in 1..n : chosen[k] = FA!LoadDescFile(chosen[k - 1], files[k])
    BY <1>1, <1>7
  <1>9. 0 \in Sound
    BY <1>1, <1>8
  <1>10. \A k \in 1..n : k - 1 \in Sound => k \in Sound
    BY <1>0, <1>1, <1>8, FileIsSound DEF n
  <1>11. n \in Sound
    <2>1. 0..n \subseteq Sound
      <3> HIDE DEF Sound
      <3>1. QED
        BY <1>1, <1>9, <1>10, UpTo
    <2>2. QED
      BY <1>1, <2>1
  <1>12. pool' = chosen[n].pool /\ db' = chosen[n].db
    BY DEF FA!LoadDescriptors, chosen, n
  <1>13. QED
    BY <1>1, <1>11, <1>12 DEF SoundFactory

LEMMA MakingNext == Making /\ FA!Next => Making'
  <1> SUFFICES ASSUME Making, FA!Next PROVE Making'
    OBVIOUS
  <1> DEFINE factory == [pool |-> pool, db |-> db]
  <1>1. /\ db = pool /\ SoundFactory(factory, pool)
        /\ \A p \in pool : p.imports \subseteq { q.name : q \in pool }
        /\ \A p, q \in pool : p # q => p.types \cap q.types = {}
    BY DEF Making, SoundFactory
  <1>2. ASSUME NEW type, FA!Register(type) PROVE Making'
    BY <1>2 DEF FA!Register, Making, SoundFactory, FA!Origins
  <1>3. ASSUME NEW S \in SUBSET Files, NEW files \in FA!SetToSeqs(S), FA!LoadDescriptors(files)
        PROVE  Making'
    <2>1. IsFiniteSet(S)
      BY FilesAssumption, FS_Subset
    <2>2. files \in [1..Cardinality(S) -> S] /\ Cardinality(S) \in Nat
      <3>1. FA!Cardinality(S) = Cardinality(S)
        BY DEF FA!Cardinality, Cardinality
      <3>2. QED
        BY <2>1, <3>1, FS_CardinalityType DEF FA!SetToSeqs
    <2>3. Len(files) \in Nat /\ \A k \in 1..Len(files) : files[k] \in Files
      BY <2>2
    <2>4. SoundFactory([pool |-> pool', db |-> db'], pool)
      <3>1. \A k \in 1..Len(files) : Len(files[k].protos) \in Nat
        BY <2>3, FilesAssumption
      <3> HIDE DEF factory
      <3>2. factory = [pool |-> pool, db |-> db]
        BY DEF factory
      <3>3. QED
        BY <1>1, <1>3, <2>3, <3>1, <3>2, FilesAreSound
    <2>5. SoundFactory([pool |-> pool', db |-> db'], pool') /\ pool \subseteq pool'
      BY <2>4 DEF SoundFactory
    <2>6. \A type : FA!Origins(type) \subseteq FA!Origins(type)'
      BY <2>5 DEF FA!Origins
    <2>7. dynamicMsgMap' = dynamicMsgMap
      BY <1>3 DEF FA!LoadDescriptors
    <2>8. QED
      BY <2>5, <2>6, <2>7 DEF Making
  <1>4. ASSUME NEW type, FA!New(type) PROVE Making'
    <2> DEFINE t == FA!Spelled(type)
    <2>1. UNCHANGED <<pool, db>> /\ (UNCHANGED dynamicMsgMap \/ FA!DynamicNew(t))
      BY <1>4 DEF FA!New
    <2> HIDE DEF t
    <2>2. \A u : FA!Origins(u)' = FA!Origins(u)
      BY <2>1 DEF FA!Origins
    <2>3. \A u \in DOMAIN dynamicMsgMap' : dynamicMsgMap'[u] \in FA!Origins(u)
      <3>1. CASE UNCHANGED dynamicMsgMap
        BY <3>1 DEF Making
      <3>2. CASE ~ UNCHANGED dynamicMsgMap
        <4>1. PICK origin \in FA!Origins(t) :
                dynamicMsgMap' = [u \in DOMAIN dynamicMsgMap \cup {t} |->
                                     IF u = t THEN origin ELSE dynamicMsgMap[u]]
          BY <2>1, <3>2 DEF FA!DynamicNew
        <4>2. QED
          BY <4>1 DEF Making
      <3>3. QED
        BY <3>1, <3>2
    <2>4. QED
      BY <2>1, <2>2, <2>3 DEF Making
  <1>5. QED
    BY <1>2, <1>3, <1>4 DEF FA!Next

LEMMA MakingSuffices == Making => FA!ListedIsMade
  <1> SUFFICES ASSUME Making PROVE FA!ListedIsMade
    OBVIOUS
  <1>1. /\ db = pool
        /\ \A p \in pool : p.imports \subseteq { q.name : q \in pool }
        /\ \A p, q \in pool : p # q => p.types \cap q.types = {}
    BY DEF Making, SoundFactory
  <1>2. ASSUME NEW type \in FA!Types, type \notin msgMap
        PROVE  FA!Cardinality(FA!Origins(type)) = 1
    <2>1. PICK p \in pool : type \in p.types
      BY <1>1, <1>2 DEF FA!Types, FA!TypesIn
    <2>2. { q \in pool : type \in q.types } = {p}
      BY <1>1, <2>1
    <2>3. FA!Origins(type) = {p.name}
      BY <2>2 DEF FA!Origins
    <2>4. FA!Cardinality({p.name}) = Cardinality({p.name})
      BY DEF FA!Cardinality, Cardinality
    <2>5. QED
      BY <2>3, <2>4, FS_Singleton
  <1>3. QED
    BY <1>1, <1>2 DEF FA!ListedIsMade, Making

\* Whatever files are loaded in whatever order, every type that is listed can be made
\* from one place: ListedIsMade, for any finite set of files.
THEOREM ListedCanBeMade == PartsSpec => []ListedIsMade
  <1> DEFINE I == part = "factory" => Making
  <1>1. PartsInit => I
    BY DEF PartsInit, FA!Init, Making, SoundFactory
  <1>2. I /\ [PartsNext]_AllVars => I'
    <2>1. Making /\ UNCHANGED factoryVars => Making'
      BY DEF Making, factoryVars, FA!Origins
    <2>2. QED
      BY PartStays, <2>1, MakingNext DEF PartsNext, AllVars
  <1>3. I => ListedIsMade
    BY MakingSuffices DEF ListedIsMade
  <1>4. QED
    BY <1>1, <1>2, <1>3, PTL DEF PartsSpec

-----------------------------------------------------------------------------
(* What a log caches.                                                      *)

LogFields == {"open", "committed", "pending", "keys", "inTransaction", "age",
              "needNewDescriptor", "descriptor", "startTime", "endTime"}

\* What CachesCurrent says of a log, given which of its times are guessed.
CachesCurrentIn(l) ==
    /\ ~l.needNewDescriptor => l.descriptor = l.keys
    /\ l.startTime # LH!Unknown =>
          l.startTime = IF "start" \in guessed THEN 0 ELSE LH!Earliest(LH!Table(l))
    /\ l.endTime # LH!Unknown =>
          IF "end" \in guessed
          THEN l.endTime \in {0} \cup {LH!Table(l)[i].time : i \in DOMAIN LH!Table(l)}
          ELSE l.endTime = LH!Latest(LH!Table(l))

\* What is guessed is cached.
GuessesHold == guessed \cap LH!Uncached(log) = {}

\* A log, as far as its caches depend on it.
CachesHold(l) ==
    /\ l = [f \in LogFields |-> l[f]]
    /\ l.committed \in Seq(LH!Rows) /\ l.pending \in Seq(LH!Rows)
    /\ CachesCurrentIn(l)

\* Whoever changes neither the rows nor what is cached of them.
LEMMA CachesStay ==
    ASSUME NEW l, CachesHold(l), NEW m, m = [f \in LogFields |-> m[f]],
           \A f \in LogFields \ {"inTransaction", "age"} : m[f] = l[f]
    PROVE  CachesHold(m)
  <1>1. /\ m.committed = l.committed /\ m.pending = l.pending /\ m.keys = l.keys
        /\ m.needNewDescriptor = l.needNewDescriptor /\ m.descriptor = l.descriptor
        /\ m.startTime = l.startTime /\ m.endTime = l.endTime
    BY DEF LogFields
  <1>2. LH!Table(m) = LH!Table(l)
    BY <1>1 DEF LH!Table
  <1>3. QED
    BY <1>1, <1>2 DEF CachesHold, CachesCurrentIn

LEMMA BeginKeeps == \A l : CachesHold(l) => CachesHold(LH!BeginTransactionIfNotInOne(l))
  <1> SUFFICES ASSUME NEW l, CachesHold(l)
               PROVE  CachesHold(LH!BeginTransactionIfNotInOne(l))
    OBVIOUS
  <1> DEFINE m == [l EXCEPT !.inTransaction = TRUE, !.age = 0]
  <1>1. m = [f \in LogFields |-> m[f]] /\ \A f \in LogFields \ {"inTransaction", "age"} : m[f] = l[f]
    BY DEF CachesHold
  <1> HIDE DEF m
  <1>2. CachesHold(m)
    BY <1>1, CachesStay
  <1>3. QED
    BY <1>2 DEF LH!BeginTransactionIfNotInOne, m

LEMMA OlderKeeps == \A l : CachesHold(l) => CachesHold(LH!Older(l))
  <1> SUFFICES ASSUME NEW l, CachesHold(l) PROVE CachesHold(LH!Older(l))
    OBVIOUS
  <1> DEFINE m == LH!Older(l)
  <1>1. m = [f \in LogFields |-> m[f]] /\ \A f \in LogFields \ {"inTransaction", "age"} : m[f] = l[f]
    BY DEF CachesHold, LH!Older
  <1> HIDE DEF m
  <1>2. CachesHold(m)
    BY <1>1, CachesStay
  <1>3. QED
    BY <1>2 DEF m

LEMMA DescriptorKeeps ==
    \A l : CachesHold(l) => /\ CachesHold(LH!WithDescriptor(l))
                            /\ LH!WithDescriptor(l).descriptor = LH!WithDescriptor(l).keys
  <1> SUFFICES ASSUME NEW l, CachesHold(l)
               PROVE  /\ CachesHold(LH!WithDescriptor(l))
                      /\ LH!WithDescriptor(l).descriptor = LH!WithDescriptor(l).keys
    OBVIOUS
  <1> DEFINE m == [l EXCEPT !.needNewDescriptor = FALSE, !.descriptor = l.keys]
  <1>1. /\ m = [f \in LogFields |-> m[f]] /\ m.descriptor = l.keys
        /\ \A f \in LogFields \ {"needNewDescriptor", "descriptor"} : m[f] = l[f]
    BY DEF CachesHold, LogFields
  <1> HIDE DEF m
  <1>2. /\ m.committed = l.committed /\ m.pending = l.pending /\ m.keys = l.keys
        /\ m.startTime = l.startTime /\ m.endTime = l.endTime
    BY <1>1 DEF LogFields
  <1>3. LH!Table(m) = LH!Table(l)
    BY <1>2 DEF LH!Table
  <1>4. CachesHold(m)
    BY <1>1, <1>2, <1>3 DEF CachesHold, CachesCurrentIn
  <1>5. CASE l.needNewDescriptor
    BY <1>1, <1>2, <1>4, <1>5 DEF LH!WithDescriptor, m
  <1>6. CASE ~ l.needNewDescriptor
    BY <1>6 DEF LH!WithDescriptor, CachesHold, CachesCurrentIn
  <1>7. QED
    BY <1>5, <1>6

LEMMA TimesAreNatural ==
    ASSUME NEW l, CachesHold(l)
    PROVE  \A i \in DOMAIN LH!Table(l) : LH!Table(l)[i].time \in Nat
  <1>1. LH!Table(l) \in Seq(LH!Rows)
    BY DEF CachesHold, LH!Table
  <1>2. \A row \in LH!Rows : row.time \in 0..LastTime
    BY DEF LH!Rows
  <1>3. 0..LastTime \subseteq Nat
    OBVIOUS
  <1>4. \A i \in DOMAIN LH!Table(l) : LH!Table(l)[i] \in LH!Rows
    BY <1>1
  <1>5. QED
    BY <1>2, <1>3, <1>4

\* A guessed time is no less than 0, so that it is not asked for again.
LEMMA AskKeeps ==
    ASSUME CachesHold(log), GuessesHold
    PROVE  /\ CachesHold(LH!AskStartTime(log)) /\ CachesHold(LH!AskEndTime(log))
           /\ guessed \cap LH!Uncached(LH!AskStartTime(log)) = {}
           /\ guessed \cap LH!Uncached(LH!AskEndTime(log)) = {}
  <1> DEFINE first == LH!Earliest(LH!Table(log))
             last == LH!Latest(LH!Table(log))
             a == [log EXCEPT !.startTime = first]
             b == [log EXCEPT !.endTime = last]
  <1>1. LH!Table(a) = LH!Table(log) /\ LH!Table(b) = LH!Table(log)
    BY DEF CachesHold, LH!Table, LogFields
  <1>2. "start" \in guessed => LH!AskStartTime(log) = log
    <2>1. "start" \in guessed => log.startTime = 0
      BY DEF GuessesHold, LH!Uncached, CachesHold, CachesCurrentIn
    <2>2. QED
      BY <2>1 DEF LH!AskStartTime
  <1>3. "end" \in guessed => LH!AskEndTime(log) = log
    <2>1. "end" \in guessed =>
              log.endTime \in {0} \cup {LH!Table(log)[i].time : i \in DOMAIN LH!Table(log)}
      BY DEF GuessesHold, LH!Uncached, CachesHold, CachesCurrentIn
    <2>2. "end" \in guessed => log.endTime \in Nat
      BY <2>1, TimesAreNatural
    <2>3. QED
      BY <2>2 DEF LH!AskEndTime
  <1>4. LH!AskStartTime(log) = log \/ LH!AskStartTime(log) = a
    BY DEF LH!AskStartTime
  <1>5. LH!AskEndTime(log) = log \/ LH!AskEndTime(log) = b
    BY DEF LH!AskEndTime
  <1>6. "start" \notin guessed => CachesHold(a) /\ guessed \cap LH!Uncached(a) = {}
    <2>1. a.startTime = first
      BY DEF CachesHold, LogFields
    <2> HIDE DEF first
    <2>2. a = [f \in LogFields |-> a[f]] /\ \A f \in LogFields \ {"startTime"} : a[f] = log[f]
      BY DEF CachesHold, LogFields
    <2> HIDE DEF a
    <2>3. a.endTime = log.endTime
      BY <2>2 DEF LogFields
    <2>4. "start" \notin guessed => guessed \cap LH!Uncached(a) = {}
      BY <2>3 DEF GuessesHold, LH!Uncached
    <2>5. QED
      BY <1>1, <2>1, <2>2, <2>4 DEF CachesHold, CachesCurrentIn, LogFields, first
  <1>7. "end" \notin guessed => CachesHold(b) /\ guessed \cap LH!Uncached(b) = {}
    <2>1. b.endTime = last
      BY DEF CachesHold, LogFields
    <2> HIDE DEF last
    <2>2. b = [f \in LogFields |-> b[f]] /\ \A f \in LogFields \ {"endTime"} : b[f] = log[f]
      BY DEF CachesHold, LogFields
    <2> HIDE DEF b
    <2>3. b.startTime = log.startTime
      BY <2>2 DEF LogFields
    <2>4. "end" \notin guessed => guessed \cap LH!Uncached(b) = {}
      BY <2>3 DEF GuessesHold, LH!Uncached
    <2>5. QED
      BY <1>1, <2>1, <2>2, <2>4 DEF CachesHold, CachesCurrentIn, LogFields, last
  <1> HIDE DEF a, b
  <1>8. CachesHold(log) /\ guessed \cap LH!Uncached(log) = {}
    BY DEF GuessesHold
  <1>9. CachesHold(LH!AskStartTime(log)) /\ guessed \cap LH!Uncached(LH!AskStartTime(log)) = {}
    BY <1>2, <1>4, <1>6, <1>8
  <1>10. CachesHold(LH!AskEndTime(log)) /\ guessed \cap LH!Uncached(LH!AskEndTime(log)) = {}
    BY <1>3, <1>5, <1>7, <1>8
  <1>11. QED
    BY <1>9, <1>10

\* A query that fails leaves a time that is said to be guessed.
LEMMA AskFailsKeeps ==
    ASSUME CachesHold(log), GuessesHold, LH!AskFails
    PROVE  CachesHold(log)' /\ GuessesHold' /\ log'.committed = log.committed
           /\ log'.pending = log.pending /\ log'.keys = log.keys
  <1>1. CASE /\ log.startTime = LH!Unknown /\ log' = LH!StartTimeFailed(log)
             /\ guessed' = guessed \cup {"start"}
    <2>1. /\ log' = [f \in LogFields |-> log'[f]] /\ log'.startTime = 0
          /\ \A f \in LogFields \ {"startTime"} : log'[f] = log[f]
      BY <1>1 DEF LH!StartTimeFailed, CachesHold, LogFields
    <2>2. /\ log'.committed = log.committed /\ log'.pending = log.pending /\ log'.keys = log.keys
          /\ log'.needNewDescriptor = log.needNewDescriptor /\ log'.descriptor = log.descriptor
          /\ log'.endTime = log.endTime
      BY <2>1 DEF LogFields
    <2>3. LH!Table(log') = LH!Table(log)
      BY <2>2 DEF LH!Table
    <2>4. "end" \in guessed' <=> "end" \in guessed
      BY <1>1
    <2>5. CachesHold(log)'
      BY <1>1, <2>1, <2>2, <2>3, <2>4 DEF CachesHold, CachesCurrentIn
    <2>6. GuessesHold'
      BY <1>1, <2>1, <2>2 DEF GuessesHold, LH!Uncached, LH!Unknown
    <2>7. QED
      BY <2>2, <2>5, <2>6
  <1>2. CASE /\ log.endTime = LH!Unknown /\ log' \in LH!EndTimeFailed(log)
             /\ guessed' = guessed \cup {"end"}
    <2>1. PICK t \in {0} \cup {LH!Table(log)[i].time : i \in DOMAIN LH!Table(log)} :
              log' = [log EXCEPT !.endTime = t]
      BY <1>2 DEF LH!EndTimeFailed
    <2>2. /\ log' = [f \in LogFields |-> log'[f]] /\ log'.endTime = t
          /\ \A f \in LogFields \ {"endTime"} : log'[f] = log[f]
      BY <2>1 DEF CachesHold, LogFields
    <2>3. /\ log'.committed = log.committed /\ log'.pending = log.pending /\ log'.keys = log.keys
          /\ log'.needNewDescriptor = log.needNewDescriptor /\ log'.descriptor = log.descriptor
          /\ log'.startTime = log.startTime
      BY <2>2 DEF LogFields
    <2>4. LH!Table(log') = LH!Table(log)
      BY <2>3 DEF LH!Table
    <2>5. ("start" \in guessed' <=> "start" \in guessed) /\ "end" \in guessed'
      BY <1>2
    <2>6. CachesHold(log)'
      BY <2>1, <2>2, <2>3, <2>4, <2>5 DEF CachesHold, CachesCurrentIn
    <2>7. t \in Nat
      BY <2>1, TimesAreNatural
    <2>8. GuessesHold'
      BY <1>2, <2>2, <2>3, <2>7 DEF GuessesHold, LH!Uncached, LH!Unknown
    <2>9. QED
      BY <2>3, <2>6, <2>8
  <1>3. QED
    BY <1>1, <1>2 DEF LH!AskFails

LEMMA TopicKeeps == \A l, row : CachesHold(l) => CachesHold(LH!InsertOrGetTopicId(l, row))
  <1> SUFFICES ASSUME NEW l, NEW row, CachesHold(l) PROVE CachesHold(LH!InsertOrGetTopicId(l, row))
    OBVIOUS
  <1> DEFINE r == LH!WithDescriptor(l)
  <1>1. CachesHold(r)
    BY DescriptorKeeps
  <1> HIDE DEF r
  <1>2. CachesHold(LH!InsertTopic(r, row))
    BY <1>1 DEF CachesHold, LH!InsertTopic, CachesCurrentIn, LogFields
  <1>3. QED
    BY <1>1, <1>2 DEF LH!InsertOrGetTopicId, r

LEMMA RowKeeps == \A l : \A row \in LH!Rows : CachesHold(l) => CachesHold(LH!InsertRow(l, row))
  <1> SUFFICES ASSUME NEW l, NEW row \in LH!Rows, CachesHold(l) PROVE CachesHold(LH!InsertRow(l, row))
    OBVIOUS
  <1>1. Append(l.pending, row) \in Seq(LH!Rows)
    BY DEF CachesHold
  <1>2. QED
    BY <1>1 DEF CachesHold, LH!InsertRow, CachesCurrentIn, LogFields

LEMMA EndKeeps == \A l : CachesHold(l) => CachesHold(LH!EndTransaction(l))
  <1> SUFFICES ASSUME NEW l, CachesHold(l) PROVE CachesHold(LH!EndTransaction(l))
    OBVIOUS
  <1> DEFINE e == LH!EndTransaction(l)
  <1>1. l.committed \o l.pending \in Seq(LH!Rows) /\ <<>> \in Seq(LH!Rows)
    BY DEF CachesHold
  <1>2. (l.committed \o l.pending) \o <<>> = l.committed \o l.pending
    BY <1>1, ConcatEmptySeq
  <1>3. LH!Table(e) = LH!Table(l)
    BY <1>2 DEF CachesHold, LH!EndTransaction, LH!Table, LogFields
  <1>4. QED
    BY <1>1, <1>3 DEF CachesHold, LH!EndTransaction, CachesCurrentIn, LogFields

LEMMA UnsetKeeps == \A l : CachesHold(l) => CachesHold(LH!Unset(l))
  BY DEF CachesHold, CachesCurrentIn, LogFields, LH!Unset

\* The states that an insertion which failed may leave.
LEMMA FailedInsertions ==
    ASSUME NEW row, NEW l \in LH!InsertFailed(log, row),
           NEW begun, begun = LH!BeginTransactionIfNotInOne(log),
           NEW stale, stale = [LH!WithDescriptor(begun) EXCEPT !.needNewDescriptor = TRUE],
           NEW there, there = LH!InsertOrGetTopicId(begun, row)
    PROVE  l \in {log, begun, there, LH!Unset(there), stale, LH!Unset(stale)}
  BY DEF LH!InsertFailed

\* After any insertion the caches are current, with what was guessed before it.
LEMMA InsertKeeps ==
    ASSUME CachesHold(log), NEW row \in LH!Rows, LH!Insert(row)
    PROVE  CachesHold(log')
  <1> DEFINE begun == LH!BeginTransactionIfNotInOne(log)
             read == LH!WithDescriptor(begun)
             stale == [read EXCEPT !.needNewDescriptor = TRUE]
             kept == LH!Kept(log, row)
             there == LH!InsertOrGetTopicId(begun, row)
  <1>1. CachesHold(begun) /\ CachesHold(read)
    BY BeginKeeps, DescriptorKeeps
  <1>2. CachesHold(there) /\ CachesHold(kept)
    BY <1>1, TopicKeeps, RowKeeps DEF LH!Kept
  <1>3. CachesHold(LH!Inserted(log, row))
    BY <1>2, EndKeeps DEF LH!Inserted
  <1>4. CachesHold(LH!EmptyRefused(log, row))
    BY <1>2 DEF LH!EmptyRefused
  <1>5. \A l \in LH!EndFailed(log, row) : CachesHold(l)
    BY <1>2 DEF LH!EndFailed
  <1>6. CachesHold(stale)
    <2> HIDE DEF read
    <2>1. stale = [f \in LogFields |-> stale[f]] /\ LH!Table(stale) = LH!Table(read)
      BY <1>1 DEF CachesHold, LogFields, LH!Table
    <2>2. /\ stale.committed = read.committed /\ stale.pending = read.pending
          /\ stale.needNewDescriptor
          /\ stale.startTime = read.startTime /\ stale.endTime = read.endTime
      BY <1>1 DEF CachesHold, LogFields
    <2> HIDE DEF stale
    <2>3. QED
      BY <1>1, <2>1, <2>2 DEF CachesHold, CachesCurrentIn
  <1>7. CachesHold(LH!Unset(there)) /\ CachesHold(LH!Unset(stale))
    BY <1>2, <1>6, UnsetKeeps
  <1>8. \A l \in LH!InsertFailed(log, row) : CachesHold(l)
    BY <1>1, <1>2, <1>6, <1>7, FailedInsertions
  <1>9. QED
    BY <1>3, <1>4, <1>5, <1>8 DEF LH!Insert

\* What an insertion has made the handle forget is guessed no more.
LEMMA GuessesKeep ==
    ASSUME CachesHold(log'), guessed' = guessed \ LH!Uncached(log')
    PROVE  CachesHold(log)' /\ GuessesHold'
  <1>1. "start" \in guessed' <=> "start" \in guessed /\ log'.startTime # LH!Unknown
    BY DEF LH!Uncached
  <1>2. "end" \in guessed' <=> "end" \in guessed /\ log'.endTime # LH!Unknown
    BY DEF LH!Uncached
  <1>3. CachesCurrentIn(log)'
    BY <1>1, <1>2 DEF CachesHold, CachesCurrentIn
  <1>4. GuessesHold'
    BY DEF GuessesHold, LH!Uncached
  <1>5. QED
    BY <1>3, <1>4 DEF CachesHold

-----------------------------------------------------------------------------
(* What a statement returns, and what a loop over it sees.                   *)

LEMMA SameCounts == \A S : LH!Cardinality(S) = Cardinality(S)
  BY DEF LH!Cardinality, Cardinality

LEMMA CountOfBoth ==
    ASSUME NEW S, IsFiniteSet(S), NEW T, IsFiniteSet(T), S \cap T = {}
    PROVE  Cardinality(S \cup T) = Cardinality(S) + Cardinality(T)
  <1>1. Cardinality(S) \in Nat /\ Cardinality(T) \in Nat /\ Cardinality(S \cap T) = 0
    BY FS_CardinalityType, FS_EmptySet
  <1>2. Cardinality(S \cup T) = Cardinality(S) + Cardinality(T) - Cardinality(S \cap T)
    BY FS_Union
  <1>3. QED
    BY <1>1, <1>2

\* A row that precedes another has a lower place: the places of the rows that were
\* positions are the numbers up to their count, one for each.
LEMMA PlacesOfRows ==
    ASSUME NEW S, NEW rows \in Seq(S), \A i \in DOMAIN rows : rows[i].time \in Int,
           NEW positions \in SUBSET DOMAIN rows
    PROVE  /\ IsFiniteSet(positions) /\ Cardinality(positions) \in Nat
           /\ \A i \in positions : LH!Place(rows, positions, i) \in 1..Cardinality(positions)
           /\ \A i, j \in positions :
                  LH!Precedes(rows, i, j) =>
                      LH!Place(rows, positions, i) < LH!Place(rows, positions, j)
           /\ \A i, j \in positions : i = j \/ LH!Precedes(rows, i, j) \/ LH!Precedes(rows, j, i)
           /\ \A k \in 1..Cardinality(positions) :
                  \E i \in positions : LH!Place(rows, positions, i) = k
  <1> DEFINE n == Cardinality(positions)
             Before(i) == { j \in positions : LH!Precedes(rows, j, i) }
             place == [i \in positions |-> LH!Place(rows, positions, i)]
  <1>1. IsFiniteSet(positions) /\ n \in Nat /\ \A i \in positions : i \in Nat
    <2>1. DOMAIN rows = 1..Len(rows) /\ Len(rows) \in Nat
      OBVIOUS
    <2>2. IsFiniteSet(1..Len(rows))
      BY <2>1, FS_Interval
    <2>3. QED
      BY <2>1, <2>2, FS_Subset, FS_CardinalityType
  <1>2. \A i \in positions : rows[i].time \in Int
    OBVIOUS
  <1>3. \A i : LH!Place(rows, positions, i) = Cardinality(Before(i)) + 1
    BY SameCounts DEF LH!Place
  <1>4. ASSUME NEW i \in positions
        PROVE  /\ IsFiniteSet(Before(i)) /\ Cardinality(Before(i)) \in Nat
               /\ LH!Place(rows, positions, i) \in 1..n
    <2>1. Before(i) \subseteq positions \ {i}
      BY <1>1, <1>2 DEF LH!Precedes
    <2> HIDE DEF Before
    <2>2. IsFiniteSet(positions \ {i}) /\ Cardinality(positions \ {i}) = n - 1
      BY <1>1, FS_RemoveElement
    <2>3. IsFiniteSet(Before(i)) /\ Cardinality(Before(i)) <= n - 1
      BY <2>1, <2>2, FS_Subset
    <2>4. Cardinality(Before(i)) \in Nat
      BY <2>3, FS_CardinalityType
    <2> HIDE DEF n
    <2>5. QED
      BY <1>1, <1>3, <2>3, <2>4
  <1>5. ASSUME NEW i \in positions, NEW j \in positions, LH!Precedes(rows, i, j)
        PROVE  LH!Place(rows, positions, i) < LH!Place(rows, positions, j)
    <2>1. Before(i) \cup {i} \subseteq Before(j) /\ i \notin Before(i)
      BY <1>1, <1>2, <1>5 DEF LH!Precedes
    <2> HIDE DEF Before
    <2>2. Cardinality(Before(i) \cup {i}) = Cardinality(Before(i)) + 1
      BY <1>4, <2>1, FS_AddElement
    <2>3. Cardinality(Before(i) \cup {i}) <= Cardinality(Before(j))
      BY <1>4, <2>1, FS_Subset
    <2>4. Cardinality(Before(i)) \in Nat /\ Cardinality(Before(j)) \in Nat
      BY <1>4
    <2>5. QED
      BY <1>3, <2>2, <2>3, <2>4
  <1>6. \A i, j \in positions : i = j \/ LH!Precedes(rows, i, j) \/ LH!Precedes(rows, j, i)
    BY <1>1, <1>2 DEF LH!Precedes
  <1>7. place \in Surjection(positions, 1..n)
    <2>1. \A i \in positions : place[i] = LH!Place(rows, positions, i) /\ place[i] \in 1..n
      BY <1>4
    <2>2. place \in [positions -> 1..n]
      BY <2>1
    <2> HIDE DEF place, n
    <2>3. ASSUME NEW i \in positions, NEW j \in positions, i # j PROVE place[i] # place[j]
      <3>1. place[i] < place[j] \/ place[j] < place[i]
        BY <1>5, <1>6, <2>1, <2>3
      <3>2. place[i] \in Nat /\ place[j] \in Nat
        BY <1>1, <2>1
      <3>3. QED
        BY <3>1, <3>2
    <2>4. place \in Injection(positions, 1..n)
      BY <2>2, <2>3 DEF Injection, IsInjective
    <2>5. IsFiniteSet(1..n) /\ Cardinality(1..n) = n
      BY <1>1, FS_Interval
    <2>6. QED
      BY <2>4, <2>5, FS_Injection DEF n
  <1>8. \A k \in 1..n : \E i \in positions : LH!Place(rows, positions, i) = k
    BY <1>7 DEF Surjection
  <1>9. QED
    BY <1>1, <1>4, <1>5, <1>6, <1>8

\* The position of the k-th of the rows that were positions.
PositionOf(rows, positions, k) ==
    CHOOSE i \in positions : LH!Place(rows, positions, i) = k

\* Which is the only one with that place.
LEMMA PositionIsUnique ==
    ASSUME NEW S, NEW rows \in Seq(S), \A i \in DOMAIN rows : rows[i].time \in Int,
           NEW positions \in SUBSET DOMAIN rows, NEW k \in 1..Cardinality(positions)
    PROVE  /\ PositionOf(rows, positions, k) \in positions
           /\ LH!Place(rows, positions, PositionOf(rows, positions, k)) = k
           /\ \A i \in positions :
                  LH!Place(rows, positions, i) = k => i = PositionOf(rows, positions, k)
  <1> DEFINE q == PositionOf(rows, positions, k)
  <1>1. \E i \in positions : LH!Place(rows, positions, i) = k
    BY PlacesOfRows
  <1>2. q \in positions /\ LH!Place(rows, positions, q) = k
    BY <1>1 DEF PositionOf
  <1> HIDE DEF q
  <1>3. ASSUME NEW i \in positions, LH!Place(rows, positions, i) = k, i # q PROVE FALSE
    <2>1. LH!Precedes(rows, i, q) \/ LH!Precedes(rows, q, i)
      BY <1>2, <1>3, PlacesOfRows
    <2>2. k < k
      BY <1>2, <1>3, <2>1, PlacesOfRows
    <2>3. k \in Nat
      BY PlacesOfRows
    <2>4. QED
      BY <2>2, <2>3
  <1>4. QED
    BY <1>2, <1>3 DEF q

\* A statement returns each of its rows once, in order.
LEMMA StatementIsOrdered ==
    ASSUME NEW S, NEW rows \in Seq(S), \A i \in DOMAIN rows : rows[i].time \in Int,
           NEW positions \in SUBSET DOMAIN rows
    PROVE  /\ LH!OrderByTime(rows, positions) \in Seq(S)
           /\ Len(LH!OrderByTime(rows, positions)) = Cardinality(positions)
           /\ \A k \in 1..Cardinality(positions) :
                  LH!OrderByTime(rows, positions)[k] = rows[PositionOf(rows, positions, k)]
           /\ \A i, j \in 1..Cardinality(positions) :
                  i < j => LH!Precedes(rows, PositionOf(rows, positions, i),
                                             PositionOf(rows, positions, j))
  <1> DEFINE n == Cardinality(positions)
             st == [k \in 1..n |-> rows[PositionOf(rows, positions, k)]]
  <1>1. n \in Nat /\ \A k \in 1..n : PositionOf(rows, positions, k) \in positions
    BY PlacesOfRows, PositionIsUnique
  <1>2. LH!OrderByTime(rows, positions) = st
    BY SameCounts DEF LH!OrderByTime, PositionOf
  <1>3. st \in Seq(S) /\ Len(st) = n
    <2>1. \A i \in positions : rows[i] \in S
      OBVIOUS
    <2>2. QED
      BY <1>1, <2>1
  <1>4. ASSUME NEW i \in 1..n, NEW j \in 1..n, i < j
        PROVE  LH!Precedes(rows, PositionOf(rows, positions, i), PositionOf(rows, positions, j))
    <2> DEFINE a == PositionOf(rows, positions, i)
               b == PositionOf(rows, positions, j)
    <2>1. a \in positions /\ b \in positions
          /\ LH!Place(rows, positions, a) = i /\ LH!Place(rows, positions, b) = j
      BY PositionIsUnique
    <2> HIDE DEF a, b
    <2>2. ~(j < i) /\ i # j
      BY <1>1, <1>4
    <2>3. QED
      BY <2>1, <2>2, PlacesOfRows DEF a, b
  <1>5. QED
    BY <1>2, <1>3, <1>4

\* The statements of two halves, the first of which precedes the other, make up the
\* statement of both.
LEMMA StatementSplits ==
    ASSUME NEW S, NEW rows \in Seq(S), \A i \in DOMAIN rows : rows[i].time \in Int,
           NEW A \in SUBSET DOMAIN rows, NEW B \in SUBSET DOMAIN rows,
           \A i \in A, j \in B : LH!Precedes(rows, i, j)
    PROVE  LH!OrderByTime(rows, A) \o LH!OrderByTime(rows, B) = LH!OrderByTime(rows, A \cup B)
  <1> DEFINE both == A \cup B
             m == Cardinality(A)
             n == Cardinality(B)
             N == Cardinality(both)
             a == LH!OrderByTime(rows, A)
             b == LH!OrderByTime(rows, B)
             c == LH!OrderByTime(rows, both)
  <1>1. both \in SUBSET DOMAIN rows /\ \A i \in both : i \in Nat /\ rows[i].time \in Int
    OBVIOUS
  <1>2. \A i \in A, j \in B : ~LH!Precedes(rows, j, i) /\ i # j
    BY <1>1 DEF LH!Precedes
  <1>3. IsFiniteSet(A) /\ IsFiniteSet(B) /\ m \in Nat /\ n \in Nat /\ N \in Nat
    BY <1>1, PlacesOfRows
  <1>4. N = m + n
    <2>1. A \cap B = {}
      BY <1>2
    <2>2. QED
      BY <1>3, <2>1, CountOfBoth
  <1>5. ASSUME NEW i \in A PROVE LH!Place(rows, both, i) = LH!Place(rows, A, i)
    <2>1. { j \in both : LH!Precedes(rows, j, i) } = { j \in A : LH!Precedes(rows, j, i) }
      BY <1>2
    <2>2. QED
      BY <2>1 DEF LH!Place
  <1>6. ASSUME NEW i \in B PROVE LH!Place(rows, both, i) = m + LH!Place(rows, B, i)
    <2> DEFINE Before == { j \in B : LH!Precedes(rows, j, i) }
    <2>1. { j \in both : LH!Precedes(rows, j, i) } = A \cup Before
      OBVIOUS
    <2>2. A \cap Before = {} /\ Before \subseteq B
      BY <1>2
    <2>3. IsFiniteSet(Before) /\ Cardinality(Before) \in Nat
      BY <1>3, <2>2, FS_Subset, FS_CardinalityType
    <2> HIDE DEF Before
    <2>4. Cardinality(A \cup Before) = m + Cardinality(Before)
      BY <1>3, <2>2, <2>3, CountOfBoth
    <2> USE DEF Before
    <2>5. LH!Place(rows, both, i) = Cardinality(A \cup Before) + 1
      BY <2>1, SameCounts DEF LH!Place
    <2>6. LH!Place(rows, B, i) = Cardinality(Before) + 1
      BY SameCounts DEF LH!Place
    <2> HIDE DEF Before
    <2>7. QED
      BY <1>3, <2>3, <2>4, <2>5, <2>6
  <1>7. /\ a \in Seq(S) /\ Len(a) = m /\ b \in Seq(S) /\ Len(b) = n /\ c \in Seq(S) /\ Len(c) = N
        /\ \A k \in 1..m : a[k] = rows[PositionOf(rows, A, k)]
        /\ \A k \in 1..n : b[k] = rows[PositionOf(rows, B, k)]
        /\ \A k \in 1..N : c[k] = rows[PositionOf(rows, both, k)]
    BY <1>1, StatementIsOrdered
  <1> HIDE DEF a, b, c, m, n, N, both
  <1>8. a \o b \in Seq(S) /\ Len(a \o b) = N
    <2> SUFFICES ASSUME a \in Seq(S), b \in Seq(S) PROVE a \o b \in Seq(S) /\ Len(a \o b) = N
      BY <1>7
    <2>1. a \o b \in Seq(S)
      OBVIOUS
    <2>2. Len(a \o b) = Len(a) + Len(b)
      OBVIOUS
    <2>3. Len(a) = m /\ Len(b) = n
      BY <1>7
    <2>4. Len(a \o b) = m + n
      BY <2>2, <2>3
    <2>5. QED
      BY <1>4, <2>1, <2>4
  <1>9. ASSUME NEW k \in 1..N PROVE (a \o b)[k] = c[k]
    <2>1. k \in Int /\ k >= 1 /\ k <= m + n
      BY <1>3, <1>4
    <2>2. CASE k <= m
      <3>1. k \in 1..m
        BY <1>3, <2>1, <2>2
      <3>2. (a \o b)[k] = a[k]
        BY <1>7, <3>1
      <3> DEFINE q == PositionOf(rows, A, k)
      <3>3. q \in A /\ LH!Place(rows, A, q) = k
        BY <3>1, PositionIsUnique DEF m
      <3> HIDE DEF q
      <3>4. q \in both /\ LH!Place(rows, both, q) = k
        BY <1>5, <3>3 DEF both
      <3>5. q = PositionOf(rows, both, k)
        BY <1>1, <3>4, PositionIsUnique DEF N
      <3>6. QED
        BY <1>7, <3>1, <3>2, <3>5 DEF q
    <2>3. CASE k > m
      <3>1. k - m \in 1..n
        BY <1>3, <2>1, <2>3
      <3>2. (a \o b)[k] = b[k - m]
        BY <1>7, <1>3, <1>4, <2>1, <2>3
      <3> DEFINE q == PositionOf(rows, B, k - m)
      <3>3. q \in B /\ LH!Place(rows, B, q) = k - m
        BY <3>1, PositionIsUnique DEF n
      <3> HIDE DEF q
      <3>4. q \in both /\ LH!Place(rows, both, q) = k
        <4>1. LH!Place(rows, both, q) = m + (k - m)
          BY <1>6, <3>3
        <4>2. m + (k - m) = k
          BY <1>3, <2>1
        <4>3. QED
          BY <3>3, <4>1, <4>2 DEF both
      <3>5. q = PositionOf(rows, both, k)
        BY <1>1, <3>4, PositionIsUnique DEF N
      <3>6. QED
        BY <1>7, <3>1, <3>2, <3>5 DEF q
    <2>4. k <= m \/ k > m
      BY <1>3, <2>1
    <2>5. QED
      BY <2>2, <2>3, <2>4
  <1>10. a \o b = c
    BY <1>3, <1>7, <1>8, <1>9
  <1>11. QED
    BY <1>10 DEF a, b, c, both

\* A loop over one statement sees its rows.
LEMMA SeenOfOne ==
    ASSUME NEW S, NEW st \in Seq(S)
    PROVE  LH!Seen(<<st>>) = st
  <1> DEFINE L == Len(st)
             steps == Len(LH!FlattenSeq(<<st>>)) + Len(<<st>>)
             In(rows, message) == [open |-> TRUE, rows |-> rows, statements |-> <<>>,
                                   message |-> message]
             Out(message) == [open |-> FALSE, rows |-> <<>>, statements |-> <<>>,
                              message |-> message]
             last == IF L = 0 THEN LH!NoMessage ELSE st[L]
             Visit(n) == IF n < L THEN In(SubSeq(st, n + 2, L), st[n + 1]) ELSE Out(last)
             Is(f) == f = [n \in 0..steps |-> IF n = 0 THEN LH!Begin(<<st>>)
                                              ELSE LH!StepStatement(f[n - 1])]
             W == [n \in 0..steps |-> Visit(n)]
  <1>1. L \in Nat
    OBVIOUS
  <1>2. steps = L + 1
    <2> DEFINE seqs == <<st>>
               Flat(f) == f = [i \in 1..Len(seqs) |-> IF i = 1 THEN seqs[i]
                                                      ELSE f[i - 1] \o seqs[i]]
    <2>1. Len(seqs) = 1 /\ seqs[1] = st /\ 1..1 = {1}
      OBVIOUS
    <2>2. \E f : Flat(f)
      <3>1. Flat([i \in {1} |-> st])
        BY <2>1
      <3> HIDE DEF Flat
      <3>2. QED
        BY <3>1
    <2>3. Flat(CHOOSE f : Flat(f))
      BY <2>2
    <2>4. (CHOOSE f : Flat(f))[1] = st
      <3> DEFINE g == CHOOSE f : Flat(f)
      <3>1. g = [i \in 1..Len(seqs) |-> IF i = 1 THEN seqs[i] ELSE g[i - 1] \o seqs[i]]
        BY <2>3
      <3> HIDE DEF g
      <3>2. g[1] = st
        BY <2>1, <3>1
      <3>3. QED
        BY <3>2 DEF g
    <2>5. LH!FlattenSeq(seqs) = (CHOOSE f : Flat(f))[1]
      BY <2>1 DEF LH!FlattenSeq
    <2>6. QED
      BY <2>1, <2>4, <2>5
  <1> HIDE DEF steps
  <1>3. /\ \A rows, message : rows # <<>> =>
              LH!StepStatement(In(rows, message)) = In(Tail(rows), Head(rows))
        /\ \A message : LH!StepStatement(In(<<>>, message)) = Out(message)
        /\ \A message : LH!StepStatement(Out(message)) = Out(message)
    <2>1. \A rows, message : rows # <<>> =>
              LH!StepStatement(In(rows, message)) = In(Tail(rows), Head(rows))
      BY DEF LH!StepStatement
    <2>2. \A message : LH!StepStatement(In(<<>>, message)) = LH!PrepareNextStatement(In(<<>>, message))
      BY DEF LH!StepStatement
    <2>3. \A message : LH!PrepareNextStatement(In(<<>>, message)) = Out(message)
      BY DEF LH!PrepareNextStatement
    <2>4. \A message : LH!StepStatement(Out(message)) = Out(message)
      BY DEF LH!StepStatement
    <2>5. QED
      BY <2>1, <2>2, <2>3, <2>4
  <1>4. LH!Begin(<<st>>) = LH!StepStatement(In(st, LH!NoMessage))
    <2> DEFINE it == [open |-> FALSE, rows |-> <<>>, statements |-> <<st>>,
                      message |-> LH!NoMessage]
    <2>1. LH!PrepareNextStatement(it) = In(st, LH!NoMessage)
      <3>1. Len(<<st>>) = 1 /\ Head(<<st>>) = st /\ Tail(<<st>>) = <<>>
        OBVIOUS
      <3>2. it.statements # <<>>
        BY <3>1
      <3>3. QED
        BY <3>1, <3>2 DEF LH!PrepareNextStatement
    <2>2. QED
      BY <2>1 DEF LH!Begin
  <1>5. /\ \A n : n \in 0..steps => (n < L => W[n].open /\ W[n].message = st[n + 1])
        /\ \A n : n \in 0..steps => (~(n < L) => ~W[n].open)
    OBVIOUS
  <1> HIDE DEF In, Out
  <1>6. LH!Begin(<<st>>) = Visit(0)
    <2>1. CASE L = 0
      <3>1. st = <<>>
        BY <2>1
      <3>2. LH!Begin(<<st>>) = Out(LH!NoMessage)
        BY <1>3, <1>4, <3>1
      <3>3. QED
        BY <2>1, <3>2
    <2>2. CASE L # 0
      <3>1. st # <<>> /\ 0 < L
        BY <1>1, <1>2, <2>2
      <3>2. Tail(st) = SubSeq(st, 2, L) /\ Head(st) = st[1]
        BY <3>1
      <3>3. LH!Begin(<<st>>) = In(Tail(st), Head(st))
        BY <1>3, <1>4, <3>1
      <3>4. Visit(0) = In(SubSeq(st, 2, L), st[1])
        BY <3>1
      <3>5. QED
        BY <3>2, <3>3, <3>4
    <2>3. QED
      BY <2>1, <2>2
  <1>7. ASSUME NEW n \in 1..steps PROVE LH!StepStatement(Visit(n - 1)) = Visit(n)
    <2>1. n \in Nat /\ n >= 1 /\ n <= L + 1 /\ n - 1 + 1 = n /\ n - 1 + 2 = n + 1
      BY <1>1, <1>2
    <2>2. CASE n < L
      <3> DEFINE rest == SubSeq(st, n + 1, L)
                 after == SubSeq(st, n + 2, L)
      <3>1. rest \in Seq(S) /\ Len(rest) = L - n /\ \A i \in 1..L - n : rest[i] = st[n + i]
        BY <1>1, <1>2, <2>1, <2>2
      <3>2. after \in Seq(S) /\ Len(after) = L - n - 1
            /\ \A i \in 1..L - n - 1 : after[i] = st[n + 1 + i]
        BY <1>1, <1>2, <2>1, <2>2
      <3>3. Visit(n - 1) = In(rest, st[n])
        BY <1>1, <1>2, <2>1, <2>2
      <3>4. Visit(n) = In(after, st[n + 1])
        BY <2>2
      <3> HIDE DEF rest, after, Visit
      <3>5. rest # <<>> /\ Head(rest) = st[n + 1]
        <4>1. L - n > 0 /\ 1 \in 1..L - n
          BY <1>1, <1>2, <2>1, <2>2
        <4>2. QED
          BY <3>1, <4>1
      <3>6. Tail(rest) = after
        <4>1. Tail(rest) \in Seq(S) /\ Len(Tail(rest)) = L - n - 1
              /\ \A i \in 1..L - n - 1 : Tail(rest)[i] = rest[i + 1]
          BY <1>1, <1>2, <2>1, <2>2, <3>1, <3>5
        <4>2. \A i \in 1..L - n - 1 : i + 1 \in 1..L - n /\ n + (i + 1) = n + 1 + i
          BY <1>1, <1>2, <2>1
        <4>3. \A i \in 1..L - n - 1 : Tail(rest)[i] = after[i]
          BY <3>1, <3>2, <4>1, <4>2
        <4>4. Len(Tail(rest)) = Len(after) /\ 1..Len(Tail(rest)) = 1..L - n - 1
          BY <3>2, <4>1
        <4>5. QED
          BY <3>2, <4>1, <4>3, <4>4, SeqEqual
      <3>7. QED
        BY <1>3, <3>3, <3>4, <3>5, <3>6
    <2>3. CASE n = L
      <3>1. SubSeq(st, n + 1, L) = <<>>
        BY <1>1, <1>2, <2>1, <2>3
      <3>2. Visit(n - 1) = In(<<>>, st[L])
        <4>1. n - 1 < L
          BY <1>1, <1>2, <2>1, <2>3
        <4>2. Visit(n - 1) = In(SubSeq(st, n + 1, L), st[n])
          BY <2>1, <4>1
        <4>3. QED
          BY <2>3, <3>1, <4>2
      <3>3. Visit(n) = Out(st[L])
        BY <1>1, <1>2, <2>1, <2>3
      <3> HIDE DEF Visit
      <3>4. QED
        BY <1>3, <3>2, <3>3
    <2>4. CASE n = L + 1
      <3>1. Visit(n - 1) = Out(last) /\ Visit(n) = Out(last)
        BY <1>1, <1>2, <2>1, <2>4
      <3> HIDE DEF Visit, last
      <3>2. QED
        BY <1>3, <3>1
    <2>5. QED
      BY <1>1, <1>2, <2>1, <2>2, <2>3, <2>4
  <1> HIDE DEF Visit
  <1>8. \A n \in 0..steps : n = 0 \/ (n \in 1..steps /\ n - 1 \in 0..steps)
    BY <1>1, <1>2
  <1>9. Is(W)
    <2>1. \A n \in 0..steps : W[n] = IF n = 0 THEN LH!Begin(<<st>>) ELSE LH!StepStatement(W[n - 1])
      BY <1>6, <1>7, <1>8
    <2>2. W = [n \in 0..steps |-> W[n]]
      OBVIOUS
    <2> HIDE DEF W
    <2>3. QED
      BY <2>1, <2>2
  <1>10. \A f : Is(f) => f = W
    <2>1. SUFFICES ASSUME NEW f, Is(f) PROVE f = W
      OBVIOUS
    <2> DEFINE Same == { n \in 0..steps : f[n] = W[n] }
    <2>2. /\ f = [n \in 0..steps |-> f[n]]
          /\ \A n \in 0..steps : f[n] = IF n = 0 THEN LH!Begin(<<st>>) ELSE LH!StepStatement(f[n - 1])
      BY <2>1
    <2>3. /\ W = [n \in 0..steps |-> W[n]]
          /\ \A n \in 0..steps : W[n] = IF n = 0 THEN LH!Begin(<<st>>) ELSE LH!StepStatement(W[n - 1])
      BY <1>9
    <2> HIDE DEF W, Is
    <2>4. 0 \in Same
      <3>1. 0 \in 0..steps
        BY <1>1, <1>2
      <3>2. f[0] = LH!Begin(<<st>>) /\ W[0] = LH!Begin(<<st>>)
        BY <2>2, <2>3, <3>1
      <3>3. QED
        BY <3>1, <3>2
    <2>5. ASSUME NEW k \in 1..steps, k - 1 \in Same PROVE k \in Same
      <3>1. k \in 0..steps /\ k - 1 \in 0..steps /\ k # 0
        BY <1>1, <1>2
      <3>2. QED
        BY <2>2, <2>3, <2>5, <3>1
    <2>6. 0..steps \subseteq Same
      <3>1. steps \in Nat
        BY <1>1, <1>2
      <3> HIDE DEF Same
      <3>2. QED
        BY <2>4, <2>5, <3>1, UpTo
    <2>7. QED
      BY <2>2, <2>3, <2>6
  <1>11. (CHOOSE f : Is(f)) = W
    <2> HIDE DEF Is, W
    <2>1. \E f : Is(f)
      BY <1>9
    <2>2. Is(CHOOSE f : Is(f))
      BY <2>1
    <2>3. QED
      BY <1>10, <2>2
  <1>12. LH!Seen(<<st>>) =
            [n \in 1..LH!Cardinality({ m \in 0..steps : ~LH!AtEnd((CHOOSE f : Is(f))[m]) }) |->
                (CHOOSE f : Is(f))[n - 1].message]
    BY DEF LH!Seen, steps
  <1>13. { m \in 0..steps : ~LH!AtEnd(W[m]) } = 0..L - 1
    <2>1. \A m \in 0..steps : ~LH!AtEnd(W[m]) <=> m < L
      BY <1>5 DEF LH!AtEnd
    <2> HIDE DEF W
    <2>2. QED
      BY <1>1, <1>2, <2>1
  <1>14. Cardinality(0..L - 1) = L
    <2>1. \A n \in Nat : Cardinality(0..n - 1) = n
      BY FS_Interval
    <2>2. QED
      BY <1>1, <1>2, <2>1
  <1>15. \A n \in 1..L : W[n - 1].message = st[n]
    <2>1. \A n \in 1..L : n - 1 \in 0..steps /\ n - 1 < L /\ n - 1 + 1 = n
      BY <1>1, <1>2
    <2> HIDE DEF W
    <2>2. QED
      BY <1>5, <2>1
  <1> HIDE DEF Is, W
  <1>16. LH!Seen(<<st>>) = [n \in 1..L |-> W[n - 1].message]
    BY <1>11, <1>12, <1>13, <1>14, SameCounts
  <1>17. LH!Seen(<<st>>) = [n \in 1..L |-> st[n]]
    BY <1>15, <1>16
  <1>18. QED
    BY <1>17

-----------------------------------------------------------------------------
(* The topics of a log.                                                    *)

KnownIn(keys, row) == \E k \in keys : k.topic = row.topic /\ k.type = row.type

\* Each pair of a topic and a type has a number of its own.
Numbered(keys) ==
    /\ IsFiniteSet(keys)
    /\ \A k \in keys : k.id \in 1..Cardinality(keys)
    /\ \A a, b \in keys : a.id = b.id => a = b
    /\ \A a, b \in keys : a.topic = b.topic /\ a.type = b.type => a = b

KeysHold(l) ==
    /\ Numbered(l.keys)
    /\ \A i \in DOMAIN l.committed : KnownIn(l.keys, l.committed[i])
    /\ \A i \in DOMAIN l.pending : KnownIn(l.keys, l.pending[i])

LEMMA TopicNumbers ==
    ASSUME NEW keys, Numbered(keys), NEW topic, NEW type
    PROVE  /\ LH!TopicId(keys, topic, type) >= 0 <=>
                  \E k \in keys : k.topic = topic /\ k.type = type
           /\ \A k \in keys : k.topic = topic /\ k.type = type =>
                  LH!TopicId(keys, topic, type) = k.id
  <1>1. CASE \E k \in keys : k.topic = topic /\ k.type = type
    <2>1. PICK k \in keys : k.topic = topic /\ k.type = type
      BY <1>1
    <2>2. k \in LH!TopicsToMsgTypesToId(keys, topic)
      BY <2>1 DEF LH!TopicsToMsgTypesToId
    <2>3. LH!TopicId(keys, topic, type) =
              (CHOOSE key \in keys : key.topic = topic /\ key.type = type).id
      BY <2>1, <2>2 DEF LH!TopicId
    <2>4. (CHOOSE key \in keys : key.topic = topic /\ key.type = type) = k
      <3> DEFINE c == CHOOSE key \in keys : key.topic = topic /\ key.type = type
      <3>1. c \in keys /\ c.topic = topic /\ c.type = type
        BY <2>1
      <3> HIDE DEF c
      <3>2. c = k
        BY <2>1, <3>1 DEF Numbered
      <3>3. QED
        BY <3>2 DEF c
    <2>5. LH!TopicId(keys, topic, type) = k.id
      BY <2>3, <2>4
    <2>6. Cardinality(keys) \in Nat
      BY FS_CardinalityType DEF Numbered
    <2>7. k.id >= 0
      BY <2>6 DEF Numbered
    <2>8. \A m \in keys : m.topic = topic /\ m.type = type => m = k
      BY <2>1 DEF Numbered
    <2>9. QED
      BY <1>1, <2>5, <2>7, <2>8
  <1>2. CASE ~\E k \in keys : k.topic = topic /\ k.type = type
    <2>1. LH!TopicId(keys, topic, type) = -1
      BY <1>2 DEF LH!TopicId, LH!TopicsToMsgTypesToId
    <2>2. QED
      BY <1>2, <2>1
  <1>3. QED
    BY <1>1, <1>2

LEMMA KeysStay ==
    ASSUME NEW l, KeysHold(l), NEW m,
           m.keys = l.keys, m.committed = l.committed, m.pending = l.pending
    PROVE  KeysHold(m)
  BY DEF KeysHold

\* What leaves the database alone.
LEMMA KeysUnread ==
    ASSUME NEW l, CachesHold(l), KeysHold(l)
    PROVE  /\ KeysHold(LH!BeginTransactionIfNotInOne(l)) /\ KeysHold(LH!Older(l))
           /\ KeysHold(LH!WithDescriptor(l)) /\ LH!WithDescriptor(l).keys = l.keys
           /\ KeysHold(LH!AskStartTime(l)) /\ KeysHold(LH!AskEndTime(l))
           /\ KeysHold(LH!Unset(l)) /\ KeysHold([l EXCEPT !.needNewDescriptor = TRUE])
           /\ KeysHold(LH!Unset([l EXCEPT !.needNewDescriptor = TRUE]))
  <1> DEFINE Same(m) == m.keys = l.keys /\ m.committed = l.committed /\ m.pending = l.pending
  <1>1. /\ Same(LH!BeginTransactionIfNotInOne(l)) /\ Same(LH!Older(l))
        /\ Same(LH!WithDescriptor(l))
    BY DEF CachesHold, LogFields, LH!BeginTransactionIfNotInOne, LH!Older, LH!WithDescriptor
  <1>2. Same(LH!AskStartTime(l)) /\ Same(LH!AskEndTime(l))
    BY DEF CachesHold, LogFields, LH!AskStartTime, LH!AskEndTime
  <1>3. Same(LH!Unset(l)) /\ Same([l EXCEPT !.needNewDescriptor = TRUE])
    BY DEF CachesHold, LogFields, LH!Unset
  <1>4. Same(LH!Unset([l EXCEPT !.needNewDescriptor = TRUE]))
    BY DEF CachesHold, LogFields, LH!Unset
  <1>5. QED
    BY <1>1, <1>2, <1>3, <1>4, KeysStay

\* A topic is inserted when the descriptor that was just read has none of its pair.
LEMMA TopicIsNumbered ==
    ASSUME NEW l, CachesHold(l), KeysHold(l), NEW row
    PROVE  /\ KeysHold(LH!InsertOrGetTopicId(l, row))
           /\ KnownIn(LH!InsertOrGetTopicId(l, row).keys, row)
  <1> DEFINE r == LH!WithDescriptor(l)
             n == Cardinality(r.keys)
             key == [topic |-> row.topic, type |-> row.type, id |-> n + 1]
             m == LH!InsertTopic(r, row)
  <1>1. CachesHold(r) /\ r.descriptor = r.keys /\ KeysHold(r)
    BY DescriptorKeeps, KeysUnread
  <1> HIDE DEF r
  <1>2. LH!TopicId(r.keys, row.topic, row.type) >= 0 <=> KnownIn(r.keys, row)
    BY <1>1, TopicNumbers DEF KeysHold, KnownIn
  <1>3. CASE LH!TopicId(r.descriptor, row.topic, row.type) >= 0
    BY <1>1, <1>2, <1>3 DEF LH!InsertOrGetTopicId, r
  <1>4. CASE ~(LH!TopicId(r.descriptor, row.topic, row.type) >= 0)
    <2>1. LH!InsertOrGetTopicId(l, row) = m
      BY <1>4 DEF LH!InsertOrGetTopicId, r
    <2>2. m.keys = r.keys \cup {key} /\ m.committed = r.committed /\ m.pending = r.pending
      BY <1>1, SameCounts DEF LH!InsertTopic, CachesHold, LogFields
    <2>3. ~KnownIn(r.keys, row)
      BY <1>1, <1>2, <1>4
    <2>4. Numbered(r.keys) /\ IsFiniteSet(r.keys) /\ n \in Nat
      BY <1>1, FS_CardinalityType DEF KeysHold, Numbered
    <2>5. \A k \in r.keys : k.id \in 1..n /\ k.id # n + 1 /\ k # key
      BY <2>4 DEF Numbered
    <2>6. IsFiniteSet(r.keys \cup {key}) /\ Cardinality(r.keys \cup {key}) = n + 1
      BY <2>4, <2>5, FS_AddElement
    <2> HIDE DEF n, m
    <2>7. key.id = n + 1 /\ key.topic = row.topic /\ key.type = row.type
      OBVIOUS
    <2> HIDE DEF key
    <2>8. Numbered(m.keys)
      <3>1. \A k \in m.keys : k.id \in 1..n + 1
        BY <2>2, <2>4, <2>5, <2>7
      <3>2. ASSUME NEW a \in m.keys, NEW b \in m.keys, a.id = b.id PROVE a = b
        BY <2>2, <2>4, <2>5, <2>7, <3>2 DEF Numbered
      <3>3. ASSUME NEW a \in m.keys, NEW b \in m.keys, a.topic = b.topic, a.type = b.type
            PROVE  a = b
        BY <2>2, <2>3, <2>4, <2>7, <3>3 DEF Numbered, KnownIn
      <3>4. QED
        BY <2>2, <2>6, <3>1, <3>2, <3>3 DEF Numbered
    <2>9. \A q : KnownIn(r.keys, q) => KnownIn(m.keys, q)
      BY <2>2 DEF KnownIn
    <2>10. KnownIn(m.keys, row)
      BY <2>2, <2>7 DEF KnownIn
    <2>11. KeysHold(m)
      BY <1>1, <2>2, <2>8, <2>9 DEF KeysHold
    <2>12. QED
      BY <2>1, <2>10, <2>11
  <1>5. QED
    BY <1>3, <1>4

LEMMA RowIsKnown ==
    ASSUME NEW l, CachesHold(l), KeysHold(l), NEW row \in LH!Rows, KnownIn(l.keys, row)
    PROVE  KeysHold(LH!InsertRow(l, row))
  <1> DEFINE m == LH!InsertRow(l, row)
  <1>1. /\ m.keys = l.keys /\ m.committed = l.committed /\ m.pending = Append(l.pending, row)
        /\ l.pending \in Seq(LH!Rows)
    BY DEF LH!InsertRow, CachesHold, LogFields
  <1> HIDE DEF m
  <1>2. \A i \in DOMAIN m.pending : KnownIn(m.keys, m.pending[i])
    <2>1. SUFFICES ASSUME NEW i \in DOMAIN m.pending PROVE KnownIn(m.keys, m.pending[i])
      OBVIOUS
    <2>2. m.pending[i] = row \/ (i \in DOMAIN l.pending /\ m.pending[i] = l.pending[i])
      BY <1>1
    <2>3. QED
      BY <1>1, <2>2 DEF KeysHold
  <1>3. QED
    BY <1>1, <1>2 DEF KeysHold, m

\* What is known of the rows of two sequences is known of those of both.
LEMMA RowsOfBoth ==
    ASSUME NEW S, NEW s \in Seq(S), NEW t \in Seq(S), NEW keys,
           \A i \in DOMAIN s : KnownIn(keys, s[i]),
           \A i \in DOMAIN t : KnownIn(keys, t[i])
    PROVE  \A i \in DOMAIN (s \o t) : KnownIn(keys, (s \o t)[i])
  <1>1. s \o t \in Seq(S) /\ Len(s \o t) = Len(s) + Len(t)
    OBVIOUS
  <1>2. SUFFICES ASSUME NEW i \in 1..Len(s) + Len(t) PROVE KnownIn(keys, (s \o t)[i])
    <2>1. DOMAIN (s \o t) = 1..Len(s \o t)
      BY <1>1
    <2>2. QED
      BY <1>1, <2>1
  <1>3. Len(s) \in Nat /\ Len(t) \in Nat
    OBVIOUS
  <1>4. CASE i <= Len(s)
    <2>1. i \in DOMAIN s /\ (s \o t)[i] = s[i]
      BY <1>3, <1>4
    <2>2. QED
      BY <2>1
  <1>5. CASE i > Len(s)
    <2>1. i - Len(s) \in DOMAIN t
      BY <1>3, <1>5
    <2>2. (s \o t)[i] = t[i - Len(s)]
      BY <1>3, <1>5
    <2>3. QED
      BY <2>1, <2>2
  <1>6. i <= Len(s) \/ i > Len(s)
    BY <1>3
  <1>7. QED
    BY <1>4, <1>5, <1>6

LEMMA EndIsKnown ==
    ASSUME NEW l, CachesHold(l), KeysHold(l)
    PROVE  KeysHold(LH!EndTransaction(l))
  <1> DEFINE m == LH!EndTransaction(l)
  <1>1. /\ m.keys = l.keys /\ m.committed = l.committed \o l.pending /\ m.pending = <<>>
        /\ l.pending \in Seq(LH!Rows) /\ l.committed \in Seq(LH!Rows)
    BY DEF LH!EndTransaction, CachesHold, LogFields
  <1> HIDE DEF m
  <1>2. \A i \in DOMAIN m.committed : KnownIn(m.keys, m.committed[i])
    <2>1. \A i \in DOMAIN (l.committed \o l.pending) : KnownIn(l.keys, (l.committed \o l.pending)[i])
      BY <1>1, RowsOfBoth DEF KeysHold
    <2>2. QED
      BY <1>1, <2>1
  <1>3. \A i \in DOMAIN m.pending : KnownIn(m.keys, m.pending[i])
    BY <1>1
  <1>4. QED
    BY <1>1, <1>2, <1>3 DEF KeysHold, m

LEMMA KeysOfInsert ==
    ASSUME CachesHold(log), KeysHold(log), NEW row \in LH!Rows, LH!Insert(row)
    PROVE  KeysHold(log')
  <1> DEFINE begun == LH!BeginTransactionIfNotInOne(log)
             read == LH!WithDescriptor(begun)
             stale == [read EXCEPT !.needNewDescriptor = TRUE]
             kept == LH!Kept(log, row)
             known == LH!InsertOrGetTopicId(begun, row)
  <1>1. CachesHold(begun) /\ KeysHold(begun)
    BY BeginKeeps, KeysUnread
  <1>2. CachesHold(read) /\ KeysHold(read) /\ CachesHold(known) /\ KeysHold(known)
        /\ KnownIn(known.keys, row)
    BY <1>1, DescriptorKeeps, KeysUnread, TopicKeeps, TopicIsNumbered
  <1>3. CachesHold(kept) /\ KeysHold(kept)
    BY <1>2, RowKeeps, RowIsKnown DEF LH!Kept
  <1>4. KeysHold(LH!Inserted(log, row))
    BY <1>3, EndIsKnown DEF LH!Inserted
  <1>5. KeysHold(LH!EmptyRefused(log, row))
    BY <1>2 DEF LH!EmptyRefused
  <1>6. \A l \in LH!EndFailed(log, row) : KeysHold(l)
    BY <1>3 DEF LH!EndFailed
  <1>7. \A l \in LH!InsertFailed(log, row) : KeysHold(l)
    <2>1. \A l \in LH!InsertFailed(log, row) :
              l \in {log, begun, known, LH!Unset(known), stale, LH!Unset(stale)}
      BY FailedInsertions
    <2>2. KeysHold(LH!Unset(known)) /\ KeysHold(stale) /\ KeysHold(LH!Unset(stale))
      <3> HIDE DEF known, read
      <3>1. QED
        BY <1>2, KeysUnread
    <2> HIDE DEF known, stale, begun
    <2>3. QED
      BY <1>1, <1>2, <2>1, <2>2
  <1>8. QED
    BY <1>4, <1>5, <1>6, <1>7 DEF LH!Insert

-----------------------------------------------------------------------------
(* What a query of a log returns.                                          *)

\* The rows of some topics in a range of time.
WantedRows(rows, topics, range) ==
    { i \in DOMAIN rows : rows[i].topic \in topics /\ LH!TimeConditions(range, rows[i].time) }

LEMMA AnswerIsWanted ==
    ASSUME NEW S, NEW rows \in Seq(S), \A i \in DOMAIN rows : rows[i].time \in Int,
           NEW keys, Numbered(keys), \A i \in DOMAIN rows : KnownIn(keys, rows[i]),
           NEW topics, NEW range
    PROVE  LH!Seen(LH!TopicList(rows, keys, topics, range)) =
               LH!OrderByTime(rows, WantedRows(rows, topics, range))
  <1> DEFINE ids == { key.id : key \in LH!RowsOf(keys, topics) }
             positions == { i \in DOMAIN rows :
                           /\ LH!TopicId(keys, rows[i].topic, rows[i].type) \in ids
                           /\ LH!TimeConditions(range, rows[i].time) }
  <1>1. LH!TopicList(rows, keys, topics, range) = <<LH!OrderByTime(rows, positions)>>
    BY DEF LH!TopicList, LH!Statement
  <1>2. ASSUME NEW i \in DOMAIN rows
        PROVE  LH!TopicId(keys, rows[i].topic, rows[i].type) \in ids <=> rows[i].topic \in topics
    <2>1. PICK k \in keys : k.topic = rows[i].topic /\ k.type = rows[i].type
      BY DEF KnownIn
    <2>2. LH!TopicId(keys, rows[i].topic, rows[i].type) = k.id
      BY <2>1, TopicNumbers
    <2>3. \A key : key \in LH!RowsOf(keys, topics) <=> key \in keys /\ key.topic \in topics
      BY DEF LH!RowsOf, LH!TopicsToMsgTypesToId
    <2>4. k.id \in ids <=> \E key \in keys : key.topic \in topics /\ key.id = k.id
      BY <2>3
    <2>5. k.id \in ids <=> k.topic \in topics
      BY <2>4 DEF Numbered
    <2>6. QED
      BY <2>1, <2>2, <2>5
  <1>3. positions = WantedRows(rows, topics, range)
    BY <1>2 DEF WantedRows
  <1> HIDE DEF positions
  <1>4. positions \in SUBSET DOMAIN rows
    BY <1>3 DEF WantedRows
  <1>5. LH!OrderByTime(rows, positions) \in Seq(S)
    BY <1>4, StatementIsOrdered
  <1>6. QED
    BY <1>1, <1>3, <1>5, SeenOfOne

\* The queries of a log whose topics are numbered return what they should.
LEMMA QueriesAnswered ==
    ASSUME CachesHold(log), KeysHold(log)
    PROVE  LH!QueriesPartition
  <1> DEFINE rows == LH!Table(log)
             keys == LH!WithDescriptor(log).descriptor
             Answer(topics, range) == LH!Seen(LH!TopicList(rows, keys, topics, range))
             Wanted(topics, range) == WantedRows(rows, topics, range)
  <1>1. rows \in Seq(LH!Rows) /\ \A i \in DOMAIN rows : rows[i].time \in Int
    <2>1. rows \in Seq(LH!Rows)
      BY DEF CachesHold, LH!Table
    <2>2. \A r \in LH!Rows : r.time \in Int
      <3>1. 0..LastTime \subseteq Int
        OBVIOUS
      <3>2. \A r \in LH!Rows : r.time \in 0..LastTime
        BY DEF LH!Rows
      <3>3. QED
        BY <3>1, <3>2
    <2> HIDE DEF rows
    <2>3. QED
      BY <2>1, <2>2
  <1>2. keys = log.keys /\ Numbered(keys)
    BY DescriptorKeeps, KeysUnread DEF KeysHold
  <1>3. \A i \in DOMAIN rows : KnownIn(keys, rows[i])
    <2>1. log.committed \in Seq(LH!Rows) /\ log.pending \in Seq(LH!Rows)
      BY DEF CachesHold
    <2>2. \A i \in DOMAIN log.committed : KnownIn(keys, log.committed[i])
      BY <1>2 DEF KeysHold
    <2>3. \A i \in DOMAIN log.pending : KnownIn(keys, log.pending[i])
      BY <1>2 DEF KeysHold
    <2> HIDE DEF keys
    <2>4. \A i \in DOMAIN (log.committed \o log.pending) :
              KnownIn(keys, (log.committed \o log.pending)[i])
      BY <2>1, <2>2, <2>3, RowsOfBoth
    <2>5. QED
      BY <2>4 DEF LH!Table
  <1> HIDE DEF rows, keys
  <1>4. \A topics, range : Answer(topics, range) = LH!OrderByTime(rows, Wanted(topics, range))
    BY <1>1, <1>2, <1>3, AnswerIsWanted
  <1>5. \A topics, range : Wanted(topics, range) \in SUBSET DOMAIN rows
    BY DEF WantedRows
  <1>6. ASSUME NEW topics \in SUBSET {k.topic : k \in LoggedKeys}
        PROVE  LET wanted == { i \in DOMAIN rows : rows[i].topic \in topics }
                   all == Answer(topics, LH!AllTime)
               IN  /\ Len(all) = Cardinality(wanted)
                   /\ \E from \in [DOMAIN all -> wanted] :
                         /\ \A i \in DOMAIN all : all[i] = rows[from[i]]
                         /\ \A i, j \in DOMAIN all :
                                i < j => LH!Precedes(rows, from[i], from[j])
    <2> DEFINE wanted == { i \in DOMAIN rows : rows[i].topic \in topics }
               all == Answer(topics, LH!AllTime)
               n == Cardinality(wanted)
               from == [i \in 1..n |-> PositionOf(rows, wanted, i)]
    <2>1. Wanted(topics, LH!AllTime) = wanted
      BY DEF WantedRows, LH!AllTime, LH!TimeRange, LH!Indeterminate, LH!TimeConditions
    <2>2. wanted \in SUBSET DOMAIN rows
      OBVIOUS
    <2> HIDE DEF wanted
    <2>3. all = LH!OrderByTime(rows, wanted)
      BY <1>4, <2>1
    <2> HIDE DEF all
    <2>4. /\ all \in Seq(LH!Rows) /\ Len(all) = n
          /\ \A k \in 1..n : all[k] = rows[PositionOf(rows, wanted, k)]
          /\ \A i, j \in 1..n : i < j => LH!Precedes(rows, PositionOf(rows, wanted, i),
                                                          PositionOf(rows, wanted, j))
      BY <1>1, <2>2, <2>3, StatementIsOrdered
    <2>5. DOMAIN all = 1..n
      BY <2>4
    <2>6. \A k \in 1..n : PositionOf(rows, wanted, k) \in wanted
      BY <1>1, <2>2, PositionIsUnique
    <2>7. from \in [DOMAIN all -> wanted] /\ \A k \in 1..n : from[k] = PositionOf(rows, wanted, k)
      BY <2>5, <2>6
    <2> HIDE DEF from
    <2>8. /\ \A i \in DOMAIN all : all[i] = rows[from[i]]
          /\ \A i, j \in DOMAIN all : i < j => LH!Precedes(rows, from[i], from[j])
      BY <2>4, <2>5, <2>7
    <2>9. Len(all) = Cardinality(wanted)
          /\ \E f \in [DOMAIN all -> wanted] :
                /\ \A i \in DOMAIN all : all[i] = rows[f[i]]
                /\ \A i, j \in DOMAIN all : i < j => LH!Precedes(rows, f[i], f[j])
      BY <2>4, <2>7, <2>8
    <2>10. QED
      BY <2>9 DEF wanted, all
  <1>7. ASSUME NEW topics \in SUBSET {k.topic : k \in LoggedKeys}, NEW t \in 0..LastTime,
               NEW q \in {"INCLUSIVE", "EXCLUSIVE"}
        PROVE  Answer(topics, LH!Until(LH!QualifiedTime(t, q))) \o
                   Answer(topics, LH!From(LH!QualifiedTime(t,
                       IF q = "INCLUSIVE" THEN "EXCLUSIVE" ELSE "INCLUSIVE")))
                 = Answer(topics, LH!AllTime)
    <2> DEFINE p == IF q = "INCLUSIVE" THEN "EXCLUSIVE" ELSE "INCLUSIVE"
               A == Wanted(topics, LH!Until(LH!QualifiedTime(t, q)))
               B == Wanted(topics, LH!From(LH!QualifiedTime(t, p)))
               C == Wanted(topics, LH!AllTime)
               Before(time) == IF q = "INCLUSIVE" THEN time <= t ELSE time < t
    <2>1. t \in Int
      OBVIOUS
    <2>2. \A i : i \in A <=> i \in DOMAIN rows /\ rows[i].topic \in topics /\ Before(rows[i].time)
      BY DEF WantedRows, LH!Until, LH!QualifiedTime, LH!TimeRange, LH!Indeterminate,
         LH!TimeConditions
    <2>3. \A i : i \in B <=> i \in DOMAIN rows /\ rows[i].topic \in topics /\ ~Before(rows[i].time)
      <3>1. \A i \in DOMAIN rows :
                LH!TimeConditions(LH!From(LH!QualifiedTime(t, p)), rows[i].time)
                    <=> ~Before(rows[i].time)
        BY <1>1, <2>1 DEF LH!From, LH!QualifiedTime, LH!TimeRange, LH!Indeterminate,
           LH!TimeConditions
      <3>2. QED
        BY <3>1 DEF WantedRows
    <2>4. \A i : i \in C <=> i \in DOMAIN rows /\ rows[i].topic \in topics
      BY DEF WantedRows, LH!AllTime, LH!TimeRange, LH!Indeterminate, LH!TimeConditions
    <2>5. A \in SUBSET DOMAIN rows /\ B \in SUBSET DOMAIN rows
      BY <1>5
    <2> HIDE DEF A, B, C
    <2>6. C = A \cup B
      BY <2>2, <2>3, <2>4
    <2>7. \A i \in A, j \in B : LH!Precedes(rows, i, j)
      <3>1. SUFFICES ASSUME NEW i \in A, NEW j \in B PROVE rows[i].time < rows[j].time
        BY DEF LH!Precedes
      <3>2. rows[i].time \in Int /\ rows[j].time \in Int
        BY <1>1, <2>5
      <3>3. QED
        BY <2>1, <2>2, <2>3, <3>2
    <2>8. LH!OrderByTime(rows, A) \o LH!OrderByTime(rows, B) = LH!OrderByTime(rows, C)
      <3>1. LH!OrderByTime(rows, A) \o LH!OrderByTime(rows, B) = LH!OrderByTime(rows, A \cup B)
        BY <1>1, <2>5, <2>7, StatementSplits
      <3>2. QED
        BY <2>6, <3>1
    <2>9. /\ Answer(topics, LH!Until(LH!QualifiedTime(t, q))) = LH!OrderByTime(rows, A)
          /\ Answer(topics, LH!From(LH!QualifiedTime(t, p))) = LH!OrderByTime(rows, B)
          /\ Answer(topics, LH!AllTime) = LH!OrderByTime(rows, C)
      BY <1>4 DEF A, B, C
    <2> HIDE DEF Answer
    <2>10. QED
      BY <2>8, <2>9
  <1>8. QED
    BY <1>6, <1>7, SameCounts DEF LH!QueriesPartition, rows, keys

\* The handle of a log answers for what its database holds: its caches are current,
\* but for a time that a failed query left, which no insertion leaves there, and a query
\* of some topics returns each of their messages once, in order, and loses none of
\* them at the end of a range: LogAnswers of MCParts, for any rows, topics and times,
\* and whichever of the statements fail.
THEOREM LogsAnswer == PartsSpec => []LogAnswers
  <1> DEFINE I == part = "log" => CachesHold(log) /\ GuessesHold /\ KeysHold(log)
  <1>1. PartsInit => I
    <2>1. PartsInit /\ part = "log" => log = LH!NewLog /\ guessed = {}
      BY DEF PartsInit, LH!Init
    <2>2. CachesHold(LH!NewLog)
      BY DEF LH!NewLog, CachesHold, CachesCurrentIn, LH!Unknown, LogFields
    <2>3. KeysHold(LH!NewLog)
      BY FS_EmptySet DEF LH!NewLog, KeysHold, Numbered
    <2>4. QED
      BY <2>1, <2>2, <2>3 DEF GuessesHold
  <1>2. I /\ [PartsNext]_AllVars => I'
    <2>1. LH!Next /\ CachesHold(log) /\ GuessesHold => CachesHold(log)' /\ GuessesHold'
      <3>1. ASSUME CachesHold(log), GuessesHold, NEW row \in LH!Rows, LH!Insert(row)
            PROVE  CachesHold(log)' /\ GuessesHold'
        <4>1. CachesHold(log')
          BY <3>1, InsertKeeps
        <4>2. guessed' = guessed \ LH!Uncached(log')
          BY <3>1 DEF LH!Insert
        <4>3. QED
          BY <4>1, <4>2, GuessesKeep
      <3>2. ASSUME CachesHold(log), GuessesHold, LH!Ask PROVE CachesHold(log)' /\ GuessesHold'
        <4>1. LH!WithDescriptor(log).startTime = log.startTime
              /\ LH!WithDescriptor(log).endTime = log.endTime
          BY <3>2 DEF CachesHold, LogFields, LH!WithDescriptor
        <4>2. guessed \cap LH!Uncached(LH!WithDescriptor(log)) = {}
          BY <3>2, <4>1 DEF GuessesHold, LH!Uncached
        <4>3. CachesHold(log') /\ guessed \cap LH!Uncached(log') = {} /\ guessed' = guessed
          BY <3>2, <4>2, AskKeeps, DescriptorKeeps DEF LH!Ask
        <4>4. guessed' = guessed \ LH!Uncached(log')
          BY <4>3
        <4>5. QED
          BY <4>3, <4>4, GuessesKeep
      <3>3. ASSUME CachesHold(log), GuessesHold, LH!Grow PROVE CachesHold(log)' /\ GuessesHold'
        <4>1. log'.startTime = log.startTime /\ log'.endTime = log.endTime
          BY <3>3 DEF CachesHold, LogFields, LH!Grow, LH!Older
        <4>2. CachesHold(log') /\ guessed' = guessed
          BY <3>3, OlderKeeps DEF LH!Grow
        <4>3. guessed' = guessed \ LH!Uncached(log')
          BY <3>3, <4>1, <4>2 DEF GuessesHold, LH!Uncached
        <4>4. QED
          BY <4>2, <4>3, GuessesKeep
      <3>4. QED
        BY <3>1, <3>2, <3>3, AskFailsKeeps DEF LH!Next
    <2>2. LH!Next /\ CachesHold(log) /\ GuessesHold /\ KeysHold(log) => KeysHold(log')
      BY KeysOfInsert, KeysUnread, AskFailsKeeps, KeysStay DEF LH!Next, LH!Ask, LH!Grow
    <2>3. CachesHold(log) /\ GuessesHold /\ KeysHold(log) /\ UNCHANGED logVars
              => CachesHold(log)' /\ GuessesHold' /\ KeysHold(log)'
      <3>1. logVars' = logVars <=> log' = log /\ guessed' = guessed
        BY DEF logVars
      <3>2. QED
        BY <3>1 DEF CachesHold, CachesCurrentIn, GuessesHold
    <2>4. QED
      BY PartStays, <2>1, <2>2, <2>3 DEF PartsNext, AllVars, logVars
  <1>3. I => LogAnswers
    BY QueriesAnswered DEF LogAnswers, CachesHold, CachesCurrentIn, LH!CachesCurrent
  <1>4. QED
    BY <1>1, <1>2, <1>3, PTL DEF PartsSpec
=============================================================================
