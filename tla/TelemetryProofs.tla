-------------------------- MODULE TelemetryProofs --------------------------
(***************************************************************************)
(* What holds of Telemetry for any number of requests.                     *)
(***************************************************************************)
EXTENDS Telemetry, TLAPS

\* The seven metrics and their order.
LEMMA NamesFacts ==
  /\ Len(Names) = 7 /\ DOMAIN Names = 1 .. 7
  /\ Names[1] = "api_requests"
  /\ \A i \in 1 .. 7 : Names[i] \in Metrics
  /\ Metrics = {"api_requests", "started", "completed", "failed", "jobs_queued", "rate_limited",
                 "limiter_failures"}
<1>1. Len(Names) = 7 /\ DOMAIN Names = 1 .. 7 /\ Names[1] = "api_requests"
  BY DEF Names
<1>2. \A i \in 1 .. 7 : Names[i] \in Metrics
  BY <1>1 DEF Metrics
<1>3. Metrics = {"api_requests", "started", "completed", "failed", "jobs_queued", "rate_limited",
                 "limiter_failures"}
  <2>1. 1 .. 7 = {1, 2, 3, 4, 5, 6, 7}
    OBVIOUS
  <2>2. Metrics = {Names[1], Names[2], Names[3], Names[4], Names[5], Names[6],
                 Names[7]}
    BY <1>1, <2>1 DEF Metrics
  <2> QED
    BY <2>2 DEF Names
<1> QED
  BY <1>1, <1>2, <1>3

-----------------------------------------------------------------------------
(***************************************************************************)
(* The inductive invariant.  The registry decides who creates the metrics: *)
(* its first name is taken as long as somebody is past it (Taken).  The    *)
(* middleware's metric is the first in the dictionary (Opened).  A request *)
(* that has counted something once never creates metrics again, and an     *)
(* evaluation has counted its start before its work (Sound).               *)
(***************************************************************************)
Steps ==
  \A r \in Requests :
    /\ creating[r].step = "check" => creating[r].at = 1
    /\ creating[r].step # "check" => place[r] \in Calls
    /\ creating[r].step = "store" => Names[creating[r].at] \in registry

Taken == /\ Creators # {} => "api_requests" \in registry
         /\ OneCreator

Opened ==
  /\ metrics # {} => "api_requests" \in metrics
  /\ \A r \in Requests : creating[r].at > 1 => metrics # {}

AtStart == {"limiter_failures", "started"}

Sound(r) ==
  /\ place[r] \in AtStart \cup {"evaluate", "completed", "failed", "api_requests", "answered", "error"}
  /\ place[r] \in AtStart \cup {"evaluate"} => work[r] = "none"
  /\ place[r] = "failed" => work[r] = "failed"
  /\ work[r] = "done" => place[r] # "error"
  /\ work[r] # "failed" => r \notin counted["failed"]
  /\ place[r] \notin AtStart \cup {"error"} => metrics # {} /\ creating[r].step = "check"

IInv == /\ TypeOK /\ Steps /\ Taken /\ Opened /\ AnsweredIsCounted
        /\ \A r \in Requests : kind[r] = "evaluation" => Sound(r)

\* The initial states.
LEMMA InitIInv == Init => IInv
<1> SUFFICES ASSUME Init PROVE IInv
  OBVIOUS
<1>1. /\ registry = {} /\ metrics = {}
      /\ kind \in [Requests -> Kinds]
      /\ place \in [Requests -> {"limiter_failures"} \cup {First(k) : k \in Kinds}]
      /\ \A r \in Requests : place[r] \in {"limiter_failures", First(kind[r])}
      /\ creating = [r \in Requests |-> Checking]
      /\ work = [r \in Requests |-> "none"]
      /\ counted = [m \in Metrics |-> {}]
  BY DEF Init
<1>2. \A r \in Requests : /\ creating[r].step = "check" /\ creating[r].at = 1
                          /\ place[r] \in {"limiter_failures", "started", "dispatch",
                                           "rate_limited", "scrape", "api_requests"}
                          /\ kind[r] = "evaluation" => place[r] \in AtStart
  BY <1>1 DEF Checking, First, Kinds, AtStart
<1>3. TypeOK
  <2>1. place \in [Requests -> Places]
    BY <1>1, <1>2, NamesFacts DEF Places
  <2>2. creating \in [Requests -> [step : {"check", "register", "store"}, at : 1 .. Len(Names)]]
    BY <1>1, NamesFacts DEF Checking
  <2> QED
    BY <1>1, <2>1, <2>2 DEF TypeOK
<1>4. Steps /\ Taken /\ Opened /\ AnsweredIsCounted
  BY <1>1, <1>2 DEF Steps, Taken, Creators, OneCreator, Opened, AnsweredIsCounted
<1>5. \A r \in Requests : kind[r] = "evaluation" => Sound(r)
  BY <1>1, <1>2, NamesFacts DEF Sound, AtStart
<1> QED
  BY <1>3, <1>4, <1>5 DEF IInv

\* A call that returns keeps IInv: the middleware's metric is there to be incremented.
LEMMA ReturnKeeps ==
  ASSUME IInv, NEW r \in Requests, Return(r, metrics'), place[r] \in Calls,
         "api_requests" \in metrics', metrics \subseteq metrics', metrics' \subseteq registry,
         UNCHANGED <<registry, kind, work>>
  PROVE  IInv'
<1> USE NamesFacts
<1>1. /\ creating'[r].step = "check" /\ creating'[r].at = 1
      /\ place'[r] = Then(r)
      /\ \A q \in Requests : q # r => place'[q] = place[q]
      /\ \A q \in Requests : q # r => creating'[q] = creating[q]
  BY DEF Return, Goto, Checking, IInv, TypeOK
<1>2. /\ place[r] = "started" => place'[r] = "evaluate"
      /\ place[r] = "api_requests" => place'[r] = "answered"
      /\ place[r] \notin {"limiter_failures", "started", "api_requests"} => place'[r] = "api_requests"
      /\ place[r] = "limiter_failures" => place'[r] = First(kind[r])
      /\ First(kind[r]) \in {"started", "dispatch", "rate_limited", "scrape", "api_requests"}
      /\ kind[r] = "evaluation" => First(kind[r]) = "started"
  BY <1>1 DEF Then, First, Kinds, IInv, TypeOK
<1>3. /\ counted' \in [Metrics -> SUBSET Requests]
      /\ place[r] = "api_requests" => r \in counted'["api_requests"]
      /\ counted["api_requests"] \subseteq counted'["api_requests"]
      /\ place[r] # "failed" => counted'["failed"] = counted["failed"]
      /\ counted'["failed"] \subseteq counted["failed"] \cup {r}
  <2>1. counted \in [Metrics -> SUBSET Requests] /\ metrics' \subseteq Metrics
    BY DEF IInv, TypeOK
  <2>2. CASE place[r] \in metrics'
    <3>1. place[r] \in Metrics /\ counted' = [counted EXCEPT ![place[r]] = @ \cup {r}]
      BY <2>1, <2>2 DEF Return
    <3> QED
      BY <2>1, <3>1
  <2>3. CASE place[r] \notin metrics'
    <3>1. counted' = counted /\ place[r] # "api_requests"
      BY <2>3 DEF Return
    <3> QED
      BY <2>1, <3>1
  <2> QED
    BY <2>2, <2>3
<1>4. TypeOK'
  <2>1. place' \in [Requests -> Places]
    BY <1>2 DEF Return, Goto, Then, IInv, TypeOK, Places, Ended
  <2>2. creating' \in [Requests -> [step : {"check", "register", "store"}, at : 1 .. Len(Names)]]
    BY DEF Return, Checking, IInv, TypeOK
  <2> QED
    BY <1>3, <2>1, <2>2 DEF IInv, TypeOK
<1>5. Steps'
  BY <1>1 DEF IInv, Steps
<1>6. Taken'
  <2>1. Creators' \subseteq Creators
    BY <1>1 DEF Creators
  <2> QED
    BY <2>1 DEF IInv, Taken, OneCreator
<1>7. Opened'
  BY DEF Opened
<1>8. AnsweredIsCounted'
  BY <1>1, <1>2, <1>3 DEF IInv, AnsweredIsCounted
<1>9. ASSUME NEW q \in Requests, kind'[q] = "evaluation" PROVE Sound(q)'
  <2>1. Sound(q)
    BY <1>9 DEF IInv
  <2>2. CASE q # r
    BY <1>1, <1>3, <2>1, <2>2 DEF Sound, AtStart
  <2>3. CASE q = r
    BY <1>1, <1>2, <1>3, <1>9, <2>1, <2>3 DEF Sound, AtStart, Calls
  <2> QED
    BY <2>2, <2>3
<1> QED
  BY <1>4, <1>5, <1>6, <1>7, <1>8, <1>9 DEF IInv

\* Request r goes on creating metrics, at the given step and metric.
Creating(r, step, at) ==
  /\ creating' \in [Requests -> [step : {"check", "register", "store"}, at : 1 .. Len(Names)]]
  /\ creating'[r].step = step
  /\ creating'[r].at = at
  /\ \A q \in Requests : q # r => creating'[q] = creating[q]

\* A step within the creation keeps IInv if the dictionary only grows and the registry's first
\* name is taken by whoever gets past it.
LEMMA CreatingKeeps ==
  ASSUME IInv, NEW r \in Requests, place[r] \in Calls,
         NEW step, step \in {"register", "store"}, NEW at, at \in 1 .. 7,
         Creating(r, step, at),
         step = "store" => Names[at] \in registry',
         step = "store" \/ at > 1 => "api_requests" \in registry'
                                      /\ (r \in Creators \/ Creators = {}),
         at > 1 => metrics' # {},
         metrics' # {} => "api_requests" \in metrics',
         metrics \subseteq metrics', metrics' \subseteq registry',
         registry \subseteq registry', registry' \subseteq Metrics,
         kind[r] = "evaluation" => place[r] \in AtStart,
         UNCHANGED <<kind, place, work, counted>>
  PROVE  IInv'
<1> USE NamesFacts
<1>1. /\ creating'[r].step = step /\ creating'[r].at = at
      /\ \A q \in Requests : q # r => creating'[q] = creating[q]
  BY DEF Creating
<1>2. TypeOK'
  BY DEF Creating, IInv, TypeOK
<1>3. Steps'
  <2>1. ASSUME NEW q \in Requests
        PROVE  /\ creating'[q].step = "check" => creating'[q].at = 1
               /\ creating'[q].step # "check" => place'[q] \in Calls
               /\ creating'[q].step = "store" => Names[creating'[q].at] \in registry'
    <3>1. CASE q = r
      BY <1>1, <3>1
    <3>2. CASE q # r
      BY <1>1, <3>2 DEF IInv, Steps
    <3> QED
      BY <3>1, <3>2
  <2> QED
    BY <2>1 DEF Steps
<1>4. Taken'
  <2>1. CASE step = "store" \/ at > 1
    <3>1. \A q \in Creators' : q \in Creators \/ q = r
      BY <1>1 DEF Creators
    <3> QED
      BY <2>1, <3>1 DEF IInv, Taken, OneCreator
  <2>2. CASE ~(step = "store" \/ at > 1)
    <3>1. Creators' \subseteq Creators
      BY <1>1, <2>2 DEF Creators
    <3> QED
      BY <3>1 DEF IInv, Taken, OneCreator
  <2> QED
    BY <2>1, <2>2
<1>5. Opened'
  BY <1>1 DEF IInv, Opened
<1>6. AnsweredIsCounted'
  BY DEF IInv, AnsweredIsCounted
<1>7. ASSUME NEW q \in Requests, kind'[q] = "evaluation" PROVE Sound(q)'
  <2>1. Sound(q) /\ (metrics # {} => metrics' # {})
    BY <1>7 DEF IInv
  <2>2. CASE q # r
    BY <1>1, <2>1, <2>2 DEF Sound, AtStart
  <2>3. CASE q = r
    BY <1>7, <2>1, <2>3 DEF Sound, AtStart
  <2> QED
    BY <2>2, <2>3
<1> QED
  BY <1>2, <1>3, <1>4, <1>5, <1>6, <1>7 DEF IInv

\* An evaluation that is creating metrics is at its first one.
LEMMA CreatorsAreFirst ==
  ASSUME IInv, NEW r \in Requests, kind[r] = "evaluation",
         creating[r].step # "check" \/ metrics = {}, place[r] \in Calls
  PROVE  place[r] \in AtStart
  BY NamesFacts DEF IInv, Sound, AtStart, Calls

\* "if _metrics: return"
LEMMA CheckKeeps == ASSUME IInv, NEW r \in Requests, Check(r) PROVE IInv'
<1>1. /\ place[r] \in Calls /\ creating[r].step = "check"
      /\ UNCHANGED <<registry, metrics, kind, work>>
  BY DEF Check
<1>2. CASE metrics # {} /\ Return(r, metrics)
  BY <1>1, <1>2, ReturnKeeps DEF IInv, TypeOK, Opened
<1>3. CASE /\ metrics = {}
           /\ creating' = [creating EXCEPT ![r].step = "register"]
           /\ UNCHANGED <<place, counted>>
  <2>1. creating[r].at = 1
    BY <1>1 DEF IInv, Steps
  <2>2. Creating(r, "register", 1)
    BY <1>3, <2>1 DEF Creating, IInv, TypeOK
  <2>3. kind[r] = "evaluation" => place[r] \in AtStart
    BY <1>1, <1>3, CreatorsAreFirst
  <2>4. /\ registry' = registry /\ metrics' = metrics /\ metrics \subseteq registry
        /\ registry \subseteq Metrics /\ (metrics' # {} => "api_requests" \in metrics')
    BY <1>1 DEF IInv, TypeOK, Opened
  <2>5. 1 \in 1 .. 7 /\ ~(1 > 1)
    OBVIOUS
  <2> QED
    BY <1>1, <1>3, <2>2, <2>3, <2>4, <2>5, CreatingKeeps
<1> QED
  BY <1>2, <1>3 DEF Check

\* The registry takes the name, or the call raises.
LEMMA RegisterKeeps == ASSUME IInv, NEW r \in Requests, Register(r) PROVE IInv'
<1> USE NamesFacts
<1> DEFINE at   == creating[r].at
           name == Names[at]
<1>1. /\ creating[r].step = "register" /\ place[r] \in Calls
      /\ at \in 1 .. 7
      /\ UNCHANGED <<metrics, kind, work, counted>>
  BY DEF Register, IInv, TypeOK, Steps
<1>2. kind[r] = "evaluation" => place[r] \in AtStart
  BY <1>1, CreatorsAreFirst
<1>3. CASE /\ name \notin registry /\ registry' = registry \cup {name}
           /\ creating' = [creating EXCEPT ![r].step = "store"]
           /\ UNCHANGED place
  <2>1. Creating(r, "store", at)
    BY <1>1, <1>3 DEF Creating, IInv, TypeOK
  <2>2. "api_requests" \in registry' /\ (r \in Creators \/ Creators = {})
    <3>1. CASE at = 1
      BY <1>3, <3>1 DEF IInv, Taken
    <3>2. CASE at > 1
      BY <1>3, <3>2 DEF IInv, Taken, Creators
    <3> QED
      BY <1>1, <3>1, <3>2
  <2>3. at > 1 => metrics' # {}
    BY <1>1 DEF IInv, Opened
  <2> HIDE DEF at
  <2> QED
    BY <1>1, <1>2, <1>3, <2>1, <2>2, <2>3, CreatingKeeps DEF IInv, TypeOK, Opened
<1>4. CASE name \in registry /\ Raise(r) /\ UNCHANGED registry
  <2>1. /\ creating'[r].step = "check" /\ creating'[r].at = 1
        /\ \A q \in Requests : q # r => creating'[q] = creating[q]
        /\ \A q \in Requests : q # r => place'[q] = place[q]
        /\ place'[r] \in {"failed", "error"}
        /\ place[r] # "completed" => place'[r] = "error"
    BY <1>4 DEF Raise, Goto, Checking, IInv, TypeOK
  <2>2. TypeOK'
    <3>1. place' \in [Requests -> Places]
      BY <1>4 DEF Raise, Goto, IInv, TypeOK, Places, Ended
    <3>2. creating' \in [Requests -> [step : {"check", "register", "store"}, at : 1 .. Len(Names)]]
      BY <1>4 DEF Raise, Checking, IInv, TypeOK
    <3> QED
      BY <1>1, <1>4, <3>1, <3>2 DEF IInv, TypeOK
  <2>3. Steps'
    BY <1>4, <2>1 DEF IInv, Steps
  <2>4. Taken'
    <3>1. Creators' \subseteq Creators
      BY <2>1 DEF Creators
    <3> QED
      BY <1>4, <3>1 DEF IInv, Taken, OneCreator
  <2>5. Opened'
    BY <1>1, <2>1 DEF IInv, Opened
  <2>6. AnsweredIsCounted'
    BY <1>1, <2>1 DEF IInv, AnsweredIsCounted
  <2>7. ASSUME NEW q \in Requests, kind'[q] = "evaluation" PROVE Sound(q)'
    <3>1. CASE q # r
      BY <1>1, <2>1, <2>7, <3>1 DEF IInv, Sound, AtStart
    <3>2. CASE q = r
      <4>1. place[r] \in AtStart /\ place'[r] = "error" /\ Sound(r)
        BY <1>1, <1>2, <2>1, <2>7, <3>2 DEF IInv, AtStart
      <4> QED
        BY <1>1, <2>1, <3>2, <4>1 DEF Sound, AtStart
    <3> QED
      BY <3>1, <3>2
  <2> QED
    BY <2>2, <2>3, <2>4, <2>5, <2>6, <2>7 DEF IInv
<1> QED
  BY <1>3, <1>4 DEF Register

\* The dictionary takes the metric.
LEMMA StoreKeeps == ASSUME IInv, NEW r \in Requests, Store(r) PROVE IInv'
<1> USE NamesFacts
<1> DEFINE at == creating[r].at
<1>1. /\ creating[r].step = "store" /\ place[r] \in Calls
      /\ at \in 1 .. 7
      /\ Names[at] \in registry
      /\ metrics' = metrics \cup {Names[at]}
      /\ UNCHANGED <<registry, kind, work>>
  BY DEF Store, IInv, TypeOK, Steps
<1>2. kind[r] = "evaluation" => place[r] \in AtStart
  BY <1>1, CreatorsAreFirst
<1>3. "api_requests" \in metrics'
  <2>1. CASE at = 1
    BY <1>1, <2>1
  <2>2. CASE at > 1
    BY <1>1, <2>2 DEF IInv, Opened
  <2> QED
    BY <1>1, <2>1, <2>2
<1>4. metrics \subseteq metrics' /\ metrics' \subseteq registry
  BY <1>1 DEF IInv, TypeOK
<1>5. CASE /\ at < 7
           /\ creating' = [creating EXCEPT ![r] = [step |-> "register", at |-> at + 1]]
           /\ UNCHANGED <<place, counted>>
  <2>1. r \in Creators /\ "api_requests" \in registry /\ at + 1 \in 1 .. 7
    BY <1>1, <1>5 DEF IInv, Taken, Creators
  <2>2. Creating(r, "register", at + 1)
    BY <1>5, <2>1 DEF Creating, IInv, TypeOK
  <2> HIDE DEF at
  <2> QED
    BY <1>1, <1>2, <1>3, <1>4, <1>5, <2>1, <2>2, CreatingKeeps DEF IInv, TypeOK
<1>6. CASE Return(r, metrics')
  BY <1>1, <1>3, <1>4, <1>6, ReturnKeeps
<1> QED
  BY <1>5, <1>6 DEF Store

\* The work of the routes touches no metric.
LEMMA WorkKeeps == ASSUME IInv, NEW r \in Requests, Evaluate(r) \/ Dispatch(r) PROVE IInv'
<1> USE NamesFacts
<1>1. /\ place[r] \in {"evaluate", "dispatch"}
      /\ UNCHANGED <<registry, metrics, kind, creating, counted>>
  BY DEF Evaluate, Dispatch
<1>2. /\ place'[r] \in {"completed", "failed", "jobs_queued", "error"}
      /\ work'[r] \in {"done", "failed"}
      /\ place[r] = "evaluate" => \/ place'[r] = "completed" /\ work'[r] = "done"
                                  \/ place'[r] = "failed" /\ work'[r] = "failed"
      /\ \A q \in Requests : q # r => place'[q] = place[q]
      /\ \A q \in Requests : q # r => work'[q] = work[q]
  BY DEF Evaluate, Dispatch, Goto, IInv, TypeOK
<1>3. TypeOK'
  BY <1>1, <1>2 DEF Evaluate, Dispatch, Goto, IInv, TypeOK, Places, Ended
<1>4. creating[r].step = "check"
  BY <1>1 DEF IInv, Steps, Calls
<1>5. Steps'
  BY <1>1, <1>2, <1>4 DEF IInv, Steps
<1>6. Taken' /\ Opened'
  BY <1>1 DEF IInv, Taken, Opened, OneCreator, Creators
<1>7. AnsweredIsCounted'
  BY <1>1, <1>2 DEF IInv, AnsweredIsCounted
<1>8. ASSUME NEW q \in Requests, kind'[q] = "evaluation" PROVE Sound(q)'
  <2>1. Sound(q)
    BY <1>1, <1>8 DEF IInv
  <2>2. CASE q # r
    BY <1>1, <1>2, <2>1, <2>2 DEF Sound, AtStart
  <2>3. CASE q = r
    BY <1>1, <1>2, <1>4, <2>1, <2>3 DEF Sound, AtStart
  <2> QED
    BY <2>2, <2>3
<1> QED
  BY <1>3, <1>5, <1>6, <1>7, <1>8 DEF IInv

\* IInv is inductive.
LEMMA NextIInv == IInv /\ [Next]_vars => IInv'
<1> SUFFICES ASSUME IInv, [Next]_vars PROVE IInv'
  OBVIOUS
<1>1. CASE UNCHANGED vars
  BY <1>1 DEF vars, IInv, TypeOK, Steps, Taken, Opened, OneCreator, Creators, AnsweredIsCounted, Sound, AtStart
<1>2. CASE Next
  BY <1>2, CheckKeeps, RegisterKeeps, StoreKeeps, WorkKeeps DEF Next, Serve, EnsureMetrics
<1> QED
  BY <1>1, <1>2

\* IInv holds of every reachable state.
LEMMA Inductive == Spec => []IInv
  BY InitIInv, NextIInv, PTL DEF Spec

-----------------------------------------------------------------------------
\* Types: in particular a metric in the dictionary is registered.
THEOREM TypeCorrect == Spec => []TypeOK
<1>1. IInv => TypeOK
  BY DEF IInv
<1> QED
  BY <1>1, Inductive, PTL

\* For any number of racing requests one at most is past the first name of the registry: the
\* refusal of a duplicate name is the lock the code does not have.
THEOREM CreationIsExclusive == Spec => []OneCreator
<1>1. IInv => OneCreator
  BY DEF IInv, Taken
<1> QED
  BY <1>1, Inductive, PTL

\* For any number of requests: an answer of the middleware is in api_requests_total.
THEOREM NoAnswerIsLost == Spec => []AnsweredIsCounted
<1>1. IInv => AnsweredIsCounted
  BY DEF IInv
<1> QED
  BY <1>1, Inductive, PTL

\* For any number of requests: the creation of the metrics fails no evaluation that is done.
THEOREM EvaluationSurvivesMetrics == Spec => []EvaluationIsAnswered
<1>1. IInv => EvaluationIsAnswered
  BY DEF IInv, Sound, EvaluationIsAnswered
<1> QED
  BY <1>1, Inductive, PTL
=============================================================================
