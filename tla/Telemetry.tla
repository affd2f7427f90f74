----------------------------- MODULE Telemetry -----------------------------
(***************************************************************************)
(* The metrics of one API process (app/observability/metrics.py) and the   *)
(* requests that count something: the routes in the threads of the pool,   *)
(* the middleware of app/main.py on the event loop.                        *)
(*                                                                         *)
(* The first call that finds no metric creates them all, one after the     *)
(* other and without a lock: each is registered with prometheus_client,    *)
(* which refuses a name it has (ValueError), and then put into the module's *)
(* dictionary.  An action is one access to the registry or the dictionary  *)
(* with the local steps around it.                                         *)
(***************************************************************************)
EXTENDS Naturals, Sequences

CONSTANTS
  Requests   \* the requests of the process, one thread each

\* Mutant of Names: the metric of the middleware comes last.
NamesLast == <<"started", "completed", "failed", "jobs_queued", "rate_limited",
               "limiter_failures", "api_requests">>

\* The counters the requests below use, in the order of their creation.  (The histograms a
\* request observes right after one of them, the counters that only the workers use and
\* those nobody uses are left out.)
Names == <<"api_requests", "started", "completed", "failed", "jobs_queued", "rate_limited",
           "limiter_failures">>

Metrics == {Names[i] : i \in DOMAIN Names}

\* An evaluation, the submission of a job, a request over the rate limit, a scrape of
\* /metrics, any other request (one that is turned away with a 503, too).
Kinds == {"evaluation", "submission", "limited", "scrape", "other"}

VARIABLES
  registry,  \* names prometheus_client has registered
  metrics,   \* keys of the dictionary _metrics
  kind,      \* what each request is
  place,     \* per request: the metric it is about to count, or where else it is
  creating,  \* per request: the step of _ensure_metrics, and the metric it is at
  work,      \* per request: what has become of its work: nothing yet, done, or failed
  counted    \* the requests counted under each metric

vars == <<registry, metrics, kind, place, creating, work, counted>>

\* "error" is the 500 of the handler for unhandled exceptions.
Ended  == {"answered", "error"}
Places == {"evaluate", "dispatch", "scrape"} \cup Metrics \cup Ended

TypeOK ==
  /\ registry \subseteq Metrics
  /\ metrics \subseteq registry
  /\ kind \in [Requests -> Kinds]
  /\ place \in [Requests -> Places]
  /\ creating \in [Requests -> [step : {"check", "register", "store"}, at : 1 .. Len(Names)]]
  /\ work \in [Requests -> {"none", "done", "failed"}]
  /\ counted \in [Metrics -> SUBSET Requests]

\* Mutant of First: an evaluation counts nothing before its work.
FirstIsWork(k) == CASE k = "evaluation" -> "evaluate"
                    [] k = "submission" -> "dispatch"
                    [] k = "limited"    -> "rate_limited"
                    [] k = "scrape"     -> "scrape"
                    [] k = "other"      -> "api_requests"

\* Where a request of kind k comes to its first metric, or to its work.
First(k) == CASE k = "evaluation" -> "started"
              [] k = "submission" -> "dispatch"
              [] k = "limited"    -> "rate_limited"
              [] k = "scrape"     -> "scrape"
              [] k = "other"      -> "api_requests"

\* Those the rate limiter lets through when it cannot reach Redis, or turns away.
MayLackLimiter == {"evaluation", "submission", "other"}

Checking == [step |-> "check", at |-> 1]

Init ==
  /\ registry = {} /\ metrics = {}
  /\ kind \in [Requests -> Kinds]
  /\ \E unlimited \in SUBSET {r \in Requests : kind[r] \in MayLackLimiter} :
       place = [r \in Requests |-> IF r \in unlimited THEN "limiter_failures" ELSE First(kind[r])]
  /\ creating = [r \in Requests |-> Checking]
  /\ work = [r \in Requests |-> "none"]
  /\ counted = [m \in Metrics |-> {}]

Goto(r, p) == place' = [place EXCEPT ![r] = p]

-----------------------------------------------------------------------------
(***************************************************************************)
(* A call of the metrics module.                                           *)
(***************************************************************************)
Calls == Metrics \cup {"scrape"}

\* Where request r goes on after the call it is at.  The middleware comes last.
Then(r) == CASE place[r] = "limiter_failures" -> First(kind[r])
             [] place[r] = "started"          -> "evaluate"
             [] place[r] = "api_requests"     -> "answered"
             [] OTHER                         -> "api_requests"

\* The metric is incremented if it is there; the call returns.
Return(r, known) ==
  /\ counted' = IF place[r] \in known THEN [counted EXCEPT ![place[r]] = @ \cup {r}] ELSE counted
  /\ creating' = [creating EXCEPT ![r] = Checking]
  /\ Goto(r, Then(r))

\* The middleware runs on the event loop, one request at a time.
LoopIsFree(r) ==
  place[r] = "api_requests" =>
    \A q \in Requests \ {r} : place[q] = "api_requests" => creating[q] = Checking

\* "if _metrics: return"
Check(r) ==
  /\ place[r] \in Calls /\ creating[r].step = "check" /\ LoopIsFree(r)
  /\ \/ metrics # {} /\ Return(r, metrics)
     \/ /\ metrics = {}
        /\ creating' = [creating EXCEPT ![r].step = "register"]
        /\ UNCHANGED <<place, counted>>
  /\ UNCHANGED <<registry, metrics, kind, work>>

\* An exception in a call.  That of create_evaluation after its work is one of the evaluation's;
\* any other is nobody's, and takes the middleware's own calls with it.
Raise(r) == /\ Goto(r, IF place[r] = "completed" THEN "failed" ELSE "error")
            /\ creating' = [creating EXCEPT ![r] = Checking]

\* Mutant of Register: the registry takes a name twice.
RegisterAgain(r) ==
  /\ creating[r].step = "register"
  /\ registry' = registry \cup {Names[creating[r].at]}
  /\ creating' = [creating EXCEPT ![r].step = "store"]
  /\ UNCHANGED <<metrics, kind, place, work, counted>>

\* The constructor of a metric: a name that is taken raises.
Register(r) ==
  /\ creating[r].step = "register"
  /\ LET name == Names[creating[r].at]
     IN \/ /\ name \notin registry
           /\ registry' = registry \cup {name}
           /\ creating' = [creating EXCEPT ![r].step = "store"]
           /\ UNCHANGED place
        \/ name \in registry /\ Raise(r) /\ UNCHANGED registry
  /\ UNCHANGED <<metrics, kind, work, counted>>

\* Mutant of Store: the creator returns as soon as it has the metric it needs.
StoreAsNeeded(r) ==
  /\ creating[r].step = "store"
  /\ LET at == creating[r].at
     IN /\ metrics' = metrics \cup {Names[at]}
        /\ IF at < Len(Names) /\ place[r] \notin metrics'
             THEN /\ creating' = [creating EXCEPT ![r] = [step |-> "register", at |-> at + 1]]
                  /\ UNCHANGED <<place, counted>>
             ELSE Return(r, metrics')
  /\ UNCHANGED <<registry, kind, work>>

\* Mutant of Store: the creator goes on after the last metric.
StorePastEnd(r) ==
  /\ creating[r].step = "store"
  /\ metrics' = metrics \cup {Names[creating[r].at]}
  /\ creating' = [creating EXCEPT ![r] = [step |-> "register", at |-> @.at + 1]]
  /\ UNCHANGED <<registry, kind, place, work, counted>>

\* The metric goes into the dictionary; the next one, or the end of the creation.
Store(r) ==
  /\ creating[r].step = "store"
  /\ LET at == creating[r].at
     IN /\ metrics' = metrics \cup {Names[at]}
        /\ IF at < Len(Names)
             THEN /\ creating' = [creating EXCEPT ![r] = [step |-> "register", at |-> at + 1]]
                  /\ UNCHANGED <<place, counted>>
             ELSE Return(r, metrics')
  /\ UNCHANGED <<registry, kind, work>>

-----------------------------------------------------------------------------
(***************************************************************************)
(* The work of the routes.                                                 *)
(***************************************************************************)
\* run_evaluation and get_metric_results, between the first metric and the next.
Evaluate(r) ==
  /\ place[r] = "evaluate"
  /\ \/ work' = [work EXCEPT ![r] = "done"] /\ Goto(r, "completed")
     \/ work' = [work EXCEPT ![r] = "failed"] /\ Goto(r, "failed")
  /\ UNCHANGED <<registry, metrics, kind, creating, counted>>

\* create_job and dispatch_job, whose exceptions nobody handles.
Dispatch(r) ==
  /\ place[r] = "dispatch"
  /\ \/ work' = [work EXCEPT ![r] = "done"] /\ Goto(r, "jobs_queued")
     \/ work' = [work EXCEPT ![r] = "failed"] /\ Goto(r, "error")
  /\ UNCHANGED <<registry, metrics, kind, creating, counted>>

-----------------------------------------------------------------------------
EnsureMetrics(r) == Register(r) \/ Store(r)

Serve(r) == Check(r) \/ EnsureMetrics(r) \/ Evaluate(r) \/ Dispatch(r)

Next == \E r \in Requests : Serve(r)

Spec == Init /\ [][Next]_vars

\* Threads and event loop go on running.
FairSpec == Spec /\ \A r \in Requests : WF_vars(Serve(r))

-----------------------------------------------------------------------------
(***************************************************************************)
(* Properties.                                                             *)
(***************************************************************************)
\* A request that has got past the first name of the registry, and is at creating metrics.
Creators == {r \in Requests : creating[r].step = "store" \/ creating[r].at > 1}

\* "Create Prometheus metric objects on first use": although nothing locks the creation, one
\* request at most is at it, because the registry refuses the first name to all others.
OneCreator == \A q, r \in Creators : q = r

\* Once a request has found no metrics, all of them get created: none of the requests that
\* are refused a name leaves the dictionary half full for the rest of the process' life.
FirstUseEnds == (\E r \in Requests : creating[r].step # "check") ~> metrics = Metrics

\* The middleware loses no answer: every request that it has answered is in api_requests_total,
\* also those it answers while the metrics are being created.
AnsweredIsCounted == \A r \in Requests : place[r] = "answered" => r \in counted["api_requests"]

\* The race for the first use costs no evaluation: one whose work is done is not answered with
\* a 500 because of a metric.
EvaluationIsAnswered ==
  \A r \in Requests : kind[r] = "evaluation" /\ work[r] = "done"
    => place[r] \notin {"failed", "error"} /\ r \notin counted["failed"]
=============================================================================
