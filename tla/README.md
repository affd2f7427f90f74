# Verification of the LLM evaluation platform

TLA+ models of the platform in `src/`, checked with TLC and proved with TLAPS. The platform is a
FastAPI service that scores answers of language models: requests are evaluated in the API process
(`POST /evaluations`) or as batch jobs by arq workers (`POST /evaluations/async`). PostgreSQL holds
jobs, runs, gates, baselines and API keys; Redis holds arq's queue, the state and progress of jobs,
and the rate limiter's counters.

## 1. Inventory

| Component | State | Operations | Interacts with | Hard because |
|---|---|---|---|---|
| Asynchronous jobs (`app/worker.py`, `app/services/job_service.py`, `redis_queue.py`, `app/api/routes/jobs.py`) | `evaluation_jobs` and `evaluation_runs` rows; Redis state and progress keys; arq's queue entry, lock, try counter; the worker's local counters and results | submit, cancel, poll, ask for the gate; the task: load, mark running, check the flag, evaluate and save an item, publish progress, complete, fail | two stores no transaction covers, at-least-once delivery | interleaving of requests and workers, retries, crashes, Redis and database errors in any step, expiring locks and keys |
| Rate limiter (`app/api/deps.py`) | one Redis counter per project | SET NX, INCR, TTL, EXPIRE; the fail-open or fail-closed policy | all API processes | four commands, none of them a transaction; the key may expire between any two |
| Synchronous evaluations (`app/services/evaluation_service.py`, `app/api/routes/evaluations.py`) | the process-wide semaphore | create the semaphore, acquire, evaluate, release, persist, answer | thread pool, judge, database session | first-use race, slots on every error path, timeouts |
| Session factory (`app/db/session.py`) | `_engine`, `_SessionLocal` | create on first use | every request | no lock, two assignments |
| Registry and judge (`evaluator/registry.py`, `judge.py`) | the shared evaluator instances | look up or create, configure, call with retries | LLM provider | settings of a request on a shared object |
| Composite score (`evaluator/composite.py`, `profiles.py`) | none | weigh, redistribute, cap | evaluator results | missing metrics |
| Metric evaluators (`evaluator/*.py`) | cached models | split into claims, look up sources, ask the NLI model, count; embed and compare | registry | calls that raise in the middle of a count; floating point numerics |
| Metrics (`app/observability/metrics.py`, the middleware of `app/main.py`) | prometheus_client's registry, the dictionary `_metrics` | create on first use, count, scrape | every request | no lock, two stores, exceptions in the calls |
| Quality gates, CI gate (`quality_gate_service.py`, `scripts/evaluate_ci.py`) | `quality_gates` rows | create, evaluate thresholds | job results | boundaries, thresholds that do not apply |
| Baselines (`baseline_service.py`, `routes/baselines.py`) | `evaluation_baselines` rows | create, compare | runs | direction and tolerance |
| Projects and API keys (`routes/auth.py`, `deps.py`) | `projects`, `api_keys` rows | create, rotate, revoke, use (with throttled `last_used_at`) | every request | rotation in two commits, concurrent use |
| Read-only routes, tracing and logging, configuration, migrations, dashboard, scripts | | | | |

What makes them correct:

- **Jobs.** Results, counters and saved runs agree with each other whatever attempt wrote them; a
  finished job is not evaluated again; a cancelled job stops; a job that was dispatched ends.
- **Rate limiter.** Per life of the counter no more than the limit passes, nobody is refused below
  it, and no counter lives for ever.
- **Synchronous evaluations.** Never more than `EVAL_MAX_CONCURRENCY` evaluations at once; a 503
  tells the truth; slots are conserved; every request is answered; a request is judged under its
  own settings, or at least not under what an earlier one left behind.
- **Score.** A composite is an average of the scores it combines, and a metric that failed is
  neither a zero nor a bonus.
- **Keys.** A rotation never disables a key before its replacement exists; a revoked key stays
  out, whoever is using it; the replacement inherits the expiry.
- **Verdicts.** The gate of the service and that of the CI script decide alike, up to errors without a text; the
  gate of a job speaks for its runs; a regression is what a gate at the baseline's columns would fail, and turns
  into an improvement when the two runs are exchanged.
- **Evaluators.** A model that fails never makes a score better; a citation keeps its source when
  the context grows.
- **Metrics.** They are created once and all of them; no answer goes uncounted, and counting costs
  no finished evaluation its answer.

`PROJECT.json` lists every hazard at its line with the property that covers it, or why none does.

## 2. Modules

| Module | Contents |
|---|---|
| `EvalJobs` | one asynchronous job: submitter, cancel and gate requests, arq (external), workers, failures |
| `ResultLedger` | abstract: what a job promises of its results; refined by `EvalJobs` (`KeepsLedger`) |
| `MCEvalJobs` | symmetry for TLC; five configurations |
| `EvalJobsProofs` | type correctness, `CancelBound`, `BatchIsExact` |
| `EvalJobsResults` | `CompletedMeansPublished`, `GateFailsForCause`, the refinement of `ResultLedger`; of a job without cancel requests, `CountersMatchRuns` and `RedeliveryIsIdempotent` |
| `RateLimiter`, `MCRateLimiter` | the limiter, one Redis command at a time |
| `RequestQuota` | abstract: a check of the limiter as one step; refined by `RateLimiter` (`ChecksAtomically`) |
| `RateLimiterProofs` | all properties of the limiter, the refinement included |
| `Evaluations`, `MCEvaluations`, `EvaluationsProofs` | one API process; proofs of its safety properties |
| `Telemetry`, `MCTelemetry`, `TelemetryProofs` | the metrics of one API process; proofs of its safety properties |
| `Scoring`, `MCScoring` | `run_evaluators` followed by `compute_composite` |
| `Verdicts` | gates and regressions, as functions of the results of `Scoring`, which it extends |
| `Evaluators` | citations and claims, as functions of the NLI model's answers; extends `Verdicts` |
| `FoldLemmas` | induction over numbers and finite sets; what a fold is, and what sums over finite sets do |
| `ScoringProofs` | all properties of `Scoring`, `Verdicts` and `Evaluators` |
| `ApiKeys`, `MCApiKeys`, `ApiKeysProofs` | the keys of a project under concurrent requests; proofs |

A definition called "Mutant of X" is a plausible bug in X: with it in place of X, TLC finds the
property named in `PROJECT.json` violated, which shows that the property depends on the code.

### EvalJobs

An action is one access to PostgreSQL or Redis with the local steps around it, so every
interleaving of accesses is a behaviour. `row` and `runs` are the two tables, `state` and `progress`
the Redis keys, `arq` the queue entry, in-progress lock and delivery counter, `worker[w]` the
control state and local variables of `process_evaluation_job`. Runs are named by the attempt and
the item that created them, in place of random UUIDs. Jobs share nothing but workers' time (every
key and row carries the job id), so one job is enough.

- The task never awaits: a worker process runs one job at a time, and `job_timeout` cannot
  interrupt it; the lock of a running task may expire (`LockExpires`, bounded by `MaxOverruns`).
- arq is external. It may or may not retry a plain exception ("arq will retry", `worker.py:164`):
  `TaskRaised` allows both.
- A store access may raise with or without its write applied (`Fault`). After a failed statement
  or commit an SQLAlchemy session raises until it is rolled back. The outer handler
  (`worker.py:149`) does not roll back, so its own query raises and the failure reaches neither
  store (`CommitRow`, `Load`, `Item`).
- The ORM writes a column whose value differs from the one the session loaded. That matters for
  the cancel request, whose session carries the Redis overlay (`MarkedFailed`), and for
  `MarkRunning`. A query and the commit that follows it in one handler are one action; a
  column that another process changes in that window is not modelled as skipped. The two Redis reads of
  `get_job` (`job_service.py:53-54`, `Overlay`) are one action; no property depends on what happens between them.
- `late` is history: items a worker committed while the flag stood in Redis.

`ResultLedger` has two variables, the runs in the database and what is published, and two actions: an
attempt commits the run of its next item, or publishes exactly what it has committed and then adds
nothing. Several attempts may be at it in any order. `EvalJobs` implements it with `runs` for the
first variable and `Published` (the attempt and the completed items of `row.batch`) for the second:
`Item` is a `Commit`, the commit of COMPLETED a `Publish`, everything else (Redis, arq, the
handlers, cancel requests) a stutter.

### RateLimiter

One bucket. The Redis commands are actions; `window` numbers the lives of the key and `ticket` the
count each request drew, so that properties can speak of them. `WindowEnds` may happen at any time.
A fault may lose the reply of a command that was executed, kill the process, or lose the expiry. `Fail` stands for the
connection and timeout errors `rate_limit_api` catches; any other exception becomes a 500, which leaves the counter as
`Kill` does.

`RequestQuota` is the limiter without its commands: a request that asks takes one of the seats of the
present window, or finds exactly `MaxRequests` of them taken; it is answered "allowed" or "limited" accordingly,
or by a failure, at once or later; and windows end. `RateLimiter` implements it (`Quota`) with the requests
that drew one of the first `MaxRequests` counts of the present life of the key as the seated ones: a request asks in
the SET NX or INCR that draws its count, also when the reply to that is lost; every other command is its answer or a stutter.

### Evaluations

The threads of one process. Objects made on first use are named by the request that makes them, so
a lost race shows as two objects. The judge's temperature behaves as its model does and is left
out. The pipeline singleton is stateless and is left out. A request comes to its `judge_config` when it comes to the judge
(`Consult`), and forgets it and its locals with its slot, which keeps the state space small. `met` is
history: the configurations of the requests that were at the judge while a request was. A verdict, a failed attempt and the
shortcut for a sample without an answer (`judge.py:58`) are choices, as is an exception after the judge.

### Scoring

Scores are integers of a unit 1/`MaxScore`, weights integers; quotients are pairs of integers
compared by cross multiplication, so there is no rounding. A judge that answers outside of its
1 to 5 scale is left out. A failed evaluator is one of two outcomes, because the error stored is `str(exc)`
(`registry.py:103`, `125`), which may be an empty text, and the code tests it in two ways: `Error` has a text and is an error to everyone;
`NoText` is none where the test is for truth, as in `compute_composite` (`Reported`), which then counts its 0.0 (`ScoreOf`).

### Verdicts

Nothing here keeps state: `evaluate_gate`, the averages of `get_job_quality_gate`, the verdict of
`scripts/evaluate_ci.py` and `detect_regressions` are operators on results maps, in which a metric
that was not measured has no entry and one that failed is `Error` or `NoText`: `_extract_metric_value` tests the error with `is None`
(`Values`), the CI script (`CiPasses`) and the loop over metric results (`Told`) for truth. The other loop of `detect_regressions`, the only one
its caller runs, compares the columns of two runs, and reads a missing hallucination result as 0.0 (`Columns`, with `hallucination` for the
metric of that name); a gate leaves such a metric out. Their code is spread over four
files that do not call each other's checks, so the properties relate them: they are invariants of the
run `scoring`, evaluated wherever the evaluators have just run, for every table of directions,
every gate, tolerance, baseline and second run over the instance's scores. The 0.0 that a missing
average becomes is part of the model; the constant hallucination of a job's gate is not, since no
threshold on it can fail.

### Evaluators

Functions too. The NLI model is external: an input is the sequence of its answers, one per citation
or claim, of which each may be "raises". `CheckCitation` is one turn of the loop of
`citation_correctness.py`, with the variable `label` that outlives its turn; `SourceText` is the lookup of a
source (the last chunk of an id, then the first chunk that contains the quote). The text of a chunk is the set
of quotes it contains. `FractionSupported` is the common part of
faithfulness, context recall and hallucination, where one call that raises makes an error of the
whole metric. How a text is split into sentences is left out: claims are given.

### Telemetry

`registry` is prometheus_client's, `metrics` the dictionary; `place[r]` is the call or the work a
request is at, `creating[r]` its progress through `_ensure_metrics`. An action is one access to the
registry or the dictionary, so requests interleave inside the creation; only the middleware's calls exclude
each other, as they run on the event loop without an await (`LoopIsFree`). Seven counters stand for all, that of a rate limiter which cannot reach Redis
(`deps.py:268`, the first call of such a request) included:
the histograms left out are observed right after one of them, the counters left out are those only workers
use, and those nobody uses. Registering a name that
is taken raises, as `prometheus_client` does; the exception becomes a failed
evaluation, a 500, or takes the middleware's own call with it, depending on where it is raised (`Raise`).

### ApiKeys

A request is idle until it reads; it then carries its operation, target and the time it read.
`keys[r]` is the row that request `r` inserted, so rows are named without UUIDs. An action is one
query or one commit; a commit may raise with or without effect (`Commit`), a process may die between
commits (`Kill`). `Use` and `Touch` are `_get_project_from_key`: the write of `last_used_at`, whose
failure is logged and forgotten, comes from a session that has read the row before. One clock counts
days and seconds, `Day` units to a day.

## 3. Runs

| Run | Instance | Shows | States |
|---|---|---|---|
| `jobs_cancel` | 2 workers, 1 cancel request, 2 items, 2 tries; 1 crash, 1 fault, 1 eviction | `TypeOK`, `BatchIsExact`, `CancelBound`, `CompletedMeansPublished` | 3.8 M |
| `jobs_overlap` | 2 workers, 1 gate request, 2 items, 2 tries; 1 crash, 1 fault, 1 overrun | `BatchIsExact`, `CountersMatchRuns`, `RedeliveryIsIdempotent`, `GateFailsForCause`, `KeepsLedger` | 2.1 M |
| `jobs_settle` | 1 worker, 1 cancel request, 1 item, 3 tries; 1 crash, 1 fault of Redis, 1 eviction; fair | `Settles` | 0.8 M |
| `rate_limit` | 5 requests, limit 2, 3 lives of the key, 2 faults | `TypeOK`, `NoOverAdmission`, `NoEarlyRefusal`, `Tended`, `ChecksAtomically` | 95 k |
| `evaluations` | 3 requests, 2 slots, 2 judge attempts, 2 judge configurations; fair | `TypeOK`, `BoundedConcurrency`, `BusyMeansFull`, `Answered`, `NoSessionOnlyInFirstUse`, `OwnConfigHonoured` | 1.7 M |
| `telemetry` | 3 requests of any kind, with and without a reachable limiter; fair | `TypeOK`, `OneCreator`, `AnsweredIsCounted`, `EvaluationIsAnswered`, `FirstUseEnds` | 0.98 M |
| `scoring` | 3 metrics, weights 0..3, scores 0..2, two kinds of failure; up to 3 NLI calls, 2 quotes, 2 ids, contexts of up to 3 chunks | `TypeOK`, `AverageWhenComplete`, `MissingIsNotZero`; `GatesAgree`, `JobGateSpeaksForRuns`, `RegressionIsGate`, `ComparisonTurnsAround`; `OutageNeverHelps`, `SourcesAreMonotone` | 23 k |
| `api_keys` | 3 requests, lifetimes of 1 or 2 days, a day of 2 units, clock up to 5, 1 fault | `TypeOK`, `RevokedStaysOut`, `ReplacedBeforeDisabled`, `ExpiryInherited` | 2.0 M |
| `jobs_cancel_lost` | 1 worker, 1 cancel request, no failure | violates `CancelHonoured` | |
| `jobs_completed_lost` | 1 worker, 1 fault | violates `CompletedStays` | |
| `scoring_average` | 3 metrics | violates `CompositeIsAverage` | |
| `evaluations_judge` | 2 requests | violates `JudgeHonoursConfig` | |

**Bounds.** Two items are enough for an attempt to be interrupted between items, with a first item
saved; two tries for a redelivery; two workers for an overlap; one fault for a failure in every
single step. `jobs_settle` needs a try more than there are failures. In `rate_limit` five requests are two
more than the limit in one life of the key, or spread over several; in `evaluations` two slots
put two requests at the judge together, after one that has left its settings there, and let the third wait while
another fails; two configurations of the judge let one request overwrite what another has set. In `api_keys` three requests are a key, its use and its rotation or revocation, or two rotations
in a row; the clock runs past the expiry by more than a day. In `scoring` three metrics let one be missing while two differ; three calls are one that raises between two that answer, which is what a
label left over needs, and two ids let a chunk shadow another and the quote be in a third. In `telemetry` three requests are the creator, one
that is refused a name, and one that finds the dictionary half full. The safety properties with a theorem
below hold for every value of these constants. Deadlock is not checked: all requests and
the job end, and then the modelled system stops.

**Fairness.** `EvalJobs!FairSpec`: workers run (`WF` of a task's steps, and of deliveries), the lock
of a dead worker expires, arq drops a job past its tries. Crashes, faults, evictions and requests are
not fair. `Evaluations!FairSpec`: the process goes on (`WF` of `Next`, whichever thread it runs); waits for a slot and LLM calls
have timeouts in the code, and a slot that is taken while others wait cannot keep a request waiting for ever, as it is then
answered "busy". That this is enough, without fairness among the threads, shows that no retry loop and
no wait depends on luck. `Telemetry!FairSpec`: `WF` per request again; the creation contains no wait, and the event loop goes from one
request to the next.

## 4. What the violations show

1. `CancelHonoured` - a cancel that was answered with 200 is overwritten by the worker, which skips
   completed and cancelled rows while the request leaves the row *failed* (`worker.py:53-65`,
   `jobs.py:115`); and the flag is not read after the last item.
2. `CompletedStays` - Redis fails after the commit of COMPLETED: the handler turns the completed
   job into a failed one, and a retry evaluates everything again (`worker.py:136`, `149-164`).
3. `CompositeIsAverage` - weights are redistributed by the missing instead of the used share
   (`composite.py:62`). The built-in RAG profiles always have a missing metric.
4. `JudgeHonoursConfig` - `judge_config` stays on the shared judge (`registry.py:111-114`). What remains true
   is `OwnConfigHonoured`: whatever the number of slots, a request whose `judge_config` sets provider and model is judged
   under settings of its own, or of requests that are at the judge at the same time, not under those of earlier ones.
   One without a `judge_config`, or with one that sets only one of the two, inherits the rest from whoever came before.

Met while modelling, documented and not run: a database error leaves the session unusable, the
handler's query raises, and on the last try the row stays *running* (`worker.py:152`; this is why
`jobs_settle` has `DatabaseFails = FALSE`: with `TRUE`, `Settles` is violated); a dispatch that fails leaves a *queued* row nobody runs
(`jobs.py:48`); a submission that loses the race for
the first use of the metrics is answered with a 500 although its job runs (`jobs.py:49`; `telemetry` reaches it); the gate of a
job that completes between the two reads of `get_job` answers "fail" with no checks (`job_service.py:44-61`, `jobs.py:216`), which
`GateFailsForCause` allows as the one cause besides a job without a completed item, since a second request answers
right; with a cancel request `CountersMatchRuns` and `RedeliveryIsIdempotent` are false, because the request commits the row it has loaded, with
the counters of Redis laid over it (`job_service.py:58`); "queued" is published after the job may be running (`redis_queue.py:60`, while
`docs/RELEASE_DEMO.md:128` describes queued, running, completed); the first requests of a process may
get a session factory that is still `None` (`session.py:26-29`); the judge's "no_answer" is a detail and not an
error, so it counts as a score of zero (`judge.py:59`); `docs/architecture.md:103-115` describes a
`blpop` queue and a threshold schema (`value`, `direction`) that the code does not use (`worker.py:196`,
`quality_gate_service.py:96`); `baseline_service.py:118` lists a worsening within the tolerance as an
improvement; the gate of a job always sees full support by the context (`jobs.py:208`), and a column no run has a value of as 0
(`jobs.py:198`); an evaluator whose exception has no text is a score of 0.0 to the composite (`composite.py:45`), the CI script
(`evaluate_ci.py:87`) and the comparison (`baseline_service.py:132`), and none to the service's gate
(`quality_gate_service.py:133`), so that one gate may fail where the other passes (`GatesAgree` and `MissingIsNotZero` say how far this goes);
a baseline without a hallucination result is compared as one without hallucinations (`baseline_service.py:173-179`); overlapping requests
all write `last_used_at`, against "at most once per LAST_USED_UPDATE_INTERVAL" (`deps.py:90`); two concurrent
rotations of a key create two replacements (`auth.py:161-171`), and repeated rotation moves an expiry by up to a
day each time (`auth.py:168`).

## 5. Proofs

All obligations are checked by `tlapm` with Z3, Zenon and LS4, for every value of the constants that
satisfies the named `ASSUME`s of the modules (finite sets of processes, positive sizes, `None` not
a value).

- **EvalJobs.** `TypeCorrect` needs that a worker's counters fit its place (`Fits`: they add up to
  the number of results, and there are fewer than `NumItems` before an item), because the
  counters' ranges are part of the types. `CancellationIsBounded` adds `Flagged`: a worker has
  committed no late item while it is still going to evaluate one. `BatchResultsAreExact` is not inductive;
  its strengthening `LInv` says that attempts have distinct numbers (`Numbers`), that an attempt
  under way has exactly the runs its results claim (`Ledger`), and that the attempt whose results the row holds adds no
  run any more (`Sealed`).
  `CompletedMeansPublished` and `GateFailsForCause` follow from `Told`: whoever says "completed" (the Redis key, a worker about
  to publish it, a status column, a session that has loaded it) does so of a row with results. It is inductive
  because results never leave the row (`KeepsBatch`, proved per action).
- **EvalJobs refines ResultLedger.** `Init` maps to `Init`; a step maps to a `Commit` if it adds a run, to a `Publish` if it
  writes results, and to a stutter otherwise. `Ledger` gives the items an attempt has committed and `Sealed`
  that a published attempt is closed, so the abstract guards hold.
- **EvalJobs without cancel requests** (`Clients = {}`). `CountersAreExact` strengthens the property by `Counted`: a worker's own
  counter is the number of runs of its attempt, which no other worker has. `CompletedIsFinal` is about steps before the
  first fault and overrun: until then whoever is at work on the job holds arq's lock (`Exclusive`), and an attempt at a completed
  job has not got past its first query, or has announced its own completion (`DoneWorkers`).
- **RateLimiter.** `IInv` states that the counts drawn in one life of the key are distinct and dense and end at the counter
  (`Book`), and that verdicts follow the count drawn (`Ruled`). `NoOverAdmission` is then the size
  of a set of distinct numbers up to the limit, `NoEarlyRefusal` the size of a gapless one.
- **RateLimiter refines RequestQuota** (`ImplementsQuota`). By `Book` the seats taken are in bijection with `1 .. min(counter, MaxRequests)`
  (`SeatsTaken`), so a count within the limit is a free seat and one beyond it a full window (`DrawAsks`); by `Ruled` and
  `Verdict` the answer fits the claim. `Unticketed` (no count without a life of the key) is added to the invariant, as the mapping
  takes a count of 0 for a request that has not asked. With `SET` and `INCR` as the points where a check takes effect,
  the four commands are atomic in effect, whatever the interleaving; none of the properties above says that.
- **Evaluations.** `IInv` states that one semaphore is shared by all that hold or wait for a slot
  (`Shared`), and that its free slots and holders add up to `MaxConcurrency` (`Conserved`). `FactoryIsComing`
  adds that an engine without a factory has a request on its way to make one. `OwnConfigIsHonoured` is about
  settings on a judge that may be two objects: whoever is there with a `judge_config` has met everybody else who is (`Present`),
  so a setting it has made and somebody overwrites is of one it has met, until it has read it (`Honoured`, by place). That needs one
  lemma for a request that comes to the judge, one for its steps elsewhere and one for those at the judge (`ComingStep`,
  `AwayStep`, `AtJudgeStep`), each of which may be seen by every other request.
- **Telemetry.** The registry's refusal of its first name is the lock the code does not have: as long as somebody is past it, it is taken
  (`Taken`), so a second request cannot get past it. `api_requests` is that name and the first one in the dictionary (`Opened`), so
  whoever finds a metric finds it; and an evaluation that got beyond its own first call has seen a dictionary that is not
  empty, and creates nothing any more (`Sound`).
- **ApiKeys.** `RevokedStaysOut` and `ReplacedBeforeDisabled` are inductive together with three facts: a
  request that has yet to insert has no row (`NotYetInserted`), so that no insert overwrites a
  disabled key; a rotation that goes on to disable has its replacement in (`Replaced`); and what a
  request may be doing at each place (`Roles`). `ExpiryInherited` adds that a rotation about to insert carries a number of days that
  fits what is left to its target (`Carries`), which rests on facts about integer division, and that no step changes a key's expiry (`Frame`).
- **FoldLemmas.** Sums and counts are folds (`FoldFunctionOnSet`, `SumFunctionOnSet`), which the community modules define by a `CHOOSE` of a recursive
  function. `FoldExists` shows that this function exists, from which `SumElement` (a sum is the value of any one
  element plus the sum of the rest) and all the others follow: monotone, scaled, constant and partial sums. The induction
  theorems of the library take an operator as a parameter and cannot be used; in their place `NumberInduction` and `SubsetInduction`
  are about the set of values for which a fact holds, and rest on the least elements of well-founded orders (`WFMin`).
- **Scoring.** `ScoreInv` says at any point of the loop of `compute_composite` that what has been added to the sum and to the
  used weight is what the metrics looked at contribute (`Summed`), that those not reported are the ones missing (`Settled`), and that a
  composite is the quotient the code computes from them (`Computed`). `CompleteIsAverage` is then an equality of sums,
  `MissingIsNoZero` an inequality between the two weights, the cap at 1.0 included; both compare with the sum that has 0.0 for
  whatever failed (`WithZeros`), which the sum of the code equals (`SumOfNonzero`: terms that are zero may be left out).
- **Verdicts.** `GatesAgree`, `RegressionIsGate` and `ComparisonTurnsAround` hold in every state in which results are reports of known metrics (`Reports`), for every set of
  metrics, scale, gate, tolerance and table of directions: the first compares the two verdicts threshold by
  threshold, with a case for each way the error is tested, the others are linear arithmetic per metric, `ComparisonIsGate` for runs
  without failures, as their columns are, and with a case for the missing hallucination. `JobGateOfRuns` is about a job with any number of runs (a run of TLC has two): an average
  lies between the least and the greatest of its terms (`SumBetween`), so it meets a bound that all of them meet, and
  some of them meet a bound that it meets.
- **Evaluators.** `CitationsAddUp` and `OutageIsNoBonus` hold for any number of citations and claims, and `ContextGrows` for contexts of any
  length, where the run has at most three. The loop over the citations is a fold over a sequence; `ReportTallied` counts
  its lines by induction over its turns (`OneTurn`), `label` among its variables, and an interrupted sequence differs in one
  turn. `JobGateIsFair`, `SourcesStay` and `OutagesNeverHelp` are the properties of the run as special cases.

Every safety property that a run checks has a theorem. Only model-checked: `Settles`, `Answered` and `FirstUseEnds`, as liveness under
fairness is out of the prover's reach. Assumed by a theorem beyond the `ASSUME`s of its module: no cancel requests (`CountersAreExact`,
`CompletedIsFinal`).

## 6. Plan

1. *(done)* `EvalJobs`, `RateLimiter`, `Evaluations`, `Scoring`, in the order of the damage a fault does.
2. *(done)* `ApiKeys`, with its theorems; `Verdicts`, composed with `Scoring`.
3. *(done)* `ResultLedger` and its refinement by `EvalJobs`; `Telemetry`; `Evaluators`; the session factory's property.
4. *(done)* Theorems of all safety properties; `FoldLemmas` for those that compute sums.
5. *(done)* `RequestQuota` and its refinement by `RateLimiter`. *(open)* An abstract key, in service or not, refined by `ApiKeys`,
   which would restate much of what `RevokedStaysOut` already proves.
6. *(open)* Several jobs that share one worker process (`max_jobs`).

## 7. Not modelled

The evaluators that compare embeddings, and the cost and latency metrics (one floating point formula each; a score is an input of
`Scoring`); the NLI model, the embedding model and the LLM themselves (their answers are inputs); how a text is split into sentences and
prompts into messages; the dashboard, migrations, deployment files, tracing and logging (no decision of the program reads
them); histograms, which are observed next to a counter; read-only routes (one query each); creating gates, baselines and projects
(one insert each; the names of gates and baselines are unique over all projects: a second baseline of a name is answered with a 500,
`baseline_service.py:51`, a second gate with a 409, `baselines.py:142`); `enqueue_job`, `dequeue_job`, `mark_job_started`, `mark_job_completed`, `validate_weights` and
`reset_session_factory` (used by tests only); the contents of prompts and of LLM answers (success or failure of an attempt).
