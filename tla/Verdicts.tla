------------------------------ MODULE Verdicts ------------------------------
(***************************************************************************)
(* What is decided from the results of Scoring: the quality gate           *)
(* (quality_gate_service.py), the gate of a batch job (routes/jobs.py),    *)
(* the gate of the CI script (scripts/evaluate_ci.py) and the comparison   *)
(* with a baseline (baseline_service.py).  They are functions; the         *)
(* properties relate the four, for every table of directions, gate and     *)
(* tolerance, in the states where the evaluators have just run.            *)
(*                                                                         *)
(* A metric that was not measured (no column, no entry) is outside the     *)
(* domain of a results map; one whose evaluator failed is Error, or NoText *)
(* when the error is an empty text.  The four test an error in two ways:   *)
(* the service with "is None", the script and the comparison for truth.    *)
(***************************************************************************)
EXTENDS Scoring, Integers, Sequences

Lower == "lower_is_better"
Higher == "higher_is_better"
\* METRIC_DIRECTION: a gate ignores the names it does not list.
Directions == UNION {[S -> {Lower, Higher}] : S \in SUBSET Metrics}

\* Mutant of Values: a failed evaluator counts with the 0.0 of its entry.
ValuesOfErrors(r) == [m \in DOMAIN r |-> Fraction(ScoreOf(r[m]), 1)]

\* _extract_metric_value: the value a gate sees, none for an entry with an error, empty or not.
Values(r) == [m \in {k \in DOMAIN r : r[k] \notin Failures} |-> Fraction(r[m], 1)]

\* value >= threshold_config.get("min", 0), value <= threshold_config.get("max", inf)
Meets(direction, config, value) ==
  IF direction = Higher
    THEN value.num >= value.den * (IF "min" \in DOMAIN config THEN config.min ELSE 0)
    ELSE "max" \in DOMAIN config => value.num <= value.den * config.max

\* evaluate_gate: no check that applies, no failure.
GatePasses(directions, thresholds, values) ==
  \A m \in DOMAIN thresholds \cap DOMAIN directions \cap DOMAIN values :
    Meets(directions[m], thresholds[m], values[m])

\* scripts/evaluate_ci.py, whose thresholds carry their direction: every item of the data
\* set, none of which may have raised (Error).  An entry is left out if its error is true.
CiPasses(thresholds, items) ==
  \A r \in items :
    /\ r # Error
    /\ \A m \in DOMAIN thresholds \cap DOMAIN r :
         r[m] # Error => IF thresholds[m].direction = Higher
                           THEN ScoreOf(r[m]) >= thresholds[m].value
                           ELSE ScoreOf(r[m]) <= thresholds[m].value

\* Mutant of Average: a NULL counts as a zero.
AverageOfAll(runs, m) ==
  Fraction(SumFunction([i \in DOMAIN runs |-> IF m \in DOMAIN runs[i] THEN runs[i][m] ELSE 0]),
           Len(runs))

\* AVG(column): over the runs where it is not NULL; NULL itself counts as 0.
Average(runs, m) ==
  LET measured == {i \in DOMAIN runs : m \in DOMAIN runs[i]}
  IN IF measured = {} THEN Fraction(0, 1)
     ELSE Fraction(SumFunction([i \in measured |-> runs[i][m]]), Cardinality(measured))

\* get_job_quality_gate: the averages of the completed runs, Metrics being the columns
\* relevance, latency_ms and estimated_cost.  Their hallucination is not
\* aggregated: it always is the best value, so no threshold on it fails, and it is left out.
JobPasses(directions, thresholds, runs) ==
  Len(runs) > 0 /\ GatePasses(directions, thresholds, [m \in Metrics |-> Average(runs, m)])

\* _get_legacy_comparisons: the columns of a run, none of which is an error.  A run without a
\* hallucination result is compared as one with 0.0 (hallucination is the metric of that name).
Columns(run, hallucination) ==
  [m \in DOMAIN run \cup {hallucination} |-> IF m \in DOMAIN run THEN run[m] ELSE 0]

\* What the loop over the metric results compares: the scores of the entries whose error is
\* not true.
Told(r) == [m \in {k \in DOMAIN r : r[k] # Error} |-> ScoreOf(r[m])]

\* Mutant of Regressions: the direction is not looked up.
RegressionsUndirected(directions, tolerance, base, current) ==
  {m \in DOMAIN base \cap DOMAIN current : current[m] - base[m] < -tolerance}

\* Mutant of Regressions: the sign of the change is lost.
RegressionsUnsigned(directions, tolerance, base, current) ==
  {m \in DOMAIN base \cap DOMAIN current :
     current[m] - base[m] < -tolerance \/ current[m] - base[m] > tolerance}

\* Either loop of detect_regressions, on what it compares: the metrics that got worse by more
\* than the tolerance.
Regressions(directions, tolerance, base, current) ==
  {m \in DOMAIN base \cap DOMAIN current :
     IF m \notin DOMAIN directions \/ directions[m] = Higher
       THEN current[m] - base[m] < -tolerance
       ELSE current[m] - base[m] > tolerance}

\* What it lists as an improvement: every other change, a change for the worse within the
\* tolerance included.
Improvements(directions, tolerance, base, current) ==
  {m \in DOMAIN base \cap DOMAIN current : current[m] # base[m]}
    \ Regressions(directions, tolerance, base, current)

-----------------------------------------------------------------------------
(***************************************************************************)
(* Properties.                                                             *)
(***************************************************************************)
\* The evaluators have run; the weights have no part in a verdict, so take them all zero.
Evaluated == DOMAIN results = evaluators /\ TotalWeight = 0 /\ composite = NoScore

Partial(D, R) == UNION {[S -> R] : S \in SUBSET D}

\* An item that raised is no results map.
ASSUME OutcomeAssumption == Error \notin Partial(Metrics, Outcomes)

\* No evaluator has failed, as in the columns of a saved run.
Complete == \A m \in DOMAIN results : results[m] \in Scores

\* A gate with one bound per metric, of the kind its direction asks for.
Gate(directions, bounds) ==
  [m \in DOMAIN bounds |-> IF directions[m] = Higher THEN [min |-> bounds[m]]
                                                     ELSE [max |-> bounds[m]]]

\* The CI script and the service decide alike, though they are written apart and their
\* configurations differ: on one item, thresholds of the same values and directions pass in
\* both or fail in both, whatever metrics are absent or have an error with a text.  They part
\* on a failure without a text only: the service leaves it out, the script checks its 0.0.
GatesAgree ==
  Evaluated => \A directions \in [Metrics -> {Lower, Higher}], bounds \in Partial(Metrics, Scores) :
    LET gate == Gate(directions, bounds)
        silent == {m \in DOMAIN bounds \cap DOMAIN results : results[m] = NoText}
    IN CiPasses([m \in DOMAIN bounds |-> [value |-> bounds[m], direction |-> directions[m]]], {results})
         <=> /\ GatePasses(directions, gate, Values(results))
             /\ \A m \in silent : Meets(directions[m], gate[m], Fraction(0, 1))

\* The gate of a job speaks for its runs: when each of them would pass alone the job passes,
\* and when the job passes no threshold is missed by every run that measured the metric.
\* Every metric of the gate is measured by some run.
JobGateSpeaksForRuns ==
  Evaluated /\ Complete =>
    \A directions \in [Metrics -> {Lower, Higher}], other \in Partial(Metrics, Scores) :
      \A bounds \in Partial(DOMAIN results \cup DOMAIN other, Scores) :
        LET gate == Gate(directions, bounds)
            runs == <<results, other>>
            passes == JobPasses(directions, gate, runs)
        IN /\ (\A i \in 1 .. 2 : GatePasses(directions, gate, Values(runs[i]))) => passes
           /\ passes => \A m \in DOMAIN bounds : \E i \in 1 .. 2 :
                          /\ m \in DOMAIN runs[i]
                          /\ Meets(directions[m], gate[m], Fraction(runs[i][m], 1))

\* Comparison and gate tell the same story: a run shows no regression against a baseline iff
\* it passes the gate made of the baseline's columns, each given way by the tolerance.  A
\* baseline without a hallucination result is held to be without hallucinations, so that a run
\* with some regresses; a run without the result does not, and passes.
RegressionIsGate ==
  Evaluated /\ Complete =>
    \A hallucination \in Metrics, base \in Partial(Metrics, Scores), tolerance \in Scores :
      \A directions \in {d \in [Metrics -> {Lower, Higher}] : d[hallucination] = Lower} :
        LET columns == Columns(base, hallucination)
        IN Regressions(directions, tolerance, columns, Columns(results, hallucination)) = {}
             <=> GatePasses(directions,
                   Gate(directions, [m \in DOMAIN columns |->
                     IF directions[m] = Higher THEN columns[m] - tolerance
                                               ELSE columns[m] + tolerance]),
                   Values(results))

\* Base and current may be exchanged: what regresses one way is an improvement the other way,
\* and what is an improvement both ways, as a small change for the worse may be, has changed by
\* no more than the tolerance.  (On metric results, and so on columns, which are such a map.)
ComparisonTurnsAround ==
  Evaluated => \A directions \in Directions, tolerance \in Scores, base \in Partial(Metrics, Outcomes) :
    LET before == Told(base)
        after  == Told(results)
        better == Improvements(directions, tolerance, before, after)
        back   == Improvements(directions, tolerance, after, before)
    IN /\ Regressions(directions, tolerance, before, after) \subseteq back
       /\ \A m \in better \cap back : /\ after[m] - before[m] <= tolerance
                                      /\ before[m] - after[m] <= tolerance
=============================================================================
