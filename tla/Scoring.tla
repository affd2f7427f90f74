------------------------------ MODULE Scoring ------------------------------
(***************************************************************************)
(* The score of one evaluation: run_evaluators (evaluator/registry.py)     *)
(* collects a result or an error per evaluator of the profile, then        *)
(* compute_composite (evaluator/composite.py) weighs the results.          *)
(*                                                                         *)
(* Scores are integers of a unit 1/MaxScore and weights integers, so the   *)
(* floating point quotients of the code become fractions, kept as a pair   *)
(* of integers; rounding to four digits is left out.                       *)
(***************************************************************************)
EXTENDS Naturals, FiniteSets, Functions

CONSTANTS
  Metrics,    \* metric names that carry a weight
  Error,      \* the outcome of an evaluator that failed and says why, or does not exist
  NoText,     \* the outcome of one that raised an exception without a text: its error is ''
  MaxScore,   \* the score 1.0
  MaxWeight   \* bound on a weight

ASSUME ScoringAssumption == /\ IsFiniteSet(Metrics)
                            /\ MaxScore \in Nat \ {0} /\ MaxWeight \in Nat
                            /\ Error \notin Nat /\ NoText \notin Nat /\ Error # NoText

\* A judge that answers outside of its scale is left out.
Scores   == 0 .. MaxScore
Failures == {Error, NoText}
Outcomes == Scores \cup Failures

\* The score of an entry is 0.0 when the evaluator has failed.
ScoreOf(outcome) == IF outcome \in Failures THEN 0 ELSE outcome

VARIABLES
  evaluators,  \* profile.evaluators (and the judge), as far as they carry a weight
  weights,     \* profile.composite_weights
  results,     \* result_map: the score or error of each evaluator that has run
  todo,        \* metrics the loop over the weights has yet to visit
  sum,         \* weighted_sum, times the total weight
  used,        \* total_weight_used, times the total weight
  missing,     \* missing_metrics
  composite    \* composite_score in score units, a fraction; NoScore until it is computed

vars == <<evaluators, weights, results, todo, sum, used, missing, composite>>

Fraction(num, den) == [num |-> num, den |-> den]
NoScore == Fraction(0, 0)

TypeOK ==
  /\ evaluators \subseteq Metrics
  /\ weights \in [Metrics -> 0 .. MaxWeight]
  /\ DOMAIN results \subseteq evaluators
  /\ \A m \in DOMAIN results : results[m] \in Outcomes
  /\ todo \subseteq Metrics /\ missing \subseteq Metrics \ todo
  /\ sum \in Nat /\ used \in Nat
  /\ composite.num \in Nat /\ composite.den \in Nat

\* A profile may weigh a metric that none of its evaluators produces, as the built-in ones
\* do with hallucination_fraction_unsupported.
Init ==
  /\ evaluators \in SUBSET Metrics
  /\ weights \in [Metrics -> 0 .. MaxWeight]
  /\ results = << >>
  /\ todo = Metrics
  /\ sum = 0
  /\ used = 0
  /\ missing = {}
  /\ composite = NoScore

TotalWeight == SumFunction(weights)

\* Mutant of Evaluate: every registered evaluator runs, not those of the profile.
EvaluateAll(m) ==
  /\ m \in Metrics \ DOMAIN results
  /\ \E outcome \in Outcomes :
       results' = [k \in DOMAIN results \cup {m} |-> IF k = m THEN outcome ELSE results[k]]
  /\ UNCHANGED <<evaluators, weights, todo, sum, used, missing, composite>>

\* One turn of the loop of run_evaluators: a score, or an exception turned into an error.
Evaluate(m) ==
  /\ m \in evaluators \ DOMAIN results
  /\ \E outcome \in Outcomes :
       results' = [k \in DOMAIN results \cup {m} |-> IF k = m THEN outcome ELSE results[k]]
  /\ UNCHANGED <<evaluators, weights, todo, sum, used, missing, composite>>

Weighing == DOMAIN results = evaluators /\ TotalWeight # 0 /\ composite = NoScore

\* "if r.error": the empty error of a failure without a text is none.
Reported(m) == m \in DOMAIN results /\ results[m] # Error

\* Mutant of Contribute: the weights are not applied.
ContributeUnweighted(m) ==
  /\ Weighing
  /\ m \in todo /\ Reported(m)
  /\ todo' = todo \ {m}
  /\ sum' = sum + ScoreOf(results[m])
  /\ used' = used + weights[m]
  /\ UNCHANGED <<evaluators, weights, results, missing, composite>>

\* One turn of the loop over the weights.
Contribute(m) ==
  /\ Weighing
  /\ m \in todo /\ Reported(m)
  /\ todo' = todo \ {m}
  /\ sum' = sum + ScoreOf(results[m]) * weights[m]
  /\ used' = used + weights[m]
  /\ UNCHANGED <<evaluators, weights, results, missing, composite>>

\* Mutant of Miss: the weight of a missing metric counts as used.
MissUsed(m) ==
  /\ Weighing
  /\ m \in todo /\ ~Reported(m)
  /\ todo' = todo \ {m}
  /\ missing' = missing \cup {m}
  /\ used' = used + weights[m]
  /\ UNCHANGED <<evaluators, weights, results, sum, composite>>

Miss(m) ==
  /\ Weighing
  /\ m \in todo /\ ~Reported(m)
  /\ todo' = todo \ {m}
  /\ missing' = missing \cup {m}
  /\ UNCHANGED <<evaluators, weights, results, sum, used, composite>>

\* min(q, 1.0)
Capped(q) == IF q.num > MaxScore * q.den THEN Fraction(MaxScore, 1) ELSE q

\* "If we have missing metrics, redistribute weight proportionally": the sum is divided by
\* the share of the weights that are NOT used.
Redistributed ==
  IF missing # {} /\ 0 < used /\ used < TotalWeight
    THEN Fraction(sum, TotalWeight - used)
    ELSE Fraction(sum, TotalWeight)

Finish ==
  /\ Weighing
  /\ todo = {}
  /\ composite' = Capped(Redistributed)
  /\ UNCHANGED <<evaluators, weights, results, todo, sum, used, missing>>

\* "zero_total_weight": no weight, no score.
NoWeights ==
  /\ DOMAIN results = evaluators /\ TotalWeight = 0 /\ composite = NoScore
  /\ composite' = Fraction(0, 1)
  /\ UNCHANGED <<evaluators, weights, results, todo, sum, used, missing>>

Next ==
  \/ \E m \in Metrics : Evaluate(m) \/ Contribute(m) \/ Miss(m)
  \/ Finish \/ NoWeights

Spec == Init /\ [][Next]_vars

-----------------------------------------------------------------------------
(***************************************************************************)
(* Properties.                                                             *)
(***************************************************************************)
Scored == composite # NoScore /\ TotalWeight # 0

\* The metrics whose scores the composite is meant to combine.
Counted == {m \in Metrics : Reported(m) /\ weights[m] > 0}

\* The weighted sum, not normalized, with 0.0 for everything that has failed or is absent.
WithZeros == SumFunction([m \in Metrics |-> IF m \in DOMAIN results
                                             THEN ScoreOf(results[m]) * weights[m] ELSE 0])

\* When every metric with a weight has reported, the composite is the average of the scores
\* under the normalized weights, in whatever order the loop visits them; the cap and the
\* redistribution do not show.  A failure without a text has reported, a 0.0.
AverageWhenComplete ==
  Scored /\ (\A m \in Metrics : Reported(m)) =>
    composite.num * TotalWeight = composite.den * WithZeros

\* "Metric with error is treated as missing", not as a score of zero: a weighted metric that is
\* absent, or has an error that says something, leaves the composite above the average that
\* counts it as zero.  (Not so a failure without a text, which is counted as one.)
MissingIsNotZero ==
  Scored /\ WithZeros > 0
    /\ (\E m \in Metrics : weights[m] > 0 /\ (m \notin DOMAIN results \/ results[m] = Error))
    => composite.num * TotalWeight > composite.den * WithZeros

\* "Still computes with available metrics", "redistribute weight proportionally": the
\* composite is an average of the scores that count, neither below nor above all of them.
CompositeIsAverage ==
  Scored /\ Counted # {} =>
    /\ \E m \in Counted : ScoreOf(results[m]) * composite.den <= composite.num
    /\ \E m \in Counted : ScoreOf(results[m]) * composite.den >= composite.num
=============================================================================
