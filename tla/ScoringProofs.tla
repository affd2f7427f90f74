--------------------------- MODULE ScoringProofs ----------------------------
(***************************************************************************)
(* What holds of the composite score, of the verdicts and of the           *)
(* evaluators for every set of metrics, weights, scale, gate, tolerance    *)
(* and table of directions, and for any number of runs, citations, claims  *)
(* and chunks.  The facts about sums are those of FoldLemmas.              *)
(***************************************************************************)
EXTENDS Evaluators, FoldLemmas

\* What the evaluators have reported, as far as a verdict looks at it.
Reports == /\ evaluators \subseteq Metrics /\ DOMAIN results \subseteq Metrics
           /\ \A m \in DOMAIN results : results[m] \in Outcomes
           /\ results \in Partial(Metrics, Outcomes)

\* An evaluator's outcome is one more score or error, whatever has reported before.
LEMMA ReportsKept == ASSUME Reports, [Next]_vars PROVE Reports'
<1>0. UNCHANGED evaluators
  BY DEF Next, vars, Evaluate, Contribute, Miss, Finish, NoWeights
<1>1. CASE UNCHANGED results
  BY <1>0, <1>1 DEF Reports
<1>2. ASSUME NEW m \in Metrics, Evaluate(m) PROVE Reports'
  <2>1. m \in evaluators \ DOMAIN results
    BY <1>2 DEF Evaluate, Reports
  <2>2. PICK outcome \in Outcomes :
          results' = [k \in DOMAIN results \cup {m} |-> IF k = m THEN outcome ELSE results[k]]
    BY <1>2 DEF Evaluate
  <2>3. DOMAIN results \cup {m} \in SUBSET Metrics
    BY DEF Reports
  <2>4. results' \in [DOMAIN results \cup {m} -> Outcomes]
    BY <2>2 DEF Reports
  <2>5. results' \in Partial(Metrics, Outcomes)
    BY <2>3, <2>4 DEF Partial
  <2>6. \A k \in DOMAIN results' : results'[k] \in Outcomes
    BY <2>4
  <2> QED BY <1>0, <2>3, <2>4, <2>5, <2>6 DEF Reports
<1>3. [Next]_vars => UNCHANGED results \/ \E m \in Metrics : Evaluate(m)
  BY DEF Next, vars, Contribute, Miss, Finish, NoWeights
<1> QED BY <1>1, <1>2, <1>3

\* In every reachable state the results are scores or errors of metrics.
LEMMA ReportsAlways == Spec => []Reports
<1>1. Init => Reports
  <2>1. << >> \in [{} -> Outcomes]
    OBVIOUS
  <2>2. << >> \in Partial(Metrics, Outcomes) /\ DOMAIN << >> = {}
    BY <2>1 DEF Partial
  <2> QED BY <2>2 DEF Init, Reports
<1>2. Reports /\ [Next]_vars => Reports'
  BY ReportsKept
<1> QED BY <1>1, <1>2, PTL DEF Spec

-----------------------------------------------------------------------------
\* An outcome is a failure or a score, and the score of either is one.
LEMMA ScoreOfOutcome ==
  ASSUME NEW outcome \in Outcomes
  PROVE  /\ ScoreOf(outcome) \in Scores /\ ScoreOf(outcome) \in Nat
         /\ outcome \in Scores \/ outcome \in Failures
         /\ outcome \in Scores => outcome \notin Failures /\ ScoreOf(outcome) = outcome
         /\ outcome \in Failures => ScoreOf(outcome) = 0
BY ScoringAssumption DEF Outcomes, Scores, Failures, ScoreOf

\* The value a gate sees of a metric is its score, and there is none for a failure.
LEMMA ValuesOfScores ==
  ASSUME NEW r
  PROVE  /\ DOMAIN Values(r) = {k \in DOMAIN r : r[k] \notin Failures}
         /\ \A m \in DOMAIN Values(r) : Values(r)[m].num = r[m] /\ Values(r)[m].den = 1
BY DEF Values, Fraction

\* One threshold of a gate, on a score.
LEMMA MeetsBound ==
  ASSUME NEW direction \in {Lower, Higher}, NEW bound \in Int, NEW value,
         value.num \in Int, value.den = 1
  PROVE  Meets(direction, IF direction = Higher THEN [min |-> bound] ELSE [max |-> bound], value)
           <=> IF direction = Higher THEN value.num >= bound ELSE value.num <= bound
<1>1. CASE direction = Higher
  <2>1. "min" \in DOMAIN [min |-> bound] /\ [min |-> bound].min = bound
    OBVIOUS
  <2> QED BY <1>1, <2>1 DEF Meets
<1>2. CASE direction # Higher
  <2>1. "max" \in DOMAIN [max |-> bound] /\ [max |-> bound].max = bound
    OBVIOUS
  <2> QED BY <1>2, <2>1 DEF Meets
<1> QED BY <1>1, <1>2

\* A gate passes iff no reported metric misses its bound; a metric without a result, or with
\* an error, is no obstacle.
LEMMA GateOnScores ==
  ASSUME NEW directions \in [Metrics -> {Lower, Higher}], NEW r,
         \A m \in DOMAIN r : r[m] \in Outcomes,
         NEW bounds, DOMAIN bounds \subseteq Metrics, \A m \in DOMAIN bounds : bounds[m] \in Int
  PROVE  GatePasses(directions, Gate(directions, bounds), Values(r))
           <=> \A m \in DOMAIN bounds \cap DOMAIN r :
                 r[m] \notin Failures => IF directions[m] = Higher THEN r[m] >= bounds[m]
                                                                   ELSE r[m] <= bounds[m]
<1> DEFINE gate == Gate(directions, bounds)
           values == Values(r)
<1>1. /\ DOMAIN gate = DOMAIN bounds
      /\ \A m \in DOMAIN bounds : gate[m] = IF directions[m] = Higher THEN [min |-> bounds[m]]
                                                                      ELSE [max |-> bounds[m]]
  BY DEF Gate
<1>2. /\ DOMAIN values = {k \in DOMAIN r : r[k] \notin Failures}
      /\ \A m \in DOMAIN values : values[m].num = r[m] /\ values[m].den = 1
  BY ValuesOfScores
<1> HIDE DEF gate, values
<1>3. ASSUME NEW m \in DOMAIN bounds \cap DOMAIN r, r[m] \notin Failures
      PROVE  Meets(directions[m], gate[m], values[m])
               <=> IF directions[m] = Higher THEN r[m] >= bounds[m] ELSE r[m] <= bounds[m]
  <2>1. directions[m] \in {Lower, Higher} /\ bounds[m] \in Int /\ m \in DOMAIN values
    BY <1>2, <1>3
  <2>2. values[m].num = r[m] /\ values[m].den = 1 /\ r[m] \in Int
    BY <1>2, <1>3, <2>1, ScoringAssumption DEF Scores, Outcomes
  <2>3. gate[m] = IF directions[m] = Higher THEN [min |-> bounds[m]] ELSE [max |-> bounds[m]]
    BY <1>1
  <2> QED BY <2>1, <2>2, <2>3, MeetsBound
<1>4. DOMAIN gate \cap DOMAIN directions \cap DOMAIN values
        = {m \in DOMAIN bounds \cap DOMAIN r : r[m] \notin Failures}
  BY <1>1, <1>2
<1> QED BY <1>3, <1>4 DEF GatePasses, gate, values

-----------------------------------------------------------------------------
\* The CI script (scripts/evaluate_ci.py:80-95) and the service (quality_gate_service.py:78-136)
\* decide alike on one item, for thresholds of the same values and directions, but for the
\* failures whose error is an empty text: their 0.0 has to meet its threshold in the script.
THEOREM CiAndServiceAgree == Spec => []GatesAgree
<1>1. Reports => GatesAgree
  <2>1. SUFFICES ASSUME Reports, NEW directions \in [Metrics -> {Lower, Higher}],
                        NEW bounds \in Partial(Metrics, Scores)
                 PROVE  CiPasses([m \in DOMAIN bounds |-> [value |-> bounds[m],
                                                           direction |-> directions[m]]], {results})
                          <=> /\ GatePasses(directions, Gate(directions, bounds), Values(results))
                              /\ \A m \in {k \in DOMAIN bounds \cap DOMAIN results : results[k] = NoText} :
                                   Meets(directions[m], Gate(directions, bounds)[m], Fraction(0, 1))
    BY DEF GatesAgree
  <2> DEFINE thresholds == [m \in DOMAIN bounds |-> [value |-> bounds[m],
                                                     direction |-> directions[m]]]
             zeros == \A m \in {k \in DOMAIN bounds \cap DOMAIN results : results[k] = NoText} :
                        Meets(directions[m], Gate(directions, bounds)[m], Fraction(0, 1))
  <2> DEFINE meets(m, value) == IF directions[m] = Higher THEN value >= bounds[m] ELSE value <= bounds[m]
             both == DOMAIN bounds \cap DOMAIN results
  <2>2. DOMAIN bounds \subseteq Metrics /\ \A m \in DOMAIN bounds : bounds[m] \in Int
    BY ScoringAssumption DEF Partial, Scores
  <2>3. results # Error /\ \A m \in DOMAIN results : results[m] \in Outcomes
    BY <2>1, OutcomeAssumption DEF Reports
  <2>4. CiPasses(thresholds, {results})
          <=> \A m \in both : results[m] # Error => meets(m, ScoreOf(results[m]))
    <3>1. /\ DOMAIN thresholds = DOMAIN bounds
          /\ \A m \in DOMAIN bounds : /\ thresholds[m].value = bounds[m]
                                      /\ thresholds[m].direction = directions[m]
      OBVIOUS
    <3> HIDE DEF thresholds
    <3> QED BY <2>3, <3>1 DEF CiPasses
  <2>5. GatePasses(directions, Gate(directions, bounds), Values(results))
          <=> \A m \in both : results[m] \notin Failures => meets(m, results[m])
    BY <2>2, <2>3, GateOnScores
  <2>6. zeros <=> \A m \in both : results[m] = NoText => meets(m, 0)
    <3>1. ASSUME NEW m \in both
          PROVE  Meets(directions[m], Gate(directions, bounds)[m], Fraction(0, 1)) <=> meets(m, 0)
      <4>1. directions[m] \in {Lower, Higher} /\ bounds[m] \in Int
        BY <2>2
      <4>2. Gate(directions, bounds)[m] = IF directions[m] = Higher THEN [min |-> bounds[m]]
                                                                    ELSE [max |-> bounds[m]]
        BY DEF Gate
      <4>3. Fraction(0, 1).num = 0 /\ Fraction(0, 1).den = 1
        BY DEF Fraction
      <4> QED BY <4>1, <4>2, <4>3, MeetsBound
    <3> QED BY <3>1
  <2>7. ASSUME NEW m \in both
        PROVE  (results[m] # Error => meets(m, ScoreOf(results[m])))
                 <=> /\ results[m] \notin Failures => meets(m, results[m])
                     /\ results[m] = NoText => meets(m, 0)
    <3>1. CASE results[m] \in Scores
      <4>1. results[m] \notin Failures /\ ScoreOf(results[m]) = results[m]
        BY <2>3, <3>1, ScoreOfOutcome
      <4> QED BY <4>1 DEF Failures
    <3>2. CASE results[m] \in Failures
      <4>1. ScoreOf(results[m]) = 0
        BY <2>3, <3>2, ScoreOfOutcome
      <4> QED BY <3>2, <4>1, ScoringAssumption DEF Failures
    <3> QED BY <2>3, <3>1, <3>2, ScoreOfOutcome
  <2>8. CiPasses(thresholds, {results})
          <=> GatePasses(directions, Gate(directions, bounds), Values(results)) /\ zeros
    <3> HIDE DEF thresholds, zeros, meets, both
    <3> QED BY <2>4, <2>5, <2>6, <2>7
  <2> QED BY <2>8
<1> QED BY <1>1, ReportsAlways, PTL

\* The columns of a run without failures are scores of metrics.
LEMMA ColumnsAreScores ==
  ASSUME NEW hallucination \in Metrics, NEW run, DOMAIN run \subseteq Metrics,
         \A m \in DOMAIN run : run[m] \in Scores
  PROVE  /\ DOMAIN Columns(run, hallucination) = DOMAIN run \cup {hallucination}
         /\ \A m \in DOMAIN run : Columns(run, hallucination)[m] = run[m]
         /\ hallucination \notin DOMAIN run => Columns(run, hallucination)[hallucination] = 0
         /\ \A m \in DOMAIN Columns(run, hallucination) : Columns(run, hallucination)[m] \in Nat
BY ScoringAssumption DEF Columns, Scores

\* A run shows a regression against a baseline (baseline_service.py:80-186) iff it misses the
\* gate made of the baseline's columns, each given way by the tolerance.
THEOREM ComparisonIsGate == Spec => []RegressionIsGate
<1>1. Reports => RegressionIsGate
  <2>1. SUFFICES ASSUME Reports, Complete, NEW hallucination \in Metrics,
                        NEW base \in Partial(Metrics, Scores), NEW tolerance \in Scores,
                        NEW directions \in {d \in [Metrics -> {Lower, Higher}] : d[hallucination] = Lower}
                 PROVE  Regressions(directions, tolerance, Columns(base, hallucination),
                                    Columns(results, hallucination)) = {}
                          <=> GatePasses(directions,
                                Gate(directions, [m \in DOMAIN Columns(base, hallucination) |->
                                  IF directions[m] = Higher
                                    THEN Columns(base, hallucination)[m] - tolerance
                                    ELSE Columns(base, hallucination)[m] + tolerance]),
                                Values(results))
    BY DEF RegressionIsGate
  <2> DEFINE columns == Columns(base, hallucination)
             current == Columns(results, hallucination)
             limits  == [m \in DOMAIN columns |-> IF directions[m] = Higher
                                                   THEN columns[m] - tolerance
                                                   ELSE columns[m] + tolerance]
             worse   == Regressions(directions, tolerance, columns, current)
             meets(m, value) == IF directions[m] = Higher THEN value >= limits[m] ELSE value <= limits[m]
             both    == DOMAIN columns \cap DOMAIN results
  <2>2. /\ DOMAIN base \subseteq Metrics /\ \A m \in DOMAIN base : base[m] \in Scores
        /\ DOMAIN results \subseteq Metrics /\ \A m \in DOMAIN results : results[m] \in Scores
        /\ tolerance \in Nat
    <3>1. DOMAIN base \subseteq Metrics /\ \A m \in DOMAIN base : base[m] \in Scores
      BY DEF Partial
    <3>2. DOMAIN results \subseteq Metrics /\ \A m \in DOMAIN results : results[m] \in Scores
      BY <2>1 DEF Reports, Complete
    <3>3. tolerance \in Nat
      BY ScoringAssumption DEF Scores
    <3> QED BY <3>1, <3>2, <3>3
  <2>3. /\ DOMAIN columns = DOMAIN base \cup {hallucination}
        /\ \A m \in DOMAIN columns : columns[m] \in Nat
    BY <2>2, ColumnsAreScores
  <2>4. /\ DOMAIN current = DOMAIN results \cup {hallucination}
        /\ \A m \in DOMAIN results : current[m] = results[m]
        /\ hallucination \notin DOMAIN results => current[hallucination] = 0
        /\ \A m \in DOMAIN current : current[m] \in Nat
    BY <2>2, ColumnsAreScores
  <2> HIDE DEF columns, current
  <2>5. /\ DOMAIN limits = DOMAIN columns /\ DOMAIN columns \subseteq Metrics
        /\ \A m \in DOMAIN columns : limits[m] \in Int
    BY <2>2, <2>3
  <2>6. ASSUME NEW m \in both
        PROVE  m \in worse <=> ~meets(m, results[m])
    <3>1. columns[m] \in Nat /\ current[m] \in Nat /\ current[m] = results[m]
          /\ m \in DOMAIN columns \cap DOMAIN current /\ m \in DOMAIN directions
      BY <2>2, <2>3, <2>4
    <3>2. CASE directions[m] = Higher
      BY <2>2, <3>1, <3>2 DEF Regressions, columns, current
    <3>3. CASE directions[m] # Higher
      BY <2>2, <3>1, <3>3 DEF Regressions, columns, current
    <3> QED BY <3>2, <3>3
  <2>7. worse \subseteq both
    <3> SUFFICES ASSUME NEW m \in worse, m \notin DOMAIN results PROVE FALSE
      BY DEF Regressions, columns
    <3>1. m \in DOMAIN columns \cap DOMAIN current
      BY DEF Regressions, columns, current
    <3>2. m = hallucination /\ current[m] = 0 /\ columns[m] \in Nat
      BY <2>3, <2>4, <3>1
    <3>3. Lower # Higher
      BY DEF Lower, Higher
    <3>4. current[m] - columns[m] > tolerance
      BY <2>1, <3>1, <3>2, <3>3 DEF Regressions, columns, current
    <3> QED BY <2>2, <3>2, <3>4
  <2>8. worse = {} <=> \A m \in both : meets(m, results[m])
    <3> HIDE DEF worse, both, meets
    <3> QED BY <2>6, <2>7
  <2>9. GatePasses(directions, Gate(directions, limits), Values(results))
          <=> \A m \in both : meets(m, results[m])
    <3>1. \A m \in DOMAIN results : results[m] \in Outcomes /\ results[m] \notin Failures
      BY <2>2, ScoreOfOutcome DEF Outcomes
    <3> HIDE DEF limits
    <3> QED BY <2>5, <3>1, GateOnScores
  <2> QED BY <2>8, <2>9 DEF columns, current
<1> QED BY <1>1, ReportsAlways, PTL

\* What is told of a metric is the score of an outcome.
LEMMA ToldIsScore ==
  ASSUME NEW r, \A m \in DOMAIN r : r[m] \in Outcomes
  PROVE  \A m \in DOMAIN Told(r) : Told(r)[m] \in Nat
BY ScoreOfOutcome DEF Told

\* Base and current may be exchanged (baseline_service.py:80-186): a regression one way is an
\* improvement the other way, and an improvement both ways is within the tolerance.
THEOREM ComparisonIsReversible == Spec => []ComparisonTurnsAround
<1>1. ASSUME NEW directions, NEW tolerance \in Nat, NEW before, NEW after,
             \A m \in DOMAIN before : before[m] \in Nat, \A m \in DOMAIN after : after[m] \in Nat
      PROVE  /\ Regressions(directions, tolerance, before, after)
                  \subseteq Improvements(directions, tolerance, after, before)
             /\ \A m \in Improvements(directions, tolerance, before, after)
                           \cap Improvements(directions, tolerance, after, before) :
                  after[m] - before[m] <= tolerance /\ before[m] - after[m] <= tolerance
  <2>1. ASSUME NEW m \in Regressions(directions, tolerance, before, after)
        PROVE  m \in Improvements(directions, tolerance, after, before)
    <3>1. m \in DOMAIN before \cap DOMAIN after /\ before[m] \in Nat /\ after[m] \in Nat
      BY <1>1, <2>1 DEF Regressions
    <3>2. CASE m \notin DOMAIN directions \/ directions[m] = Higher
      BY <1>1, <2>1, <3>1, <3>2 DEF Regressions, Improvements
    <3>3. CASE ~(m \notin DOMAIN directions \/ directions[m] = Higher)
      BY <1>1, <2>1, <3>1, <3>3 DEF Regressions, Improvements
    <3> QED BY <3>2, <3>3
  <2>2. ASSUME NEW m \in Improvements(directions, tolerance, before, after)
                         \cap Improvements(directions, tolerance, after, before)
        PROVE  after[m] - before[m] <= tolerance /\ before[m] - after[m] <= tolerance
    <3>1. /\ m \in DOMAIN before \cap DOMAIN after /\ before[m] \in Nat /\ after[m] \in Nat
          /\ m \notin Regressions(directions, tolerance, before, after)
          /\ m \notin Regressions(directions, tolerance, after, before)
      BY <1>1, <2>2 DEF Improvements
    <3>2. CASE m \notin DOMAIN directions \/ directions[m] = Higher
      BY <1>1, <3>1, <3>2 DEF Regressions
    <3>3. CASE ~(m \notin DOMAIN directions \/ directions[m] = Higher)
      BY <1>1, <3>1, <3>3 DEF Regressions
    <3> QED BY <3>2, <3>3
  <2> QED BY <2>1, <2>2
<1>2. Reports => ComparisonTurnsAround
  <2> SUFFICES ASSUME Reports, NEW directions \in Directions, NEW tolerance \in Scores,
                      NEW base \in Partial(Metrics, Outcomes)
               PROVE  LET before == Told(base)
                          after  == Told(results)
                          better == Improvements(directions, tolerance, before, after)
                          back   == Improvements(directions, tolerance, after, before)
                      IN /\ Regressions(directions, tolerance, before, after) \subseteq back
                         /\ \A m \in better \cap back : /\ after[m] - before[m] <= tolerance
                                                        /\ before[m] - after[m] <= tolerance
    BY DEF ComparisonTurnsAround
  <2>1. tolerance \in Nat
    BY ScoringAssumption DEF Scores
  <2>2. \A m \in DOMAIN base : base[m] \in Outcomes
    BY DEF Partial
  <2>3. \A m \in DOMAIN Told(base) : Told(base)[m] \in Nat
    BY <2>2, ToldIsScore
  <2>4. \A m \in DOMAIN Told(results) : Told(results)[m] \in Nat
    BY ToldIsScore DEF Reports
  <2> DEFINE before == Told(base)
             after  == Told(results)
  <2> HIDE DEF before, after
  <2>5. /\ Regressions(directions, tolerance, before, after)
             \subseteq Improvements(directions, tolerance, after, before)
        /\ \A m \in Improvements(directions, tolerance, before, after)
                      \cap Improvements(directions, tolerance, after, before) :
             after[m] - before[m] <= tolerance /\ before[m] - after[m] <= tolerance
    BY <1>1, <2>1, <2>3, <2>4 DEF before, after
  <2> QED BY <2>5 DEF before, after
<1> QED BY <1>2, ReportsAlways, PTL

-----------------------------------------------------------------------------
(***************************************************************************)
(* The composite score.                                                    *)
(***************************************************************************)
\* The sums of the model are sums over the set of metrics.
LEMMA SumOverDomain ==
  ASSUME NEW f
  PROVE  SumFunction(f) = SumFunctionOnSet(f, DOMAIN f)
BY DEF SumFunction, FoldFunction, SumFunctionOnSet

\* The product of natural numbers is one.
LEMMA NatProduct == \A a, b \in Nat : a * b \in Nat
OBVIOUS

WeightsOK == weights \in [Metrics -> 0 .. MaxWeight]

\* The total weight is a natural number, and the sum over all metrics.
LEMMA TotalIsSum ==
  ASSUME WeightsOK
  PROVE  /\ TotalWeight \in Nat
         /\ TotalWeight = SumFunctionOnSet(weights, Metrics)
         /\ \A m \in Metrics : weights[m] \in Nat
<1>1. DOMAIN weights = Metrics /\ \A m \in Metrics : weights[m] \in Nat
  BY ScoringAssumption DEF WeightsOK
<1>2. SumFunctionOnSet(weights, Metrics) \in Nat
  BY <1>1, ScoringAssumption, SumPart
<1>3. TotalWeight = SumFunctionOnSet(weights, Metrics)
  BY <1>1, SumOverDomain DEF TotalWeight
<1> QED
  BY <1>1, <1>2, <1>3

\* The cap keeps a fraction of natural numbers one.
LEMMA CappedIsFraction ==
  ASSUME NEW num \in Nat, NEW den \in Nat
  PROVE  /\ Capped(Fraction(num, den)).num \in Nat
         /\ Capped(Fraction(num, den)).den \in Nat
BY ScoringAssumption DEF Capped, Fraction

\* Types are kept by every step; those of the sums need that weights and scores are natural.
LEMMA ScoringTypes == TypeOK /\ [Next]_vars => TypeOK'
<1> SUFFICES ASSUME TypeOK, [Next]_vars PROVE TypeOK'
  OBVIOUS
<1>0. TotalWeight \in Nat /\ \A m \in Metrics : weights[m] \in Nat
  BY TotalIsSum DEF TypeOK, WeightsOK
<1>1. ASSUME NEW m \in Metrics, Evaluate(m) PROVE TypeOK'
  <2>1. PICK outcome \in Outcomes :
          results' = [k \in DOMAIN results \cup {m} |-> IF k = m THEN outcome ELSE results[k]]
    BY <1>1 DEF Evaluate
  <2>2. DOMAIN results' \subseteq evaluators'
        /\ \A k \in DOMAIN results' : results'[k] \in Outcomes
    BY <1>1, <2>1 DEF TypeOK, Evaluate
  <2> QED
    BY <1>1, <2>2 DEF TypeOK, Evaluate
<1>2. ASSUME NEW m \in Metrics, Contribute(m) PROVE TypeOK'
  <2>1. ScoreOf(results[m]) \in Nat
    BY <1>2, ScoreOfOutcome DEF Contribute, Reported, TypeOK
  <2>2. ScoreOf(results[m]) * weights[m] \in Nat
    BY <1>0, <2>1, NatProduct
  <2>3. sum' \in Nat /\ used' \in Nat
    BY <1>0, <1>2, <2>2 DEF Contribute, TypeOK
  <2> QED
    BY <1>2, <2>3 DEF Contribute, TypeOK
<1>3. ASSUME NEW m \in Metrics, Miss(m) PROVE TypeOK'
  BY <1>3 DEF Miss, TypeOK
<1>4. CASE Finish
  <2>1. sum \in Nat /\ used \in Nat
    BY DEF TypeOK
  <2>2. composite' = Capped(Fraction(sum, TotalWeight))
        \/ (used < TotalWeight /\ composite' = Capped(Fraction(sum, TotalWeight - used)))
    <3>1. Redistributed = Fraction(sum, TotalWeight)
          \/ (used < TotalWeight /\ Redistributed = Fraction(sum, TotalWeight - used))
      BY DEF Redistributed
    <3>2. composite' = Capped(Redistributed)
      BY <1>4 DEF Finish
    <3> QED
      BY <3>1, <3>2, Zenon
  <2>3. composite'.num \in Nat /\ composite'.den \in Nat
    <3>1. CASE composite' = Capped(Fraction(sum, TotalWeight))
      BY <1>0, <2>1, <3>1, CappedIsFraction
    <3>2. CASE used < TotalWeight /\ composite' = Capped(Fraction(sum, TotalWeight - used))
      <4>1. TotalWeight - used \in Nat
        BY <1>0, <2>1, <3>2
      <4> QED
        BY <2>1, <3>2, <4>1, CappedIsFraction
    <3> QED
      BY <2>2, <3>1, <3>2
  <2> QED
    BY <1>4, <2>3 DEF Finish, TypeOK
<1>5. CASE NoWeights
  <2>1. composite'.num \in Nat /\ composite'.den \in Nat
    BY <1>5 DEF NoWeights, Fraction
  <2> QED
    BY <1>5, <2>1 DEF NoWeights, TypeOK
<1>6. CASE UNCHANGED vars
  BY <1>6 DEF vars, TypeOK
<1> QED
  BY <1>1, <1>2, <1>3, <1>4, <1>5, <1>6 DEF Next

\* The initial types.
LEMMA ScoringInitTypes == Init => TypeOK
BY DEF Init, TypeOK, NoScore, Fraction

\* The weighted sum, the weight it has used and the composite are fractions of natural
\* numbers, whichever metrics report, fail or are missing (composite.py:40-68).
THEOREM ScoreTypeCorrect == Spec => []TypeOK
BY ScoringInitTypes, ScoringTypes, PTL DEF Spec

-----------------------------------------------------------------------------
\* What a metric contributes, as far as it has reported.
Share == [m \in Metrics |-> IF Reported(m) THEN ScoreOf(results[m]) * weights[m] ELSE 0]

\* The metrics whose scores are in the sum so far.
Weighed == (Metrics \ todo) \ missing

\* The weights are looked at when all evaluators have run, so that what has reported by then
\* is settled.
Settled ==
  /\ todo # Metrics => DOMAIN results = evaluators
  /\ \A m \in Weighed : Reported(m)
  /\ \A m \in missing : ~Reported(m)

\* The two sums are those of the metrics weighed so far.
Summed ==
  /\ sum = SumFunctionOnSet(Share, Weighed)
  /\ used = SumFunctionOnSet(weights, Weighed)

Computed ==
  composite # NoScore /\ TotalWeight # 0 => todo = {} /\ composite = Capped(Redistributed)

ScoreInv == TypeOK /\ Settled /\ Summed /\ Computed

\* No metric is weighed at first, and the sum of nothing is zero.
LEMMA NothingWeighed ==
  ASSUME Weighed = {}, sum = 0, used = 0
  PROVE  Summed
<1>1. \A f : SumFunctionOnSet(f, {}) = 0
  BY SumChosen, FS_EmptySet
<1> HIDE DEF Weighed
<1> QED
  BY <1>1, Zenon DEF Summed

\* What a metric adds to the weighted sum, and its weight, are natural numbers.
LEMMA ShareIsNat == ASSUME TypeOK PROVE \A m \in Metrics : Share[m] \in Nat /\ weights[m] \in Nat
<1> SUFFICES ASSUME NEW m \in Metrics PROVE Share[m] \in Nat /\ weights[m] \in Nat
  OBVIOUS
<1>1. weights[m] \in Nat
  BY TotalIsSum DEF TypeOK, WeightsOK
<1>2. CASE Reported(m)
  <2>1. ScoreOf(results[m]) \in Nat
    BY <1>2, ScoreOfOutcome DEF Reported, TypeOK
  <2> QED
    BY <1>1, <1>2, <2>1, NatProduct DEF Share
<1>3. CASE ~Reported(m)
  BY <1>1, <1>3 DEF Share
<1> QED
  BY <1>2, <1>3

\* With zeros for everything else, the shares of all the metrics come to the same sum.
LEMMA SharesWithZeros == ASSUME TypeOK PROVE WithZeros = SumFunctionOnSet(Share, Metrics)
<1> DEFINE zeros == [m \in Metrics |-> IF m \in DOMAIN results
                                        THEN ScoreOf(results[m]) * weights[m] ELSE 0]
<1>1. ASSUME NEW m \in Metrics PROVE zeros[m] = Share[m]
  <2>1. CASE m \in DOMAIN results /\ results[m] = Error
    <3>1. weights[m] \in Nat /\ ScoreOf(results[m]) = 0
      BY <2>1, ScoringAssumption DEF TypeOK, ScoreOf, Failures
    <3> QED
      BY <2>1, <3>1 DEF Share, Reported
  <2>2. CASE ~(m \in DOMAIN results /\ results[m] = Error)
    BY <2>2 DEF Share, Reported
  <2> QED
    BY <2>1, <2>2
<1>2. zeros = Share /\ DOMAIN Share = Metrics
  BY <1>1 DEF Share
<1>3. WithZeros = SumFunction(zeros)
  BY DEF WithZeros
<1> HIDE DEF zeros
<1> QED
  BY <1>2, <1>3, SumOverDomain, Zenon

\* The outcome of an evaluator is settled before its weight is looked at.
LEMMA EvaluateSettles ==
  ASSUME ScoreInv, NEW m \in Metrics, Evaluate(m)
  PROVE  Settled' /\ Summed' /\ Computed'
<1>1. todo = Metrics /\ todo' = Metrics /\ Weighing = FALSE
  BY DEF ScoreInv, Settled, Evaluate, Weighing
<1>2. missing = {} /\ missing' = {} /\ Weighed = {} /\ Weighed' = {}
  BY <1>1 DEF ScoreInv, TypeOK, Evaluate, Weighed
<1>3. Settled'
  BY <1>1, <1>2 DEF Settled
<1>4. sum = 0 /\ used = 0
  BY <1>2, SumChosen, FS_EmptySet DEF ScoreInv, Summed
<1>5. Summed'
  <2>1. \A f : SumFunctionOnSet(f, {}) = 0
    BY SumChosen, FS_EmptySet
  <2>2. sum' = 0 /\ used' = 0
    BY <1>4 DEF Evaluate
  <2> QED
    BY <1>2, <2>1, <2>2 DEF Summed
<1>6. Computed'
  BY DEF ScoreInv, Computed, Evaluate, Redistributed, TotalWeight
<1> QED
  BY <1>3, <1>5, <1>6

\* A metric that has reported joins both sums.
LEMMA ContributeSettles ==
  ASSUME ScoreInv, NEW m \in Metrics, Contribute(m)
  PROVE  Settled' /\ Summed' /\ Computed'
<1>1. /\ m \in todo /\ Reported(m) /\ composite = NoScore /\ composite' = composite
      /\ todo' = todo \ {m} /\ missing' = missing /\ results' = results
      /\ weights' = weights /\ evaluators' = evaluators /\ DOMAIN results = evaluators
      /\ sum' = sum + ScoreOf(results[m]) * weights[m] /\ used' = used + weights[m]
  BY DEF Contribute, Weighing
<1>2. m \notin missing /\ missing \subseteq Metrics /\ todo \subseteq Metrics
  BY <1>1 DEF ScoreInv, TypeOK
<1>3. /\ Weighed' = Weighed \cup {m} /\ m \notin Weighed
      /\ Weighed' \ {m} = Weighed /\ Weighed' \in SUBSET Metrics
  BY <1>1, <1>2 DEF Weighed
<1>4. Settled'
  <2>1. \A k \in Weighed : Reported(k)
    BY DEF ScoreInv, Settled
  <2>2. \A k \in Weighed' : Reported(k)
    BY <1>1, <1>3, <2>1
  <2>3. \A k : Reported(k)' <=> Reported(k)
    BY <1>1 DEF Reported
  <2> QED
    BY <1>1, <2>2, <2>3 DEF ScoreInv, Settled
<1>5. Share' = Share /\ Share[m] = ScoreOf(results[m]) * weights[m]
  BY <1>1 DEF Share, Reported
<1>6. Summed'
  <2>1. \A k \in Metrics : Share[k] \in Int /\ weights[k] \in Int
    BY ShareIsNat DEF ScoreInv
  <2> DEFINE w == Weighed'
  <2>2. w \in SUBSET Metrics /\ m \in w /\ w \ {m} = Weighed
    BY <1>3
  <2> HIDE DEF w
  <2>3. SumFunctionOnSet(Share, w) = Share[m] + SumFunctionOnSet(Share, w \ {m})
    BY <2>1, <2>2, ScoringAssumption, SumCases
  <2>4. SumFunctionOnSet(weights, w) = weights[m] + SumFunctionOnSet(weights, w \ {m})
    BY <2>1, <2>2, ScoringAssumption, SumCases
  <2>5. /\ SumFunctionOnSet(Share, w \ {m}) = sum
        /\ SumFunctionOnSet(weights, w \ {m}) = used
    BY <2>2, Zenon DEF ScoreInv, Summed
  <2>6. sum \in Int /\ used \in Int
    BY DEF ScoreInv, TypeOK
  <2>7. sum' = SumFunctionOnSet(Share, w) /\ used' = SumFunctionOnSet(weights, w)
    BY <1>1, <1>5, <2>1, <2>3, <2>4, <2>5, <2>6
  <2> QED
    BY <1>1, <1>5, <2>7, Zenon DEF Summed, w
<1>7. Computed'
  BY <1>1 DEF Computed
<1> QED
  BY <1>4, <1>6, <1>7

\* A missing metric leaves the sums alone.
LEMMA MissSettles ==
  ASSUME ScoreInv, NEW m \in Metrics, Miss(m)
  PROVE  Settled' /\ Summed' /\ Computed'
<1>1. /\ m \in todo /\ ~Reported(m) /\ composite = NoScore /\ composite' = composite
      /\ todo' = todo \ {m} /\ missing' = missing \cup {m} /\ results' = results
      /\ weights' = weights /\ evaluators' = evaluators /\ DOMAIN results = evaluators
      /\ sum' = sum /\ used' = used
  BY DEF Miss, Weighing
<1>2. Weighed' = Weighed
  BY <1>1 DEF Weighed
<1>3. Settled'
  <2>1. \A k : Reported(k)' <=> Reported(k)
    BY <1>1 DEF Reported
  <2> QED
    BY <1>1, <1>2, <2>1 DEF ScoreInv, Settled
<1>4. Share' = Share
  BY <1>1 DEF Share, Reported
<1>5. Summed'
  BY <1>1, <1>2, <1>4, Zenon DEF ScoreInv, Summed
<1>6. Computed'
  BY <1>1 DEF Computed
<1> QED
  BY <1>3, <1>5, <1>6

\* A step that writes nothing but the composite.
LEMMA OthersSettle ==
  ASSUME ScoreInv, UNCHANGED <<evaluators, weights, results, todo, sum, used, missing>>
  PROVE  Settled' /\ Summed' /\ TotalWeight' = TotalWeight /\ Redistributed' = Redistributed
BY DEF ScoreInv, Settled, Summed, Weighed, Share, Reported, TotalWeight, Redistributed

\* Every step of run_evaluators and compute_composite keeps the sums in line with the results.
LEMMA ScoreInvKept == ScoreInv /\ [Next]_vars => ScoreInv'
<1> SUFFICES ASSUME ScoreInv, [Next]_vars PROVE ScoreInv'
  OBVIOUS
<1>1. TypeOK'
  BY ScoringTypes DEF ScoreInv
<1>2. ASSUME NEW m \in Metrics, Evaluate(m) PROVE ScoreInv'
  BY <1>1, <1>2, EvaluateSettles DEF ScoreInv
<1>3. ASSUME NEW m \in Metrics, Contribute(m) PROVE ScoreInv'
  BY <1>1, <1>3, ContributeSettles DEF ScoreInv
<1>4. ASSUME NEW m \in Metrics, Miss(m) PROVE ScoreInv'
  BY <1>1, <1>4, MissSettles DEF ScoreInv
<1>5. CASE Finish
  <2>1. /\ UNCHANGED <<evaluators, weights, results, todo, sum, used, missing>>
        /\ todo' = {} /\ composite' = Capped(Redistributed)
    BY <1>5 DEF Finish
  <2> QED
    BY <1>1, <2>1, OthersSettle DEF ScoreInv, Computed
<1>6. CASE NoWeights
  <2>1. UNCHANGED <<evaluators, weights, results, todo, sum, used, missing>> /\ TotalWeight = 0
    BY <1>6 DEF NoWeights
  <2> QED
    BY <1>1, <2>1, OthersSettle DEF ScoreInv, Computed
<1>7. CASE UNCHANGED vars
  <2>1. UNCHANGED <<evaluators, weights, results, todo, sum, used, missing>>
        /\ UNCHANGED composite
    BY <1>7 DEF vars
  <2> QED
    BY <1>1, <2>1, OthersSettle DEF ScoreInv, Computed
<1> QED
  BY <1>2, <1>3, <1>4, <1>5, <1>6, <1>7 DEF Next

\* The sums are in line with the results in every reachable state.
LEMMA ScoreInvAlways == Spec => []ScoreInv
<1>1. Init => ScoreInv
  <2> SUFFICES ASSUME Init PROVE ScoreInv
    OBVIOUS
  <2>1. Weighed = {} /\ missing = {} /\ todo = Metrics
    BY DEF Init, Weighed
  <2>2. Settled
    BY <2>1 DEF Settled
  <2>3. Summed
    BY <2>1, NothingWeighed DEF Init
  <2>4. Computed
    BY DEF Init, Computed
  <2> QED
    BY <2>2, <2>3, <2>4, ScoringInitTypes DEF ScoreInv
<1> QED
  BY <1>1, ScoreInvKept, PTL DEF Spec

-----------------------------------------------------------------------------
\* The bound of the two sums: no share is more than MaxScore times its weight, and what is
\* not weighed is missing from the total.
LEMMA ScoreBounds ==
  ASSUME ScoreInv
  PROVE  /\ sum <= MaxScore * used /\ used <= TotalWeight
         /\ \A m \in Metrics \ Weighed : used + weights[m] <= TotalWeight
<1> DEFINE top == [m \in Metrics |-> MaxScore * weights[m]]
<1>1. \A m \in Metrics : Share[m] \in Nat /\ weights[m] \in Nat
  BY ShareIsNat DEF ScoreInv
<1>2. TotalWeight = SumFunctionOnSet(weights, Metrics)
  BY TotalIsSum DEF ScoreInv, TypeOK, WeightsOK
<1>3. Weighed \in SUBSET Metrics /\ IsFiniteSet(Weighed) /\ IsFiniteSet(Metrics)
  BY ScoringAssumption, FS_Subset DEF Weighed
<1>4. \A m \in Weighed : top[m] \in Int /\ Share[m] <= top[m]
  <2> SUFFICES ASSUME NEW m \in Weighed PROVE top[m] \in Int /\ Share[m] <= top[m]
    OBVIOUS
  <2>1. m \in Metrics /\ weights[m] \in Nat /\ MaxScore \in Nat
    BY <1>1, <1>3, ScoringAssumption
  <2>2. ScoreOf(results[m]) \in 0 .. MaxScore
    BY <2>1, ScoreOfOutcome DEF ScoreInv, Settled, Reported, TypeOK, Scores
  <2>3. ScoreOf(results[m]) * weights[m] <= MaxScore * weights[m]
    <3>1. \A a, b, c \in Nat : a <= b => a * c <= b * c
      OBVIOUS
    <3> QED
      BY <2>1, <2>2, <3>1
  <2>4. Share[m] = ScoreOf(results[m]) * weights[m]
    BY <2>1 DEF ScoreInv, Settled, Share
  <2>5. MaxScore * weights[m] \in Nat
    BY <2>1, NatProduct
  <2> QED
    BY <2>1, <2>3, <2>4, <2>5
<1> HIDE DEF top
<1>5. SumFunctionOnSet(Share, Weighed) <= SumFunctionOnSet(top, Weighed)
  BY <1>1, <1>3, <1>4, SumMonotone
<1>6. SumFunctionOnSet(top, Weighed) = MaxScore * SumFunctionOnSet(weights, Weighed)
  <2>1. MaxScore \in Int /\ \A m \in Weighed : weights[m] \in Int /\ top[m] = MaxScore * weights[m]
    BY <1>1, <1>3, ScoringAssumption DEF top
  <2> QED
    BY <1>3, <2>1, SumScaled
<1>7. SumFunctionOnSet(weights, Weighed) <= SumFunctionOnSet(weights, Metrics)
  BY <1>1, <1>3, SumPart
<1>8. \A m \in Metrics \ Weighed :
        SumFunctionOnSet(weights, Weighed) + weights[m] <= SumFunctionOnSet(weights, Metrics)
  BY <1>1, <1>3, SumLeftOut
<1> QED
  BY <1>2, <1>5, <1>6, <1>7, <1>8, Zenon DEF ScoreInv, Summed

\* When every metric of the profile has reported, the composite is the weighted average
\* (composite.py:40-68), for any number of metrics, scale and weights.
THEOREM CompleteIsAverage == Spec => []AverageWhenComplete
<1>1. ScoreInv => AverageWhenComplete
  <2> SUFFICES ASSUME ScoreInv, Scored, \A m \in Metrics : Reported(m)
               PROVE  composite.num * TotalWeight = composite.den * WithZeros
    BY DEF AverageWhenComplete
  <2>1. missing = {} /\ Weighed = Metrics
    BY DEF ScoreInv, TypeOK, Settled, Computed, Scored, Weighed
  <2>2. used = TotalWeight
    <3>1. TotalWeight = SumFunctionOnSet(weights, Metrics)
      BY TotalIsSum DEF ScoreInv, TypeOK, WeightsOK
    <3> QED
      BY <2>1, <3>1, Zenon DEF ScoreInv, Summed
  <2>3. sum \in Nat /\ TotalWeight \in Nat /\ MaxScore \in Nat
    BY TotalIsSum, ScoringAssumption DEF ScoreInv, TypeOK, WeightsOK
  <2>4. sum <= MaxScore * TotalWeight
    BY <2>2, ScoreBounds
  <2>5. composite = Capped(Fraction(sum, TotalWeight))
    BY <2>1, Zenon DEF ScoreInv, Computed, Scored, Redistributed
  <2>6. composite.num = sum /\ composite.den = TotalWeight
    <3>1. MaxScore * TotalWeight \in Nat
      BY <2>3, NatProduct
    <3> QED
      BY <2>3, <2>4, <2>5, <3>1 DEF Capped, Fraction
  <2>7. sum = WithZeros
    BY <2>1, SharesWithZeros, Zenon DEF ScoreInv, Summed
  <2> QED
    BY <2>3, <2>6, <2>7
<1> QED
  BY <1>1, ScoreInvAlways, PTL

\* Natural numbers: what the two branches of the composite come to.
LEMMA ShareOfTotal ==
  ASSUME NEW s \in Nat, NEW u \in Nat, NEW t \in Nat, NEW top \in Nat \ {0},
         s > 0, u < t, s <= top * u
  PROVE  /\ 0 < u
         /\ s * t > (t - u) * s
         /\ top * t > 1 * s
<1>1. 0 < u
  <2>1. CASE u = 0
    BY <2>1
  <2> QED
    BY <2>1
<1>2. s * t = (t - u) * s + u * s /\ u * s > 0 /\ (t - u) * s \in Int
  <2>1. u * s > 0
    BY <1>1
  <2>2. s * t = ((t - u) + u) * s
    OBVIOUS
  <2>3. \A a, b, c \in Int : (a + b) * c = a * c + b * c
    OBVIOUS
  <2> QED
    BY <2>1, <2>2, <2>3
<1>3. top * t > top * u
  OBVIOUS
<1> QED
  BY <1>1, <1>2, <1>3

\* A weighted metric that has not reported is not a zero: the composite is above the average
\* that counts it as one (composite.py:45-66).
THEOREM MissingIsNoZero == Spec => []MissingIsNotZero
<1>1. ScoreInv => MissingIsNotZero
  <2> SUFFICES ASSUME ScoreInv, Scored, WithZeros > 0, NEW m \in Metrics, weights[m] > 0,
                      m \notin DOMAIN results \/ results[m] = Error
               PROVE  composite.num * TotalWeight > composite.den * WithZeros
    BY DEF MissingIsNotZero
  <2>0. sum = WithZeros
    <3>1. todo = {} /\ Weighed \in SUBSET Metrics /\ \A k \in missing : ~Reported(k)
      BY DEF ScoreInv, Settled, Computed, Scored, Weighed
    <3>2. \A k \in Metrics \ Weighed : Share[k] = 0
      BY <3>1 DEF Weighed, Share
    <3>3. \A k \in Metrics : Share[k] \in Int
      BY ShareIsNat DEF ScoreInv
    <3>4. SumFunctionOnSet(Share, Weighed) = SumFunctionOnSet(Share, Metrics)
      BY <3>1, <3>2, <3>3, ScoringAssumption, SumOfNonzero
    <3> QED
      BY <3>4, SharesWithZeros, Zenon DEF ScoreInv, Summed
  <2>1. /\ sum \in Nat /\ used \in Nat /\ TotalWeight \in Nat /\ MaxScore \in Nat \ {0}
        /\ weights[m] \in Nat /\ m \in Metrics \ Weighed
    <3>1. m \in Metrics \ Weighed
      BY DEF ScoreInv, Settled, Reported
    <3> QED
      BY <3>1, TotalIsSum, ScoringAssumption DEF ScoreInv, TypeOK, WeightsOK
  <2>2. used + weights[m] <= TotalWeight /\ sum <= MaxScore * used
    BY <2>1, ScoreBounds
  <2>3. used < TotalWeight
    BY <2>1, <2>2
  <2>4. /\ 0 < used /\ sum * TotalWeight > (TotalWeight - used) * sum
        /\ MaxScore * TotalWeight > 1 * sum
    BY <2>0, <2>1, <2>2, <2>3, ShareOfTotal
  <2>5. Redistributed = Fraction(sum, TotalWeight - used)
    <3>1. m \in missing
      BY <2>1 DEF ScoreInv, Settled, Computed, Scored, Weighed
    <3> QED
      BY <2>3, <2>4, <3>1 DEF Redistributed
  <2>6. composite = Capped(Fraction(sum, TotalWeight - used))
    BY <2>5, Zenon DEF ScoreInv, Computed, Scored
  <2>7. \/ composite = Fraction(MaxScore, 1)
        \/ composite = Fraction(sum, TotalWeight - used)
    BY <2>6 DEF Capped
  <2>8. composite.num * TotalWeight > composite.den * sum
    BY <2>4, <2>7 DEF Fraction
  <2> QED
    BY <2>0, <2>8
<1> QED
  BY <1>1, ScoreInvAlways, PTL

-----------------------------------------------------------------------------
(***************************************************************************)
(* The gate of a job.                                                      *)
(***************************************************************************)
\* One threshold of a gate, on a fraction.
LEMMA MeetsFraction ==
  ASSUME NEW direction \in {Lower, Higher}, NEW bound \in Int, NEW value,
         value.num \in Int, value.den \in Int
  PROVE  Meets(direction, IF direction = Higher THEN [min |-> bound] ELSE [max |-> bound], value)
           <=> IF direction = Higher THEN value.num >= value.den * bound
                                     ELSE value.num <= value.den * bound
<1>1. CASE direction = Higher
  <2>1. "min" \in DOMAIN [min |-> bound] /\ [min |-> bound].min = bound
    OBVIOUS
  <2> QED BY <1>1, <2>1 DEF Meets
<1>2. CASE direction # Higher
  <2>1. "max" \in DOMAIN [max |-> bound] /\ [max |-> bound].max = bound
    OBVIOUS
  <2> QED BY <1>2, <2>1 DEF Meets
<1> QED BY <1>1, <1>2

\* The value a gate is given for one run.
Alone(run, m) == Fraction(run[m], 1)

\* An average meets a threshold when every measurement does, and misses it when all miss it.
LEMMA AverageSpeaks ==
  ASSUME NEW runs \in Seq(Partial(Metrics, Scores)), NEW m,
         \E i \in DOMAIN runs : m \in DOMAIN runs[i],
         NEW direction \in {Lower, Higher}, NEW bound \in Int, NEW config,
         config = IF direction = Higher THEN [min |-> bound] ELSE [max |-> bound]
  PROVE  /\ (\A i \in DOMAIN runs : m \in DOMAIN runs[i]
                                      => Meets(direction, config, Alone(runs[i], m)))
              => Meets(direction, config, Average(runs, m))
         /\ Meets(direction, config, Average(runs, m))
              => \E i \in DOMAIN runs : /\ m \in DOMAIN runs[i]
                                        /\ Meets(direction, config, Alone(runs[i], m))
<1> DEFINE I == {i \in DOMAIN runs : m \in DOMAIN runs[i]}
           f == [i \in I |-> runs[i][m]]
           q == Average(runs, m)
<1>1. IsFiniteSet(I) /\ I # {}
  <2>1. DOMAIN runs = 1 .. Len(runs) /\ Len(runs) \in Nat
    OBVIOUS
  <2>2. IsFiniteSet(1 .. Len(runs))
    BY <2>1, FS_Interval
  <2> QED
    BY <2>1, <2>2, FS_Subset
<1>2. \A i \in I : f[i] \in Nat /\ f[i] = runs[i][m]
  <2> SUFFICES ASSUME NEW i \in I PROVE runs[i][m] \in Nat
    OBVIOUS
  <2>1. runs[i] \in Partial(Metrics, Scores)
    OBVIOUS
  <2> QED
    BY <2>1 DEF Partial, Scores
<1>3. q.num = SumFunctionOnSet(f, I) /\ q.den = Cardinality(I)
  <2>1. DOMAIN f = I
    OBVIOUS
  <2>2. Average(runs, m) = Fraction(SumFunction(f), Cardinality(I))
    BY <1>1 DEF Average
  <2> HIDE DEF f, I
  <2>3. SumFunction(f) = SumFunctionOnSet(f, I)
    BY <2>1, SumOverDomain, Zenon
  <2> QED
    BY <2>2, <2>3 DEF Fraction
<1>4. Cardinality(I) \in Int
  BY <1>1, FS_CardinalityType
<1>5. \A i \in I : /\ Alone(runs[i], m).num = f[i] /\ Alone(runs[i], m).den = 1
  BY DEF Alone, Fraction
<1> HIDE DEF I, f, q
<1>6. \A x \in I : f[x] \in Int
  BY <1>2
<1>7. /\ q.num \in Int /\ q.den \in Int
      /\ (\A x \in I : f[x] >= bound) => q.num >= q.den * bound
      /\ (\A x \in I : f[x] <= bound) => q.num <= q.den * bound
      /\ (\A x \in I : f[x] < bound) => q.num < q.den * bound
      /\ (\A x \in I : f[x] > bound) => q.num > q.den * bound
  BY <1>1, <1>3, <1>4, <1>6, SumBetween
<1>8. Meets(direction, config, q)
        <=> IF direction = Higher THEN q.num >= q.den * bound ELSE q.num <= q.den * bound
  BY <1>7, MeetsFraction
<1>9. \A i \in I : Meets(direction, config, Alone(runs[i], m))
                     <=> IF direction = Higher THEN f[i] >= bound ELSE f[i] <= bound
  BY <1>5, <1>6, MeetsBound
<1>10. (\A i \in I : Meets(direction, config, Alone(runs[i], m))) => Meets(direction, config, q)
  BY <1>7, <1>8, <1>9
<1>11. Meets(direction, config, q) => \E i \in I : Meets(direction, config, Alone(runs[i], m))
  <2>1. q.den * bound \in Int
    BY <1>7
  <2> QED
    BY <1>6, <1>7, <1>8, <1>9, <2>1
<1> QED
  BY <1>10, <1>11 DEF I, q

\* The gate of a job, for any number of runs, speaks for them: it passes if each run would
\* pass alone, and what it passes is met by a run (routes/jobs.py:190-216).
THEOREM JobGateOfRuns ==
  ASSUME NEW runs \in Seq(Partial(Metrics, Scores)), runs # << >>,
         NEW directions \in [Metrics -> {Lower, Higher}],
         NEW bounds, DOMAIN bounds \subseteq Metrics,
         \A m \in DOMAIN bounds : /\ bounds[m] \in Int
                                  /\ \E i \in DOMAIN runs : m \in DOMAIN runs[i]
  PROVE  /\ (\A i \in DOMAIN runs : GatePasses(directions, Gate(directions, bounds), Values(runs[i])))
              => JobPasses(directions, Gate(directions, bounds), runs)
         /\ JobPasses(directions, Gate(directions, bounds), runs)
              => \A m \in DOMAIN bounds : \E i \in DOMAIN runs :
                   /\ m \in DOMAIN runs[i]
                   /\ Meets(directions[m], Gate(directions, bounds)[m], Fraction(runs[i][m], 1))
<1> DEFINE gate == Gate(directions, bounds)
           averages == [m \in Metrics |-> Average(runs, m)]
<1>1. /\ DOMAIN gate = DOMAIN bounds
      /\ \A m \in DOMAIN bounds :
           /\ directions[m] \in {Lower, Higher} /\ bounds[m] \in Int
           /\ gate[m] = IF directions[m] = Higher THEN [min |-> bounds[m]] ELSE [max |-> bounds[m]]
  BY DEF Gate
<1>2. \A m \in DOMAIN bounds : averages[m] = Average(runs, m)
  OBVIOUS
<1>3. DOMAIN gate \cap DOMAIN directions \cap DOMAIN averages = DOMAIN bounds
  BY <1>1
<1>4. ASSUME NEW i \in DOMAIN runs, NEW m \in DOMAIN bounds, m \in DOMAIN runs[i]
      PROVE  /\ m \in DOMAIN gate \cap DOMAIN directions \cap DOMAIN Values(runs[i])
             /\ Values(runs[i])[m] = Alone(runs[i], m)
  <2>1. runs[i] \in Partial(Metrics, Scores)
    OBVIOUS
  <2>2. runs[i][m] \notin Failures
    BY <1>4, <2>1, ScoringAssumption DEF Partial, Scores, Failures
  <2> QED
    BY <1>1, <1>4, <2>2 DEF Values, Alone
<1>5. Len(runs) > 0
  OBVIOUS
<1> HIDE DEF gate, averages
<1>6. JobPasses(directions, gate, runs) <=> GatePasses(directions, gate, averages)
  BY <1>5, Zenon DEF JobPasses, averages
<1>7. GatePasses(directions, gate, averages)
        <=> \A m \in DOMAIN bounds : Meets(directions[m], gate[m], Average(runs, m))
  BY <1>2, <1>3 DEF GatePasses
<1>8. ASSUME NEW m \in DOMAIN bounds
      PROVE  /\ (\A i \in DOMAIN runs : m \in DOMAIN runs[i]
                                          => Meets(directions[m], gate[m], Alone(runs[i], m)))
                  => Meets(directions[m], gate[m], Average(runs, m))
             /\ Meets(directions[m], gate[m], Average(runs, m))
                  => \E i \in DOMAIN runs : /\ m \in DOMAIN runs[i]
                                            /\ Meets(directions[m], gate[m], Alone(runs[i], m))
  BY <1>1, AverageSpeaks
<1>9. ASSUME \A i \in DOMAIN runs : GatePasses(directions, gate, Values(runs[i])),
             NEW i \in DOMAIN runs, NEW m \in DOMAIN bounds, m \in DOMAIN runs[i]
      PROVE  Meets(directions[m], gate[m], Alone(runs[i], m))
  BY <1>4, <1>9 DEF GatePasses
<1> QED
  BY <1>6, <1>7, <1>8, <1>9 DEF gate, Alone

\* The gate of a job speaks for its runs, whatever a run of the job measured.
THEOREM JobGateIsFair == Spec => []JobGateSpeaksForRuns
<1>1. Reports => JobGateSpeaksForRuns
  <2> SUFFICES ASSUME Reports, Complete,
                      NEW directions \in [Metrics -> {Lower, Higher}],
                      NEW other \in Partial(Metrics, Scores),
                      NEW bounds \in Partial(DOMAIN results \cup DOMAIN other, Scores)
               PROVE  LET gate == Gate(directions, bounds)
                          runs == <<results, other>>
                          passes == JobPasses(directions, gate, runs)
                      IN /\ (\A i \in 1 .. 2 : GatePasses(directions, gate, Values(runs[i])))
                              => passes
                         /\ passes => \A m \in DOMAIN bounds : \E i \in 1 .. 2 :
                              /\ m \in DOMAIN runs[i]
                              /\ Meets(directions[m], gate[m], Fraction(runs[i][m], 1))
    BY DEF JobGateSpeaksForRuns
  <2> DEFINE runs == <<results, other>>
  <2>1. results \in Partial(Metrics, Scores)
    <3>1. results \in [DOMAIN results -> Scores] /\ DOMAIN results \in SUBSET Metrics
      BY DEF Reports, Complete, Partial
    <3> QED
      BY <3>1 DEF Partial
  <2>2. runs \in Seq(Partial(Metrics, Scores)) /\ runs # << >> /\ DOMAIN runs = 1 .. 2
    BY <2>1
  <2>3. DOMAIN bounds \subseteq Metrics /\ \A m \in DOMAIN bounds :
          bounds[m] \in Int /\ \E i \in DOMAIN runs : m \in DOMAIN runs[i]
    <3>1. /\ DOMAIN bounds \subseteq DOMAIN results \cup DOMAIN other
          /\ \A m \in DOMAIN bounds : bounds[m] \in Int
      BY DEF Partial, Scores
    <3>2. DOMAIN results \subseteq Metrics /\ DOMAIN other \subseteq Metrics
      BY DEF Reports, Partial
    <3>3. runs[1] = results /\ runs[2] = other
      OBVIOUS
    <3> QED
      BY <2>2, <3>1, <3>2, <3>3
  <2> HIDE DEF runs
  <2>4. /\ (\A i \in 1 .. 2 : GatePasses(directions, Gate(directions, bounds), Values(runs[i])))
             => JobPasses(directions, Gate(directions, bounds), runs)
        /\ JobPasses(directions, Gate(directions, bounds), runs)
             => \A m \in DOMAIN bounds : \E i \in 1 .. 2 :
                  /\ m \in DOMAIN runs[i]
                  /\ Meets(directions[m], Gate(directions, bounds)[m], Fraction(runs[i][m], 1))
    BY <2>2, <2>3, JobGateOfRuns
  <2> QED
    BY <2>4 DEF runs
<1> QED
  BY <1>1, ReportsAlways, PTL

-----------------------------------------------------------------------------
(***************************************************************************)
(* Citations and claims.                                                   *)
(***************************************************************************)
\* Min and Max choose an element of a set of positions that has one.
LEMMA Extremes ==
  ASSUME NEW n \in Nat, NEW S \in SUBSET (1 .. n), S # {}
  PROVE  /\ Min(S) \in S /\ \A i \in S : Min(S) <= i
         /\ Max(S) \in S /\ \A i \in S : Max(S) >= i
<1>0. S \in SUBSET Nat /\ S \in SUBSET (0 .. n)
  OBVIOUS
<1>1. \E x \in S : \A y \in S : x <= y
  BY <1>0, LeastNumber
<1>2. \E x \in S : \A y \in S : x >= y
  <2>1. \E x \in S : \A y \in S : y <= x
    BY <1>0, GreatestNumber
  <2> QED
    BY <2>1
<1> QED
  BY <1>1, <1>2 DEF Min, Max

\* Sequences of bounded length are sequences.
LEMMA SeqOfIsSeq ==
  ASSUME NEW S, NEW n, NEW s \in BoundedSeq(S, n)
  PROVE  s \in Seq(S)
<1>1. PICK m \in 0 .. n : s \in [1 .. m -> S]
  BY DEF BoundedSeq, SeqOf
<1> QED
  BY <1>1

\* Chunk i is the one a source id leads to.
Leads(context, citation, i) ==
  /\ i \in DOMAIN context /\ context[i].id = citation.source /\ context[i].text # {}
  /\ \A j \in DOMAIN context : context[j].id = citation.source => j <= i

\* Chunk i is one the search for the quote finds.
Finds(context, citation, i) ==
  citation.source # Blank /\ i \in DOMAIN context /\ citation.quote \in context[i].text

\* A citation has a source iff its id leads to one, or the quote is found.
LEMMA SourceIsFound ==
  ASSUME NEW context \in Seq(Chunks), NEW citation \in Citations
  PROVE  SourceText(context, citation) # {}
           <=> \E i \in DOMAIN context : Leads(context, citation, i) \/ Finds(context, citation, i)
<1> DEFINE named == {i \in DOMAIN context : context[i].id = citation.source}
           quoting == {i \in DOMAIN context : citation.quote \in context[i].text}
           direct == IF named = {} THEN {} ELSE context[Max(named)].text
<1>1. /\ named # {} => Max(named) \in named /\ \A i \in named : Max(named) >= i
      /\ quoting # {} => Min(quoting) \in quoting
  <2>1. DOMAIN context = 1 .. Len(context) /\ Len(context) \in Nat
    OBVIOUS
  <2>2. named \in SUBSET (1 .. Len(context)) /\ quoting \in SUBSET (1 .. Len(context))
    BY <2>1
  <2> HIDE DEF named, quoting
  <2> QED
    BY <2>1, <2>2, Extremes
<1>2. SourceText(context, citation)
        = IF direct = {} /\ citation.source # Blank /\ quoting # {}
            THEN context[Min(quoting)].text ELSE direct
  BY DEF SourceText
<1>3. direct # {} <=> \E i \in DOMAIN context : Leads(context, citation, i)
  <2>1. ASSUME direct # {} PROVE Leads(context, citation, Max(named))
    BY <1>1, <2>1 DEF Leads
  <2>2. ASSUME NEW i \in DOMAIN context, Leads(context, citation, i) PROVE direct # {}
    <3>1. i \in named /\ \A j \in named : j <= i
      BY <2>2 DEF Leads
    <3>2. Max(named) \in named /\ Max(named) >= i
      BY <1>1, <3>1
    <3>3. Max(named) <= i /\ \A j \in named : j \in Nat
      BY <3>1, <3>2
    <3>4. Max(named) = i
      BY <3>1, <3>2, <3>3
    <3> QED
      BY <2>2, <3>1, <3>4 DEF Leads
  <2>3. direct # {} => Max(named) \in DOMAIN context
    BY <1>1
  <2> QED
    BY <2>1, <2>2, <2>3
<1>4. quoting # {} => context[Min(quoting)].text # {}
  BY <1>1
<1>5. citation.source # Blank /\ quoting # {}
        <=> \E i \in DOMAIN context : Finds(context, citation, i)
  BY DEF Finds
<1> HIDE DEF named, quoting, direct
<1> QED
  BY <1>2, <1>3, <1>4, <1>5

\* A chunk more, at either end of any context, takes no citation its source away.
THEOREM ContextGrows ==
  ASSUME NEW context \in Seq(Chunks), NEW citation \in Citations, NEW chunk \in Chunks,
         chunk.text # {}, SourceText(context, citation) # {}
  PROVE  /\ SourceText(Append(context, chunk), citation) # {}
         /\ SourceText(<<chunk>> \o context, citation) # {}
<1> DEFINE n == Len(context)
           after == Append(context, chunk)
           before == <<chunk>> \o context
<1>1. PICK i \in DOMAIN context : Leads(context, citation, i) \/ Finds(context, citation, i)
  BY SourceIsFound
<1>2. /\ n \in Nat /\ DOMAIN context = 1 .. n
      /\ after \in Seq(Chunks) /\ DOMAIN after = 1 .. (n + 1) /\ after[n + 1] = chunk
      /\ \A j \in 1 .. n : after[j] = context[j]
      /\ before \in Seq(Chunks) /\ DOMAIN before = 1 .. (n + 1)
      /\ \A j \in 1 .. n : before[j + 1] = context[j]
  OBVIOUS
<1> HIDE DEF n, after, before
<1>3. \E j \in DOMAIN after : Leads(after, citation, j) \/ Finds(after, citation, j)
  <2>1. CASE Finds(context, citation, i)
    <3>1. Finds(after, citation, i) /\ i \in DOMAIN after
      BY <1>2, <2>1 DEF Finds
    <3> QED
      BY <3>1
  <2>2. CASE Leads(context, citation, i) /\ chunk.id = citation.source
    <3>1. Leads(after, citation, n + 1) /\ n + 1 \in DOMAIN after
      BY <1>2, <2>2 DEF Leads
    <3> QED
      BY <3>1
  <2>3. CASE Leads(context, citation, i) /\ chunk.id # citation.source
    <3>1. Leads(after, citation, i) /\ i \in DOMAIN after
      BY <1>2, <2>3 DEF Leads
    <3> QED
      BY <3>1
  <2> QED
    BY <1>1, <2>1, <2>2, <2>3
<1>4. \E j \in DOMAIN before : Leads(before, citation, j) \/ Finds(before, citation, j)
  <2>0. i \in 1 .. n /\ i + 1 \in DOMAIN before /\ before[i + 1] = context[i]
    BY <1>2
  <2>1. CASE Finds(context, citation, i)
    <3>1. Finds(before, citation, i + 1)
      BY <2>0, <2>1 DEF Finds
    <3> QED
      BY <2>0, <3>1
  <2>2. CASE Leads(context, citation, i)
    <3>1. ASSUME NEW j \in DOMAIN before, before[j].id = citation.source PROVE j <= i + 1
      <4>1. CASE j = 1
        BY <1>2, <2>0, <4>1
      <4>2. CASE j # 1
        <5>1. j - 1 \in 1 .. n /\ before[(j - 1) + 1] = context[j - 1] /\ (j - 1) + 1 = j
          BY <1>2, <4>2
        <5>2. j - 1 <= i
          BY <1>2, <2>2, <3>1, <5>1 DEF Leads
        <5> QED
          BY <2>0, <5>1, <5>2
      <4> QED
        BY <4>1, <4>2
    <3>2. Leads(before, citation, i + 1)
      BY <2>0, <2>2, <3>1 DEF Leads
    <3> QED
      BY <2>0, <3>2
  <2> QED
    BY <1>1, <2>1, <2>2
<1> QED
  BY <1>2, <1>3, <1>4, SourceIsFound DEF after, before

\* A citation keeps its source when the context grows, and one with a source id is not
\* missing while a chunk contains its quote (citation_correctness.py:40-75).
THEOREM SourcesStay == Spec => []SourcesAreMonotone
<1>1. ASSUME NEW context \in Seq(Chunks), NEW citation \in Citations,
             NEW i \in DOMAIN context, citation.source # Blank,
             citation.quote \in context[i].text
      PROVE  SourceText(context, citation) # {}
  <2>1. Finds(context, citation, i)
    BY <1>1 DEF Finds
  <2> QED
    BY <2>1, SourceIsFound
<1>2. SourcesAreMonotone
  <2>1. \A context \in BoundedSeq(Chunks, 2) : context \in Seq(Chunks)
    BY SeqOfIsSeq
  <2> QED
    BY <1>1, <2>1, ContextGrows DEF SourcesAreMonotone
<1> QED
  BY <1>2, PTL

-----------------------------------------------------------------------------
\* What the loop over the citations keeps.
Labels == Checks \cup {"unknown"}
Tallies == [valid : Nat, invalid : Nat, missing : Nat, label : Labels,
            details : Seq([valid : BOOLEAN, label : Labels])]
NoTally == [valid |-> 0, invalid |-> 0, missing |-> 0, label |-> "unknown", details |-> << >>]

\* The recursion equation of the loop, and the positions that have an outcome.
Tallied(g, checks) ==
  g = [s \in SUBSET DOMAIN checks |->
         IF s = {} THEN NoTally ELSE CheckCitation(g[s \ {Max(s)}], checks[Max(s)])]

With(checks, s, check) == {i \in s : checks[i] = check}

\* One turn of the loop counts its citation once; only the model's own answer makes it valid.
LEMMA OneTurn ==
  ASSUME NEW acc \in Tallies, NEW check \in Checks
  PROVE  LET next == CheckCitation(acc, check)
         IN /\ next \in Tallies
            /\ next.valid = acc.valid + (IF check = "entailment" THEN 1 ELSE 0)
            /\ next.missing = acc.missing + (IF check = "no_source" THEN 1 ELSE 0)
            /\ next.valid + next.invalid + next.missing
                 = acc.valid + acc.invalid + acc.missing + 1
            /\ Len(next.details) = Len(acc.details) + 1
<1> DEFINE label == IF check = "raises" THEN acc.label ELSE check
           Entries == [valid : BOOLEAN, label : Labels]
<1>1. /\ acc.valid \in Nat /\ acc.invalid \in Nat /\ acc.missing \in Nat /\ acc.label \in Labels
      /\ acc.details \in Seq(Entries) /\ label \in Labels
  BY DEF Tallies, Labels
<1> DEFINE next == CheckCitation(acc, check)
           sound == check = "entailment"
           entry == IF check = "no_source" THEN [valid |-> FALSE, label |-> "no_source"]
                                           ELSE [valid |-> sound, label |-> label]
           more == Append(acc.details, entry)
<1>2. more \in Seq(Entries) /\ Len(more) = Len(acc.details) + 1
  <2>1. entry \in Entries
    <3>1. sound \in BOOLEAN /\ "no_source" \in Labels
      BY DEF Labels, Checks
    <3> HIDE DEF sound, label
    <3> QED
      BY <1>1, <3>1
  <2> HIDE DEF entry, Entries
  <2> QED
    BY <1>1, <2>1
<1>3. acc = [valid |-> acc.valid, invalid |-> acc.invalid, missing |-> acc.missing,
             label |-> acc.label, details |-> acc.details]
  BY DEF Tallies
<1>4. CASE check = "no_source"
  <2>1. next = [acc EXCEPT !.missing = @ + 1, !.details = more]
    BY <1>4 DEF CheckCitation
  <2> HIDE DEF next, more
  <2>2. next = [valid |-> acc.valid, invalid |-> acc.invalid, missing |-> acc.missing + 1,
                label |-> acc.label, details |-> more]
    BY <1>3, <2>1
  <2>3. next \in Tallies
    BY <1>1, <1>2, <2>2 DEF Tallies
  <2>4. /\ next.valid = acc.valid + (IF check = "entailment" THEN 1 ELSE 0)
        /\ next.missing = acc.missing + (IF check = "no_source" THEN 1 ELSE 0)
        /\ next.valid + next.invalid + next.missing
             = acc.valid + acc.invalid + acc.missing + 1
    <3>1. next.valid = acc.valid /\ next.invalid = acc.invalid /\ next.missing = acc.missing + 1
      BY <2>2
    <3>2. acc.valid \in Nat /\ acc.invalid \in Nat /\ acc.missing \in Nat
      BY <1>1
    <3> QED
      BY <1>4, <3>1, <3>2
  <2>5. Len(next.details) = Len(acc.details) + 1
    BY <1>2, <2>2
  <2> QED
    BY ONLY <2>3, <2>4, <2>5 DEF next
<1>5. CASE check # "no_source" /\ sound
  <2>1. next = [acc EXCEPT !.label = label, !.valid = @ + 1, !.invalid = @, !.details = more]
    BY <1>5 DEF CheckCitation
  <2> HIDE DEF next, more, label
  <2>2. next = [valid |-> acc.valid + 1, invalid |-> acc.invalid, missing |-> acc.missing,
                label |-> label, details |-> more]
    BY <1>3, <2>1
  <2>3. next \in Tallies
    BY <1>1, <1>2, <2>2 DEF Tallies
  <2>4. /\ next.valid = acc.valid + (IF check = "entailment" THEN 1 ELSE 0)
        /\ next.missing = acc.missing + (IF check = "no_source" THEN 1 ELSE 0)
        /\ next.valid + next.invalid + next.missing
             = acc.valid + acc.invalid + acc.missing + 1
    <3>1. next.valid = acc.valid + 1 /\ next.invalid = acc.invalid /\ next.missing = acc.missing
      BY <2>2
    <3>2. acc.valid \in Nat /\ acc.invalid \in Nat /\ acc.missing \in Nat
      BY <1>1
    <3> QED
      BY <1>5, <3>1, <3>2
  <2>5. Len(next.details) = Len(acc.details) + 1
    BY <1>2, <2>2
  <2> QED
    BY ONLY <2>3, <2>4, <2>5 DEF next
<1>6. CASE check # "no_source" /\ ~sound
  <2>1. next = [acc EXCEPT !.label = label, !.valid = @, !.invalid = @ + 1, !.details = more]
    BY <1>6 DEF CheckCitation
  <2> HIDE DEF next, more, label
  <2>2. next = [valid |-> acc.valid, invalid |-> acc.invalid + 1, missing |-> acc.missing,
                label |-> label, details |-> more]
    BY <1>3, <2>1
  <2>3. next \in Tallies
    BY <1>1, <1>2, <2>2 DEF Tallies
  <2>4. /\ next.valid = acc.valid + (IF check = "entailment" THEN 1 ELSE 0)
        /\ next.missing = acc.missing + (IF check = "no_source" THEN 1 ELSE 0)
        /\ next.valid + next.invalid + next.missing
             = acc.valid + acc.invalid + acc.missing + 1
    <3>1. next.valid = acc.valid /\ next.invalid = acc.invalid + 1 /\ next.missing = acc.missing
      BY <2>2
    <3>2. acc.valid \in Nat /\ acc.invalid \in Nat /\ acc.missing \in Nat
      BY <1>1
    <3> QED
      BY <1>6, <3>1, <3>2
  <2>5. Len(next.details) = Len(acc.details) + 1
    BY <1>2, <2>2
  <2> QED
    BY ONLY <2>3, <2>4, <2>5 DEF next
<1> QED
  BY <1>4, <1>5, <1>6

\* The turn made last is one of a citation.
LEMMA LastPosition ==
  ASSUME NEW checks \in Seq(Checks), NEW s \in SUBSET DOMAIN checks, s # {}
  PROVE  Max(s) \in s /\ Max(s) \in DOMAIN checks /\ checks[Max(s)] \in Checks
<1>1. Len(checks) \in Nat /\ s \in SUBSET (1 .. Len(checks))
  OBVIOUS
<1>2. Max(s) \in s
  BY <1>1, Extremes
<1> QED
  BY <1>2

\* The report is the loop's value at all positions, and its values are tallies.
LEMMA ReportTallied ==
  ASSUME NEW checks \in Seq(Checks)
  PROVE  \E g \in [SUBSET DOMAIN checks -> Tallies] :
           Tallied(g, checks) /\ CitationReport(checks) = g[DOMAIN checks]
<1> DEFINE D == DOMAIN checks
           pick == [s \in SUBSET D |-> Max(s)]
           step == [p \in D \X Tallies |-> CheckCitation(p[2], checks[p[1]])]
<1>1. IsFiniteSet(D) /\ \A i \in D : checks[i] \in Checks
  BY FS_Interval
<1>2. \A s \in SUBSET D : s # {} => Max(s) \in s
  BY LastPosition
<1>3. NoTally \in Tallies
  BY DEF NoTally, Tallies, Labels
<1>4. \A i \in D, acc \in Tallies : CheckCitation(acc, checks[i]) \in Tallies
  BY <1>1, OneTurn
<1>5. step \in [D \X Tallies -> Tallies]
  BY <1>4
<1>6. \E g \in [SUBSET D -> Tallies] : Folds(g, D, pick, NoTally, step)
  <2>1. \A s \in SUBSET D : s # {} => pick[s] \in s
    BY <1>2
  <2> HIDE DEF pick, step, D
  <2> QED
    BY <1>1, <1>3, <1>5, <2>1, FoldExists, Zenon
<1>7. PICK h \in [SUBSET D -> Tallies] : \A s \in SUBSET D :
           h[s] = IF s = {} THEN NoTally ELSE step[<<pick[s], h[s \ {pick[s]}]>>]
  BY <1>6 DEF Folds
<1>8. ASSUME NEW s \in SUBSET D, s # {}
      PROVE  h[s] = CheckCitation(h[s \ {Max(s)}], checks[Max(s)])
  <2>1. Max(s) \in D /\ h[s \ {Max(s)}] \in Tallies /\ pick[s] = Max(s)
    BY <1>2, <1>8
  <2>2. \A i \in D, acc \in Tallies : step[<<i, acc>>] = CheckCitation(acc, checks[i])
    OBVIOUS
  <2> HIDE DEF pick, step, D
  <2> QED
    BY <1>7, <1>8, <2>1, <2>2
<1>9. Tallied(h, checks)
  <2>1. h = [s \in SUBSET D |-> h[s]] /\ (h[{}] = NoTally)
    BY <1>7
  <2> HIDE DEF pick, step
  <2> QED
    BY <1>8, <2>1 DEF Tallied
<1> DEFINE iter == CHOOSE g : Tallied(g, checks)
<1>10. Tallied(iter, checks)
  BY <1>9
<1>11. CitationReport(checks) = iter[D]
  BY DEF CitationReport, FoldLeft, MapThenFoldSet, Tallied, NoTally
<1> HIDE DEF iter, pick, step
<1> DEFINE F == {s \in SUBSET D : iter[s] \in Tallies}
<1>12. ASSUME NEW s \in SUBSET D, \A u \in SUBSET s : u # s => u \in F PROVE s \in F
  <2>1. CASE s = {}
    BY <1>3, <1>10, <2>1 DEF Tallied
  <2>2. CASE s # {}
    <3>1. Max(s) \in s /\ iter[s \ {Max(s)}] \in Tallies
      BY <1>2, <1>12, <2>2
    <3>2. iter[s] = CheckCitation(iter[s \ {Max(s)}], checks[Max(s)])
      BY <1>10, <2>2 DEF Tallied
    <3> QED
      BY <1>4, <3>1, <3>2
  <2> QED
    BY <2>1, <2>2
<1>13. SUBSET D \subseteq F
  <2> HIDE DEF F, D
  <2> QED
    BY <1>1, <1>12, SubsetInduction
<1>14. iter \in [SUBSET D -> Tallies]
  BY <1>10, <1>13 DEF Tallied
<1> QED
  BY <1>10, <1>11, <1>14

\* Another position counts with the outcome it has, and with no other.
LEMMA WithOneMore ==
  ASSUME NEW checks, NEW s, IsFiniteSet(s), NEW x \in s, NEW check
  PROVE  /\ Cardinality(With(checks, s \ {x}, check)) \in Nat
         /\ Cardinality(With(checks, s, check))
              = Cardinality(With(checks, s \ {x}, check)) + (IF checks[x] = check THEN 1 ELSE 0)
<1> DEFINE old == With(checks, s \ {x}, check)
           new == With(checks, s, check)
<1>1. IsFiniteSet(old) /\ x \notin old
  <2>1. old \subseteq s
    BY DEF With
  <2> QED
    BY <2>1, FS_Subset DEF With
<1>2. CASE checks[x] = check
  <2>1. new = old \cup {x}
    BY <1>2 DEF With
  <2> HIDE DEF old, new
  <2>2. Cardinality(old \cup {x}) = Cardinality(old) + 1 /\ Cardinality(old) \in Nat
    BY <1>1, FS_AddElement, FS_CardinalityType
  <2>3. Cardinality(new) = Cardinality(old \cup {x})
    BY ONLY <2>1, Zenon
  <2> QED
    BY <1>2, <2>2, <2>3 DEF old, new
<1>3. CASE checks[x] # check
  <2>1. new = old
    BY <1>3 DEF With
  <2> HIDE DEF old, new
  <2>2. Cardinality(old) \in Nat
    BY <1>1, FS_CardinalityType
  <2>3. Cardinality(new) = Cardinality(old)
    BY ONLY <2>1, Zenon
  <2> QED
    BY <1>3, <2>2, <2>3 DEF old, new
<1> QED
  BY <1>2, <1>3

\* The report adds up (citation_correctness.py:46-118): every citation has one line and is
\* counted once, as missing iff it has no source, as valid iff the model's answer to its own
\* call was entailment, whatever label an earlier citation has left behind.
THEOREM CitationsAddUp ==
  ASSUME NEW checks \in Seq(Checks)
  PROVE  LET report == CitationReport(checks)
         IN /\ report.valid = Cardinality({i \in DOMAIN checks : checks[i] = "entailment"})
            /\ report.missing = Cardinality({i \in DOMAIN checks : checks[i] = "no_source"})
            /\ report.valid + report.invalid + report.missing = Len(checks)
            /\ Len(report.details) = Len(checks)
<1> DEFINE D == DOMAIN checks
<1>1. PICK g \in [SUBSET D -> Tallies] : Tallied(g, checks) /\ CitationReport(checks) = g[D]
  BY ReportTallied
<1>2. /\ Len(checks) \in Nat /\ D = 1 .. Len(checks) /\ IsFiniteSet(D)
      /\ Cardinality(D) = Len(checks)
  <2>1. Len(checks) \in Nat /\ D = 1 .. Len(checks)
    OBVIOUS
  <2>2. Cardinality(1 .. Len(checks)) = Len(checks) /\ IsFiniteSet(1 .. Len(checks))
    BY <2>1, IntervalSize
  <2> HIDE DEF D
  <2> QED
    BY ONLY <2>1, <2>2, Zenon
<1> DEFINE Right(s) == /\ g[s].valid = Cardinality(With(checks, s, "entailment"))
                       /\ g[s].missing = Cardinality(With(checks, s, "no_source"))
                       /\ g[s].valid + g[s].invalid + g[s].missing = Cardinality(s)
                       /\ Len(g[s].details) = Cardinality(s)
           F == {s \in SUBSET D : Right(s)}
<1>3. ASSUME NEW s \in SUBSET D, \A u \in SUBSET s : u # s => u \in F PROVE s \in F
  <2>1. CASE s = {}
    <3>1. g[s] = NoTally
      BY <1>1, <2>1 DEF Tallied
    <3>2. /\ With(checks, s, "entailment") = {} /\ With(checks, s, "no_source") = {}
      BY <2>1 DEF With
    <3>3. Cardinality({}) = 0
      BY FS_EmptySet
    <3>4. /\ Cardinality(With(checks, s, "entailment")) = 0
          /\ Cardinality(With(checks, s, "no_source")) = 0
          /\ Cardinality(s) = 0
      BY ONLY <2>1, <3>2, <3>3, Zenon
    <3> QED
      BY <3>1, <3>4 DEF NoTally
  <2>2. CASE s # {}
    <3> DEFINE x == Max(s)
               t == s \ {x}
    <3>1. x \in s /\ x \in D /\ checks[x] \in Checks
      BY <2>2, LastPosition
    <3>2. IsFiniteSet(s) /\ Cardinality(s) = Cardinality(t) + 1 /\ Cardinality(t) \in Nat
      <4>1. IsFiniteSet(s) /\ IsFiniteSet(t)
        BY <1>2, FS_Subset
      <4>2. Cardinality(t) = Cardinality(s) - 1 /\ Cardinality(s) \in Nat
        BY <3>1, <4>1, FS_RemoveElement, FS_CardinalityType
      <4> QED
        BY <4>1, <4>2, FS_CardinalityType
    <3>3. Right(t) /\ g[t] \in Tallies
      BY <1>3, <3>1
    <3>4. g[s] = CheckCitation(g[t], checks[x])
      BY <1>1, <2>2 DEF Tallied
    <3> HIDE DEF x
    <3>5. \A check : Cardinality(With(checks, s, check))
            = Cardinality(With(checks, t, check)) + (IF checks[x] = check THEN 1 ELSE 0)
      BY <3>1, <3>2, WithOneMore
    <3> HIDE DEF t
    <3>6. LET next == CheckCitation(g[t], checks[x])
          IN /\ next.valid = g[t].valid + (IF checks[x] = "entailment" THEN 1 ELSE 0)
             /\ next.missing = g[t].missing + (IF checks[x] = "no_source" THEN 1 ELSE 0)
             /\ next.valid + next.invalid + next.missing
                  = g[t].valid + g[t].invalid + g[t].missing + 1
             /\ Len(next.details) = Len(g[t].details) + 1
      BY <3>1, <3>3, OneTurn
    <3>7. /\ g[s].valid = g[t].valid + (IF checks[x] = "entailment" THEN 1 ELSE 0)
          /\ g[s].missing = g[t].missing + (IF checks[x] = "no_source" THEN 1 ELSE 0)
          /\ g[s].valid + g[s].invalid + g[s].missing
               = g[t].valid + g[t].invalid + g[t].missing + 1
          /\ Len(g[s].details) = Len(g[t].details) + 1
      BY ONLY <3>4, <3>6, Zenon
    <3> QED
      BY <3>2, <3>3, <3>5, <3>7
  <2> QED
    BY <2>1, <2>2
<1>4. SUBSET D \subseteq F
  <2> HIDE DEF F, D
  <2>1. IsFiniteSet(D)
    BY <1>2
  <2>2. \A s \in SUBSET D : (\A u \in SUBSET s : u # s => u \in F) => s \in F
    BY <1>3
  <2> QED
    BY ONLY <2>1, <2>2, SubsetInduction
<1> QED
  BY <1>1, <1>2, <1>4 DEF With

\* A citation's call that raises counts against the score, for any number of citations.
LEMMA CitationOutage ==
  ASSUME NEW checks \in Seq(Checks), NEW i \in DOMAIN checks, NEW loaded \in BOOLEAN
  PROVE  NoBetter(CitationScore(Interrupted(checks, i), loaded), CitationScore(checks, TRUE))
<1> DEFINE cut == Interrupted(checks, i)
           n == Len(checks)
           Sound(c) == {j \in DOMAIN c : c[j] = "entailment"}
<1>1. /\ cut \in Seq(Checks) /\ DOMAIN cut = DOMAIN checks /\ Len(cut) = n /\ n \in Nat
      /\ cut # << >> /\ checks # << >>
      /\ \A j \in DOMAIN cut : cut[j] = IF j = i THEN "raises" ELSE checks[j]
  <2>1. "raises" \in Checks
    BY DEF Checks
  <2> QED
    BY <2>1 DEF Interrupted
<1> HIDE DEF cut
<1>2. /\ IsFiniteSet(Sound(checks)) /\ Sound(cut) \in SUBSET Sound(checks)
  <2>1. IsFiniteSet(1 .. n) /\ Sound(checks) \in SUBSET (1 .. n)
    BY <1>1, IntervalSize
  <2>2. Sound(cut) \in SUBSET Sound(checks)
    BY <1>1
  <2> HIDE DEF Sound
  <2> QED
    BY <2>1, <2>2, FS_Subset
<1>3. /\ Cardinality(Sound(cut)) \in Nat /\ Cardinality(Sound(checks)) \in Nat
      /\ Cardinality(Sound(cut)) <= Cardinality(Sound(checks))
  <2> HIDE DEF Sound
  <2> QED
    BY <1>2, FS_Subset, FS_CardinalityType
<1>4. /\ CitationReport(cut).valid = Cardinality(Sound(cut))
      /\ CitationReport(checks).valid = Cardinality(Sound(checks))
  BY <1>1, CitationsAddUp
<1> HIDE DEF Sound
<1>5. CASE loaded
  <2> DEFINE q == CitationScore(cut, loaded)
             p == CitationScore(checks, TRUE)
  <2>1. /\ q = Fraction(Cardinality(Sound(cut)), n)
        /\ p = Fraction(Cardinality(Sound(checks)), n)
    BY <1>1, <1>4, <1>5 DEF CitationScore
  <2>2. Cardinality(Sound(cut)) * n <= Cardinality(Sound(checks)) * n
    BY <1>1, <1>3
  <2> HIDE DEF p, q, n
  <2>3. /\ q.num = Cardinality(Sound(cut)) /\ q.den = n
        /\ p.num = Cardinality(Sound(checks)) /\ p.den = n
    BY <2>1 DEF Fraction
  <2>4. NoBetter(q, p)
    BY <2>2, <2>3 DEF NoBetter
  <2> QED
    BY <2>4 DEF p, q, cut
<1>6. CASE ~loaded
  BY <1>1, <1>6 DEF CitationScore, NoBetter, cut
<1> QED
  BY <1>5, <1>6

\* A claim's call that raises makes an error of the metric.
LEMMA ClaimOutage ==
  ASSUME NEW claims \in Seq(Claims), NEW i \in DOMAIN claims
  PROVE  FractionSupported(Interrupted(claims, i)) = Error
<1> DEFINE cut == Interrupted(claims, i)
<1>1. DOMAIN cut = DOMAIN claims /\ cut # << >> /\ cut[i] = "raises"
  BY DEF Interrupted
<1> QED
  BY <1>1 DEF FractionSupported

\* The score of claims is an error or a fraction of natural numbers.
LEMMA ClaimScore ==
  ASSUME NEW claims \in Seq(Claims), FractionSupported(claims) # Error
  PROVE  /\ FractionSupported(claims).num \in Nat
         /\ FractionSupported(claims).den \in Nat
<1>1. Cardinality(Supported(claims)) \in Nat
  <2>1. IsFiniteSet(1 .. Len(claims)) /\ Supported(claims) \in SUBSET (1 .. Len(claims))
    BY IntervalSize DEF Supported
  <2> QED
    BY <2>1, FS_Subset, FS_CardinalityType
<1>2. CASE claims = << >>
  BY <1>2 DEF FractionSupported, Fraction
<1>3. CASE claims # << >>
  BY <1>1, <1>3 DEF FractionSupported, Fraction
<1> QED
  BY <1>2, <1>3

\* Where a call raises that the model would have answered, no score gets better, for any
\* number of citations and claims (citation_correctness.py:91-110, faithfulness.py:66-80).
THEOREM OutageIsNoBonus ==
  ASSUME NEW checks \in Seq(Checks), NEW claims \in Seq(Claims), NEW chunk
  PROVE  /\ \A i \in DOMAIN checks, loaded \in BOOLEAN :
              NoBetter(CitationScore(Interrupted(checks, i), loaded), CitationScore(checks, TRUE))
         /\ \A i \in DOMAIN claims :
              LET cut == Interrupted(claims, i)
              IN /\ NoBetter(Faithfulness(cut, <<chunk>>), Faithfulness(claims, <<chunk>>))
                 /\ NoBetter(Hallucination(cut, <<chunk>>), Hallucination(claims, <<chunk>>))
                 /\ NoBetter(ContextRecall(Blank, cut, <<chunk>>),
                             ContextRecall(Blank, claims, <<chunk>>))
                 /\ NoBetter(ContextRecall(cut, claims, <<chunk>>),
                             ContextRecall(claims, claims, <<chunk>>))
<1>1. ASSUME NEW i \in DOMAIN claims
      PROVE  LET cut == Interrupted(claims, i)
             IN /\ NoBetter(Faithfulness(cut, <<chunk>>), Faithfulness(claims, <<chunk>>))
                /\ NoBetter(Hallucination(cut, <<chunk>>), Hallucination(claims, <<chunk>>))
                /\ NoBetter(ContextRecall(Blank, cut, <<chunk>>),
                            ContextRecall(Blank, claims, <<chunk>>))
                /\ NoBetter(ContextRecall(cut, claims, <<chunk>>),
                            ContextRecall(claims, claims, <<chunk>>))
  <2> DEFINE cut == Interrupted(claims, i)
             score == FractionSupported(claims)
  <2>1. FractionSupported(cut) = Error
    BY ClaimOutage
  <2>2. <<chunk>> # << >>
    OBVIOUS
  <2> HIDE DEF cut
  <2>3. \A p : NoBetter(Error, p)
    BY DEF NoBetter
  <2>4. /\ Faithfulness(cut, <<chunk>>) = Error
        /\ Hallucination(cut, <<chunk>>) = Error
        /\ ContextRecall(Blank, cut, <<chunk>>) = Error
    BY <2>1, <2>2, Zenon DEF Faithfulness, Hallucination, ContextRecall
  <2>5. NoBetter(ContextRecall(cut, claims, <<chunk>>), ContextRecall(claims, claims, <<chunk>>))
    <3>1. ContextRecall(claims, claims, <<chunk>>) = score
      BY <2>2, Zenon DEF ContextRecall
    <3>2. ContextRecall(cut, claims, <<chunk>>) \in {Error, score}
      BY <2>1, <2>2 DEF ContextRecall
    <3>3. score # Error => score.num * score.den <= score.num * score.den
      <4>1. score # Error => score.num \in Nat /\ score.den \in Nat
        BY ClaimScore
      <4> HIDE DEF score
      <4> QED
        BY <4>1
    <3> HIDE DEF score
    <3> QED
      BY <3>1, <3>2, <3>3 DEF NoBetter
  <2> QED
    BY <2>3, <2>4, <2>5 DEF cut
<1> QED
  BY <1>1, CitationOutage

\* The evaluators treat a call that raises in two ways: in neither does it help.
THEOREM OutagesNeverHelp == Spec => []OutageNeverHelps
<1>1. /\ \A checks \in BoundedSeq(Checks, MaxCalls) : checks \in Seq(Checks)
      /\ \A claims \in BoundedSeq(Claims, MaxCalls) : claims \in Seq(Claims)
  BY SeqOfIsSeq
<1>2. << >> \in Seq(Checks) /\ << >> \in Seq(Claims)
  OBVIOUS
<1>3. OutageNeverHelps
  <2>1. ASSUME NEW checks \in BoundedSeq(Checks, MaxCalls), NEW i \in DOMAIN checks,
               NEW loaded \in BOOLEAN
        PROVE  NoBetter(CitationScore(Interrupted(checks, i), loaded), CitationScore(checks, TRUE))
    BY <1>1, CitationOutage
  <2>2. ASSUME NEW claims \in BoundedSeq(Claims, MaxCalls), NEW chunk \in Chunks,
               NEW i \in DOMAIN claims
        PROVE  LET cut == Interrupted(claims, i)
               IN /\ NoBetter(Faithfulness(cut, <<chunk>>), Faithfulness(claims, <<chunk>>))
                  /\ NoBetter(Hallucination(cut, <<chunk>>), Hallucination(claims, <<chunk>>))
                  /\ NoBetter(ContextRecall(Blank, cut, <<chunk>>),
                              ContextRecall(Blank, claims, <<chunk>>))
                  /\ NoBetter(ContextRecall(cut, claims, <<chunk>>),
                              ContextRecall(claims, claims, <<chunk>>))
    BY <1>1, <1>2, OutageIsNoBonus
  <2> QED
    BY <2>1, <2>2 DEF OutageNeverHelps
<1> QED
  BY <1>3, PTL
=============================================================================
