----------------------------- MODULE Evaluators -----------------------------
(***************************************************************************)
(* How the evaluators turn answers of the NLI model into the outcomes that *)
(* Scoring combines: citation_correctness.py, and the three that check the *)
(* claims of an answer (faithfulness.py, context_recall.py,                *)
(* hallucination.py).  They are functions of what the model answers, call  *)
(* by call; the model itself is external, and a call may raise.  An Error  *)
(* is a failure here, whether its text is empty or not.                    *)
(***************************************************************************)
EXTENDS Verdicts, SequencesExt

CONSTANTS
  Quotes,     \* pieces of text a citation may quote
  Ids,        \* ids of context chunks, and source ids of citations
  Blank,      \* no id, no text
  MaxCalls    \* bound: NLI calls in the inputs the properties range over

ASSUME EvaluatorsAssumption == Blank \notin Quotes /\ Blank \notin Ids /\ MaxCalls \in Nat

-----------------------------------------------------------------------------
(***************************************************************************)
(* Citations.  A chunk's text is the set of the quotes found in it, an     *)
(* empty set being an empty text.                                          *)
(***************************************************************************)
Chunks    == [id : Ids \cup {Blank}, text : SUBSET Quotes]
Citations == [source : Ids \cup {Blank}, quote : Quotes \cup {Blank}]

\* Mutant of SourceText: the first chunk that has the id is the source, with text or without.
SourceTextOfFirst(context, citation) ==
  LET named == {i \in DOMAIN context : context[i].id = citation.source}
  IN IF named = {} THEN {} ELSE context[Min(named)].text

\* context_map keeps the last chunk of an id; a source id that leads to no text falls back to
\* the first chunk that contains the quote.
SourceText(context, citation) ==
  LET named   == {i \in DOMAIN context : context[i].id = citation.source}
      direct  == IF named = {} THEN {} ELSE context[Max(named)].text
      quoting == {i \in DOMAIN context : citation.quote \in context[i].text}
  IN IF direct = {} /\ citation.source # Blank /\ quoting # {} THEN context[Min(quoting)].text
     ELSE direct

\* What becomes of one citation: no source, or the model's answer to the one call about it.
Checks == {"no_source", "entailment", "other", "raises"}

\* Mutant of CheckCitation: the verdict is taken from the label, outside of the try.
CheckCitationByLabel(acc, check) ==
  LET label == IF check = "raises" THEN acc.label ELSE check
      valid == label = "entailment"
  IN IF check = "no_source"
       THEN [acc EXCEPT !.missing = @ + 1,
                        !.details = Append(@, [valid |-> FALSE, label |-> "no_source"])]
       ELSE [acc EXCEPT !.label = label,
                        !.valid = IF valid THEN @ + 1 ELSE @,
                        !.invalid = IF valid THEN @ ELSE @ + 1,
                        !.details = Append(@, [valid |-> valid, label |-> label])]

\* One turn of the loop.  label is a local variable that outlives the turn: when the call
\* raises, the details show the label of an earlier citation, if there is one.
CheckCitation(acc, check) ==
  LET label == IF check = "raises" THEN acc.label ELSE check
      valid == check = "entailment"
  IN IF check = "no_source"
       THEN [acc EXCEPT !.missing = @ + 1,
                        !.details = Append(@, [valid |-> FALSE, label |-> "no_source"])]
       ELSE [acc EXCEPT !.label = label,
                        !.valid = IF valid THEN @ + 1 ELSE @,
                        !.invalid = IF valid THEN @ ELSE @ + 1,
                        !.details = Append(@, [valid |-> valid, label |-> label])]

\* The whole loop.
CitationReport(checks) ==
  FoldLeft(CheckCitation,
           [valid |-> 0, invalid |-> 0, missing |-> 0, label |-> "unknown", details |-> << >>],
           checks)

\* No citations, no incorrect citations; no model, no score.
CitationScore(checks, loaded) ==
  IF checks = << >> THEN Fraction(1, 1)
  ELSE IF ~loaded THEN Error
  ELSE Fraction(CitationReport(checks).valid, Len(checks))

-----------------------------------------------------------------------------
(***************************************************************************)
(* Claims.  The sentences of the answer, each checked against the whole    *)
(* context; a call that raises, the loading of the model included, makes   *)
(* an error of the metric.                                                 *)
(***************************************************************************)
Claims == {"entailment", "neutral", "contradiction", "raises"}

Supported(claims) == {i \in DOMAIN claims : claims[i] = "entailment"}

\* Mutant of FractionSupported: a claim whose call raises is skipped.
FractionSupportedOfAnswered(claims) ==
  LET answered == {i \in DOMAIN claims : claims[i] # "raises"}
  IN IF answered = {} THEN Fraction(0, 1)
     ELSE Fraction(Cardinality(Supported(claims)), Cardinality(answered))

\* Score = fraction of supported claims.
FractionSupported(claims) ==
  IF claims = << >> THEN Fraction(0, 1)
  ELSE IF \E i \in DOMAIN claims : claims[i] = "raises" THEN Error
  ELSE Fraction(Cardinality(Supported(claims)), Len(claims))

\* FaithfulnessEvaluator: the claims of the answer; without context the score is 0.
Faithfulness(answer, context) ==
  IF context = << >> THEN Fraction(0, 1) ELSE FractionSupported(answer)

\* ContextRecallEvaluator: the claims of the reference answer, of the answer if there is none.
ContextRecall(reference, answer, context) ==
  IF context = << >> THEN Fraction(0, 1)
  ELSE FractionSupported(IF reference = Blank THEN answer ELSE reference)

\* HallucinationEvaluator: 1.0 is an answer without an unsupported claim.
Hallucination(answer, context) ==
  IF context = << >> THEN Fraction(0, 1) ELSE FractionSupported(answer)

-----------------------------------------------------------------------------
(***************************************************************************)
(* Properties.  They are about functions only, so one state is enough.     *)
(***************************************************************************)
Idle == evaluators = {} /\ TotalWeight = 0 /\ composite = NoScore

Interrupted(calls, i) == [calls EXCEPT ![i] = "raises"]

\* q is an error, or no better than p.
NoBetter(q, p) == p # Error => q = Error \/ q.num * p.den <= p.num * q.den

\* The evaluators treat a call that raises in two ways, and keep a label across citations: in
\* neither way, and for no label left over, does a call that raises where the model would have
\* answered make the score of the metric any better.  (It may raise the composite, which drops a
\* metric with an error.)
OutageNeverHelps ==
  Idle =>
    /\ \A checks \in BoundedSeq(Checks, MaxCalls) : \A i \in DOMAIN checks :
         checks[i] # "no_source" =>
           \A loaded \in BOOLEAN :
             NoBetter(CitationScore(Interrupted(checks, i), loaded), CitationScore(checks, TRUE))
    /\ \A claims \in BoundedSeq(Claims, MaxCalls), chunk \in Chunks : \A i \in DOMAIN claims :
         LET cut == Interrupted(claims, i)
         IN /\ NoBetter(Faithfulness(cut, <<chunk>>), Faithfulness(claims, <<chunk>>))
            /\ NoBetter(Hallucination(cut, <<chunk>>), Hallucination(claims, <<chunk>>))
            /\ NoBetter(ContextRecall(Blank, cut, <<chunk>>), ContextRecall(Blank, claims, <<chunk>>))
            /\ NoBetter(ContextRecall(cut, claims, <<chunk>>),
                        ContextRecall(claims, claims, <<chunk>>))

\* "Point to available sources in the context": a chunk with a text more, at either end and
\* under whatever id, takes no citation its source away, though it may shadow another of the
\* same id; and a citation with a source id is not missing while a chunk contains its quote.
SourcesAreMonotone ==
  Idle => \A context \in BoundedSeq(Chunks, 2), citation \in Citations :
    /\ SourceText(context, citation) # {} =>
         \A chunk \in Chunks : chunk.text # {} =>
           /\ SourceText(Append(context, chunk), citation) # {}
           /\ SourceText(<<chunk>> \o context, citation) # {}
    /\ citation.source # Blank /\ (\E i \in DOMAIN context : citation.quote \in context[i].text)
         => SourceText(context, citation) # {}
=============================================================================
