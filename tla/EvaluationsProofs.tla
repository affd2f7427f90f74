------------------------- MODULE EvaluationsProofs -------------------------
(***************************************************************************)
(* What holds of Evaluations for any number of requests, slots and judge   *)
(* attempts: types, the bound on concurrent evaluations, the meaning of a  *)
(* 503, the use of the session factory, and whose settings a request with  *)
(* a judge_config is judged under.                                         *)
(***************************************************************************)
EXTENDS Evaluations, FiniteSetTheorems, TLAPS

\* What a request has got hold of by where it is.
Judged == {"find_judge", "create_judge", "set_provider", "set_model", "read_provider",
           "read_model"}
Positioned ==
  \A r \in Requests :
    /\ pc[r] # "release" => local[r].calls < MaxCalls
    /\ pc[r] \in Judged => wants[r] # None
    /\ pc[r] \in Judged \ {"find_judge", "create_judge"} => local[r].judge # None
    /\ pc[r] = "read_model" => local[r].used # None

\* There is one semaphore: who is about to use one, or uses one, uses that one.
Shared ==
  \A r \in Requests :
    pc[r] \in Evaluating \cup {"acquire"} => semaphore # None /\ local[r].slot = semaphore

\* Nobody has used any other.
Unused == \A r \in Requests : r # semaphore => free[r] = MaxConcurrency

\* Every slot is free or held by a request that will release it.
Conserved == semaphore # None => free[semaphore] + Cardinality(Holders) = MaxConcurrency

IInv == TypeOK /\ Positioned /\ Shared /\ Unused /\ Conserved

-----------------------------------------------------------------------------
\* The holders of slots can be counted.
LEMMA HoldersFinite == IsFiniteSet(Holders) /\ Cardinality(Holders) \in Nat
<1>1. Holders \in SUBSET Requests
  BY DEF Holders
<1>2. IsFiniteSet(Holders)
  BY <1>1, RequestsAssumption, FS_Subset
<1> QED
  BY <1>2, FS_CardinalityType

\* Initially no request holds a slot, and every slot is free.
LEMMA InitIInv == Init => IInv
<1> SUFFICES ASSUME Init PROVE IInv
  OBVIOUS
<1>1. TypeOK
  <2>1. Nothing \in Locals
    BY ConcurrencyAssumption DEF Nothing, Locals
  <2>2. local \in [Requests -> Locals]
    BY <2>1 DEF Init
  <2>3. judge \in [Requests -> Settings] /\ wants \in [Requests -> Configs \cup {None}]
    BY DEF Init, Settings, Configs
  <2>4. free \in [Requests -> 0 .. MaxConcurrency]
    BY ConcurrencyAssumption DEF Init
  <2>5. pc \in [Requests -> Places]
    BY DEF Init, Places
  <2>6. engine \in BOOLEAN /\ factory \in BOOLEAN
    BY DEF Init
  <2>7. semaphore \in Requests \cup {None} /\ registry \in Requests \cup {None}
    BY DEF Init
  <2> QED
    BY <2>2, <2>3, <2>4, <2>5, <2>6, <2>7 DEF TypeOK
<1>2. Positioned
  BY ConcurrencyAssumption DEF Init, Positioned, Judged, Nothing
<1>3. Shared /\ Unused /\ Conserved
  BY DEF Init, Shared, Unused, Conserved, Evaluating
<1> QED
  BY <1>1, <1>2, <1>3 DEF IInv

-----------------------------------------------------------------------------
(***************************************************************************)
(* The account of the slots under the three kinds of moves.                *)
(***************************************************************************)
\* A move that neither enters nor leaves the evaluation leaves the account alone.
LEMMA Neutral ==
  ASSUME TypeOK, Conserved, Unused, NEW r \in Requests, NEW place, Goto(r, place),
         pc[r] \in Evaluating <=> place \in Evaluating,
         UNCHANGED <<semaphore, free>>
  PROVE  Conserved' /\ Unused'
<1>1. Holders' = Holders
  BY DEF Holders, TypeOK, Goto
<1> QED
  BY <1>1 DEF Conserved, Unused

\* A request that takes a slot adds one to the holders.
LEMMA Entered ==
  ASSUME TypeOK, Conserved, Unused, NEW r \in Requests, NEW place \in Evaluating,
         Goto(r, place), pc[r] \notin Evaluating, semaphore # None,
         free' = [free EXCEPT ![semaphore] = @ - 1], UNCHANGED semaphore
  PROVE  Conserved' /\ Unused'
<1>1. Holders' = Holders \cup {r} /\ r \notin Holders
  BY DEF Holders, TypeOK, Goto
<1>2. Cardinality(Holders') = Cardinality(Holders) + 1
  BY <1>1, HoldersFinite, FS_AddElement
<1>3. free'[semaphore] = free[semaphore] - 1 /\ free[semaphore] \in Int
  BY ConcurrencyAssumption DEF TypeOK
<1>4. Conserved'
  BY <1>2, <1>3, HoldersFinite, ConcurrencyAssumption DEF Conserved
<1>5. Unused'
  BY DEF Unused, TypeOK
<1> QED
  BY <1>4, <1>5

\* A request that gives its slot back takes one from the holders.
LEMMA Left ==
  ASSUME TypeOK, Conserved, Unused, NEW r \in Requests, NEW place,
         Goto(r, place), pc[r] \in Evaluating, place \notin Evaluating, semaphore # None,
         free' = [free EXCEPT ![semaphore] = @ + 1], UNCHANGED semaphore
  PROVE  Conserved' /\ Unused' /\ free' \in [Requests -> 0 .. MaxConcurrency]
<1>1. Holders' = Holders \ {r} /\ r \in Holders
  BY DEF Holders, TypeOK, Goto
<1>2. Cardinality(Holders') = Cardinality(Holders) - 1
  BY <1>1, HoldersFinite, FS_RemoveElement
<1>3. Cardinality(Holders) # 0
  BY <1>1, HoldersFinite, FS_EmptySet
<1>4. semaphore \in Requests /\ free[semaphore] \in 0 .. MaxConcurrency
  BY DEF TypeOK
<1>5. free'[semaphore] = free[semaphore] + 1
  BY <1>4 DEF TypeOK
<1>6. free[semaphore] + Cardinality(Holders) = MaxConcurrency
  BY DEF Conserved
<1>7. free[semaphore] + 1 \in 0 .. MaxConcurrency
  BY <1>3, <1>4, <1>6, HoldersFinite, ConcurrencyAssumption
<1>8. Conserved'
  BY <1>2, <1>4, <1>5, <1>6, HoldersFinite, ConcurrencyAssumption DEF Conserved
<1>9. Unused'
  BY DEF Unused, TypeOK
<1>10. free' \in [Requests -> 0 .. MaxConcurrency]
  BY <1>7 DEF TypeOK
<1> QED
  BY <1>8, <1>9, <1>10

-----------------------------------------------------------------------------
(***************************************************************************)
(* The steps of a request.                                                 *)
(***************************************************************************)
\* A move that touches nothing but the place.
Plain(r, place) == Goto(r, place) /\ UNCHANGED <<session, slots, judges, wants, local>>

\* A step that changes neither slots nor who holds them keeps IInv.
LEMMA PlainStep ==
  ASSUME IInv, NEW r \in Requests, NEW place \in Places, Plain(r, place),
         pc[r] \in Evaluating <=> place \in Evaluating,
         pc[r] # "release",
         place \in Evaluating \cup {"acquire"} => pc[r] \in Evaluating \cup {"acquire"},
         place \in Judged => place = "find_judge" /\ wants[r] # None
  PROVE  IInv'
<1> USE DEF Plain
<1>1. TypeOK'
  BY DEF IInv, TypeOK, Goto, session, slots, judges
<1>2. Positioned'
  BY DEF IInv, Positioned, TypeOK, Goto, Judged
<1>3. Shared'
  BY DEF IInv, Shared, TypeOK, Goto, slots
<1>4. Conserved' /\ Unused'
  BY Neutral DEF IInv, slots
<1> QED
  BY <1>1, <1>2, <1>3, <1>4 DEF IInv

\* The check of the engine and the use of the factory keep IInv.
LEMMA OpenStep ==
  ASSUME IInv, NEW r \in Requests, CheckEngine(r) \/ OpenSession(r)
  PROVE  IInv'
<1>1. \E place \in {"yield", "create_engine", "semaphore", "no_session"} : Plain(r, place)
  BY DEF CheckEngine, OpenSession, Plain
<1>2. pc[r] \in {"session", "yield"}
  BY DEF CheckEngine, OpenSession, At
<1>3. PICK place \in {"yield", "create_engine", "semaphore", "no_session"} : Plain(r, place)
  BY <1>1
<1>4. place \in Places /\ place \notin Evaluating \cup {"acquire"} \cup Judged
  BY DEF Places, Answers, Evaluating, Judged
<1>5. pc[r] \notin Evaluating /\ pc[r] # "release"
  BY <1>2 DEF Evaluating
<1> QED
  BY <1>3, <1>4, <1>5, PlainStep

\* Creating the engine and the factory changes a flag as well.
LEMMA CreateStep ==
  ASSUME IInv, NEW r \in Requests, CreateEngine(r) \/ CreateFactory(r)
  PROVE  IInv'
<1>1. PICK place \in {"create_factory", "yield"} : Goto(r, place)
  BY DEF CreateEngine, CreateFactory
<1>2. pc[r] \in {"create_engine", "create_factory"}
  BY DEF CreateEngine, CreateFactory, At
<1>3. UNCHANGED <<slots, judges, wants, local>>
  BY DEF CreateEngine, CreateFactory
<1>4. engine' \in BOOLEAN /\ factory' \in BOOLEAN
  BY DEF CreateEngine, CreateFactory, IInv, TypeOK
<1>5. place \in Places /\ place \notin Evaluating \cup {"acquire"} \cup Judged /\ place # "release"
  BY DEF Places, Evaluating, Judged
<1>6. pc[r] \notin Evaluating /\ pc[r] # "release"
  BY <1>2 DEF Evaluating
<1>7. TypeOK'
  BY <1>1, <1>3, <1>4, <1>5 DEF IInv, TypeOK, Goto, slots, judges
<1>8. Positioned'
  BY <1>1, <1>3, <1>5, <1>6 DEF IInv, Positioned, TypeOK, Goto
<1>9. Shared'
  BY <1>1, <1>3, <1>5 DEF IInv, Shared, TypeOK, Goto, slots
<1>10. Conserved' /\ Unused'
  BY <1>1, <1>3, <1>5, <1>6, Neutral DEF IInv, slots
<1> QED
  BY <1>7, <1>8, <1>9, <1>10 DEF IInv

\* One semaphore is ever created, and it is complete.
LEMMA SemaphoreStep ==
  ASSUME IInv, NEW r \in Requests, FindSemaphore(r) \/ CreateSemaphore(r)
  PROVE  IInv'
<1>1. CASE FindSemaphore(r) /\ semaphore = None
  <2>1. Plain(r, "lock") /\ pc[r] = "semaphore"
    BY <1>1 DEF FindSemaphore, Plain, At, slots
  <2> QED
    BY <2>1, PlainStep DEF Places, Evaluating, Judged
<1>2. CASE (FindSemaphore(r) /\ semaphore # None) \/ CreateSemaphore(r)
  <2>1. Goto(r, "acquire") /\ pc[r] \in {"semaphore", "lock"}
    BY <1>2 DEF FindSemaphore, CreateSemaphore, At
  <2>2. /\ semaphore' \in Requests
        /\ semaphore # None => semaphore' = semaphore
        /\ local' = [local EXCEPT ![r].slot = semaphore']
        /\ UNCHANGED <<session, free, judges, wants>>
    BY <1>2 DEF FindSemaphore, CreateSemaphore, IInv, TypeOK
  <2>3. semaphore' # None
    BY <2>2, RequestsAssumption
  <2>4. local[r] \in Locals /\ local'[r] = [local[r] EXCEPT !.slot = semaphore']
    BY <2>2 DEF IInv, TypeOK
  <2>5. local'[r] \in Locals
    BY <2>2, <2>4 DEF Locals
  <2>6. TypeOK'
    <3>1. local' \in [Requests -> Locals]
      BY <2>2, <2>5 DEF IInv, TypeOK
    <3>2. pc' \in [Requests -> Places]
      BY <2>1 DEF IInv, TypeOK, Goto, Places
    <3>3. engine' \in BOOLEAN /\ factory' \in BOOLEAN
      BY <2>2 DEF IInv, TypeOK, session
    <3>4. /\ semaphore' \in Requests \cup {None}
          /\ free' \in [Requests -> 0 .. MaxConcurrency]
          /\ registry' \in Requests \cup {None}
          /\ judge' \in [Requests -> Settings]
          /\ wants' \in [Requests -> Configs \cup {None}]
      BY <2>2 DEF IInv, TypeOK, judges
    <3> QED
      BY <3>1, <3>2, <3>3, <3>4 DEF TypeOK
  <2>7. local'[r].calls = local[r].calls /\ local'[r].slot = semaphore'
    BY <2>4 DEF Locals
  <2>8. \A q \in Requests \ {r} : local'[q] = local[q] /\ pc'[q] = pc[q]
    BY <2>1, <2>2 DEF IInv, TypeOK, Goto
  <2>9. pc'[r] = "acquire"
    BY <2>1 DEF IInv, TypeOK, Goto
  <2>10. Positioned'
    <3>1. local[r].calls < MaxCalls
      BY <2>1 DEF IInv, Positioned
    <3> QED
      BY <3>1, <2>2, <2>7, <2>8, <2>9 DEF IInv, Positioned, Judged
  <2>11. Shared'
    BY <2>2, <2>3, <2>7, <2>8, <2>9 DEF IInv, Shared
  <2>12. Holders' = Holders
    BY <2>1, <2>8, <2>9 DEF Holders, Evaluating
  <2>13. Unused'
    BY <2>2, RequestsAssumption DEF IInv, Unused
  <2>14. CASE semaphore # None
    <3>1. Conserved'
      BY <2>2, <2>12, <2>14 DEF IInv, Conserved
    <3> QED
      BY <3>1, <2>6, <2>10, <2>11, <2>13 DEF IInv
  <2>15. CASE semaphore = None
    <3>1. Holders = {}
      BY <2>15 DEF IInv, Shared, Holders
    <3>2. free'[semaphore'] = MaxConcurrency
      BY <2>2, <2>3, <2>15 DEF IInv, Unused
    <3>3. Conserved'
      BY <2>12, <3>1, <3>2, FS_EmptySet, ConcurrencyAssumption DEF Conserved
    <3> QED
      BY <3>3, <2>6, <2>10, <2>11, <2>13 DEF IInv
  <2> QED
    BY <2>14, <2>15
<1> QED
  BY <1>1, <1>2

\* Acquiring moves a slot from the free ones to the held ones.
LEMMA AcquireStep ==
  ASSUME IInv, NEW r \in Requests, Acquire(r)
  PROVE  IInv'
<1>1. pc[r] = "acquire" /\ Goto(r, "evaluate") /\ UNCHANGED <<session, semaphore, judges, wants, local>>
  BY DEF Acquire, At
<1>2. semaphore # None /\ local[r].slot = semaphore
  BY <1>1 DEF IInv, Shared
<1>3. semaphore \in Requests /\ free[semaphore] > 0 /\ free' = [free EXCEPT ![semaphore] = @ - 1]
  BY <1>2 DEF Acquire, IInv, TypeOK
<1>4. free[semaphore] - 1 \in 0 .. MaxConcurrency
  BY <1>3, ConcurrencyAssumption DEF IInv, TypeOK
<1>5. TypeOK'
  <2>1. free' \in [Requests -> 0 .. MaxConcurrency]
    BY <1>3, <1>4 DEF IInv, TypeOK
  <2>2. pc' \in [Requests -> Places]
    BY <1>1 DEF IInv, TypeOK, Goto, Places, Evaluating
  <2> QED
    BY <1>1, <2>1, <2>2 DEF IInv, TypeOK, session, judges
<1>6. Positioned'
  BY <1>1 DEF IInv, Positioned, TypeOK, Goto, Judged
<1>7. Shared'
  BY <1>1, <1>2 DEF IInv, Shared, TypeOK, Goto
<1>8. Conserved' /\ Unused'
  BY <1>1, <1>2, <1>3, Entered DEF IInv, Evaluating
<1> QED
  BY <1>5, <1>6, <1>7, <1>8 DEF IInv

\* Coming to the judge changes the judge_config of the request, and what those at the judge
\* have met.
LEMMA Consulted ==
  ASSUME TypeOK, NEW r \in Requests, NEW config \in Configs, Consult(r, config)
  PROVE  /\ wants' \in [Requests -> Configs \cup {None}] /\ wants'[r] = config
         /\ \A q \in Requests \ {r} : wants'[q] = wants[q]
         /\ local' \in [Requests -> Locals]
         /\ \A q \in Requests : /\ local'[q].slot = local[q].slot
                               /\ local'[q].judge = local[q].judge
                               /\ local'[q].calls = local[q].calls
                               /\ local'[q].used = local[q].used
         /\ \A q \in Requests :
              local'[q].met = IF wants'[q] \in Overrides
                                THEN local[q].met \cup ({wants'[p] : p \in Requests} \cap Overrides)
                                ELSE local[q].met
<1> DEFINE present == {wants'[p] : p \in Requests} \cap Overrides
<1>1. wants' \in [Requests -> Configs \cup {None}] /\ wants'[r] = config
      /\ \A q \in Requests \ {r} : wants'[q] = wants[q]
  BY DEF TypeOK, Consult
<1>2. present \in SUBSET Overrides
  OBVIOUS
<1>3. local' = [q \in Requests |-> IF wants'[q] \in Overrides
                                    THEN [local[q] EXCEPT !.met = @ \cup present] ELSE local[q]]
  BY DEF Consult
<1> HIDE DEF present
<1>4. ASSUME NEW q \in Requests
      PROVE  /\ local'[q] \in Locals
             /\ local'[q].slot = local[q].slot /\ local'[q].judge = local[q].judge
             /\ local'[q].calls = local[q].calls /\ local'[q].used = local[q].used
             /\ local'[q].met = IF wants'[q] \in Overrides THEN local[q].met \cup present
                                                          ELSE local[q].met
  <2>1. local[q] \in Locals
    BY DEF TypeOK
  <2>2. CASE wants'[q] \in Overrides
    <3>1. local'[q] = [local[q] EXCEPT !.met = local[q].met \cup present]
      BY <1>3, <2>2
    <3>2. local[q].met \cup present \in SUBSET Overrides
      BY <1>2, <2>1 DEF Locals
    <3> QED
      BY <2>1, <2>2, <3>1, <3>2 DEF Locals
  <2>3. CASE wants'[q] \notin Overrides
    <3>1. local'[q] = local[q]
      BY <1>3, <2>3
    <3> QED
      BY <2>1, <2>3, <3>1
  <2> QED
    BY <2>2, <2>3
<1>5. local' \in [Requests -> Locals]
  BY <1>3, <1>4
<1> QED
  BY <1>1, <1>4, <1>5 DEF present

\* So it keeps IInv.
LEMMA ConsultStep ==
  ASSUME IInv, NEW r \in Requests, pc[r] = "evaluate",
         \E config \in Configs : Consult(r, config),
         Goto(r, "find_judge"), UNCHANGED <<session, slots, judges>>
  PROVE  IInv'
<1>1. PICK config \in Configs : Consult(r, config)
  OBVIOUS
<1>2. /\ wants' \in [Requests -> Configs \cup {None}] /\ wants'[r] # None
      /\ \A q \in Requests \ {r} : wants'[q] = wants[q]
      /\ local' \in [Requests -> Locals]
      /\ \A q \in Requests : /\ local'[q].slot = local[q].slot
                            /\ local'[q].judge = local[q].judge
                            /\ local'[q].calls = local[q].calls
                            /\ local'[q].used = local[q].used
  BY <1>1, Consulted, ConfigsAssumption DEF IInv
<1>3. pc' \in [Requests -> Places] /\ pc'[r] = "find_judge"
      /\ \A q \in Requests \ {r} : pc'[q] = pc[q]
  BY DEF IInv, TypeOK, Goto, Places, Evaluating
<1>4. TypeOK'
  BY <1>2, <1>3 DEF IInv, TypeOK, session, slots, judges
<1>5. Positioned'
  BY <1>2, <1>3 DEF IInv, Positioned, Judged
<1>6. Shared'
  BY <1>2, <1>3 DEF IInv, Shared, Evaluating, slots
<1>7. Conserved' /\ Unused'
  BY Neutral DEF IInv, Evaluating, slots
<1> QED
  BY <1>4, <1>5, <1>6, <1>7 DEF IInv

\* So do the steps that neither take nor release a slot.
LEMMA PlainEvaluationStep ==
  ASSUME IInv, NEW r \in Requests, Busy(r) \/ Evaluate(r) \/ Persist(r)
  PROVE  IInv'
<1>1. CASE Busy(r)
  <2>1. Plain(r, "busy") /\ pc[r] = "acquire"
    BY <1>1 DEF Busy, Plain, At
  <2> QED
    BY <2>1, PlainStep DEF Places, Answers, Evaluating, Judged
<1>2. CASE Evaluate(r)
  <2>1. pc[r] = "evaluate"
    BY <1>2 DEF Evaluate, At
  <2>2. \/ Plain(r, "release") \/ Plain(r, "release_raise")
        \/ /\ \E config \in Configs : Consult(r, config)
           /\ Goto(r, "find_judge") /\ UNCHANGED <<session, slots, judges>>
    BY <1>2 DEF Evaluate, Plain
  <2>3. {"release", "release_raise"} \subseteq Evaluating \cap Places
    BY DEF Places, Evaluating
  <2>4. pc[r] \in Evaluating /\ pc[r] # "release"
    BY <2>1 DEF Evaluating
  <2>5. CASE Plain(r, "release")
    BY <2>3, <2>4, <2>5, PlainStep DEF Judged
  <2>6. CASE Plain(r, "release_raise")
    BY <2>3, <2>4, <2>6, PlainStep DEF Judged
  <2>7. CASE /\ \E config \in Configs : Consult(r, config)
             /\ Goto(r, "find_judge") /\ UNCHANGED <<session, slots, judges>>
    BY <2>1, <2>7, ConsultStep
  <2> QED
    BY <2>2, <2>5, <2>6, <2>7
<1>3. CASE Persist(r)
  <2>1. pc[r] = "persist" /\ (Plain(r, "created") \/ Plain(r, "failed"))
    BY <1>3 DEF Persist, Plain, At
  <2> QED
    BY <2>1, PlainStep DEF Places, Answers, Evaluating, Judged
<1> QED
  BY <1>1, <1>2, <1>3

\* Releasing moves a slot from the held ones to the free ones.
LEMMA ReleaseStep ==
  ASSUME IInv, NEW r \in Requests, Release(r)
  PROVE  IInv'
<1>1. /\ pc[r] \in {"release", "release_raise"}
      /\ local' = [local EXCEPT ![r] = Nothing]
      /\ wants' = [wants EXCEPT ![r] = None]
      /\ UNCHANGED <<session, semaphore, judges>>
  BY DEF Release, At
<1>2. PICK place \in {"persist", "failed"} : Goto(r, place)
  BY DEF Release
<1>3. semaphore # None /\ local[r].slot = semaphore
  BY <1>1 DEF IInv, Shared, Evaluating
<1>4. free' = [free EXCEPT ![semaphore] = @ + 1]
  BY <1>3 DEF Release
<1>5. place \in Places /\ place \notin Evaluating \cup {"acquire"} \cup Judged
  BY DEF Places, Answers, Evaluating, Judged
<1>6. Conserved' /\ Unused' /\ free' \in [Requests -> 0 .. MaxConcurrency]
  BY <1>1, <1>2, <1>3, <1>4, <1>5, Left DEF IInv, Evaluating
<1>7. Nothing \in Locals
  BY ConcurrencyAssumption DEF Nothing, Locals
<1>8. TypeOK'
  <2>1. local' \in [Requests -> Locals]
    BY <1>1, <1>7 DEF IInv, TypeOK
  <2>2. pc' \in [Requests -> Places]
    BY <1>2, <1>5 DEF IInv, TypeOK, Goto
  <2>3. wants' \in [Requests -> Configs \cup {None}]
    BY <1>1 DEF IInv, TypeOK
  <2> QED
    BY <1>1, <1>6, <2>1, <2>2, <2>3 DEF IInv, TypeOK, session, judges
<1>9. Positioned'
  <2>1. Nothing.calls < MaxCalls
    BY ConcurrencyAssumption DEF Nothing
  <2> QED
    BY <2>1, <1>1, <1>2, <1>5 DEF IInv, Positioned, TypeOK, Goto, Judged
<1>10. Shared'
  BY <1>1, <1>2, <1>5 DEF IInv, Shared, TypeOK, Goto
<1> QED
  BY <1>6, <1>8, <1>9, <1>10 DEF IInv

\* What the steps of the judge have in common.
LEMMA JudgeStep ==
  ASSUME IInv, NEW r \in Requests, RunJudge(r)
  PROVE  IInv'
<1>1. pc[r] \in Judged
  BY DEF RunJudge, FindJudge, CreateJudge, SetProvider, SetModel, ReadProvider, CallJudge, At, Judged
<1>2. UNCHANGED <<session, slots, wants>>
  BY DEF RunJudge, FindJudge, CreateJudge, SetProvider, SetModel, ReadProvider, CallJudge, Take, judges
<1>3. PICK place \in Judged \cup {"release"} : Goto(r, place)
  BY DEF RunJudge, FindJudge, CreateJudge, SetProvider, SetModel, ReadProvider, CallJudge, Take, Judged
<1>4. wants[r] \in Configs /\ wants[r] # None /\ local[r] \in Locals /\ local[r].calls < MaxCalls
  BY <1>1 DEF IInv, TypeOK, Positioned, Judged
<1>5. Judged \subseteq Evaluating /\ "release" \in Evaluating /\ Evaluating \subseteq Places
  BY DEF Judged, Evaluating, Places
<1>6. pc' \in [Requests -> Places] /\ pc'[r] = place
  BY <1>3, <1>5 DEF IInv, TypeOK, Goto
<1>7. /\ registry' \in Requests \cup {None}
      /\ judge' \in [Requests -> Settings]
      /\ local'[r] \in Locals
      /\ local' = [local EXCEPT ![r] = local'[r]]
      /\ local'[r].slot = local[r].slot
      /\ place # "release" => local'[r].calls < MaxCalls
      /\ place \notin {"find_judge", "create_judge", "release"} => local'[r].judge # None
      /\ place = "read_model" => local'[r].used # None
  <2>1. registry \in Requests \cup {None} /\ judge \in [Requests -> Settings]
        /\ local \in [Requests -> Locals] /\ local = [local EXCEPT ![r] = local[r]]
    BY DEF IInv, TypeOK
  <2>2. CASE FindJudge(r)
    <3>1. CASE registry # None /\ Take(r, registry)
      <4>1. judge' = judge /\ registry' = registry
        BY <2>2 DEF FindJudge, judges
      <4>2. local' = [local EXCEPT ![r].judge = registry]
        BY <3>1 DEF Take
      <4>3. local'[r] = [local[r] EXCEPT !.judge = registry]
        BY <2>1, <4>2
      <4>4. local'[r] \in Locals /\ local'[r].slot = local[r].slot
            /\ local'[r].calls = local[r].calls /\ local'[r].judge = registry
        BY <1>4, <2>1, <4>3 DEF Locals
      <4>5. place \in {"read_provider", "set_provider"}
        BY <1>6, <3>1 DEF Take, Goto, IInv, TypeOK
      <4> QED
        BY <1>4, <2>1, <3>1, <4>1, <4>2, <4>3, <4>4, <4>5
    <3>2. CASE registry = None /\ Goto(r, "create_judge") /\ UNCHANGED local
      <4>1. place = "create_judge"
        BY <1>6, <3>2 DEF Goto, IInv, TypeOK
      <4> QED
        BY <1>4, <2>1, <2>2, <3>2, <4>1 DEF FindJudge, judges
    <3> QED
      BY <2>2, <3>1, <3>2 DEF FindJudge
  <2>3. CASE CreateJudge(r)
    <3>1. judge' = judge /\ registry' = r /\ local' = [local EXCEPT ![r].judge = r]
      BY <2>3 DEF CreateJudge, Take
    <3>2. local'[r] = [local[r] EXCEPT !.judge = r]
      BY <2>1, <3>1
    <3>3. local'[r] \in Locals /\ local'[r].slot = local[r].slot
          /\ local'[r].calls = local[r].calls /\ local'[r].judge = r
      BY <1>4, <3>2 DEF Locals
    <3>4. place \in {"read_provider", "set_provider"}
      BY <1>6, <2>3 DEF CreateJudge, Take, Goto, IInv, TypeOK
    <3> QED
      BY <1>4, <2>1, <3>1, <3>2, <3>3, <3>4, RequestsAssumption
  <2>4. CASE SetProvider(r) \/ SetModel(r)
    <3>1. local' = local /\ registry' = registry
      BY <2>4 DEF SetProvider, SetModel
    <3>2. local[r].judge \in Requests
      BY <1>4, <2>4 DEF SetProvider, SetModel, At, IInv, Positioned, Judged, Locals
    <3>3. judge[local[r].judge] \in Settings
      BY <2>1, <3>2
    <3>4. /\ [judge[local[r].judge] EXCEPT !.provider = wants[r]] \in Settings
          /\ [judge[local[r].judge] EXCEPT !.model = wants[r]] \in Settings
      BY <1>4, <3>3 DEF Settings
    <3>5. judge' \in [Requests -> Settings]
      BY <2>1, <2>4, <3>2, <3>4 DEF SetProvider, SetModel
    <3>6. place \in {"set_model", "read_provider"}
      BY <1>6, <2>4 DEF SetProvider, SetModel, Goto, IInv, TypeOK
    <3> QED
      BY <1>4, <2>1, <3>1, <3>2, <3>5, <3>6, RequestsAssumption
  <2>5. CASE ReadProvider(r)
    <3> DEFINE read == [judge[local[r].judge] EXCEPT !.model = Default]
    <3>1. local[r].judge \in Requests
      BY <1>4, <2>5 DEF ReadProvider, At, IInv, Positioned, Judged, Locals
    <3>2. judge[local[r].judge] \in Settings
      BY <2>1, <3>1
    <3>3. read \in Settings
      BY <3>2 DEF Settings, Configs
    <3>4. Settings \subseteq Settings \cup {None} /\ read # None
      BY <3>3, ConfigsAssumption
    <3>5. judge' = judge /\ registry' = registry
      BY <2>5 DEF ReadProvider, judges
    <3>6. CASE local' = [local EXCEPT ![r].used = read] /\ Goto(r, "read_model")
      <4> HIDE DEF read
      <4>1. local'[r] = [local[r] EXCEPT !.used = read]
        BY <2>1, <3>6
      <4>2. local'[r] \in Locals /\ local'[r].slot = local[r].slot /\ local'[r].used = read
            /\ local'[r].calls = local[r].calls /\ local'[r].judge = local[r].judge
        BY <1>4, <3>3, <4>1 DEF Locals
      <4>3. place = "read_model"
        BY <1>6, <3>6 DEF Goto, IInv, TypeOK
      <4> QED
        BY <1>4, <2>1, <3>1, <3>4, <3>5, <3>6, <4>1, <4>2, <4>3, RequestsAssumption
    <3>7. CASE Goto(r, "release") /\ UNCHANGED local
      <4>1. place = "release"
        BY <1>6, <3>7 DEF Goto, IInv, TypeOK
      <4> QED
        BY <1>4, <2>1, <3>5, <3>7, <4>1
    <3> QED
      BY <2>5, <3>6, <3>7 DEF ReadProvider
  <2>6. CASE CallJudge(r)
    <3>1. judge' = judge /\ registry' = registry /\ pc[r] = "read_model"
      BY <2>6 DEF CallJudge, judges, At
    <3>2. local[r].judge \in Requests /\ local[r].used \in Settings
      BY <1>4, <3>1 DEF IInv, Positioned, Judged, Locals
    <3>3. CASE /\ local' = [local EXCEPT ![r].used.model = judge[local[r].judge].model]
               /\ Goto(r, "release")
      <4> DEFINE verdict == [local[r].used EXCEPT !.model = judge[local[r].judge].model]
      <4>1. judge[local[r].judge].model \in Configs
        BY <2>1, <3>2 DEF Settings
      <4>2. verdict \in Settings
        BY <3>2, <4>1 DEF Settings
      <4>3. local'[r] = [local[r] EXCEPT !.used = verdict]
        BY <1>4, <2>1, <3>3 DEF Locals
      <4>4. local' = [local EXCEPT ![r] = local'[r]]
        BY <2>1, <3>3
      <4> HIDE DEF verdict
      <4>5. local'[r] \in Locals /\ local'[r].slot = local[r].slot
        BY <1>4, <4>2, <4>3 DEF Locals
      <4>6. place = "release"
        BY <1>6, <3>3 DEF Goto, IInv, TypeOK
      <4> QED
        BY <2>1, <3>1, <4>4, <4>5, <4>6
    <3>4. CASE /\ local' = [local EXCEPT ![r].used = None, ![r].calls = @ + 1]
               /\ Goto(r, IF local'[r].calls < MaxCalls THEN "read_provider" ELSE "release")
      <4>1. local'[r] = [local[r] EXCEPT !.used = None, !.calls = @ + 1]
        BY <2>1, <3>4
      <4>2. local[r].calls + 1 \in 0 .. MaxCalls
        BY <1>4, ConcurrencyAssumption DEF Locals
      <4>3. local' = [local EXCEPT ![r] = local'[r]]
        BY <2>1, <3>4
      <4>4. local'[r] \in Locals /\ local'[r].slot = local[r].slot
            /\ local'[r].judge = local[r].judge
        BY <1>4, <4>1, <4>2 DEF Locals
      <4>5. place = IF local'[r].calls < MaxCalls THEN "read_provider" ELSE "release"
        BY <1>6, <3>4 DEF Goto, IInv, TypeOK
      <4> QED
        BY <2>1, <3>1, <3>2, <4>3, <4>4, <4>5, RequestsAssumption
    <3> QED
      BY <2>6, <3>3, <3>4 DEF CallJudge
  <2> QED
    BY <2>2, <2>3, <2>4, <2>5, <2>6 DEF RunJudge
<1>8. TypeOK'
  <2>1. local' \in [Requests -> Locals]
    BY <1>7 DEF IInv, TypeOK
  <2> QED
    BY <1>2, <1>6, <1>7, <2>1 DEF IInv, TypeOK, session, slots
<1>9. \A q \in Requests \ {r} : pc'[q] = pc[q] /\ local'[q] = local[q]
  BY <1>3, <1>7 DEF IInv, TypeOK, Goto
<1>10. Positioned'
  BY <1>2, <1>3, <1>4, <1>6, <1>7, <1>9 DEF IInv, Positioned, Judged
<1>11. Shared'
  BY <1>1, <1>2, <1>3, <1>5, <1>6, <1>7, <1>9 DEF IInv, Shared, slots
<1>12. Conserved' /\ Unused'
  BY <1>1, <1>2, <1>3, <1>5, Neutral DEF IInv, slots
<1> QED
  BY <1>8, <1>10, <1>11, <1>12 DEF IInv

\* IInv is inductive.
LEMMA NextIInv == IInv /\ [Next]_vars => IInv'
<1> SUFFICES ASSUME IInv, [Next]_vars PROVE IInv'
  OBVIOUS
<1>1. CASE UNCHANGED vars
  BY <1>1 DEF IInv, TypeOK, Positioned, Shared, Unused, Conserved, Holders,
              vars, session, slots, judges
<1>2. ASSUME NEW r \in Requests, Serve(r) PROVE IInv'
  <2>1. CASE GetDb(r)
    BY <2>1, OpenStep, CreateStep DEF GetDb
  <2>2. CASE RunEvaluation(r)
    BY <2>2, SemaphoreStep, AcquireStep, PlainEvaluationStep, ReleaseStep DEF RunEvaluation
  <2>3. CASE RunJudge(r)
    BY <2>3, JudgeStep
  <2> QED
    BY <1>2, <2>1, <2>2, <2>3 DEF Serve
<1> QED
  BY <1>1, <1>2 DEF Next

\* IInv holds in every reachable state: slots are conserved, and there is one semaphore.
THEOREM Inductive == Spec => []IInv
<1> QED
  BY InitIInv, NextIInv, PTL DEF Spec

\* Every variable keeps its type; in particular no slot is released twice.
THEOREM TypeCorrect == Spec => []TypeOK
<1>1. IInv => TypeOK
  BY DEF IInv
<1> QED
  BY <1>1, Inductive, PTL

\* Never more than EVAL_MAX_CONCURRENCY evaluations at once in a process, however its first
\* requests race to create the semaphore.
THEOREM ConcurrencyIsBounded == Spec => []BoundedConcurrency
<1>1. IInv => BoundedConcurrency
  <2> SUFFICES ASSUME IInv PROVE Cardinality(Holders) <= MaxConcurrency
    BY DEF BoundedConcurrency
  <2>1. CASE semaphore = None
    <3>1. Holders = {}
      BY <2>1 DEF IInv, Shared, Holders
    <3> QED
      BY <3>1, FS_EmptySet, ConcurrencyAssumption
  <2>2. CASE semaphore # None
    <3>1. free[semaphore] \in 0 .. MaxConcurrency
      BY <2>2 DEF IInv, TypeOK
    <3>2. free[semaphore] + Cardinality(Holders) = MaxConcurrency
      BY <2>2 DEF IInv, Conserved
    <3> QED
      BY <3>1, <3>2, HoldersFinite, ConcurrencyAssumption
  <2> QED
    BY <2>1, <2>2
<1> QED
  BY <1>1, Inductive, PTL

\* A request is told that the server is busy only while every slot is in use.
THEOREM BusyIsTrue == Spec => BusyMeansFull
<1>1. ASSUME IInv, [Next]_vars, NEW r \in Requests, pc'[r] = "busy", pc[r] # "busy"
      PROVE  Cardinality(Holders) = MaxConcurrency
  <2>1. PICK q \in Requests : Serve(q)
    BY <1>1 DEF Next, vars
  <2>2. CASE ~Busy(q)
    <3>1. \E place \in Places \ {"busy"} : Goto(q, place)
      <4>1. CASE GetDb(q)
        BY <4>1 DEF GetDb, CheckEngine, CreateEngine, CreateFactory, OpenSession, Places, Answers
      <4>2. CASE RunEvaluation(q)
        BY <2>2, <4>2 DEF RunEvaluation, FindSemaphore, CreateSemaphore, Acquire, Evaluate,
                          Release, Persist, Places, Answers, Evaluating
      <4>3. CASE RunJudge(q)
        BY <4>3 DEF RunJudge, FindJudge, CreateJudge, SetProvider, SetModel, ReadProvider,
                    CallJudge, Take, Places, Evaluating
      <4> QED
        BY <2>1, <4>1, <4>2, <4>3 DEF Serve
    <3> QED
      BY <1>1, <3>1 DEF IInv, TypeOK, Goto
  <2>3. CASE Busy(q)
    <3>1. q = r /\ pc[r] = "acquire"
      BY <1>1, <2>3 DEF Busy, Goto, At, IInv, TypeOK
    <3>2. semaphore # None /\ local[r].slot = semaphore /\ free[semaphore] = 0
      BY <1>1, <2>3, <3>1 DEF Busy, IInv, Shared
    <3> QED
      BY <1>1, <3>2, HoldersFinite DEF IInv, Conserved
  <2> QED
    BY <2>2, <2>3
<1>2. IInv /\ [Next]_vars
        => \A r \in Requests : pc'[r] = "busy" /\ pc[r] # "busy"
             => Cardinality(Holders) = MaxConcurrency
  BY <1>1
<1> QED
  BY <1>2, Inductive, PTL DEF Spec, BusyMeansFull

-----------------------------------------------------------------------------
(***************************************************************************)
(* The session factory.  Without a lock it is not there for a moment while *)
(* the engine is, but then its creator is about to publish it.             *)
(***************************************************************************)
Published ==
  /\ engine /\ ~factory => \E q \in Requests : pc[q] = "create_factory"
  /\ \A r \in Requests : pc[r] \in {"create_factory", "yield"} => engine

\* A step that keeps both globals, and moves no creator, keeps Published.
LEMMA PublishedFrame ==
  ASSUME TypeOK, Published, UNCHANGED session, NEW r \in Requests, NEW place, Goto(r, place),
         pc[r] # "create_factory", place \in {"create_factory", "yield"} => engine
  PROVE  Published'
<1>1. pc'[r] = place /\ \A q \in Requests : q # r => pc'[q] = pc[q]
  BY DEF Goto, TypeOK
<1>2. \A q \in Requests : pc[q] = "create_factory" => pc'[q] = "create_factory"
  BY <1>1
<1> QED
  BY <1>1, <1>2 DEF Published, session

\* Published is kept by every step.
LEMMA StepPublished == IInv /\ Published /\ [Next]_vars => Published'
<1> SUFFICES ASSUME IInv, Published, [Next]_vars PROVE Published'
  OBVIOUS
<1>1. TypeOK
  BY DEF IInv
<1>2. CASE UNCHANGED vars
  BY <1>2 DEF vars, session, Published
<1>3. ASSUME NEW r \in Requests, CheckEngine(r) \/ OpenSession(r) PROVE Published'
  <2>1. /\ UNCHANGED session
        /\ pc[r] \in {"session", "yield"}
        /\ \E place : Goto(r, place) /\ (place \in {"create_factory", "yield"} => engine)
    BY <1>3 DEF CheckEngine, OpenSession, At
  <2> QED
    BY <1>1, <2>1, PublishedFrame
<1>4. ASSUME NEW r \in Requests, CreateEngine(r) PROVE Published'
  BY <1>1, <1>4 DEF CreateEngine, Goto, TypeOK, Published
<1>5. ASSUME NEW r \in Requests, CreateFactory(r) PROVE Published'
  BY <1>1, <1>5 DEF CreateFactory, Goto, At, TypeOK, Published
<1>6. ASSUME NEW r \in Requests, RunEvaluation(r) \/ RunJudge(r) PROVE Published'
  <2>1. UNCHANGED session
    BY <1>6 DEF RunEvaluation, FindSemaphore, CreateSemaphore, Acquire, Busy, Evaluate, Release,
       Persist, RunJudge, FindJudge, CreateJudge, SetProvider, SetModel, ReadProvider, CallJudge
  <2>2. pc[r] # "create_factory"
    BY <1>6 DEF RunEvaluation, FindSemaphore, CreateSemaphore, Acquire, Busy, Evaluate, Release,
       Persist, RunJudge, FindJudge, CreateJudge, SetProvider, SetModel, ReadProvider, CallJudge, At
  <2>3. \E place : Goto(r, place) /\ place \notin {"create_factory", "yield"}
    BY <1>6 DEF RunEvaluation, FindSemaphore, CreateSemaphore, Acquire, Busy, Evaluate, Release,
       Persist, RunJudge, FindJudge, CreateJudge, SetProvider, SetModel, ReadProvider, CallJudge, Take
  <2> QED
    BY <1>1, <2>1, <2>2, <2>3, PublishedFrame
<1> QED
  BY <1>2, <1>3, <1>4, <1>5, <1>6 DEF Next, Serve, GetDb

\* For any number of requests: a request is refused for lack of a session factory only while
\* the request that has created the engine is between its two assignments.
THEOREM FactoryIsComing == Spec => NoSessionOnlyInFirstUse
<1>1. Init => Published
  BY DEF Init, Published
<1>2. IInv /\ Published /\ [Next]_vars =>
        [\A r \in Requests : pc'[r] = "no_session" /\ pc[r] # "no_session"
           => \E q \in Requests : pc[q] = "create_factory"]_vars
  <2> SUFFICES ASSUME IInv, Published, Next, NEW r \in Requests,
                      pc'[r] = "no_session", pc[r] # "no_session"
               PROVE  \E q \in Requests : pc[q] = "create_factory"
    OBVIOUS
  <2>1. PICK q \in Requests : Serve(q)
    BY DEF Next
  <2>2. ASSUME NEW place, Goto(q, place), place # "no_session" PROVE FALSE
    BY <2>2 DEF Goto, IInv, TypeOK
  <2>3. OpenSession(q) /\ ~factory
    BY <2>1, <2>2 DEF Serve, GetDb, CheckEngine, CreateEngine, CreateFactory, OpenSession,
       RunEvaluation, FindSemaphore, CreateSemaphore, Acquire, Busy, Evaluate, Release,
       Persist, RunJudge, FindJudge, CreateJudge, SetProvider, SetModel, ReadProvider, CallJudge, Take
  <2> QED
    BY <2>3 DEF OpenSession, At, Published
<1> QED
  BY <1>1, <1>2, StepPublished, Inductive, InitIInv, NextIInv, PTL DEF Spec, NoSessionOnlyInFirstUse

-----------------------------------------------------------------------------
(***************************************************************************)
(* The judge.  Whatever a request writes to it is its own judge_config,    *)
(* and those who are at the judge then have met it.                        *)
(***************************************************************************)
\* The judge_configs of the requests at the judge.
Present == {wants[q] : q \in Requests} \cap Overrides

\* How far a request with a judge_config of its own has got in imposing it: what it finds on the
\* judge from then on is its own, or from one of those it has met.
Honoured(r) ==
  wants[r] \in Overrides \ {Default} =>
    /\ Present \subseteq local[r].met
    /\ pc[r] \in {"set_model", "read_provider", "read_model"} =>
         judge[local[r].judge].provider \in local[r].met
    /\ pc[r] \in {"read_provider", "read_model"} => judge[local[r].judge].model \in local[r].met
    /\ pc[r] = "read_model" => local[r].used.provider \in local[r].met
    /\ pc[r] = "release" /\ local[r].used # None =>
         {local[r].used.provider, local[r].used.model} \subseteq local[r].met

\* A verdict is only ever held by a request that has called the judge, and settings are only made by one
\* that has a judge_config.
Asked(r) ==
  /\ wants[r] = None \/ pc[r] \notin {"read_model", "release"} => local[r].used = None
  /\ pc[r] \in {"set_provider", "set_model"} => wants[r] \in Overrides \ {Default}

JInv == IInv /\ \A r \in Requests : Asked(r) /\ Honoured(r)

\* The places where a request has a judge.
LEMMA HasJudge ==
  ASSUME IInv, NEW r \in Requests, pc[r] \in Judged \ {"find_judge", "create_judge"}
  PROVE  /\ local[r].judge \in Requests /\ judge[local[r].judge] \in Settings
         /\ wants[r] \in Configs
<1>1. wants[r] # None /\ local[r].judge # None
  BY DEF IInv, Positioned
<1>2. local[r] \in Locals /\ judge \in [Requests -> Settings] /\ wants[r] \in Configs \cup {None}
  BY DEF IInv, TypeOK
<1> QED
  BY <1>1, <1>2 DEF Locals

\* What a step finds on a judge and changes is a judge_config of a request at the judge.
LEMMA JudgeWritten ==
  ASSUME JInv, NEW r \in Requests, Serve(r), NEW j \in Requests
  PROVE  /\ judge'[j].provider \in {judge[j].provider} \cup Present
         /\ judge'[j].model \in {judge[j].model} \cup Present
<1>1. CASE ~SetProvider(r) /\ ~SetModel(r)
  <2>1. judge' = judge
    BY <1>1 DEF Serve, GetDb, CheckEngine, CreateEngine, CreateFactory, OpenSession,
       RunEvaluation, FindSemaphore, CreateSemaphore, Acquire, Busy, Evaluate, Release, Persist,
       RunJudge, FindJudge, CreateJudge, ReadProvider, CallJudge, judges
  <2> QED
    BY <2>1
<1>2. CASE SetProvider(r) \/ SetModel(r)
  <2>1. pc[r] \in {"set_provider", "set_model"} /\ Asked(r)
    BY <1>2 DEF SetProvider, SetModel, At, JInv
  <2>2. wants[r] \in Present
    BY <2>1 DEF Asked, Present
  <2>3. local[r].judge \in Requests /\ judge \in [Requests -> Settings]
    BY <2>1, HasJudge DEF JInv, IInv, TypeOK, Judged
  <2>4. judge[j] \in Settings
    BY <2>3
  <2>5. CASE SetProvider(r)
    <3>1. judge' = [judge EXCEPT ![local[r].judge] = [judge[local[r].judge] EXCEPT !.provider = wants[r]]]
      BY <2>3, <2>5 DEF SetProvider
    <3>2. judge'[j] \in {judge[j], [judge[j] EXCEPT !.provider = wants[r]]}
      BY <2>3, <3>1
    <3> QED
      BY <2>2, <2>4, <3>2 DEF Settings
  <2>6. CASE SetModel(r)
    <3>1. judge' = [judge EXCEPT ![local[r].judge] = [judge[local[r].judge] EXCEPT !.model = wants[r]]]
      BY <2>3, <2>6 DEF SetModel
    <3>2. judge'[j] \in {judge[j], [judge[j] EXCEPT !.model = wants[r]]}
      BY <2>3, <3>1
    <3> QED
      BY <2>2, <2>4, <3>2 DEF Settings
  <2> QED
    BY <1>2, <2>5, <2>6
<1> QED
  BY <1>1, <1>2

\* A request that somebody else's step leaves where it is keeps what it has imposed.
LEMMA HonouredFrame ==
  ASSUME JInv, NEW q \in Requests, pc'[q] = pc[q], wants'[q] = wants[q],
         local'[q].judge = local[q].judge, local'[q].used = local[q].used,
         local[q].met \subseteq local'[q].met,
         wants[q] \in Overrides \ {Default} => Present' \subseteq local'[q].met,
         \A j \in Requests : /\ judge'[j].provider \in {judge[j].provider} \cup Present
                             /\ judge'[j].model \in {judge[j].model} \cup Present
  PROVE  Honoured(q)' /\ Asked(q)'
<1>1. Honoured(q) /\ Asked(q)
  BY DEF JInv
<1>2. Asked(q)'
  BY <1>1 DEF Asked
<1> SUFFICES ASSUME wants[q] \in Overrides \ {Default} PROVE Honoured(q)'
  BY <1>2 DEF Honoured
<1>3. Present \subseteq local'[q].met
  BY <1>1 DEF Honoured
<1>4. ASSUME pc[q] \in {"set_model", "read_provider", "read_model"}
      PROVE  local[q].judge \in Requests
  BY <1>4, HasJudge DEF JInv, Judged
<1>5. ASSUME pc[q] \in {"set_model", "read_provider", "read_model"}
      PROVE  judge'[local[q].judge].provider \in local'[q].met
  BY <1>1, <1>3, <1>4, <1>5 DEF Honoured
<1>6. ASSUME pc[q] \in {"read_provider", "read_model"}
      PROVE  judge'[local[q].judge].model \in local'[q].met
  BY <1>1, <1>3, <1>4, <1>6 DEF Honoured
<1> QED
  BY <1>1, <1>2, <1>5, <1>6 DEF Honoured

\* The judge_configs at the judge after a step are those before it, but for a request that comes.
LEMMA PresentStep ==
  ASSUME TypeOK, NEW r \in Requests, Serve(r),
         ~(Evaluate(r) /\ \E config \in Configs : Consult(r, config))
  PROVE  /\ Present' \subseteq Present
         /\ wants'[r] \in {wants[r], None}
         /\ \A q \in Requests \ {r} : wants'[q] = wants[q] /\ local'[q] = local[q]
<1>1. wants' = wants \/ wants' = [wants EXCEPT ![r] = None]
  BY DEF Serve, GetDb, CheckEngine, CreateEngine, CreateFactory, OpenSession,
         RunEvaluation, FindSemaphore, CreateSemaphore, Acquire, Busy, Evaluate, Release, Persist,
         RunJudge, FindJudge, CreateJudge, SetProvider, SetModel, ReadProvider, CallJudge
<1>2. UNCHANGED local \/ \E l : local' = [local EXCEPT ![r] = l]
  BY DEF Serve, GetDb, CheckEngine, CreateEngine, CreateFactory, OpenSession,
         RunEvaluation, FindSemaphore, CreateSemaphore, Acquire, Busy, Evaluate, Release, Persist,
         RunJudge, FindJudge, CreateJudge, Take, SetProvider, SetModel, ReadProvider, CallJudge
<1>3. None \notin Overrides
  BY ConfigsAssumption DEF Configs
<1>4. \A q \in Requests : wants'[q] \in {wants[q], None}
  BY <1>1 DEF TypeOK
<1>5. Present' \subseteq Present
  BY <1>3, <1>4 DEF Present
<1> QED
  BY <1>1, <1>2, <1>5 DEF TypeOK

\* Coming to the judge, a request meets those who are there, and they meet it.
LEMMA ComingStep ==
  ASSUME JInv, NEW r \in Requests, NEW config \in Configs, Consult(r, config), Evaluate(r)
  PROVE  \A q \in Requests : Honoured(q)' /\ Asked(q)'
<1>1. TypeOK /\ Asked(r)
  BY DEF JInv, IInv
<1>2. /\ wants'[r] = config /\ \A q \in Requests \ {r} : wants'[q] = wants[q]
      /\ \A q \in Requests : /\ local'[q].judge = local[q].judge
                            /\ local'[q].used = local[q].used
      /\ \A q \in Requests : local'[q].met = IF wants'[q] \in Overrides THEN local[q].met \cup Present'
                                                                   ELSE local[q].met
  BY <1>1, Consulted DEF Present
<1>3. judge' = judge /\ pc[r] = "evaluate"
      /\ pc'[r] \in {"find_judge", "release", "release_raise"}
      /\ \A q \in Requests \ {r} : pc'[q] = pc[q]
  BY <1>1 DEF Evaluate, At, Goto, TypeOK, judges
<1>4. Honoured(r)' /\ Asked(r)'
  <2>1. local[r].used = None
    BY <1>1, <1>3 DEF Asked, Judged
  <2> QED
    BY <1>2, <1>3, <2>1 DEF Honoured, Asked
<1>5. ASSUME NEW q \in Requests, q # r PROVE Honoured(q)' /\ Asked(q)'
  BY <1>2, <1>3, <1>5, HonouredFrame
<1> QED
  BY <1>4, <1>5

\* Its own steps on the way to the judge and after it impose nothing, and require nothing.
LEMMA AwayStep ==
  ASSUME JInv, NEW r \in Requests,
         \/ GetDb(r) \/ FindSemaphore(r) \/ CreateSemaphore(r) \/ Acquire(r) \/ Busy(r) \/ Release(r)
         \/ Persist(r)
         \/ Evaluate(r) /\ ~ \E config \in Configs : Consult(r, config)
  PROVE  Honoured(r)' /\ Asked(r)'
<1>1. /\ local \in [Requests -> Locals] /\ pc \in [Requests -> Places] /\ local[r] \in Locals
      /\ wants \in [Requests -> Configs \cup {None}] /\ Honoured(r) /\ Asked(r)
  BY DEF JInv, IInv, TypeOK
<1>2. CASE Release(r)
  <2>1. wants'[r] = None /\ local'[r] = Nothing /\ pc'[r] \in {"persist", "failed"}
    BY <1>1, <1>2 DEF Release, Goto
  <2> QED
    BY <2>1, ConfigsAssumption DEF Honoured, Asked, Configs, Nothing, Judged
<1>3. CASE ~Release(r)
  <2>1. pc[r] \notin Judged \cup {"release"}
    BY <1>3 DEF GetDb, CheckEngine, CreateEngine, CreateFactory, OpenSession, FindSemaphore,
       CreateSemaphore, Acquire, Busy, Evaluate, Persist, At, Judged
  <2>2. wants' = wants
    BY <1>3 DEF GetDb, CheckEngine, CreateEngine, CreateFactory, OpenSession, FindSemaphore,
       CreateSemaphore, Acquire, Busy, Evaluate, Persist
  <2>3. pc'[r] \notin Judged
    BY <1>1, <1>3 DEF GetDb, CheckEngine, CreateEngine, CreateFactory, OpenSession, FindSemaphore,
       CreateSemaphore, Acquire, Busy, Evaluate, Persist, Goto, Judged
  <2>4. local'[r].used = local[r].used /\ local'[r].met = local[r].met
    <3>1. local' = local \/ \E s : local' = [local EXCEPT ![r].slot = s]
      BY <1>3 DEF GetDb, CheckEngine, CreateEngine, CreateFactory, OpenSession, FindSemaphore,
         CreateSemaphore, Acquire, Busy, Evaluate, Persist
    <3> QED
      BY <1>1, <3>1 DEF Locals
  <2>5. local'[r].used = None
    BY <1>1, <2>1, <2>4 DEF Asked, Judged
  <2>6. Present' = Present
    BY <2>2 DEF Present
  <2> QED
    BY <1>1, <2>2, <2>3, <2>4, <2>5, <2>6 DEF Honoured, Asked, Judged
<1> QED
  BY <1>2, <1>3

\* At the judge, a request imposes its judge_config, or finds the defaults asked for.
LEMMA AtJudgeStep ==
  ASSUME JInv, NEW r \in Requests, RunJudge(r)
  PROVE  Honoured(r)' /\ Asked(r)'
<1>1. /\ judge \in [Requests -> Settings] /\ local \in [Requests -> Locals]
      /\ pc \in [Requests -> Places] /\ local[r] \in Locals
      /\ wants[r] \in Configs /\ Honoured(r) /\ Asked(r)
  <2>1. pc[r] \in Judged
    BY DEF RunJudge, FindJudge, CreateJudge, SetProvider, SetModel, ReadProvider, CallJudge, At, Judged
  <2> QED
    BY <2>1 DEF JInv, IInv, TypeOK, Positioned
<1>2. wants' = wants /\ Present' = Present
  BY DEF RunJudge, FindJudge, CreateJudge, SetProvider, SetModel, ReadProvider, CallJudge, Present
<1>3. wants[r] # None /\ (wants[r] # Default => wants[r] \in Overrides)
  BY <1>1, ConfigsAssumption DEF Configs
<1>4. wants[r] \in Overrides \ {Default} => wants[r] \in local[r].met /\ Present \subseteq local[r].met
  BY <1>1 DEF Honoured, Present
<1>5. pc[r] \in Judged /\ (pc[r] # "read_model" => local[r].used = None)
  <2>1. pc[r] \in Judged
    BY DEF RunJudge, FindJudge, CreateJudge, SetProvider, SetModel, ReadProvider, CallJudge, At, Judged
  <2> QED
    BY <1>1, <2>1 DEF Asked, Judged
<1>6. CASE FindJudge(r) \/ CreateJudge(r)
  <2>1. pc'[r] \in {"create_judge", "set_provider", "read_provider"}
        /\ (pc'[r] = "set_provider" => wants[r] # Default)
        /\ (pc'[r] = "read_provider" => wants[r] = Default)
    BY <1>1, <1>6 DEF FindJudge, CreateJudge, Take, Goto
  <2>2. local'[r].used = local[r].used /\ local'[r].met = local[r].met
    <3>1. local' = local \/ \E j : local' = [local EXCEPT ![r].judge = j]
      BY <1>6 DEF FindJudge, CreateJudge, Take
    <3> QED
      BY <1>1, <3>1 DEF Locals
  <2>3. pc[r] # "read_model"
    BY <1>6 DEF FindJudge, CreateJudge, At
  <2> QED
    BY <1>2, <1>3, <1>4, <1>5, <2>1, <2>2, <2>3 DEF Honoured, Asked, Judged
<1>7. CASE SetProvider(r)
  <2>1. pc[r] = "set_provider" /\ pc'[r] = "set_model" /\ local' = local
    BY <1>1, <1>7 DEF SetProvider, At, Goto
  <2>2. local[r].judge \in Requests /\ judge[local[r].judge] \in Settings
    BY <2>1, HasJudge DEF JInv, Judged
  <2>3. judge'[local[r].judge] = [judge[local[r].judge] EXCEPT !.provider = wants[r]]
    BY <1>1, <1>7, <2>2 DEF SetProvider
  <2>4. judge'[local[r].judge].provider = wants[r]
    BY <2>2, <2>3 DEF Settings
  <2>5. wants[r] \in Overrides \ {Default}
    BY <1>1, <2>1 DEF Asked
  <2> QED
    BY <1>2, <1>3, <1>4, <1>5, <2>1, <2>4, <2>5 DEF Honoured, Asked
<1>8. CASE SetModel(r)
  <2>1. pc[r] = "set_model" /\ pc'[r] = "read_provider" /\ local' = local
    BY <1>1, <1>8 DEF SetModel, At, Goto
  <2>2. local[r].judge \in Requests /\ judge[local[r].judge] \in Settings
    BY <2>1, HasJudge DEF JInv, Judged
  <2>3. judge'[local[r].judge] = [judge[local[r].judge] EXCEPT !.model = wants[r]]
    BY <1>1, <1>8, <2>2 DEF SetModel
  <2>4. judge'[local[r].judge].model = wants[r]
        /\ judge'[local[r].judge].provider = judge[local[r].judge].provider
    BY <2>2, <2>3 DEF Settings
  <2>5. wants[r] \in Overrides \ {Default} => judge[local[r].judge].provider \in local[r].met
    BY <1>1, <2>1 DEF Honoured
  <2> QED
    BY <1>2, <1>3, <1>4, <1>5, <2>1, <2>4, <2>5 DEF Honoured, Asked, Judged
<1> DEFINE mine == judge[local[r].judge]
<1>9. CASE ReadProvider(r)
  <2>1. pc[r] = "read_provider" /\ judge' = judge
    BY <1>9 DEF ReadProvider, At, judges
  <2>2. mine \in Settings
    BY <2>1, HasJudge DEF JInv, Judged
  <2>3. wants[r] \in Overrides \ {Default} => mine.provider \in local[r].met /\ mine.model \in local[r].met
    BY <1>1, <2>1 DEF Honoured
  <2>4. CASE local' = [local EXCEPT ![r].used = [mine EXCEPT !.model = Default]] /\ Goto(r, "read_model")
    <3>1. local'[r] = [local[r] EXCEPT !.used = [mine EXCEPT !.model = Default]]
      BY <1>1, <2>4
    <3>2. pc'[r] = "read_model"
      BY <1>1, <2>4 DEF Goto
    <3>3. judge'[local[r].judge] = mine
      BY <2>1
    <3> HIDE DEF mine
    <3>4. local'[r].judge = local[r].judge /\ local'[r].met = local[r].met
          /\ local'[r].used.provider = mine.provider
      BY <1>1, <2>2, <3>1 DEF Locals, Settings
    <3> QED
      BY <1>2, <1>3, <1>4, <2>3, <3>2, <3>3, <3>4 DEF Honoured, Asked, Judged
  <2>5. CASE Goto(r, "release") /\ UNCHANGED local
    <3>1. pc'[r] = "release" /\ local[r].calls = local[r].calls
      BY <1>1, <2>5 DEF Goto
    <3> QED
      BY <1>2, <1>3, <1>4, <1>5, <2>1, <2>5, <3>1 DEF Honoured, Asked, Judged
  <2> QED
    BY <1>9, <2>4, <2>5 DEF ReadProvider
<1>10. CASE CallJudge(r)
  <2>1. pc[r] = "read_model" /\ judge' = judge
    BY <1>10 DEF CallJudge, At, judges
  <2>2. mine \in Settings /\ local[r].used \in Settings
    BY <1>1, <2>1, HasJudge DEF JInv, IInv, Positioned, Judged, Locals
  <2>3. wants[r] \in Overrides \ {Default} =>
          /\ mine.provider \in local[r].met /\ mine.model \in local[r].met
          /\ local[r].used.provider \in local[r].met
    BY <1>1, <2>1 DEF Honoured
  <2>4. CASE local' = [local EXCEPT ![r].used.model = mine.model] /\ Goto(r, "release")
    <3>1. local'[r] = [local[r] EXCEPT !.used = [local[r].used EXCEPT !.model = mine.model]]
      BY <1>1, <2>4
    <3>2. pc'[r] = "release"
      BY <1>1, <2>4 DEF Goto
    <3> HIDE DEF mine
    <3>3. local'[r].used = [local[r].used EXCEPT !.model = mine.model] /\ local'[r].met = local[r].met
      BY <1>1, <3>1 DEF Locals
    <3>4. local'[r].used.model = mine.model /\ local'[r].used.provider = local[r].used.provider
      BY <2>2, <3>3 DEF Settings
    <3> QED
      BY <1>2, <1>3, <1>4, <2>3, <3>2, <3>3, <3>4 DEF Honoured, Asked, Judged
  <2>5. CASE /\ local' = [local EXCEPT ![r].used = None, ![r].calls = @ + 1]
             /\ Goto(r, IF local'[r].calls < MaxCalls THEN "read_provider" ELSE "release")
    <3>1. local'[r] = [local[r] EXCEPT !.used = None, !.calls = @ + 1]
      BY <1>1, <2>5
    <3>2. local'[r].used = None /\ local'[r].judge = local[r].judge /\ local'[r].met = local[r].met
      BY <1>1, <3>1 DEF Locals
    <3>3. pc'[r] \in {"read_provider", "release"}
      BY <1>1, <2>5 DEF Goto
    <3>4. judge'[local'[r].judge] = mine
      BY <2>1, <3>2
    <3> HIDE DEF mine
    <3> QED
      BY <1>2, <1>3, <1>4, <2>3, <3>2, <3>3, <3>4 DEF Honoured, Asked, Judged
  <2> QED
    BY <1>10, <2>4, <2>5 DEF CallJudge
<1> QED
  BY <1>6, <1>7, <1>8, <1>9, <1>10 DEF RunJudge

\* For any number of slots: a request whose judge_config sets provider and model is judged under
\* its own settings or those of a request that was at the judge with it, never under what an
\* earlier one has left there.
THEOREM OwnConfigIsHonoured == Spec => []OwnConfigHonoured
<1>1. Init => JInv
  <2>1. Init => \A r \in Requests : Asked(r) /\ Honoured(r)
    BY ConfigsAssumption DEF Init, Asked, Honoured, Nothing, Configs
  <2> QED
    BY <2>1, InitIInv DEF JInv
<1>2. JInv /\ [Next]_vars => JInv'
  <2> SUFFICES ASSUME JInv, [Next]_vars PROVE JInv'
    OBVIOUS
  <2>1. IInv'
    BY NextIInv DEF JInv
  <2>2. CASE UNCHANGED vars
    BY <2>1, <2>2 DEF JInv, Asked, Honoured, Present, vars, judges
  <2>3. ASSUME NEW r \in Requests, Serve(r) PROVE JInv'
    <3> DEFINE coming == Evaluate(r) /\ \E config \in Configs : Consult(r, config)
    <3>1. CASE coming
      BY <2>1, <3>1, ComingStep DEF JInv
    <3>2. CASE ~coming
      <4>1. Honoured(r)' /\ Asked(r)'
        BY <2>3, <3>2, AwayStep, AtJudgeStep DEF Serve, RunEvaluation
      <4>2. ASSUME NEW q \in Requests, q # r PROVE Honoured(q)' /\ Asked(q)'
        <5>1. pc'[q] = pc[q]
          <6>1. \E place : Goto(r, place)
            BY <2>3 DEF Serve, GetDb, CheckEngine, CreateEngine, CreateFactory, OpenSession,
               RunEvaluation, FindSemaphore, CreateSemaphore, Acquire, Busy, Evaluate, Release, Persist,
               RunJudge, FindJudge, CreateJudge, Take, SetProvider, SetModel, ReadProvider, CallJudge
          <6> QED
            BY <4>2, <6>1 DEF Goto, JInv, IInv, TypeOK
        <5>2. Present' \subseteq Present /\ wants'[q] = wants[q] /\ local'[q] = local[q]
          BY <2>3, <3>2, <4>2, PresentStep DEF JInv, IInv
        <5>3. wants[q] \in Overrides \ {Default} => Present' \subseteq local'[q].met
          <6>1. wants[q] \in Overrides \ {Default} => Present \subseteq local[q].met
            BY DEF JInv, Honoured
          <6> QED
            BY <5>2, <6>1
        <5>4. \A j \in Requests : /\ judge'[j].provider \in {judge[j].provider} \cup Present
                                  /\ judge'[j].model \in {judge[j].model} \cup Present
          BY <2>3, JudgeWritten
        <5> QED
          BY <5>1, <5>2, <5>3, <5>4, HonouredFrame
      <4> QED
        BY <2>1, <4>1, <4>2 DEF JInv
    <3> QED
      BY <3>1, <3>2
  <2> QED
    BY <2>2, <2>3 DEF Next
<1>3. JInv => OwnConfigHonoured
  <2> SUFFICES ASSUME JInv, NEW r \in Requests, pc[r] = "release", local[r].used # None,
                      wants[r] # Default
               PROVE  {local[r].used.provider, local[r].used.model} \subseteq local[r].met
    BY DEF OwnConfigHonoured
  <2>1. Asked(r) /\ Honoured(r) /\ wants[r] \in Configs \cup {None}
    BY DEF JInv, IInv, TypeOK
  <2> QED
    BY <2>1 DEF Asked, Honoured, Configs
<1> QED
  BY <1>1, <1>2, <1>3, PTL DEF Spec
=============================================================================
