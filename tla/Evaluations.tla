---------------------------- MODULE Evaluations ----------------------------
(***************************************************************************)
(* Synchronous evaluations in one API process: requests for POST           *)
(* /evaluations run in the threads of a pool and share the module globals  *)
(* of the process:                                                         *)
(*                                                                         *)
(*   - the engine and the session factory (app/db/session.py), created on  *)
(*     first use without a lock;                                           *)
(*   - the slots of the evaluation semaphore (app/services/                *)
(*     evaluation_service.py), created on first use under a double-checked *)
(*     lock;                                                               *)
(*   - the LLM judge (evaluator/registry.py, evaluator/judge.py), created  *)
(*     on first use without a lock, configured by the request that uses it.*)
(*                                                                         *)
(* An object created on first use is named by the request that creates it. *)
(* An action is one access to a shared global with the local steps around  *)
(* it; a critical section is one action.                                   *)
(***************************************************************************)
EXTENDS Naturals, FiniteSets

CONSTANTS
  Requests,        \* evaluation requests, one thread each
  MaxConcurrency,  \* max(1, EVAL_MAX_CONCURRENCY)
  MaxCalls,        \* max_retries of the judge
  Overrides,       \* values a judge_config can set provider and model to
  Default,         \* provider and model of a judge nobody has configured
  None             \* a global that is not set yet; no judge; no verdict

Configs  == Overrides \cup {Default}
Settings == [provider : Configs, model : Configs]

ASSUME RequestsAssumption == IsFiniteSet(Requests) /\ None \notin Requests
ASSUME ConcurrencyAssumption == MaxConcurrency \in Nat \ {0} /\ MaxCalls \in Nat \ {0}
ASSUME ConfigsAssumption == None \notin Configs /\ None \notin Settings

VARIABLES
  engine,     \* _engine is set
  factory,    \* _SessionLocal is set
  semaphore,  \* _eval_semaphore
  free,       \* the free slots of the semaphore each request has created
  registry,   \* _evaluators["llm_judge"]
  judge,      \* the settings of the judge each request has created
  wants,      \* per request: its judge_config while the judge is at it, None before and after,
              \* and without the judge profile
  pc,         \* control state of each request
  local       \* per request: the semaphore and the judge it has got hold of, the attempts of
              \* the judge that failed, the settings of the one that is under way or answered;
              \* met, which is not in the code: when it has a judge_config, the judge_configs of
              \* the requests that were at the judge while it was, its own included

session == <<engine, factory>>
slots   == <<semaphore, free>>
judges  == <<registry, judge>>
vars == <<session, slots, judges, wants, pc, local>>

Locals   == [slot : Requests \cup {None}, judge : Requests \cup {None},
             calls : 0 .. MaxCalls, used : Settings \cup {None}, met : SUBSET Overrides]
Nothing  == [slot |-> None, judge |-> None, calls |-> 0, used |-> None, met |-> {}]

\* Where a request holds a slot.
Evaluating == {"evaluate", "find_judge", "create_judge", "set_provider", "set_model",
               "read_provider", "read_model", "release", "release_raise"}
\* 201, 503, and two ways to a 500.
Answers == {"created", "busy", "failed", "no_session"}
Places  == {"session", "create_engine", "create_factory", "yield", "semaphore", "lock",
            "acquire", "persist"} \cup Evaluating \cup Answers

TypeOK ==
  /\ engine \in BOOLEAN /\ factory \in BOOLEAN
  /\ semaphore \in Requests \cup {None}
  /\ free \in [Requests -> 0 .. MaxConcurrency]
  /\ registry \in Requests \cup {None}
  /\ judge \in [Requests -> Settings]
  /\ wants \in [Requests -> Configs \cup {None}]
  /\ pc \in [Requests -> Places]
  /\ local \in [Requests -> Locals]

Init ==
  /\ engine = FALSE /\ factory = FALSE
  /\ semaphore = None
  /\ free = [r \in Requests |-> MaxConcurrency]
  /\ registry = None
  /\ judge = [r \in Requests |-> [provider |-> Default, model |-> Default]]
  /\ wants = [r \in Requests |-> None]
  /\ pc = [r \in Requests |-> "session"]
  /\ local = [r \in Requests |-> Nothing]

Goto(r, place) == pc' = [pc EXCEPT ![r] = place]
At(r, place) == pc[r] = place

-----------------------------------------------------------------------------
(***************************************************************************)
(* get_db: the factory is published after the engine that stands for it in *)
(* the check.                                                              *)
(***************************************************************************)
CheckEngine(r) ==
  /\ At(r, "session")
  /\ Goto(r, IF engine THEN "yield" ELSE "create_engine")
  /\ UNCHANGED <<session, slots, judges, wants, local>>

CreateEngine(r) ==
  /\ At(r, "create_engine")
  /\ engine' = TRUE
  /\ Goto(r, "create_factory")
  /\ UNCHANGED <<factory, slots, judges, wants, local>>

\* Mutant of CreateFactory: the new factory is left in a local name.
CreateFactoryLocally(r) ==
  /\ At(r, "create_factory")
  /\ Goto(r, "yield")
  /\ UNCHANGED <<session, slots, judges, wants, local>>

CreateFactory(r) ==
  /\ At(r, "create_factory")
  /\ factory' = TRUE
  /\ Goto(r, "yield")
  /\ UNCHANGED <<engine, slots, judges, wants, local>>

\* SessionLocal(): None is not callable.  (Authentication and the rate limiter follow.)
OpenSession(r) ==
  /\ At(r, "yield")
  /\ Goto(r, IF factory THEN "semaphore" ELSE "no_session")
  /\ UNCHANGED <<session, slots, judges, wants, local>>

-----------------------------------------------------------------------------
(***************************************************************************)
(* The slots.                                                              *)
(***************************************************************************)
\* _get_eval_semaphore, the check outside of the lock.
FindSemaphore(r) ==
  /\ At(r, "semaphore")
  /\ \/ semaphore = None /\ Goto(r, "lock") /\ UNCHANGED local
     \/ semaphore # None /\ Goto(r, "acquire") /\ local' = [local EXCEPT ![r].slot = semaphore]
  /\ UNCHANGED <<session, semaphore, free, judges, wants>>

\* Mutant of CreateSemaphore: nothing is checked again under the lock.
CreateSemaphoreUnchecked(r) ==
  /\ At(r, "lock")
  /\ semaphore' = r
  /\ local' = [local EXCEPT ![r].slot = r]
  /\ Goto(r, "acquire")
  /\ UNCHANGED <<session, free, judges, wants>>

\* The critical section, with the check inside of it.
CreateSemaphore(r) ==
  /\ At(r, "lock")
  /\ semaphore' = IF semaphore = None THEN r ELSE semaphore
  /\ local' = [local EXCEPT ![r].slot = semaphore']
  /\ Goto(r, "acquire")
  /\ UNCHANGED <<session, free, judges, wants>>

Acquire(r) ==
  /\ At(r, "acquire")
  /\ free[local[r].slot] > 0
  /\ free' = [free EXCEPT ![local[r].slot] = @ - 1]
  /\ Goto(r, "evaluate")
  /\ UNCHANGED <<session, semaphore, judges, wants, local>>

\* EVAL_SLOT_TIMEOUT: EvaluationBusyError, a 503.
Busy(r) ==
  /\ At(r, "acquire")
  /\ free[local[r].slot] = 0
  /\ Goto(r, "busy")
  /\ UNCHANGED <<session, slots, judges, wants, local>>

\* Request r comes to its judge, with config as its judge_config.
Consult(r, config) ==
  /\ wants' = [wants EXCEPT ![r] = config]
  /\ local' = [q \in Requests |->
                 IF wants'[q] \in Overrides
                   THEN [local[q] EXCEPT !.met = @ \cup ({wants'[p] : p \in Requests} \cap Overrides)]
                   ELSE local[q]]

\* The pipeline, whose exceptions leave run_evaluation, and the evaluators of the profile,
\* whose exceptions become results.  The judge comes last, when the profile has one.
Evaluate(r) ==
  /\ At(r, "evaluate")
  /\ \/ (\E config \in Configs : Consult(r, config)) /\ Goto(r, "find_judge")
     \/ (Goto(r, "release") \/ Goto(r, "release_raise")) /\ UNCHANGED <<wants, local>>
  /\ UNCHANGED <<session, slots, judges>>

\* Mutant of Release: only the return of the evaluation gives the slot back.
ReleaseOnReturn(r) ==
  /\ \/ At(r, "release") /\ Goto(r, "persist") /\ free' = [free EXCEPT ![local[r].slot] = @ + 1]
     \/ At(r, "release_raise") /\ Goto(r, "failed") /\ UNCHANGED free
  /\ wants' = [wants EXCEPT ![r] = None]
  /\ local' = [local EXCEPT ![r] = Nothing]
  /\ UNCHANGED <<session, semaphore, judges>>

\* Mutant of Release: the slot is given back on the exception, and once more at the end.
ReleaseTwice(r) ==
  /\ \/ At(r, "release") /\ Goto(r, "persist") /\ free' = [free EXCEPT ![local[r].slot] = @ + 1]
     \/ At(r, "release_raise") /\ Goto(r, "failed") /\ free' = [free EXCEPT ![local[r].slot] = @ + 2]
  /\ wants' = [wants EXCEPT ![r] = None]
  /\ local' = [local EXCEPT ![r] = Nothing]
  /\ UNCHANGED <<session, semaphore, judges>>

\* finally: semaphore.release(), after a score or an exception, that of the composite included.
\* Nothing after it depends on what the request got hold of.
Release(r) ==
  /\ \/ At(r, "release") /\ (Goto(r, "persist") \/ Goto(r, "failed"))
     \/ At(r, "release_raise") /\ Goto(r, "failed")
  /\ free' = [free EXCEPT ![local[r].slot] = @ + 1]
  /\ wants' = [wants EXCEPT ![r] = None]
  /\ local' = [local EXCEPT ![r] = Nothing]
  /\ UNCHANGED <<session, semaphore, judges>>

\* The run and its metric results in one commit; it may fail, and so may reading them back.
Persist(r) ==
  /\ At(r, "persist")
  /\ Goto(r, "created") \/ Goto(r, "failed")
  /\ UNCHANGED <<session, slots, judges, wants, local>>

-----------------------------------------------------------------------------
(***************************************************************************)
(* The judge: _get_evaluator, the settings made on the shared instance,    *)
(* and the attempts of evaluate.                                           *)
(***************************************************************************)
\* Mutant of Take: a judge that is found is taken to be configured.
TakeAsFound(r, j) == /\ local' = [local EXCEPT ![r].judge = j]
                     /\ Goto(r, IF wants[r] = Default \/ j # r THEN "read_provider" ELSE "set_provider")

Take(r, j) == /\ local' = [local EXCEPT ![r].judge = j]
              /\ Goto(r, IF wants[r] = Default THEN "read_provider" ELSE "set_provider")

FindJudge(r) ==
  /\ At(r, "find_judge")
  /\ \/ registry # None /\ Take(r, registry)
     \/ registry = None /\ Goto(r, "create_judge") /\ UNCHANGED local
  /\ UNCHANGED <<session, slots, judges, wants>>

CreateJudge(r) ==
  /\ At(r, "create_judge")
  /\ registry' = r
  /\ Take(r, r)
  /\ UNCHANGED <<session, slots, judge, wants>>

SetProvider(r) ==
  /\ At(r, "set_provider")
  /\ judge' = [judge EXCEPT ![local[r].judge].provider = wants[r]]
  /\ Goto(r, "set_model")
  /\ UNCHANGED <<session, slots, registry, wants, local>>

\* (The temperature is set and read as the model is.)
SetModel(r) ==
  /\ At(r, "set_model")
  /\ judge' = [judge EXCEPT ![local[r].judge].model = wants[r]]
  /\ Goto(r, "read_provider")
  /\ UNCHANGED <<session, slots, registry, wants, local>>

\* _call_llm: the provider is read first, the model with the call.  A sample without an answer
\* is not judged at all.
ReadProvider(r) ==
  /\ At(r, "read_provider")
  /\ \/ /\ local' = [local EXCEPT ![r].used = [judge[local[r].judge] EXCEPT !.model = Default]]
        /\ Goto(r, "read_model")
     \/ local[r].calls = 0 /\ Goto(r, "release") /\ UNCHANGED local
  /\ UNCHANGED <<session, slots, judges, wants>>

\* Mutant of CallJudge: failed attempts are not counted.
CallJudgeForever(r) ==
  /\ At(r, "read_model")
  /\ \/ /\ local' = [local EXCEPT ![r].used.model = judge[local[r].judge].model]
        /\ Goto(r, "release")
     \/ /\ local' = [local EXCEPT ![r].used = None]
        /\ Goto(r, "read_provider")
  /\ UNCHANGED <<session, slots, judges, wants>>

\* A verdict, or a failed attempt: an exception, a timeout or an answer that cannot be parsed.
\* The last one becomes an error result.
CallJudge(r) ==
  /\ At(r, "read_model")
  /\ \/ /\ local' = [local EXCEPT ![r].used.model = judge[local[r].judge].model]
        /\ Goto(r, "release")
     \/ /\ local' = [local EXCEPT ![r].used = None, ![r].calls = @ + 1]
        /\ Goto(r, IF local'[r].calls < MaxCalls THEN "read_provider" ELSE "release")
  /\ UNCHANGED <<session, slots, judges, wants>>

-----------------------------------------------------------------------------
GetDb(r) == CheckEngine(r) \/ CreateEngine(r) \/ CreateFactory(r) \/ OpenSession(r)

RunEvaluation(r) == \/ FindSemaphore(r) \/ CreateSemaphore(r) \/ Acquire(r) \/ Busy(r)
                    \/ Evaluate(r) \/ Release(r) \/ Persist(r)

RunJudge(r) == \/ FindJudge(r) \/ CreateJudge(r) \/ SetProvider(r) \/ SetModel(r)
               \/ ReadProvider(r) \/ CallJudge(r)

Serve(r) == GetDb(r) \/ RunEvaluation(r) \/ RunJudge(r)

Next == \E r \in Requests : Serve(r)

Spec == Init /\ [][Next]_vars

\* The process goes on running: a wait for a slot, and a call of the judge, time out.  Which of
\* the threads runs need not be fair.
FairSpec == Spec /\ WF_vars(Next)

-----------------------------------------------------------------------------
(***************************************************************************)
(* Properties.                                                             *)
(***************************************************************************)
Holders == {r \in Requests : pc[r] \in Evaluating}

\* "this semaphore caps how many evaluations execute concurrently per process": also while
\* the first requests of the process race to create it.
BoundedConcurrency == Cardinality(Holders) <= MaxConcurrency

\* A 503 says "more than EVAL_MAX_CONCURRENCY concurrent evaluations": it is given only while
\* all the slots are in use by requests that go on to release them, so no path loses a slot.
BusyMeansFull ==
  [][\A r \in Requests : pc'[r] = "busy" /\ pc[r] # "busy"
       => Cardinality(Holders) = MaxConcurrency]_vars

\* Every request is answered: no wait for a slot, no retry of the judge and no failure in
\* between keeps a thread of the pool forever.
Answered == <>(\A r \in Requests : pc[r] \in Answers)

\* The unlocked creation of the session factory does harm for a moment only: a request finds no
\* factory only while one that has just published the engine is about to publish the factory.
NoSessionOnlyInFirstUse ==
  [][\A r \in Requests : pc'[r] = "no_session" /\ pc[r] # "no_session"
       => \E q \in Requests : pc[q] = "create_factory"]_vars

\* "Optional judge configuration override": the judge of a request runs under the settings of
\* that request, and under the defaults when it has none.
JudgeHonoursConfig ==
  \A r \in Requests : pc[r] = "release" /\ local[r].used # None
    => local[r].used = [provider |-> wants[r], model |-> wants[r]]

\* What is true of it, for any number of slots: a judge_config that sets provider and model
\* protects a request against what earlier requests have left on the judge.  Each setting it is
\* judged under, in every attempt, is its own or that of a request that was at the judge at the
\* same time (with one slot there is none).
OwnConfigHonoured ==
  \A r \in Requests : pc[r] = "release" /\ local[r].used # None /\ wants[r] # Default
    => {local[r].used.provider, local[r].used.model} \subseteq local[r].met
=============================================================================
