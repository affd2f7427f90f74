---------------------------- MODULE RateLimiter ----------------------------
(***************************************************************************)
(* The fixed-window rate limiter of the API (app/api/deps.py), for one     *)
(* project's bucket.  Requests run in the threads of several API           *)
(* processes; what they share is one Redis counter.  Each Redis command is *)
(* atomic, the sequence SET NX / INCR / TTL / EXPIRE is not, and between   *)
(* any two commands the key may expire.                                    *)
(***************************************************************************)
EXTENDS Naturals, FiniteSets

CONSTANTS
  Requests,     \* requests of the project, each checked once
  MaxRequests,  \* RATE_LIMIT_REQUESTS
  FailClosed,   \* RATE_LIMIT_FAIL_CLOSED
  MaxWindows,   \* bound: times the key comes into being
  MaxFaults     \* bound: Redis calls that raise, threads killed, expiries lost

ASSUME RequestsAssumption == IsFiniteSet(Requests)
ASSUME LimitsAssumption == /\ MaxRequests \in Nat /\ FailClosed \in BOOLEAN
                           /\ MaxWindows \in Nat /\ MaxFaults \in Nat

VARIABLES
  counter,  \* value of ratelimit:api:{project}; 0 when there is no such key
  armed,    \* the key has an expiry
  window,   \* history: number of the key's present, or latest, life
  pc,       \* control state of each request
  ticket,   \* history: the life of the key and the count a request drew
  faults,   \* faults so far
  dropped   \* history: a fault left the present key without its expiry

vars == <<counter, armed, window, pc, ticket, faults, dropped>>

Decided == {"allowed", "limited", "failed_open", "unavailable", "killed"}

TypeOK ==
  /\ counter \in Nat
  /\ armed \in BOOLEAN
  /\ window \in 0 .. MaxWindows
  /\ pc \in [Requests -> {"set", "incr", "ttl", "expire"} \cup Decided]
  /\ ticket \in [Requests -> [window : 0 .. MaxWindows, count : Nat]]
  /\ faults \in 0 .. MaxFaults
  /\ dropped \in BOOLEAN

Init ==
  /\ counter = 0
  /\ armed = FALSE
  /\ window = 0
  /\ pc = [r \in Requests |-> "set"]
  /\ ticket = [r \in Requests |-> [window |-> 0, count |-> 0]]
  /\ faults = 0
  /\ dropped = FALSE

Goto(r, place) == pc' = [pc EXCEPT ![r] = place]

Draw(r, w, n) == ticket' = [ticket EXCEPT ![r] = [window |-> w, count |-> n]]

\* Mutant of Verdict: the last request of the quota is refused.
VerdictStrict(n) == IF n < MaxRequests THEN "allowed" ELSE "limited"

\* count <= max_requests, on the count drawn, whatever the key holds by then.
Verdict(n) == IF n <= MaxRequests THEN "allowed" ELSE "limited"

-----------------------------------------------------------------------------
(***************************************************************************)
(* The commands, as Redis executes them.                                   *)
(***************************************************************************)
\* SET key 1 EX window NX, when there is no key.
StartWindow(r) ==
  /\ counter = 0
  /\ window < MaxWindows
  /\ counter' = 1 /\ armed' = TRUE /\ window' = window + 1
  /\ Draw(r, window + 1, 1)

\* INCR: on a key that has expired since the SET it creates one without an expiry.
Count(r) ==
  /\ counter' = counter + 1
  /\ \/ counter = 0 /\ window < MaxWindows /\ window' = window + 1 /\ armed' = FALSE
     \/ counter # 0 /\ UNCHANGED <<window, armed>>
  /\ Draw(r, window', counter + 1)

\* EXPIRE, which does nothing when there is no key.
Rearm == armed' = (counter # 0) /\ UNCHANGED <<counter, window, ticket>>

-----------------------------------------------------------------------------
(***************************************************************************)
(* _check_rate_limit, one command at a time.                               *)
(***************************************************************************)
\* Mutant of SetNx: SET without NX restarts the count of a window in progress.
SetNxWithoutNx(r) ==
  /\ pc[r] = "set"
  /\ counter # 0 \/ window < MaxWindows
  /\ counter' = 1 /\ armed' = TRUE /\ window' = IF counter = 0 THEN window + 1 ELSE window
  /\ Draw(r, window', 1)
  /\ Goto(r, Verdict(1))
  /\ dropped' = FALSE
  /\ UNCHANGED faults

SetNx(r) ==
  /\ pc[r] = "set"
  /\ \/ StartWindow(r) /\ Goto(r, Verdict(1)) /\ dropped' = FALSE
     \/ counter # 0 /\ Goto(r, "incr") /\ UNCHANGED <<counter, armed, window, ticket, dropped>>
  /\ UNCHANGED faults

Incr(r) ==
  /\ pc[r] = "incr"
  /\ Count(r)
  /\ Goto(r, "ttl")
  /\ dropped' = (dropped /\ counter # 0)
  /\ UNCHANGED faults

\* Mutant of Ttl: a key without an expiry (-1) is taken for one that has some time left.
TtlMissingOnly(r) ==
  /\ pc[r] = "ttl"
  /\ Goto(r, IF counter = 0 THEN "expire" ELSE Verdict(ticket[r].count))
  /\ UNCHANGED <<counter, armed, window, ticket, faults, dropped>>

\* Mutant of Ttl: the verdict is on what the key holds by now, not on the count drawn.
TtlOnKey(r) ==
  /\ pc[r] = "ttl"
  /\ Goto(r, IF counter = 0 \/ ~armed THEN "expire" ELSE Verdict(counter))
  /\ UNCHANGED <<counter, armed, window, ticket, faults, dropped>>

\* TTL is negative for a key without an expiry, and for no key at all.
Ttl(r) ==
  /\ pc[r] = "ttl"
  /\ Goto(r, IF counter = 0 \/ ~armed THEN "expire" ELSE Verdict(ticket[r].count))
  /\ UNCHANGED <<counter, armed, window, ticket, faults, dropped>>

Expire(r) ==
  /\ pc[r] = "expire"
  /\ Rearm
  /\ Goto(r, Verdict(ticket[r].count))
  /\ dropped' = FALSE
  /\ UNCHANGED faults

-----------------------------------------------------------------------------
(***************************************************************************)
(* Failures.                                                               *)
(***************************************************************************)
Fault ==
  /\ faults < MaxFaults
  /\ faults' = faults + 1
  /\ dropped' = (counter' # 0 /\ ~armed')

\* The command request r is at may have been executed although its reply is lost.
Torn(r) ==
  \/ UNCHANGED <<counter, armed, window, ticket>>
  \/ pc[r] = "set" /\ StartWindow(r)
  \/ pc[r] = "incr" /\ Count(r)
  \/ pc[r] = "expire" /\ Rearm

\* Mutant of Fail: the error escapes the handler, and neither policy applies.
FailUnhandled(r) ==
  /\ pc[r] \notin Decided
  /\ Torn(r)
  /\ Fault
  /\ Goto(r, "raised")

\* ConnectionError or TimeoutError: the policy of rate_limit_api decides, also for a
\* request whose count was already drawn.
Fail(r) ==
  /\ pc[r] \notin Decided
  /\ Torn(r)
  /\ Fault
  /\ Goto(r, IF FailClosed THEN "unavailable" ELSE "failed_open")

\* The API process dies under the request.
Kill(r) ==
  /\ pc[r] \notin Decided
  /\ Torn(r)
  /\ Fault
  /\ Goto(r, "killed")

\* "exotic persistence failures": the key is there without its expiry.
LoseExpiry ==
  /\ counter # 0 /\ armed
  /\ armed' = FALSE
  /\ UNCHANGED <<counter, window, pc, ticket>>
  /\ Fault

\* The window ends, or Redis evicts the key.
WindowEnds ==
  /\ counter # 0
  /\ counter' = 0 /\ armed' = FALSE
  /\ UNCHANGED <<window, pc, ticket, faults, dropped>>

-----------------------------------------------------------------------------
Check(r) == SetNx(r) \/ Incr(r) \/ Ttl(r) \/ Expire(r)

Next == \/ \E r \in Requests : Check(r) \/ Fail(r) \/ Kill(r)
        \/ LoseExpiry \/ WindowEnds

Spec == Init /\ [][Next]_vars

-----------------------------------------------------------------------------
(***************************************************************************)
(* Properties.                                                             *)
(***************************************************************************)
\* The requests counted in life w of the key.
Drawn(w) == {r \in Requests : ticket[r].window = w}

\* "Atomic fixed-window rate limit": of the requests counted in one life of the key, the
\* limiter lets at most RATE_LIMIT_REQUESTS pass, whatever the commands of concurrent
\* requests and the expiry of the key do in between.
NoOverAdmission ==
  \A w \in 1 .. MaxWindows :
    Cardinality({r \in Drawn(w) : pc[r] = "allowed"}) <= MaxRequests

\* The other way round: a 429 means that more than RATE_LIMIT_REQUESTS requests were
\* counted in the life of the key the refused one drew its count from.
NoEarlyRefusal ==
  \A r \in Requests : pc[r] = "limited" => Cardinality(Drawn(ticket[r].window)) > MaxRequests

\* "Memory is bounded by the key TTL", "preventing immortal keys": a counter without an
\* expiry has a request under way that will re-arm it, unless a fault came between.
Tended ==
  counter # 0 /\ ~armed => dropped \/ \E r \in Requests : pc[r] \in {"ttl", "expire"}

\* The commands of one check, torn apart by other requests, expiries and faults, have the
\* effect of one step, the command that draws the count: a request takes one of the seats
\* of the life of the key that is under way, or finds exactly RATE_LIMIT_REQUESTS taken,
\* and what it is answered, however late, is that or a failure.
Seated == {r \in Requests : /\ counter # 0 /\ ticket[r].window = window
                            /\ ticket[r].count \in 1 .. MaxRequests}
Claim == [r \in Requests |-> IF ticket[r].count = 0 THEN "none"
                             ELSE IF ticket[r].count <= MaxRequests THEN "seat" ELSE "full"]
Answer == [r \in Requests |-> IF pc[r] \in Decided THEN pc[r] ELSE "none"]
Quota == INSTANCE RequestQuota WITH
           Failures <- {IF FailClosed THEN "unavailable" ELSE "failed_open", "killed"},
           seated <- Seated, claim <- Claim, answer <- Answer
ChecksAtomically == Quota!Spec
=============================================================================
