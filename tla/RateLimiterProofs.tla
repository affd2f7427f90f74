------------------------- MODULE RateLimiterProofs -------------------------
(***************************************************************************)
(* What holds of RateLimiter for any number of requests, any limit, any    *)
(* number of key lives and any number of faults.                           *)
(***************************************************************************)
EXTENDS RateLimiter, FunctionTheorems, FiniteSetTheorems, TLAPS

\* The counts drawn in one life of the key are 1, 2, ..., each drawn by one request.
Placed ==
  \A r \in Requests :
    /\ ticket[r].window <= window
    /\ pc[r] \in {"set", "incr"} => ticket[r].window = 0
    /\ pc[r] \in {"ttl", "expire", "allowed", "limited"} => ticket[r].window >= 1
Newest ==
  counter # 0 =>
    /\ window >= 1
    /\ \A r \in Requests : ticket[r].window = window => ticket[r].count <= counter
    /\ \E r \in Requests : ticket[r].window = window /\ ticket[r].count = counter
Distinct ==
  \A q, r \in Requests :
    /\ ticket[q].window >= 1
    /\ ticket[q].window = ticket[r].window
    /\ ticket[q].count = ticket[r].count
    => q = r
Dense ==
  \A r \in Requests : ticket[r].window >= 1 =>
    /\ ticket[r].count >= 1
    /\ \A k \in 1 .. ticket[r].count :
         \E q \in Requests : ticket[q].window = ticket[r].window /\ ticket[q].count = k
Ruled ==
  \A r \in Requests :
    /\ pc[r] = "allowed" => ticket[r].count <= MaxRequests
    /\ pc[r] = "limited" => ticket[r].count > MaxRequests

Book == Newest /\ Distinct /\ Dense
IInv == TypeOK /\ Placed /\ Book /\ Ruled

\* The four things that can happen to the key and to the tickets.
Opens(r) == /\ counter = 0 /\ counter' = 1
            /\ window < MaxWindows /\ window' = window + 1
            /\ Draw(r, window + 1, 1)
Joins(r) == /\ counter # 0 /\ counter' = counter + 1
            /\ UNCHANGED window
            /\ Draw(r, window, counter + 1)
Stays == UNCHANGED <<counter, window, ticket>>
Goes == counter' = 0 /\ UNCHANGED <<window, ticket>>

-----------------------------------------------------------------------------
\* Initially there is no counter, and no request has drawn a count.
LEMMA InitIInv == Init => IInv
<1> SUFFICES ASSUME Init PROVE IInv
  OBVIOUS
<1>1. TypeOK
  <2>1. pc \in [Requests -> {"set", "incr", "ttl", "expire"} \cup Decided]
    BY DEF Init
  <2>2. ticket \in [Requests -> [window : 0 .. MaxWindows, count : Nat]]
    BY LimitsAssumption DEF Init
  <2>3. armed \in BOOLEAN /\ dropped \in BOOLEAN
    BY DEF Init
  <2>4. counter \in Nat /\ window \in 0 .. MaxWindows /\ faults \in 0 .. MaxFaults
    BY LimitsAssumption DEF Init
  <2> QED
    BY <2>1, <2>2, <2>3, <2>4 DEF TypeOK
<1>2. \A r \in Requests : ticket[r].window = 0 /\ pc[r] = "set"
  BY DEF Init
<1>3. Placed /\ Ruled
  BY <1>2 DEF Init, Placed, Ruled
<1>4. Book
  BY <1>2 DEF Init, Book, Newest, Distinct, Dense
<1> QED
  BY <1>1, <1>3, <1>4 DEF IInv

\* A request that has drawn nothing yet takes the first count of a new life.
LEMMA OpensKeepsBook ==
  ASSUME TypeOK, Placed, Book, NEW r \in Requests, ticket[r].window = 0, Opens(r)
  PROVE  /\ Book'
         /\ ticket'[r].window = window' /\ ticket'[r].count = 1
         /\ \A q \in Requests : q # r => ticket'[q] = ticket[q]
         /\ window' >= 1 /\ window' >= window
         /\ window' \in 0 .. MaxWindows
         /\ ticket' \in [Requests -> [window : 0 .. MaxWindows, count : Nat]]
<1>1. /\ window \in Nat /\ window' = window + 1 /\ window' \in 0 .. MaxWindows
      /\ counter' = 1 /\ MaxWindows \in Nat
  BY LimitsAssumption DEF Opens, TypeOK
<1>2. /\ ticket' = [ticket EXCEPT ![r] = [window |-> window + 1, count |-> 1]]
      /\ ticket \in [Requests -> [window : 0 .. MaxWindows, count : Nat]]
  BY DEF Opens, Draw, TypeOK
<1>3. /\ ticket'[r].window = window + 1 /\ ticket'[r].count = 1
      /\ \A q \in Requests : q # r => ticket'[q] = ticket[q]
  BY <1>2
<1>4. \A q \in Requests : ticket[q].window <= window /\ ticket[q].window \in Nat
                          /\ ticket[q].count \in Nat
  BY <1>2, LimitsAssumption DEF Placed
<1>5. ticket' \in [Requests -> [window : 0 .. MaxWindows, count : Nat]]
  BY <1>1, <1>2
<1>6. Newest'
  BY <1>1, <1>3, <1>4 DEF Newest
<1>7. Distinct'
  BY <1>1, <1>3, <1>4 DEF Book, Distinct
<1>8. Dense'
  <2> SUFFICES ASSUME NEW p \in Requests, ticket'[p].window >= 1
               PROVE  /\ ticket'[p].count >= 1
                      /\ \A k \in 1 .. ticket'[p].count :
                           \E q \in Requests :
                             ticket'[q].window = ticket'[p].window /\ ticket'[q].count = k
    BY DEF Dense
  <2>1. CASE p = r
    BY <2>1, <1>3
  <2>2. CASE p # r
    BY <2>2, <1>3, <1>4 DEF Book, Dense
  <2> QED
    BY <2>1, <2>2
<1> QED
  BY <1>1, <1>3, <1>5, <1>6, <1>7, <1>8 DEF Book

\* A request that has drawn nothing yet takes the next count of the present life.
LEMMA JoinsKeepsBook ==
  ASSUME TypeOK, Placed, Book, NEW r \in Requests, ticket[r].window = 0, Joins(r)
  PROVE  /\ Book'
         /\ ticket'[r].window = window' /\ ticket'[r].count = counter'
         /\ \A q \in Requests : q # r => ticket'[q] = ticket[q]
         /\ window' >= 1 /\ window' >= window
         /\ window' \in 0 .. MaxWindows
         /\ ticket' \in [Requests -> [window : 0 .. MaxWindows, count : Nat]]
<1>1. /\ window \in 0 .. MaxWindows /\ window' = window /\ window \in Nat /\ window >= 1
      /\ counter \in Nat /\ counter # 0 /\ counter' = counter + 1
  BY LimitsAssumption DEF Joins, TypeOK, Book, Newest
<1>2. /\ ticket' = [ticket EXCEPT ![r] = [window |-> window, count |-> counter + 1]]
      /\ ticket \in [Requests -> [window : 0 .. MaxWindows, count : Nat]]
  BY DEF Joins, Draw, TypeOK
<1>3. /\ ticket'[r].window = window /\ ticket'[r].count = counter + 1
      /\ \A q \in Requests : q # r => ticket'[q] = ticket[q]
  BY <1>2
<1>4. \A q \in Requests : /\ ticket[q].window <= window /\ ticket[q].window \in Nat
                          /\ ticket[q].count \in Nat
                          /\ ticket[q].window = window => ticket[q].count <= counter
  BY <1>1, <1>2, LimitsAssumption DEF Placed, Book, Newest
<1>5. ticket' \in [Requests -> [window : 0 .. MaxWindows, count : Nat]]
  BY <1>1, <1>2
<1>6. Newest'
  BY <1>1, <1>3, <1>4 DEF Newest
<1>7. Distinct'
  BY <1>1, <1>3, <1>4 DEF Book, Distinct
<1>8. Dense'
  <2> SUFFICES ASSUME NEW p \in Requests, ticket'[p].window >= 1
               PROVE  /\ ticket'[p].count >= 1
                      /\ \A k \in 1 .. ticket'[p].count :
                           \E q \in Requests :
                             ticket'[q].window = ticket'[p].window /\ ticket'[q].count = k
    BY DEF Dense
  <2>1. CASE p = r
    <3>1. PICK last \in Requests : ticket[last].window = window /\ ticket[last].count = counter
      BY <1>1 DEF Book, Newest
    <3>2. ASSUME NEW k \in 1 .. counter
          PROVE  \E q \in Requests : ticket'[q].window = window /\ ticket'[q].count = k
      <4>1. PICK q \in Requests : ticket[q].window = window /\ ticket[q].count = k
        BY <3>1, <1>1 DEF Book, Dense
      <4> QED
        BY <4>1, <1>1, <1>3
    <3>3. \A k \in 1 .. counter + 1 : k = counter + 1 \/ k \in 1 .. counter
      BY <1>1
    <3> QED
      BY <2>1, <3>2, <3>3, <1>1, <1>3
  <2>2. CASE p # r
    BY <2>2, <1>3, <1>4 DEF Book, Dense
  <2> QED
    BY <2>1, <2>2
<1> QED
  BY <1>1, <1>3, <1>5, <1>6, <1>7, <1>8 DEF Book

\* Nothing of the book depends on the expiry, or on a key that is gone.
LEMMA OthersKeepBook ==
  ASSUME Book, Stays \/ Goes
  PROVE  Book'
<1>1. UNCHANGED <<window, ticket>> /\ (counter' = counter \/ counter' = 0)
  BY DEF Stays, Goes
<1>2. Newest'
  BY <1>1 DEF Book, Newest
<1>3. Distinct' /\ Dense'
  BY <1>1 DEF Book, Distinct, Dense
<1> QED
  BY <1>2, <1>3 DEF Book

\* A command that counts request r either opens a life of the key or joins it.
LEMMA CountIsADraw ==
  ASSUME TypeOK, NEW r \in Requests, StartWindow(r) \/ Count(r)
  PROVE  /\ Opens(r) \/ Joins(r)
         /\ armed' \in BOOLEAN
<1>1. CASE StartWindow(r)
  BY <1>1 DEF StartWindow, Opens
<1>2. CASE Count(r)
  <2>1. CASE counter = 0 /\ window < MaxWindows /\ window' = window + 1 /\ armed' = FALSE
    <3>1. counter' = 1 /\ Draw(r, window + 1, 1)
      BY <1>2, <2>1 DEF Count
    <3> QED
      BY <2>1, <3>1 DEF Opens
  <2>2. CASE counter # 0 /\ UNCHANGED <<window, armed>>
    <3>1. Joins(r)
      BY <1>2, <2>2 DEF Count, Joins
    <3> QED
      BY <2>2, <3>1 DEF TypeOK
  <2> QED
    BY <1>2, <2>1, <2>2 DEF Count
<1> QED
  BY <1>1, <1>2

\* What every draw keeps.
LEMMA DrawKeeps ==
  ASSUME TypeOK, Placed, Book, NEW r \in Requests, ticket[r].window = 0,
         StartWindow(r) \/ Count(r)
  PROVE  /\ Book'
         /\ ticket'[r].window = window'
         /\ ticket'[r].count = counter' /\ counter' \in Nat
         /\ \A q \in Requests : q # r => ticket'[q] = ticket[q]
         /\ window' >= 1 /\ window' >= window
         /\ window' \in 0 .. MaxWindows /\ armed' \in BOOLEAN
         /\ ticket' \in [Requests -> [window : 0 .. MaxWindows, count : Nat]]
<1>1. CASE Opens(r)
  <2>1. counter' = 1
    BY <1>1 DEF Opens
  <2> QED
    BY <1>1, <2>1, CountIsADraw, OpensKeepsBook
<1>2. CASE Joins(r)
  <2>1. counter' \in Nat
    BY <1>2 DEF Joins, TypeOK
  <2> QED
    BY <1>2, <2>1, CountIsADraw, JoinsKeepsBook
<1> QED
  BY <1>1, <1>2, CountIsADraw

-----------------------------------------------------------------------------
(***************************************************************************)
(* The step.  A step of request r moves it to a place its ticket allows,   *)
(* and either draws a ticket for it or leaves all tickets alone.           *)
(***************************************************************************)
Places == {"set", "incr", "ttl", "expire"} \cup Decided

\* The places a request with ticket t may be at.
Allows(t, place) ==
  /\ place \in {"set", "incr"} => t.window = 0
  /\ place \in {"ttl", "expire", "allowed", "limited"} => t.window >= 1
  /\ place = "allowed" => t.count <= MaxRequests
  /\ place = "limited" => t.count > MaxRequests

\* A move of one request keeps IInv: it leaves the counts alone, or draws its only one.
LEMMA MoveKeepsInv ==
  ASSUME IInv, NEW r \in Requests, NEW place \in Places, Goto(r, place),
         faults' \in 0 .. MaxFaults, dropped' \in BOOLEAN,
         \/ Stays /\ armed' \in BOOLEAN
         \/ ticket[r].window = 0 /\ (StartWindow(r) \/ Count(r)),
         Allows(ticket'[r], place)
  PROVE  IInv'
<1>1. pc' \in [Requests -> Places] /\ pc'[r] = place
      /\ \A q \in Requests : q # r => pc'[q] = pc[q]
  BY DEF IInv, TypeOK, Goto, Places
<1>2. /\ Book'
      /\ \A q \in Requests : q # r => ticket'[q] = ticket[q]
      /\ window' >= window
      /\ ticket'[r].window <= window'
      /\ counter' \in Nat /\ window' \in 0 .. MaxWindows /\ armed' \in BOOLEAN
      /\ ticket' \in [Requests -> [window : 0 .. MaxWindows, count : Nat]]
  <2>1. CASE Stays /\ armed' \in BOOLEAN
    <3>1. Book'
      BY <2>1, OthersKeepBook DEF IInv
    <3> QED
      BY <2>1, <3>1, LimitsAssumption DEF Stays, IInv, TypeOK, Placed
  <2>2. CASE ticket[r].window = 0 /\ (StartWindow(r) \/ Count(r))
    <3>1. window' \in Nat
      BY <2>2, DrawKeeps, LimitsAssumption DEF IInv
    <3> QED
      BY <2>2, <3>1, DrawKeeps DEF IInv
  <2> QED
    BY <2>1, <2>2
<1>3. TypeOK'
  BY <1>1, <1>2 DEF TypeOK, Places
<1>4. Placed'
  <2> SUFFICES ASSUME NEW q \in Requests
               PROVE  /\ ticket'[q].window <= window'
                      /\ pc'[q] \in {"set", "incr"} => ticket'[q].window = 0
                      /\ pc'[q] \in {"ttl", "expire", "allowed", "limited"}
                           => ticket'[q].window >= 1
    BY DEF Placed
  <2>1. CASE q = r
    BY <2>1, <1>1, <1>2 DEF Allows
  <2>2. CASE q # r
    <3>1. ticket[q].window <= window /\ ticket[q].window \in Nat
          /\ window \in Nat /\ window' \in Nat
      BY <1>2, LimitsAssumption DEF IInv, Placed, TypeOK
    <3>2. ticket'[q].window <= window'
      BY <2>2, <3>1, <1>2
    <3> QED
      BY <2>2, <3>2, <1>1, <1>2 DEF IInv, Placed
  <2> QED
    BY <2>1, <2>2
<1>5. Ruled'
  BY <1>1, <1>2 DEF IInv, Ruled, Allows
<1> QED
  BY <1>2, <1>3, <1>4, <1>5 DEF IInv

\* The verdict agrees with the count it is reached for.
LEMMA VerdictAllowed ==
  ASSUME NEW t, t.window >= 1, t.count \in Nat
  PROVE  Verdict(t.count) \in Places /\ Allows(t, Verdict(t.count))
BY LimitsAssumption DEF Verdict, Places, Decided, Allows

\* A command whose reply is lost changes what the command changes, or nothing.
LEMMA TornIsAMove ==
  ASSUME IInv, NEW r \in Requests, pc[r] \notin Decided, Torn(r), Fault
  PROVE  /\ faults' \in 0 .. MaxFaults /\ dropped' \in BOOLEAN
         /\ \/ Stays /\ armed' \in BOOLEAN
            \/ ticket[r].window = 0 /\ (StartWindow(r) \/ Count(r))
<1>1. faults' \in 0 .. MaxFaults /\ dropped' \in BOOLEAN
  BY LimitsAssumption DEF Fault, IInv, TypeOK
<1>2. pc[r] \in {"set", "incr"} => ticket[r].window = 0
  BY DEF IInv, Placed
<1>3. armed \in BOOLEAN
  BY DEF IInv, TypeOK
<1> QED
  BY <1>1, <1>2, <1>3 DEF Torn, Rearm, Stays

\* IInv is inductive.
LEMMA StepIInv == IInv /\ [Next]_vars => IInv'
<1> SUFFICES ASSUME IInv, [Next]_vars PROVE IInv'
  OBVIOUS
<1> USE DEF Places, Decided
<1>1. ASSUME NEW r \in Requests, SetNx(r) PROVE IInv'
  <2>1. ticket[r].window = 0 /\ faults' \in 0 .. MaxFaults
    BY <1>1 DEF SetNx, IInv, Placed, TypeOK
  <2>2. CASE StartWindow(r) /\ Goto(r, Verdict(1)) /\ dropped' = FALSE
    <3>1. ticket'[r].window >= 1 /\ ticket'[r].count = 1
      <4>1. counter' = 1
        BY <2>2 DEF StartWindow
      <4> QED
        BY <4>1, <2>1, <2>2, DrawKeeps DEF IInv
    <3>2. Verdict(1) \in Places /\ Allows(ticket'[r], Verdict(1))
      BY <3>1, VerdictAllowed
    <3> QED
      BY <2>1, <2>2, <3>2, MoveKeepsInv
  <2>3. CASE counter # 0 /\ Goto(r, "incr") /\ UNCHANGED <<counter, armed, window, ticket, dropped>>
    <3>1. Stays /\ armed' \in BOOLEAN /\ dropped' \in BOOLEAN
      BY <2>3 DEF Stays, IInv, TypeOK
    <3>2. Allows(ticket'[r], "incr")
      BY <2>1, <2>3 DEF Allows
    <3> QED
      BY <2>1, <2>3, <3>1, <3>2, MoveKeepsInv
  <2> QED
    BY <1>1, <2>2, <2>3 DEF SetNx
<1>2. ASSUME NEW r \in Requests, Incr(r) PROVE IInv'
  <2>1. /\ ticket[r].window = 0 /\ faults' \in 0 .. MaxFaults /\ Count(r) /\ Goto(r, "ttl")
        /\ dropped' \in BOOLEAN
    BY <1>2 DEF Incr, IInv, Placed, TypeOK
  <2>2. ticket'[r].window >= 1
    BY <2>1, DrawKeeps DEF IInv
  <2>3. Allows(ticket'[r], "ttl")
    BY <2>2 DEF Allows
  <2> QED
    BY <2>1, <2>3, MoveKeepsInv
<1>3. ASSUME NEW r \in Requests, Ttl(r) \/ Expire(r) PROVE IInv'
  <2>1. /\ Stays /\ armed' \in BOOLEAN /\ faults' \in 0 .. MaxFaults /\ dropped' \in BOOLEAN
        /\ Goto(r, "expire") \/ Goto(r, Verdict(ticket[r].count))
    BY <1>3 DEF Ttl, Expire, Rearm, Stays, IInv, TypeOK
  <2>2. ticket[r].window >= 1 /\ ticket[r].count \in Nat /\ ticket'[r] = ticket[r]
    BY <1>3, <2>1 DEF Ttl, Expire, IInv, Placed, TypeOK, Stays
  <2>3. Allows(ticket'[r], "expire")
    BY <2>2 DEF Allows
  <2>4. Verdict(ticket[r].count) \in Places /\ Allows(ticket'[r], Verdict(ticket[r].count))
    BY <2>2, VerdictAllowed
  <2> QED
    BY <2>1, <2>3, <2>4, MoveKeepsInv
<1>4. ASSUME NEW r \in Requests, Fail(r) \/ Kill(r) PROVE IInv'
  <2>1. /\ pc[r] \notin Decided /\ Torn(r) /\ Fault
        /\ \E place \in {"unavailable", "failed_open", "killed"} : Goto(r, place)
    BY <1>4 DEF Fail, Kill
  <2>2. PICK place \in {"unavailable", "failed_open", "killed"} : Goto(r, place)
    BY <2>1
  <2>3. Allows(ticket'[r], place) /\ place \in Places
    BY DEF Allows
  <2>4. /\ faults' \in 0 .. MaxFaults /\ dropped' \in BOOLEAN
        /\ \/ Stays /\ armed' \in BOOLEAN
           \/ ticket[r].window = 0 /\ (StartWindow(r) \/ Count(r))
    BY <2>1, TornIsAMove
  <2> QED
    BY <2>2, <2>3, <2>4, MoveKeepsInv
<1>5. CASE LoseExpiry \/ WindowEnds \/ UNCHANGED vars
  <2>1. (Stays \/ Goes) /\ UNCHANGED <<window, pc, ticket>>
    BY <1>5 DEF LoseExpiry, WindowEnds, vars, Stays, Goes
  <2>2. Book'
    BY <2>1, OthersKeepBook DEF IInv
  <2>3. TypeOK'
    <3>1. counter' \in Nat /\ faults' \in 0 .. MaxFaults
      BY <1>5, LimitsAssumption DEF LoseExpiry, WindowEnds, vars, Fault, IInv, TypeOK
    <3>2. armed' \in BOOLEAN /\ dropped' \in BOOLEAN
      BY <1>5 DEF LoseExpiry, WindowEnds, vars, Fault, IInv, TypeOK
    <3> QED
      BY <2>1, <3>1, <3>2 DEF IInv, TypeOK
  <2>4. Placed' /\ Ruled'
    BY <2>1 DEF IInv, Placed, Ruled
  <2> QED
    BY <2>2, <2>3, <2>4 DEF IInv
<1> QED
  BY <1>1, <1>2, <1>3, <1>4, <1>5 DEF Next, Check

\* IInv holds in every reachable state.
LEMMA AlwaysIInv == Spec => []IInv
BY InitIInv, StepIInv, PTL DEF Spec

-----------------------------------------------------------------------------
(***************************************************************************)
(* The theorems.                                                           *)
(***************************************************************************)
\* The limiter of app/api/deps.py keeps its variables within their types.
THEOREM TypeCorrect == Spec => []TypeOK
<1>1. IInv => TypeOK
  BY DEF IInv
<1> QED
  BY <1>1, AlwaysIInv, PTL

\* SET NX, INCR, TTL and EXPIRE, interleaved in any way with each other, with expiries and
\* with faults, never let more than RATE_LIMIT_REQUESTS requests of one life of the key
\* pass: their counts are distinct numbers up to the limit.
THEOREM NoRequestBeyondTheLimit == Spec => []NoOverAdmission
<1>1. ASSUME IInv PROVE NoOverAdmission
  <2> SUFFICES ASSUME NEW w \in 1 .. MaxWindows
               PROVE  Cardinality({r \in Drawn(w) : pc[r] = "allowed"}) <= MaxRequests
    BY DEF NoOverAdmission
  <2> DEFINE S == {r \in Drawn(w) : pc[r] = "allowed"}
             f == [r \in S |-> ticket[r].count]
  <2>1. \A r \in S : r \in Requests /\ ticket[r].window = w /\ pc[r] = "allowed"
    BY DEF Drawn
  <2>2. w >= 1 /\ MaxRequests \in Nat
    BY LimitsAssumption
  <2>3. \A r \in S : ticket[r].count \in 1 .. MaxRequests
    BY <1>1, <2>1, <2>2 DEF IInv, TypeOK, Book, Dense, Ruled
  <2>4. \A q, r \in S : ticket[q].count = ticket[r].count => q = r
    BY <1>1, <2>1, <2>2 DEF IInv, Book, Distinct
  <2>5. f \in Injection(S, 1 .. MaxRequests)
    <3>1. f \in [S -> 1 .. MaxRequests]
      BY <2>3
    <3>2. \A q, r \in S : f[q] = f[r] => q = r
      BY <2>4
    <3> QED
      BY <3>1, <3>2 DEF Injection, IsInjective
  <2> HIDE DEF S, f
  <2>6. IsFiniteSet(1 .. MaxRequests) /\ Cardinality(1 .. MaxRequests) = MaxRequests
    BY <2>2, FS_Interval
  <2>7. Cardinality(S) <= MaxRequests
    BY <2>5, <2>6, FS_Injection
  <2> QED
    BY <2>7 DEF S
<1> QED
  BY <1>1, AlwaysIInv, PTL

\* No request is refused early: below the count of a refused request every count of its
\* window was drawn by some request, so more requests than the limit were counted.
THEOREM NoRequestRefusedEarly == Spec => []NoEarlyRefusal
<1>1. ASSUME IInv PROVE NoEarlyRefusal
  <2> SUFFICES ASSUME NEW r \in Requests, pc[r] = "limited"
               PROVE  Cardinality(Drawn(ticket[r].window)) > MaxRequests
    BY DEF NoEarlyRefusal
  <2> DEFINE w == ticket[r].window
             n == ticket[r].count
             who == [k \in 1 .. n |-> CHOOSE q \in Requests :
                                        ticket[q].window = w /\ ticket[q].count = k]
  <2>1. w >= 1 /\ n \in Nat /\ n > MaxRequests /\ MaxRequests \in Nat
    BY <1>1, LimitsAssumption DEF IInv, TypeOK, Placed, Ruled
  <2>2. \A k \in 1 .. n : /\ who[k] \in Requests
                          /\ ticket[who[k]].window = w /\ ticket[who[k]].count = k
    BY <1>1, <2>1 DEF IInv, Book, Dense
  <2>3. who \in Injection(1 .. n, Drawn(w))
    <3>1. who \in [1 .. n -> Drawn(w)]
      BY <2>2 DEF Drawn
    <3>2. \A j, k \in 1 .. n : who[j] = who[k] => j = k
      BY <2>2
    <3> QED
      BY <3>1, <3>2 DEF Injection, IsInjective
  <2> HIDE DEF who
  <2>4. IsFiniteSet(Drawn(w)) /\ Cardinality(Drawn(w)) \in Nat
    BY RequestsAssumption, FS_Subset, FS_CardinalityType DEF Drawn
  <2>5. Cardinality(1 .. n) = n
    BY <2>1, FS_Interval
  <2>6. Cardinality(1 .. n) <= Cardinality(Drawn(w))
    BY <2>3, <2>4, FS_Injection
  <2>7. Cardinality(Drawn(w)) > MaxRequests
    BY <2>1, <2>4, <2>5, <2>6
  <2> QED
    BY <2>7
<1> QED
  BY <1>1, AlwaysIInv, PTL

\* The TTL guard leaves no counter without an expiry and without a request that will
\* re-arm it, faults apart.
THEOREM CounterIsTended == Spec => []Tended
<1>1. Init => Tended
  BY DEF Init, Tended
<1>2. ASSUME IInv, Tended, [Next]_vars PROVE Tended'
  <2>1. ASSUME NEW r \in Requests, SetNx(r) PROVE Tended'
    BY <1>2, <2>1 DEF SetNx, StartWindow, Tended, IInv, TypeOK, Goto
  <2>2. ASSUME NEW r \in Requests, Incr(r) PROVE Tended'
    BY <1>2, <2>2 DEF Incr, Tended, IInv, TypeOK, Goto
  <2>3. ASSUME NEW r \in Requests, Ttl(r) PROVE Tended'
    BY <1>2, <2>3 DEF Ttl, Tended, IInv, TypeOK, Goto
  <2>4. ASSUME NEW r \in Requests, Expire(r) PROVE Tended'
    BY <1>2, <2>4 DEF Expire, Rearm, Tended, IInv, TypeOK, Goto
  <2>5. ASSUME NEW r \in Requests, Fail(r) \/ Kill(r) PROVE Tended'
    BY <2>5 DEF Fail, Kill, Fault, Tended
  <2>6. CASE LoseExpiry
    BY <2>6 DEF LoseExpiry, Fault, Tended
  <2>7. CASE WindowEnds
    BY <2>7 DEF WindowEnds, Tended
  <2>8. CASE UNCHANGED vars
    BY <1>2, <2>8 DEF vars, Tended
  <2> QED
    BY <1>2, <2>1, <2>2, <2>3, <2>4, <2>5, <2>6, <2>7, <2>8 DEF Next, Check
<1> QED
  BY <1>1, <1>2, AlwaysIInv, PTL DEF Spec

-----------------------------------------------------------------------------
(***************************************************************************)
(* The refinement.  The step of RequestQuota in which a request asks is    *)
(* the command that draws its count, SET NX or INCR, also when its reply   *)
(* is lost; the one in which it is answered is the command after which it  *)
(* has its verdict, or the failure.                                        *)
(***************************************************************************)
\* A request that drew no count has none.
Unticketed == \A r \in Requests : ticket[r].window = 0 => ticket[r].count = 0

QInv == IInv /\ Unticketed

\* The seats taken are the counts drawn in the present life of the key, up to the limit.
LEMMA SeatsTaken ==
  ASSUME IInv
  PROVE  Cardinality(Seated) = IF counter <= MaxRequests THEN counter ELSE MaxRequests
<1> DEFINE n == IF counter <= MaxRequests THEN counter ELSE MaxRequests
           f == [r \in Seated |-> ticket[r].count]
<1>1. counter \in Nat /\ MaxRequests \in Nat /\ n \in Nat
  BY LimitsAssumption DEF IInv, TypeOK
<1>2. \A r \in Seated : /\ r \in Requests /\ counter # 0
                        /\ ticket[r].window = window /\ ticket[r].count \in 1 .. MaxRequests
  BY DEF Seated
<1>3. \A r \in Seated : ticket[r].count \in 1 .. n
  BY <1>1, <1>2 DEF IInv, Book, Newest
<1>4. f \in Injection(Seated, 1 .. n)
  <2>1. f \in [Seated -> 1 .. n]
    BY <1>3
  <2>2. \A q, r \in Seated : ticket[q].count = ticket[r].count => q = r
    <3>1. counter # 0 => window >= 1
      BY DEF IInv, Book, Newest
    <3> QED
      BY <1>2, <3>1 DEF IInv, Book, Distinct
  <2> QED
    BY <2>1, <2>2 DEF Injection, IsInjective
<1>5. f \in Surjection(Seated, 1 .. n)
  <2>1. ASSUME NEW k \in 1 .. n PROVE \E r \in Seated : f[r] = k
    <3>1. counter # 0 /\ k \in 1 .. counter /\ k \in 1 .. MaxRequests
      BY <1>1
    <3>2. PICK p \in Requests : ticket[p].window = window /\ ticket[p].count = counter
      BY <3>1 DEF IInv, Book, Newest
    <3>3. ticket[p].window >= 1
      BY <3>1, <3>2 DEF IInv, Book, Newest
    <3>4. PICK q \in Requests : ticket[q].window = window /\ ticket[q].count = k
      BY <3>1, <3>2, <3>3 DEF IInv, Book, Dense
    <3>5. q \in Seated
      BY <3>1, <3>4 DEF Seated
    <3> QED
      BY <3>4, <3>5
  <2>2. f \in [Seated -> 1 .. n]
    BY <1>3
  <2> QED
    BY <2>1, <2>2 DEF Surjection
<1>6. IsFiniteSet(1 .. n) /\ Cardinality(1 .. n) = n
  BY <1>1, FS_Interval
<1> HIDE DEF f
<1>7. Cardinality(Seated) = Cardinality(1 .. n)
  BY <1>4, <1>5, <1>6, FS_Injection
<1> QED
  BY <1>6, <1>7

\* RequestQuota counts its seats with the Cardinality of its own import of FiniteSets.
LEMMA SameSize == \A S : Quota!Cardinality(S) = Cardinality(S)
BY DEF Quota!Cardinality, Cardinality

\* The command that draws the count of a request is where it asks.
LEMMA DrawAsks ==
  ASSUME QInv, NEW r \in Requests, ticket[r].window = 0, StartWindow(r) \/ Count(r)
  PROVE  Quota!Ask(r)
<1>1. /\ ticket[r].count = 0 /\ Claim[r] = "none"
  BY DEF QInv, Unticketed, Claim
<1>2. /\ counter \in Nat /\ MaxRequests \in Nat /\ counter' = counter + 1
      /\ Opens(r) \/ Joins(r)
  BY CountIsADraw, LimitsAssumption DEF QInv, IInv, TypeOK, Opens, Joins
<1>3. /\ ticket'[r].window = window' /\ ticket'[r].count = counter + 1
      /\ \A q \in Requests : q # r => ticket'[q] = ticket[q]
  BY <1>2, DrawKeeps DEF QInv, IInv
<1>4. Claim' = [Claim EXCEPT ![r] = IF counter + 1 <= MaxRequests THEN "seat" ELSE "full"]
  <2>1. Claim'[r] = IF counter + 1 <= MaxRequests THEN "seat" ELSE "full"
    BY <1>2, <1>3 DEF Claim
  <2>2. \A q \in Requests : q # r => Claim'[q] = Claim[q]
    BY <1>3 DEF Claim
  <2> QED
    BY <2>1, <2>2 DEF Claim
<1>5. \A q \in Requests : q # r => (q \in Seated' <=> q \in Seated)
  <2> SUFFICES ASSUME NEW q \in Requests, q # r PROVE q \in Seated' <=> q \in Seated
    OBVIOUS
  <2>1. ticket'[q] = ticket[q] /\ ticket[q].window <= window /\ ticket[q].window \in Nat
        /\ window \in Nat
    BY <1>3, LimitsAssumption DEF QInv, IInv, Placed, TypeOK
  <2>2. CASE Opens(r)
    <3>1. counter = 0 /\ window' = window + 1
      BY <2>2 DEF Opens
    <3> QED
      BY <2>1, <3>1 DEF Seated
  <2>3. CASE Joins(r)
    <3>1. counter # 0 /\ counter' # 0 /\ window' = window
      BY <1>2, <2>3 DEF Joins
    <3> QED
      BY <2>1, <3>1 DEF Seated
  <2> QED
    BY <1>2, <2>2, <2>3
<1>6. r \in Seated' <=> counter + 1 <= MaxRequests
  BY <1>2, <1>3 DEF Seated
<1>7. r \notin Seated /\ Seated \subseteq Requests /\ Seated' \subseteq Requests
  BY <1>1 DEF Seated
<1>8. Cardinality(Seated) = IF counter <= MaxRequests THEN counter ELSE MaxRequests
  BY SeatsTaken DEF QInv
<1>9. CASE counter + 1 <= MaxRequests
  <2>1. Cardinality(Seated) < MaxRequests
    BY <1>2, <1>8, <1>9
  <2>2. Seated' = Seated \cup {r}
    BY <1>5, <1>6, <1>7, <1>9
  <2> QED
    BY <1>1, <1>4, <1>9, <2>1, <2>2, SameSize DEF Quota!Ask
<1>10. CASE ~(counter + 1 <= MaxRequests)
  <2>1. Cardinality(Seated) = MaxRequests
    BY <1>2, <1>8, <1>10
  <2>2. Seated' = Seated
    BY <1>5, <1>6, <1>7, <1>10
  <2> QED
    BY <1>1, <1>4, <1>10, <2>1, <2>2, SameSize DEF Quota!Ask
<1> QED
  BY <1>9, <1>10

\* A request that reaches a verdict, or is failed, is answered by that.
LEMMA GotoReplies ==
  ASSUME TypeOK, NEW r \in Requests, pc[r] \notin Decided, NEW place \in Decided,
         Goto(r, place), place \in Quota!Answers(Claim'[r])
  PROVE  Quota!Reply(r)
<1>1. pc' = [pc EXCEPT ![r] = place] /\ pc'[r] = place
      /\ \A q \in Requests : q # r => pc'[q] = pc[q]
  BY DEF Goto, TypeOK
<1>2. Answer' = [Answer EXCEPT ![r] = place]
  <2>1. Answer'[r] = place /\ \A q \in Requests : q # r => Answer'[q] = Answer[q]
    BY <1>1 DEF Answer
  <2> QED
    BY <2>1 DEF Answer
<1>3. Answer[r] = "none"
  BY DEF Answer
<1> QED
  BY <1>2, <1>3 DEF Quota!Reply

\* A request that goes on to another command is not answered.
LEMMA GotoWaits ==
  ASSUME TypeOK, NEW r \in Requests, pc[r] \notin Decided, NEW place, place \notin Decided,
         Goto(r, place)
  PROVE  Answer' = Answer
<1>1. pc'[r] = place /\ \A q \in Requests : q # r => pc'[q] = pc[q]
  BY DEF Goto, TypeOK
<1> QED
  BY <1>1 DEF Answer

\* Leaving the counts alone leaves seats and claims alone.
LEMMA StaysKeepsSeats == Stays => Seated' = Seated /\ Claim' = Claim
BY DEF Stays, Seated, Claim

\* The verdict on the count of a request is the answer to its claim.
LEMMA VerdictAnswers ==
  ASSUME NEW r \in Requests, ticket[r].count \in Nat, ticket[r].count >= 1
  PROVE  /\ Verdict(ticket[r].count) \in Decided
         /\ Verdict(ticket[r].count) \in Quota!Answers(Claim[r])
<1>1. CASE ticket[r].count <= MaxRequests
  BY <1>1 DEF Verdict, Decided, Claim, Quota!Answers
<1>2. CASE ~(ticket[r].count <= MaxRequests)
  BY <1>2 DEF Verdict, Decided, Claim, Quota!Answers
<1> QED
  BY <1>1, <1>2

\* Every step of the limiter is a step of the quota, or none.
LEMMA StepQuota == QInv /\ QInv' /\ [Next]_vars => [Quota!Next]_<<Seated, Claim, Answer>>
<1> SUFFICES ASSUME QInv, QInv', [Next]_vars
             PROVE  Quota!Next \/ UNCHANGED <<Seated, Claim, Answer>>
  OBVIOUS
<1>0. TypeOK /\ TypeOK'
  BY DEF QInv, IInv
<1>1. ASSUME NEW r \in Requests, SetNx(r)
      PROVE  Quota!Step(r) \/ UNCHANGED <<Seated, Claim, Answer>>
  <2>1. pc[r] \notin Decided /\ ticket[r].window = 0 /\ Answer[r] = "none"
    BY <1>1 DEF SetNx, Decided, Answer, QInv, IInv, Placed
  <2>2. CASE StartWindow(r) /\ Goto(r, Verdict(1))
    <3>1. ticket'[r].count = 1
      <4>1. counter' = 1
        BY <2>2 DEF StartWindow
      <4> QED
        BY <4>1, <2>1, <2>2, DrawKeeps DEF QInv, IInv
    <3>2. Verdict(1) \in Decided /\ Verdict(1) \in Quota!Answers(Claim'[r])
      BY <3>1, LimitsAssumption DEF Verdict, Decided, Claim, Quota!Answers
    <3>3. Quota!Reply(r)
      BY <1>0, <2>1, <2>2, <3>2, GotoReplies
    <3> QED
      BY <2>1, <2>2, <3>3, DrawAsks DEF Quota!Step
  <2>3. CASE Goto(r, "incr") /\ UNCHANGED <<counter, window, ticket>>
    <3>1. "incr" \notin Decided /\ Stays
      BY <2>3 DEF Decided, Stays
    <3> QED
      BY <1>0, <2>1, <2>3, <3>1, GotoWaits, StaysKeepsSeats
  <2> QED
    BY <1>1, <2>2, <2>3 DEF SetNx
<1>2. ASSUME NEW r \in Requests, Incr(r) PROVE Quota!Step(r)
  <2>1. /\ pc[r] \notin Decided /\ ticket[r].window = 0 /\ Answer[r] = "none"
        /\ Count(r) /\ Goto(r, "ttl") /\ "ttl" \notin Decided
    BY <1>2 DEF Incr, Decided, Answer, QInv, IInv, Placed
  <2>2. Answer' = Answer
    BY <1>0, <2>1, GotoWaits
  <2> QED
    BY <2>1, <2>2, DrawAsks DEF Quota!Step
<1>3. ASSUME NEW r \in Requests, Ttl(r) \/ Expire(r)
      PROVE  Quota!Step(r) \/ UNCHANGED <<Seated, Claim, Answer>>
  <2>1. /\ pc[r] \notin Decided /\ Answer[r] = "none" /\ Stays
        /\ Goto(r, "expire") \/ Goto(r, Verdict(ticket[r].count))
    BY <1>3 DEF Ttl, Expire, Rearm, Stays, Decided, Answer
  <2>2. ticket[r].count \in Nat /\ ticket[r].count >= 1
    <3>1. ticket[r].window >= 1
      BY <1>3 DEF Ttl, Expire, QInv, IInv, Placed
    <3> QED
      BY <3>1, <1>0 DEF QInv, IInv, TypeOK, Book, Dense
  <2>3. CASE Goto(r, "expire")
    <3>1. "expire" \notin Decided
      BY DEF Decided
    <3> QED
      BY <1>0, <2>1, <2>3, <3>1, GotoWaits, StaysKeepsSeats
  <2>4. CASE Goto(r, Verdict(ticket[r].count))
    <3>1. Verdict(ticket[r].count) \in Decided
          /\ Verdict(ticket[r].count) \in Quota!Answers(Claim'[r])
      BY <2>1, <2>2, VerdictAnswers, StaysKeepsSeats
    <3>2. Quota!Reply(r)
      BY <1>0, <2>1, <2>4, <3>1, GotoReplies
    <3> QED
      BY <2>1, <3>2, StaysKeepsSeats DEF Quota!Step
  <2> QED
    BY <2>1, <2>3, <2>4
<1>4. ASSUME NEW r \in Requests, Fail(r) \/ Kill(r) PROVE Quota!Step(r)
  <2> DEFINE Failures == {IF FailClosed THEN "unavailable" ELSE "failed_open", "killed"}
  <2>1. /\ pc[r] \notin Decided /\ Answer[r] = "none" /\ Torn(r) /\ Fault
        /\ \E place \in Failures : Goto(r, place)
    BY <1>4 DEF Fail, Kill, Answer
  <2>2. PICK place \in Failures : Goto(r, place)
    BY <2>1
  <2>3. place \in Decided /\ place \in Quota!Answers(Claim'[r])
    BY LimitsAssumption DEF Decided, Quota!Answers
  <2>4. Quota!Reply(r)
    BY <1>0, <2>1, <2>2, <2>3, GotoReplies
  <2>5. Stays \/ (ticket[r].window = 0 /\ (StartWindow(r) \/ Count(r)))
    BY <2>1, TornIsAMove DEF QInv
  <2> QED
    BY <2>1, <2>4, <2>5, DrawAsks, StaysKeepsSeats DEF Quota!Step
<1>5. CASE WindowEnds
  <2>1. Seated' = {} /\ Claim' = Claim /\ Answer' = Answer
    BY <1>5 DEF WindowEnds, Seated, Claim, Answer
  <2> QED
    BY <2>1 DEF Quota!Next, Quota!Renew
<1>6. CASE LoseExpiry \/ UNCHANGED vars
  BY <1>6 DEF LoseExpiry, vars, Seated, Claim, Answer
<1> QED
  BY <1>1, <1>2, <1>3, <1>4, <1>5, <1>6 DEF Next, Check, Quota!Next

\* A ticket is drawn with its count, and there is none before it.
LEMMA StepTickets == QInv /\ [Next]_vars => QInv'
<1> SUFFICES ASSUME QInv, [Next]_vars PROVE QInv'
  OBVIOUS
<1>1. IInv'
  BY StepIInv DEF QInv
<1>2. CASE UNCHANGED ticket
  BY <1>1, <1>2 DEF QInv, Unticketed
<1>3. ASSUME NEW r \in Requests, ticket[r].window = 0, StartWindow(r) \/ Count(r) PROVE QInv'
  <2>1. /\ window' >= 1 /\ ticket'[r].window = window' /\ window' \in 0 .. MaxWindows
        /\ \A q \in Requests : q # r => ticket'[q] = ticket[q]
    BY <1>3, DrawKeeps DEF QInv, IInv
  <2> QED
    BY <1>1, <2>1, LimitsAssumption DEF QInv, Unticketed
<1>4. UNCHANGED ticket \/ \E r \in Requests : pc[r] \in {"set", "incr"} /\ (StartWindow(r) \/ Count(r))
  BY DEF Next, vars, Check, SetNx, Incr, Ttl, Expire, Rearm, Fail, Kill, Torn, LoseExpiry, WindowEnds
<1> QED
  BY <1>2, <1>3, <1>4 DEF QInv, IInv, Placed

\* The limiter implements RequestQuota: whatever commands of several requests, expiries and
\* faults do in between, a check has the effect of one step.
THEOREM ImplementsQuota == Spec => ChecksAtomically
<1>1. Init => QInv /\ Quota!Init
  <2>1. Init => Unticketed
    BY DEF Init, Unticketed
  <2>2. Init => Quota!Init
    BY DEF Init, Quota!Init, Seated, Claim, Answer, Decided
  <2> QED
    BY <2>1, <2>2, InitIInv DEF QInv
<1> QED
  BY <1>1, StepTickets, StepQuota, PTL DEF Spec, ChecksAtomically, Quota!Spec, Quota!quota
=============================================================================
