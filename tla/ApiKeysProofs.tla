--------------------------- MODULE ApiKeysProofs ---------------------------
(***************************************************************************)
(* Revocation and rotation of API keys, for any number of requests, any    *)
(* clock and any number of faults.                                         *)
(***************************************************************************)
EXTENDS ApiKeys, TLAPS

\* A request that has yet to insert its key has no row: no insert overwrites a key.
NotYetInserted == \A r \in Requests : request[r].pc \in {"idle", "insert"} => keys[r] = None

\* A rotation that goes on to disable its key, or has done so, has its replacement in.
Replaced ==
  \A r \in Requests : request[r].op = "rotate" /\ request[r].pc \in {"disable", "done"}
    => keys[r] # None

\* What a request does at each place; a rotation or a revocation is of a key that exists.
Roles ==
  \A r \in Requests :
    /\ request[r].pc = "idle" => request[r].op = "none"
    /\ request[r].pc = "disable" => request[r].op \in {"rotate", "revoke"}
    /\ request[r].op \in {"rotate", "revoke"} =>
         request[r].target \in Requests /\ keys[request[r].target] # None
    /\ request[r].pc = "insert" => request[r].op \in {"create", "rotate"}
    /\ request[r].pc = "touch" => request[r].op = "use"

IInv == TypeOK /\ NotYetInserted /\ Replaced /\ Roles
             /\ RevokedStaysOut /\ ReplacedBeforeDisabled

-----------------------------------------------------------------------------
\* The days a rotation passes on are a positive number.
LEMMA RemainingDaysNat ==
  ASSUME NEW expires \in Nat, now \in Nat
  PROVE  RemainingDays(expires) \in Nat
<1>1. Day \in Nat \ {0}
  BY TimesAssumption
<1>2. (expires - now) \div Day + 1 \in Int
  BY <1>1
<1> QED BY <1>2 DEF RemainingDays

\* A fresh key is a row, in service.
LEMMA FreshRow ==
  ASSUME NEW days \in Times, now \in Nat
  PROVE  Fresh(days) \in Rows /\ Fresh(days).enabled /\ Fresh(days) # None
<1>1. days # None => now + days * Day \in Nat
  BY TimesAssumption DEF Times
<1>2. Fresh(days) \in Rows
  BY <1>1 DEF Fresh, Rows, Times
<1>3. Fresh(days).enabled
  BY DEF Fresh
<1> QED BY <1>2, <1>3, RowAssumption

\* Out of service a row is still a row.
LEMMA DisabledRow ==
  ASSUME NEW created \in Nat, NEW expires \in Times, NEW used \in Times
  PROVE  [enabled |-> FALSE, created |-> created, expires |-> expires, used |-> used] \in Rows
BY DEF Rows

\* Initially there is no key and no request.
LEMMA InitInv == ASSUME Init PROVE IInv
<1>1. TypeOK
  BY TimesAssumption DEF Init, TypeOK, Locals, Ops, Places, Final, Times
<1>2. NotYetInserted /\ Replaced /\ Roles
  BY DEF Init, NotYetInserted, Replaced, Roles
<1>3. RevokedStaysOut /\ ReplacedBeforeDisabled
  BY DEF Init, RevokedStaysOut, ReplacedBeforeDisabled, At
<1> QED BY <1>1, <1>2, <1>3 DEF IInv

\* A request that goes on to a place changes its place and nothing else.
LEMMA GotoEffect ==
  ASSUME TypeOK, NEW r \in Requests, NEW place \in Places, Goto(r, place)
  PROVE  /\ request' \in [Requests -> Locals]
         /\ request'[r].pc = place
         /\ request'[r].op = request[r].op /\ request'[r].target = request[r].target
         /\ \A q \in Requests : q # r => request'[q] = request[q]
<1>1. request \in [Requests -> Locals]
  BY DEF TypeOK
<1>2. request' = [request EXCEPT ![r].pc = place]
  BY DEF Goto
<1>3. request'[r] = [request[r] EXCEPT !.pc = place] /\ request[r] \in Locals
  BY <1>1, <1>2
<1>4. /\ request'[r] \in Locals /\ request'[r].pc = place
      /\ request'[r].op = request[r].op /\ request'[r].target = request[r].target
  BY <1>3 DEF Locals
<1>5. \A q \in Requests : q # r => request'[q] = request[q]
  BY <1>1, <1>2
<1> QED BY <1>1, <1>2, <1>4, <1>5

\* A request that begins was idle; it has the operation, place and target it begins with.
LEMMA BeginEffect ==
  ASSUME TypeOK, NEW r \in Requests, NEW op \in Ops, NEW place \in Places,
         NEW target \in Requests \cup {None}, NEW days \in Times,
         Begin(r, op, place, target, days)
  PROVE  /\ request' \in [Requests -> Locals]
         /\ request[r].pc = "idle"
         /\ request'[r].op = op /\ request'[r].pc = place /\ request'[r].target = target
         /\ \A q \in Requests : q # r => request'[q] = request[q]
<1> DEFINE new == [op |-> op, pc |-> place, target |-> target, days |-> days, at |-> now]
<1>1. request \in [Requests -> Locals] /\ now \in Nat
  BY DEF TypeOK
<1>2. request' = [request EXCEPT ![r] = new] /\ request[r].pc = "idle"
  BY DEF Begin, At
<1>3. new \in Locals
  BY <1>1 DEF Locals
<1>4. new.op = op /\ new.pc = place /\ new.target = target
  OBVIOUS
<1> HIDE DEF new
<1>5. request'[r] = new /\ \A q \in Requests : q # r => request'[q] = request[q]
  BY <1>1, <1>2
<1>6. request' \in [Requests -> Locals]
  BY <1>1, <1>2, <1>3
<1> QED BY <1>2, <1>4, <1>5, <1>6

\* A request that reads the database and begins keeps the invariant: it targets a key that
\* exists, unless it creates one.
LEMMA BeginInv ==
  ASSUME IInv, NEW r \in Requests, NEW op \in Ops, NEW place \in Places,
         NEW target \in Requests \cup {None}, NEW days \in Times,
         Begin(r, op, place, target, days), UNCHANGED <<now, keys, faults>>,
         \/ op = "create" /\ place = "insert"
         \/ op = "rotate" /\ place = "insert" /\ target \in Requests /\ keys[target] # None
         \/ op = "revoke" /\ place = "disable" /\ target \in Requests /\ keys[target] # None
         \/ /\ op = "use" /\ place \in {"rejected", "touch", "accepted"}
            /\ target \in Requests /\ keys[target] # None
  PROVE  IInv'
<1>1. TypeOK
  BY DEF IInv
<1>2. /\ request' \in [Requests -> Locals]
      /\ request[r].pc = "idle"
      /\ request'[r].op = op /\ request'[r].pc = place /\ request'[r].target = target
      /\ \A q \in Requests : q # r => request'[q] = request[q]
  BY <1>1, BeginEffect
<1>3. TypeOK'
  BY <1>1, <1>2 DEF TypeOK
<1>4. NotYetInserted'
  BY <1>2 DEF IInv, NotYetInserted
<1>5. Replaced'
  BY <1>2 DEF IInv, Replaced
<1>6. Roles'
  BY <1>2 DEF IInv, Roles
<1>7. RevokedStaysOut'
  BY <1>2 DEF IInv, RevokedStaysOut, At
<1>8. ReplacedBeforeDisabled'
  <2> SUFFICES ASSUME NEW k \in Requests, keys[k] # None, ~keys[k].enabled
               PROVE  \E q \in Requests : /\ request'[q].target = k
                                         /\ \/ request'[q].op = "revoke"
                                            \/ request'[q].op = "rotate" /\ keys[q] # None
    BY DEF ReplacedBeforeDisabled
  <2>1. PICK q \in Requests : /\ request[q].target = k
                              /\ \/ request[q].op = "revoke"
                                 \/ request[q].op = "rotate" /\ keys[q] # None
    BY DEF IInv, ReplacedBeforeDisabled
  <2>2. q # r
    BY <1>2, <2>1 DEF IInv, Roles
  <2> QED BY <1>2, <2>1, <2>2
<1> QED BY <1>3, <1>4, <1>5, <1>6, <1>7, <1>8 DEF IInv

\* A request that ends without a write of its own keeps the invariant: it has neither
\* rotated nor revoked anything.
LEMMA GotoInv ==
  ASSUME IInv, NEW r \in Requests, NEW place, place \in {"error", "killed", "accepted"},
         request[r].pc \in {"insert", "disable", "touch"}, Goto(r, place),
         UNCHANGED <<now, keys>>, faults' \in 0 .. MaxFaults
  PROVE  IInv'
<1>1. TypeOK
  BY DEF IInv
<1>2. place \in Places
  BY DEF Places, Final
<1>3. /\ request' \in [Requests -> Locals]
      /\ request'[r].pc \in {"error", "killed", "accepted"}
      /\ request'[r].op = request[r].op /\ request'[r].target = request[r].target
      /\ \A q \in Requests : q # r => request'[q] = request[q]
  BY <1>1, <1>2, GotoEffect
<1>4. TypeOK'
  BY <1>1, <1>3 DEF TypeOK
<1>5. NotYetInserted'
  BY <1>3 DEF IInv, NotYetInserted
<1>6. Replaced'
  BY <1>3 DEF IInv, Replaced
<1>7. Roles'
  BY <1>3 DEF IInv, Roles
<1>8. RevokedStaysOut'
  BY <1>3 DEF IInv, RevokedStaysOut, At
<1>9. ReplacedBeforeDisabled'
  BY <1>3 DEF IInv, ReplacedBeforeDisabled
<1> QED BY <1>4, <1>5, <1>6, <1>7, <1>8, <1>9 DEF IInv

\* An insert keeps the invariant: it overwrites no key, so none comes back into service.
LEMMA InsertInv ==
  ASSUME IInv, NEW r \in Requests, NEW place, place \in {Inserted(r), "error"},
         request[r].pc = "insert", Goto(r, place), UNCHANGED now, faults' \in 0 .. MaxFaults,
         keys' = [keys EXCEPT ![r] = Fresh(request[r].days)]
  PROVE  IInv'
<1> DEFINE new == Fresh(request[r].days)
<1>1. TypeOK /\ keys[r] = None
  BY DEF IInv, NotYetInserted
<1>2. place \in Places
  BY DEF Places, Final, Inserted
<1>3. /\ request' \in [Requests -> Locals]
      /\ request'[r].pc \in {Inserted(r), "error"}
      /\ request'[r].op = request[r].op /\ request'[r].target = request[r].target
      /\ \A q \in Requests : q # r => request'[q] = request[q]
  BY <1>1, <1>2, GotoEffect
<1>4. new \in Rows /\ new.enabled /\ new # None
  <2>1. request[r].days \in Times /\ now \in Nat
    BY <1>1 DEF TypeOK, Locals
  <2> QED BY <2>1, FreshRow
<1> HIDE DEF new
<1>5. /\ keys' \in [Requests -> Rows \cup {None}]
      /\ keys'[r] = new
      /\ \A q \in Requests : q # r => keys'[q] = keys[q]
  <2>1. keys \in [Requests -> Rows \cup {None}]
    BY <1>1 DEF TypeOK
  <2>2. keys' = [keys EXCEPT ![r] = new]
    BY DEF new
  <2> QED BY <1>4, <2>1, <2>2
<1>6. request'[r].pc \in {"disable", "done", "error"}
  BY <1>3 DEF Inserted
<1>7. TypeOK'
  <2>1. \A q \in Requests : request'[q].pc \in {"disable", "touch"} =>
          request'[q].target \in Requests /\ keys'[request'[q].target] # None
    <3> SUFFICES ASSUME NEW q \in Requests, request'[q].pc \in {"disable", "touch"}
                 PROVE  request'[q].target \in Requests /\ keys'[request'[q].target] # None
      OBVIOUS
    <3>1. request[q].target \in Requests /\ keys[request[q].target] # None
      <4>1. CASE q = r
        <5>1. request[r].op = "rotate"
          BY <1>3, <4>1 DEF Inserted
        <5> QED BY <4>1, <5>1 DEF IInv, Roles
      <4>2. CASE q # r
        BY <1>1, <1>3, <4>2 DEF TypeOK
      <4> QED BY <4>1, <4>2
    <3> QED BY <1>1, <1>3, <1>5, <3>1
  <2> QED BY <1>1, <1>3, <1>5, <2>1 DEF TypeOK
<1>8. NotYetInserted'
  BY <1>3, <1>5, <1>6 DEF IInv, NotYetInserted
<1>9. Replaced'
  BY <1>3, <1>4, <1>5 DEF IInv, Replaced
<1>10. Roles'
  <2>1. \A q \in Requests : request[q].op \in {"rotate", "revoke"} =>
          request[q].target \in Requests /\ keys'[request[q].target] # None
    BY <1>1, <1>5 DEF IInv, Roles
  <2>2. request[r].op \in {"create", "rotate"}
    BY DEF IInv, Roles
  <2>3. request'[r].pc = "disable" => request'[r].op = "rotate"
    BY <1>3 DEF Inserted
  <2> QED BY <1>3, <1>6, <2>1, <2>3 DEF IInv, Roles
<1>11. RevokedStaysOut'
  <2> SUFFICES ASSUME NEW q \in Requests, request'[q].op \in {"rotate", "revoke"},
                      request'[q].pc = "done"
               PROVE  ~keys'[request'[q].target].enabled
    BY DEF RevokedStaysOut, At
  <2>1. q # r
    BY <1>3 DEF IInv, Roles, Inserted
  <2>2. /\ request[q].target \in Requests /\ keys[request[q].target] # None
        /\ ~keys[request[q].target].enabled
    BY <1>3, <2>1 DEF IInv, Roles, RevokedStaysOut, At
  <2> QED BY <1>1, <1>3, <1>5, <2>2
<1>12. ReplacedBeforeDisabled'
  <2> SUFFICES ASSUME NEW k \in Requests, keys'[k] # None, ~keys'[k].enabled
               PROVE  \E q \in Requests : /\ request'[q].target = k
                                         /\ \/ request'[q].op = "revoke"
                                            \/ request'[q].op = "rotate" /\ keys'[q] # None
    BY DEF ReplacedBeforeDisabled
  <2>1. k # r
    BY <1>4, <1>5
  <2>2. PICK q \in Requests : /\ request[q].target = k
                              /\ \/ request[q].op = "revoke"
                                 \/ request[q].op = "rotate" /\ keys[q] # None
    BY <1>5, <2>1 DEF IInv, ReplacedBeforeDisabled
  <2>3. keys[q] # None => keys'[q] # None
    BY <1>4, <1>5
  <2> QED BY <1>3, <2>2, <2>3
<1> QED BY <1>7, <1>8, <1>9, <1>10, <1>11, <1>12 DEF IInv

\* Disabling a key keeps the invariant: who disables it has revoked it or replaced it.
LEMMA DisableInv ==
  ASSUME IInv, NEW r \in Requests, NEW place, place \in {"done", "error"},
         request[r].pc = "disable", Goto(r, place), UNCHANGED now, faults' \in 0 .. MaxFaults,
         keys' = [keys EXCEPT ![request[r].target].enabled = FALSE]
  PROVE  IInv'
<1> DEFINE t == request[r].target
<1>1. TypeOK /\ t \in Requests /\ keys[t] # None
  BY DEF IInv, TypeOK
<1>2. place \in Places
  BY DEF Places, Final
<1>3. /\ request' \in [Requests -> Locals]
      /\ request'[r].pc \in {"done", "error"}
      /\ request'[r].op = request[r].op /\ request'[r].target = request[r].target
      /\ \A q \in Requests : q # r => request'[q] = request[q]
  BY <1>1, <1>2, GotoEffect
<1> HIDE DEF t
<1>4. keys \in [Requests -> Rows \cup {None}] /\ keys[t] \in Rows
  BY <1>1 DEF TypeOK
<1>5. keys'[t] = [keys[t] EXCEPT !.enabled = FALSE]
  BY <1>1, <1>4 DEF t
<1>6. keys'[t] \in Rows /\ ~keys'[t].enabled
  <2>1. keys'[t].enabled = FALSE
    BY <1>4, <1>5 DEF Rows
  <2>2. keys'[t] = [enabled |-> FALSE, created |-> keys[t].created,
                    expires |-> keys[t].expires, used |-> keys[t].used]
    BY <1>4, <1>5 DEF Rows
  <2>3. keys[t].created \in Nat /\ keys[t].expires \in Times /\ keys[t].used \in Times
    BY <1>4 DEF Rows
  <2>4. keys'[t] \in Rows
    BY <2>2, <2>3, DisabledRow
  <2> QED BY <2>1, <2>4
<1>7. \A q \in Requests : q # t => keys'[q] = keys[q]
  BY <1>1, <1>4 DEF t
<1>8. keys' \in [Requests -> Rows \cup {None}]
  BY <1>1, <1>4, <1>6 DEF t
<1>9. \A q \in Requests : (keys'[q] = None) <=> (keys[q] = None)
  BY <1>1, <1>6, <1>7, RowAssumption
<1>10. TypeOK'
  BY <1>1, <1>3, <1>8, <1>9 DEF TypeOK
<1>11. NotYetInserted'
  BY <1>3, <1>9 DEF IInv, NotYetInserted
<1>12. Replaced'
  BY <1>3, <1>9 DEF IInv, Replaced
<1>13. Roles'
  BY <1>3, <1>9 DEF IInv, Roles
<1>14. RevokedStaysOut'
  <2> SUFFICES ASSUME NEW q \in Requests, request[q].op \in {"rotate", "revoke"},
                      request'[q].pc = "done"
               PROVE  ~keys'[request[q].target].enabled
    BY <1>3 DEF RevokedStaysOut, At
  <2>1. request[q].target \in Requests
    BY DEF IInv, Roles
  <2>2. CASE request[q].target = t
    BY <1>6, <2>2
  <2>3. CASE request[q].target # t
    BY <1>3, <1>7, <2>1, <2>3 DEF IInv, RevokedStaysOut, At, t
  <2> QED BY <2>2, <2>3
<1>15. ReplacedBeforeDisabled'
  <2> SUFFICES ASSUME NEW k \in Requests, keys'[k] # None, ~keys'[k].enabled
               PROVE  \E q \in Requests : /\ request'[q].target = k
                                         /\ \/ request'[q].op = "revoke"
                                            \/ request'[q].op = "rotate" /\ keys'[q] # None
    BY DEF ReplacedBeforeDisabled
  <2>1. CASE k = t
    <3>1. \/ request[r].op = "revoke"
          \/ request[r].op = "rotate" /\ keys[r] # None
      BY DEF IInv, Roles, Replaced
    <3> QED BY <1>3, <1>9, <2>1, <3>1 DEF t
  <2>2. CASE k # t
    <3>1. PICK q \in Requests : /\ request[q].target = k
                                /\ \/ request[q].op = "revoke"
                                   \/ request[q].op = "rotate" /\ keys[q] # None
      BY <1>7, <2>2 DEF IInv, ReplacedBeforeDisabled
    <3> QED BY <1>3, <1>9, <3>1
  <2> QED BY <2>1, <2>2
<1> QED BY <1>10, <1>11, <1>12, <1>13, <1>14, <1>15 DEF IInv

\* A touch keeps the invariant: it writes the time of use only.
LEMMA TouchInv ==
  ASSUME IInv, NEW r \in Requests, request[r].pc = "touch", Goto(r, "accepted"),
         UNCHANGED now, faults' \in 0 .. MaxFaults,
         keys' = [keys EXCEPT ![request[r].target].used = request[r].at]
  PROVE  IInv'
<1> DEFINE t == request[r].target
<1>1. TypeOK /\ t \in Requests /\ keys[t] # None /\ request[r].at \in Nat
  BY DEF IInv, TypeOK, Locals
<1>2. "accepted" \in Places
  BY DEF Places, Final
<1>3. /\ request' \in [Requests -> Locals]
      /\ request'[r].pc = "accepted"
      /\ request'[r].op = request[r].op /\ request'[r].target = request[r].target
      /\ \A q \in Requests : q # r => request'[q] = request[q]
  BY <1>1, <1>2, GotoEffect
<1> HIDE DEF t
<1>4. keys \in [Requests -> Rows \cup {None}] /\ keys[t] \in Rows
  BY <1>1 DEF TypeOK
<1>5. keys'[t] = [keys[t] EXCEPT !.used = request[r].at]
  BY <1>1, <1>4 DEF t
<1>6. keys'[t] \in Rows /\ keys'[t].enabled = keys[t].enabled
  <2>1. keys'[t].enabled = keys[t].enabled
    BY <1>4, <1>5 DEF Rows
  <2>2. keys'[t] \in Rows
    BY <1>1, <1>4, <1>5 DEF Rows, Times
  <2> QED BY <2>1, <2>2
<1>7. \A q \in Requests : q # t => keys'[q] = keys[q]
  BY <1>1, <1>4 DEF t
<1>8. keys' \in [Requests -> Rows \cup {None}]
  BY <1>1, <1>4, <1>6 DEF t
<1>9. \A q \in Requests : (keys'[q] = None) <=> (keys[q] = None)
  BY <1>1, <1>6, <1>7, RowAssumption
<1>10. \A q \in Requests : keys'[q].enabled = keys[q].enabled
  BY <1>6, <1>7
<1>11. TypeOK'
  BY <1>1, <1>3, <1>8, <1>9 DEF TypeOK
<1>12. NotYetInserted'
  BY <1>3, <1>9 DEF IInv, NotYetInserted
<1>13. Replaced'
  BY <1>3, <1>9 DEF IInv, Replaced
<1>14. Roles'
  BY <1>3, <1>9 DEF IInv, Roles
<1>15. RevokedStaysOut'
  BY <1>3, <1>10 DEF IInv, RevokedStaysOut, At, Roles
<1>16. ReplacedBeforeDisabled'
  BY <1>3, <1>9, <1>10 DEF IInv, ReplacedBeforeDisabled
<1> QED BY <1>11, <1>12, <1>13, <1>14, <1>15, <1>16 DEF IInv

\* Every step keeps the invariant.
LEMMA NextInv == ASSUME IInv, [Next]_vars PROVE IInv'
<1>1. TypeOK /\ now \in Nat
  BY DEF IInv, TypeOK
<1>2. Fault => faults' \in 0 .. MaxFaults
  BY <1>1, TimesAssumption DEF TypeOK, Fault
<1>3. UNCHANGED faults => faults' \in 0 .. MaxFaults
  BY <1>1 DEF TypeOK
<1>4. CASE UNCHANGED vars
  <2>1. TypeOK'
    BY <1>1, <1>4 DEF TypeOK, vars
  <2>2. (NotYetInserted /\ Replaced /\ Roles)'
    BY <1>4 DEF IInv, vars, NotYetInserted, Replaced, Roles
  <2>3. (RevokedStaysOut /\ ReplacedBeforeDisabled)'
    BY <1>4 DEF IInv, vars, RevokedStaysOut, ReplacedBeforeDisabled, At
  <2> QED BY <2>1, <2>2, <2>3 DEF IInv
<1>5. CASE Tick
  <2>1. TypeOK'
    <3>1. now' \in 0 .. MaxTime
      BY <1>1, <1>5, TimesAssumption DEF TypeOK, Tick
    <3> QED BY <1>1, <1>5, <3>1 DEF TypeOK, Tick
  <2>2. (NotYetInserted /\ Replaced /\ Roles)'
    BY <1>5 DEF IInv, Tick, NotYetInserted, Replaced, Roles
  <2>3. (RevokedStaysOut /\ ReplacedBeforeDisabled)'
    BY <1>5 DEF IInv, Tick, RevokedStaysOut, ReplacedBeforeDisabled, At
  <2> QED BY <2>1, <2>2, <2>3 DEF IInv
<1>6. ASSUME NEW r \in Requests, Create(r) PROVE IInv'
  <2>1. PICK days \in 1 .. MaxDays \cup {None} : Begin(r, "create", "insert", None, days)
    BY <1>6 DEF Create
  <2>2. days \in Times /\ "create" \in Ops /\ "insert" \in Places
    BY TimesAssumption DEF Times, Ops, Places
  <2>3. UNCHANGED <<now, keys, faults>>
    BY <1>6 DEF Create
  <2> QED BY <2>1, <2>2, <2>3, BeginInv
<1>7. ASSUME NEW r \in Requests, ReadForRotation(r) PROVE IInv'
  <2> DEFINE days(k) == IF keys[k].expires = None THEN None ELSE RemainingDays(keys[k].expires)
  <2>1. PICK k \in Requests : keys[k] # None /\ Begin(r, "rotate", "insert", k, days(k))
    BY <1>7 DEF ReadForRotation
  <2>2. keys[k].expires \in Times
    BY <1>1, <2>1 DEF TypeOK, Rows
  <2>3. days(k) \in Times
    BY <1>1, <2>2, RemainingDaysNat DEF Times
  <2>4. "rotate" \in Ops /\ "insert" \in Places
    BY DEF Ops, Places
  <2>5. UNCHANGED <<now, keys, faults>>
    BY <1>7 DEF ReadForRotation
  <2> HIDE DEF days
  <2> QED BY <2>1, <2>3, <2>4, <2>5, BeginInv
<1>8. ASSUME NEW r \in Requests, Insert(r) PROVE IInv'
  <2>1. request[r].pc = "insert" /\ UNCHANGED now
    BY <1>8 DEF Insert, At
  <2>2. \/ /\ keys' = [keys EXCEPT ![r] = Fresh(request[r].days)]
           /\ Goto(r, Inserted(r)) \/ Goto(r, "error")
        \/ UNCHANGED keys /\ Goto(r, "error")
    BY <1>8 DEF Insert, Commit
  <2>3. faults' \in 0 .. MaxFaults
    BY <1>2, <1>3, <1>8 DEF Insert, Commit
  <2> QED BY <2>1, <2>2, <2>3, InsertInv, GotoInv
<1>9. ASSUME NEW r \in Requests, ReadForRevocation(r) PROVE IInv'
  <2>1. PICK k \in Requests : keys[k] # None /\ Begin(r, "revoke", "disable", k, None)
    BY <1>9 DEF ReadForRevocation
  <2>2. "revoke" \in Ops /\ "disable" \in Places /\ None \in Times
    BY DEF Ops, Places, Times
  <2>3. UNCHANGED <<now, keys, faults>>
    BY <1>9 DEF ReadForRevocation
  <2> QED BY <2>1, <2>2, <2>3, BeginInv
<1>10. ASSUME NEW r \in Requests, Disable(r) PROVE IInv'
  <2>1. request[r].pc = "disable" /\ UNCHANGED now
    BY <1>10 DEF Disable, At
  <2>2. \/ /\ keys' = [keys EXCEPT ![request[r].target].enabled = FALSE]
           /\ Goto(r, "done") \/ Goto(r, "error")
        \/ UNCHANGED keys /\ Goto(r, "error")
    BY <1>10 DEF Disable, Commit
  <2>3. faults' \in 0 .. MaxFaults
    BY <1>2, <1>3, <1>10 DEF Disable, Commit
  <2> QED BY <2>1, <2>2, <2>3, DisableInv, GotoInv
<1>11. ASSUME NEW r \in Requests, Use(r) PROVE IInv'
  <2> DEFINE place(k) == IF ~Valid(keys[k]) THEN "rejected"
                         ELSE IF Stale(keys[k]) THEN "touch" ELSE "accepted"
  <2>1. PICK k \in Requests : keys[k] # None /\ Begin(r, "use", place(k), k, None)
    BY <1>11 DEF Use
  <2>2. place(k) \in {"rejected", "touch", "accepted"}
    OBVIOUS
  <2>3. "use" \in Ops /\ place(k) \in Places /\ None \in Times
    BY <2>2 DEF Ops, Places, Final, Times
  <2>4. UNCHANGED <<now, keys, faults>>
    BY <1>11 DEF Use
  <2> HIDE DEF place
  <2> QED BY <2>1, <2>2, <2>3, <2>4, BeginInv
<1>12. ASSUME NEW r \in Requests, Touch(r) PROVE IInv'
  <2>1. request[r].pc = "touch" /\ UNCHANGED now /\ Goto(r, "accepted")
    BY <1>12 DEF Touch, At, Commit
  <2>2. \/ keys' = [keys EXCEPT ![request[r].target].used = request[r].at]
        \/ UNCHANGED keys
    BY <1>12 DEF Touch, Commit
  <2>3. faults' \in 0 .. MaxFaults
    BY <1>2, <1>3, <1>12 DEF Touch, Commit
  <2> QED BY <2>1, <2>2, <2>3, TouchInv, GotoInv
<1>13. ASSUME NEW r \in Requests, Kill(r) PROVE IInv'
  <2>1. /\ request[r].pc \in {"insert", "disable", "touch"}
        /\ Goto(r, "killed") /\ UNCHANGED <<now, keys>>
    BY <1>13 DEF Kill
  <2>2. faults' \in 0 .. MaxFaults
    BY <1>2, <1>13 DEF Kill
  <2> QED BY <2>1, <2>2, GotoInv
<1> QED BY <1>4, <1>5, <1>6, <1>7, <1>8, <1>9, <1>10, <1>11, <1>12, <1>13 DEF Next, Serve

-----------------------------------------------------------------------------
\* In every behaviour the invariant holds.
LEMMA Invariance == Spec => []IInv
<1>1. Init => IInv
  BY InitInv
<1>2. IInv /\ [Next]_vars => IInv'
  BY NextInv
<1> QED BY <1>1, <1>2, PTL DEF Spec

\* The rows and the requests stay in their types, and a request only ever writes to a key
\* that exists.
THEOREM TypeCorrect == Spec => []TypeOK
<1>1. IInv => TypeOK
  BY DEF IInv
<1> QED BY <1>1, Invariance, PTL

\* Once a rotation or a revocation is answered the key stays disabled, however many
\* requests that have read it before commit afterwards (auth.py:174, auth.py:194 against
\* deps.py:117).
THEOREM RevocationIsFinal == Spec => []RevokedStaysOut
<1>1. IInv => RevokedStaysOut
  BY DEF IInv
<1> QED BY <1>1, Invariance, PTL

\* A key that nobody revoked goes out of service only with its replacement in the database
\* (auth.py:171-175), whatever commits fail and processes die.
THEOREM ReplacementFirst == Spec => []ReplacedBeforeDisabled
<1>1. IInv => ReplacedBeforeDisabled
  BY DEF IInv
<1> QED BY <1>1, Invariance, PTL

-----------------------------------------------------------------------------
(***************************************************************************)
(* The expiry of a replacement.  The days a rotation carries from its read *)
(* to its insert fit the expiry it has read, at the time it has read it;   *)
(* nothing writes the expiry of a row, and the clock does not go back.     *)
(***************************************************************************)
Left(expires, at) == IF expires > at THEN expires - at ELSE 0

\* A key of so many days, made no earlier than at, outlives expires by a day at most.
Fits(days, expires, at) ==
  /\ days \in Nat \ {0} /\ days * Day \in Nat
  /\ at + days * Day >= expires
  /\ days * Day <= Left(expires, at) + Day

\* What a rotation carries while it has yet to insert.
Carries ==
  \A r \in Requests : request[r].op = "rotate" /\ request[r].pc = "insert" =>
    LET expires == keys[request[r].target].expires
    IN /\ request[r].at <= now
       /\ expires = None <=> request[r].days = None
       /\ expires # None => Fits(request[r].days, expires, request[r].at)

XInv == IInv /\ Carries /\ ExpiryInherited

\* The rounding: (expires - now).days + 1, and at least 1, fits.
LEMMA RemainingDaysFit ==
  ASSUME NEW expires \in Nat, now \in Nat
  PROVE  Fits(RemainingDays(expires), expires, now)
<1> DEFINE q == (expires - now) \div Day
<1>1. Day \in Nat \ {0}
  BY TimesAssumption
<1>2. q \in Int /\ q * Day <= expires - now /\ expires - now < q * Day + Day
  BY <1>1
<1>3. RemainingDays(expires) = IF q + 1 < 1 THEN 1 ELSE q + 1
  BY DEF RemainingDays
<1> HIDE DEF q
<1>4. CASE q + 1 < 1
  <2>1. RemainingDays(expires) = 1
    BY <1>3, <1>4
  <2>2. q * Day + Day <= 0
    BY <1>1, <1>2, <1>4
  <2>3. expires - now < 0
    BY <1>1, <1>2, <2>2
  <2> QED BY <1>1, <2>1, <2>3 DEF Fits, Left
<1>5. CASE ~(q + 1 < 1)
  <2>1. RemainingDays(expires) = q + 1 /\ q \in Nat
    BY <1>2, <1>3, <1>5
  <2>2. (q + 1) * Day = q * Day + Day /\ q * Day \in Nat
    BY <1>1, <2>1
  <2>3. now + (q + 1) * Day >= expires
    BY <1>1, <1>2, <2>2
  <2>4. (q + 1) * Day <= Left(expires, now) + Day
    BY <1>1, <1>2, <2>2 DEF Left
  <2>5. (q + 1) * Day \in Nat /\ q + 1 \in Nat \ {0}
    BY <1>1, <2>1, <2>2
  <2> QED BY <2>1, <2>3, <2>4, <2>5 DEF Fits
<1> QED BY <1>4, <1>5

\* What a step leaves of a request that is under way: all but its place.
SameRequest(r) ==
  /\ request'[r].op = request[r].op /\ request'[r].target = request[r].target
  /\ request'[r].days = request[r].days /\ request'[r].at = request[r].at
  /\ request'[r].pc = "insert" => request[r].pc = "insert"

\* What a step leaves of a row: its creation and its expiry.
SameRow(k) == keys[k] # None =>
  keys'[k] # None /\ keys'[k].created = keys[k].created /\ keys'[k].expires = keys[k].expires

\* A request begins a rotation.
Rotates(r) ==
  /\ request[r].pc = "idle" /\ keys' = keys
  /\ request'[r].target \in Requests /\ keys[request'[r].target] # None
  /\ request'[r].at = now
  /\ request'[r].days = IF keys[request'[r].target].expires = None THEN None
                        ELSE RemainingDays(keys[request'[r].target].expires)

\* A row is new.
Inserts(r) == request[r].pc = "insert" /\ keys'[r] = Fresh(request[r].days)

Frame == /\ now <= now'
         /\ \A q \in Requests : /\ SameRequest(q) \/ Rotates(q) \/ request'[q].op # "rotate"
                                /\ SameRow(q)
                                /\ keys[q] = None /\ keys'[q] # None => Inserts(q)

\* A request that only goes on to another place keeps its operation, target and time.
LEMMA GotoFrame ==
  ASSUME TypeOK, NEW r \in Requests, NEW place, place # "insert", Goto(r, place)
  PROVE  \A q \in Requests : SameRequest(q)
<1>1. request \in [Requests -> Locals]
  BY DEF TypeOK
<1>2. request' = [request EXCEPT ![r] = [request[r] EXCEPT !.pc = place]]
  BY DEF Goto
<1>3. request'[r] = [request[r] EXCEPT !.pc = place] /\ request[r] \in Locals
  BY <1>1, <1>2
<1>4. /\ request'[r].op = request[r].op /\ request'[r].target = request[r].target
      /\ request'[r].days = request[r].days /\ request'[r].at = request[r].at
      /\ request'[r].pc = place
  BY <1>3 DEF Locals
<1>5. \A q \in Requests : q # r => request'[q] = request[q]
  BY <1>1, <1>2
<1> QED BY <1>4, <1>5 DEF SameRequest

\* A request that begins takes its operation, target and time; the others stay as they are.
LEMMA BeginFrame ==
  ASSUME TypeOK, NEW r \in Requests, NEW op, NEW place, NEW target, NEW days,
         Begin(r, op, place, target, days)
  PROVE  /\ request[r].pc = "idle"
         /\ request'[r].op = op /\ request'[r].target = target
         /\ request'[r].days = days /\ request'[r].at = now
         /\ \A q \in Requests : q # r => SameRequest(q)
<1> DEFINE new == [op |-> op, pc |-> place, target |-> target, days |-> days, at |-> now]
<1>1. request \in [Requests -> Locals]
  BY DEF TypeOK
<1>2. request' = [request EXCEPT ![r] = new] /\ request[r].pc = "idle"
  BY DEF Begin, At
<1>3. new.op = op /\ new.target = target /\ new.days = days /\ new.at = now
  OBVIOUS
<1> HIDE DEF new
<1>4. request'[r] = new /\ \A q \in Requests : q # r => request'[q] = request[q]
  BY <1>1, <1>2
<1> QED BY <1>2, <1>3, <1>4 DEF SameRequest

\* A row that a step changes in one field keeps its creation and its expiry.
LEMMA RowFrame ==
  ASSUME TypeOK, NEW t \in Requests, keys[t] # None, NEW row, row # None,
         row.created = keys[t].created, row.expires = keys[t].expires,
         keys' = [keys EXCEPT ![t] = row]
  PROVE  \A q \in Requests : SameRow(q) /\ (keys[q] = None => keys'[q] = None)
<1>1. keys \in [Requests -> Rows \cup {None}]
  BY DEF TypeOK
<1>2. keys'[t] = row /\ \A q \in Requests : q # t => keys'[q] = keys[q]
  BY <1>1
<1> QED BY <1>2 DEF SameRow

\* What any step leaves as it is, of the requests and of the rows.
LEMMA StepFrame == ASSUME IInv, [Next]_vars PROVE Frame
<1>1. TypeOK /\ now \in Nat
  BY DEF IInv, TypeOK
<1>2. UNCHANGED keys => \A q \in Requests : SameRow(q) /\ (keys[q] = None => keys'[q] = None)
  BY DEF SameRow
<1>3. CASE UNCHANGED vars
  BY <1>1, <1>2, <1>3 DEF vars, Frame, SameRequest
<1>4. CASE Tick
  BY <1>1, <1>2, <1>4 DEF Tick, Frame, SameRequest
<1>5. ASSUME NEW r \in Requests, Create(r) \/ ReadForRevocation(r) \/ Use(r) PROVE Frame
  <2>1. \E op, place, target, days : op # "rotate" /\ Begin(r, op, place, target, days)
    <3>1. CASE Create(r)
      <4>1. PICK days \in 1 .. MaxDays \cup {None} : Begin(r, "create", "insert", None, days)
        BY <3>1 DEF Create
      <4> QED BY <4>1
    <3>2. CASE ReadForRevocation(r)
      <4>1. PICK k \in Requests : Begin(r, "revoke", "disable", k, None)
        BY <3>2 DEF ReadForRevocation
      <4> QED BY <4>1
    <3>3. CASE Use(r)
      <4> DEFINE place(k) == IF ~Valid(keys[k]) THEN "rejected"
                             ELSE IF Stale(keys[k]) THEN "touch" ELSE "accepted"
      <4>1. PICK k \in Requests : Begin(r, "use", place(k), k, None)
        BY <3>3 DEF Use
      <4> HIDE DEF place
      <4> QED BY <4>1
    <3> QED BY <1>5, <3>1, <3>2, <3>3
  <2>2. request'[r].op # "rotate" /\ \A q \in Requests : q # r => SameRequest(q)
    <3>1. PICK op, place, target, days : op # "rotate" /\ Begin(r, op, place, target, days)
      BY <2>1
    <3> QED BY <1>1, <3>1, BeginFrame
  <2>3. UNCHANGED <<now, keys>>
    BY <1>5 DEF Create, ReadForRevocation, Use
  <2> QED BY <1>1, <1>2, <2>2, <2>3 DEF Frame
<1>6. ASSUME NEW r \in Requests, ReadForRotation(r) PROVE Frame
  <2> DEFINE days(k) == IF keys[k].expires = None THEN None ELSE RemainingDays(keys[k].expires)
  <2>1. PICK k \in Requests : keys[k] # None /\ Begin(r, "rotate", "insert", k, days(k))
    BY <1>6 DEF ReadForRotation
  <2>2. UNCHANGED <<now, keys>>
    BY <1>6 DEF ReadForRotation
  <2>3. /\ request[r].pc = "idle" /\ request'[r].target = k
        /\ request'[r].days = days(k) /\ request'[r].at = now
        /\ \A q \in Requests : q # r => SameRequest(q)
    <3> HIDE DEF days
    <3> QED BY <1>1, <2>1, BeginFrame
  <2>4. Rotates(r)
    BY <2>1, <2>2, <2>3 DEF Rotates
  <2> QED BY <1>1, <1>2, <2>2, <2>3, <2>4 DEF Frame
<1>7. ASSUME NEW r \in Requests, Insert(r) PROVE Frame
  <2>1. request[r].pc = "insert" /\ keys[r] = None /\ UNCHANGED now
    BY <1>7 DEF Insert, At, IInv, NotYetInserted
  <2>2. PICK place \in {"disable", "done", "error"} : Goto(r, place)
    BY <1>7 DEF Insert, Commit, Inserted
  <2>3. \A q \in Requests : SameRequest(q)
    BY <1>1, <2>2, GotoFrame
  <2>4. keys' = [keys EXCEPT ![r] = Fresh(request[r].days)] \/ UNCHANGED keys
    BY <1>7 DEF Insert, Commit
  <2>5. CASE UNCHANGED keys
    BY <1>1, <1>2, <2>1, <2>3, <2>5 DEF Frame
  <2>6. CASE keys' = [keys EXCEPT ![r] = Fresh(request[r].days)]
    <3>1. keys'[r] = Fresh(request[r].days) /\ \A q \in Requests : q # r => keys'[q] = keys[q]
      BY <1>1, <2>6 DEF TypeOK
    <3> QED BY <1>1, <2>1, <2>3, <3>1 DEF Frame, SameRow, Inserts
  <2> QED BY <2>4, <2>5, <2>6
<1>8. ASSUME NEW r \in Requests, Disable(r) PROVE Frame
  <2> DEFINE t == request[r].target
             row == [keys[t] EXCEPT !.enabled = FALSE]
  <2>1. t \in Requests /\ keys[t] # None /\ keys[t] \in Rows
    BY <1>8 DEF Disable, At, IInv, TypeOK
  <2>2. PICK place \in {"done", "error"} : Goto(r, place)
    BY <1>8 DEF Disable, Commit
  <2>3. \A q \in Requests : SameRequest(q)
    BY <1>1, <2>2, GotoFrame
  <2>4. keys' = [keys EXCEPT ![t] = row] \/ UNCHANGED keys
    BY <1>8 DEF Disable, Commit
  <2>5. row.created = keys[t].created /\ row.expires = keys[t].expires
    BY <2>1 DEF Rows
  <2>6. row # None
    <3> HIDE DEF t
    <3>1. row \in Rows
      BY <2>1 DEF Rows
    <3> HIDE DEF row
    <3> QED BY <3>1, RowAssumption
  <2>7. UNCHANGED now
    BY <1>8 DEF Disable
  <2>8. \A q \in Requests : SameRow(q) /\ (keys[q] = None => keys'[q] = None)
    <3>1. CASE UNCHANGED keys
      BY <1>2, <3>1
    <3>2. CASE keys' = [keys EXCEPT ![t] = row]
      <4> HIDE DEF t, row
      <4> QED BY <1>1, <2>1, <2>5, <2>6, <3>2, RowFrame
    <3> QED BY <2>4, <3>1, <3>2
  <2> QED BY <1>1, <2>3, <2>7, <2>8 DEF Frame
<1>9. ASSUME NEW r \in Requests, Touch(r) PROVE Frame
  <2> DEFINE t == request[r].target
             row == [keys[t] EXCEPT !.used = request[r].at]
  <2>1. t \in Requests /\ keys[t] # None /\ keys[t] \in Rows /\ request[r].at \in Nat
    BY <1>9 DEF Touch, At, IInv, TypeOK, Locals
  <2>2. Goto(r, "accepted") /\ UNCHANGED now
    BY <1>9 DEF Touch, Commit
  <2>3. \A q \in Requests : SameRequest(q)
    BY <1>1, <2>2, GotoFrame
  <2>4. keys' = [keys EXCEPT ![t] = row] \/ UNCHANGED keys
    BY <1>9 DEF Touch, Commit
  <2>5. row.created = keys[t].created /\ row.expires = keys[t].expires
    BY <2>1 DEF Rows
  <2>6. row # None
    <3>1. row \in Rows
      BY <2>1 DEF Rows, Times
    <3> HIDE DEF row
    <3> QED BY <3>1, RowAssumption
  <2>7. \A q \in Requests : SameRow(q) /\ (keys[q] = None => keys'[q] = None)
    <3>1. CASE UNCHANGED keys
      BY <1>2, <3>1
    <3>2. CASE keys' = [keys EXCEPT ![t] = row]
      <4> HIDE DEF t, row
      <4> QED BY <1>1, <2>1, <2>5, <2>6, <3>2, RowFrame
    <3> QED BY <2>4, <3>1, <3>2
  <2> QED BY <1>1, <2>2, <2>3, <2>7 DEF Frame
<1>10. ASSUME NEW r \in Requests, Kill(r) PROVE Frame
  <2>1. Goto(r, "killed") /\ UNCHANGED <<now, keys>>
    BY <1>10 DEF Kill
  <2>2. \A q \in Requests : SameRequest(q)
    BY <1>1, <2>1, GotoFrame
  <2> QED BY <1>1, <1>2, <2>1, <2>2 DEF Frame
<1> QED BY <1>3, <1>4, <1>5, <1>6, <1>7, <1>8, <1>9, <1>10 DEF Next, Serve

\* A step keeps what rotations carry, and what the replacements have inherited.
LEMMA StepInherits == ASSUME XInv, [Next]_vars PROVE (Carries /\ ExpiryInherited)'
<1>1. /\ IInv /\ TypeOK /\ now \in Nat
      /\ Frame /\ TypeOK'
  BY StepFrame, NextInv DEF XInv, IInv, TypeOK
<1>2. request \in [Requests -> Locals] /\ keys \in [Requests -> Rows \cup {None}]
  BY <1>1 DEF TypeOK
<1>3. now' \in Nat
  BY <1>1 DEF TypeOK
<1>4. Carries'
  <2> SUFFICES ASSUME NEW r \in Requests, request'[r].op = "rotate", request'[r].pc = "insert"
               PROVE  LET expires == keys'[request'[r].target].expires
                      IN /\ request'[r].at <= now'
                         /\ expires = None <=> request'[r].days = None
                         /\ expires # None => Fits(request'[r].days, expires, request'[r].at)
    BY DEF Carries
  <2>1. CASE SameRequest(r)
    <3>1. /\ request[r].op = "rotate" /\ request[r].pc = "insert"
          /\ request'[r].target = request[r].target
          /\ request'[r].days = request[r].days /\ request'[r].at = request[r].at
      BY <2>1 DEF SameRequest
    <3>2. request[r].target \in Requests /\ keys[request[r].target] # None
      BY <1>1, <3>1 DEF IInv, Roles
    <3>3. keys'[request[r].target].expires = keys[request[r].target].expires
      BY <1>1, <3>2 DEF Frame, SameRow
    <3>4. request[r].at \in Nat /\ request[r].at <= now /\ now <= now'
      BY <1>1, <1>2, <3>1 DEF XInv, Carries, Frame, Locals
    <3> QED BY <1>1, <1>3, <3>1, <3>3, <3>4 DEF XInv, Carries
  <2>2. CASE Rotates(r)
    <3> DEFINE expires == keys[request'[r].target].expires
    <3>1. /\ request'[r].at = now /\ keys' = keys
          /\ request'[r].days = IF expires = None THEN None ELSE RemainingDays(expires)
          /\ keys[request'[r].target] \in Rows
      BY <1>2, <2>2 DEF Rotates
    <3>2. expires \in Times
      BY <3>1 DEF Rows
    <3> HIDE DEF expires
    <3>3. expires # None => Fits(request'[r].days, expires, now) /\ request'[r].days # None
      BY <1>1, <3>1, <3>2, RemainingDaysFit, RemainingDaysNat, NoneAssumption DEF Times
    <3>4. expires = None => request'[r].days = None
      BY <3>1
    <3>5. now <= now'
      BY <1>1 DEF Frame
    <3>6. keys'[request'[r].target].expires = expires
      BY <3>1 DEF expires
    <3> QED BY <3>1, <3>3, <3>4, <3>5, <3>6
  <2> QED BY <1>1, <2>1, <2>2 DEF Frame
<1>5. ExpiryInherited'
  <2> SUFFICES ASSUME NEW r \in Requests, request'[r].op = "rotate", keys'[r] # None
               PROVE  LET old == keys'[request'[r].target]
                          new == keys'[r]
                          left == IF old.expires > request'[r].at
                                    THEN old.expires - request'[r].at ELSE 0
                      IN /\ old.expires = None <=> new.expires = None
                         /\ old.expires # None =>
                              /\ new.expires >= old.expires /\ new.expires > new.created
                              /\ new.expires - new.created <= left + Day
    BY DEF ExpiryInherited
  <2>1. SameRequest(r)
    <3>1. ~Rotates(r)
      BY <1>1 DEF Rotates, IInv, NotYetInserted
    <3> QED BY <1>1, <3>1 DEF Frame
  <2>2. /\ request[r].op = "rotate"
        /\ request'[r].target = request[r].target /\ request'[r].at = request[r].at
    BY <2>1 DEF SameRequest
  <2>3. request[r].target \in Requests /\ keys[request[r].target] # None
    BY <1>1, <2>2 DEF IInv, Roles
  <2>4. keys'[request[r].target].expires = keys[request[r].target].expires
    BY <1>1, <2>3 DEF Frame, SameRow
  <2>5. CASE keys[r] # None
    <3>1. keys'[r].created = keys[r].created /\ keys'[r].expires = keys[r].expires
      BY <1>1, <2>5 DEF Frame, SameRow
    <3> QED BY <2>2, <2>4, <2>5, <3>1 DEF XInv, ExpiryInherited
  <2>6. CASE keys[r] = None
    <3> DEFINE old == keys[request[r].target].expires
               days == request[r].days
               at == request[r].at
    <3>1. request[r].pc = "insert" /\ keys'[r] = Fresh(days)
      BY <1>1, <2>6 DEF Frame, Inserts
    <3>2. /\ at <= now
          /\ old = None <=> days = None
          /\ old # None => Fits(days, old, at)
      BY <2>2, <3>1 DEF XInv, Carries
    <3>3. keys'[r].created = now /\ keys'[r].expires = IF days = None THEN None ELSE now + days * Day
      BY <3>1 DEF Fresh
    <3>4. at \in Nat /\ old \in Times /\ Day \in Nat
      BY <1>2, <2>3, TimesAssumption DEF Locals, Rows
    <3> HIDE DEF old, days, at
    <3>5. CASE old = None
      <4>1. keys'[r].expires = None
        BY <3>2, <3>3, <3>5
      <4> QED BY <2>2, <2>4, <3>5, <4>1 DEF old
    <3>6. CASE old # None
      <4>1. old \in Nat /\ days # None /\ Fits(days, old, at)
        BY <3>2, <3>4, <3>6 DEF Times
      <4>2. days * Day \in Nat /\ days \in Nat \ {0} /\ Day \in Nat \ {0}
        BY <4>1, TimesAssumption DEF Fits
      <4>3. days * Day > 0
        BY <4>2
      <4> DEFINE d == days * Day
      <4>4. /\ keys'[r].expires = now + d /\ keys'[r].created = now /\ d \in Nat /\ d > 0
            /\ at + d >= old /\ d <= Left(old, at) + Day
        BY <3>3, <4>1, <4>2, <4>3 DEF Fits
      <4> HIDE DEF d
      <4>5. Left(old, at) \in Nat
        BY <3>4, <4>1 DEF Left
      <4>6. /\ now + d >= old /\ now + d > now /\ now + d - now <= Left(old, at) + Day
            /\ now + d \in Nat
        BY <1>1, <3>2, <3>4, <4>1, <4>4, <4>5
      <4>7. now + d # None
        BY <4>6, NoneAssumption
      <4>8. /\ keys'[request'[r].target].expires = old /\ request'[r].at = at
            /\ Left(old, at) = IF old > at THEN old - at ELSE 0
        BY <2>2, <2>4 DEF old, at, Left
      <4>9. keys'[r].expires >= old /\ keys'[r].expires > keys'[r].created
        BY <1>1, <4>1, <4>4, <4>6
      <4>10. keys'[r].expires - keys'[r].created <= Left(old, at) + Day
        BY <1>1, <4>4, <4>5, <4>6
      <4>11. old # None /\ keys'[r].expires # None
        BY <3>6, <4>4, <4>7
      <4> QED BY <4>8, <4>9, <4>10, <4>11
    <3> QED BY <3>5, <3>6
  <2> QED BY <2>5, <2>6
<1> QED BY <1>4, <1>5

\* A replacement expires iff the rotated key does, not before it, is usable, and lives at most
\* a day longer than was left to the rotated key (auth.py:165-169), whatever time passes and
\* whatever other requests do between its read and its insert.
THEOREM ExpiryIsInherited == Spec => []ExpiryInherited
<1>1. Init => XInv
  <2>1. Init => Carries /\ ExpiryInherited
    BY DEF Init, Carries, ExpiryInherited
  <2> QED BY <2>1, InitInv DEF XInv
<1>2. XInv /\ [Next]_vars => XInv'
  <2>1. XInv /\ [Next]_vars => IInv'
    BY NextInv DEF XInv
  <2>2. XInv /\ [Next]_vars => (Carries /\ ExpiryInherited)'
    BY StepInherits
  <2> QED BY <2>1, <2>2 DEF XInv
<1>3. XInv => ExpiryInherited
  BY DEF XInv
<1> QED BY <1>1, <1>2, <1>3, PTL DEF Spec
=============================================================================
