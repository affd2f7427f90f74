------------------------------ MODULE ApiKeys ------------------------------
(***************************************************************************)
(* The API keys of one project (app/api/routes/auth.py) and their use by   *)
(* requests (app/api/deps.py).  Requests run concurrently, each with a     *)
(* database session of its own; an action is one query or one commit.  A   *)
(* rotation is two commits, and every request with a key may commit the    *)
(* time of its use.                                                        *)
(*                                                                         *)
(* A key is named by the request that creates it.  One clock serves the    *)
(* days of the expiry and the seconds of the bookkeeping.                  *)
(***************************************************************************)
EXTENDS Integers, FiniteSets

CONSTANTS
  Requests,   \* requests that create, rotate, revoke or use a key
  None,       \* no row, no expiry, no time of use, no target
  Day,        \* a day, in units of the clock
  Interval,   \* LAST_USED_UPDATE_INTERVAL
  MaxDays,    \* bound: expires_in_days
  MaxTime,    \* bound: the clock
  MaxFaults   \* bound: commits that raise, API processes that die

ASSUME NoneAssumption == None \notin Int /\ None \notin Requests
ASSUME TimesAssumption == /\ Day \in Nat \ {0} /\ Interval \in Nat
                          /\ MaxDays \in Nat \ {0} /\ MaxTime \in Nat /\ MaxFaults \in Nat

VARIABLES
  now,      \* the time
  keys,     \* the api_keys rows, by the request that inserted them
  request,  \* control state and local variables of each request
  faults    \* faults so far

vars == <<now, keys, request, faults>>

Times    == Nat \cup {None}
Rows     == [enabled : BOOLEAN, created : Nat, expires : Times, used : Times]
Ops      == {"none", "create", "rotate", "revoke", "use"}
\* "done" is a 201 or 204, "error" a 500.
Final    == {"done", "accepted", "rejected", "error", "killed"}
Places   == {"idle", "insert", "disable", "touch"} \cup Final
\* at: the time a request has read; days: expires_in_days of the key it inserts.
Locals   == [op : Ops, pc : Places, target : Requests \cup {None}, days : Times, at : Nat]

ASSUME RowAssumption == None \notin Rows   \* an absent row is no row

TypeOK ==
  /\ now \in 0 .. MaxTime
  /\ keys \in [Requests -> Rows \cup {None}]
  /\ request \in [Requests -> Locals]
  /\ \A r \in Requests : request[r].pc \in {"disable", "touch"} =>
       request[r].target \in Requests /\ keys[request[r].target] # None
  /\ faults \in 0 .. MaxFaults

Init ==
  /\ now = 0
  /\ keys = [r \in Requests |-> None]
  /\ request = [r \in Requests |->
       [op |-> "none", pc |-> "idle", target |-> None, days |-> None, at |-> 0]]
  /\ faults = 0

Goto(r, place) == request' = [request EXCEPT ![r].pc = place]
At(r, place) == request[r].pc = place
Begin(r, op, place, target, days) ==
  /\ At(r, "idle")
  /\ request' = [request EXCEPT
       ![r] = [op |-> op, pc |-> place, target |-> target, days |-> days, at |-> now]]

Fault == faults < MaxFaults /\ faults' = faults + 1

\* The request commits newKeys and goes on at next, or the commit raises, applied or not,
\* and the request goes on at handler.
Commit(r, newKeys, next, handler) ==
  \/ keys' = newKeys /\ Goto(r, next) /\ UNCHANGED faults
  \/ Fault /\ keys' \in {keys, newKeys} /\ Goto(r, handler)

-----------------------------------------------------------------------------
(***************************************************************************)
(* Creation and rotation.                                                  *)
(***************************************************************************)
\* create_api_key: the project exists, the days are the caller's.
Create(r) ==
  /\ \E days \in 1 .. MaxDays \cup {None} : Begin(r, "create", "insert", None, days)
  /\ UNCHANGED <<now, keys, faults>>

\* Mutant of RemainingDays: the days left are rounded down.
RemainingDaysFloor(expires) ==
  LET days == (expires - now) \div Day IN IF days < 1 THEN 1 ELSE days

\* (expires_at - now).days + 1, at least 1.
RemainingDays(expires) ==
  LET days == (expires - now) \div Day + 1 IN IF days < 1 THEN 1 ELSE days

\* rotate_api_key, the query: any row of the project, whatever its state.
ReadForRotation(r) ==
  /\ \E k \in Requests :
       /\ keys[k] # None
       /\ Begin(r, "rotate", "insert", k,
                IF keys[k].expires = None THEN None ELSE RemainingDays(keys[k].expires))
  /\ UNCHANGED <<now, keys, faults>>

Fresh(days) == [enabled |-> TRUE, created |-> now, used |-> None,
                expires |-> IF days = None THEN None ELSE now + days * Day]

\* Where a request goes once its key is in.
Inserted(r) == IF request[r].op = "rotate" THEN "disable" ELSE "done"

\* Mutant of Insert: an insert that raises does not keep a rotation from going on.
InsertSwallowed(r) ==
  /\ At(r, "insert")
  /\ Commit(r, [keys EXCEPT ![r] = Fresh(request[r].days)], Inserted(r), Inserted(r))
  /\ UNCHANGED now

\* _create_key_record.
Insert(r) ==
  /\ At(r, "insert")
  /\ Commit(r, [keys EXCEPT ![r] = Fresh(request[r].days)], Inserted(r), "error")
  /\ UNCHANGED now

-----------------------------------------------------------------------------
(***************************************************************************)
(* Revocation, and the second half of a rotation.                          *)
(***************************************************************************)
\* Mutant of ReadForRevocation: no 404 for a key that does not exist.
ReadForRevocationUnchecked(r) ==
  /\ \E k \in Requests : Begin(r, "revoke", "disable", k, None)
  /\ UNCHANGED <<now, keys, faults>>

\* revoke_api_key, the query.
ReadForRevocation(r) ==
  /\ \E k \in Requests : keys[k] # None /\ Begin(r, "revoke", "disable", k, None)
  /\ UNCHANGED <<now, keys, faults>>

\* enabled = False and its commit.
Disable(r) ==
  /\ At(r, "disable")
  /\ Commit(r, [keys EXCEPT ![request[r].target].enabled = FALSE], "done", "error")
  /\ UNCHANGED now

-----------------------------------------------------------------------------
(***************************************************************************)
(* Use of a key.                                                           *)
(***************************************************************************)
Valid(row) == row.enabled /\ (row.expires = None \/ row.expires > now)
Stale(row) == row.used = None \/ now - row.used >= Interval

\* _get_project_from_key, the query and the throttle.  A caller has a key when the request
\* that created it was answered.
Use(r) ==
  /\ \E k \in Requests :
       /\ request[k].pc = "done" /\ keys[k] # None
       /\ Begin(r, "use",
                IF ~Valid(keys[k]) THEN "rejected"
                ELSE IF Stale(keys[k]) THEN "touch" ELSE "accepted", k, None)
  /\ UNCHANGED <<now, keys, faults>>

\* Mutant of Touch: the row is saved as the request has read it.
TouchWholeRow(r) ==
  /\ At(r, "touch")
  /\ Commit(r, [keys EXCEPT ![request[r].target].used = request[r].at,
                            ![request[r].target].enabled = TRUE], "accepted", "accepted")
  /\ UNCHANGED now

\* last_used_at = now and its commit, which writes this column only; an exception is logged.
Touch(r) ==
  /\ At(r, "touch")
  /\ Commit(r, [keys EXCEPT ![request[r].target].used = request[r].at], "accepted", "accepted")
  /\ UNCHANGED now

-----------------------------------------------------------------------------
\* The API process dies under the request.
Kill(r) ==
  /\ request[r].pc \in {"insert", "disable", "touch"}
  /\ Fault
  /\ Goto(r, "killed")
  /\ UNCHANGED <<now, keys>>

Tick == now < MaxTime /\ now' = now + 1 /\ UNCHANGED <<keys, request, faults>>

Serve(r) == \/ Create(r) \/ ReadForRotation(r) \/ Insert(r)
            \/ ReadForRevocation(r) \/ Disable(r)
            \/ Use(r) \/ Touch(r)

Next == Tick \/ \E r \in Requests : Serve(r) \/ Kill(r)

Spec == Init /\ [][Next]_vars

-----------------------------------------------------------------------------
(***************************************************************************)
(* Properties.                                                             *)
(***************************************************************************)
\* "The old key stops working immediately", "Revoke (disable) an API key": once a rotation
\* or a revocation has been answered, its key stays disabled, whatever requests that read
\* the key before commit afterwards.
RevokedStaysOut ==
  \A r \in Requests : request[r].op \in {"rotate", "revoke"} /\ At(r, "done")
    => ~keys[request[r].target].enabled

\* "Disable the old key after successful replacement": a key is out of service only because
\* somebody revoked it or because a rotation has put its replacement into the database.
\* (That the client gets to see the replacement is not said: only the answer tells it the new
\* key, and a second commit that is applied and raises is answered with a 500.)
ReplacedBeforeDisabled ==
  \A k \in Requests : keys[k] # None /\ ~keys[k].enabled
    => \E r \in Requests : /\ request[r].target = k
                           /\ \/ request[r].op = "revoke"
                              \/ request[r].op = "rotate" /\ keys[r] # None

\* "Inherit expiry policy of the rotated key (None stays non-expiring)": the replacement
\* expires iff the rotated key does, not before it, is usable, and has at most a day more to
\* live than was left to the rotated key, an expired one counting as having nothing left.
ExpiryInherited ==
  \A r \in Requests : request[r].op = "rotate" /\ keys[r] # None =>
    LET old == keys[request[r].target]
        new == keys[r]
        left == IF old.expires > request[r].at THEN old.expires - request[r].at ELSE 0
    IN /\ old.expires = None <=> new.expires = None
       /\ old.expires # None => /\ new.expires >= old.expires /\ new.expires > new.created
                                /\ new.expires - new.created <= left + Day
=============================================================================
