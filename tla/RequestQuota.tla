---------------------------- MODULE RequestQuota ----------------------------
(***************************************************************************)
(* What a rate limiter promises, as if checking a request were one step: a *)
(* request that asks takes a seat of the present window, or finds all of   *)
(* them taken; its answer says which, unless a failure answers in place    *)
(* of the limiter.  Answers may come after the window they speak of.       *)
(***************************************************************************)
EXTENDS Naturals, FiniteSets

CONSTANTS
  Requests,    \* requests of one client
  MaxRequests, \* seats of a window
  Failures     \* answers given when the limiter fails

VARIABLES
  seated, \* the requests with a seat in the present window
  claim,  \* by request: "none" before it asked, then "seat" or "full"
  answer  \* by request: "none", or its answer

quota == <<seated, claim, answer>>

Init == /\ seated = {}
        /\ claim = [r \in Requests |-> "none"]
        /\ answer = [r \in Requests |-> "none"]

\* Request r takes a seat, if there is one, or finds the window full.
Ask(r) ==
  /\ claim[r] = "none"
  /\ \/ /\ Cardinality(seated) < MaxRequests
        /\ seated' = seated \cup {r}
        /\ claim' = [claim EXCEPT ![r] = "seat"]
     \/ /\ Cardinality(seated) = MaxRequests
        /\ claim' = [claim EXCEPT ![r] = "full"]
        /\ UNCHANGED seated

\* What request r may be answered when its claim is c.
Answers(c) == Failures \cup CASE c = "seat" -> {"allowed"}
                              [] c = "full" -> {"limited"}
                              [] OTHER -> {}

\* Request r is answered, once.
Reply(r) ==
  /\ answer[r] = "none"
  /\ \E a \in Answers(claim'[r]) : answer' = [answer EXCEPT ![r] = a]

\* A request asks, is answered, or both at once; after a failure it does not ask any more.
Step(r) ==
  /\ answer[r] = "none"
  /\ \/ Ask(r) /\ (UNCHANGED answer \/ Reply(r))
     \/ Reply(r) /\ UNCHANGED <<seated, claim>>

\* A new window: every seat is free again.
Renew == seated' = {} /\ UNCHANGED <<claim, answer>>

Next == Renew \/ \E r \in Requests : Step(r)

Spec == Init /\ [][Next]_quota
=============================================================================
