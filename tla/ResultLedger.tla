---------------------------- MODULE ResultLedger ----------------------------
(***************************************************************************)
(* What a batch job promises of its results, whatever its queue, its       *)
(* retries and its failures: the runs of an attempt are committed in the   *)
(* order of the items, each once; what is published is exactly the items   *)
(* some attempt has committed by then, and that attempt adds none after.   *)
(***************************************************************************)
EXTENDS Naturals

CONSTANTS
  Attempts,  \* numbers of the attempts
  Items,     \* numbers of the items
  None       \* nothing is published

VARIABLES
  committed, \* the runs in the database, by attempt and item
  published  \* the attempt whose results are published, and its completed items

Open(t) == published = None \/ published.try # t

Init == committed = {} /\ published = None

\* Attempt t commits the run of item i.
Commit(t, i) ==
  /\ Open(t)
  /\ \A r \in committed : r.try = t => r.item < i
  /\ committed' = committed \cup {[try |-> t, item |-> i]}
  /\ UNCHANGED published

\* Attempt t publishes its results, in the place of what an earlier one may have published.
Publish(t) ==
  /\ Open(t)
  /\ published' = [try |-> t, done |-> {i \in Items : [try |-> t, item |-> i] \in committed}]
  /\ UNCHANGED committed

Next == \E t \in Attempts : Publish(t) \/ \E i \in Items : Commit(t, i)

Spec == Init /\ [][Next]_<<committed, published>>
=============================================================================
