------------------------------ MODULE Permits ------------------------------
(***************************************************************************)
(* What the parallel strategy promises, without semaphores: for every key  *)
(* a pool of Limit[k] permits.  A step gives at most one permit, and only  *)
(* when the pool has one; it may take back any number of them, since a     *)
(* process's death releases all that its contexts hold.                    *)
(***************************************************************************)
EXTENDS Integers, FiniteSets

CONSTANTS Keys, Clients, Limit

VARIABLE holders     \* the clients that have a permit of each key

Init == holders = [k \in Keys |-> {}]

\* Client c gets a permit of k, and loses what it holds of another key.
Grant(c, k) ==
  /\ c \notin holders[k] /\ Cardinality(holders[k]) < Limit[k]
  /\ holders' = [j \in Keys |-> (holders[j] \ {c}) \cup (IF j = k THEN {c} ELSE {})]

\* Permits are taken back: removing a key's semaphore takes all of them.
Revoke ==
  /\ holders' \in [Keys -> SUBSET Clients]
  /\ \A k \in Keys : holders'[k] \subseteq holders[k]

Next == Revoke \/ \E c \in Clients, k \in Keys : Grant(c, k)

Spec == Init /\ [][Next]_holders
=============================================================================
