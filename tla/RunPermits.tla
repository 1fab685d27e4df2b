------------------------------ MODULE RunPermits ------------------------------
(***************************************************************************)
(* What a lock without owners that can be wiped from outside promises: a   *)
(* counting semaphore per key whose permits are only ever added.  A run    *)
(* enters while a permit is free, any runs may leave together (a crash     *)
(* takes all runs of a process), and permits appear one at a time per key. *)
(***************************************************************************)
EXTENDS Naturals, FiniteSets

CONSTANTS Keys, Runs

VARIABLES running,     \* key -> the runs inside
          permits      \* key -> how many may be inside at once

pvars == <<running, permits>>

Init ==
    /\ running = [k \in Keys |-> {}]
    /\ permits = [k \in Keys |-> 1]

Enter(k, r) ==
    /\ r \notin running[k]
    /\ Cardinality(running[k]) < permits[k]
    /\ running' = [running EXCEPT ![k] = @ \union {r}]
    /\ UNCHANGED permits

Leave(S) ==
    /\ running' = [k \in Keys |-> running[k] \ S]
    /\ UNCHANGED permits

Grant(K) ==
    /\ permits' = [k \in Keys |-> IF k \in K THEN permits[k] + 1 ELSE permits[k]]
    /\ UNCHANGED running

Next ==
    \/ \E k \in Keys, r \in Runs : Enter(k, r)
    \/ \E S \in SUBSET Runs : Leave(S)
    \/ \E K \in SUBSET Keys : Grant(K)

Spec == Init /\ [][Next]_pvars
===============================================================================
