------------------------------- MODULE JobQueue -------------------------------
(***************************************************************************)
(* What the queue of one name promises of its jobs, whatever it takes to   *)
(* set up and tear down queues, workers and monitors: every job added is   *)
(* kept, waits, and is run once, one at a time in a process; and all that  *)
(* wait or run may be wiped, by a process that runs none of them.          *)
(***************************************************************************)
CONSTANTS Jobs, Procs, None

VARIABLES fate,      \* job -> "none", "waiting", "active", "finished", "obliterated"
          running    \* process -> the job it runs, or None

jvars == <<fate, running>>

Init ==
    /\ fate = [j \in Jobs |-> "none"]
    /\ running = [p \in Procs |-> None]

Add(j) ==
    /\ fate[j] = "none"
    /\ fate' = [fate EXCEPT ![j] = "waiting"]
    /\ UNCHANGED running

Start(p, j) ==
    /\ running[p] = None /\ fate[j] = "waiting"
    /\ fate' = [fate EXCEPT ![j] = "active"]
    /\ running' = [running EXCEPT ![p] = j]

\* A job that was wiped while it ran stays so.
Finish(p) ==
    /\ running[p] # None
    /\ fate' = [fate EXCEPT ![running[p]] = IF @ = "active" THEN "finished" ELSE @]
    /\ running' = [running EXCEPT ![p] = None]

Wipe(p) ==
    /\ running[p] = None
    /\ fate' = [j \in Jobs |-> IF fate[j] \in {"waiting", "active"}
                               THEN "obliterated" ELSE fate[j]]
    /\ UNCHANGED running

Next ==
    \/ \E j \in Jobs : Add(j)
    \/ \E p \in Procs : Finish(p) \/ Wipe(p) \/ \E j \in Jobs : Start(p, j)

Spec == Init /\ [][Next]_jvars
===============================================================================
