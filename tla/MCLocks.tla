------------------------------- MODULE MCLocks -------------------------------
(* UniqueSchedule and EventLock in one run, over two keys of the hash of locks: *)
(* a behaviour follows the cron jobs or the events.  The first node fires the   *)
(* queue cron twice at once (its task may outlast the minute), the second both  *)
(* crons; one event of a character comes in three calls to two processes, and   *)
(* a second event has a lock those must not touch.                              *)
EXTENDS UniqueSchedule, EventLock, TLC

CONSTANTS n1, n2, k1, k2, a1, a2, b1, b2, x1, x2, x3, y1

MCProcs == {n1, n2}
MCKeys == {k1, k2}
MCRuns == {a1, a2, b1, b2}
MCJobOf == (a1 :> k1) @@ (a2 :> k1) @@ (b1 :> k1) @@ (b2 :> k2)
MCProcOf == (a1 :> n1) @@ (a2 :> n1) @@ (b1 :> n2) @@ (b2 :> n2)
MCCalls == {x1, x2, x3, y1}
MCEventOf == (x1 :> k1) @@ (x2 :> k1) @@ (x3 :> k1) @@ (y1 :> k2)
MCServerOf == (x1 :> n1) @@ (x2 :> n1) @@ (x3 :> n2) @@ (y1 :> n2)

VARIABLE focus

cronVars == <<phase, pc, wiped, lost, faults>>
eventVars == <<doing, stray, crashes>>

MCInit == Init /\ GuardInit /\ focus \in {"crons", "events"}

Crons(A) == focus = "crons" /\ A /\ UNCHANGED <<eventVars, focus>>
Events(A) == focus = "events" /\ A /\ UNCHANGED <<cronVars, focus>>

MCNext == Crons(Next) \/ Events(GuardNext)

\* The fairness of either, in the behaviours that follow it.
MCSpec ==
    /\ MCInit /\ [][MCNext]_<<locks, cronVars, eventVars, focus>>
    /\ \A p \in Procs : WF_vars(Crons(Boot(p))) /\ WF_vars(Crons(BootClear(p)))
    /\ \A r \in Runs : WF_vars(Crons(Finish(r))) /\ WF_vars(Crons(Release(r)))
    /\ \A k \in Keys : WF_vars(Crons(\E r \in Runs : JobOf[r] = k /\ Fire(r)))
    /\ \A c \in Calls :
        WF_guardVars(Events(CallbackDone(c))) /\ WF_guardVars(Events(ReleaseEvent(c)))

\* JobRunsAgain, in the behaviours that follow the cron jobs.
CronsRunAgain == focus = "crons" => JobRunsAgain
===============================================================================
