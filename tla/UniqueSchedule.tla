---------------------------- MODULE UniqueSchedule ----------------------------
(***************************************************************************)
(* Unique cron jobs: CronJobScheduler.uniqueSchedule run by every process  *)
(* that schedules crons, over the lock of Locker, together with the boot   *)
(* sequence of those processes (server.ts starts the crons first and only  *)
(* later runs ServerBootstrap.execOneTimeOperations, which clears ALL      *)
(* locks) and their crashes, which leave a held key behind.                *)
(*                                                                         *)
(* A run r \in Runs is one invocation of a node-cron callback: job JobOf[r]*)
(* fired in process ProcOf[r].  Two runs of one job may belong to one      *)
(* process, since node-cron fires again while the last task still runs.    *)
(***************************************************************************)
EXTENDS Locker, Naturals, FiniteSets

CONSTANTS Procs,      \* processes that schedule crons (one per node)
          Runs,       \* slots for cron invocations
          JobOf,      \* the cron id of a run; its lock key is the id
          ProcOf,     \* the process a run fires in
          MaxFaults   \* bound on crashes (so on boots) and failed unlocks

ASSUME UniqueScheduleAssumption ==
    /\ IsFiniteSet(Runs)
    /\ JobOf \in [Runs -> Keys]
    /\ ProcOf \in [Runs -> Procs]
    /\ MaxFaults \in Nat

VARIABLES phase,      \* process -> "down", "booting" (crons on), "up"
          pc,         \* run -> "idle", "task" (lock held), "finally"
          wiped,      \* history: key -> clears that removed it while set
          lost,       \* history: held keys whose unlock failed, since a clear
          faults      \* crashes and failed unlocks so far

vars == <<locks, phase, pc, wiped, lost, faults>>

Busy(r) == pc[r] \in {"task", "finally"}

\* The runs of job k between their lock and their unlock.
Active(k) == {r \in Runs : JobOf[r] = k /\ Busy(r)}

Init ==
    /\ LockerInit
    /\ phase = [p \in Procs |-> "down"]
    /\ pc = [r \in Runs |-> "idle"]
    /\ wiped = [k \in Keys |-> 0]
    /\ lost = {}
    /\ faults = 0

\* server.ts: connect, then cronJobs.start() schedules the crons.
Boot(p) ==
    /\ phase[p] = "down"
    /\ phase' = [phase EXCEPT ![p] = "booting"]
    /\ UNCHANGED <<locks, pc, wiped, lost, faults>>

\* Mutant of BootClear: the boot leaves the locks of dead processes in place.
BootKeepsLocks(p) ==
    /\ phase[p] = "booting"
    /\ phase' = [phase EXCEPT ![p] = "up"]
    /\ UNCHANGED <<locks, pc, wiped, lost, faults>>

\* The last one-time operation of a boot: every lock of every process goes.
BootClear(p) ==
    /\ phase[p] = "booting"
    /\ phase' = [phase EXCEPT ![p] = "up"]
    /\ Clear
    /\ wiped' = [k \in Keys |-> IF k \in locks THEN wiped[k] + 1 ELSE wiped[k]]
    /\ lost' = {}
    /\ UNCHANGED <<pc, faults>>

\* Mutants of Fire: the answer of the lock is ignored; the task is not awaited,
\* so that the finally block runs while it has just begun.
FireUnchecked(r) ==
    /\ phase[ProcOf[r]] # "down"
    /\ pc[r] = "idle"
    /\ locks' = locks \union {JobOf[r]}
    /\ pc' = [pc EXCEPT ![r] = "task"]
    /\ UNCHANGED <<phase, wiped, lost, faults>>

FireUnawaited(r) ==
    /\ phase[ProcOf[r]] # "down"
    /\ pc[r] = "idle"
    /\ JobOf[r] \notin locks
    /\ pc' = [pc EXCEPT ![r] = "task"]
    /\ UNCHANGED <<locks, phase, wiped, lost, faults>>

\* The callback fires and gets the lock; otherwise it returns before its try
\* and changes nothing (Denied).
Fire(r) ==
    /\ phase[ProcOf[r]] # "down"
    /\ pc[r] = "idle"
    /\ Lock(JobOf[r])
    /\ pc' = [pc EXCEPT ![r] = "task"]
    /\ UNCHANGED <<phase, wiped, lost, faults>>

Denied(r) ==
    /\ phase[ProcOf[r]] # "down"
    /\ pc[r] = "idle"
    /\ LockDenied(JobOf[r])
    /\ UNCHANGED <<phase, pc, wiped, lost, faults>>

\* The task returned, or threw and was logged: on to the finally block.
Finish(r) ==
    /\ pc[r] = "task"
    /\ pc' = [pc EXCEPT ![r] = "finally"]
    /\ UNCHANGED <<locks, phase, wiped, lost, faults>>

Release(r) ==
    /\ pc[r] = "finally"
    /\ Unlock(JobOf[r])
    /\ pc' = [pc EXCEPT ![r] = "idle"]
    /\ lost' = lost \ {JobOf[r]}
    /\ UNCHANGED <<phase, wiped, faults>>

\* Redis rejects the HDEL: the callback's promise rejects, the key stays set.
UnlockFails(r) ==
    /\ pc[r] = "finally"
    /\ faults < MaxFaults
    /\ faults' = faults + 1
    /\ pc' = [pc EXCEPT ![r] = "idle"]
    /\ lost' = lost \union ({JobOf[r]} \cap locks)
    /\ UNCHANGED <<locks, phase, wiped>>

\* The process dies (or exits on SIGTERM, whose handler releases no lock); its
\* runs vanish and the hash in Redis stays as it is.
Crash(p) ==
    /\ phase[p] # "down"
    /\ faults < MaxFaults
    /\ faults' = faults + 1
    /\ phase' = [phase EXCEPT ![p] = "down"]
    /\ pc' = [r \in Runs |-> IF ProcOf[r] = p THEN "idle" ELSE pc[r]]
    /\ UNCHANGED <<locks, wiped, lost>>

Next ==
    \/ \E p \in Procs : Boot(p) \/ BootClear(p) \/ Crash(p)
    \/ \E r \in Runs : 
         \/ Fire(r) \/ Denied(r) \/ Finish(r) \/ Release(r) \/ UnlockFails(r)

Spec == Init /\ [][Next]_vars

\* pm2 restarts what died, a boot runs to its end, tasks end and their finally
\* block runs.  The crons of a job tick every minute in every process, so a key
\* that stays free while some process schedules the job is taken by one of them
\* (which one is not promised).
Fairness ==
    /\ \A p \in Procs : WF_vars(Boot(p)) /\ WF_vars(BootClear(p))
    /\ \A r \in Runs : WF_vars(Finish(r)) /\ WF_vars(Release(r))
    /\ \A k \in Keys : WF_vars(\E r \in Runs : JobOf[r] = k /\ Fire(r))

FairSpec == Spec /\ Fairness

-------------------------------------------------------------------------------
TypeOK ==
    /\ LockerTypeOK
    /\ phase \in [Procs -> {"down", "booting", "up"}]
    /\ pc \in [Runs -> {"idle", "task", "finally"}]
    /\ wiped \in [Keys -> Nat]
    /\ lost \subseteq Keys
    /\ faults \in Nat

\* What the comment on uniqueSchedule (CronJobScheduler.ts:12) promises: a unique job
\* "will only run in a single instance or node".  A boot that clears the lock of a run
\* under way lets a run of another node in, and the promise is broken.
SingleInstance ==
    \A k \in Keys : \A r, q \in Active(k) : ProcOf[r] = ProcOf[q]

\* What the lock delivers instead: a boot that clears a held key lets one
\* more run in, and the surplus is never worked off, for each surplus run's unlock
\* removes the lock of the next one.  So the runs of a job that overlap exceed
\* one by at most the number of boots that wiped its key.
OverlapBound == \A k \in Keys : Cardinality(Active(k)) <= 1 + wiped[k]

\* The inductive form: a run that is Active is paid for by the key being set or
\* by a clear that removed it.
PermitsCovered ==
    \A k \in Keys :
        Cardinality(Active(k)) <= wiped[k] + (IF k \in locks THEN 1 ELSE 0)

\* A crash of the holder leaves the key set with nobody to remove it; the next
\* boot of any process does.  So no job is shut out for good, except by an unlock
\* that failed, and then only until the next boot or a surplus run's unlock.
JobRunsAgain == \A k \in Keys : []<>(Active(k) # {} \/ k \in lost)

\* Refinement: the runs of a job behave as holders of a counting semaphore with
\* one permit plus one for each clear that removed the held key.
Permits == INSTANCE RunPermits WITH
               running <- [k \in Keys |-> Active(k)],
               permits <- [k \in Keys |-> 1 + wiped[k]]

ImplementsPermits == Permits!Spec
===============================================================================
