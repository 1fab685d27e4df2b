------------------------------- MODULE LocksProofs ------------------------------
(***************************************************************************)
(* Proofs about the two users of Locker: UniqueSchedule for every set of   *)
(* processes, runs and keys, and EventLock for every set of servers, calls *)
(* and events and every bound.                                             *)
(***************************************************************************)
EXTENDS UniqueSchedule, EventLock, FiniteSetTheorems, TLAPS

(* UniqueSchedule.                                                           *)

\* The runs of a key are finitely many, before and after any step.
LEMMA ActiveFinite ==
    ASSUME NEW k \in Keys
    PROVE  /\ IsFiniteSet(Active(k)) /\ Cardinality(Active(k)) \in Nat
           /\ IsFiniteSet(Active(k)') /\ Cardinality(Active(k)') \in Nat
<1>1. /\ Active(k) \subseteq Runs
      /\ Active(k)' \subseteq Runs
  BY DEF Active
<1>2. IsFiniteSet(Active(k)) /\ IsFiniteSet(Active(k)')
  BY <1>1, FS_Subset, UniqueScheduleAssumption
<1>. QED
  BY <1>2, FS_CardinalityType

\* Type correctness of the composed lock, cron and boot state.
THEOREM TypeCorrect == Spec => []TypeOK
<1>. USE UniqueScheduleAssumption DEF TypeOK, LockerTypeOK
<1>1. Init => TypeOK
  BY DEF Init, LockerInit
<1>2. TypeOK /\ [Next]_vars => TypeOK'
  <2>. SUFFICES ASSUME TypeOK, [Next]_vars
                PROVE  TypeOK'
    OBVIOUS
  <2>1. ASSUME NEW p \in Procs, Boot(p)
        PROVE  TypeOK'
    BY <2>1 DEF Boot
  <2>2. ASSUME NEW p \in Procs, BootClear(p)
        PROVE  TypeOK'
    BY <2>2 DEF BootClear, Clear
  <2>3. ASSUME NEW p \in Procs, Crash(p)
        PROVE  TypeOK'
    BY <2>3 DEF Crash
  <2>4. ASSUME NEW r \in Runs, Fire(r)
        PROVE  TypeOK'
    BY <2>4 DEF Fire, Lock
  <2>5. ASSUME NEW r \in Runs, Denied(r)
        PROVE  TypeOK'
    BY <2>5 DEF Denied, LockDenied
  <2>6. ASSUME NEW r \in Runs, Finish(r)
        PROVE  TypeOK'
    BY <2>6 DEF Finish
  <2>7. ASSUME NEW r \in Runs, Release(r)
        PROVE  TypeOK'
    BY <2>7 DEF Release, Unlock
  <2>8. ASSUME NEW r \in Runs, UnlockFails(r)
        PROVE  TypeOK'
    BY <2>8 DEF UnlockFails
  <2>9. CASE UNCHANGED vars
    BY <2>9 DEF vars
  <2>. QED
    BY <2>1, <2>2, <2>3, <2>4, <2>5, <2>6, <2>7, <2>8, <2>9 DEF Next
<1>. QED
  BY <1>1, <1>2, PTL DEF Spec

\* A cron that gets the lock adds its run to those of its key, and to no other.
LEMMA FireAdds ==
    ASSUME TypeOK, NEW r \in Runs, Fire(r), NEW k \in Keys
    PROVE  /\ k = JobOf[r] => /\ r \notin Active(k)
                              /\ Active(k)' = Active(k) \union {r}
           /\ k # JobOf[r] => Active(k)' = Active(k)
  BY DEF TypeOK, Fire, Active, Busy

\* The finally block takes exactly its own run out of its key, whether Redis
\* accepts the unlock or not.
LEMMA ReleaseRemoves ==
    ASSUME TypeOK, NEW r \in Runs, Release(r) \/ UnlockFails(r), NEW k \in Keys
    PROVE  /\ k = JobOf[r] => /\ r \in Active(k)
                              /\ Active(k)' = Active(k) \ {r}
           /\ k # JobOf[r] => Active(k)' = Active(k)
  BY DEF TypeOK, Release, UnlockFails, Active, Busy

\* A crash takes the runs of its process out of every key.
LEMMA CrashRemoves ==
    ASSUME NEW p \in Procs, Crash(p), NEW k \in Keys
    PROVE  Active(k)' = Active(k) \ {r \in Runs : ProcOf[r] = p}
  BY DEF Crash, Active, Busy

\* A task that ends stays counted until its finally block has run.
LEMMA FinishKeeps ==
    ASSUME TypeOK, NEW r \in Runs, Finish(r), NEW k \in Keys
    PROVE  Active(k)' = Active(k)
  BY DEF TypeOK, Finish, Active, Busy

\* PermitsCovered, read for one key.
Covered(k) ==
    Cardinality(Active(k)) <= wiped[k] + (IF k \in locks THEN 1 ELSE 0)

\* No step breaks the account of one key: a run enters only by setting the key, a
\* key goes away by a run leaving or by a clear, and the clear is counted.
LEMMA CoveredStep ==
    ASSUME TypeOK, TypeOK', NEW k \in Keys, Covered(k), [Next]_vars
    PROVE  Covered(k)'
<1>0. /\ IsFiniteSet(Active(k)) /\ Cardinality(Active(k)) \in Nat
      /\ IsFiniteSet(Active(k)') /\ Cardinality(Active(k)') \in Nat
      /\ wiped[k] \in Nat /\ wiped'[k] \in Nat
  BY ActiveFinite DEF TypeOK
<1>. USE <1>0 DEF Covered
<1>1. ASSUME NEW p \in Procs, Boot(p)
      PROVE  Covered(k)'
  BY <1>1 DEF Boot, Active, Busy
<1>2. ASSUME NEW p \in Procs, BootClear(p)
      PROVE  Covered(k)'
  <2>1. Active(k)' = Active(k)
    BY <1>2 DEF BootClear, Active, Busy
  <2>2. k \notin locks'
    BY <1>2 DEF BootClear, Clear
  <2>3. wiped'[k] = IF k \in locks THEN wiped[k] + 1 ELSE wiped[k]
    BY <1>2 DEF BootClear
  <2>. QED
    BY <2>1, <2>2, <2>3
<1>3. ASSUME NEW p \in Procs, Crash(p)
      PROVE  Covered(k)'
  <2>1. Active(k)' \subseteq Active(k)
    BY <1>3, CrashRemoves
  <2>2. Cardinality(Active(k)') <= Cardinality(Active(k))
    BY <2>1, FS_Subset
  <2>3. UNCHANGED <<locks, wiped>>
    BY <1>3 DEF Crash
  <2>. QED
    BY <2>2, <2>3
<1>4. ASSUME NEW r \in Runs, Fire(r)
      PROVE  Covered(k)'
  <2>1. CASE k = JobOf[r]
    <3>1. Cardinality(Active(k)') = Cardinality(Active(k)) + 1
      BY <2>1, <1>4, FireAdds, FS_AddElement
    <3>2. k \notin locks /\ k \in locks' /\ wiped' = wiped
      BY <2>1, <1>4 DEF Fire, Lock
    <3>. QED
      BY <3>1, <3>2
  <2>2. CASE k # JobOf[r]
    <3>1. Active(k)' = Active(k)
      BY <2>2, <1>4, FireAdds
    <3>2. (k \in locks' <=> k \in locks) /\ wiped' = wiped
      BY <2>2, <1>4 DEF Fire, Lock
    <3>. QED
      BY <3>1, <3>2
  <2>. QED
    BY <2>1, <2>2
<1>5. ASSUME NEW r \in Runs, Denied(r)
      PROVE  Covered(k)'
  BY <1>5 DEF Denied, LockDenied, Active, Busy
<1>6. ASSUME NEW r \in Runs, Finish(r)
      PROVE  Covered(k)'
  <2>1. UNCHANGED <<locks, wiped>>
    BY <1>6 DEF Finish
  <2>. QED
    BY <2>1, <1>6, FinishKeeps
<1>7. ASSUME NEW r \in Runs, Release(r)
      PROVE  Covered(k)'
  <2>1. CASE k = JobOf[r]
    <3>1. Cardinality(Active(k)') = Cardinality(Active(k)) - 1
      BY <2>1, <1>7, ReleaseRemoves, FS_RemoveElement
    <3>2. k \notin locks' /\ wiped' = wiped
      BY <2>1, <1>7 DEF Release, Unlock
    <3>. QED
      BY <3>1, <3>2
  <2>2. CASE k # JobOf[r]
    <3>1. Active(k)' = Active(k)
      BY <2>2, <1>7, ReleaseRemoves
    <3>2. (k \in locks' <=> k \in locks) /\ wiped' = wiped
      BY <2>2, <1>7 DEF Release, Unlock
    <3>. QED
      BY <3>1, <3>2
  <2>. QED
    BY <2>1, <2>2
<1>8. ASSUME NEW r \in Runs, UnlockFails(r)
      PROVE  Covered(k)'
  <2>1. Active(k)' \subseteq Active(k)
    BY <1>8, ReleaseRemoves
  <2>2. Cardinality(Active(k)') <= Cardinality(Active(k))
    BY <2>1, FS_Subset
  <2>3. UNCHANGED <<locks, wiped>>
    BY <1>8 DEF UnlockFails
  <2>. QED
    BY <2>2, <2>3
<1>9. CASE UNCHANGED vars
  BY <1>9 DEF vars, Active, Busy
<1>. QED
  BY <1>1, <1>2, <1>3, <1>4, <1>5, <1>6, <1>7, <1>8, <1>9 DEF Next

\* The inductive invariant: every run that is active is paid for by the key being
\* set or by a clear that removed it.
THEOREM PermitsAlwaysCovered == Spec => []PermitsCovered
<1>1. Init => PermitsCovered
  <2>. SUFFICES ASSUME Init, NEW k \in Keys
                PROVE  Covered(k)
    BY DEF PermitsCovered, Covered
  <2>1. Active(k) = {}
    BY DEF Init, Active, Busy
  <2>. QED
    BY <2>1, FS_EmptySet DEF Init, LockerInit, Covered
<1>2. TypeOK /\ TypeOK' /\ PermitsCovered /\ [Next]_vars => PermitsCovered'
  <2>. SUFFICES ASSUME TypeOK, TypeOK', PermitsCovered, [Next]_vars, NEW k \in Keys
                PROVE  Covered(k)'
    BY DEF PermitsCovered, Covered
  <2>1. Covered(k)
    BY DEF PermitsCovered, Covered
  <2>. QED
    BY <2>1, CoveredStep
<1>. QED
  BY <1>1, <1>2, TypeCorrect, PTL DEF Spec

\* Runs of one cron job overlap by at most the number of boots that cleared its
\* held key; with none, uniqueSchedule keeps the promise of its comment.
THEOREM OverlapIsBounded == Spec => []OverlapBound
<1>1. TypeOK /\ PermitsCovered => OverlapBound
  <2>. SUFFICES ASSUME TypeOK, PermitsCovered, NEW k \in Keys
                PROVE  Cardinality(Active(k)) <= 1 + wiped[k]
    BY DEF OverlapBound
  <2>1. Cardinality(Active(k)) \in Nat /\ wiped[k] \in Nat
    BY ActiveFinite DEF TypeOK
  <2>. QED
    BY <2>1 DEF PermitsCovered
<1>. QED
  BY <1>1, TypeCorrect, PermitsAlwaysCovered, PTL

\* A cron that gets the lock enters the semaphore: a permit is free because the
\* key is not set (PermitsCovered).
LEMMA EnterImplemented ==
    ASSUME TypeOK, PermitsCovered, NEW r \in Runs, Fire(r)
    PROVE  Permits!Next
<1>. DEFINE k == JobOf[r]
<1>1. k \in Keys
  BY UniqueScheduleAssumption
<1>2. r \notin Active(k) /\ Active(k)' = Active(k) \union {r}
  BY <1>1, FireAdds
<1>3. \A j \in Keys : j # k => Active(j)' = Active(j)
  BY FireAdds
<1>4. Cardinality(Active(k)) < 1 + wiped[k]
  <2>1. k \notin locks
    BY DEF Fire, Lock
  <2>2. Cardinality(Active(k)) \in Nat /\ wiped[k] \in Nat
    BY <1>1, ActiveFinite DEF TypeOK
  <2>. QED
    BY <1>1, <2>1, <2>2 DEF PermitsCovered
<1>5. wiped' = wiped
  BY DEF Fire
<1>. HIDE DEF k
<1>6. Permits!Cardinality(Active(k)) = Cardinality(Active(k))
  BY DEF Permits!Cardinality, Cardinality
<1>7. Permits!Enter(k, r)
  BY <1>1, <1>2, <1>3, <1>4, <1>5, <1>6 DEF Permits!Enter
<1>. QED
  BY <1>1, <1>7 DEF Permits!Next

\* Runs that end or die leave the semaphore together.
LEMMA LeaveImplemented ==
    ASSUME NEW S \in SUBSET Runs, wiped' = wiped,
           \A k \in Keys : Active(k)' = Active(k) \ S
    PROVE  Permits!Next
<1>1. Permits!Leave(S)
  BY DEF Permits!Leave
<1>. QED
  BY <1>1 DEF Permits!Next

\* A step that keeps the runs and the clears is a stutter of the semaphore.
LEMMA ActiveKept ==
    ASSUME wiped' = wiped, \A k \in Keys : Active(k)' = Active(k)
    PROVE  UNCHANGED Permits!pvars
  BY DEF Permits!pvars

\* The cron scheduler implements the counting semaphore RunPermits: one permit
\* per job, plus one for every clear that removed the held key.
THEOREM SchedulerImplementsPermits == Spec => ImplementsPermits
<1>1. Init => Permits!Init
  BY DEF Init, Permits!Init, Active, Busy
<1>2. TypeOK /\ PermitsCovered /\ [Next]_vars => [Permits!Next]_(Permits!pvars)
  <2>. SUFFICES ASSUME TypeOK, PermitsCovered, [Next]_vars
                PROVE  Permits!Next \/ UNCHANGED Permits!pvars
    OBVIOUS
  <2>1. ASSUME NEW p \in Procs, Boot(p)
        PROVE  UNCHANGED Permits!pvars
    BY <2>1, ActiveKept DEF Boot, Active, Busy
  <2>2. ASSUME NEW p \in Procs, BootClear(p)
        PROVE  Permits!Next
    <3>1. \A k \in Keys : Active(k)' = Active(k)
      BY <2>2 DEF BootClear, Active, Busy
    <3>2. PICK K \in SUBSET Keys : K = locks
      BY DEF TypeOK, LockerTypeOK
    <3>3. \A k \in Keys :
            1 + wiped'[k] = IF k \in K THEN (1 + wiped[k]) + 1 ELSE 1 + wiped[k]
      BY <2>2, <3>2 DEF BootClear, TypeOK
    <3>4. Permits!Grant(K)
      BY <3>1, <3>3 DEF Permits!Grant
    <3>. QED
      BY <3>4 DEF Permits!Next
  <2>3. ASSUME NEW p \in Procs, Crash(p)
        PROVE  Permits!Next
    <3>1. {r \in Runs : ProcOf[r] = p} \in SUBSET Runs
      OBVIOUS
    <3>2. wiped' = wiped
      BY <2>3 DEF Crash
    <3>. QED
      BY <2>3, <3>1, <3>2, CrashRemoves, LeaveImplemented
  <2>4. ASSUME NEW r \in Runs, Fire(r)
        PROVE  Permits!Next
    BY <2>4, EnterImplemented
  <2>5. ASSUME NEW r \in Runs, Denied(r)
        PROVE  UNCHANGED Permits!pvars
    BY <2>5, ActiveKept DEF Denied, Active, Busy
  <2>6. ASSUME NEW r \in Runs, Finish(r)
        PROVE  UNCHANGED Permits!pvars
    <3>1. wiped' = wiped
      BY <2>6 DEF Finish
    <3>. QED
      BY <2>6, <3>1, FinishKeeps, ActiveKept
  <2>7. ASSUME NEW r \in Runs, Release(r) \/ UnlockFails(r)
        PROVE  Permits!Next
    <3>1. \A k \in Keys : Active(k)' = Active(k) \ {r}
      <4>. SUFFICES ASSUME NEW k \in Keys
                    PROVE  Active(k)' = Active(k) \ {r}
        OBVIOUS
      <4>1. CASE k = JobOf[r]
        BY <2>7, <4>1, ReleaseRemoves
      <4>2. CASE k # JobOf[r]
        BY <2>7, <4>2, ReleaseRemoves DEF Active
      <4>. QED
        BY <4>1, <4>2
    <3>2. wiped' = wiped
      BY <2>7 DEF Release, UnlockFails
    <3>. QED
      BY <3>1, <3>2, LeaveImplemented
  <2>8. CASE UNCHANGED vars
    BY <2>8, ActiveKept DEF vars, Active, Busy
  <2>. QED
    BY <2>1, <2>2, <2>3, <2>4, <2>5, <2>6, <2>7, <2>8 DEF Next
<1>. QED
  BY <1>1, <1>2, TypeCorrect, PermitsAlwaysCovered, PTL DEF Spec, Permits!Spec, ImplementsPermits

-------------------------------------------------------------------------------
(* EventLock.                                                                *)

\* The calls inside an event are finitely many, before and after any step.
LEMMA InsideFinite ==
    ASSUME NEW k \in Keys
    PROVE  /\ IsFiniteSet(Inside(k)) /\ Cardinality(Inside(k)) \in Nat
           /\ IsFiniteSet(Inside(k)') /\ Cardinality(Inside(k)') \in Nat
<1>1. /\ Inside(k) \subseteq Calls
      /\ Inside(k)' \subseteq Calls
  BY DEF Inside
<1>2. IsFiniteSet(Inside(k)) /\ IsFiniteSet(Inside(k)')
  BY <1>1, FS_Subset, EventLockAssumption
<1>. QED
  BY <1>2, FS_CardinalityType

\* Type correctness of the guard with its lock.
THEOREM GuardTypeCorrect == GuardSpec => []GuardTypeOK
<1>. USE EventLockAssumption DEF GuardTypeOK, LockerTypeOK
<1>1. GuardInit => GuardTypeOK
  BY DEF GuardInit, LockerInit
<1>2. GuardTypeOK /\ [GuardNext]_guardVars => GuardTypeOK'
  <2>. SUFFICES ASSUME GuardTypeOK, [GuardNext]_guardVars
                PROVE  GuardTypeOK'
    OBVIOUS
  <2>1. ASSUME NEW c \in Calls, Acquire(c)
        PROVE  GuardTypeOK'
    BY <2>1 DEF Acquire, Lock
  <2>2. ASSUME NEW c \in Calls, Deny(c)
        PROVE  GuardTypeOK'
    BY <2>2 DEF Deny, LockDenied
  <2>3. ASSUME NEW c \in Calls, LockThrows(c)
        PROVE  GuardTypeOK'
    BY <2>3 DEF LockThrows
  <2>4. ASSUME NEW c \in Calls, CallbackDone(c)
        PROVE  GuardTypeOK'
    BY <2>4 DEF CallbackDone
  <2>5. ASSUME NEW c \in Calls, ReleaseEvent(c)
        PROVE  GuardTypeOK'
    BY <2>5 DEF ReleaseEvent, Unlock
  <2>6. ASSUME NEW p \in Servers, ServerCrash(p)
        PROVE  GuardTypeOK'
    BY <2>6 DEF ServerCrash
  <2>7. CASE ClearAtBoot
    BY <2>7 DEF ClearAtBoot, Clear
  <2>8. CASE UNCHANGED guardVars
    BY <2>8 DEF guardVars
  <2>. QED
    BY <2>1, <2>2, <2>3, <2>4, <2>5, <2>6, <2>7, <2>8 DEF GuardNext
<1>. QED
  BY <1>1, <1>2, PTL DEF GuardSpec

\* A call that gets the lock is added to those inside its event, and no other.
LEMMA AcquireAdds ==
    ASSUME GuardTypeOK, NEW c \in Calls, Acquire(c), NEW k \in Keys
    PROVE  /\ k = EventOf[c] => /\ c \notin Inside(k)
                                /\ Inside(k)' = Inside(k) \union {c}
           /\ k # EventOf[c] => Inside(k)' = Inside(k)
  BY DEF GuardTypeOK, Acquire, Inside

\* The finally block of a call that was inside takes exactly that call out; that
\* of a call that never was takes nobody out.
LEMMA ReleaseLeaves ==
    ASSUME GuardTypeOK, NEW c \in Calls, ReleaseEvent(c), NEW k \in Keys
    PROVE  /\ k = EventOf[c] /\ doing[c] = "finally" => /\ c \in Inside(k)
                                                     /\ Inside(k)' = Inside(k) \ {c}
           /\ k # EventOf[c] \/ doing[c] = "denied" => Inside(k)' = Inside(k)
  BY DEF GuardTypeOK, ReleaseEvent, Inside

\* StrayCovered, read for one event.
Paid(k) ==
    stray[k] < MaxStray =>
        Cardinality(Inside(k)) <= stray[k] + (IF k \in locks THEN 1 ELSE 0)

\* No step breaks the account of one event: a call enters only by setting the key;
\* the key goes away by that call's finally block or by a release that is counted.
LEMMA PaidStep ==
    ASSUME GuardTypeOK, GuardTypeOK', NEW k \in Keys, Paid(k), [GuardNext]_guardVars
    PROVE  Paid(k)'
<1>0. /\ IsFiniteSet(Inside(k)) /\ Cardinality(Inside(k)) \in Nat
      /\ IsFiniteSet(Inside(k)') /\ Cardinality(Inside(k)') \in Nat
      /\ stray[k] \in Nat /\ stray'[k] \in Nat /\ MaxStray \in Nat
  BY InsideFinite, EventLockAssumption DEF GuardTypeOK
<1>. USE <1>0 DEF Paid
<1>1. ASSUME NEW c \in Calls, Acquire(c)
      PROVE  Paid(k)'
  <2>1. CASE k = EventOf[c]
    <3>1. Cardinality(Inside(k)') = Cardinality(Inside(k)) + 1
      BY <2>1, <1>1, AcquireAdds, FS_AddElement
    <3>2. k \notin locks /\ k \in locks' /\ stray' = stray
      BY <2>1, <1>1 DEF Acquire, Lock
    <3>. QED
      BY <3>1, <3>2
  <2>2. CASE k # EventOf[c]
    <3>1. Inside(k)' = Inside(k)
      BY <2>2, <1>1, AcquireAdds
    <3>2. (k \in locks' <=> k \in locks) /\ stray' = stray
      BY <2>2, <1>1 DEF Acquire, Lock
    <3>. QED
      BY <3>1, <3>2
  <2>. QED
    BY <2>1, <2>2
<1>2. ASSUME NEW c \in Calls, Deny(c) \/ LockThrows(c) \/ CallbackDone(c)
      PROVE  Paid(k)'
  <2>1. Inside(k)' = Inside(k)
    BY <1>2 DEF GuardTypeOK, Deny, LockThrows, CallbackDone, Inside
  <2>2. UNCHANGED <<locks, stray>>
    BY <1>2 DEF Deny, LockDenied, LockThrows, CallbackDone
  <2>. QED
    BY <2>1, <2>2
<1>3. ASSUME NEW c \in Calls, ReleaseEvent(c)
      PROVE  Paid(k)'
  <2>1. CASE k # EventOf[c]
    <3>1. Inside(k)' = Inside(k)
      BY <2>1, <1>3, ReleaseLeaves
    <3>2. (k \in locks' <=> k \in locks) /\ stray'[k] = stray[k]
      BY <2>1, <1>3 DEF ReleaseEvent, Unlock, GuardTypeOK
    <3>. QED
      BY <3>1, <3>2
  <2>2. CASE k = EventOf[c] /\ doing[c] = "finally"
    <3>1. Cardinality(Inside(k)') = Cardinality(Inside(k)) - 1
      BY <2>2, <1>3, ReleaseLeaves, FS_RemoveElement
    <3>2. k \notin locks' /\ stray' = stray
      BY <2>2, <1>3 DEF ReleaseEvent, Unlock
    <3>. QED
      BY <3>1, <3>2
  <2>3. CASE k = EventOf[c] /\ doing[c] = "denied"
    <3>1. Inside(k)' = Inside(k)
      BY <2>3, <1>3, ReleaseLeaves
    <3>2. k \notin locks'
      BY <2>3, <1>3 DEF ReleaseEvent, Unlock
    <3>3. stray'[k] = IF k \in locks /\ stray[k] < MaxStray THEN stray[k] + 1
                                                            ELSE stray[k]
      BY <2>3, <1>3 DEF ReleaseEvent, GuardTypeOK
    <3>. QED
      BY <3>1, <3>2, <3>3
  <2>. QED
    BY <2>1, <2>2, <2>3, <1>3 DEF ReleaseEvent
<1>4. ASSUME NEW p \in Servers, ServerCrash(p)
      PROVE  Paid(k)'
  <2>1. Inside(k)' \subseteq Inside(k)
    BY <1>4 DEF ServerCrash, Inside
  <2>2. Cardinality(Inside(k)') <= Cardinality(Inside(k))
    BY <2>1, FS_Subset
  <2>3. UNCHANGED <<locks, stray>>
    BY <1>4 DEF ServerCrash
  <2>. QED
    BY <2>2, <2>3
<1>5. CASE ClearAtBoot
  <2>1. Inside(k)' = Inside(k)
    BY <1>5 DEF ClearAtBoot, Inside
  <2>2. k \notin locks'
    BY <1>5 DEF ClearAtBoot, Clear
  <2>3. stray'[k] = IF k \in locks /\ stray[k] < MaxStray THEN stray[k] + 1
                                                          ELSE stray[k]
    BY <1>5 DEF ClearAtBoot
  <2>. QED
    BY <2>1, <2>2, <2>3
<1>6. CASE UNCHANGED guardVars
  BY <1>6 DEF guardVars, Inside
<1>. QED
  BY <1>1, <1>2, <1>3, <1>4, <1>5, <1>6 DEF GuardNext

\* The inductive invariant: every call inside an event is paid for by the key being
\* set or by a release by somebody who did not have it.
THEOREM StraysAlwaysCovered == GuardSpec => []StrayCovered
<1>1. GuardInit => StrayCovered
  <2>. SUFFICES ASSUME GuardInit, NEW k \in Keys
                PROVE  Paid(k)
    BY DEF StrayCovered, Paid
  <2>1. Inside(k) = {}
    BY DEF GuardInit, Inside
  <2>. QED
    BY <2>1, FS_EmptySet DEF GuardInit, LockerInit, Paid
<1>2. GuardTypeOK /\ GuardTypeOK' /\ StrayCovered /\ [GuardNext]_guardVars => StrayCovered'
  <2>. SUFFICES ASSUME GuardTypeOK, GuardTypeOK', StrayCovered, [GuardNext]_guardVars,
                       NEW k \in Keys
                PROVE  Paid(k)'
    BY DEF StrayCovered, Paid
  <2>1. Paid(k)
    BY DEF StrayCovered, Paid
  <2>. QED
    BY <2>1, PaidStep
<1>. QED
  BY <1>1, <1>2, GuardTypeCorrect, PTL DEF GuardSpec

\* Callbacks of one event overlap by at most the number of releases by somebody
\* who did not have the lock; with none, an event runs once at a time.
THEOREM GuardOverlapIsBounded == GuardSpec => []CallsOverlapBound
<1>1. GuardTypeOK /\ StrayCovered => CallsOverlapBound
  <2>. SUFFICES ASSUME GuardTypeOK, StrayCovered, NEW k \in Keys, stray[k] < MaxStray
                PROVE  Cardinality(Inside(k)) <= 1 + stray[k]
    BY DEF CallsOverlapBound
  <2>1. Cardinality(Inside(k)) \in Nat /\ stray[k] \in Nat
    BY InsideFinite DEF GuardTypeOK
  <2>. QED
    BY <2>1 DEF StrayCovered
<1>. QED
  BY <1>1, GuardTypeCorrect, StraysAlwaysCovered, PTL
===============================================================================
