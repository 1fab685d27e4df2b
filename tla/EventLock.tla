------------------------------- MODULE EventLock -------------------------------
(***************************************************************************)
(* The event guard of SocketAuthLock.performLockedEvent and of the handler *)
(* SocketAuth.authCharacterOn installs: take the lock of the event, run    *)
(* the callback, release in a finally block.  The early return of a denied *)
(* call is inside the try, so that call runs the finally block as well and *)
(* releases a lock somebody else holds.                                    *)
(*                                                                         *)
(* A call c \in Calls handles event-and-character EventOf[c] in process    *)
(* ServerOf[c]; clients send events whenever they like, so slots are       *)
(* reused.                                                                 *)
(***************************************************************************)
EXTENDS Locker, Naturals, FiniteSets

CONSTANTS Servers,     \* server processes, sharing the locks hash in Redis
          Calls,       \* slots for handler invocations
          EventOf,     \* the lock name of a call
          ServerOf,    \* the process that handles a call
          MaxStray,    \* where the history counter stray saturates
          MaxCrashes   \* bound on process crashes

ASSUME EventLockAssumption ==
    /\ IsFiniteSet(Calls)
    /\ EventOf \in [Calls -> Keys]
    /\ ServerOf \in [Calls -> Servers]
    /\ MaxStray \in Nat
    /\ MaxCrashes \in Nat

VARIABLES doing,       \* call -> "idle", "callback", "finally", "denied"
          stray,       \* history: key -> times somebody without the key released it
          crashes      \* crashes so far

guardVars == <<locks, doing, stray, crashes>>

\* The calls whose callback may be running for key k: acquired, not released.
Inside(k) == {c \in Calls : EventOf[c] = k /\ doing[c] \in {"callback", "finally"}}

GuardInit ==
    /\ LockerInit
    /\ doing = [c \in Calls |-> "idle"]
    /\ stray = [k \in Keys |-> 0]
    /\ crashes = 0

\* Mutant of Acquire: the answer of the lock is ignored.
AcquireUnchecked(c) ==
    /\ doing[c] = "idle"
    /\ locks' = locks \union {EventOf[c]}
    /\ doing' = [doing EXCEPT ![c] = "callback"]
    /\ UNCHANGED <<stray, crashes>>

Acquire(c) ==
    /\ doing[c] = "idle"
    /\ Lock(EventOf[c])
    /\ doing' = [doing EXCEPT ![c] = "callback"]
    /\ UNCHANGED <<stray, crashes>>

\* HSETNX says no: the return statement leaves the try for the finally block.
Deny(c) ==
    /\ doing[c] = "idle"
    /\ LockDenied(EventOf[c])
    /\ doing' = [doing EXCEPT ![c] = "denied"]
    /\ UNCHANGED <<stray, crashes>>

\* The lock command is rejected: catch logs it, and the finally block releases
\* a key this call never had.
LockThrows(c) ==
    /\ doing[c] = "idle"
    /\ doing' = [doing EXCEPT ![c] = "denied"]
    /\ UNCHANGED <<locks, stray, crashes>>

\* The callback settles; a rejection is caught and logged.
CallbackDone(c) ==
    /\ doing[c] = "callback"
    /\ doing' = [doing EXCEPT ![c] = "finally"]
    /\ UNCHANGED <<locks, stray, crashes>>

\* Mutant of ReleaseEvent: only the call that acquired the key releases it.
ReleaseOwned(c) ==
    /\ doing[c] \in {"finally", "denied"}
    /\ IF doing[c] = "finally" THEN Unlock(EventOf[c]) ELSE UNCHANGED locks
    /\ doing' = [doing EXCEPT ![c] = "idle"]
    /\ UNCHANGED <<stray, crashes>>

\* The finally block, run by the holder and by a denied call alike.
ReleaseEvent(c) ==
    /\ doing[c] \in {"finally", "denied"}
    /\ Unlock(EventOf[c])
    /\ stray' = IF /\ doing[c] = "denied"
                   /\ EventOf[c] \in locks
                   /\ stray[EventOf[c]] < MaxStray
                THEN [stray EXCEPT ![EventOf[c]] = @ + 1]
                ELSE stray
    /\ doing' = [doing EXCEPT ![c] = "idle"]
    /\ UNCHANGED crashes

\* A process boots and clears the locks of all processes.
ClearAtBoot ==
    /\ Clear
    /\ stray' = [k \in Keys |-> IF k \in locks /\ stray[k] < MaxStray
                               THEN stray[k] + 1 ELSE stray[k]]
    /\ UNCHANGED <<doing, crashes>>

\* A process dies and pm2 restarts it; its calls are gone, its keys stay set.
ServerCrash(p) ==
    /\ crashes < MaxCrashes
    /\ crashes' = crashes + 1
    /\ doing' = [c \in Calls |-> IF ServerOf[c] = p THEN "idle" ELSE doing[c]]
    /\ UNCHANGED <<locks, stray>>

GuardNext ==
    \/ \E c \in Calls :
         Acquire(c) \/ Deny(c) \/ LockThrows(c) \/ CallbackDone(c) \/ ReleaseEvent(c)
    \/ \E p \in Servers : ServerCrash(p)
    \/ ClearAtBoot

GuardSpec == GuardInit /\ [][GuardNext]_guardVars

\* Callbacks settle and finally blocks run; nobody has to send events.
GuardFairness ==
    \A c \in Calls : WF_guardVars(CallbackDone(c)) /\ WF_guardVars(ReleaseEvent(c))

FairGuardSpec == GuardSpec /\ GuardFairness

-------------------------------------------------------------------------------
GuardTypeOK ==
    /\ LockerTypeOK
    /\ doing \in [Calls -> {"idle", "callback", "finally", "denied"}]
    /\ stray \in [Keys -> Nat]
    /\ crashes \in Nat

\* The guard is meant to run an event of a character once at a time.  What holds:
\* each time somebody who did not have the lock released it (a denied call, a call
\* whose lock command failed, a boot) one more callback may overlap, and nothing
\* else lets one in, no crash and no order of finally blocks.
\* (stray counts up to MaxStray, so the claim is made below that value.)
CallsOverlapBound ==
    \A k \in Keys : stray[k] < MaxStray =>
        Cardinality(Inside(k)) <= 1 + stray[k]

\* The inductive form: callbacks inside are paid for by the key or by a stray
\* release.
StrayCovered ==
    \A k \in Keys : stray[k] < MaxStray =>
        Cardinality(Inside(k)) <= stray[k] + (IF k \in locks THEN 1 ELSE 0)

\* A crashed holder leaves its key set and nothing in the guard expires.  Yet a
\* key for which calls keep coming never stays locked for good: the first denied
\* call frees it.  (The finally block that lets callbacks overlap is what heals this.)
AttemptsHeal ==
    \A k \in Keys :
        []<>(\E c \in Calls : EventOf[c] = k /\ doing[c] # "idle")
            => []<>(k \notin locks)
===============================================================================
