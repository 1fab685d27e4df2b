-------------------------------- MODULE Locker --------------------------------
(***************************************************************************)
(* The distributed lock of src/src/providers/locks/Locker.ts: one Redis    *)
(* hash named "locks" whose fields are the keys now locked.  Every         *)
(* operation is one Redis command, hence one atomic step.  The hash keeps  *)
(* no owner: whoever calls unlock removes the field, and clear drops the   *)
(* whole hash.  No caller of the repository passes lock's ttlSeconds, so   *)
(* the EXPIRE branch is left out.                                          *)
(***************************************************************************)
CONSTANT Keys          \* the lock names the composing module uses

VARIABLE locks         \* the fields present in the hash "locks"

LockerTypeOK == locks \subseteq Keys

LockerInit == locks = {}

\* HSETNX answered 1: the caller now has the key.
Lock(k) ==
    /\ k \notin locks
    /\ locks' = locks \union {k}

\* HSETNX answered 0: nothing changes, the caller sees false.
LockDenied(k) ==
    /\ k \in locks
    /\ UNCHANGED locks

\* HDEL, whoever holds the key.
Unlock(k) == locks' = locks \ {k}

\* DEL of the whole hash.
Clear == locks' = {}
===============================================================================
