---------------------------- MODULE StreamDelivery ----------------------------
(***************************************************************************)
(* What a Redis stream read by one consumer group promises for each entry: *)
(* it waits, some reader takes it, its callback succeeds; at most once     *)
(* each, never back.  An entry is lost only by a fault, and without faults *)
(* in its way it is settled.                                               *)
(***************************************************************************)
EXTENDS Naturals

CONSTANTS Entries

VARIABLES fate,      \* entry -> where it stands
          losses     \* faults so far that may lose entries

dvars == <<fate, losses>>

Fates == {"unborn", "queued", "taken", "handled", "lost"}

Init ==
    /\ fate = [e \in Entries |-> "unborn"]
    /\ losses = 0

Move(S, from, to) ==
    /\ S # {} /\ \A e \in S : fate[e] \in from
    /\ fate' = [e \in Entries |-> IF e \in S THEN to ELSE fate[e]]

Add(e) == Move({e}, {"unborn"}, "queued") /\ UNCHANGED losses

Take(S) == Move(S, {"queued"}, "taken") /\ UNCHANGED losses

Handle(e) == Move({e}, {"taken"}, "handled") /\ UNCHANGED losses

Lose(S) == Move(S, {"queued", "taken"}, "lost") /\ losses' = losses + 1

Fault == losses' = losses + 1 /\ UNCHANGED fate

Next ==
    \/ \E e \in Entries : Add(e) \/ Handle(e)
    \/ \E S \in SUBSET Entries : Take(S) \/ Lose(S)
    \/ Fault

Spec == Init /\ [][Next]_dvars
===============================================================================
