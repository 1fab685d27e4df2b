------------------------------ MODULE RedisPubSub ------------------------------
(***************************************************************************)
(* One channel of RedisPubSub.  Redis hands a message to every process     *)
(* that is subscribed when it is published; each then claims it with       *)
(* SET NX EX 60 under its id, and the one that succeeds runs the callback. *)
(* The repository subscribes nobody yet (addSubscribers is empty).         *)
(***************************************************************************)
EXTENDS Naturals

CONSTANTS Nodes, Texts,              \* processes, messages
          MaxExpiries, MaxLosses     \* bounds

VARIABLES
    subscribed,   \* processes subscribed to the channel
    published,    \* message -> the processes it was handed to, or {} before
    inbox, won,   \* pairs <<process, message>> to be claimed, claimed and to be run
    processed,    \* messages whose key "processed:" exists
    runs,         \* message -> callbacks run
    expiries,     \* message -> times its key expired
    losses        \* crashes and failing commands

vars == <<subscribed, published, inbox, won, processed, runs, expiries, losses>>

Init ==
    /\ subscribed = {} /\ published = [t \in Texts |-> {}]
    /\ inbox = {} /\ won = {} /\ processed = {}
    /\ runs = [t \in Texts |-> 0] /\ expiries = runs /\ losses = 0

Subscribe(p) ==
    /\ p \notin subscribed
    /\ subscribed' = subscribed \union {p}
    /\ UNCHANGED <<published, inbox, won, processed, runs, expiries, losses>>

\* Nobody subscribed, or a failing publish, which is only logged: the message is gone.
Publish(t) ==
    /\ published[t] = {} /\ subscribed # {}
    /\ published' = [published EXCEPT ![t] = subscribed]
    /\ inbox' = inbox \union (subscribed \X {t})
    /\ UNCHANGED <<subscribed, won, processed, runs, expiries, losses>>

\* Mutant of Claim: the answer of the GET in the pipeline decides.
ClaimByGet(p, t) ==
    /\ <<p, t>> \in inbox
    /\ inbox' = inbox \ {<<p, t>>}
    /\ processed' = processed \union {t}
    /\ won' = won \union {<<p, t>>}
    /\ UNCHANGED <<subscribed, published, runs, expiries, losses>>

Claim(p, t) ==
    /\ <<p, t>> \in inbox
    /\ inbox' = inbox \ {<<p, t>>}
    /\ processed' = processed \union {t}
    /\ won' = IF t \in processed THEN won ELSE won \union {<<p, t>>}
    /\ UNCHANGED <<subscribed, published, runs, expiries, losses>>

\* The pipeline rejects: nobody catches it and the message is dropped here.
ClaimFails(p, t) ==
    /\ <<p, t>> \in inbox /\ losses < MaxLosses
    /\ inbox' = inbox \ {<<p, t>>} /\ losses' = losses + 1
    /\ UNCHANGED <<subscribed, published, won, processed, runs, expiries>>

Callback(p, t) ==
    /\ <<p, t>> \in won
    /\ won' = won \ {<<p, t>>} /\ runs' = [runs EXCEPT ![t] = @ + 1]
    /\ UNCHANGED <<subscribed, published, inbox, processed, expiries, losses>>

\* Sixty seconds later; a process may be as late.
Expire(t) ==
    /\ t \in processed /\ expiries[t] < MaxExpiries
    /\ processed' = processed \ {t} /\ expiries' = [expiries EXCEPT ![t] = @ + 1]
    /\ UNCHANGED <<subscribed, published, inbox, won, runs, losses>>

Unsubscribe(p) ==
    /\ p \in subscribed
    /\ subscribed' = subscribed \ {p}
    /\ UNCHANGED <<published, inbox, won, processed, runs, expiries, losses>>

Crash(p) ==
    /\ losses < MaxLosses /\ losses' = losses + 1
    /\ subscribed' = subscribed \ {p}
    /\ inbox' = {c \in inbox : c[1] # p} /\ won' = {c \in won : c[1] # p}
    /\ UNCHANGED <<published, processed, runs, expiries>>

Next ==
    \/ \E p \in Nodes :
        \/ Subscribe(p) \/ Unsubscribe(p) \/ Crash(p)
        \/ \E t \in Texts : Claim(p, t) \/ ClaimFails(p, t) \/ Callback(p, t)
    \/ \E t \in Texts : Publish(t) \/ Expire(t)

Spec == Init /\ [][Next]_vars

-------------------------------------------------------------------------------
TypeOK ==
    /\ subscribed \subseteq Nodes /\ published \in [Texts -> SUBSET Nodes]
    /\ inbox \union won \subseteq Nodes \X Texts /\ processed \subseteq Texts
    /\ runs \in [Texts -> Nat] /\ expiries \in [Texts -> 0..MaxExpiries]
    /\ losses \in 0..MaxLosses

\* However many processes are subscribed, a message is handled once, and once more at
\* most each time its key expires before the slowest process has claimed it.
HandledOnce == \A t \in Texts : runs[t] <= 1 + expiries[t]

\* A message that was handed to a process and is with nobody any more was handled: not
\* every process can have left it to another.
HandledBySomebody ==
    \A t \in Texts :
        /\ published[t] # {} /\ losses = 0
        /\ \A p \in Nodes : <<p, t>> \notin inbox \union won
        => runs[t] > 0
===============================================================================
