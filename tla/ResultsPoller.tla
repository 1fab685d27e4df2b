----------------------------- MODULE ResultsPoller -----------------------------
(***************************************************************************)
(* One key of ResultsPoller: a caller starts a job and polls for what the  *)
(* job leaves in the hash results-poller, one request after another.  A    *)
(* result is named after its request; a job may end at any time or never.  *)
(* No code of the repository calls the poller yet but clearAll: that its   *)
(* callers wait for one answer before they ask again is an assumption.     *)
(***************************************************************************)
EXTENDS Naturals

CONSTANTS Rounds, MaxPolls, MaxBoots   \* bounds: requests, gets of one poll, boots

Nothing == 0   \* no field in the hash; the answer false after the last get

VARIABLES
    entry,         \* the field of the key: the result of some request, or Nothing
    round, phase, polls,   \* the request under way, its position, its gets so far
    finished,      \* requests whose job has left its result
    answer,        \* request -> what pollResults returned
    boots

vars == <<entry, round, phase, polls, finished, answer, boots>>

Init ==
    /\ entry = Nothing /\ round = 0 /\ phase = "idle" /\ polls = 0
    /\ finished = {} /\ answer = [n \in 1..Rounds |-> Nothing] /\ boots = 0

Ask ==
    /\ phase = "idle" /\ round < Rounds
    /\ round' = round + 1 /\ phase' = "poll" /\ polls' = 0
    /\ UNCHANGED <<entry, finished, answer, boots>>

\* prepareResultToBePolled: an undefined result is stored too, as false.
Prepare(n) ==
    /\ n \in 1..round \ finished
    /\ entry' = n /\ finished' = finished \union {n}
    /\ UNCHANGED <<round, phase, polls, answer, boots>>

Found ==
    /\ phase = "poll" /\ polls < MaxPolls /\ entry # Nothing
    /\ answer' = [answer EXCEPT ![round] = entry] /\ phase' = "finally"
    /\ UNCHANGED <<entry, round, polls, finished, boots>>

Missed ==
    /\ phase = "poll" /\ polls < MaxPolls /\ entry = Nothing
    /\ polls' = polls + 1
    /\ UNCHANGED <<entry, round, phase, finished, answer, boots>>

GiveUp ==
    /\ phase = "poll" /\ polls = MaxPolls
    /\ phase' = "finally"
    /\ UNCHANGED <<entry, round, polls, finished, answer, boots>>

\* The finally block, an await after the last get: what came meanwhile goes too.
Cleanup ==
    /\ phase = "finally"
    /\ entry' = Nothing /\ phase' = "idle"
    /\ UNCHANGED <<round, polls, finished, answer, boots>>

\* clearAll at the boot of another process.
ClearAll ==
    /\ boots < MaxBoots
    /\ boots' = boots + 1 /\ entry' = Nothing
    /\ UNCHANGED <<round, phase, polls, finished, answer>>

Next ==
    \/ Ask \/ (\E n \in 1..Rounds : Prepare(n)) \/ Found \/ Missed \/ GiveUp
    \/ Cleanup \/ ClearAll

Spec == Init /\ [][Next]_vars

-------------------------------------------------------------------------------
TypeOK ==
    /\ entry \in 0..Rounds /\ round \in 0..Rounds /\ phase \in {"idle", "poll", "finally"}
    /\ polls \in 0..MaxPolls /\ finished \subseteq 1..round
    /\ answer \in [1..Rounds -> 0..Rounds] /\ boots \in 0..MaxBoots

\* A result is answered once.
AnsweredOnce ==
    \A n, k \in 1..Rounds :
        n # k /\ answer[n] # Nothing => answer[n] # answer[k]

\* A request gets the result of an earlier one only after some request before it has
\* given up: until then each gets its own.
StaleNeedsGiveUp ==
    \A n \in 1..Rounds :
        answer[n] \notin {Nothing, n} => \E k \in 1..n - 1 : answer[k] = Nothing
===============================================================================
