----------------------------- MODULE QueueScaling -----------------------------
(***************************************************************************)
(* Which queue DynamicQueue.addJob puts a job in and how many jobs its     *)
(* worker takes at once, in one process.  The hash "activity-tracker"      *)
(* counts the active entities; addJob reads it for the name of the queue,  *)
(* and again, some awaits later, for a new worker.  DynamicQueue has the   *)
(* queues themselves, and what happens between those two reads.            *)
(***************************************************************************)
EXTENDS Integers

CONSTANTS Cpus,            \* PROMISE_DEFAULT_CONCURRENCY
          Counts,          \* what the tracker may count; 0 is "no such field"
          Scales,          \* the values of queueScaleBy in use
          CustomFactors    \* the values of queueScaleFactor in use

Entities == Scales \intersect {"active-characters", "active-npcs"}
DefaultScaleFactor(e) == IF e = "active-characters" THEN 2 ELSE 1

VARIABLES
    count, peak,   \* entity -> what the tracker counts, the most it ever did
    adding,        \* the addJob under way: [scaleBy, concurrent, factor]
    workers        \* queue, as <<scaleBy, factor>> -> the concurrency of its worker

vars == <<count, peak, adding, workers>>

NoJob == [scaleBy |-> "none", concurrent |-> FALSE, factor |-> 0]
NoFactor == -1     \* the queue of "single", whose name is the prefix

Init ==
    /\ count \in [Entities -> Counts] /\ peak = count
    /\ adding = NoJob
    /\ workers = <<>>

AtLeast(low, n) == IF n < low THEN low ELSE n
AtMost(high, n) == IF n > high THEN high ELSE n

\* getActiveEntityCount; a missing field and a zero count as one.
getActiveEntityCount(e) == IF count[e] = 0 THEN 1 ELSE count[e]

\* Mutant of scaleFactor: not limited by the default.
scaleFactorUnlimited(e) == AtLeast(1, (getActiveEntityCount(e) + 9) \div 10)

\* One queue for ten entities, as far as the default scale factor.
scaleFactor(e) ==
    AtMost(DefaultScaleFactor(e), AtLeast(1, (getActiveEntityCount(e) + 9) \div 10))

\* lodash's random includes both ends.
Factors(scaleBy) ==
    CASE scaleBy = "single" -> {NoFactor}
      [] scaleBy = "custom" -> UNION {1..f : f \in CustomFactors}
      [] OTHER -> 0..scaleFactor(scaleBy)

calculateConcurrency(n) == AtMost(2 * Cpus, AtLeast(Cpus, Cpus + n))

\* The worker takes one job at a time unless hasConcurrency is asked for.
getWorkerScalingParameters(scaleBy, concurrent) ==
    IF ~concurrent THEN 1
    ELSE IF scaleBy \in Entities THEN calculateConcurrency(getActiveEntityCount(scaleBy))
    ELSE Cpus

generateQueueName(scaleBy, concurrent) ==
    /\ adding = NoJob
    /\ \E f \in Factors(scaleBy) :
        adding' = [scaleBy |-> scaleBy, concurrent |-> concurrent, factor |-> f]
    /\ UNCHANGED <<count, peak, workers>>

\* initOrFetchWorker: a worker stays as it was created.
InitOrFetchWorker ==
    /\ adding # NoJob
    /\ LET name == <<adding.scaleBy, adding.factor>>
       IN  workers' = IF name \in DOMAIN workers THEN workers
                      ELSE [n \in DOMAIN workers \union {name} |->
                             IF n \in DOMAIN workers THEN workers[n]
                             ELSE getWorkerScalingParameters(adding.scaleBy, adding.concurrent)]
    /\ adding' = NoJob
    /\ UNCHANGED <<count, peak>>

\* The cleaner closes an inactive queue.
CloseWorker(name) ==
    /\ name \in DOMAIN workers
    /\ workers' = [n \in DOMAIN workers \ {name} |-> workers[n]]
    /\ UNCHANGED <<count, peak, adding>>

Track(e, n) ==
    /\ n # count[e]
    /\ count' = [count EXCEPT ![e] = n] /\ peak' = [peak EXCEPT ![e] = AtLeast(@, n)]
    /\ UNCHANGED <<adding, workers>>

Next ==
    \/ \E s \in Scales, c \in BOOLEAN : generateQueueName(s, c)
    \/ InitOrFetchWorker
    \/ \E name \in DOMAIN workers : CloseWorker(name)
    \/ \E e \in Entities, n \in Counts : Track(e, n)

Spec == Init /\ [][Next]_vars

-------------------------------------------------------------------------------
\* The queue a job is on its way to counts too.
Queues ==
    DOMAIN workers \union IF adding = NoJob THEN {} ELSE {<<adding.scaleBy, adding.factor>>}

TypeOK ==
    /\ count \in [Entities -> Counts] /\ peak \in [Entities -> Counts]
    /\ \A q \in Queues : q[1] \in Scales /\ q[2] \in Int
    /\ \A q \in DOMAIN workers : workers[q] \in 1..2 * Cpus

\* However the counts change, a kind of job is spread over no more than the default
\* scale factor's queues and one (random(0, n) has n + 1 values), and over a third one
\* only once more than ten entities were counted.
FewQueues ==
    \A q \in Queues :
        q[1] \in Entities =>
            q[2] <= DefaultScaleFactor(q[1]) /\ (q[2] > 1 => peak[q[1]] > 10 * (q[2] - 1))

\* A worker that takes many jobs at once takes as many as the processors, and more only
\* as far as entities were counted at some time.
ConcurrencyIsEarned ==
    \A q \in DOMAIN workers :
        workers[q] > 1 =>
            /\ workers[q] >= Cpus
            /\ workers[q] > Cpus =>
                q[1] \in Entities /\ workers[q] <= Cpus + AtLeast(1, peak[q[1]])
===============================================================================
