---------------------------- MODULE ServicesProofs ----------------------------
(***************************************************************************)
(* The services of MCServices and the requests of Accounts, each by an     *)
(* inductive invariant of its own: what the runs check of them holds for   *)
(* every number of processes, requests, users, providers and messages.     *)
(***************************************************************************)
EXTENDS MCServices, Integers, FiniteSetTheorems, TLAPS

\* The bounds, as the numbers they are.
LEMMA Bounds ==
    /\ MaxSends \in Nat /\ MaxFaults \in Nat /\ Rounds \in Nat /\ MaxPolls \in Nat
    /\ MaxBoots \in Nat /\ MaxExpiries \in Nat /\ MaxLosses \in Nat
    /\ MaxEdits \in Nat /\ MaxFailures \in Nat
BY ServicesAssumption

-------------------------------------------------------------------------------
(* PrismaSetup *)

\* What a stage of the script may rely on, as long as nobody edits the schema: the
\* client and the database are the ones of the schema it hashed; and what the hash
\* vouches for, unless a run ended halfway.
SchemaInv ==
    /\ D!TypeOK
    /\ (script \in {"generate", "migrate", "save", "server"} /\ ~edited => current = schema)
    /\ script = "migrate" /\ ~edited => client = schema
    /\ script = "save" /\ ~edited => client = schema /\ database = schema
    /\ script \in {"stopped", "generate", "server"} /\ ~halfway /\ hash # D!Nothing =>
        database = hash /\ client \in {hash, D!Nothing}
    /\ script = "server" => hash = current
    /\ script = "server" /\ ~halfway => client = hash

\* The invariant of the schema script holds at the start and over every step.
LEMMA SchemaKept ==
    ASSUME SchemaInv, [D!Next]_D!vars
    PROVE SchemaInv'
<1>0. D!Nothing \notin Schemas BY ServicesAssumption
<1> USE <1>0, Bounds DEF SchemaInv, D!TypeOK, D!Nothing
<1>1. CASE D!Start
    BY <1>1 DEF D!Start, D!isPrismaClientGenerated
<1>2. CASE D!Generate BY <1>2 DEF D!Generate
<1>3. CASE D!Migrate BY <1>3 DEF D!Migrate
<1>4. CASE D!saveHash BY <1>4 DEF D!saveHash
<1>5. CASE D!GenerationFails
  <2>1. errors' \in 0..MaxFailures BY <1>5 DEF D!GenerationFails
  <2>2. halfway' \in BOOLEAN /\ (~halfway' => ~halfway /\ script = "generate")
    BY <1>5 DEF D!GenerationFails
  <2> QED BY <1>5, <2>1, <2>2 DEF D!GenerationFails
<1>6. CASE D!Restart BY <1>6 DEF D!Restart
<1>7. CASE \E s \in Schemas : D!Edit(s) BY <1>7 DEF D!Edit
<1>8. CASE D!RemoveClient BY <1>8 DEF D!RemoveClient
<1>9. CASE UNCHANGED D!vars BY <1>9 DEF D!vars
<1> QED BY <1>1, <1>2, <1>3, <1>4, <1>5, <1>6, <1>7, <1>8, <1>9 DEF D!Next

\* Whatever is edited, fails or is restarted, the server starts with the client and the
\* database of its schema and no hash is ahead of its database: for any schemas and any
\* number of edits and failures.
THEOREM SchemaAlwaysHolds == D!Spec => []SchemaHolds
<1>1. D!Init => SchemaInv
  <2> SUFFICES ASSUME D!Init PROVE SchemaInv OBVIOUS
  <2>1. edits \in 0..MaxEdits /\ errors \in 0..MaxFailures BY Bounds DEF D!Init
  <2>2. edited \in BOOLEAN /\ halfway \in BOOLEAN BY DEF D!Init
  <2> QED BY <2>1, <2>2 DEF D!Init, SchemaInv, D!TypeOK
<1>2. SchemaInv /\ [D!Next]_D!vars => SchemaInv' BY SchemaKept
<1>3. SchemaInv => SchemaHolds
    BY ServicesAssumption
    DEF SchemaInv, SchemaHolds, D!TypeOK, D!ServerFits, D!HashIsMigrated, D!Nothing
<1> QED BY <1>1, <1>2, <1>3, PTL DEF D!Spec

-------------------------------------------------------------------------------
(* QueueScaling *)

Job == [scaleBy : Scales, concurrent : BOOLEAN, factor : Int]

\* What is counted never exceeds the peak, and a job on its way is one of the kinds.
ScalingInv ==
    /\ \A e \in Q!Entities : count[e] <= peak[e]
    /\ adding = Q!NoJob \/ adding \in Job
    /\ Q!TypeOK /\ Q!FewQueues /\ Q!ConcurrencyIsEarned

\* getActiveEntityCount counts one entity at least, and no more than ever were there.
LEMMA ActiveEntities ==
    ASSUME ScalingInv, NEW e \in Q!Entities
    PROVE /\ count[e] \in Nat /\ peak[e] \in Nat /\ count[e] <= peak[e]
          /\ Q!getActiveEntityCount(e) \in Nat \ {0}
          /\ Q!getActiveEntityCount(e) <= Q!AtLeast(1, peak[e])
<1>1. Counts \subseteq Nat BY ServicesAssumption
<1>2. count[e] \in Nat /\ peak[e] \in Nat /\ count[e] <= peak[e]
    BY <1>1 DEF ScalingInv, Q!TypeOK
<1> QED BY <1>2 DEF Q!getActiveEntityCount, Q!AtLeast

\* random(0, scaleFactor) stays within the default, and gives two or more only if more
\* than ten entities are there for each queue before the last.
LEMMA FactorsOfEntities ==
    ASSUME ScalingInv, NEW e \in Q!Entities, NEW f \in 0..Q!scaleFactor(e)
    PROVE f \in Nat /\ f <= Q!DefaultScaleFactor(e) /\ (f > 1 => peak[e] > 10 * (f - 1))
<1> DEFINE n == Q!getActiveEntityCount(e)
<1>1. n \in Nat \ {0} /\ count[e] \in Nat /\ peak[e] \in Nat /\ count[e] <= peak[e]
    BY ActiveEntities
<1>2. n > 1 => n = count[e] BY <1>1 DEF Q!getActiveEntityCount
<1>3. Q!DefaultScaleFactor(e) \in 1..2 BY DEF Q!DefaultScaleFactor
<1>4. (n + 9) \div 10 \in Nat BY <1>1
<1> HIDE DEF n
<1>5. Q!scaleFactor(e) =
        Q!AtMost(Q!DefaultScaleFactor(e), Q!AtLeast(1, (n + 9) \div 10))
    BY DEF Q!scaleFactor, n
<1>6. f \in Nat /\ f <= Q!DefaultScaleFactor(e) /\ (f > 1 => f <= (n + 9) \div 10)
    BY <1>3, <1>4, <1>5 DEF Q!AtMost, Q!AtLeast
<1>7. f > 1 => n > 10 * (f - 1) BY <1>1, <1>6
<1> QED BY <1>1, <1>2, <1>6, <1>7

\* What generateQueueName may choose for a kind of job.
LEMMA FactorsFit ==
    ASSUME ScalingInv, NEW s \in Scales, NEW f \in Q!Factors(s)
    PROVE /\ f \in Int
          /\ s \in Q!Entities =>
                f <= Q!DefaultScaleFactor(s) /\ (f > 1 => peak[s] > 10 * (f - 1))
<1>1. CASE s = "single" BY <1>1 DEF Q!Factors, Q!NoFactor, Q!Entities
<1>2. CASE s = "custom" BY <1>2 DEF Q!Factors, Q!Entities
<1>3. CASE s \notin {"single", "custom"}
  <2>1. s \in Q!Entities BY <1>3, ServicesAssumption DEF Q!Entities
  <2>2. f \in 0..Q!scaleFactor(s) BY <1>3 DEF Q!Factors
  <2> QED BY <2>1, <2>2, FactorsOfEntities
<1> QED BY <1>1, <1>2, <1>3

\* The concurrency of a new worker is one, or that of the processors, or more as far as
\* there are entities.
LEMMA ConcurrencyFits ==
    ASSUME ScalingInv, NEW s \in Scales, NEW c \in BOOLEAN
    PROVE LET w == Q!getWorkerScalingParameters(s, c)
          IN  /\ w \in 1..2 * Cpus
              /\ w > 1 => w >= Cpus
              /\ w > Cpus => s \in Q!Entities /\ w <= Cpus + Q!AtLeast(1, peak[s])
<1> DEFINE n == Q!getActiveEntityCount(s)
<1>1. Cpus \in Nat \ {0} BY ServicesAssumption
<1>2. CASE ~c BY <1>1, <1>2 DEF Q!getWorkerScalingParameters
<1>3. CASE c /\ s \notin Q!Entities
    BY <1>1, <1>3 DEF Q!getWorkerScalingParameters
<1>4. CASE c /\ s \in Q!Entities
  <2>1. n \in Nat \ {0} /\ n <= Q!AtLeast(1, peak[s]) BY <1>4, ActiveEntities
  <2>2. Q!AtLeast(1, peak[s]) \in Nat BY <1>4, ActiveEntities DEF Q!AtLeast
  <2>3. Q!getWorkerScalingParameters(s, c) = Q!calculateConcurrency(n)
    BY <1>4 DEF Q!getWorkerScalingParameters
  <2> HIDE DEF n
  <2>4. Q!calculateConcurrency(n) \in Cpus..2 * Cpus
        /\ Q!calculateConcurrency(n) <= Cpus + n
    BY <1>1, <2>1 DEF Q!calculateConcurrency, Q!AtMost, Q!AtLeast
  <2>5. /\ Q!calculateConcurrency(n) \in 1..2 * Cpus
        /\ Q!calculateConcurrency(n) >= Cpus
        /\ Q!calculateConcurrency(n) <= Cpus + Q!AtLeast(1, peak[s])
    <3> DEFINE m == Q!AtLeast(1, peak[s])
    <3>1. m \in Nat /\ n <= m /\ n \in Nat BY <2>1, <2>2
    <3> HIDE DEF m
    <3> QED BY <1>1, <2>4, <3>1 DEF m
  <2> QED BY <1>4, <2>3, <2>5
<1> QED BY <1>2, <1>3, <1>4

\* The invariant of the scaling holds over every step.
LEMMA ScalingKept ==
    ASSUME ScalingInv, [Q!Next]_Q!vars
    PROVE ScalingInv'
<1>1. CASE \E s \in Scales, c \in BOOLEAN : Q!generateQueueName(s, c)
  <2>0. PICK s \in Scales, c \in BOOLEAN : Q!generateQueueName(s, c) BY <1>1
  <2>1. PICK f \in Q!Factors(s) :
            /\ adding' = [scaleBy |-> s, concurrent |-> c, factor |-> f]
            /\ UNCHANGED <<count, peak, workers>>
    BY <2>0 DEF Q!generateQueueName
  <2>2. f \in Int /\ (s \in Q!Entities =>
            f <= Q!DefaultScaleFactor(s) /\ (f > 1 => peak[s] > 10 * (f - 1)))
    BY FactorsFit
  <2>3. adding' \in Job BY <2>1, <2>2 DEF Job
  <2>4. Q!Queues' \subseteq Q!Queues \union {<<s, f>>} BY <2>1 DEF Q!Queues
  <2> QED BY <2>1, <2>2, <2>3, <2>4
        DEF ScalingInv, Q!TypeOK, Q!FewQueues, Q!ConcurrencyIsEarned
<1>2. CASE Q!InitOrFetchWorker
  <2> DEFINE q == <<adding.scaleBy, adding.factor>>
             w == Q!getWorkerScalingParameters(adding.scaleBy, adding.concurrent)
  <2>1. adding \in Job BY <1>2 DEF Q!InitOrFetchWorker, ScalingInv
  <2>2. adding' = Q!NoJob /\ UNCHANGED <<count, peak>> BY <1>2 DEF Q!InitOrFetchWorker
  <2>3. /\ DOMAIN workers' = DOMAIN workers \union {q}
        /\ \A n \in DOMAIN workers : workers'[n] = workers[n]
        /\ q \notin DOMAIN workers => workers'[q] = w
    BY <1>2 DEF Q!InitOrFetchWorker
  <2>4. Q!Queues' = Q!Queues BY <1>2, <2>2, <2>3 DEF Q!Queues, Q!InitOrFetchWorker
  <2>5. /\ w \in 1..2 * Cpus
        /\ w > 1 => w >= Cpus
        /\ w > Cpus => q[1] \in Q!Entities /\ w <= Cpus + Q!AtLeast(1, peak[q[1]])
    BY <2>1, ConcurrencyFits DEF Job
  <2> HIDE DEF w, q
  <2>6. Q!TypeOK' BY <2>2, <2>3, <2>4, <2>5 DEF ScalingInv, Q!TypeOK
  <2>7. Q!FewQueues' BY <2>2, <2>4 DEF ScalingInv, Q!FewQueues
  <2>8. Q!ConcurrencyIsEarned'
    BY <2>2, <2>3, <2>5 DEF ScalingInv, Q!ConcurrencyIsEarned
  <2> QED BY <2>2, <2>6, <2>7, <2>8 DEF ScalingInv
<1>3. CASE \E name \in DOMAIN workers : Q!CloseWorker(name)
  <2>1. /\ DOMAIN workers' \subseteq DOMAIN workers
        /\ \A n \in DOMAIN workers' : workers'[n] = workers[n]
        /\ UNCHANGED <<count, peak, adding>>
    BY <1>3 DEF Q!CloseWorker
  <2>2. Q!Queues' \subseteq Q!Queues BY <2>1 DEF Q!Queues
  <2> QED BY <2>1, <2>2 DEF ScalingInv, Q!TypeOK, Q!FewQueues, Q!ConcurrencyIsEarned
<1>4. CASE \E e \in Q!Entities, n \in Counts : Q!Track(e, n)
  <2>1. PICK e \in Q!Entities, n \in Counts : Q!Track(e, n) BY <1>4
  <2>2. Counts \subseteq Nat BY ServicesAssumption
  <2>3. /\ count' \in [Q!Entities -> Counts] /\ peak' \in [Q!Entities -> Counts]
        /\ UNCHANGED <<adding, workers>>
    BY <2>1 DEF Q!Track, Q!AtLeast, ScalingInv, Q!TypeOK
  <2>4. \A a \in Q!Entities :
            /\ peak[a] \in Nat /\ peak'[a] \in Nat
            /\ peak[a] <= peak'[a] /\ count'[a] <= peak'[a]
    <3> SUFFICES ASSUME NEW a \in Q!Entities
                 PROVE /\ peak[a] \in Nat /\ peak'[a] \in Nat
                       /\ peak[a] <= peak'[a] /\ count'[a] <= peak'[a]
        OBVIOUS
    <3>1. /\ peak[a] \in Nat /\ count[a] \in Nat /\ n \in Nat /\ count[a] <= peak[a]
          /\ count \in [Q!Entities -> Counts] /\ peak \in [Q!Entities -> Counts]
        BY <2>2 DEF ScalingInv, Q!TypeOK
    <3>2. CASE a = e BY <2>1, <3>1, <3>2 DEF Q!Track, Q!AtLeast
    <3>3. CASE a # e
      <4>1. peak'[a] = peak[a] /\ count'[a] = count[a] BY <2>1, <3>1, <3>3 DEF Q!Track
      <4> QED BY <3>1, <4>1
    <3> QED BY <3>2, <3>3
  <2>5. Q!Queues' = Q!Queues BY <2>3 DEF Q!Queues
  <2>6. Q!TypeOK' BY <2>3, <2>5 DEF ScalingInv, Q!TypeOK
  <2>7. Q!FewQueues'
    <3> SUFFICES ASSUME NEW q \in Q!Queues, q[1] \in Q!Entities
                 PROVE q[2] <= Q!DefaultScaleFactor(q[1])
                       /\ (q[2] > 1 => peak'[q[1]] > 10 * (q[2] - 1))
        BY <2>5 DEF Q!FewQueues
    <3>1. q[2] \in Int BY DEF ScalingInv, Q!TypeOK
    <3>2. q[2] <= Q!DefaultScaleFactor(q[1]) /\ (q[2] > 1 => peak[q[1]] > 10 * (q[2] - 1))
        BY DEF ScalingInv, Q!FewQueues
    <3> QED BY <2>4, <3>1, <3>2
  <2>8. Q!ConcurrencyIsEarned'
    <3> SUFFICES ASSUME NEW q \in DOMAIN workers, workers[q] > 1
                 PROVE /\ workers[q] >= Cpus
                       /\ workers[q] > Cpus =>
                            /\ q[1] \in Q!Entities
                            /\ workers[q] <= Cpus + Q!AtLeast(1, peak'[q[1]])
        BY <2>3 DEF Q!ConcurrencyIsEarned
    <3>1. workers[q] \in Nat /\ Cpus \in Nat
        BY ServicesAssumption DEF ScalingInv, Q!TypeOK
    <3>2. /\ workers[q] >= Cpus
          /\ workers[q] > Cpus =>
                q[1] \in Q!Entities /\ workers[q] <= Cpus + Q!AtLeast(1, peak[q[1]])
        BY DEF ScalingInv, Q!ConcurrencyIsEarned
    <3>3. ASSUME q[1] \in Q!Entities
          PROVE /\ Q!AtLeast(1, peak[q[1]]) \in Nat /\ Q!AtLeast(1, peak'[q[1]]) \in Nat
                /\ Q!AtLeast(1, peak[q[1]]) <= Q!AtLeast(1, peak'[q[1]])
        BY <2>4, <3>3 DEF Q!AtLeast
    <3> QED BY <3>1, <3>2, <3>3
  <2> QED BY <2>3, <2>4, <2>6, <2>7, <2>8 DEF ScalingInv
<1>5. CASE UNCHANGED Q!vars
  <2>1. Q!Queues' = Q!Queues BY <1>5 DEF Q!vars, Q!Queues
  <2> QED BY <1>5, <2>1
        DEF Q!vars, ScalingInv, Q!TypeOK, Q!FewQueues, Q!ConcurrencyIsEarned
<1> QED BY <1>1, <1>2, <1>3, <1>4, <1>5 DEF Q!Next

\* However the counts of active entities change, between the name of a queue and its
\* worker too, a kind of job keeps to its few queues and a worker to the concurrency
\* that was earned: for any counts and any number of processors.
THEOREM ScalingAlwaysHolds == Q!Spec => []ScalingHolds
<1>1. Q!Init => ScalingInv
  <2> SUFFICES ASSUME Q!Init PROVE ScalingInv OBVIOUS
  <2>1. Q!Queues = {} /\ DOMAIN workers = {} BY DEF Q!Init, Q!Queues
  <2>2. Counts \subseteq Nat BY ServicesAssumption
  <2>3. Q!TypeOK BY <2>1 DEF Q!Init, Q!TypeOK
  <2>4. \A e \in Q!Entities : count[e] <= peak[e]
    <3>1. \A e \in Q!Entities : count[e] \in Nat /\ peak[e] = count[e]
        BY <2>2 DEF Q!Init
    <3> QED BY <3>1
  <2>5. Q!FewQueues /\ Q!ConcurrencyIsEarned
    BY <2>1 DEF Q!FewQueues, Q!ConcurrencyIsEarned
  <2> QED BY <2>3, <2>4, <2>5 DEF Q!Init, ScalingInv
<1>2. ScalingInv /\ [Q!Next]_Q!vars => ScalingInv' BY ScalingKept
<1>3. ScalingInv => ScalingHolds BY DEF ScalingInv, ScalingHolds
<1> QED BY <1>1, <1>2, <1>3, PTL DEF Q!Spec

-------------------------------------------------------------------------------
(* ResultsPoller *)

\* The field of the key holds the result of a job that has ended, one that no request
\* was answered yet unless the answer is being cleaned up; the request under way and
\* the later ones have no answer; and as long as all were answered, each with its own.
PollInv ==
    /\ R!TypeOK /\ R!AnsweredOnce
    /\ entry # 0 => entry \in finished
    /\ entry # 0 /\ phase # "finally" => \A n \in 1..Rounds : answer[n] # entry
    /\ \A n \in 1..Rounds : answer[n] # 0 => answer[n] \in finished
    /\ \A n \in 1..Rounds : n > round \/ (n = round /\ phase = "poll") => answer[n] = 0
    /\ phase = "poll" => round \in 1..Rounds
    /\ \A n \in 1..Rounds : (\A k \in 1..n : answer[k] # 0) => answer[n] = n

\* A found result keeps the invariant: the request gets one that nobody had before, and
\* its own if all before it got theirs.
LEMMA FoundKeepsPollInv ==
    ASSUME PollInv, R!Found
    PROVE PollInv'
<1> USE DEF R!Nothing
<1>1. /\ round \in 1..Rounds /\ phase = "poll" /\ phase' = "finally"
      /\ entry # 0 /\ entry \in finished /\ finished \subseteq 1..round
      /\ answer \in [1..Rounds -> 0..Rounds] /\ answer' = [answer EXCEPT ![round] = entry]
      /\ UNCHANGED <<entry, round, polls, finished, boots>>
    BY DEF R!Found, PollInv, R!TypeOK
<1>2. /\ answer'[round] = entry
      /\ \A n \in 1..Rounds : n # round => answer'[n] = answer[n]
      /\ \A n \in 1..Rounds : answer[n] # entry
    BY <1>1 DEF PollInv
<1>3. Rounds \in Nat BY Bounds
<1>4. R!TypeOK' BY <1>1, <1>3 DEF PollInv, R!TypeOK
<1>5. R!AnsweredOnce' BY <1>1, <1>2 DEF PollInv, R!AnsweredOnce
<1>6. \A n \in 1..Rounds : n > round => answer'[n] = 0 BY <1>1, <1>2, <1>3 DEF PollInv
<1>7. ASSUME NEW n \in 1..Rounds, \A k \in 1..n : answer'[k] # 0
      PROVE answer'[n] = n
  <2>1. n <= round BY <1>1, <1>3, <1>6, <1>7
  <2>2. CASE n < round
    <3>1. \A k \in 1..n : answer[k] # 0 BY <1>1, <1>2, <1>3, <1>7, <2>2
    <3> QED BY <1>1, <1>2, <2>2, <3>1 DEF PollInv
  <2>3. CASE n = round
    <3>1. ASSUME NEW k \in 1..n, k < n PROVE answer[k] = k
      <4>1. \A j \in 1..k : answer[j] # 0 BY <1>1, <1>2, <1>3, <1>7, <2>3, <3>1
      <4> QED BY <1>3, <3>1, <4>1 DEF PollInv
    <3>2. entry \in 1..n BY <1>1, <2>3
    <3>3. ASSUME entry < n PROVE FALSE
        BY <1>2, <1>3, <3>1, <3>2, <3>3
    <3> QED BY <1>1, <1>2, <1>3, <2>3, <3>2, <3>3
  <2> QED BY <1>1, <1>3, <2>1, <2>2, <2>3
<1>8. \A n \in 1..Rounds : answer'[n] # 0 => answer'[n] \in finished'
    BY <1>1, <1>2 DEF PollInv
<1> QED BY <1>1, <1>3, <1>4, <1>5, <1>6, <1>7, <1>8 DEF PollInv

\* The invariant of the poller holds over every step.
LEMMA PollKept ==
    ASSUME PollInv, [R!Next]_R!vars
    PROVE PollInv'
<1> USE Bounds DEF R!Nothing
<1>1. CASE R!Ask
    BY <1>1 DEF R!Ask, PollInv, R!TypeOK, R!AnsweredOnce
<1>2. CASE \E n \in 1..Rounds : R!Prepare(n)
  <2>1. PICK n \in 1..Rounds : R!Prepare(n) BY <1>2
  <2>2. /\ n \notin finished /\ n \in 1..round /\ n # 0
        /\ entry' = n /\ finished' = finished \union {n}
        /\ UNCHANGED <<round, phase, polls, answer, boots>>
    BY <2>1 DEF R!Prepare
  <2>3. \A k \in 1..Rounds : answer[k] # n BY <2>2 DEF PollInv
  <2>4. R!TypeOK' BY <2>2 DEF PollInv, R!TypeOK
  <2> QED BY <2>2, <2>3, <2>4 DEF PollInv, R!AnsweredOnce
<1>3. CASE R!Found BY <1>3, FoundKeepsPollInv
<1>4. CASE R!Missed BY <1>4 DEF R!Missed, PollInv, R!TypeOK, R!AnsweredOnce
<1>5. CASE R!GiveUp BY <1>5 DEF R!GiveUp, PollInv, R!TypeOK, R!AnsweredOnce
<1>6. CASE R!Cleanup BY <1>6 DEF R!Cleanup, PollInv, R!TypeOK, R!AnsweredOnce
<1>7. CASE R!ClearAll BY <1>7 DEF R!ClearAll, PollInv, R!TypeOK, R!AnsweredOnce
<1>8. CASE UNCHANGED R!vars BY <1>8 DEF R!vars, PollInv, R!TypeOK, R!AnsweredOnce
<1> QED BY <1>1, <1>2, <1>3, <1>4, <1>5, <1>6, <1>7, <1>8 DEF R!Next

\* The poller of ResultsPoller answers a result once, and to the wrong request only
\* after one has given up: for any number of requests, gets and boots.
THEOREM PollerAlwaysHolds ==
    R!Spec => [](R!TypeOK /\ R!AnsweredOnce /\ R!StaleNeedsGiveUp)
<1>1. R!Init => PollInv
    BY Bounds DEF R!Init, R!Nothing, PollInv, R!TypeOK, R!AnsweredOnce
<1>2. PollInv /\ [R!Next]_R!vars => PollInv' BY PollKept
<1>3. PollInv => R!TypeOK /\ R!AnsweredOnce /\ R!StaleNeedsGiveUp
  <2> SUFFICES ASSUME PollInv, NEW n \in 1..Rounds, answer[n] \notin {0, n},
                      \A k \in 1..n - 1 : answer[k] # 0
               PROVE FALSE
    BY DEF PollInv, R!StaleNeedsGiveUp, R!Nothing
  <2>1. \A k \in 1..n : answer[k] # 0 BY Bounds
  <2> QED BY <2>1 DEF PollInv
<1> QED BY <1>1, <1>2, <1>3, PTL DEF R!Spec

-------------------------------------------------------------------------------
(* RedisPubSub *)

Winners(t) == {p \in Nodes : <<p, t>> \in won}
Claimed(t) == IF t \in processed THEN 1 ELSE 0

\* Of a message, the callbacks run and to be run are paid for by its key and its
\* expiries; and without losses one that is published is to be claimed, to be run, or
\* was run, and one whose key exists is one of the latter two.
SubOf(t) ==
    /\ runs[t] + Cardinality(Winners(t)) <= expiries[t] + Claimed(t)
    /\ losses = 0 /\ published[t] # {} =>
        runs[t] > 0 \/ Winners(t) # {} \/ \E p \in Nodes : <<p, t>> \in inbox
    /\ losses = 0 /\ t \in processed => runs[t] > 0 \/ Winners(t) # {}

SubInv == S!TypeOK /\ \A t \in Texts : SubOf(t)

\* The winners of a message are finitely many.
LEMMA WinnersFinite ==
    ASSUME NEW t
    PROVE IsFiniteSet(Winners(t)) /\ Cardinality(Winners(t)) \in Nat
BY ServicesAssumption, FS_Subset, FS_CardinalityType DEF Winners

\* What a step does to a message that it leaves alone: nothing, or a crash takes winners.
LEMMA OtherMessages ==
    ASSUME SubInv, NEW t \in Texts,
           Winners(t)' = Winners(t), runs'[t] = runs[t], expiries'[t] = expiries[t],
           published'[t] = published[t], t \in processed' <=> t \in processed,
           \A p \in Nodes : <<p, t>> \in inbox' <=> <<p, t>> \in inbox,
           losses' = 0 => losses = 0
    PROVE SubOf(t)'
<1>1. Claimed(t)' = Claimed(t) BY DEF Claimed
<1>2. Cardinality(Winners(t))' = Cardinality(Winners(t)) OBVIOUS
<1> QED BY <1>1, <1>2 DEF SubInv, SubOf

\* The types of RedisPubSub hold over every step.
LEMMA SubTyped ==
    ASSUME S!TypeOK, [S!Next]_S!vars
    PROVE S!TypeOK'
<1> USE Bounds DEF S!TypeOK
<1>1. CASE \E p \in Nodes : S!Subscribe(p) BY <1>1 DEF S!Subscribe
<1>2. CASE \E p \in Nodes : S!Unsubscribe(p) BY <1>2 DEF S!Unsubscribe
<1>3. CASE \E p \in Nodes : S!Crash(p) BY <1>3 DEF S!Crash
<1>4. CASE \E p \in Nodes, t \in Texts : S!Claim(p, t) BY <1>4 DEF S!Claim
<1>5. CASE \E p \in Nodes, t \in Texts : S!ClaimFails(p, t) BY <1>5 DEF S!ClaimFails
<1>6. CASE \E p \in Nodes, t \in Texts : S!Callback(p, t) BY <1>6 DEF S!Callback
<1>7. CASE \E t \in Texts : S!Publish(t) BY <1>7 DEF S!Publish
<1>8. CASE \E t \in Texts : S!Expire(t) BY <1>8 DEF S!Expire
<1>9. CASE UNCHANGED S!vars BY <1>9 DEF S!vars
<1> QED BY <1>1, <1>2, <1>3, <1>4, <1>5, <1>6, <1>7, <1>8, <1>9 DEF S!Next

\* Publishing hands the message to somebody who is subscribed.
LEMMA PublishKeeps ==
    ASSUME SubInv, NEW t \in Texts, S!Publish(t), NEW x \in Texts
    PROVE SubOf(x)'
<1>1. /\ published' = [published EXCEPT ![t] = subscribed] /\ subscribed # {}
      /\ inbox' = inbox \union (subscribed \X {t}) /\ subscribed \subseteq Nodes
      /\ published \in [Texts -> SUBSET Nodes]
      /\ UNCHANGED <<subscribed, won, processed, runs, expiries, losses>>
    BY DEF S!Publish, SubInv, S!TypeOK
<1>2. Winners(x)' = Winners(x) BY <1>1 DEF Winners
<1>3. CASE x # t
  <2>1. \A p \in Nodes : <<p, x>> \in inbox' <=> <<p, x>> \in inbox BY <1>1, <1>3
  <2>2. published'[x] = published[x] BY <1>1, <1>3
  <2> QED BY <1>1, <1>2, <2>1, <2>2, OtherMessages
<1>4. CASE x = t
  <2>1. \E p \in Nodes : <<p, x>> \in inbox' BY <1>1, <1>4
  <2>2. Claimed(x)' = Claimed(x) BY <1>1 DEF Claimed
  <2>3. Cardinality(Winners(x))' = Cardinality(Winners(x)) BY <1>2
  <2> QED BY <1>1, <1>2, <2>1, <2>2, <2>3 DEF SubInv, SubOf
<1> QED BY <1>3, <1>4

\* The first to claim wins; a later one leaves the message to somebody who won or ran it.
LEMMA ClaimKeeps ==
    ASSUME SubInv, NEW p \in Nodes, NEW t \in Texts, S!Claim(p, t), NEW x \in Texts
    PROVE SubOf(x)'
<1>1. /\ inbox' = inbox \ {<<p, t>>} /\ processed' = processed \union {t}
      /\ won' = IF t \in processed THEN won ELSE won \union {<<p, t>>}
      /\ UNCHANGED <<subscribed, published, runs, expiries, losses>>
    BY DEF S!Claim
<1>2. CASE x # t
  <2>1. Winners(x)' = Winners(x) BY <1>1, <1>2 DEF Winners
  <2>2. \A q \in Nodes : <<q, x>> \in inbox' <=> <<q, x>> \in inbox BY <1>1, <1>2
  <2> QED BY <1>1, <1>2, <2>1, <2>2, OtherMessages
<1>3. CASE x = t /\ t \in processed
  <2>1. Winners(x)' = Winners(x) /\ Claimed(x)' = Claimed(x)
    BY <1>1, <1>3 DEF Winners, Claimed
  <2>2. Cardinality(Winners(x))' = Cardinality(Winners(x)) BY <2>1
  <2>3. SubOf(x) BY DEF SubInv, SubOf
  <2>4. losses = 0 => runs[x] > 0 \/ Winners(x) # {} BY <1>3, <2>3 DEF SubOf
  <2> QED BY <1>1, <2>1, <2>2, <2>3, <2>4 DEF SubOf
<1>4. CASE x = t /\ t \notin processed
  <2>1. Winners(x)' = Winners(x) \union {p} /\ Claimed(x)' = 1 /\ Claimed(x) = 0
    BY <1>1, <1>4 DEF Winners, Claimed
  <2>2. /\ IsFiniteSet(Winners(x)) /\ Cardinality(Winners(x)) \in Nat
    BY WinnersFinite
  <2>3. Cardinality(Winners(x) \union {p}) \in
            {Cardinality(Winners(x)), Cardinality(Winners(x)) + 1}
    BY <2>2, FS_AddElement
  <2>4. Cardinality(Winners(x))' = Cardinality(Winners(x) \union {p}) BY <2>1
  <2>5. runs[x] \in Nat /\ expiries[x] \in Nat BY DEF SubInv, S!TypeOK
  <2>6. runs[x] + Cardinality(Winners(x)) <= expiries[x] BY <2>1, <2>5 DEF SubInv, SubOf
  <2>7. (runs[x] + Cardinality(Winners(x)) <= expiries[x] + Claimed(x))'
    BY <1>1, <2>1, <2>2, <2>3, <2>4, <2>5, <2>6
  <2> QED BY <1>1, <2>1, <2>7 DEF SubOf
<1> QED BY <1>2, <1>3, <1>4

\* A callback turns a winner into a run.
LEMMA CallbackKeeps ==
    ASSUME SubInv, NEW p \in Nodes, NEW t \in Texts, S!Callback(p, t), NEW x \in Texts
    PROVE SubOf(x)'
<1>1. /\ <<p, t>> \in won /\ won' = won \ {<<p, t>>}
      /\ runs' = [runs EXCEPT ![t] = @ + 1] /\ runs \in [Texts -> Nat]
      /\ UNCHANGED <<subscribed, published, inbox, processed, expiries, losses>>
    BY DEF S!Callback, SubInv, S!TypeOK
<1>2. CASE x # t
  <2>1. Winners(x)' = Winners(x) /\ runs'[x] = runs[x] BY <1>1, <1>2 DEF Winners
  <2> QED BY <1>1, <2>1, OtherMessages
<1>3. CASE x = t
  <2>1. Winners(x)' = Winners(x) \ {p} /\ p \in Winners(x) BY <1>1, <1>3 DEF Winners
  <2>2. IsFiniteSet(Winners(x)) /\ Cardinality(Winners(x)) \in Nat BY WinnersFinite
  <2>3. Cardinality(Winners(x) \ {p}) = Cardinality(Winners(x)) - 1
    BY <2>1, <2>2, FS_RemoveElement
  <2>4. Cardinality(Winners(x))' = Cardinality(Winners(x) \ {p}) BY <2>1
  <2>5. runs[x] \in Nat /\ expiries[x] \in Nat /\ runs'[x] = runs[x] + 1
    BY <1>1, <1>3 DEF SubInv, S!TypeOK
  <2>6. Claimed(x)' = Claimed(x) /\ Claimed(x) \in Nat BY <1>1 DEF Claimed
  <2>7. (runs[x] + Cardinality(Winners(x)) <= expiries[x] + Claimed(x))'
    <3>1. runs[x] + Cardinality(Winners(x)) <= expiries[x] + Claimed(x) BY DEF SubInv, SubOf
    <3> QED BY <1>1, <2>2, <2>3, <2>4, <2>5, <2>6, <3>1
  <2>8. runs'[x] > 0 BY <2>5
  <2> QED BY <2>7, <2>8 DEF SubOf
<1> QED BY <1>2, <1>3

\* Once its key has expired a message may be claimed, and handled, once more.
LEMMA ExpireKeeps ==
    ASSUME SubInv, NEW t \in Texts, S!Expire(t), NEW x \in Texts
    PROVE SubOf(x)'
<1>1. /\ t \in processed /\ processed' = processed \ {t}
      /\ expiries' = [expiries EXCEPT ![t] = @ + 1] /\ expiries \in [Texts -> 0..MaxExpiries]
      /\ UNCHANGED <<subscribed, published, inbox, won, runs, losses>>
    BY DEF S!Expire, SubInv, S!TypeOK
<1>2. Winners(x)' = Winners(x) BY <1>1 DEF Winners
<1>3. CASE x # t BY <1>1, <1>2, <1>3, OtherMessages
<1>4. CASE x = t
  <2>1. expiries[x] \in Nat /\ expiries'[x] = expiries[x] + 1 /\ runs[x] \in Nat
    BY <1>1, <1>4 DEF SubInv, S!TypeOK
  <2>2. Claimed(x) = 1 /\ Claimed(x)' = 0 BY <1>1, <1>4 DEF Claimed
  <2>3. Cardinality(Winners(x))' = Cardinality(Winners(x)) BY <1>2
  <2>4. (runs[x] + Cardinality(Winners(x)) <= expiries[x] + Claimed(x))'
    BY <1>1, <2>1, <2>2, <2>3, WinnersFinite DEF SubInv, SubOf
  <2>5. x \notin processed' BY <1>1, <1>4
  <2> QED BY <1>1, <1>2, <2>4, <2>5 DEF SubInv, SubOf
<1> QED BY <1>3, <1>4

\* A crash or a failing command counts as a loss, and takes winners at most.
LEMMA LossKeeps ==
    ASSUME SubInv, losses' = losses + 1, won' \subseteq won,
           UNCHANGED <<published, processed, runs, expiries>>, NEW x \in Texts
    PROVE SubOf(x)'
<1>1. Winners(x)' \subseteq Winners(x) BY DEF Winners
<1>2. Cardinality(Winners(x))' <= Cardinality(Winners(x))
  <2>1. \A W \in SUBSET Winners(x) : Cardinality(W) <= Cardinality(Winners(x))
    BY WinnersFinite, FS_Subset
  <2> DEFINE W == Winners(x)'
  <2>2. Cardinality(W) <= Cardinality(Winners(x)) BY <1>1, <2>1
  <2> QED BY <2>2
<1>3. Cardinality(Winners(x)) \in Nat /\ Cardinality(Winners(x))' \in Nat
  <2>1. IsFiniteSet(Winners(x)') BY <1>1, WinnersFinite, FS_Subset
  <2> QED BY <2>1, WinnersFinite, FS_CardinalityType
<1>4. runs[x] \in Nat /\ expiries[x] \in Nat BY DEF SubInv, S!TypeOK
<1>5. Claimed(x)' = Claimed(x) /\ Claimed(x) \in Nat BY DEF Claimed
<1>6. runs[x] + Cardinality(Winners(x)) <= expiries[x] + Claimed(x) BY DEF SubInv, SubOf
<1>7. (runs[x] + Cardinality(Winners(x)) <= expiries[x] + Claimed(x))'
    BY <1>2, <1>3, <1>4, <1>5, <1>6
<1>8. losses' # 0 BY DEF SubInv, S!TypeOK
<1> QED BY <1>7, <1>8 DEF SubOf

\* The invariant of RedisPubSub holds over every step.
LEMMA SubKept ==
    ASSUME SubInv, [S!Next]_S!vars
    PROVE SubInv'
<1>1. S!TypeOK' BY SubTyped DEF SubInv
<1>2. ASSUME NEW x \in Texts PROVE SubOf(x)'
  <2>1. CASE \E p \in Nodes : S!Subscribe(p) \/ S!Unsubscribe(p)
    <3>1. UNCHANGED <<published, inbox, won, processed, runs, expiries, losses>>
        BY <2>1 DEF S!Subscribe, S!Unsubscribe
    <3>2. Winners(x)' = Winners(x) BY <3>1 DEF Winners
    <3> QED BY <3>1, <3>2, OtherMessages
  <2>2. CASE \E p \in Nodes : S!Crash(p)
    <3>1. /\ losses' = losses + 1 /\ won' \subseteq won
          /\ UNCHANGED <<published, processed, runs, expiries>>
        BY <2>2 DEF S!Crash
    <3> QED BY <3>1, LossKeeps
  <2>3. CASE \E p \in Nodes, t \in Texts : S!ClaimFails(p, t)
    <3>1. /\ losses' = losses + 1 /\ won' \subseteq won
          /\ UNCHANGED <<published, processed, runs, expiries>>
        BY <2>3 DEF S!ClaimFails
    <3> QED BY <3>1, LossKeeps
  <2>4. CASE \E p \in Nodes, t \in Texts : S!Claim(p, t) BY <2>4, ClaimKeeps
  <2>5. CASE \E p \in Nodes, t \in Texts : S!Callback(p, t) BY <2>5, CallbackKeeps
  <2>6. CASE \E t \in Texts : S!Publish(t) BY <2>6, PublishKeeps
  <2>7. CASE \E t \in Texts : S!Expire(t) BY <2>7, ExpireKeeps
  <2>8. CASE UNCHANGED S!vars
    <3>1. UNCHANGED <<published, inbox, won, processed, runs, expiries, losses>>
        BY <2>8 DEF S!vars
    <3>2. Winners(x)' = Winners(x) BY <3>1 DEF Winners
    <3> QED BY <3>1, <3>2, OtherMessages
  <2> QED BY <2>1, <2>2, <2>3, <2>4, <2>5, <2>6, <2>7, <2>8 DEF S!Next
<1> QED BY <1>1, <1>2 DEF SubInv

\* RedisPubSub has a message handled once, and once more only for each time its key
\* expires; and by somebody unless something was lost: for any number of processes and
\* messages.
THEOREM PubSubAlwaysHolds ==
    S!Spec => [](S!TypeOK /\ S!HandledOnce /\ S!HandledBySomebody)
<1>1. S!Init => SubInv
  <2> SUFFICES ASSUME S!Init PROVE SubInv OBVIOUS
  <2>1. S!TypeOK BY Bounds DEF S!Init, S!TypeOK
  <2>2. ASSUME NEW t \in Texts PROVE SubOf(t)
    <3>1. Winners(t) = {} BY DEF S!Init, Winners
    <3>2. Cardinality(Winners(t)) = 0 BY <3>1, FS_EmptySet
    <3>3. runs[t] = 0 /\ expiries[t] = 0 /\ Claimed(t) = 0 BY DEF S!Init, Claimed
    <3> QED BY <3>2, <3>3 DEF S!Init, SubOf
  <2> QED BY <2>1, <2>2 DEF SubInv
<1>2. SubInv /\ [S!Next]_S!vars => SubInv' BY SubKept
<1>3. ASSUME SubInv PROVE S!TypeOK /\ S!HandledOnce /\ S!HandledBySomebody
  <2>1. ASSUME NEW t \in Texts PROVE runs[t] <= 1 + expiries[t]
    <3>1. runs[t] \in Nat /\ expiries[t] \in Nat BY <1>3 DEF SubInv, S!TypeOK
    <3>2. Claimed(t) \in 0..1 BY DEF Claimed
    <3>3. runs[t] + Cardinality(Winners(t)) <= expiries[t] + Claimed(t) BY <1>3 DEF SubInv, SubOf
    <3> QED BY <3>1, <3>2, <3>3, WinnersFinite
  <2>2. S!HandledBySomebody BY <1>3 DEF SubInv, SubOf, S!HandledBySomebody, Winners
  <2> QED BY <1>3, <2>1, <2>2 DEF SubInv, SubOf, S!HandledOnce
<1> QED BY <1>1, <1>2, <1>3, PTL DEF S!Spec

-------------------------------------------------------------------------------
(* UserPreferences *)

HasUser(p) == "userId" \in DOMAIN prefs[p]
Finished == {r \in Clients : step[r] = "done"}

PrefsTyped ==
    /\ store \in P!Adapters /\ made \in Nat /\ DOMAIN prefs \subseteq 1..made
    /\ \A p \in DOMAIN prefs :
        prefs[p].theme \in Clients /\ (HasUser(p) => prefs[p].userId \in Owners)
    /\ step \in [Clients -> {"idle", "create", "write", "delete", "refused", "done"}]
    /\ owner \in [Clients -> Owners] /\ body \in [Clients -> Owners \union {0}]
    /\ seen \in [Clients -> 0..made]
    /\ deleted \subseteq 1..made /\ twice \subseteq Owners

\* Every record was made by a request that is done.
MadeInv == made <= Cardinality(Finished)

\* A request has found what it is about to write or delete, and what it writes, but for
\* Firebase's trace of a deleted record, is of its user or of one it was given to.
SeenInv ==
    \A r \in Clients :
        /\ step[r] \in {"write", "delete"} => seen[r] # 0
        /\ step[r] = "write" => store = "firebase"
        /\ step[r] = "write" /\ seen[r] \in DOMAIN prefs /\ HasUser(seen[r])
            => prefs[seen[r]].userId \in {owner[r]} \union P!Given

\* A request about to create finds no record of its user any more only if another was
\* about to create one at once, or gave one to that user.
LookInv ==
    \A r \in Clients, p \in DOMAIN prefs :
        step[r] = "create" /\ HasUser(p) /\ prefs[p].userId = owner[r] =>
            owner[r] \in twice \union P!Given

\* Only Firebase keeps records without a user.
WholeInv == store # "firebase" => \A p \in DOMAIN prefs : HasUser(p)

PrefsInv ==
    /\ PrefsTyped /\ MadeInv /\ SeenInv /\ LookInv /\ WholeInv
    /\ P!OnePreferenceAUser /\ P!DeletedStaysDeleted /\ P!PreferencesAreOwn

\* A query for a user matches the records of that user.
LEMMA QueryFinds ==
    ASSUME NEW r
    PROVE P!Matching(store, prefs, P!Query(r)) =
            {p \in DOMAIN prefs : HasUser(p) /\ prefs[p].userId = owner[r]}
<1> DEFINE c == [key |-> "userId", value |-> owner[r]]
<1>1. P!Conditions(store, P!Query(r)) = {c}
    BY DEF P!Conditions, P!Query
<1>2. \A v, w : P!Equals(store, v, w) <=> w = v BY DEF P!Equals, NoneContain
<1> QED BY <1>1, <1>2 DEF P!Matching, HasUser

\* What findBy answers: a record of the user, or none if there is none.
LEMMA FindByFinds ==
    ASSUME PrefsInv, NEW r \in Clients, NEW p \in P!FindBy(store, prefs, P!Query(r))
    PROVE /\ p # 0 => p \in DOMAIN prefs /\ HasUser(p) /\ prefs[p].userId = owner[r]
          /\ p = 0 => \A q \in DOMAIN prefs : ~(HasUser(q) /\ prefs[q].userId = owner[r])
          /\ p \in 0..made
<1>1. 0 \notin DOMAIN prefs BY DEF PrefsInv, PrefsTyped
<1>2. DOMAIN prefs \subseteq 0..made /\ 0 \in 0..made BY DEF PrefsInv, PrefsTyped
<1> QED BY <1>1, <1>2, QueryFinds DEF P!FindBy, P!None

\* What an update writes to a record: its theme, and its user if the body names one.
LEMMA RecordsChange ==
    ASSUME PrefsTyped, NEW ids, NEW r, prefs' = P!Change(prefs, ids, P!Changes(r))
    PROVE /\ DOMAIN prefs' = DOMAIN prefs
          /\ \A p \in DOMAIN prefs \ ids : prefs'[p] = prefs[p] /\ (HasUser(p)' <=> HasUser(p))
          /\ \A p \in ids \intersect DOMAIN prefs :
                /\ prefs'[p].theme = r
                /\ body[r] = 0 => /\ HasUser(p)' <=> HasUser(p)
                                  /\ HasUser(p) => prefs'[p].userId = prefs[p].userId
                /\ body[r] # 0 => HasUser(p)' /\ prefs'[p].userId = body[r]
<1>1. DOMAIN prefs' = DOMAIN prefs BY DEF P!Change
<1>2. ASSUME NEW p \in DOMAIN prefs \ ids
      PROVE prefs'[p] = prefs[p]
    BY <1>2 DEF P!Change
<1>3. ASSUME NEW p \in ids \intersect DOMAIN prefs
      PROVE prefs'[p] = P!Written(prefs[p], P!Changes(r))
    BY <1>3 DEF P!Change
<1>4. ASSUME NEW p \in ids \intersect DOMAIN prefs, body[r] = 0
      PROVE /\ prefs'[p].theme = r /\ (HasUser(p)' <=> HasUser(p))
            /\ HasUser(p) => prefs'[p].userId = prefs[p].userId
  <2>1. P!Changes(r) = [theme |-> r] BY <1>4 DEF P!Changes, P!None
  <2>2. DOMAIN P!Changes(r) = {"theme"} /\ P!Changes(r)["theme"] = r BY <2>1
  <2>3. prefs'[p] = P!Written(prefs[p], P!Changes(r)) BY <1>3
  <2>4. /\ DOMAIN prefs'[p] = DOMAIN prefs[p] \union {"theme"}
        /\ \A k \in DOMAIN prefs[p] \ {"theme"} : prefs'[p][k] = prefs[p][k]
        /\ prefs'[p]["theme"] = r
    BY ONLY <2>2, <2>3 DEF P!Written
  <2> QED BY <2>4 DEF HasUser
<1>5. ASSUME NEW p \in ids \intersect DOMAIN prefs, body[r] # 0
      PROVE prefs'[p].theme = r /\ HasUser(p)' /\ prefs'[p].userId = body[r]
  <2>1. P!Changes(r) = [userId |-> body[r], theme |-> r] BY <1>5 DEF P!Changes, P!None
  <2>2. /\ DOMAIN P!Changes(r) = {"userId", "theme"}
        /\ P!Changes(r)["userId"] = body[r] /\ P!Changes(r)["theme"] = r
    BY <2>1
  <2>3. prefs'[p] = P!Written(prefs[p], P!Changes(r)) BY <1>3
  <2>4. /\ "userId" \in DOMAIN prefs'[p] /\ prefs'[p]["userId"] = body[r]
        /\ prefs'[p]["theme"] = r
    BY ONLY <2>2, <2>3 DEF P!Written
  <2> QED BY <2>4 DEF HasUser
<1> QED BY <1>1, <1>2, <1>4, <1>5 DEF HasUser

\* Who was given a record stays among those; a request that ends with a body that names
\* another, or under Firebase anybody, adds to them.
LEMMA GivenGrows ==
    ASSUME PrefsTyped, NEW r \in Clients, NEW l, step' = [step EXCEPT ![r] = l],
           step[r] # "done", UNCHANGED <<store, owner, body>>
    PROVE /\ P!Given \subseteq P!Given'
          /\ l = "done" /\ body[r] # 0 /\ (body[r] # owner[r] \/ store = "firebase")
                => body[r] \in P!Given'
          /\ \A q \in Clients : step[q] = "done" => q # r /\ step'[q] = "done"
<1>1. \A q \in Clients : step[q] = "done" => q # r /\ step'[q] = "done"
    BY DEF PrefsTyped
<1>2. l = "done" => step'[r] = "done" BY DEF PrefsTyped
<1> QED BY <1>1, <1>2 DEF P!Given, P!None

\* A request that moves on is not done before, and one more is done after it is.
LEMMA FinishedGrows ==
    ASSUME PrefsInv, NEW r \in Clients, NEW l, step' = [step EXCEPT ![r] = l],
           step[r] # "done"
    PROVE /\ Cardinality(Finished) \in Nat /\ Cardinality(Finished)' \in Nat
          /\ l = "done" => Cardinality(Finished)' = Cardinality(Finished) + 1
          /\ l # "done" => Cardinality(Finished)' = Cardinality(Finished)
<1>1. Finished' = Finished \union (IF l = "done" THEN {r} ELSE {})
    BY DEF Finished, PrefsInv, PrefsTyped
<1>2. r \notin Finished BY DEF Finished
<1>3. IsFiniteSet(Finished) /\ Cardinality(Finished) \in Nat
    BY ServicesAssumption, FS_Subset, FS_CardinalityType DEF Finished
<1>4. Cardinality(Finished \union {r}) = Cardinality(Finished) + 1
    BY <1>2, <1>3, FS_AddElement
<1>5. CASE l = "done"
  <2>1. Finished' = Finished \union {r} BY <1>1, <1>5
  <2>2. Cardinality(Finished)' = Cardinality(Finished \union {r}) BY <2>1
  <2> QED BY <1>3, <1>4, <1>5, <2>2
<1>6. CASE l # "done"
  <2>1. Finished' = Finished BY <1>1, <1>6
  <2>2. Cardinality(Finished)' = Cardinality(Finished) BY <2>1
  <2> QED BY <1>3, <1>6, <2>2
<1> QED BY <1>5, <1>6

\* Looking changes no record; a look that misses finds no record of the user.
LEMMA LookKeeps ==
    ASSUME PrefsInv, NEW r \in Clients, step[r] = "idle",
           NEW hit \in {"refused", "write", "delete"},
           NEW miss \in {"create", "refused"},
           hit = "write" => store = "firebase", P!Look(r, hit, miss)
    PROVE PrefsInv'
<1>1. PICK p \in P!FindBy(store, prefs, P!Query(r)) :
        /\ step' = [step EXCEPT ![r] = IF p = 0 THEN miss ELSE hit]
        /\ seen' = [seen EXCEPT ![r] = p]
        /\ UNCHANGED <<store, prefs, made, op, owner, body, twice, deleted>>
    BY DEF P!Look, P!Goto, P!None
<1>2. /\ p # 0 => p \in DOMAIN prefs /\ HasUser(p) /\ prefs[p].userId = owner[r]
      /\ p = 0 => \A q \in DOMAIN prefs : ~(HasUser(q) /\ prefs[q].userId = owner[r])
      /\ p \in 0..made
    BY FindByFinds
<1>3. \A q \in DOMAIN prefs : HasUser(q)' <=> HasUser(q) BY <1>1 DEF HasUser
<1>4. PrefsTyped'
  <2>1. step' \in [Clients -> {"idle", "create", "write", "delete", "refused", "done"}]
    BY <1>1 DEF PrefsInv, PrefsTyped
  <2> QED BY <1>1, <1>2, <1>3, <2>1 DEF PrefsInv, PrefsTyped
<1>4a. /\ P!Given \subseteq P!Given'
       /\ \A q \in Clients : step[q] = "done" => q # r /\ step'[q] = "done"
  <2>1. PICK l : step' = [step EXCEPT ![r] = l] BY <1>1
  <2> QED BY <1>1, <2>1, GivenGrows DEF PrefsInv
<1>5. MadeInv'
  <2>1. made \in Nat BY DEF PrefsInv, PrefsTyped
  <2>2. Cardinality(Finished) \in Nat /\ Cardinality(Finished)' \in Nat
        /\ Cardinality(Finished) <= Cardinality(Finished)'
    <3>1. PICK l : step' = [step EXCEPT ![r] = l] BY <1>1
    <3>2. step[r] # "done" OBVIOUS
    <3>3. /\ Cardinality(Finished) \in Nat /\ Cardinality(Finished)' \in Nat
          /\ \/ Cardinality(Finished)' = Cardinality(Finished) + 1
             \/ Cardinality(Finished)' = Cardinality(Finished)
        BY <3>1, <3>2, FinishedGrows
    <3> QED BY <3>3
  <2> QED BY <1>1, <2>1, <2>2 DEF PrefsInv, MadeInv
<1>6. SeenInv' BY <1>1, <1>2, <1>3, <1>4a DEF PrefsInv, PrefsTyped, SeenInv
<1>7. LookInv' BY <1>1, <1>2, <1>3, <1>4a DEF PrefsInv, PrefsTyped, LookInv
<1>8. WholeInv' BY <1>1, <1>3 DEF PrefsInv, WholeInv
<1>9. P!OnePreferenceAUser' /\ P!DeletedStaysDeleted' /\ P!PreferencesAreOwn'
  <2>1. P!OnePreferenceAUser' /\ P!PreferencesAreOwn'
    BY <1>1, <1>4a DEF PrefsInv, P!OnePreferenceAUser, P!PreferencesAreOwn
  <2>2. \A q \in Clients : step[q] = "done" => step'[q] = "done" /\ seen'[q] = seen[q]
    BY <1>1, <1>4a DEF PrefsInv, PrefsTyped
  <2>3. P!DeletedStaysDeleted'
    BY <1>1, <2>2 DEF PrefsInv, P!DeletedStaysDeleted
  <2> QED BY <2>1, <2>3
<1> QED BY <1>4, <1>5, <1>6, <1>7, <1>8, <1>9 DEF PrefsInv

\* A new record is of the user who asked, and others who were about to create one for
\* that user are remembered.
LEMMA CreateKeeps ==
    ASSUME PrefsInv, NEW r \in Clients, P!Create(r)
    PROVE PrefsInv'
<1> DEFINE record == [userId |-> owner[r], theme |-> r]
           rivals == {owner[q] : q \in {p \in Clients \ {r} :
                                    step[p] = "create" /\ owner[p] = owner[r]}}
<1>1. /\ step[r] = "create" /\ twice' = twice \union rivals
      /\ UNCHANGED <<store, op, owner, body, seen, deleted>>
    BY DEF P!Create
<1>2. /\ step \in [Clients -> {"idle", "create", "write", "delete", "refused", "done"}]
      /\ made \in Nat /\ owner \in [Clients -> Owners] /\ DOMAIN prefs \subseteq 1..made
    BY DEF PrefsInv, PrefsTyped
<1>3. twice' \subseteq Owners /\ twice \subseteq twice'
    BY <1>1, <1>2 DEF PrefsInv, PrefsTyped
<1>4. \A q \in Clients \ {r} : step[q] = "create" /\ owner[q] = owner[r] => owner[r] \in twice'
    BY <1>1
<1>4a. /\ P!Given \subseteq P!Given'
       /\ \A q \in Clients : step[q] = "done" => q # r /\ step'[q] = "done"
  <2>1. PICK l : step' = [step EXCEPT ![r] = l] BY DEF P!Create, P!Goto
  <2> QED BY <1>1, <2>1, GivenGrows DEF PrefsInv
<1> HIDE DEF rivals
<1>5. CASE ~P!Creatable(store, prefs, record, "userId")
  <2>1. step' = [step EXCEPT ![r] = "refused"] /\ UNCHANGED <<made, prefs>>
    BY <1>5 DEF P!Create, P!Goto
  <2>2. \A q \in DOMAIN prefs : HasUser(q)' <=> HasUser(q) BY <2>1 DEF HasUser
  <2>3. PrefsTyped' BY <1>1, <1>3, <2>1, <2>2 DEF PrefsInv, PrefsTyped
  <2>4. MadeInv'
    <3>0. step[r] # "done" /\ "refused" # "done" BY <1>1
    <3>1. Cardinality(Finished) \in Nat /\ Cardinality(Finished)' = Cardinality(Finished)
        BY <2>1, <3>0, FinishedGrows
    <3> QED BY <2>1, <3>1 DEF PrefsInv, MadeInv
  <2>5. SeenInv' BY <1>1, <1>2, <1>4a, <2>1, <2>2 DEF PrefsInv, SeenInv
  <2>6. LookInv' BY <1>1, <1>2, <1>3, <1>4a, <2>1, <2>2 DEF PrefsInv, LookInv
  <2>7. WholeInv' BY <1>1, <2>1, <2>2 DEF PrefsInv, WholeInv
  <2>8. P!OnePreferenceAUser' /\ P!DeletedStaysDeleted' /\ P!PreferencesAreOwn'
    BY <1>1, <1>3, <1>4a, <2>1
    DEF PrefsInv, P!OnePreferenceAUser, P!DeletedStaysDeleted, P!PreferencesAreOwn
  <2> QED BY <2>3, <2>4, <2>5, <2>6, <2>7, <2>8 DEF PrefsInv
<1>6. CASE P!Creatable(store, prefs, record, "userId")
  <2>0. PICK new : new = made + 1 OBVIOUS
  <2>1. /\ step' = [step EXCEPT ![r] = "done"] /\ made' = made + 1
        /\ prefs' = P!Insert(prefs, made', record)
    BY <1>6 DEF P!Create, P!Goto
  <2>2. new \in Nat /\ new \notin DOMAIN prefs /\ new # 0 /\ 1..made \subseteq 1..new
        /\ new \in 1..new /\ 0..made \subseteq 0..new /\ new \notin 1..made /\ new \notin 0..made
    BY <1>2, <2>0
  <2>3. made' = new BY <2>0, <2>1
  <2>4. /\ DOMAIN prefs' = DOMAIN prefs \union {new}
        /\ \A p \in DOMAIN prefs : prefs'[p] = prefs[p]
        /\ prefs'[new] = record
    BY <2>1, <2>2, <2>3 DEF P!Insert
  <2>5. /\ \A p \in DOMAIN prefs : HasUser(p)' <=> HasUser(p)
        /\ HasUser(new)' /\ prefs'[new].userId = owner[r] /\ prefs'[new].theme = r
    BY <2>4 DEF HasUser
  <2>6. PrefsTyped'
    <3>1. made' \in Nat /\ DOMAIN prefs' \subseteq 1..made' BY <1>2, <2>2, <2>3, <2>4
    <3>2. \A p \in DOMAIN prefs' :
            prefs'[p].theme \in Clients /\ (HasUser(p)' => prefs'[p].userId \in Owners)
        BY <1>2, <2>4, <2>5 DEF PrefsInv, PrefsTyped
    <3>3. seen' \in [Clients -> 0..made'] /\ deleted' \subseteq 1..made'
        BY <1>1, <2>2, <2>3 DEF PrefsInv, PrefsTyped
    <3> QED BY <1>1, <1>3, <2>1, <3>1, <3>2, <3>3 DEF PrefsInv, PrefsTyped
  <2>7. MadeInv'
    <3>1. Cardinality(Finished) \in Nat /\ Cardinality(Finished)' = Cardinality(Finished) + 1
        BY <1>1, <2>1, FinishedGrows
    <3>2. made <= Cardinality(Finished) BY DEF PrefsInv, MadeInv
    <3> QED BY <1>2, <2>1, <3>1, <3>2 DEF MadeInv
  <2>8. SeenInv'
    <3>1. \A q \in Clients : seen[q] # new
        BY <2>2 DEF PrefsInv, PrefsTyped
    <3> QED BY <1>1, <1>2, <1>4a, <2>1, <2>4, <2>5, <3>1 DEF PrefsInv, SeenInv
  <2>9. LookInv'
    <3> SUFFICES ASSUME NEW q \in Clients, NEW p \in DOMAIN prefs', step'[q] = "create",
                        HasUser(p)', prefs'[p].userId = owner[q]
                 PROVE owner[q] \in twice' \union P!Given'
        BY <1>1 DEF LookInv
    <3>1. q # r /\ step[q] = "create" BY <1>2, <2>1
    <3>2. CASE p = new BY <1>4, <2>5, <3>1, <3>2
    <3>3. CASE p \in DOMAIN prefs
        BY <1>3, <1>4a, <2>4, <2>5, <3>1, <3>3 DEF PrefsInv, LookInv
    <3> QED BY <2>4, <3>2, <3>3
  <2>10. WholeInv' BY <1>1, <2>4, <2>5 DEF PrefsInv, WholeInv
  <2>11. P!OnePreferenceAUser'
    <3>1. ASSUME NEW p \in DOMAIN prefs, HasUser(p), prefs[p].userId = owner[r]
          PROVE store # "prisma" /\ owner[r] \in twice \union P!Given
      <4>1. owner[r] \in twice \union P!Given BY <1>1, <3>1 DEF PrefsInv, LookInv
      <4>2. store = "prisma" => prefs[p].userId # owner[r]
        BY <1>6 DEF P!Creatable
      <4> QED BY <3>1, <4>1, <4>2
    <3> SUFFICES ASSUME NEW p \in DOMAIN prefs', NEW q \in DOMAIN prefs', p # q,
                        HasUser(p)', HasUser(q)', prefs'[p].userId = prefs'[q].userId
                 PROVE store # "prisma" /\ prefs'[p].userId \in twice' \union P!Given'
        BY <1>1 DEF P!OnePreferenceAUser, HasUser
    <3>2. CASE p \in DOMAIN prefs /\ q \in DOMAIN prefs
        BY <1>3, <1>4a, <2>4, <2>5, <3>2 DEF PrefsInv, P!OnePreferenceAUser, HasUser
    <3>3. CASE p = new /\ q \in DOMAIN prefs BY <1>3, <1>4a, <2>4, <2>5, <3>1, <3>3
    <3>4. CASE q = new /\ p \in DOMAIN prefs BY <1>3, <1>4a, <2>4, <2>5, <3>1, <3>4
    <3> QED BY <2>4, <3>2, <3>3, <3>4
  <2>12. P!DeletedStaysDeleted'
    <3>1. new \notin deleted BY <2>2 DEF PrefsInv, PrefsTyped
    <3> QED BY <1>1, <1>4a, <2>4, <3>1 DEF PrefsInv, P!DeletedStaysDeleted
  <2>13. P!PreferencesAreOwn'
    BY <1>1, <1>4a, <2>4, <2>5 DEF PrefsInv, P!PreferencesAreOwn, HasUser
  <2> QED BY <2>6, <2>7, <2>8, <2>9, <2>10, <2>11, <2>12, <2>13 DEF PrefsInv
<1> QED BY <1>5, <1>6

\* What is written are records of the user who asked, or of one a record was given to;
\* a body that names a user has it join those, or changes nothing.
LEMMA WriteKeeps ==
    ASSUME PrefsInv, NEW r \in Clients, step[r] # "done", NEW ids,
           prefs' = P!Change(prefs, ids, P!Changes(r)),
           ids \subseteq DOMAIN prefs,
           \A p \in ids : HasUser(p) => prefs[p].userId \in {owner[r]} \union P!Given,
           store = "firebase" => ids = {seen[r]},
           store # "firebase" => \A p \in ids : HasUser(p) /\ prefs[p].userId = owner[r],
           store # "prisma" => \A p, q \in ids : p = q,
           store # "firebase" => P!Writable(r),
           step' = [step EXCEPT ![r] = "done"],
           UNCHANGED <<store, made, op, owner, body, seen, twice, deleted>>
    PROVE PrefsInv'
<1>0. PrefsTyped BY DEF PrefsInv
<1>1. /\ DOMAIN prefs' = DOMAIN prefs
      /\ \A p \in DOMAIN prefs \ ids : prefs'[p] = prefs[p] /\ (HasUser(p)' <=> HasUser(p))
      /\ \A p \in ids :
            /\ prefs'[p].theme = r
            /\ body[r] = 0 => /\ HasUser(p)' <=> HasUser(p)
                              /\ HasUser(p) => prefs'[p].userId = prefs[p].userId
            /\ body[r] # 0 => HasUser(p)' /\ prefs'[p].userId = body[r]
  <2>1. \A p \in ids : p \in ids \intersect DOMAIN prefs OBVIOUS
  <2> QED BY <1>0, <2>1, RecordsChange
<1>2. /\ step \in [Clients -> {"idle", "create", "write", "delete", "refused", "done"}]
      /\ owner \in [Clients -> Owners] /\ body \in [Clients -> Owners \union {0}]
      /\ 0 \notin Owners
    BY ServicesAssumption DEF PrefsInv, PrefsTyped, P!None
<1>2a. /\ P!Given \subseteq P!Given'
       /\ body[r] # 0 /\ (body[r] # owner[r] \/ store = "firebase") => body[r] \in P!Given'
       /\ \A q \in Clients : step[q] = "done" => q # r /\ step'[q] = "done"
    BY <1>0, GivenGrows
\* Whose a record is changes only to one who is given it.
<1>2b. ASSUME NEW p \in DOMAIN prefs, HasUser(p)'
       PROVE \/ HasUser(p) /\ prefs'[p].userId = prefs[p].userId
             \/ /\ p \in ids /\ body[r] # 0 /\ prefs'[p].userId = body[r]
                /\ body[r] \in P!Given' /\ (body[r] # owner[r] \/ store = "firebase")
  <2>1. CASE p \notin ids BY <1>1, <1>2b, <2>1
  <2>2. CASE p \in ids /\ body[r] = 0 BY <1>1, <1>2b, <2>2
  <2>3. CASE p \in ids /\ body[r] # 0
    <3>1. prefs'[p].userId = body[r] BY <1>1, <2>3
    <3>2. CASE body[r] # owner[r] \/ store = "firebase" BY <1>2a, <2>3, <3>1, <3>2
    <3>3. CASE body[r] = owner[r] /\ store # "firebase" BY <2>3, <3>1, <3>3
    <3> QED BY <3>2, <3>3
  <2> QED BY <2>1, <2>2, <2>3
<1>3. PrefsTyped'
  <2>1. ASSUME NEW p \in DOMAIN prefs'
        PROVE prefs'[p].theme \in Clients /\ (HasUser(p)' => prefs'[p].userId \in Owners)
    <3>1. prefs'[p].theme \in Clients BY <1>0, <1>1 DEF PrefsTyped
    <3>2. HasUser(p)' => prefs'[p].userId \in Owners
        BY <1>0, <1>1, <1>2, <1>2b DEF PrefsTyped
    <3> QED BY <3>1, <3>2
  <2> QED BY <1>0, <1>1, <2>1 DEF PrefsTyped
<1>4. MadeInv'
  <2>1. made \in Nat BY DEF PrefsInv, PrefsTyped
  <2>2. Cardinality(Finished) \in Nat /\ Cardinality(Finished)' = Cardinality(Finished) + 1
    BY FinishedGrows
  <2> QED BY <2>1, <2>2 DEF PrefsInv, MadeInv
<1>5. SeenInv'
  <2> SUFFICES ASSUME NEW q \in Clients
               PROVE /\ step'[q] \in {"write", "delete"} => seen[q] # 0
                     /\ step'[q] = "write" => store = "firebase"
                     /\ step'[q] = "write" /\ seen[q] \in DOMAIN prefs' /\ HasUser(seen[q])'
                            => prefs'[seen[q]].userId \in {owner[q]} \union P!Given'
    BY DEF SeenInv, HasUser
  <2>1. step'[q] \in {"write", "delete"} => step'[q] = step[q] BY <1>2
  <2>2. /\ step'[q] \in {"write", "delete"} => seen[q] # 0
        /\ step'[q] = "write" => store = "firebase"
    BY <2>1 DEF PrefsInv, SeenInv
  <2>3. ASSUME step'[q] = "write", seen[q] \in DOMAIN prefs', HasUser(seen[q])'
        PROVE prefs'[seen[q]].userId \in {owner[q]} \union P!Given'
    <3>1. step[q] = "write" /\ seen[q] \in DOMAIN prefs BY <1>1, <2>1, <2>3
    <3>2. HasUser(seen[q]) => prefs[seen[q]].userId \in {owner[q]} \union P!Given
        BY <3>1 DEF PrefsInv, SeenInv
    <3>3. \/ HasUser(seen[q]) /\ prefs'[seen[q]].userId = prefs[seen[q]].userId
          \/ prefs'[seen[q]].userId \in P!Given'
        BY <1>2b, <2>3, <3>1
    <3> QED BY <1>2a, <3>2, <3>3
  <2> QED BY <2>2, <2>3
<1>6. LookInv'
  <2> SUFFICES ASSUME NEW q \in Clients, NEW p \in DOMAIN prefs', step'[q] = "create",
                      HasUser(p)', prefs'[p].userId = owner[q]
               PROVE owner[q] \in twice \union P!Given'
    BY DEF LookInv
  <2>1. step[q] = "create" /\ p \in DOMAIN prefs BY <1>1, <1>2
  <2>2. \/ HasUser(p) /\ prefs'[p].userId = prefs[p].userId
        \/ prefs'[p].userId \in P!Given'
    BY <1>2b, <2>1
  <2> QED BY <1>2a, <2>1, <2>2 DEF PrefsInv, LookInv
<1>7. WholeInv'
  <2> SUFFICES ASSUME store # "firebase", NEW p \in DOMAIN prefs PROVE HasUser(p)'
    BY <1>1 DEF WholeInv
  <2>1. HasUser(p) BY DEF PrefsInv, WholeInv
  <2> QED BY <1>1, <2>1
<1>8. P!OnePreferenceAUser'
  <2>0. ASSUME NEW p \in DOMAIN prefs, NEW q \in DOMAIN prefs, p # q, HasUser(p), HasUser(q),
               prefs[p].userId = prefs[q].userId
        PROVE store # "prisma" /\ prefs[p].userId \in twice \union P!Given
    BY <2>0 DEF PrefsInv, P!OnePreferenceAUser, HasUser
  <2> SUFFICES ASSUME NEW p \in DOMAIN prefs, NEW q \in DOMAIN prefs, p # q,
                      HasUser(p)', HasUser(q)', prefs'[p].userId = prefs'[q].userId
               PROVE store # "prisma" /\ prefs'[p].userId \in twice \union P!Given'
    BY <1>1 DEF P!OnePreferenceAUser, HasUser
  <2> DEFINE given(c) == /\ c \in ids /\ body[r] # 0 /\ prefs'[c].userId = body[r]
                         /\ body[r] \in P!Given'
                         /\ (body[r] # owner[r] \/ store = "firebase")
  <2>1. /\ (HasUser(p) /\ prefs'[p].userId = prefs[p].userId) \/ given(p)
        /\ (HasUser(q) /\ prefs'[q].userId = prefs[q].userId) \/ given(q)
    BY <1>2b
  <2>2. CASE (HasUser(p) /\ prefs'[p].userId = prefs[p].userId)
                /\ (HasUser(q) /\ prefs'[q].userId = prefs[q].userId)
    BY <1>2a, <2>0, <2>2
  <2>3. ASSUME NEW c \in {p, q}, NEW d \in {p, q}, c # d, given(c)
        PROVE store # "prisma"
    <3>1. SUFFICES ASSUME store = "prisma" PROVE FALSE OBVIOUS
    <3>2. body[r] # owner[r] /\ prefs'[d].userId = body[r] BY <2>3, <3>1
    <3>3. CASE d \in ids
      <4>1. HasUser(c) /\ HasUser(d) /\ prefs[c].userId = prefs[d].userId
        BY <2>3, <3>1, <3>3
      <4> QED BY <2>0, <2>3, <3>1, <4>1
    <3>4. CASE d \notin ids
      <4>1. prefs[d].userId = body[r] BY <1>1, <3>2, <3>4
      <4>2. body[r] = owner[r]
        BY <2>3, <3>1, <4>1 DEF P!Writable, P!None
      <4> QED BY <3>2, <4>2
    <3> QED BY <3>3, <3>4
  <2>4. CASE given(p) BY <2>3, <2>4
  <2>5. CASE given(q) BY <2>3, <2>5
  <2> QED BY <2>1, <2>2, <2>4, <2>5
<1>9. P!DeletedStaysDeleted'
  <2> SUFFICES ASSUME NEW p \in deleted, p \in DOMAIN prefs
               PROVE /\ store = "firebase"
                     /\ HasUser(p)' => \E q \in Clients :
                            step'[q] = "done" /\ seen[q] = p /\ body[q] = prefs'[p].userId
    BY <1>1 DEF P!DeletedStaysDeleted, HasUser
  <2>1. /\ store = "firebase"
        /\ HasUser(p) => \E q \in Clients :
                step[q] = "done" /\ seen[q] = p /\ body[q] = prefs[p].userId
    BY DEF PrefsInv, P!DeletedStaysDeleted, HasUser
  <2>2. ASSUME HasUser(p)' PROVE \E q \in Clients :
            step'[q] = "done" /\ seen[q] = p /\ body[q] = prefs'[p].userId
    <3>1. CASE HasUser(p) /\ prefs'[p].userId = prefs[p].userId
        BY <1>2a, <2>1, <3>1
    <3>2. CASE p \in ids /\ prefs'[p].userId = body[r]
      <4>1. seen[r] = p /\ step'[r] = "done" BY <1>2, <2>1, <3>2
      <4> QED BY <3>2, <4>1
    <3> QED BY <1>2b, <2>2, <3>1, <3>2
  <2> QED BY <2>1, <2>2
<1>10. P!PreferencesAreOwn'
  <2> SUFFICES ASSUME NEW p \in DOMAIN prefs, HasUser(p)'
               PROVE \/ owner[prefs'[p].theme] = prefs'[p].userId
                     \/ prefs'[p].userId \in P!Given'
    BY <1>1 DEF P!PreferencesAreOwn, HasUser
  <2>1. HasUser(p) => \/ owner[prefs[p].theme] = prefs[p].userId
                      \/ prefs[p].userId \in P!Given
    BY DEF PrefsInv, P!PreferencesAreOwn, HasUser
  <2>2. \/ HasUser(p) /\ prefs'[p].userId = prefs[p].userId
        \/ prefs'[p].userId \in P!Given'
    BY <1>2b
  <2>3. CASE p \in ids BY <1>1, <1>2a, <2>2, <2>3
  <2>4. CASE p \notin ids BY <1>1, <1>2a, <2>1, <2>2, <2>4
  <2> QED BY <2>3, <2>4
<1> QED BY <1>3, <1>4, <1>5, <1>6, <1>7, <1>8, <1>9, <1>10 DEF PrefsInv

\* Firebase's update of a record that was deleted brings back no more than its theme, and
\* the user its body names.
LEMMA RestoreKeeps ==
    ASSUME PrefsInv, NEW r \in Clients, step[r] = "write", seen[r] \notin DOMAIN prefs,
           prefs' = P!Insert(prefs, seen[r], P!Changes(r)),
           step' = [step EXCEPT ![r] = "done"],
           UNCHANGED <<store, made, op, owner, body, seen, twice, deleted>>
    PROVE PrefsInv'
<1>0. PICK back : back = seen[r] OBVIOUS
<1>1. back \in 1..made /\ store = "firebase" /\ made \in Nat
    BY <1>0 DEF PrefsInv, PrefsTyped, SeenInv
<1>2. /\ DOMAIN prefs' = DOMAIN prefs \union {back} /\ back \notin DOMAIN prefs
      /\ \A p \in DOMAIN prefs : prefs'[p] = prefs[p]
      /\ prefs'[back] = P!Changes(r)
    BY <1>0 DEF P!Insert
<1>2a. /\ P!Given \subseteq P!Given' /\ (body[r] # 0 => body[r] \in P!Given')
       /\ \A q \in Clients : step[q] = "done" => q # r /\ step'[q] = "done"
    BY <1>1, GivenGrows DEF PrefsInv
<1>2b. body[r] # 0 => body[r] \in Owners BY DEF PrefsInv, PrefsTyped
<1>3. /\ \A p \in DOMAIN prefs : HasUser(p)' <=> HasUser(p)
      /\ prefs'[back].theme = r
      /\ HasUser(back)' => body[r] # 0 /\ prefs'[back].userId = body[r]
  <2>1. CASE body[r] = 0 BY <1>2, <2>1 DEF HasUser, P!Changes, P!None
  <2>2. CASE body[r] # 0 BY <1>2, <2>2 DEF HasUser, P!Changes, P!None
  <2> QED BY <2>1, <2>2
<1>4. step \in [Clients -> {"idle", "create", "write", "delete", "refused", "done"}]
    BY DEF PrefsInv, PrefsTyped
<1>5. PrefsTyped'
  <2>1. \A p \in DOMAIN prefs' :
            prefs'[p].theme \in Clients /\ (HasUser(p)' => prefs'[p].userId \in Owners)
    BY <1>2, <1>2b, <1>3 DEF PrefsInv, PrefsTyped
  <2> QED BY <1>1, <1>2, <2>1 DEF PrefsInv, PrefsTyped
<1>6. MadeInv'
  <2>1. Cardinality(Finished) \in Nat /\ Cardinality(Finished)' = Cardinality(Finished) + 1
    BY FinishedGrows
  <2> QED BY <1>1, <2>1 DEF PrefsInv, MadeInv
<1>7. SeenInv'
  <2> SUFFICES ASSUME NEW q \in Clients
               PROVE /\ step'[q] \in {"write", "delete"} => seen[q] # 0
                     /\ step'[q] = "write" => store = "firebase"
                     /\ step'[q] = "write" /\ seen[q] \in DOMAIN prefs' /\ HasUser(seen[q])'
                            => prefs'[seen[q]].userId \in {owner[q]} \union P!Given'
    BY DEF SeenInv, HasUser
  <2>1. step'[q] \in {"write", "delete"} => step'[q] = step[q] BY <1>4
  <2>2. /\ step'[q] \in {"write", "delete"} => seen[q] # 0
        /\ step'[q] = "write" => store = "firebase"
    BY <2>1 DEF PrefsInv, SeenInv
  <2>3. ASSUME step'[q] = "write", seen[q] \in DOMAIN prefs', HasUser(seen[q])'
        PROVE prefs'[seen[q]].userId \in {owner[q]} \union P!Given'
    <3>1. CASE seen[q] = back BY <1>2a, <1>3, <2>3, <3>1
    <3>2. CASE seen[q] \in DOMAIN prefs
      <4>1. prefs[seen[q]].userId \in {owner[q]} \union P!Given
        BY <1>3, <2>1, <2>3, <3>2 DEF PrefsInv, SeenInv
      <4> QED BY <1>2, <1>2a, <3>2, <4>1
    <3> QED BY <1>2, <2>3, <3>1, <3>2
  <2> QED BY <2>2, <2>3
<1>8. LookInv'
  <2> SUFFICES ASSUME NEW q \in Clients, NEW p \in DOMAIN prefs', step'[q] = "create",
                      HasUser(p)', prefs'[p].userId = owner[q]
               PROVE owner[q] \in twice \union P!Given'
    BY DEF LookInv
  <2>1. step[q] = "create" BY <1>4
  <2>2. CASE p = back BY <1>2a, <1>3, <2>2
  <2>3. CASE p \in DOMAIN prefs
    BY <1>2, <1>2a, <1>3, <2>1, <2>3 DEF PrefsInv, LookInv
  <2> QED BY <1>2, <2>2, <2>3
<1>9. WholeInv' BY <1>1 DEF WholeInv
<1>10. P!OnePreferenceAUser'
  <2> SUFFICES ASSUME NEW p \in DOMAIN prefs', NEW q \in DOMAIN prefs', p # q,
                      HasUser(p)', HasUser(q)', prefs'[p].userId = prefs'[q].userId
               PROVE prefs'[p].userId \in twice \union P!Given'
    BY <1>1 DEF P!OnePreferenceAUser, HasUser
  <2>1. CASE p = back \/ q = back BY <1>2a, <1>3, <2>1
  <2>2. CASE p \in DOMAIN prefs /\ q \in DOMAIN prefs
    <3>1. prefs[p].userId \in twice \union P!Given
        BY <1>2, <1>3, <2>2 DEF PrefsInv, P!OnePreferenceAUser, HasUser
    <3> QED BY <1>2, <1>2a, <2>2, <3>1
  <2> QED BY <1>2, <2>1, <2>2
<1>11. P!DeletedStaysDeleted'
  <2> SUFFICES ASSUME NEW p \in deleted, p \in DOMAIN prefs', HasUser(p)'
               PROVE \E q \in Clients :
                        step'[q] = "done" /\ seen[q] = p /\ body[q] = prefs'[p].userId
    BY <1>1 DEF P!DeletedStaysDeleted, HasUser
  <2>1. CASE p = back
    <3>1. step'[r] = "done" BY <1>4
    <3> QED BY <1>0, <1>3, <2>1, <3>1
  <2>2. CASE p \in DOMAIN prefs
    <3>1. \E q \in Clients : step[q] = "done" /\ seen[q] = p /\ body[q] = prefs[p].userId
        BY <1>3, <2>2 DEF PrefsInv, P!DeletedStaysDeleted, HasUser
    <3> QED BY <1>2, <1>2a, <2>2, <3>1
  <2> QED BY <1>2, <2>1, <2>2
<1>12. P!PreferencesAreOwn'
  <2> SUFFICES ASSUME NEW p \in DOMAIN prefs', HasUser(p)'
               PROVE \/ owner[prefs'[p].theme] = prefs'[p].userId
                     \/ prefs'[p].userId \in P!Given'
    BY DEF P!PreferencesAreOwn, HasUser
  <2>1. CASE p = back BY <1>2a, <1>3, <2>1
  <2>2. CASE p \in DOMAIN prefs
    <3>1. \/ owner[prefs[p].theme] = prefs[p].userId
          \/ prefs[p].userId \in P!Given
        BY <1>3, <2>2 DEF PrefsInv, P!PreferencesAreOwn, HasUser
    <3> QED BY <1>2, <1>2a, <2>2, <3>1
  <2> QED BY <1>2, <2>1, <2>2
<1> QED BY <1>5, <1>6, <1>7, <1>8, <1>9, <1>10, <1>11, <1>12 DEF PrefsInv

\* A deletion takes a record away and remembers it.
LEMMA DeleteKeeps ==
    ASSUME PrefsInv, NEW r \in Clients, P!DeleteFound(r)
    PROVE PrefsInv'
<1>1. /\ step[r] = "delete" /\ step' = [step EXCEPT ![r] = "done"]
      /\ prefs' = P!Delete(prefs, seen[r]) /\ deleted' = deleted \union {seen[r]}
      /\ UNCHANGED <<store, made, op, owner, body, seen, twice>>
    BY DEF P!DeleteFound, P!Goto
<1>2. seen[r] \in 1..made /\ made \in Nat BY <1>1 DEF PrefsInv, PrefsTyped, SeenInv
<1>3. /\ DOMAIN prefs' = DOMAIN prefs \ {seen[r]}
      /\ \A p \in DOMAIN prefs' : prefs'[p] = prefs[p] /\ (HasUser(p)' <=> HasUser(p))
    BY <1>1 DEF P!Delete, HasUser
<1>4. step \in [Clients -> {"idle", "create", "write", "delete", "refused", "done"}]
    BY DEF PrefsInv, PrefsTyped
<1>4a. /\ P!Given \subseteq P!Given'
       /\ \A q \in Clients : step[q] = "done" => q # r /\ step'[q] = "done"
    BY <1>1, GivenGrows DEF PrefsInv
<1>5. PrefsTyped' BY <1>1, <1>2, <1>3 DEF PrefsInv, PrefsTyped
<1>6. MadeInv'
  <2>1. Cardinality(Finished) \in Nat /\ Cardinality(Finished)' = Cardinality(Finished) + 1
    BY <1>1, FinishedGrows
  <2> QED BY <1>1, <1>2, <2>1 DEF PrefsInv, MadeInv
<1>7. SeenInv' BY <1>1, <1>3, <1>4, <1>4a DEF PrefsInv, SeenInv
<1>8. LookInv' BY <1>1, <1>3, <1>4, <1>4a DEF PrefsInv, LookInv
<1>9. WholeInv' BY <1>1, <1>3 DEF PrefsInv, WholeInv
<1>10. P!OnePreferenceAUser'
    BY <1>1, <1>3, <1>4a DEF PrefsInv, P!OnePreferenceAUser, HasUser
<1>11. P!DeletedStaysDeleted'
    BY <1>1, <1>3, <1>4a DEF PrefsInv, P!DeletedStaysDeleted, HasUser
<1>12. P!PreferencesAreOwn' BY <1>1, <1>3, <1>4a DEF PrefsInv, P!PreferencesAreOwn, HasUser
<1> QED BY <1>5, <1>6, <1>7, <1>8, <1>9, <1>10, <1>11, <1>12 DEF PrefsInv

\* An update that finds nothing, or that the database refuses, changes no record.
LEMMA RefusedKeeps ==
    ASSUME PrefsInv, NEW r \in Clients, step[r] # "done", prefs' = prefs,
           step' = [step EXCEPT ![r] = "refused"],
           UNCHANGED <<store, made, op, owner, body, seen, twice, deleted>>
    PROVE PrefsInv'
<1>1. \A p \in DOMAIN prefs : HasUser(p)' <=> HasUser(p) BY DEF HasUser
<1>2. step \in [Clients -> {"idle", "create", "write", "delete", "refused", "done"}]
    BY DEF PrefsInv, PrefsTyped
<1>3. /\ P!Given \subseteq P!Given'
      /\ \A q \in Clients : step[q] = "done" => q # r /\ step'[q] = "done"
    BY GivenGrows DEF PrefsInv
<1>4. PrefsTyped' BY <1>1 DEF PrefsInv, PrefsTyped
<1>5. MadeInv'
  <2>1. PICK l : l = "refused" /\ step' = [step EXCEPT ![r] = l] OBVIOUS
  <2>2. /\ Cardinality(Finished) \in Nat
        /\ l # "done" => Cardinality(Finished)' = Cardinality(Finished)
    BY <2>1, FinishedGrows
  <2> QED BY <2>1, <2>2 DEF PrefsInv, MadeInv
<1>6. SeenInv' BY <1>1, <1>2, <1>3 DEF PrefsInv, SeenInv
<1>7. LookInv' /\ WholeInv' BY <1>1, <1>2, <1>3 DEF PrefsInv, LookInv, WholeInv
<1>8. P!OnePreferenceAUser' /\ P!DeletedStaysDeleted' /\ P!PreferencesAreOwn'
    BY <1>3 DEF PrefsInv, P!OnePreferenceAUser, P!DeletedStaysDeleted, P!PreferencesAreOwn
<1> QED BY <1>4, <1>5, <1>6, <1>7, <1>8 DEF PrefsInv

\* The invariant of the preferences holds over every step.
LEMMA PrefsKept ==
    ASSUME PrefsInv, [P!Next]_P!vars
    PROVE PrefsInv'
<1>1. ASSUME NEW r \in Clients, P!CreateLooks(r) PROVE PrefsInv'
    BY <1>1, LookKeeps DEF P!CreateLooks
<1>2. ASSUME NEW r \in Clients, P!Create(r) PROVE PrefsInv' BY <1>2, CreateKeeps
<1>3. ASSUME NEW r \in Clients, P!Update(r) PROVE PrefsInv'
  <2> DEFINE matching == P!Matching(store, prefs, P!Query(r))
  <2>0. /\ step[r] = "idle" /\ store # "firebase"
        /\ UNCHANGED <<store, made, op, owner, body, seen, twice, deleted>>
    BY <1>3 DEF P!Update
  <2>1. CASE ~(P!Exists(store, prefs, P!Query(r)) /\ P!Writable(r))
    <3>1. prefs' = prefs /\ step' = [step EXCEPT ![r] = "refused"]
        BY <1>3, <2>1 DEF P!Update, P!Goto
    <3> QED BY <2>0, <3>1, RefusedKeeps
  <2>2. CASE P!Exists(store, prefs, P!Query(r)) /\ P!Writable(r)
    <3>1. prefs' \in P!UpdateBy(store, prefs, P!Query(r), P!Changes(r))
          /\ step' = [step EXCEPT ![r] = "done"]
        BY <1>3, <2>2 DEF P!Update, P!Goto
    <3>2. PICK ids \in SUBSET matching :
            /\ prefs' = P!Change(prefs, ids, P!Changes(r))
            /\ store # "prisma" => \A p, q \in ids : p = q
      <4>1. CASE store = "prisma" \/ matching = {}
        <5>1. prefs' = P!Change(prefs, matching, P!Changes(r))
            BY <3>1, <4>1 DEF P!UpdateBy
        <5> QED BY <4>1, <5>1
      <4>2. CASE ~(store = "prisma" \/ matching = {})
        <5>1. PICK id \in matching : prefs' = P!Change(prefs, {id}, P!Changes(r))
            BY <3>1, <4>2 DEF P!UpdateBy
        <5> QED BY <5>1
      <4> QED BY <4>1, <4>2
    <3>3. \A p \in ids : p \in DOMAIN prefs /\ HasUser(p) /\ prefs[p].userId = owner[r]
        BY <3>2, QueryFinds
    <3>. HIDE DEF matching
    <3> QED BY <2>0, <2>2, <3>1, <3>2, <3>3, WriteKeeps
  <2> QED BY <2>1, <2>2
<1>4. ASSUME NEW r \in Clients, P!UpdateLooks(r) PROVE PrefsInv'
    BY <1>4, LookKeeps DEF P!UpdateLooks
<1>5. ASSUME NEW r \in Clients, P!UpdateWrites(r) PROVE PrefsInv'
  <2>1. /\ step[r] = "write" /\ step' = [step EXCEPT ![r] = "done"]
        /\ prefs' = P!UpdateById(store, prefs, seen[r], P!Changes(r))
        /\ UNCHANGED <<store, made, op, owner, body, seen, twice, deleted>>
    BY <1>5 DEF P!UpdateWrites, P!Goto
  <2>2. store = "firebase" BY <2>1 DEF PrefsInv, SeenInv
  <2>3. CASE seen[r] \in DOMAIN prefs
    <3>1. prefs' = P!Change(prefs, {seen[r]}, P!Changes(r))
        BY <2>1, <2>3 DEF P!UpdateById
    <3>2. HasUser(seen[r]) => prefs[seen[r]].userId \in {owner[r]} \union P!Given
        BY <2>1, <2>3 DEF PrefsInv, SeenInv
    <3>3. step[r] # "done" BY <2>1
    <3>4. PICK ids : ids = {seen[r]} OBVIOUS
    <3>5. /\ prefs' = P!Change(prefs, ids, P!Changes(r))
          /\ \A p \in ids : HasUser(p) => prefs[p].userId \in {owner[r]} \union P!Given
          /\ \A p, q \in ids : p = q
          /\ ids \subseteq DOMAIN prefs
        BY <2>3, <3>1, <3>2, <3>4
    <3> QED BY <2>1, <2>2, <3>3, <3>4, <3>5, WriteKeeps
  <2>4. CASE seen[r] \notin DOMAIN prefs
    <3>1. prefs' = P!Insert(prefs, seen[r], P!Changes(r))
        BY <2>1, <2>2, <2>4 DEF P!UpdateById
    <3> QED BY <2>1, <2>4, <3>1, RestoreKeeps
  <2> QED BY <2>3, <2>4
<1>6. ASSUME NEW r \in Clients, P!DeleteLooks(r) PROVE PrefsInv'
    BY <1>6, LookKeeps DEF P!DeleteLooks
<1>7. ASSUME NEW r \in Clients, P!DeleteFound(r) PROVE PrefsInv' BY <1>7, DeleteKeeps
<1>8. CASE UNCHANGED P!vars
  <2>1. UNCHANGED <<store, prefs, made, step, op, owner, body, seen, twice, deleted>>
    BY <1>8 DEF P!vars
  <2>2. \A p \in DOMAIN prefs : HasUser(p)' <=> HasUser(p) BY <2>1 DEF HasUser
  <2>3. Finished' = Finished BY <2>1 DEF Finished
  <2>8. P!Given' = P!Given BY <2>1 DEF P!Given
  <2>4. PrefsTyped' BY <2>1, <2>2 DEF PrefsInv, PrefsTyped
  <2>5. MadeInv'
    <3>1. Cardinality(Finished)' = Cardinality(Finished) BY <2>3
    <3> QED BY <2>1, <3>1 DEF PrefsInv, MadeInv
  <2>6. SeenInv' /\ LookInv' /\ WholeInv'
    BY <2>1, <2>2, <2>8 DEF PrefsInv, SeenInv, LookInv, WholeInv
  <2>7. P!OnePreferenceAUser' /\ P!DeletedStaysDeleted' /\ P!PreferencesAreOwn'
    BY <2>1, <2>8
    DEF PrefsInv, P!OnePreferenceAUser, P!DeletedStaysDeleted, P!PreferencesAreOwn
  <2> QED BY <2>4, <2>5, <2>6, <2>7 DEF PrefsInv
<1> QED BY <1>1, <1>2, <1>3, <1>4, <1>5, <1>6, <1>7, <1>8 DEF P!Next

\* However requests interleave, over any of the three databases, whatever user the body of
\* an update names: a user has two records of preferences only after a race that the
\* database does not prevent or when an update gave it one, a deleted record comes back
\* only in Firebase, for nobody or for whom an update named, and preferences are as their
\* user wrote them but for those given away: for any number of requests and users.
THEOREM PreferencesAlwaysHold == P!Spec => []PreferencesHold
<1>1. P!Init => PrefsInv
  <2> SUFFICES ASSUME P!Init PROVE PrefsInv OBVIOUS
  <2>1. DOMAIN prefs = {} /\ made = 0 /\ deleted = {} BY DEF P!Init
  <2>2. PrefsTyped BY <2>1 DEF P!Init, PrefsTyped, P!None
  <2>3. MadeInv
    <3>1. Finished = {} BY DEF P!Init, Finished
    <3>2. Cardinality(Finished) = 0 BY <3>1, FS_EmptySet
    <3> QED BY <2>1, <3>2 DEF MadeInv
  <2>4. SeenInv BY <2>1 DEF P!Init, SeenInv
  <2>5. LookInv /\ WholeInv BY <2>1 DEF LookInv, WholeInv
  <2>6. P!OnePreferenceAUser /\ P!DeletedStaysDeleted /\ P!PreferencesAreOwn
    BY <2>1 DEF P!OnePreferenceAUser, P!DeletedStaysDeleted, P!PreferencesAreOwn
  <2> QED BY <2>2, <2>3, <2>4, <2>5, <2>6 DEF PrefsInv
<1>2. PrefsInv /\ [P!Next]_P!vars => PrefsInv' BY PrefsKept
<1>3. ASSUME PrefsInv PROVE PreferencesHold
  <2>1. made <= Cardinality(Clients)
    <3>1. /\ IsFiniteSet(Clients) /\ Cardinality(Clients) \in Nat
          /\ Finished \in SUBSET Clients
        BY ServicesAssumption, FS_CardinalityType DEF Finished
    <3>2. Cardinality(Finished) \in Nat /\ Cardinality(Finished) <= Cardinality(Clients)
        BY <3>1, FS_Subset, FS_CardinalityType
    <3>3. made \in Nat /\ made <= Cardinality(Finished)
        BY <1>3 DEF PrefsInv, PrefsTyped, MadeInv
    <3> QED BY <3>1, <3>2, <3>3
  <2>2. P!Cardinality(Clients) = Cardinality(Clients) BY DEF P!Cardinality, Cardinality
  <2>3. P!TypeOK
    <3>1. made <= P!Cardinality(Clients) BY <2>1, <2>2
    <3> QED BY <1>3, <3>1 DEF PrefsInv, PrefsTyped, P!TypeOK, HasUser
  <2> QED BY <1>3, <2>3 DEF PrefsInv, PreferencesHold
<1> QED BY <1>1, <1>2, <1>3, PTL DEF P!Spec

-------------------------------------------------------------------------------
(* TransactionalEmail *)

At(X) == {s \in Senders : at[s] \in X}
Trying(X, p) == {s \in Senders : at[s] \in X /\ tried[s] = p}
ToSubmit == At({"count", "user", "submit"})
ToLog == At({"count", "user", "submit", "log"})

MailTyped ==
    /\ mongodb \in BOOLEAN /\ unsubscribed \in BOOLEAN /\ day \in E!Days
    /\ logs \in [E!Days -> [E!Providers -> Nat]] /\ sent \in [E!Days -> [E!Providers -> Nat]]
    /\ at \in [Senders -> {"idle", "count", "user", "submit", "log", "true", "false"}]
    /\ tried \in [Senders -> E!Providers] /\ began \in [Senders -> 1..day]
    /\ late \in [Senders -> BOOLEAN]
    /\ unlogged \in Nat /\ sends \in 0..MaxSends /\ failures \in 0..MaxFaults
    /\ unlogged <= failures

\* Every mail sent, logged or still to be is one of the sends; none is of a later day.
CountsInv ==
    \A d \in E!Days, p \in E!Providers :
        /\ sent[d][p] + Cardinality(ToSubmit) <= sends
        /\ logs[d][p] + Cardinality(ToLog) <= sends
        /\ d > day => sent[d][p] = 0 /\ logs[d][p] = 0

\* What was logged since a day was logged since every earlier one.
SinceInv ==
    \A d, e \in E!Days, p \in E!Providers : d <= e => logs[e][p] <= logs[d][p]

\* What was sent today is logged, about to be, or was never logged; and what is sent or
\* about to be exceeds the credits by less than the senders and what was never logged.
TodayInv ==
    \A p \in E!Providers :
        /\ sent[day][p] <= logs[day][p] + Cardinality(Trying({"log"}, p)) + unlogged
        /\ sent[day][p] + Cardinality(Trying({"user", "submit"}, p))
            < Credits[p] + Cardinality(Senders) + unlogged

\* Whoever is past the first provider has seen the one before spent since it began.
SpentInv ==
    \A s \in Senders :
        at[s] \in {"count", "user", "submit", "log"} /\ tried[s] # 1 =>
            E!Logged(began[s], tried[s] - 1) >= Credits[tried[s] - 1]

\* Who began after the unsubscription is not about to be sent a mail.
LateInv ==
    \A s \in Senders :
        (late[s] => unsubscribed) /\ (at[s] \in {"submit", "log"} => ~late[s])

MailInv ==
    /\ MailTyped /\ CountsInv /\ SinceInv /\ TodayInv /\ SpentInv /\ LateInv
    /\ E!CreditsHold /\ E!NextOnlyWhenSpent

\* The providers are numbered from one, and each has a credit at least.
LEMMA ProvidersAre ==
    /\ E!Providers \subseteq Nat \ {0} /\ 1 \in E!Providers
    /\ \A p \in E!Providers : Credits[p] \in Nat \ {0}
    /\ \A p \in E!Providers : p # 1 => p - 1 \in E!Providers
    /\ \A p \in E!Providers : p < Len(Credits) => p + 1 \in E!Providers
    /\ E!Days \subseteq Nat \ {0} /\ 1 \in E!Days /\ MaxDays \in Nat
<1>1. Credits \in Seq(Nat \ {0}) /\ Credits # <<>> /\ MaxDays \in Nat \ {0}
    BY ServicesAssumption
<1>2. Len(Credits) \in Nat /\ Len(Credits) # 0 /\ E!Providers = 1..Len(Credits)
    BY <1>1 DEF E!Providers
<1> QED BY <1>1, <1>2 DEF E!Days

\* How a set of senders changes when one of them may enter or leave it.
LEMMA MemberMoves ==
    ASSUME NEW A \in SUBSET Senders, NEW C \in SUBSET Senders, NEW s \in Senders,
           A \ {s} = C \ {s}
    PROVE /\ Cardinality(A) \in Nat /\ Cardinality(C) \in Nat
          /\ (s \in A <=> s \in C) => Cardinality(C) = Cardinality(A)
          /\ s \in A /\ s \notin C => Cardinality(C) = Cardinality(A) - 1
          /\ s \notin A /\ s \in C => Cardinality(C) = Cardinality(A) + 1
<1>1. IsFiniteSet(A) /\ IsFiniteSet(C) BY ServicesAssumption, FS_Subset
<1>2. Cardinality(A) \in Nat /\ Cardinality(C) \in Nat BY <1>1, FS_CardinalityType
<1>3. ASSUME s \in A <=> s \in C PROVE Cardinality(C) = Cardinality(A)
  <2>1. A = C BY <1>3
  <2> QED BY <2>1
<1>4. ASSUME s \in A, s \notin C PROVE Cardinality(C) = Cardinality(A) - 1
  <2>1. C = A \ {s} BY <1>4
  <2> QED BY <1>1, <1>4, <2>1, FS_RemoveElement
<1>5. ASSUME s \notin A, s \in C PROVE Cardinality(C) = Cardinality(A) + 1
  <2>1. C = A \union {s} BY <1>5
  <2> QED BY <1>1, <1>5, <2>1, FS_AddElement
<1> QED BY <1>2, <1>3, <1>4, <1>5

\* The senders at some positions, when one sender moves.
LEMMA AtMoves ==
    ASSUME MailTyped, NEW s \in Senders, NEW l, at' = [at EXCEPT ![s] = l], NEW X
    PROVE /\ Cardinality(At(X)) \in Nat /\ Cardinality(At(X))' \in Nat
          /\ (at[s] \in X <=> l \in X) => Cardinality(At(X))' = Cardinality(At(X))
          /\ at[s] \in X /\ l \notin X => Cardinality(At(X))' = Cardinality(At(X)) - 1
          /\ at[s] \notin X /\ l \in X => Cardinality(At(X))' = Cardinality(At(X)) + 1
<1> DEFINE A == At(X)
<1>1. PICK C : C = At(X)' OBVIOUS
<1>2. /\ A \in SUBSET Senders /\ C \in SUBSET Senders /\ A \ {s} = C \ {s}
      /\ s \in A <=> at[s] \in X
      /\ s \in C <=> l \in X
    BY <1>1 DEF At, MailTyped
<1>3. Cardinality(At(X))' = Cardinality(C) BY <1>1
<1> QED BY <1>2, <1>3, MemberMoves

\* The same of those who try a provider, when no other sender moves.
LEMMA TryingMoves ==
    ASSUME NEW s \in Senders, NEW X, NEW p,
           \A z \in Senders \ {s} : at'[z] = at[z] /\ tried'[z] = tried[z]
    PROVE /\ (at[s] \in X /\ tried[s] = p <=> at'[s] \in X /\ tried'[s] = p) =>
                Cardinality(Trying(X, p))' = Cardinality(Trying(X, p))
          /\ at[s] \in X /\ tried[s] = p /\ ~(at'[s] \in X /\ tried'[s] = p) =>
                Cardinality(Trying(X, p))' = Cardinality(Trying(X, p)) - 1
          /\ ~(at[s] \in X /\ tried[s] = p) /\ at'[s] \in X /\ tried'[s] = p =>
                Cardinality(Trying(X, p))' = Cardinality(Trying(X, p)) + 1
<1> DEFINE A == Trying(X, p)
<1>1. PICK C : C = Trying(X, p)' OBVIOUS
<1>2. /\ A \in SUBSET Senders /\ C \in SUBSET Senders /\ A \ {s} = C \ {s}
      /\ s \in A <=> at[s] \in X /\ tried[s] = p
      /\ s \in C <=> at'[s] \in X /\ tried'[s] = p
    BY <1>1 DEF Trying
<1>3. Cardinality(Trying(X, p))' = Cardinality(C) BY <1>1
<1> QED BY <1>2, <1>3, MemberMoves

\* Counting a mail more for a provider of a day.
LEMMA OneMore ==
    ASSUME NEW f \in [E!Days -> [E!Providers -> Nat]], NEW d \in E!Days,
           NEW p \in E!Providers, NEW g, g = [f EXCEPT ![d][p] = @ + 1]
    PROVE /\ g \in [E!Days -> [E!Providers -> Nat]]
          /\ g[d][p] = f[d][p] + 1
          /\ \A c \in E!Days, q \in E!Providers :
                /\ f[c][q] \in Nat /\ g[c][q] \in Nat
                /\ c # d \/ q # p => g[c][q] = f[c][q]
<1>1. f[d][p] \in Nat /\ f[d][p] + 1 \in Nat OBVIOUS
<1> QED BY <1>1

\* A mail logged today is one more since today and since every day before.
LEMMA LogMore ==
    ASSUME MailTyped, NEW s \in Senders, E!CreateLog(s)
    PROVE /\ logs' \in [E!Days -> [E!Providers -> Nat]] /\ day' = day
          /\ \A d \in E!Days, p \in E!Providers :
                /\ logs[d][p] \in Nat /\ logs'[d][p] \in Nat
                /\ p = tried[s] /\ d <= day => logs'[d][p] = logs[d][p] + 1
                /\ p # tried[s] \/ ~(d <= day) => logs'[d][p] = logs[d][p]
<1>1. PICK q \in E!Providers : q = tried[s] BY DEF MailTyped
<1>2. /\ logs' = [d \in E!Days |-> [logs[d] EXCEPT ![q] = IF d <= day THEN @ + 1 ELSE @]]
      /\ day' = day
    BY <1>1 DEF E!CreateLog, E!counters
<1>3. logs \in [E!Days -> [E!Providers -> Nat]] BY DEF MailTyped
<1>4. ASSUME NEW d \in E!Days
      PROVE /\ logs[d] \in [E!Providers -> Nat]
            /\ logs'[d] = [logs[d] EXCEPT ![q] = IF d <= day THEN logs[d][q] + 1 ELSE logs[d][q]]
            /\ logs'[d] \in [E!Providers -> Nat]
            /\ \A p \in E!Providers :
                /\ logs[d][p] \in Nat /\ logs'[d][p] \in Nat
                /\ p = q /\ d <= day => logs'[d][p] = logs[d][p] + 1
                /\ p # q \/ ~(d <= day) => logs'[d][p] = logs[d][p]
  <2>1. logs[d] \in [E!Providers -> Nat] BY <1>3
  <2>2. logs'[d] = [logs[d] EXCEPT ![q] = IF d <= day THEN logs[d][q] + 1 ELSE logs[d][q]]
    BY <1>2
  <2>3. (IF d <= day THEN logs[d][q] + 1 ELSE logs[d][q]) \in Nat BY <2>1
  <2> QED BY <2>1, <2>2, <2>3
<1>5. logs' \in [E!Days -> [E!Providers -> Nat]] BY <1>2, <1>4
<1> QED BY <1>1, <1>2, <1>4, <1>5

\* What counting the logs of a provider may come to: it has credit left, or it is spent
\* and the next is tried, or there is none.
LEMMA CountOutcomes ==
    ASSUME MailTyped, NEW s \in Senders, E!CountLogs(s)
    PROVE /\ at[s] = "count"
          /\ UNCHANGED <<mongodb, day, logs, sent, unsubscribed, began, late, unlogged,
                         sends, failures>>
          /\ \/ /\ E!Logged(began[s], tried[s]) < Credits[tried[s]]
                /\ at' = [at EXCEPT ![s] = "user"] /\ tried' = [tried EXCEPT ![s] = tried[s]]
             \/ /\ ~(E!Logged(began[s], tried[s]) < Credits[tried[s]])
                /\ tried[s] + 1 \in E!Providers
                /\ at' = [at EXCEPT ![s] = "count"]
                /\ tried' = [tried EXCEPT ![s] = tried[s] + 1]
             \/ at' = [at EXCEPT ![s] = "false"] /\ tried' = [tried EXCEPT ![s] = tried[s]]
<1>1. /\ at[s] = "count"
      /\ UNCHANGED <<mongodb, day, logs, sent, unsubscribed, began, late, unlogged,
                     sends, failures>>
    BY DEF E!CountLogs, E!counters
<1>2. tried[s] \in E!Providers BY DEF MailTyped
<1>3. /\ at = [at EXCEPT ![s] = "count"] /\ tried = [tried EXCEPT ![s] = tried[s]]
    BY <1>1 DEF MailTyped
<1>4. CASE E!Logged(began[s], tried[s]) < Credits[tried[s]]
    BY <1>1, <1>3, <1>4 DEF E!CountLogs, E!Goto
<1>5. CASE ~(E!Logged(began[s], tried[s]) < Credits[tried[s]]) /\ tried[s] < Len(Credits)
  <2>1. tried[s] + 1 \in E!Providers BY <1>2, <1>5, ProvidersAre
  <2>2. at' = at /\ tried' = [tried EXCEPT ![s] = tried[s] + 1]
    BY <1>5 DEF E!CountLogs
  <2> QED BY <1>1, <1>3, <1>5, <2>1, <2>2
<1>6. CASE ~(E!Logged(began[s], tried[s]) < Credits[tried[s]]) /\ ~(tried[s] < Len(Credits))
  <2>1. at' = [at EXCEPT ![s] = "false"] /\ tried' = tried
    BY <1>6 DEF E!CountLogs, E!Goto
  <2> QED BY <1>1, <1>3, <2>1
<1> QED BY <1>4, <1>5, <1>6

\* The types of TransactionalEmail hold over every step.
LEMMA MailTypedKept ==
    ASSUME MailTyped, [E!Next]_E!vars
    PROVE MailTyped'
<1> USE Bounds, ProvidersAre DEF MailTyped
<1>1. ASSUME NEW s \in Senders, E!Send(s) PROVE MailTyped'
  <2>1. sends' \in 0..MaxSends BY <1>1 DEF E!Send
  <2>2. began' \in [Senders -> 1..day'] BY <1>1 DEF E!Send
  <2>3. late' \in [Senders -> BOOLEAN] BY <1>1 DEF E!Send
  <2> QED BY <1>1, <2>1, <2>2, <2>3 DEF E!Send, E!Goto
<1>2. ASSUME NEW s \in Senders, E!LogsUnreadable(s) PROVE MailTyped'
    BY <1>2 DEF E!LogsUnreadable, E!Goto, E!counters
<1>3. ASSUME NEW s \in Senders, E!CountLogs(s) PROVE MailTyped'
  <2>1. at' \in [Senders -> {"idle", "count", "user", "submit", "log", "true", "false"}]
    BY <1>3, CountOutcomes
  <2>2. tried' \in [Senders -> E!Providers]
    <3>1. tried[s] \in E!Providers OBVIOUS
    <3>2. PICK q \in E!Providers : tried' = [tried EXCEPT ![s] = q]
      <4>1. \/ tried' = [tried EXCEPT ![s] = tried[s]]
            \/ tried[s] + 1 \in E!Providers /\ tried' = [tried EXCEPT ![s] = tried[s] + 1]
        <5> HIDE DEF MailTyped
        <5> QED BY ONLY MailTyped, <1>3, CountOutcomes
      <4> QED BY <3>1, <4>1
    <3> QED BY <3>2
  <2>3. UNCHANGED <<mongodb, day, logs, sent, unsubscribed, began, late, unlogged,
                    sends, failures>>
    BY <1>3, CountOutcomes
  <2> QED BY <2>1, <2>2, <2>3
<1>4. ASSUME NEW s \in Senders, E!FindUser(s) PROVE MailTyped'
    BY <1>4 DEF E!FindUser, E!Goto, E!counters
<1>5. ASSUME NEW s \in Senders, E!Submit(s) PROVE MailTyped'
  <2>1. sent' \in [E!Days -> [E!Providers -> Nat]]
    <3>1. /\ sent \in [E!Days -> [E!Providers -> Nat]] /\ day \in E!Days
          /\ tried[s] \in E!Providers /\ sent' = [sent EXCEPT ![day][tried[s]] = @ + 1]
        BY <1>5 DEF E!Submit
    <3> QED BY ONLY <3>1, OneMore
  <2> QED BY <1>5, <2>1 DEF E!Submit, E!Goto, E!counters
<1>6. ASSUME NEW s \in Senders, E!SubmitFails(s) PROVE MailTyped'
  <2>1. failures' \in 0..MaxFaults /\ unlogged' <= failures'
    BY <1>6 DEF E!SubmitFails, E!Fail
  <2> QED BY <1>6, <2>1 DEF E!SubmitFails, E!Goto
<1>7. ASSUME NEW s \in Senders, E!CreateLog(s) PROVE MailTyped'
  <2>1. logs' \in [E!Days -> [E!Providers -> Nat]] BY <1>7, LogMore
  <2> QED BY <1>7, <2>1 DEF E!CreateLog, E!Goto, E!counters
<1>8. ASSUME NEW s \in Senders, E!LogLost(s) PROVE MailTyped'
  <2>1. failures' \in 0..MaxFaults /\ unlogged' \in Nat /\ unlogged' <= failures'
    BY <1>8 DEF E!LogLost, E!Fail
  <2> QED BY <1>8, <2>1 DEF E!LogLost, E!Goto
<1>9. CASE E!Unsubscribe BY <1>9 DEF E!Unsubscribe, E!counters
<1>10. CASE E!NextDay
  <2>1. day' \in E!Days /\ 1..day \subseteq 1..day' BY <1>10 DEF E!NextDay, E!Days
  <2>2. began' \in [Senders -> 1..day'] BY <1>10, <2>1 DEF E!NextDay
  <2> QED BY <1>10, <2>1, <2>2 DEF E!NextDay
<1>11. CASE UNCHANGED E!vars BY <1>11 DEF E!vars, E!counters
<1> QED BY <1>1, <1>2, <1>3, <1>4, <1>5, <1>6, <1>7, <1>8, <1>9, <1>10, <1>11 DEF E!Next

\* Logs are only ever added, and days only go on.
LEMMA LogsGrow ==
    ASSUME MailInv, [E!Next]_E!vars
    PROVE /\ day' = day \/ day' = day + 1
          /\ \A d \in E!Days, p \in E!Providers :
                logs[d][p] \in Nat /\ logs'[d][p] \in Nat /\ logs[d][p] <= logs'[d][p]
<1> USE DEF MailInv, MailTyped
<1>1. ASSUME NEW s \in Senders, E!CreateLog(s)
      PROVE /\ day' = day
            /\ \A d \in E!Days, p \in E!Providers :
                logs[d][p] \in Nat /\ logs'[d][p] \in Nat /\ logs[d][p] <= logs'[d][p]
  <2>1. day' = day BY <1>1, LogMore
  <2>2. \A d \in E!Days, p \in E!Providers :
            /\ logs[d][p] \in Nat /\ logs'[d][p] \in Nat
            /\ logs'[d][p] = logs[d][p] + 1 \/ logs'[d][p] = logs[d][p]
    BY <1>1, LogMore
  <2> QED BY <2>1, <2>2
<1>2. CASE ~\E s \in Senders : E!CreateLog(s)
  <2>1. logs' = logs
    BY <1>2 DEF E!Next, E!vars, E!counters, E!Send, E!LogsUnreadable, E!CountLogs, E!FindUser,
        E!Submit, E!SubmitFails, E!LogLost, E!Unsubscribe, E!NextDay
  <2>2. day' = day \/ day' = day + 1
    BY <1>2 DEF E!Next, E!vars, E!counters, E!Send, E!LogsUnreadable, E!CountLogs, E!FindUser,
        E!Submit, E!SubmitFails, E!LogLost, E!Unsubscribe, E!NextDay
  <2> QED BY <2>1, <2>2
<1> QED BY <1>1, <1>2

\* What is logged of a provider since a day never becomes less.
LEMMA LoggedGrows ==
    ASSUME MailInv, [E!Next]_E!vars, NEW e \in 1..day, NEW p \in E!Providers
    PROVE /\ E!Logged(e, p) \in Nat /\ E!Logged(e, p)' \in Nat
          /\ E!Logged(e, p) <= E!Logged(e, p)'
<1>1. e \in E!Days BY ProvidersAre DEF MailInv, MailTyped, E!Days
<1> QED BY <1>1, LogsGrow DEF E!Logged

\* A provider that is spent since a day stays so.
LEMMA SpentStays ==
    ASSUME MailInv, [E!Next]_E!vars, NEW e \in 1..day, NEW p \in E!Providers,
           E!Logged(e, p) >= Credits[p]
    PROVE E!Logged(e, p)' >= Credits[p]
BY LoggedGrows, ProvidersAre

\* What the steps of a sender leave to be said of its way to the next provider.
LEMMA SpentKept ==
    ASSUME MailInv, [E!Next]_E!vars
    PROVE SpentInv'
<1> DEFINE Busy == {"count", "user", "submit", "log"}
<1> SUFFICES ASSUME NEW z \in Senders, at'[z] \in Busy, tried'[z] # 1
             PROVE (E!Logged(began[z], tried[z] - 1) >= Credits[tried[z] - 1])'
    BY DEF SpentInv
<1>1. MailTyped /\ MailTyped' BY MailTypedKept DEF MailInv
<1>2. tried'[z] \in E!Providers /\ tried'[z] - 1 \in E!Providers
    BY <1>1, ProvidersAre DEF MailTyped
<1>3. PICK e, p : e = began'[z] /\ p = tried'[z] - 1 OBVIOUS
<1>4. E!Logged(began[z], tried[z] - 1)' = E!Logged(e, p)' BY <1>3 DEF E!Logged
<1>5. SUFFICES E!Logged(e, p)' >= Credits[p] BY <1>3, <1>4
<1>6. ASSUME at[z] \in Busy, UNCHANGED <<tried[z], began[z]>>
      PROVE E!Logged(e, p)' >= Credits[p]
  <2>1. e \in 1..day /\ p \in E!Providers BY <1>1, <1>2, <1>3, <1>6 DEF MailTyped
  <2>2. e = began[z] /\ p = tried[z] - 1 /\ tried[z] # 1 BY <1>3, <1>6
  <2>3. E!Logged(e, p) >= Credits[p] BY <1>6, <2>2 DEF MailInv, SpentInv
  <2> QED BY <2>1, <2>3, SpentStays
<1>7. CASE UNCHANGED <<at, tried, began>> BY <1>6, <1>7
<1>8. ASSUME NEW s \in Senders, E!Send(s) PROVE E!Logged(e, p)' >= Credits[p]
  <2>1. /\ at' = [at EXCEPT ![s] = "count"] /\ tried' = [tried EXCEPT ![s] = 1]
        /\ began' = [began EXCEPT ![s] = day]
    BY <1>8 DEF E!Send, E!Goto
  <2>2. z # s BY <1>1, <2>1 DEF MailTyped
  <2> QED BY <1>1, <1>6, <2>1, <2>2 DEF MailTyped
<1>9. ASSUME NEW s \in Senders, E!CountLogs(s) PROVE E!Logged(e, p)' >= Credits[p]
  <2>1. CASE z # s
    <3>1. PICK l, q : /\ at' = [at EXCEPT ![s] = l] /\ tried' = [tried EXCEPT ![s] = q]
                      /\ began' = began
        BY ONLY <1>1, <1>9, CountOutcomes
    <3> QED BY <1>1, <1>6, <2>1, <3>1 DEF MailTyped
  <2>2. CASE z = s /\ tried'[z] = tried[z]
    <3>1. at[z] = "count" /\ began' = began BY ONLY <1>1, <1>9, <2>2, CountOutcomes
    <3> QED BY <1>6, <2>2, <3>1
  <2>3. CASE z = s /\ tried'[z] # tried[z]
    <3>0. at[s] = "count" /\ began' = began BY ONLY <1>1, <1>9, CountOutcomes
    <3>1. \/ tried' = [tried EXCEPT ![s] = tried[s]]
          \/ /\ ~(E!Logged(began[s], tried[s]) < Credits[tried[s]])
             /\ tried' = [tried EXCEPT ![s] = tried[s] + 1]
        BY ONLY <1>1, <1>9, CountOutcomes
    <3>2. /\ ~(E!Logged(began[s], tried[s]) < Credits[tried[s]])
          /\ tried'[z] = tried[z] + 1
        BY <1>1, <2>3, <3>1 DEF MailTyped
    <3>3. tried[z] \in Nat /\ tried[z] \in E!Providers /\ began[z] \in 1..day
        BY <1>1, ProvidersAre DEF MailTyped
    <3>4. p = tried[z] /\ e = began[z] BY <1>3, <3>0, <3>2, <3>3
    <3>5. E!Logged(e, p) \in Nat /\ Credits[p] \in Nat
        BY <3>3, <3>4, LoggedGrows, ProvidersAre
    <3>6. E!Logged(e, p) >= Credits[p] BY <2>3, <3>2, <3>4, <3>5
    <3> QED BY <3>3, <3>4, <3>6, SpentStays
  <2> QED BY <2>1, <2>2, <2>3
<1>10. ASSUME NEW s \in Senders, NEW l, at' = [at EXCEPT ![s] = l],
              at[s] \in Busy \/ l \notin Busy, UNCHANGED <<tried, began>>
       PROVE E!Logged(e, p)' >= Credits[p]
  <2>1. at[z] \in Busy
    <3>1. CASE z = s BY <1>1, <1>10, <3>1 DEF MailTyped
    <3>2. CASE z # s BY <1>1, <1>10, <3>2 DEF MailTyped
    <3> QED BY <3>1, <3>2
  <2> QED BY <1>6, <1>10, <2>1
<1>11. ASSUME NEW s \in Senders, E!LogsUnreadable(s) PROVE E!Logged(e, p)' >= Credits[p]
    BY <1>10, <1>11 DEF E!LogsUnreadable, E!Goto
<1>12. ASSUME NEW s \in Senders, E!FindUser(s) PROVE E!Logged(e, p)' >= Credits[p]
  <2>1. PICK l : at' = [at EXCEPT ![s] = l] BY <1>12 DEF E!FindUser, E!Goto
  <2>2. at[s] = "user" /\ UNCHANGED <<tried, began>> BY <1>12 DEF E!FindUser
  <2> QED BY <1>10, <2>1, <2>2
<1>13. ASSUME NEW s \in Senders, E!Submit(s) PROVE E!Logged(e, p)' >= Credits[p]
    BY <1>10, <1>13 DEF E!Submit, E!Goto
<1>14. ASSUME NEW s \in Senders, E!SubmitFails(s) PROVE E!Logged(e, p)' >= Credits[p]
    BY <1>10, <1>14 DEF E!SubmitFails, E!Goto
<1>15. ASSUME NEW s \in Senders, E!CreateLog(s) PROVE E!Logged(e, p)' >= Credits[p]
    BY <1>10, <1>15 DEF E!CreateLog, E!Goto
<1>16. ASSUME NEW s \in Senders, E!LogLost(s) PROVE E!Logged(e, p)' >= Credits[p]
    BY <1>10, <1>16 DEF E!LogLost, E!Goto
<1>17. CASE E!Unsubscribe \/ E!NextDay \/ UNCHANGED E!vars
    BY <1>7, <1>17 DEF E!Unsubscribe, E!NextDay, E!vars
<1> QED BY <1>8, <1>9, <1>11, <1>12, <1>13, <1>14, <1>15, <1>16, <1>17 DEF E!Next

\* Nobody is about to be sent a mail who had unsubscribed when it was asked for.
LEMMA LateKept ==
    ASSUME MailInv, [E!Next]_E!vars
    PROVE LateInv'
<1> USE DEF LateInv
<1>1. MailTyped /\ LateInv BY DEF MailInv
<1>2. ASSUME NEW s \in Senders, E!Send(s) PROVE LateInv'
  <2>1. /\ at' = [at EXCEPT ![s] = "count"] /\ late' = [late EXCEPT ![s] = unsubscribed]
        /\ unsubscribed' = unsubscribed
    BY <1>2 DEF E!Send, E!Goto
  <2> QED BY <1>1, <2>1 DEF MailTyped
<1>3. ASSUME NEW s \in Senders, NEW l, at' = [at EXCEPT ![s] = l],
             l \in {"submit", "log"} => ~late[s], late' = late,
             unsubscribed' = unsubscribed
      PROVE LateInv'
    BY <1>1, <1>3 DEF MailTyped
<1>4. ASSUME NEW s \in Senders, E!LogsUnreadable(s) PROVE LateInv'
    BY <1>3, <1>4 DEF E!LogsUnreadable, E!Goto
<1>5. ASSUME NEW s \in Senders, E!CountLogs(s) PROVE LateInv'
  <2>1. /\ \/ at' = [at EXCEPT ![s] = "user"] \/ at' = [at EXCEPT ![s] = "count"]
           \/ at' = [at EXCEPT ![s] = "false"]
        /\ late' = late /\ unsubscribed' = unsubscribed
    BY ONLY <1>1, <1>5, CountOutcomes
  <2> QED BY <1>3, <2>1
<1>6. ASSUME NEW s \in Senders, E!FindUser(s) PROVE LateInv'
  <2>1. /\ late' = late /\ unsubscribed' = unsubscribed
        /\ \/ at' = [at EXCEPT ![s] = IF unsubscribed THEN "true" ELSE "submit"]
           \/ at' = [at EXCEPT ![s] = "false"]
    BY <1>6 DEF E!FindUser, E!Goto
  <2>2. CASE unsubscribed BY <1>3, <2>1, <2>2
  <2>3. CASE ~unsubscribed BY <1>1, <1>3, <2>1, <2>3
  <2> QED BY <2>2, <2>3
<1>7. ASSUME NEW s \in Senders, E!Submit(s) PROVE LateInv'
    BY <1>1, <1>3, <1>7 DEF E!Submit, E!Goto
<1>8. ASSUME NEW s \in Senders, E!SubmitFails(s) PROVE LateInv'
    BY <1>3, <1>8 DEF E!SubmitFails, E!Goto
<1>9. ASSUME NEW s \in Senders, E!CreateLog(s) PROVE LateInv'
    BY <1>3, <1>9 DEF E!CreateLog, E!Goto
<1>10. ASSUME NEW s \in Senders, E!LogLost(s) PROVE LateInv'
    BY <1>3, <1>10 DEF E!LogLost, E!Goto
<1>11. CASE E!Unsubscribe BY <1>1, <1>11 DEF E!Unsubscribe
<1>12. CASE E!NextDay BY <1>1, <1>12 DEF E!NextDay
<1>13. CASE UNCHANGED E!vars BY <1>1, <1>13 DEF E!vars
<1> QED BY <1>2, <1>4, <1>5, <1>6, <1>7, <1>8, <1>9, <1>10, <1>11, <1>12, <1>13 DEF E!Next

\* A mail by a later provider was preceded by the spending of the one before.
LEMMA NextKept ==
    ASSUME MailInv, [E!Next]_E!vars
    PROVE E!NextOnlyWhenSpent'
<1>1. MailTyped BY DEF MailInv
<1> SUFFICES ASSUME NEW d \in E!Days, NEW p \in E!Providers \ {1}, sent'[d][p] > 0
             PROVE \E e \in 1..d : E!Logged(e, p - 1)' >= Credits[p - 1]
    BY DEF E!NextOnlyWhenSpent
<1>2. p - 1 \in E!Providers /\ day \in Nat /\ d \in Nat
  <2>1. p \in E!Providers /\ p # 1 OBVIOUS
  <2>2. day \in Nat /\ d \in Nat BY <1>1, ProvidersAre DEF MailTyped
  <2> QED BY <2>1, <2>2, ProvidersAre
<1>3. ASSUME sent[d][p] > 0
      PROVE \E e \in 1..d : E!Logged(e, p - 1)' >= Credits[p - 1]
  <2>1. PICK e \in 1..d : E!Logged(e, p - 1) >= Credits[p - 1]
    BY <1>3 DEF MailInv, E!NextOnlyWhenSpent
  <2>2. ~(d > day)
    <3>1. d > day => sent[d][p] = 0 BY DEF MailInv, CountsInv
    <3> QED BY <1>3, <3>1
  <2>3. e \in 1..day BY <1>2, <2>2
  <2> QED BY <1>2, <2>1, <2>3, SpentStays
<1>4. CASE sent' = sent BY <1>3, <1>4
<1>5. ASSUME NEW s \in Senders, E!Submit(s)
      PROVE \E e \in 1..d : E!Logged(e, p - 1)' >= Credits[p - 1]
  <2>1. /\ sent' = [sent EXCEPT ![day][tried[s]] = @ + 1] /\ at[s] = "submit"
    BY <1>5 DEF E!Submit
  <2>2. d # day \/ p # tried[s] => sent'[d][p] = sent[d][p]
    BY <1>1, <2>1, OneMore DEF MailTyped
  <2>3. CASE d = day /\ p = tried[s]
    <3>1. PICK e \in 1..day : e = began[s] BY <1>1 DEF MailTyped
    <3>2. E!Logged(e, p - 1) >= Credits[p - 1]
        BY <2>1, <2>3, <3>1 DEF MailInv, SpentInv
    <3> QED BY <1>2, <2>3, <3>2, SpentStays
  <2> QED BY <1>3, <2>2, <2>3
<1>6. CASE ~\E s \in Senders : E!Submit(s)
  <2>1. sent' = sent
    BY <1>6 DEF E!Next, E!vars, E!counters, E!Send, E!LogsUnreadable, E!CountLogs, E!FindUser,
        E!CreateLog, E!SubmitFails, E!LogLost, E!Unsubscribe, E!NextDay
  <2> QED BY <1>4, <2>1
<1> QED BY <1>5, <1>6

\* Sends, submissions and logs are accounted for: the step of a sender.
LEMMA CountsMove ==
    ASSUME MailInv, NEW s \in Senders, NEW l, at' = [at EXCEPT ![s] = l],
           NEW X
    PROVE LET n == Cardinality(At(X))
          IN  /\ n \in Nat /\ n' \in Nat
              /\ n' = n - 1 \/ n' = n \/ n' = n + 1
              /\ at[s] \in X \/ l \notin X => n' <= n
              /\ at[s] \in X /\ l \notin X => n' = n - 1
<1>1. /\ Cardinality(At(X)) \in Nat /\ Cardinality(At(X))' \in Nat
      /\ (at[s] \in X <=> l \in X) => Cardinality(At(X))' = Cardinality(At(X))
      /\ at[s] \in X /\ l \notin X => Cardinality(At(X))' = Cardinality(At(X)) - 1
      /\ at[s] \notin X /\ l \in X => Cardinality(At(X))' = Cardinality(At(X)) + 1
    BY AtMoves DEF MailInv
<1>2. CASE at[s] \in X <=> l \in X BY <1>1, <1>2
<1>3. CASE at[s] \in X /\ l \notin X BY <1>1, <1>3
<1>4. CASE at[s] \notin X /\ l \in X BY <1>1, <1>4
<1> QED BY <1>2, <1>3, <1>4

\* The mails of a day and provider, and the two sets of senders, as numbers.
LEMMA CountsAreNat ==
    ASSUME MailInv, NEW d \in E!Days, NEW p \in E!Providers
    PROVE /\ sent[d][p] \in Nat /\ logs[d][p] \in Nat /\ sends \in Nat
          /\ Cardinality(ToSubmit) \in Nat /\ Cardinality(ToLog) \in Nat
          /\ sent[d][p] + Cardinality(ToSubmit) <= sends
          /\ logs[d][p] + Cardinality(ToLog) <= sends
          /\ d > day => sent[d][p] = 0 /\ logs[d][p] = 0
<1>1. sent[d][p] \in Nat /\ logs[d][p] \in Nat /\ sends \in Nat
    BY Bounds DEF MailInv, MailTyped
<1>2. IsFiniteSet(ToSubmit) /\ IsFiniteSet(ToLog)
    BY ServicesAssumption, FS_Subset DEF ToSubmit, ToLog, At
<1> QED BY <1>1, <1>2, FS_CardinalityType DEF MailInv, CountsInv

\* The accounts of sends stay balanced over every step.
LEMMA CountsKept ==
    ASSUME MailInv, [E!Next]_E!vars
    PROVE CountsInv'
<1>1. MailTyped BY DEF MailInv
<1> SUFFICES ASSUME NEW d \in E!Days, NEW p \in E!Providers
             PROVE /\ (sent[d][p] + Cardinality(ToSubmit) <= sends)'
                   /\ (logs[d][p] + Cardinality(ToLog) <= sends)'
                   /\ d > day' => sent'[d][p] = 0 /\ logs'[d][p] = 0
    BY DEF CountsInv
<1> DEFINE Balanced ==
        /\ (sent[d][p] + Cardinality(ToSubmit) <= sends)'
        /\ (logs[d][p] + Cardinality(ToLog) <= sends)'
        /\ d > day' => sent'[d][p] = 0 /\ logs'[d][p] = 0
<1>2. /\ sent[d][p] \in Nat /\ logs[d][p] \in Nat /\ sends \in Nat
      /\ Cardinality(ToSubmit) \in Nat /\ Cardinality(ToLog) \in Nat
      /\ sent[d][p] + Cardinality(ToSubmit) <= sends
      /\ logs[d][p] + Cardinality(ToLog) <= sends
      /\ d > day => sent[d][p] = 0 /\ logs[d][p] = 0
    BY CountsAreNat
<1>3. day \in Nat /\ d \in Nat /\ ~(day > day)
    BY <1>1, ProvidersAre DEF MailTyped
\* A step of a sender that neither sends, submits nor logs.
<1>4. ASSUME NEW s \in Senders, NEW l, at' = [at EXCEPT ![s] = l],
             at[s] \in {"count", "user", "submit"} \/ l \notin {"count", "user", "submit"},
             at[s] \in {"count", "user", "submit", "log"}
                \/ l \notin {"count", "user", "submit", "log"},
             UNCHANGED <<sent, logs, sends, day>>
      PROVE Balanced
  <2>1. /\ Cardinality(ToSubmit)' \in Nat /\ Cardinality(ToSubmit)' <= Cardinality(ToSubmit)
        /\ Cardinality(ToLog)' \in Nat /\ Cardinality(ToLog)' <= Cardinality(ToLog)
    BY <1>4, CountsMove DEF ToSubmit, ToLog
  <2>2. sent'[d][p] = sent[d][p] /\ logs'[d][p] = logs[d][p] /\ sends' = sends /\ day' = day
    BY <1>4
  <2> QED BY <1>2, <2>1, <2>2
<1>5. ASSUME NEW s \in Senders, E!Send(s) PROVE Balanced
  <2>1. /\ at' = [at EXCEPT ![s] = "count"] /\ sends' = sends + 1
        /\ UNCHANGED <<sent, logs, day>>
    BY <1>5 DEF E!Send, E!Goto
  <2>2. /\ Cardinality(ToSubmit)' \in Nat /\ Cardinality(ToLog)' \in Nat
        /\ \/ Cardinality(ToSubmit)' = Cardinality(ToSubmit) - 1
           \/ Cardinality(ToSubmit)' = Cardinality(ToSubmit)
           \/ Cardinality(ToSubmit)' = Cardinality(ToSubmit) + 1
        /\ \/ Cardinality(ToLog)' = Cardinality(ToLog) - 1
           \/ Cardinality(ToLog)' = Cardinality(ToLog)
           \/ Cardinality(ToLog)' = Cardinality(ToLog) + 1
    BY <2>1, CountsMove DEF ToSubmit, ToLog
  <2>3. sent'[d][p] = sent[d][p] /\ logs'[d][p] = logs[d][p] /\ day' = day BY <2>1
  <2> QED BY <1>2, <2>1, <2>2, <2>3
<1>6. ASSUME NEW s \in Senders, E!LogsUnreadable(s) PROVE Balanced
    BY <1>4, <1>6 DEF E!LogsUnreadable, E!Goto, E!counters
<1>7. ASSUME NEW s \in Senders, E!CountLogs(s) PROVE Balanced
  <2>1. /\ at[s] = "count" /\ UNCHANGED <<sent, logs, sends, day>>
        /\ \/ at' = [at EXCEPT ![s] = "user"] \/ at' = [at EXCEPT ![s] = "count"]
           \/ at' = [at EXCEPT ![s] = "false"]
    BY ONLY <1>1, <1>7, CountOutcomes
  <2> QED BY <1>4, <2>1
<1>8. ASSUME NEW s \in Senders, E!FindUser(s) PROVE Balanced
  <2>1. PICK l : at' = [at EXCEPT ![s] = l] BY <1>8 DEF E!FindUser, E!Goto
  <2>2. at[s] = "user" /\ UNCHANGED <<sent, logs, sends, day>>
    BY <1>8 DEF E!FindUser, E!counters
  <2> QED BY <1>4, <2>1, <2>2
<1>9. ASSUME NEW s \in Senders, E!Submit(s) PROVE Balanced
  <2>1. /\ at[s] = "submit" /\ at' = [at EXCEPT ![s] = "log"]
        /\ sent' = [sent EXCEPT ![day][tried[s]] = @ + 1] /\ UNCHANGED <<logs, sends, day>>
    BY <1>9 DEF E!Submit, E!Goto, E!counters
  <2>2. /\ Cardinality(ToSubmit)' = Cardinality(ToSubmit) - 1
        /\ Cardinality(ToLog)' \in Nat /\ Cardinality(ToLog)' <= Cardinality(ToLog)
    <3>1. /\ at[s] \in {"count", "user", "submit"} /\ "log" \notin {"count", "user", "submit"}
          /\ at[s] \in {"count", "user", "submit", "log"}
        BY <2>1
    <3> QED BY <2>1, <3>1, CountsMove DEF ToSubmit, ToLog
  <2>3. /\ sent'[d][p] = sent[d][p] \/ (sent'[d][p] = sent[d][p] + 1 /\ d = day)
    BY <1>1, <2>1, OneMore DEF MailTyped
  <2>4. logs'[d][p] = logs[d][p] /\ sends' = sends /\ day' = day BY <2>1
  <2> QED BY <1>2, <1>3, <2>2, <2>3, <2>4
<1>10. ASSUME NEW s \in Senders, E!SubmitFails(s) PROVE Balanced
    BY <1>4, <1>10 DEF E!SubmitFails, E!Goto
<1>11. ASSUME NEW s \in Senders, E!CreateLog(s) PROVE Balanced
  <2>1. /\ at[s] = "log" /\ at' = [at EXCEPT ![s] = "true"]
        /\ UNCHANGED <<sent, sends, day>>
    BY <1>11 DEF E!CreateLog, E!Goto, E!counters
  <2>2. /\ Cardinality(ToLog)' = Cardinality(ToLog) - 1
        /\ Cardinality(ToSubmit)' \in Nat /\ Cardinality(ToSubmit)' <= Cardinality(ToSubmit)
    <3>1. /\ "true" \notin {"count", "user", "submit"}
          /\ at[s] \in {"count", "user", "submit", "log"}
          /\ "true" \notin {"count", "user", "submit", "log"}
        BY <2>1
    <3> QED BY <2>1, <3>1, CountsMove DEF ToSubmit, ToLog
  <2>3. logs'[d][p] = logs[d][p] \/ (logs'[d][p] = logs[d][p] + 1 /\ d <= day)
    BY <1>1, <1>11, LogMore
  <2>4. sent'[d][p] = sent[d][p] /\ sends' = sends /\ day' = day BY <2>1
  <2> QED BY <1>2, <1>3, <2>2, <2>3, <2>4
<1>12. ASSUME NEW s \in Senders, E!LogLost(s) PROVE Balanced
    BY <1>4, <1>12 DEF E!LogLost, E!Goto
<1>13. CASE E!Unsubscribe \/ E!NextDay \/ UNCHANGED E!vars
  <2>1. UNCHANGED <<at, sent, logs, sends>> /\ (day' = day \/ day' = day + 1)
    BY <1>13 DEF E!Unsubscribe, E!NextDay, E!vars, E!counters
  <2>2. ToSubmit' = ToSubmit /\ ToLog' = ToLog BY <2>1 DEF ToSubmit, ToLog, At
  <2>3. /\ Cardinality(ToSubmit)' = Cardinality(ToSubmit)
        /\ Cardinality(ToLog)' = Cardinality(ToLog)
    BY <2>2
  <2>4. sent'[d][p] = sent[d][p] /\ logs'[d][p] = logs[d][p] /\ sends' = sends BY <2>1
  <2>5. d > day' => d > day BY <1>3, <2>1
  <2> QED BY <1>2, <2>3, <2>4, <2>5
<1> QED BY <1>5, <1>6, <1>7, <1>8, <1>9, <1>10, <1>11, <1>12, <1>13 DEF E!Next

\* What was logged since a day stays the less the later the day.
LEMMA SinceKept ==
    ASSUME MailInv, [E!Next]_E!vars
    PROVE SinceInv'
<1> SUFFICES ASSUME NEW d \in E!Days, NEW e \in E!Days, NEW p \in E!Providers, d <= e
             PROVE logs'[e][p] <= logs'[d][p]
    BY DEF SinceInv
<1>1. /\ logs[e][p] \in Nat /\ logs[d][p] \in Nat /\ logs[e][p] <= logs[d][p]
      /\ logs'[e][p] \in Nat /\ logs'[d][p] \in Nat
    BY LogsGrow DEF MailInv, SinceInv
<1>2. ASSUME NEW s \in Senders, E!CreateLog(s) PROVE logs'[e][p] <= logs'[d][p]
  <2>1. MailTyped BY DEF MailInv
  <2>2. e <= day => d <= day
    <3>1. d \in Nat /\ e \in Nat /\ day \in Nat BY <2>1, ProvidersAre DEF MailTyped
    <3> QED BY <3>1
  <2>3. /\ p = tried[s] /\ d <= day => logs'[d][p] = logs[d][p] + 1
        /\ p # tried[s] \/ ~(d <= day) => logs'[d][p] = logs[d][p]
        /\ p = tried[s] /\ e <= day => logs'[e][p] = logs[e][p] + 1
        /\ p # tried[s] \/ ~(e <= day) => logs'[e][p] = logs[e][p]
    BY <1>2, <2>1, LogMore
  <2>4. CASE p = tried[s] /\ e <= day BY <1>1, <2>2, <2>3, <2>4
  <2>5. CASE ~(p = tried[s] /\ e <= day)
    <3>1. logs'[e][p] = logs[e][p] BY <2>3, <2>5
    <3>2. logs[d][p] <= logs'[d][p] BY LogsGrow
    <3> QED BY <1>1, <3>1, <3>2
  <2> QED BY <2>4, <2>5
<1>3. CASE ~\E s \in Senders : E!CreateLog(s)
  <2>1. logs' = logs
    BY <1>3 DEF E!Next, E!vars, E!counters, E!Send, E!LogsUnreadable, E!CountLogs, E!FindUser,
        E!Submit, E!SubmitFails, E!LogLost, E!Unsubscribe, E!NextDay
  <2> QED BY <1>1, <2>1
<1> QED BY <1>2, <1>3

\* Of one provider: the senders about to log a mail, and those about to send one.
Logging(p) == Trying({"log"}, p)
Sending(p) == Trying({"user", "submit"}, p)

\* Two sets of different senders are together no more than all senders.
LEMMA DisjointSenders ==
    ASSUME NEW A \in SUBSET Senders, NEW C \in SUBSET Senders, A \intersect C = {}
    PROVE /\ Cardinality(A) \in Nat /\ Cardinality(C) \in Nat
          /\ Cardinality(Senders) \in Nat
          /\ Cardinality(A) + Cardinality(C) <= Cardinality(Senders)
<1>1. IsFiniteSet(Senders) /\ IsFiniteSet(A) /\ IsFiniteSet(C)
    BY ServicesAssumption, FS_Subset
<1>2. Cardinality(A \union C) = Cardinality(A) + Cardinality(C)
            - Cardinality(A \intersect C)
    BY <1>1, FS_Union
<1>3. Cardinality(A \intersect C) = 0 BY FS_EmptySet
<1>4. A \union C \in SUBSET Senders OBVIOUS
<1>5. Cardinality(A \union C) <= Cardinality(Senders) BY <1>1, <1>4, FS_Subset
<1>6. /\ Cardinality(A) \in Nat /\ Cardinality(C) \in Nat
      /\ Cardinality(Senders) \in Nat
    BY <1>1, FS_CardinalityType
<1> QED BY <1>2, <1>3, <1>5, <1>6

\* So are those who log and those who send, before a step and after it.
LEMMA FewTry ==
    ASSUME NEW p
    PROVE /\ Cardinality(Logging(p)) \in Nat /\ Cardinality(Sending(p)) \in Nat
          /\ Cardinality(Senders) \in Nat
          /\ Cardinality(Logging(p)) + Cardinality(Sending(p)) <= Cardinality(Senders)
          /\ Cardinality(Logging(p))' \in Nat /\ Cardinality(Sending(p))' \in Nat
          /\ Cardinality(Logging(p))' + Cardinality(Sending(p))' <= Cardinality(Senders)
<1>1. /\ Logging(p) \in SUBSET Senders /\ Sending(p) \in SUBSET Senders
      /\ Logging(p) \intersect Sending(p) = {}
    BY DEF Logging, Sending, Trying
<1>2. PICK A, C : A = Logging(p)' /\ C = Sending(p)' OBVIOUS
<1>3. A \in SUBSET Senders /\ C \in SUBSET Senders /\ A \intersect C = {}
    BY <1>2 DEF Logging, Sending, Trying
<1>4. Cardinality(Logging(p))' = Cardinality(A) /\ Cardinality(Sending(p))' = Cardinality(C)
    BY <1>2
<1>5. /\ Cardinality(A) \in Nat /\ Cardinality(C) \in Nat
      /\ Cardinality(A) + Cardinality(C) <= Cardinality(Senders)
    BY <1>3, DisjointSenders
<1> QED BY <1>1, <1>4, <1>5, DisjointSenders

\* TodayInv of one provider.
TodayOf(p) ==
    /\ sent[day][p] <= logs[day][p] + Cardinality(Logging(p)) + unlogged
    /\ sent[day][p] + Cardinality(Sending(p)) < Credits[p] + Cardinality(Senders) + unlogged

\* The numbers of TodayOf.
LEMMA TodayAreNat ==
    ASSUME MailInv, NEW p \in E!Providers
    PROVE /\ TodayOf(p)
          /\ sent[day][p] \in Nat /\ logs[day][p] \in Nat /\ unlogged \in Nat
          /\ Credits[p] \in Nat /\ Credits[p] > 0
BY ProvidersAre DEF MailInv, MailTyped, TodayInv, TodayOf, Logging, Sending

\* A sender that moves while nothing is counted: fewer are about to send.
LEMMA QuietKeeps ==
    ASSUME MailInv, NEW p \in E!Providers,
           UNCHANGED <<sent, logs, day>>, unlogged' = unlogged \/ unlogged' = unlogged + 1,
           \/ Cardinality(Logging(p))' = Cardinality(Logging(p))
           \/ /\ Cardinality(Logging(p))' = Cardinality(Logging(p)) - 1
              /\ unlogged' = unlogged + 1,
           \/ Cardinality(Sending(p))' = Cardinality(Sending(p))
           \/ Cardinality(Sending(p))' = Cardinality(Sending(p)) - 1
    PROVE TodayOf(p)'
<1>1. /\ sent[day][p] \in Nat /\ logs[day][p] \in Nat /\ unlogged \in Nat
      /\ Credits[p] \in Nat /\ Credits[p] > 0
      /\ sent[day][p] <= logs[day][p] + Cardinality(Logging(p)) + unlogged
      /\ sent[day][p] + Cardinality(Sending(p)) < Credits[p] + Cardinality(Senders) + unlogged
    BY TodayAreNat DEF TodayOf
<1>2. sent'[day'][p] = sent[day][p] /\ logs'[day'][p] = logs[day][p] OBVIOUS
<1>3. /\ Cardinality(Logging(p)) \in Nat /\ Cardinality(Sending(p)) \in Nat
      /\ Cardinality(Senders) \in Nat
    BY FewTry
<1>4. sent'[day'][p] <= logs'[day'][p] + Cardinality(Logging(p))' + unlogged'
    BY <1>1, <1>2, <1>3
<1>5. sent'[day'][p] + Cardinality(Sending(p))'
        < Credits[p] + Cardinality(Senders) + unlogged'
    BY <1>1, <1>2, <1>3
<1> QED BY <1>4, <1>5 DEF TodayOf

\* How the two sets change when a sender goes from one position to another.
LEMMA TodayMoves ==
    ASSUME MailInv, NEW s \in Senders, NEW l, at' = [at EXCEPT ![s] = l], tried' = tried,
           NEW p
    PROVE /\ tried[s] # p \/ at[s] = l => /\ Cardinality(Logging(p))' = Cardinality(Logging(p))
                                         /\ Cardinality(Sending(p))' = Cardinality(Sending(p))
          /\ at[s] # "log" /\ l # "log" => Cardinality(Logging(p))' = Cardinality(Logging(p))
          /\ tried[s] = p /\ at[s] # "log" /\ l = "log" =>
                Cardinality(Logging(p))' = Cardinality(Logging(p)) + 1
          /\ tried[s] = p /\ at[s] = "log" /\ l # "log" =>
                Cardinality(Logging(p))' = Cardinality(Logging(p)) - 1
          /\ at[s] \notin {"user", "submit"} /\ l \notin {"user", "submit"} =>
                Cardinality(Sending(p))' = Cardinality(Sending(p))
          /\ tried[s] = p /\ at[s] \in {"user", "submit"} /\ l \notin {"user", "submit"} =>
                Cardinality(Sending(p))' = Cardinality(Sending(p)) - 1
          /\ at[s] \in {"user", "submit"} /\ l \in {"user", "submit"} =>
                Cardinality(Sending(p))' = Cardinality(Sending(p))
<1>1. /\ \A z \in Senders \ {s} : at'[z] = at[z] /\ tried'[z] = tried[z]
      /\ at'[s] = l /\ tried'[s] = tried[s]
    BY DEF MailInv, MailTyped
<1>2. /\ (at[s] = "log" /\ tried[s] = p <=> l = "log" /\ tried[s] = p) =>
            Cardinality(Logging(p))' = Cardinality(Logging(p))
      /\ at[s] = "log" /\ tried[s] = p /\ ~(l = "log" /\ tried[s] = p) =>
            Cardinality(Logging(p))' = Cardinality(Logging(p)) - 1
      /\ ~(at[s] = "log" /\ tried[s] = p) /\ l = "log" /\ tried[s] = p =>
            Cardinality(Logging(p))' = Cardinality(Logging(p)) + 1
    BY ONLY <1>1, s \in Senders, TryingMoves DEF Logging
<1>3. /\ (at[s] \in {"user", "submit"} /\ tried[s] = p
            <=> l \in {"user", "submit"} /\ tried[s] = p) =>
            Cardinality(Sending(p))' = Cardinality(Sending(p))
      /\ at[s] \in {"user", "submit"} /\ tried[s] = p
            /\ ~(l \in {"user", "submit"} /\ tried[s] = p) =>
            Cardinality(Sending(p))' = Cardinality(Sending(p)) - 1
    BY ONLY <1>1, s \in Senders, TryingMoves DEF Sending
<1> QED BY <1>2, <1>3

\* Submitting turns one who sends into one who logs.
LEMMA SubmitKeeps ==
    ASSUME MailInv, NEW s \in Senders, E!Submit(s), NEW p \in E!Providers
    PROVE TodayOf(p)'
<1>1. /\ at[s] = "submit" /\ at' = [at EXCEPT ![s] = "log"] /\ tried' = tried
      /\ sent' = [sent EXCEPT ![day][tried[s]] = @ + 1]
      /\ UNCHANGED <<logs, day, unlogged>>
    BY DEF E!Submit, E!Goto, E!counters
<1>2. MailTyped BY DEF MailInv
<1>3. CASE tried[s] # p
  <2>1. sent'[day][p] = sent[day][p] BY <1>1, <1>2, <1>3, OneMore DEF MailTyped
  <2>2. /\ Cardinality(Logging(p))' = Cardinality(Logging(p))
        /\ Cardinality(Sending(p))' = Cardinality(Sending(p))
    BY <1>1, <1>3, TodayMoves
  <2>3. sent'[day'][p] = sent[day][p] /\ logs'[day'][p] = logs[day][p] /\ unlogged' = unlogged
    BY <1>1, <2>1
  <2> QED BY <2>2, <2>3, TodayAreNat DEF TodayOf
<1>4. CASE tried[s] = p
  <2>1. sent'[day][p] = sent[day][p] + 1 BY <1>1, <1>2, <1>4, OneMore DEF MailTyped
  <2>2. at[s] \in {"user", "submit"} /\ "log" \notin {"user", "submit"} /\ at[s] # "log"
    BY <1>1
  <2>3. /\ Cardinality(Logging(p))' = Cardinality(Logging(p)) + 1
        /\ Cardinality(Sending(p))' = Cardinality(Sending(p)) - 1
    BY <1>1, <1>4, <2>2, TodayMoves
  <2>4. sent'[day'][p] = sent[day][p] + 1 /\ logs'[day'][p] = logs[day][p]
        /\ unlogged' = unlogged
    BY <1>1, <2>1
  <2>5. sent'[day'][p] <= logs'[day'][p] + Cardinality(Logging(p))' + unlogged'
    BY <2>3, <2>4, TodayAreNat, FewTry DEF TodayOf
  <2>6. sent'[day'][p] + Cardinality(Sending(p))'
            < Credits[p] + Cardinality(Senders) + unlogged'
    BY <2>3, <2>4, TodayAreNat, FewTry DEF TodayOf
  <2> QED BY <2>5, <2>6 DEF TodayOf
<1> QED BY <1>3, <1>4

\* Logging takes one from those who log.
LEMMA CreateLogKeeps ==
    ASSUME MailInv, NEW s \in Senders, E!CreateLog(s), NEW p \in E!Providers
    PROVE TodayOf(p)'
<1>1. /\ at[s] = "log" /\ at' = [at EXCEPT ![s] = "true"] /\ tried' = tried
      /\ UNCHANGED <<sent, day, unlogged>>
    BY DEF E!CreateLog, E!Goto, E!counters
<1>2. MailTyped BY DEF MailInv
<1>3. at[s] \notin {"user", "submit"} /\ "true" \notin {"user", "submit"} /\ "true" # "log"
    BY <1>1
<1>4. Cardinality(Sending(p))' = Cardinality(Sending(p)) BY <1>1, <1>3, TodayMoves
<1>5. sent'[day'][p] = sent[day][p] /\ logs'[day'][p] = logs'[day][p] /\ unlogged' = unlogged
    BY <1>1
<1>6. CASE tried[s] # p
  <2>1. logs'[day][p] = logs[day][p] BY <1>2, <1>6, LogMore DEF MailTyped
  <2>2. Cardinality(Logging(p))' = Cardinality(Logging(p)) BY <1>1, <1>6, TodayMoves
  <2> QED BY <1>4, <1>5, <2>1, <2>2, TodayAreNat DEF TodayOf
<1>7. CASE tried[s] = p
  <2>1. logs'[day][p] = logs[day][p] + 1
    <3>1. day \in E!Days /\ day <= day BY <1>2, ProvidersAre DEF MailTyped
    <3> QED BY <1>2, <1>7, <3>1, LogMore
  <2>2. Cardinality(Logging(p))' = Cardinality(Logging(p)) - 1
    BY <1>1, <1>3, <1>7, TodayMoves
  <2>3. sent'[day'][p] <= logs'[day'][p] + Cardinality(Logging(p))' + unlogged'
    BY <1>5, <2>1, <2>2, TodayAreNat, FewTry DEF TodayOf
  <2> QED BY <1>4, <1>5, <2>3, TodayAreNat DEF TodayOf
<1> QED BY <1>6, <1>7

\* Finding credit left sends one more; all who send and log are no more than the senders,
\* and what is logged is less than the credits.
LEMMA CountKeeps ==
    ASSUME MailInv, NEW s \in Senders, E!CountLogs(s), NEW p \in E!Providers
    PROVE TodayOf(p)'
<1>0. MailTyped BY DEF MailInv
<1>1. at[s] = "count" /\ UNCHANGED <<sent, logs, day, unlogged, began>>
    BY ONLY <1>0, CountOutcomes, E!CountLogs(s)
<1>2. PICK l, q :
        /\ at' = [at EXCEPT ![s] = l] /\ tried' = [tried EXCEPT ![s] = q]
        /\ \/ l \in {"count", "false"}
           \/ l = "user" /\ q = tried[s] /\ E!Logged(began[s], q) < Credits[q]
    BY ONLY <1>0, CountOutcomes, E!CountLogs(s)
<1>6. /\ \A z \in Senders \ {s} : at'[z] = at[z] /\ tried'[z] = tried[z]
      /\ at'[s] = l /\ tried'[s] = q
    BY <1>0, <1>2 DEF MailTyped
<1>3. Cardinality(Logging(p))' = Cardinality(Logging(p))
  <2>1. at[s] \notin {"log"} /\ l \notin {"log"} BY <1>1, <1>2
  <2> QED BY ONLY <1>6, <2>1, s \in Senders, TryingMoves DEF Logging
<1>4. CASE l \in {"count", "false"} \/ q # p
  <2>1. at[s] \notin {"user", "submit"} /\ (l \notin {"user", "submit"} \/ q # p)
    BY <1>1, <1>4
  <2>2. Cardinality(Sending(p))' = Cardinality(Sending(p))
    BY ONLY <1>6, <2>1, s \in Senders, TryingMoves DEF Sending
  <2> QED BY <1>1, <1>3, <2>2, QuietKeeps
<1>5. CASE q = p /\ E!Logged(began[s], q) < Credits[q]
  <2>1. /\ sent'[day'][p] = sent[day][p] /\ logs'[day'][p] = logs[day][p]
        /\ unlogged' = unlogged
    BY <1>1
  <2>2. began[s] \in E!Days /\ day \in Nat /\ began[s] \in 1..day
    BY <1>0, ProvidersAre DEF MailTyped, E!Days
  <2>3. logs[began[s]][p] \in Nat /\ logs[day][p] \in Nat BY <1>0, <2>2 DEF MailTyped
  <2>4. logs[day][p] <= E!Logged(began[s], p) /\ E!Logged(began[s], p) \in Nat
    <3>1. day \in E!Days /\ began[s] <= day BY <1>0, <2>2 DEF MailTyped
    <3> QED BY <2>2, <2>3, <3>1 DEF MailInv, SinceInv, E!Logged
  <2>5. logs[day][p] < Credits[p] BY <1>5, <2>3, <2>4, ProvidersAre
  <2>6. sent'[day'][p] <= logs'[day'][p] + Cardinality(Logging(p))' + unlogged'
    BY <1>3, <2>1, TodayAreNat DEF TodayOf
  <2>7. sent'[day'][p] + Cardinality(Sending(p))'
            < Credits[p] + Cardinality(Senders) + unlogged'
    BY <2>1, <2>5, <2>6, TodayAreNat, FewTry
  <2> QED BY <2>6, <2>7 DEF TodayOf
<1> QED BY <1>2, <1>4, <1>5

\* A new day has nothing sent and nothing logged.
LEMMA NextDayKeeps ==
    ASSUME MailInv, E!NextDay, NEW p \in E!Providers
    PROVE TodayOf(p)'
<1>1. day' = day + 1 /\ UNCHANGED <<at, tried, sent, logs, unlogged>>
    BY DEF E!NextDay
<1>2. day' \in E!Days /\ day' > day
    BY <1>1, ProvidersAre DEF MailInv, MailTyped, E!NextDay, E!Days
<1>3. sent'[day'][p] = 0 /\ logs'[day'][p] = 0
  <2>1. sent[day'][p] = 0 /\ logs[day'][p] = 0 BY <1>2, CountsAreNat
  <2> QED BY <1>1, <2>1
<1>4. unlogged' = unlogged BY <1>1
<1>5. sent'[day'][p] <= logs'[day'][p] + Cardinality(Logging(p))' + unlogged'
    BY <1>3, <1>4, TodayAreNat, FewTry
<1>6. sent'[day'][p] + Cardinality(Sending(p))'
        < Credits[p] + Cardinality(Senders) + unlogged'
    BY <1>3, <1>4, TodayAreNat, FewTry
<1> QED BY <1>5, <1>6 DEF TodayOf

\* The accounts of today stay balanced over every step.
LEMMA TodayKept ==
    ASSUME MailInv, [E!Next]_E!vars, NEW p \in E!Providers
    PROVE TodayOf(p)'
<1>1. MailTyped BY DEF MailInv
<1>2. ASSUME NEW s \in Senders, NEW l, at' = [at EXCEPT ![s] = l], tried' = tried,
             at[s] # "log" /\ l # "log", UNCHANGED <<sent, logs, day, unlogged>>,
             at[s] \in {"user", "submit"} \/ l \notin {"user", "submit"}
      PROVE TodayOf(p)'
  <2>0. at' = [at EXCEPT ![s] = l] /\ tried' = tried /\ at[s] # "log" /\ l # "log"
    BY <1>2
  <2>1. Cardinality(Logging(p))' = Cardinality(Logging(p))
    <3>1. /\ \A z \in Senders \ {s} : at'[z] = at[z] /\ tried'[z] = tried[z]
          /\ at'[s] = l /\ tried'[s] = tried[s]
      BY <1>1, <2>0 DEF MailTyped
    <3>2. Logging(p)' = Logging(p) BY <2>0, <3>1 DEF Logging, Trying
    <3> QED BY <3>2
  <2>2. \/ Cardinality(Sending(p))' = Cardinality(Sending(p))
        \/ Cardinality(Sending(p))' = Cardinality(Sending(p)) - 1
    BY <1>2, TodayMoves
  <2> QED BY <1>2, <2>1, <2>2, QuietKeeps
<1>3. ASSUME NEW s \in Senders, E!Send(s) PROVE TodayOf(p)'
  <2>1. /\ at[s] \in {"idle", "true", "false"} /\ at' = [at EXCEPT ![s] = "count"]
        /\ tried' = [tried EXCEPT ![s] = 1] /\ UNCHANGED <<sent, logs, day, unlogged>>
    BY <1>3 DEF E!Send, E!Goto
  <2>2. /\ \A z \in Senders \ {s} : at'[z] = at[z] /\ tried'[z] = tried[z]
        /\ at[s] \notin {"log"} /\ at'[s] \notin {"log"}
        /\ at[s] \notin {"user", "submit"} /\ at'[s] \notin {"user", "submit"}
    BY <1>1, <2>1 DEF MailTyped
  <2>3. Cardinality(Logging(p))' = Cardinality(Logging(p))
    BY ONLY <2>2, s \in Senders, TryingMoves DEF Logging
  <2>4. Cardinality(Sending(p))' = Cardinality(Sending(p))
    BY ONLY <2>2, s \in Senders, TryingMoves DEF Sending
  <2> QED BY <2>1, <2>3, <2>4, QuietKeeps
<1>4. ASSUME NEW s \in Senders, E!LogsUnreadable(s) PROVE TodayOf(p)'
    BY <1>2, <1>4 DEF E!LogsUnreadable, E!Goto, E!counters
<1>5. ASSUME NEW s \in Senders, E!CountLogs(s) PROVE TodayOf(p)' BY <1>5, CountKeeps
<1>6. ASSUME NEW s \in Senders, E!FindUser(s) PROVE TodayOf(p)'
  <2>1. PICK l \in {"true", "submit", "false"} : at' = [at EXCEPT ![s] = l]
    BY <1>6 DEF E!FindUser, E!Goto
  <2>2. at[s] = "user" /\ UNCHANGED <<tried, sent, logs, day, unlogged>>
    BY <1>6 DEF E!FindUser, E!counters
  <2> QED BY <1>2, <2>1, <2>2
<1>7. ASSUME NEW s \in Senders, E!Submit(s) PROVE TodayOf(p)' BY <1>7, SubmitKeeps
<1>8. ASSUME NEW s \in Senders, E!SubmitFails(s) PROVE TodayOf(p)'
    BY <1>2, <1>8 DEF E!SubmitFails, E!Goto
<1>9. ASSUME NEW s \in Senders, E!CreateLog(s) PROVE TodayOf(p)' BY <1>9, CreateLogKeeps
<1>10. ASSUME NEW s \in Senders, E!LogLost(s) PROVE TodayOf(p)'
  <2>1. /\ at[s] = "log" /\ at' = [at EXCEPT ![s] = "false"] /\ tried' = tried
        /\ unlogged' = unlogged + 1 /\ UNCHANGED <<sent, logs, day>>
    BY <1>10 DEF E!LogLost, E!Goto
  <2>2. at[s] \notin {"user", "submit"} /\ "false" \notin {"user", "submit"} /\ "false" # "log"
    BY <2>1
  <2>3. Cardinality(Sending(p))' = Cardinality(Sending(p)) BY <2>1, <2>2, TodayMoves
  <2>4. \/ Cardinality(Logging(p))' = Cardinality(Logging(p))
        \/ Cardinality(Logging(p))' = Cardinality(Logging(p)) - 1
    BY <2>1, <2>2, TodayMoves
  <2> QED BY <2>1, <2>3, <2>4, QuietKeeps
<1>11. CASE E!NextDay BY <1>11, NextDayKeeps
<1>12. CASE E!Unsubscribe \/ UNCHANGED E!vars
  <2>1. UNCHANGED <<at, tried, sent, logs, day, unlogged>>
    BY <1>12 DEF E!Unsubscribe, E!vars, E!counters
  <2>2. Logging(p)' = Logging(p) /\ Sending(p)' = Sending(p)
    BY <2>1 DEF Logging, Sending, Trying
  <2>3. /\ Cardinality(Logging(p))' = Cardinality(Logging(p))
        /\ Cardinality(Sending(p))' = Cardinality(Sending(p))
    BY <2>2
  <2> QED BY <2>1, <2>3, QuietKeeps
<1> QED BY <1>3, <1>4, <1>5, <1>6, <1>7, <1>8, <1>9, <1>10, <1>11, <1>12 DEF E!Next

\* The instance counts the senders as this module does.
LEMMA SameSenders == E!Cardinality(Senders) = Cardinality(Senders)
BY DEF E!Cardinality, Cardinality

\* The credits of a day that is over hold as they did.
LEMMA CreditsKept ==
    ASSUME MailInv, [E!Next]_E!vars
    PROVE E!CreditsHold'
<1>1. MailTyped /\ MailTyped' BY MailTypedKept DEF MailInv
<1> SUFFICES ASSUME NEW d \in E!Days, NEW p \in E!Providers
             PROVE sent'[d][p] < Credits[p] + Cardinality(Senders) + unlogged'
    BY SameSenders DEF E!CreditsHold
<1>2. /\ sent'[d][p] \in Nat /\ Credits[p] \in Nat /\ unlogged \in Nat /\ unlogged' \in Nat
      /\ Cardinality(Senders) \in Nat
  <2>1. sent' \in [E!Days -> [E!Providers -> Nat]] /\ unlogged \in Nat /\ unlogged' \in Nat
    BY <1>1 DEF MailTyped
  <2>2. Credits[p] \in Nat BY ProvidersAre
  <2>3. Cardinality(Senders) \in Nat BY FewTry
  <2> QED BY <2>1, <2>2, <2>3
<1>3. CASE d = day'
  <2>1. sent'[day'][p] + Cardinality(Sending(p))'
            < Credits[p] + Cardinality(Senders) + unlogged'
    BY TodayKept DEF TodayOf
  <2>2. sent'[day'][p] = sent'[d][p] BY <1>3
  <2> QED BY <1>2, <2>1, <2>2, FewTry
<1>4. CASE d # day'
  <2>1. sent'[d][p] = sent[d][p] /\ (unlogged' = unlogged \/ unlogged' = unlogged + 1)
    <3>1. ASSUME NEW s \in Senders, E!Submit(s)
          PROVE sent'[d][p] = sent[d][p] /\ unlogged' = unlogged
      <4>1. /\ sent' = [sent EXCEPT ![day][tried[s]] = @ + 1] /\ day' = day
            /\ unlogged' = unlogged
        BY <3>1 DEF E!Submit, E!counters
      <4> QED BY <1>1, <1>4, <4>1, OneMore DEF MailTyped
    <3>2. CASE ~\E s \in Senders : E!Submit(s)
      <4>1. sent' = sent
        BY <3>2 DEF E!Next, E!vars, E!Send, E!LogsUnreadable, E!CountLogs, E!FindUser,
            E!CreateLog, E!SubmitFails, E!LogLost, E!Unsubscribe, E!NextDay
      <4>2. unlogged' = unlogged \/ unlogged' = unlogged + 1
        BY <3>2 DEF E!Next, E!vars, E!Send, E!LogsUnreadable, E!CountLogs, E!FindUser,
            E!CreateLog, E!SubmitFails, E!LogLost, E!Unsubscribe, E!NextDay
      <4> QED BY <4>1, <4>2
    <3> QED BY <3>1, <3>2
  <2>2. sent[d][p] < Credits[p] + Cardinality(Senders) + unlogged
    BY SameSenders DEF MailInv, E!CreditsHold
  <2> QED BY <1>2, <2>1, <2>2
<1> QED BY <1>3, <1>4

\* The invariant of TransactionalEmail holds over every step.
LEMMA MailKept ==
    ASSUME MailInv, [E!Next]_E!vars
    PROVE MailInv'
<1>1. TodayInv' BY TodayKept DEF TodayInv, TodayOf, Logging, Sending
<1>2. MailTyped' BY MailTypedKept DEF MailInv
<1>3. CountsInv' /\ SinceInv' BY CountsKept, SinceKept
<1> QED BY <1>1, <1>2, <1>3, SpentKept, LateKept, CreditsKept, NextKept DEF MailInv

\* TransactionalEmail exceeds the daily credits of a provider by no more than senders
\* count at once and mails that were never logged, goes on to a provider only when the
\* one before is spent, and spares who has unsubscribed: for any number of senders,
\* providers, credits and days.
THEOREM MailAlwaysHolds == E!Spec => []MailHolds
<1>1. E!Init => MailInv
  <2> SUFFICES ASSUME E!Init PROVE MailInv OBVIOUS
  <2>1. /\ \A d \in E!Days, p \in E!Providers : sent[d][p] = 0 /\ logs[d][p] = 0
        /\ day \in E!Days /\ unlogged = 0 /\ sends = 0
        /\ \A s \in Senders : at[s] = "idle" /\ ~late[s]
    BY ProvidersAre DEF E!Init
  <2>2. MailTyped
    <3>1. day = 1 /\ began \in [Senders -> 1..1] BY DEF E!Init
    <3>2. sends \in 0..MaxSends /\ failures \in 0..MaxFaults /\ unlogged <= failures
        BY Bounds DEF E!Init
    <3>3. /\ logs \in [E!Days -> [E!Providers -> Nat]]
          /\ sent \in [E!Days -> [E!Providers -> Nat]]
        BY DEF E!Init
    <3>4. /\ mongodb \in BOOLEAN /\ unsubscribed \in BOOLEAN /\ unlogged \in Nat
          /\ at \in [Senders -> {"idle", "count", "user", "submit", "log", "true", "false"}]
          /\ tried \in [Senders -> E!Providers] /\ late \in [Senders -> BOOLEAN]
        BY ProvidersAre DEF E!Init
    <3>5. day \in E!Days /\ began \in [Senders -> 1..day] BY <2>1, <3>1
    <3> QED BY <3>2, <3>3, <3>4, <3>5 DEF MailTyped
  <2>3. \A X : At(X) = {s \in Senders : "idle" \in X} BY <2>1 DEF At
  <2>4. ToSubmit = {} /\ ToLog = {} BY <2>1 DEF ToSubmit, ToLog, At
  <2>5. Cardinality(ToSubmit) = 0 /\ Cardinality(ToLog) = 0 BY <2>4, FS_EmptySet
  <2>6. CountsInv /\ SinceInv BY <2>1, <2>5 DEF CountsInv, SinceInv
  <2>7. ASSUME NEW p \in E!Providers PROVE TodayOf(p)
    <3>1. Logging(p) = {} /\ Sending(p) = {} BY <2>1 DEF Logging, Sending, Trying
    <3>2. Cardinality(Logging(p)) = 0 /\ Cardinality(Sending(p)) = 0
        BY <3>1, FS_EmptySet
    <3>3. sent[day][p] = 0 /\ logs[day][p] = 0 /\ unlogged = 0 BY <2>1
    <3>4. Credits[p] \in Nat /\ Credits[p] > 0 BY ProvidersAre
    <3>5. Cardinality(Senders) \in Nat BY FewTry
    <3>6. 0 <= 0 + 0 + 0 /\ 0 + 0 < Credits[p] + Cardinality(Senders) + 0 BY <3>4, <3>5
    <3> QED BY <3>2, <3>3, <3>6 DEF TodayOf
  <2>8. TodayInv BY <2>7 DEF TodayInv, TodayOf, Logging, Sending
  <2>9. SpentInv /\ LateInv BY <2>1 DEF SpentInv, LateInv
  <2>10. E!CreditsHold
    <3> SUFFICES ASSUME NEW d \in E!Days, NEW p \in E!Providers
                 PROVE sent[d][p] < Credits[p] + Cardinality(Senders) + unlogged
        BY SameSenders DEF E!CreditsHold
    <3>1. sent[d][p] = 0 /\ unlogged = 0 BY <2>1
    <3>2. Credits[p] \in Nat /\ Credits[p] > 0 BY ProvidersAre
    <3>3. Cardinality(Senders) \in Nat BY FewTry
    <3>4. 0 < Credits[p] + Cardinality(Senders) + 0 BY <3>2, <3>3
    <3> QED BY <3>1, <3>4
  <2>11. E!NextOnlyWhenSpent BY <2>1 DEF E!NextOnlyWhenSpent
  <2> QED BY <2>2, <2>6, <2>8, <2>9, <2>10, <2>11 DEF MailInv
<1>2. MailInv /\ [E!Next]_E!vars => MailInv' BY MailKept
<1>3. ASSUME MailInv PROVE MailHolds
  <2>1. MailTyped BY <1>3 DEF MailInv
  <2>2. ASSUME NEW d \in E!Days, NEW p \in E!Providers
        PROVE sent[d][p] \in 0..MaxSends /\ logs[d][p] \in 0..MaxSends
    <3>1. sends \in 0..MaxSends /\ MaxSends \in Nat BY <2>1, Bounds DEF MailTyped
    <3> QED BY <1>3, <3>1, CountsAreNat
  <2>3. {logs, sent} \subseteq [E!Days -> [E!Providers -> 0..MaxSends]]
    <3>1. logs \in [E!Days -> [E!Providers -> 0..MaxSends]] BY <2>1, <2>2 DEF MailTyped
    <3>2. sent \in [E!Days -> [E!Providers -> 0..MaxSends]] BY <2>1, <2>2 DEF MailTyped
    <3> QED BY <3>1, <3>2
  <2>4. unlogged \in 0..MaxFaults BY <2>1, Bounds DEF MailTyped
  <2>5. began \in [Senders -> E!Days]
    <3>1. 1..day \subseteq E!Days BY <2>1, ProvidersAre DEF MailTyped, E!Days
    <3> QED BY <2>1, <3>1 DEF MailTyped
  <2>6. E!TypeOK BY <2>1, <2>3, <2>4, <2>5 DEF MailTyped, E!TypeOK
  <2>7. E!UnsubscribedIsSpared BY <1>3 DEF MailInv, LateInv, E!UnsubscribedIsSpared
  <2> QED BY <1>3, <2>6, <2>7 DEF MailInv, MailHolds
<1> QED BY <1>1, <1>2, <1>3, PTL DEF E!Spec

-------------------------------------------------------------------------------
(* ModuleBuilder *)

\* The services, and of each its entry, once the files of the modules A are merged.
Gathered(A) == B!BaseServices \union UNION {B!FileServices(m) : m \in A}
Entry(A, s) ==
    IF s = "startup-api" /\ "postgresql" \in A
    THEN [B!Service(s) EXCEPT !.depends = @ \union {"startup-postgresql"}]
    ELSE B!Service(s)
Entries(A, keys) == [s \in keys |-> Entry(A, s)]
Volumes(A) == UNION {B!FileVolumes(m) : m \in A}
Valued(keys, value) == [k \in keys |-> value]
Networks == {"startup-network"}

\* The composition of the modules A, of which the services keys are left.
Composed(A, keys) ==
    [services |-> Entries(A, keys), networks |-> Valued(Networks, B!Null),
     volumes |-> Valued(Volumes(A), B!Null)]

Taken(n) == {B!Modules[i] : i \in 1..n} \intersect enabled \intersect present
On == enabled \intersect present
Kept == Gathered(On) \ {B!ServiceKey[m] : m \in B!Disabled}

\* What the build has come to at each stage, to the last key.
ComposeInv ==
    /\ enabled \subseteq B!ModuleNames /\ present \subseteq B!ModuleNames
    /\ nth \in 1..6 /\ stage \in {"modules", "sections", "services", "depends", "written"}
    /\ stage = "modules" => compose = Composed(Taken(nth - 1), Gathered(Taken(nth - 1)))
    /\ stage \in {"sections", "services"} => compose = Composed(On, Gathered(On))
    /\ stage = "depends" => compose = Composed(On, Kept)
    /\ stage = "written" =>
        compose = [services |-> B!cleanDependsOn(Entries(On, Kept)),
                   networks |-> Valued(Networks, B!Empty),
                   volumes |-> Valued(Volumes(On), B!Empty)]

\* The modules, as the six they are.
LEMMA SixModules ==
    /\ Len(B!Modules) = 6 /\ DOMAIN B!Modules = 1..6
    /\ B!ModuleNames =
        {"rabbitmq", "redis", "mongodb", "postgresql", "prismastudio", "pgadmin"}
    /\ \A i \in 1..6 : B!Modules[i] \in B!ModuleNames
<1>1. Len(B!Modules) = 6 /\ DOMAIN B!Modules = 1..6 BY DEF B!Modules
<1>2. /\ B!Modules[1] = "rabbitmq" /\ B!Modules[2] = "redis" /\ B!Modules[3] = "mongodb"
      /\ B!Modules[4] = "postgresql" /\ B!Modules[5] = "prismastudio"
      /\ B!Modules[6] = "pgadmin"
    BY DEF B!Modules
<1>3. \A i \in 1..6 : i = 1 \/ i = 2 \/ i = 3 \/ i = 4 \/ i = 5 \/ i = 6 OBVIOUS
<1>4. B!ModuleNames =
        {"rabbitmq", "redis", "mongodb", "postgresql", "prismastudio", "pgadmin"}
    BY <1>1, <1>2, <1>3 DEF B!ModuleNames
<1> QED BY <1>1, <1>4 DEF B!ModuleNames

\* No module takes the place of the API.
LEMMA ApiIsBase ==
    /\ \A A : "startup-api" \in Gathered(A)
    /\ \A m \in B!ModuleNames : "startup-api" \notin B!FileServices(m)
    /\ \A m \in B!ModuleNames : B!ServiceKey[m] # "startup-api"
BY SixModules DEF Gathered, B!BaseServices, B!FileServices, B!ServiceKey

\* Merging the file of a module is composing with one module more.
LEMMA MergesOne ==
    ASSUME NEW A \in SUBSET B!ModuleNames, NEW m \in B!ModuleNames,
           compose = Composed(A, Gathered(A))
    PROVE B!Merged(m) = Composed(A \union {m}, Gathered(A \union {m}))
<1> DEFINE G == A \union {m}
           merged == B!Over(B!File(m).services, compose.services)
<1>1. Gathered(G) = B!FileServices(m) \union Gathered(A) BY DEF Gathered
<1>2. merged = [s \in Gathered(G) |->
                    IF s \in B!FileServices(m) THEN B!Service(s) ELSE Entry(A, s)]
    BY <1>1 DEF Composed, Entries, B!Over, B!File
<1>3. B!Over(B!File(m).volumes, compose.volumes) = Valued(Volumes(G), B!Null)
  <2>1. Volumes(G) = B!FileVolumes(m) \union Volumes(A) BY DEF Volumes
  <2> QED BY <2>1 DEF Composed, Valued, B!Over, B!File
<1>4. (IF m = "postgresql" THEN B!WithDependency(merged) ELSE merged) = Entries(G, Gathered(G))
  <2>1. \A s \in B!FileServices(m) : Entry(G, s) = B!Service(s)
    BY ApiIsBase DEF Entry
  <2>2. ASSUME NEW s \in Gathered(G), s # "startup-api" \/ m # "postgresql"
        PROVE merged[s] = Entry(G, s)
    <3>1. CASE s \in B!FileServices(m) BY <1>2, <2>1, <3>1
    <3>2. CASE s \notin B!FileServices(m)
      <4>1. Entry(A, s) = Entry(G, s) BY <2>2 DEF Entry
      <4> QED BY <1>2, <3>2, <4>1
    <3> QED BY <3>1, <3>2
  <2>3. CASE m # "postgresql"
    <3>1. \A s \in Gathered(G) : merged[s] = Entry(G, s) BY <2>2, <2>3
    <3>2. merged = [s \in Gathered(G) |-> merged[s]] BY <1>2
    <3> QED BY <2>3, <3>1, <3>2 DEF Entries
  <2>4. CASE m = "postgresql"
    <3>1. /\ "startup-api" \in Gathered(G)
          /\ merged["startup-api"] = Entry(A, "startup-api")
        BY <1>2, ApiIsBase
    <3>2. [Entry(A, "startup-api") EXCEPT !.depends = @ \union {"startup-postgresql"}]
            = Entry(G, "startup-api")
        BY <2>4 DEF Entry, B!Service
    <3>3. B!WithDependency(merged)
            = [merged EXCEPT !["startup-api"] = Entry(G, "startup-api")]
        BY <3>1, <3>2 DEF B!WithDependency
    <3>4. [merged EXCEPT !["startup-api"] = Entry(G, "startup-api")] = Entries(G, Gathered(G))
        BY <1>2, <2>2, <3>1 DEF Entries
    <3> QED BY <2>4, <3>3, <3>4
  <2> QED BY <2>3, <2>4
<1> HIDE DEF merged
<1>5. B!Merged(m) =
        [compose EXCEPT
            !.services = IF m = "postgresql" THEN B!WithDependency(merged) ELSE merged,
            !.volumes = B!Over(B!File(m).volumes, @)]
    BY DEF B!Merged, merged
<1> QED BY <1>3, <1>4, <1>5 DEF Composed

\* Passing a module takes it in if it is on and there.
LEMMA TakesNext ==
    ASSUME nth \in 1..6
    PROVE /\ Taken(0) = {}
          /\ Taken(6) = On \intersect B!ModuleNames
          /\ B!Modules[nth] \in On => Taken(nth) = Taken(nth - 1) \union {B!Modules[nth]}
          /\ B!Modules[nth] \notin On => Taken(nth) = Taken(nth - 1)
<1>1. 1..nth = 1..(nth - 1) \union {nth} OBVIOUS
<1>2. {B!Modules[i] : i \in 1..nth} = {B!Modules[i] : i \in 1..(nth - 1)} \union {B!Modules[nth]}
    BY <1>1
<1>3. Taken(0) = {} BY DEF Taken
<1>4. Taken(6) = On \intersect B!ModuleNames BY SixModules DEF Taken, On, B!ModuleNames
<1> QED BY <1>2, <1>3, <1>4 DEF Taken, On

\* The composition is known over every step.
LEMMA ComposeKept ==
    ASSUME ComposeInv, [B!Next]_B!vars
    PROVE ComposeInv'
<1>0. /\ enabled \subseteq B!ModuleNames /\ present \subseteq B!ModuleNames /\ nth \in 1..6
      /\ On \intersect B!ModuleNames = On /\ On \subseteq B!ModuleNames
    BY DEF ComposeInv, On
\* A module is dealt with, and the composition is that of the modules up to it.
<1>1. ASSUME stage = "modules", B!NextModule, UNCHANGED <<enabled, present>>,
             compose' = Composed(Taken(nth), Gathered(Taken(nth)))
      PROVE ComposeInv'
  <2>0. /\ enabled' = enabled /\ present' = present /\ On' = On
        /\ \A n : Taken(n)' = Taken(n)
    BY <1>1 DEF On, Taken
  <2>1. CASE nth < 6
    <3>1. nth' = nth + 1 /\ stage' = "modules"
        BY <1>1, <2>1, SixModules DEF B!NextModule
    <3>2. PICK n : n = nth' - 1 OBVIOUS
    <3>3. n = nth /\ nth' \in 1..6 BY <1>0, <2>1, <3>1, <3>2
    <3>4. Taken(nth - 1)' = Taken(nth) BY <2>0, <3>2, <3>3 DEF Taken
    <3>5. compose' = Composed(Taken(nth - 1), Gathered(Taken(nth - 1)))'
        BY <1>1, <3>4 DEF Composed, Entries, Gathered, Entry, Volumes
    <3> QED BY <1>0, <2>0, <3>1, <3>3, <3>5 DEF ComposeInv
  <2>2. CASE ~(nth < 6)
    <3>1. nth' = nth /\ stage' = "sections" /\ nth = 6
        BY <1>0, <1>1, <2>2, SixModules DEF B!NextModule
    <3>2. Taken(nth) = On BY <1>0, <3>1, TakesNext
    <3>3. compose' = Composed(On, Gathered(On))'
        BY <1>1, <2>0, <3>2 DEF Composed, Entries, Gathered, Entry, Volumes
    <3> QED BY <1>0, <2>0, <3>1, <3>3 DEF ComposeInv
  <2> QED BY <2>1, <2>2
<1>2. CASE B!Enable
  <2>1. /\ stage = "modules" /\ B!Modules[nth] \in On /\ B!NextModule
        /\ compose' = B!Merged(B!Modules[nth]) /\ UNCHANGED <<enabled, present>>
    BY <1>2 DEF B!Enable, On
  <2>2. Taken(nth - 1) \in SUBSET B!ModuleNames BY <1>0 DEF Taken
  <2>3. B!Merged(B!Modules[nth]) = Composed(Taken(nth), Gathered(Taken(nth)))
    BY <1>0, <2>1, <2>2, MergesOne, TakesNext DEF ComposeInv
  <2> QED BY <1>1, <2>1, <2>3
<1>3. CASE B!PassOver
  <2>1. /\ stage = "modules" /\ B!Modules[nth] \notin On /\ B!NextModule
        /\ UNCHANGED <<enabled, present, compose>>
    BY <1>3 DEF B!PassOver, On
  <2>2. compose' = Composed(Taken(nth), Gathered(Taken(nth)))
    BY <1>0, <2>1, TakesNext DEF ComposeInv
  <2> QED BY <1>1, <2>1, <2>2
<1>4. CASE B!CleanSections
  <2>1. /\ stage = "sections" /\ stage' = "services"
        /\ UNCHANGED <<enabled, present, nth>> /\ compose = Composed(On, Gathered(On))
    BY <1>4 DEF B!CleanSections, ComposeInv
  <2>2. \A keys, gone : B!cleanConfig(Valued(keys, B!Null), gone) = Valued(keys, B!Null)
    BY DEF B!cleanConfig, B!Without, Valued
  <2>3. compose' = compose
    <3>1. PICK vols, nets :
            compose' = [compose EXCEPT !.volumes = B!cleanConfig(compose.volumes, vols),
                                       !.networks = B!cleanConfig(compose.networks, nets)]
        BY <1>4 DEF B!CleanSections
    <3>2. /\ compose.volumes = Valued(Volumes(On), B!Null)
          /\ compose.networks = Valued(Networks, B!Null)
        BY <2>1 DEF Composed
    <3>3. compose' = [compose EXCEPT !.volumes = compose.volumes,
                                     !.networks = compose.networks]
        BY <2>2, <3>1, <3>2
    <3> QED BY <2>1, <3>3 DEF Composed
  <2>4. compose' = Composed(On, Gathered(On))'
    BY <2>1, <2>3 DEF On, Composed, Entries, Gathered, Entry, Volumes
  <2> QED BY <1>0, <2>1, <2>4 DEF ComposeInv
<1>5. CASE B!RemoveServices
  <2>1. /\ stage = "services" /\ stage' = "depends"
        /\ UNCHANGED <<enabled, present, nth>> /\ compose = Composed(On, Gathered(On))
    BY <1>5 DEF B!RemoveServices, ComposeInv
  <2>2. B!Without(Entries(On, Gathered(On)), {B!ServiceKey[m] : m \in B!Disabled})
            = Entries(On, Kept)
    BY DEF B!Without, Entries, Kept
  <2>3. compose' = Composed(On, Kept)
    BY <1>5, <2>1, <2>2 DEF B!RemoveServices, Composed
  <2>4. compose' = Composed(On, Kept)'
    BY <2>1, <2>3 DEF On, Kept, B!Disabled, Composed, Entries, Gathered, Entry, Volumes
  <2> QED BY <1>0, <2>1, <2>4 DEF ComposeInv
<1>6. CASE B!Write
  <2>1. /\ stage = "depends" /\ stage' = "written"
        /\ UNCHANGED <<enabled, present, nth>> /\ compose = Composed(On, Kept)
    BY <1>6 DEF B!Write, ComposeInv
  <2>2. \A keys : B!Filled(B!removeEmptyObjects(Valued(keys, B!Null)))
                    = Valued(keys, B!Empty)
    BY DEF B!Filled, B!removeEmptyObjects, B!Without, Valued, B!Null, B!Empty
  <2>3. compose' = [services |-> B!cleanDependsOn(Entries(On, Kept)),
                    networks |-> Valued(Networks, B!Empty),
                    volumes |-> Valued(Volumes(On), B!Empty)]
    BY <1>6, <2>1, <2>2 DEF B!Write, Composed
  <2>4. compose' = [services |-> B!cleanDependsOn(Entries(On, Kept)),
                    networks |-> Valued(Networks, B!Empty),
                    volumes |-> Valued(Volumes(On), B!Empty)]'
    BY <2>1, <2>3
        DEF On, Kept, B!Disabled, Entries, Gathered, Entry, Volumes
  <2> QED BY <1>0, <2>1, <2>4 DEF ComposeInv
<1>7. CASE UNCHANGED B!vars
  <2>1. UNCHANGED <<enabled, present, compose, stage, nth>> BY <1>7 DEF B!vars
  <2>2. On' = On /\ Kept' = Kept /\ Taken(nth - 1)' = Taken(nth - 1)
    BY <2>1 DEF On, Kept, B!Disabled, Taken, Gathered
  <2> QED BY <2>1, <2>2 DEF ComposeInv, Composed, Entries, Entry, Gathered, Volumes
<1> QED BY <1>2, <1>3, <1>4, <1>5, <1>6, <1>7 DEF B!Next

\* Every service of a composition is wired to what the file says or the API waits for.
LEMMA EntryFields ==
    ASSUME NEW A, NEW s
    PROVE /\ Entry(A, s).uses = {"startup-network"}
          /\ Entry(A, s).mounts = B!Service(s).mounts
          /\ s = "startup-api" =>
                Entry(A, s).depends =
                    {"startup-rabbitmq", "startup-db", "startup-redis"}
                        \union (IF "postgresql" \in A THEN {"startup-postgresql"} ELSE {})
BY DEF Entry, B!Service

\* The services that are left are the base's and those of the modules that are on and
\* there, without those of the modules that are off.
LEMMA KeptServices ==
    ASSUME ComposeInv
    PROVE /\ \A m \in B!ModuleNames :
                B!ServiceKey[m] \in Kept <=> m \in enabled /\ m \in present \union {"mongodb"}
          /\ "startup-api" \in Kept
<1> USE SixModules
<1>1. enabled \subseteq B!ModuleNames /\ present \subseteq B!ModuleNames
    BY DEF ComposeInv
<1>2. \A m, n \in B!ModuleNames : B!ServiceKey[m] = B!ServiceKey[n] => m = n
    BY DEF B!ServiceKey
<1>3. \A m, n \in B!ModuleNames : B!ServiceKey[m] \in B!FileServices(n) <=> m = n
    BY <1>2 DEF B!FileServices, B!ServiceKey
<1>4. \A m \in B!ModuleNames : B!ServiceKey[m] \in B!BaseServices <=> m = "mongodb"
    BY DEF B!BaseServices, B!ServiceKey
<1>5. ASSUME NEW m \in B!ModuleNames
      PROVE B!ServiceKey[m] \in Kept <=> m \in enabled /\ m \in present \union {"mongodb"}
  <2>1. B!ServiceKey[m] \in Gathered(On) <=> m = "mongodb" \/ m \in On
    BY <1>1, <1>3, <1>4 DEF Gathered, On
  <2>2. B!ServiceKey[m] \in {B!ServiceKey[n] : n \in B!Disabled} <=> m \notin enabled
    BY <1>2 DEF B!Disabled
  <2> QED BY <2>1, <2>2 DEF Kept, On
<1>6. "startup-api" \in Kept
    BY ApiIsBase DEF Kept, B!Disabled
<1> QED BY <1>5, <1>6

\* What is composed at the end is what was asked for.
LEMMA ComposeInvFits == ComposeInv => ComposeFits
<1> SUFFICES ASSUME ComposeInv PROVE ComposeFits OBVIOUS
<1>1. B!TypeOK
  <2>1. nth \in DOMAIN B!Modules BY SixModules DEF ComposeInv
  <2>2. \A keys : {Valued(keys, B!Null)[k] : k \in DOMAIN Valued(keys, B!Null)} \subseteq {B!Null}
    BY DEF Valued
  <2>3. \A keys : {Valued(keys, B!Empty)[k] : k \in DOMAIN Valued(keys, B!Empty)}
                    \subseteq {B!Empty}
    BY DEF Valued
  <2>4. PICK value \in {B!Null, B!Empty} :
            \E nets, vols : /\ compose.networks = Valued(nets, value)
                           /\ compose.volumes = Valued(vols, value)
    BY DEF ComposeInv, Composed
  <2>5. /\ {compose.networks[k] : k \in DOMAIN compose.networks} \subseteq {B!Null, B!Empty}
        /\ {compose.volumes[k] : k \in DOMAIN compose.volumes} \subseteq {B!Null, B!Empty}
    BY <2>2, <2>3, <2>4
  <2> QED BY <2>1, <2>5 DEF ComposeInv, B!TypeOK
<1> SUFFICES ASSUME stage = "written" PROVE B!NothingDangles /\ B!AsSwitched
    BY <1>1 DEF ComposeFits, B!NothingDangles, B!AsSwitched
<1>2. /\ compose.services = B!cleanDependsOn(Entries(On, Kept))
      /\ DOMAIN compose.networks = Networks /\ DOMAIN compose.volumes = Volumes(On)
    BY DEF ComposeInv, Valued
<1>3. /\ DOMAIN compose.services = Kept
      /\ \A s \in Kept :
            /\ compose.services[s].depends = Entry(On, s).depends \intersect Kept
            /\ compose.services[s].uses = Entry(On, s).uses
            /\ compose.services[s].mounts = Entry(On, s).mounts
  <2>1. ASSUME NEW s PROVE Entry(On, s) = [depends |-> Entry(On, s).depends,
                                           mounts |-> Entry(On, s).mounts,
                                           uses |-> Entry(On, s).uses]
    BY DEF Entry, B!Service
  <2>2. compose.services = [s \in Kept |->
                                [Entry(On, s) EXCEPT !.depends = @ \intersect Kept]]
    BY <1>2 DEF B!cleanDependsOn, Entries
  <2>3. ASSUME NEW s \in Kept
        PROVE /\ compose.services[s].depends = Entry(On, s).depends \intersect Kept
              /\ compose.services[s].uses = Entry(On, s).uses
              /\ compose.services[s].mounts = Entry(On, s).mounts
    <3>1. compose.services[s] = [Entry(On, s) EXCEPT !.depends = @ \intersect Kept]
        BY <2>2
    <3> QED BY <2>1, <3>1
  <2> QED BY <2>2, <2>3
<1>4. B!NothingDangles
  <2>1. ASSUME NEW s \in Kept PROVE Entry(On, s).mounts \subseteq Volumes(On)
    <3>1. B!ServiceKey["rabbitmq"] = "startup-rabbitmq"
          /\ B!ServiceKey["postgresql"] = "startup-postgresql"
        BY DEF B!ServiceKey
    <3>2. "startup-rabbitmq" \in Kept => "rabbitmq" \in On
        BY <3>1, KeptServices, SixModules DEF On
    <3>3. "startup-postgresql" \in Kept => "postgresql" \in On
        BY <3>1, KeptServices, SixModules DEF On
    <3>4. /\ "rabbitmq" \in On => "rabbitmq_data" \in Volumes(On)
          /\ "postgresql" \in On => "postgres_data" \in Volumes(On)
        BY DEF Volumes, B!FileVolumes
    <3>5. B!Service(s).mounts =
            CASE s = "startup-rabbitmq" -> {"rabbitmq_data"}
              [] s = "startup-postgresql" -> {"postgres_data"}
              [] OTHER -> {}
        BY DEF B!Service
    <3> QED BY <2>1, <3>2, <3>3, <3>4, <3>5, EntryFields
  <2> QED BY <1>2, <1>3, <2>1, EntryFields DEF B!NothingDangles, Networks
<1>5. B!AsSwitched
  <2>1. \A m \in B!ModuleNames :
            B!ServiceKey[m] \in DOMAIN compose.services
                <=> m \in enabled /\ m \in present \union {"mongodb"}
    BY <1>3, KeptServices
  <2>2. "postgresql" \notin On => "startup-postgresql" \notin Kept
    BY KeptServices, SixModules DEF On, B!ServiceKey
  <2>3. compose.services["startup-api"].depends = Entry(On, "startup-api").depends \intersect Kept
    BY <1>3, KeptServices
  <2>4. Entry(On, "startup-api").depends =
            {"startup-rabbitmq", "startup-db", "startup-redis"}
                \union (IF "postgresql" \in On THEN {"startup-postgresql"} ELSE {})
    BY EntryFields
  <2>5. compose.services["startup-api"].depends = Kept \intersect
            {"startup-rabbitmq", "startup-db", "startup-redis", "startup-postgresql"}
    BY <2>2, <2>3, <2>4
  <2> QED BY <1>3, <2>1, <2>5 DEF B!AsSwitched
<1> QED BY <1>4, <1>5

\* Whatever modules are switched on, and whichever of their files exist, any number of
\* them missing: the file that is built names nothing it lacks, has the services that were
\* switched on, and the API waits for those it uses of them.
THEOREM ComposeAlwaysFits == B!Spec => []ComposeFits
<1>1. B!Init => ComposeInv
  <2> SUFFICES ASSUME B!Init PROVE ComposeInv OBVIOUS
  <2>1. /\ enabled \subseteq B!ModuleNames /\ present \subseteq B!ModuleNames
        /\ compose = B!Base /\ stage = "modules" /\ nth = 1
    BY DEF B!Init
  <2>2. Gathered({}) = B!BaseServices /\ Volumes({}) = {} BY DEF Gathered, Volumes
  <2>3. \A s : Entry({}, s) = B!Service(s) BY DEF Entry
  <2>4. B!Base = Composed({}, Gathered({}))
    BY <2>2, <2>3 DEF B!Base, Composed, Entries, Valued, Networks
  <2>5. Taken(nth - 1) = {}
    <3>1. nth - 1 = 0 BY <2>1
    <3> QED BY <3>1 DEF Taken
  <2> QED BY <2>1, <2>4, <2>5 DEF ComposeInv
<1>2. ComposeInv /\ [B!Next]_B!vars => ComposeInv' BY ComposeKept
<1> QED BY <1>1, <1>2, ComposeInvFits, PTL DEF B!Spec

-------------------------------------------------------------------------------
(* Accounts *)

\* The types; every execution has made finitely many accounts.
AccountsTyped == TypeOK /\ IsFiniteSet(DOMAIN users)

\* What a request is about where it is, and the account it is about to write to.
PlacesInv ==
    \A r \in Requests :
        /\ pc[r] = "write" => kind[r] \in {"unsubscribe", "activate", "deactivate"}
        /\ pc[r] \in {"sync", "granted"} => kind[r] \in OAuth
        /\ pc[r] \in {"look", "create"} => kind[r] \in {"signup", "apple", "google"}
        /\ pc[r] = "done" => kind[r] \notin OAuth
        /\ pc[r] \in {"write", "granted"} => found[r] \in DOMAIN users
        /\ pc[r] = "write" => Equals(adapter, email[r], users[found[r]].email)

\* Whoever is about to create an account either is the first, or raced with the other.
CreateInv ==
    \A r \in Requests, u \in DOMAIN users :
        pc[r] = "create" /\ adapter # "prisma" /\ users[u].email = Address(r) =>
            Address(r) \in raced

\* The accounts of the address that were there when a login with Google began have no
\* password: the one that was read has none, and an address without a race has one only.
SyncInv ==
    \A r \in Requests, u \in DOMAIN users :
        /\ pc[r] = "sync" /\ kind[r] = "google" /\ Exact(r) /\ email[r] \notin raced
        /\ u \in since[r] /\ users[u].email = email[r]
        => users[u].authFlow # "Basic"

\* The inductive invariant: these and the properties themselves.
AccountsInv ==
    /\ AccountsTyped /\ PlacesInv /\ CreateInv /\ SyncInv
    /\ OneAccountAnAddress /\ BasicIsLower
    /\ GrantedIsOwn /\ PasswordAccountsApart /\ RefusalHasReason
    /\ UnsubscribeIsExact /\ PremiumIsManual

\* updateBy of an unsubscription writes that one field.
LEMMA WrittenUnsubscribed ==
    ASSUME NEW record \in Records
    PROVE Written(record, [unsubscribed |-> TRUE]) = [record EXCEPT !.unsubscribed = TRUE]
<1> DEFINE changes == [unsubscribed |-> TRUE]
           fields == {"email", "authFlow", "unsubscribed", "accountType", "manual"}
<1>1. DOMAIN changes = {"unsubscribed"} /\ changes["unsubscribed"] = TRUE OBVIOUS
<1>2. record = [f \in fields |-> record[f]] BY DEF Records
<1> HIDE DEF changes
<1>3. Written(record, changes)
        = [f \in fields |-> IF f = "unsubscribed" THEN TRUE ELSE record[f]]
    BY <1>1, <1>2 DEF Written
<1>4. [record EXCEPT !.unsubscribed = TRUE]
        = [f \in fields |-> IF f = "unsubscribed" THEN TRUE ELSE record[f]]
    BY <1>2
<1> QED BY <1>3, <1>4 DEF changes

\* updateById of a premium account writes those two.
LEMMA WrittenPremium ==
    ASSUME NEW record \in Records, NEW changes \in [accountType : AccountTypes, manual : BOOLEAN]
    PROVE /\ Written(record, changes) \in Records
          /\ Written(record, changes).email = record.email
          /\ Written(record, changes).authFlow = record.authFlow
          /\ Written(record, changes).unsubscribed = record.unsubscribed
          /\ Written(record, changes).accountType = changes.accountType
          /\ Written(record, changes).manual = changes.manual
<1> DEFINE fields == {"email", "authFlow", "unsubscribed", "accountType", "manual"}
           written == [f \in fields |-> IF f = "accountType" THEN changes.accountType
                                        ELSE IF f = "manual" THEN changes.manual
                                        ELSE record[f]]
<1>1. DOMAIN record = fields /\ DOMAIN changes = {"accountType", "manual"} BY DEF Records
<1>2. Written(record, changes) = written BY <1>1 DEF Written
<1>3. /\ written.email = record.email /\ written.authFlow = record.authFlow
      /\ written.unsubscribed = record.unsubscribed
      /\ written.accountType = changes.accountType /\ written.manual = changes.manual
    OBVIOUS
<1>4. written = [email |-> record.email, authFlow |-> record.authFlow,
                 unsubscribed |-> record.unsubscribed,
                 accountType |-> changes.accountType, manual |-> changes.manual]
    OBVIOUS
<1>5. written \in Records BY <1>4 DEF Records
<1> HIDE DEF written
<1> QED BY <1>2, <1>3, <1>5

\* Matching on a query with one key, which every adapter evaluates alike.
LEMMA MatchingOne ==
    ASSUME AccountsTyped, NEW e
    PROVE Matching(adapter, users, <<By("email", e)>>)
            = {u \in DOMAIN users : Equals(adapter, e, users[u].email)}
<1>1. Conditions(adapter, <<By("email", e)>>) = {By("email", e)} BY DEF Conditions
<1>2. By("email", e).key = "email" /\ By("email", e).value = e BY DEF By
<1>3. \A u \in DOMAIN users : "email" \in DOMAIN users[u] /\ users[u]["email"] = users[u].email
    BY DEF AccountsTyped, TypeOK, Records
<1> QED BY <1>1, <1>2, <1>3 DEF Matching

\* Mongoose and Prisma evaluate both keys of a query.
LEMMA MatchingBoth ==
    ASSUME AccountsTyped, NEW f, NEW e, adapter # "firebase"
    PROVE Matching(adapter, users, <<By("authFlow", f), By("email", e)>>)
            = {u \in DOMAIN users : /\ Equals(adapter, f, users[u].authFlow)
                                    /\ Equals(adapter, e, users[u].email)}
<1>1. Conditions(adapter, <<By("authFlow", f), By("email", e)>>)
        = {By("authFlow", f), By("email", e)}
    BY DEF Conditions
<1>2. /\ By("email", e).key = "email" /\ By("email", e).value = e
      /\ By("authFlow", f).key = "authFlow" /\ By("authFlow", f).value = f
    BY DEF By
<1>3. \A u \in DOMAIN users :
        /\ "email" \in DOMAIN users[u] /\ users[u]["email"] = users[u].email
        /\ "authFlow" \in DOMAIN users[u] /\ users[u]["authFlow"] = users[u].authFlow
    BY DEF AccountsTyped, TypeOK, Records
<1> QED BY <1>1, <1>2, <1>3 DEF Matching

\* An exact request finds its address only.
LEMMA ExactEquals ==
    ASSUME NEW r \in Requests, Exact(r), NEW v
    PROVE /\ Equals(adapter, email[r], v) <=> v = email[r]
          /\ Equals(adapter, Lower[email[r]], v) <=> v = Lower[email[r]]
BY DEF Equals, Exact

\* What Look finds, and where it goes.
LEMMA LookFinds ==
    ASSUME AccountsTyped, NEW r \in Requests, NEW query, NEW turnedAway, NEW hit, NEW miss,
           Look(r, query, turnedAway, hit, miss)
    PROVE \E x \in DOMAIN users \union {None} :
            /\ found' = [found EXCEPT ![r] = x]
            /\ \/ /\ x = None /\ Matching(adapter, users, query) = {}
                  /\ pc' = [pc EXCEPT ![r] = miss]
               \/ /\ x \in DOMAIN users /\ x \in Matching(adapter, users, query)
                  /\ x \in turnedAway /\ pc' = [pc EXCEPT ![r] = "refused"]
               \/ /\ x \in DOMAIN users /\ x \in Matching(adapter, users, query)
                  /\ x \notin turnedAway /\ pc' = [pc EXCEPT ![r] = hit]
<1>1. PICK x \in FindBy(adapter, users, query) :
        /\ found' = [found EXCEPT ![r] = x]
        /\ pc' = [pc EXCEPT ![r] = IF x = None THEN miss
                                   ELSE IF x \in turnedAway THEN "refused" ELSE hit]
    BY DEF Look, Goto
<1>2. \A n \in DOMAIN users : n # None
  <2>1. DOMAIN users \subseteq 1..Cardinality(DOMAIN users)
    BY DEF AccountsTyped, TypeOK
  <2> QED BY <2>1 DEF None
<1>3. Matching(adapter, users, query) \subseteq DOMAIN users BY DEF Matching
<1>4. CASE Matching(adapter, users, query) = {}
  <2>1. x = None BY <1>1, <1>4 DEF FindBy
  <2> QED BY <1>1, <1>4, <2>1
<1>5. CASE Matching(adapter, users, query) # {}
  <2>1. x \in Matching(adapter, users, query) BY <1>1, <1>5 DEF FindBy
  <2> QED BY <1>1, <1>2, <1>3, <2>1
<1> QED BY <1>4, <1>5

\* A request begins: what it read, and where it goes.
LEMMA StartOf ==
    ASSUME AccountsTyped, NEW r \in Requests, Start(r)
    PROVE \E e \in Emails, k \in Kinds, x \in DOMAIN users \union {None}, l \in Positions :
            /\ pc[r] = "idle" /\ UNCHANGED <<adapter, users, raced>>
            /\ pc' = [pc EXCEPT ![r] = l] /\ kind' = [kind EXCEPT ![r] = k]
            /\ email' = [email EXCEPT ![r] = e] /\ found' = [found EXCEPT ![r] = x]
            /\ since' = [since EXCEPT ![r] = DOMAIN users]
            /\ l \in {"refused", "look", "sync", "write"}
            /\ l = "look" => k = "signup"
            /\ l = "sync" => k \in OAuth
            /\ l = "write" => /\ k \in {"unsubscribe", "activate", "deactivate"}
                              /\ x \in DOMAIN users /\ Equals(adapter, e, users[x].email)
            /\ l = "refused" /\ k = "signup" =>
                \E u \in DOMAIN users : Equals(adapter, Lower[e], users[u].email)
            /\ l = "sync" /\ k = "google" =>
                \/ \A u \in DOMAIN users : ~Equals(adapter, e, users[u].email)
                \/ /\ x \in DOMAIN users /\ Equals(adapter, e, users[x].email)
                   /\ users[x].authFlow # "Basic"
<1> USE DEF Positions, Kinds, OAuth
<1>1. PICK e \in Emails :
        \/ SignUp(r, e) \/ AppleOAuth(r, e) \/ GoogleOAuth(r, e)
        \/ GoogleRefuses(r, e) \/ Unsubscribe(r, e)
        \/ Premium(r, "activate", e) \/ Premium(r, "deactivate", e)
    BY DEF Start, googleOAuthRedirect
<1>2. CASE SignUp(r, e)
  <2>1. found' = [found EXCEPT ![r] = found[r]] /\ found[r] \in DOMAIN users \union {None}
    BY <1>2 DEF SignUp, AccountsTyped, TypeOK
  <2>2. CASE Exists(adapter, users, <<By("email", Lower[e])>>)
    <3>1. pc' = [pc EXCEPT ![r] = "refused"] BY <1>2, <2>2 DEF SignUp, Goto
    <3>2. \E u \in DOMAIN users : Equals(adapter, Lower[e], users[u].email)
      BY <2>2, MatchingOne DEF Exists
    <3> QED BY <1>2, <2>1, <3>1, <3>2 DEF SignUp, Begins
  <2>3. CASE ~Exists(adapter, users, <<By("email", Lower[e])>>)
    <3>1. pc' = [pc EXCEPT ![r] = "look"] BY <1>2, <2>3 DEF SignUp, Goto
    <3> QED BY <1>2, <2>1, <3>1 DEF SignUp, Begins
  <2> QED BY <2>2, <2>3
<1>3. CASE AppleOAuth(r, e)
  <2>1. Begins(r, "apple", e)
        /\ \E x \in DOMAIN users \union {None} :
            /\ found' = [found EXCEPT ![r] = x]
            /\ \E l \in {"refused", "sync"} : pc' = [pc EXCEPT ![r] = l]
    BY <1>3, LookFinds DEF AppleOAuth
  <2> QED BY <2>1 DEF Begins
<1>4. CASE GoogleOAuth(r, e)
  <2>1. Begins(r, "google", e) BY <1>4 DEF GoogleOAuth
  <2>2. \E x \in DOMAIN users \union {None} :
            /\ found' = [found EXCEPT ![r] = x]
            /\ \/ /\ \A u \in DOMAIN users : ~Equals(adapter, e, users[u].email)
                  /\ pc' = [pc EXCEPT ![r] = "sync"]
               \/ pc' = [pc EXCEPT ![r] = "refused"]
               \/ /\ x \in DOMAIN users /\ Equals(adapter, e, users[x].email)
                  /\ users[x].authFlow # "Basic" /\ pc' = [pc EXCEPT ![r] = "sync"]
    <3>1. Look(r, <<By("email", e)>>, {u \in DOMAIN users : users[u].authFlow = "Basic"},
               "sync", "sync")
      BY <1>4 DEF GoogleOAuth
    <3> HIDE DEF Positions, Kinds, OAuth
    <3> QED BY <3>1, LookFinds, MatchingOne
  <2> QED BY <2>1, <2>2 DEF Begins
<1>5. CASE GoogleRefuses(r, e)
  <2>1. found' = [found EXCEPT ![r] = found[r]] /\ found[r] \in DOMAIN users \union {None}
    BY <1>5 DEF GoogleRefuses, AccountsTyped, TypeOK
  <2> QED BY <1>5, <2>1 DEF GoogleRefuses, Begins, Goto
<1>6. ASSUME NEW k \in {"unsubscribe", "activate", "deactivate"}, Begins(r, k, e),
             NEW turnedAway, Look(r, <<By("email", e)>>, turnedAway, "write", "refused")
      PROVE \E x \in DOMAIN users \union {None}, l \in {"write", "refused"} :
              /\ found' = [found EXCEPT ![r] = x] /\ pc' = [pc EXCEPT ![r] = l]
              /\ l = "write" => x \in DOMAIN users /\ Equals(adapter, e, users[x].email)
  BY <1>6, LookFinds, MatchingOne
<1>7. CASE Unsubscribe(r, e) BY <1>6, <1>7 DEF Unsubscribe, Begins
<1>8. ASSUME NEW k \in {"activate", "deactivate"}, Premium(r, k, e)
      PROVE \E x \in DOMAIN users \union {None}, l \in {"write", "refused"} :
              /\ Begins(r, k, e)
              /\ found' = [found EXCEPT ![r] = x] /\ pc' = [pc EXCEPT ![r] = l]
              /\ l = "write" => x \in DOMAIN users /\ Equals(adapter, e, users[x].email)
  BY <1>6, <1>8 DEF Premium
<1>9. CASE Premium(r, "activate", e) BY <1>8, <1>9 DEF Begins
<1>10. CASE Premium(r, "deactivate", e) BY <1>8, <1>10 DEF Begins
<1> QED BY <1>1, <1>2, <1>3, <1>4, <1>5, <1>7, <1>9, <1>10

\* A login reads a second time: an exact one finds its address, and with Apple its flow.
LEMMA SyncOf ==
    ASSUME AccountsTyped, PlacesInv, NEW r \in Requests, Sync(r)
    PROVE \E x \in DOMAIN users \union {None}, l \in {"granted", "look"} :
            /\ pc[r] = "sync" /\ kind[r] \in OAuth
            /\ UNCHANGED <<adapter, users, kind, email, since, raced>>
            /\ pc' = [pc EXCEPT ![r] = l] /\ found' = [found EXCEPT ![r] = x]
            /\ l = "granted" =>
                /\ x \in DOMAIN users
                /\ Exact(r) => /\ users[x].email = email[r]
                               /\ kind[r] = "apple" => users[x].authFlow = "AppleOAuth"
<1>1. /\ pc[r] = "sync" /\ kind[r] \in OAuth
      /\ UNCHANGED <<adapter, users, kind, email, since, raced>>
    BY DEF Sync, PlacesInv
<1>2. CASE kind[r] = "apple"
  <2> DEFINE query == <<By("authFlow", "AppleOAuth"), By("email", email[r])>>
  <2>1. Look(r, query, {}, "granted", "look") BY <1>2 DEF Sync
  <2>2. ASSUME Exact(r), NEW x \in Matching(adapter, users, query)
        PROVE users[x].email = email[r] /\ users[x].authFlow = "AppleOAuth"
    <3>1. adapter # "firebase" BY <1>2, <2>2 DEF Exact
    <3>2. Equals(adapter, "AppleOAuth", users[x].authFlow)
          /\ Equals(adapter, email[r], users[x].email)
      BY <2>2, <3>1, MatchingBoth
    <3>3. "AppleOAuth" \notin DOMAIN Containing BY AccountsAssumption DEF Flows
    <3>4. users[x].authFlow = "AppleOAuth" BY <3>2, <3>3 DEF Equals
    <3> QED BY <2>2, <3>2, <3>4, ExactEquals
  <2> HIDE DEF query
  <2> QED BY <1>1, <2>1, <2>2, LookFinds
<1>3. CASE kind[r] # "apple"
  <2> DEFINE query == <<By("email", email[r])>>
  <2>1. Look(r, query, {}, "granted", "look") BY <1>3 DEF Sync
  <2>2. ASSUME Exact(r), NEW x \in Matching(adapter, users, query)
        PROVE users[x].email = email[r]
    <3>1. Equals(adapter, email[r], users[x].email) BY <2>2, MatchingOne
    <3> QED BY <2>2, <3>1, ExactEquals
  <2> HIDE DEF query
  <2> QED BY <1>1, <1>3, <2>1, <2>2, LookFinds
<1> QED BY <1>2, <1>3

\* BaseRepository.create goes on only when it found no account of the address.
LEMMA CreateLooksOf ==
    ASSUME AccountsTyped, PlacesInv, NEW r \in Requests, CreateLooks(r)
    PROVE \E x \in DOMAIN users \union {None}, l \in {"refused", "create"} :
            /\ pc[r] = "look" /\ kind[r] \in {"signup", "apple", "google"}
            /\ UNCHANGED <<adapter, users, kind, email, since, raced>>
            /\ pc' = [pc EXCEPT ![r] = l] /\ found' = [found EXCEPT ![r] = x]
            /\ l = "refused" => \E u \in DOMAIN users :
                                    Equals(adapter, Address(r), users[u].email)
            /\ l = "create" => \A u \in DOMAIN users : users[u].email # Address(r)
<1>1. /\ pc[r] = "look" /\ kind[r] \in {"signup", "apple", "google"}
      /\ UNCHANGED <<adapter, users, kind, email, since, raced>>
      /\ Look(r, <<By("email", Address(r))>>, {}, "refused", "create")
    BY DEF CreateLooks, PlacesInv
<1>2. \A u : users[u].email = Address(r) => Equals(adapter, Address(r), users[u].email)
    BY DEF Equals
<1> QED BY <1>1, <1>2, LookFinds, MatchingOne

\* A created account is a new one, numbered after the others, and the requests about to
\* create the same are noted; it is refused only by the index of Prisma.
LEMMA CreateOf ==
    ASSUME AccountsTyped, PlacesInv, NEW r \in Requests, Create(r)
    PROVE /\ pc[r] = "create" /\ kind[r] \in {"signup", "apple", "google"}
          /\ UNCHANGED <<adapter, kind, email, since>>
          /\ raced \subseteq raced' /\ raced' \subseteq Emails
          /\ \A q \in Requests : q # r /\ pc[q] = "create" /\ Address(q) = Address(r) =>
                Address(q) \in raced'
          /\ \/ /\ adapter = "prisma" /\ \E u \in DOMAIN users : users[u].email = Address(r)
                /\ UNCHANGED <<users, found>> /\ pc' = [pc EXCEPT ![r] = "refused"]
             \/ \E id :
                /\ id \notin DOMAIN users /\ DOMAIN users' = DOMAIN users \union {id}
                /\ \A u \in DOMAIN users : users'[u] = users[u]
                /\ users'[id] = NewUser(Address(r), AuthFlow(r))
                /\ found' = [found EXCEPT ![r] = id]
                /\ pc' = [pc EXCEPT ![r] = IF kind[r] \in OAuth THEN "granted" ELSE "done"]
                /\ adapter = "prisma" => \A u \in DOMAIN users : users[u].email # Address(r)
                /\ IsFiniteSet(DOMAIN users')
                /\ DOMAIN users' \subseteq 1..Cardinality(DOMAIN users')
<1> DEFINE new == NewUser(Address(r), AuthFlow(r))
           id == Cardinality(DOMAIN users) + 1
<1>1. /\ pc[r] = "create" /\ kind[r] \in {"signup", "apple", "google"}
      /\ UNCHANGED <<adapter, kind, email, since>>
    BY DEF Create, PlacesInv
<1>2. \A q \in Requests : Address(q) \in Emails
    BY AccountsAssumption DEF Address, AccountsTyped, TypeOK
<1>3. /\ raced \subseteq raced' /\ raced' \subseteq Emails
      /\ \A q \in Requests : q # r /\ pc[q] = "create" /\ Address(q) = Address(r) =>
            Address(q) \in raced'
  <2>1. raced' = raced \union {Address(q) : q \in {p \in Requests \ {r} :
                                    pc[p] = "create" /\ Address(p) = Address(r)}}
    BY DEF Create
  <2>2. raced \subseteq Emails BY DEF AccountsTyped, TypeOK
  <2> QED BY <1>2, <2>1, <2>2
<1>4. new.email = Address(r) BY DEF NewUser
<1>5. CASE Creatable(adapter, users, new, "email")
  <2>1. /\ users' = Insert(users, id, new) /\ found' = [found EXCEPT ![r] = id]
        /\ pc' = [pc EXCEPT ![r] = IF kind[r] \in OAuth THEN "granted" ELSE "done"]
    BY <1>5 DEF Create, Goto
  <2>2. /\ IsFiniteSet(DOMAIN users) /\ Cardinality(DOMAIN users) \in Nat
        /\ DOMAIN users \subseteq 1..Cardinality(DOMAIN users)
    BY FS_CardinalityType DEF AccountsTyped, TypeOK
  <2>3. id \notin DOMAIN users BY <2>2
  <2> HIDE DEF new, id
  <2>4. /\ DOMAIN users' = DOMAIN users \union {id} /\ users'[id] = new
        /\ \A u \in DOMAIN users : users'[u] = users[u]
    BY <2>1, <2>3 DEF Insert
  <2>5. IsFiniteSet(DOMAIN users') /\ Cardinality(DOMAIN users') = id
    BY <2>2, <2>3, <2>4, FS_AddElement DEF id
  <2>6. DOMAIN users' \subseteq 1..Cardinality(DOMAIN users')
    BY <2>2, <2>4, <2>5 DEF id
  <2>7. adapter = "prisma" => \A u \in DOMAIN users : users[u].email # Address(r)
    <3>1. \A u \in DOMAIN users : users[u]["email"] = users[u].email
      BY DEF AccountsTyped, TypeOK, Records
    <3>2. new["email"] = new.email BY DEF new, NewUser
    <3> QED BY <1>4, <1>5, <3>1, <3>2 DEF Creatable
  <2> QED BY <1>1, <1>3, <2>1, <2>3, <2>4, <2>5, <2>6, <2>7 DEF new
<1>6. CASE ~Creatable(adapter, users, new, "email")
  <2>1. UNCHANGED <<users, found>> /\ pc' = [pc EXCEPT ![r] = "refused"]
    BY <1>6 DEF Create, Goto
  <2>2. adapter = "prisma" /\ \E u \in DOMAIN users : users[u].email = Address(r)
    <3>1. \A u \in DOMAIN users : users[u]["email"] = users[u].email
      BY DEF AccountsTyped, TypeOK, Records
    <3>2. new["email"] = new.email BY DEF NewUser
    <3> QED BY <1>4, <1>6, <3>1, <3>2 DEF Creatable
  <2> QED BY <1>1, <1>3, <2>1, <2>2
<1> QED BY <1>5, <1>6

\* updateBy marks at least one account of the address that was asked for.
LEMMA UnsubscribedOf ==
    ASSUME AccountsTyped, PlacesInv, NEW r \in Requests, UpdateUnsubscribed(r)
    PROVE /\ pc[r] = "write" /\ kind[r] = "unsubscribe" /\ pc' = [pc EXCEPT ![r] = "done"]
          /\ UNCHANGED <<adapter, kind, email, found, since, raced>>
          /\ DOMAIN users' = DOMAIN users
          /\ \E ids \in SUBSET DOMAIN users :
                /\ ids # {}
                /\ \A u \in ids : Equals(adapter, email[r], users[u].email)
                /\ \A u \in DOMAIN users : users'[u] =
                    IF u \in ids THEN [users[u] EXCEPT !.unsubscribed = TRUE] ELSE users[u]
<1>1. /\ pc[r] = "write" /\ kind[r] = "unsubscribe" /\ pc' = [pc EXCEPT ![r] = "done"]
      /\ UNCHANGED <<adapter, kind, email, found, since, raced>>
      /\ users' \in UpdateBy(adapter, users, <<By("email", email[r])>>, [unsubscribed |-> TRUE])
    BY DEF UpdateUnsubscribed, Goto
<1> DEFINE matches == Matching(adapter, users, <<By("email", email[r])>>)
<1>2. matches = {u \in DOMAIN users : Equals(adapter, email[r], users[u].email)}
    BY MatchingOne
<1>3. found[r] \in matches BY <1>1, <1>2 DEF PlacesInv
<1> HIDE DEF matches
<1>4. PICK ids \in SUBSET matches :
        ids # {} /\ users' = Change(users, ids, [unsubscribed |-> TRUE])
  <2>1. users' \in UpdateBy(adapter, users, <<By("email", email[r])>>, [unsubscribed |-> TRUE])
    BY <1>1
  <2> QED BY <1>3, <2>1 DEF UpdateBy, matches
<1>5. \A u \in DOMAIN users : users'[u] =
        IF u \in ids THEN [users[u] EXCEPT !.unsubscribed = TRUE] ELSE users[u]
  <2>1. \A u \in DOMAIN users : users[u] \in Records BY DEF AccountsTyped, TypeOK
  <2> QED BY <1>4, <2>1, WrittenUnsubscribed DEF Change
<1>6. DOMAIN users' = DOMAIN users BY <1>4 DEF Change
<1> QED BY <1>1, <1>2, <1>4, <1>5, <1>6

\* updateById writes both fields of the account that was found.
LEMMA PremiumOf ==
    ASSUME AccountsTyped, PlacesInv, NEW r \in Requests, UpdatePremium(r)
    PROVE /\ pc[r] = "write" /\ kind[r] \in {"activate", "deactivate"}
          /\ pc' = [pc EXCEPT ![r] = "done"]
          /\ UNCHANGED <<adapter, kind, email, found, since, raced>>
          /\ DOMAIN users' = DOMAIN users
          /\ \E changes \in [accountType : AccountTypes, manual : BOOLEAN] :
                /\ changes.accountType # "free" => changes.manual
                /\ \A u \in DOMAIN users : users'[u] =
                    IF u = found[r] THEN Written(users[u], changes) ELSE users[u]
<1>1. /\ pc[r] = "write" /\ kind[r] \in {"activate", "deactivate"}
      /\ pc' = [pc EXCEPT ![r] = "done"]
      /\ UNCHANGED <<adapter, kind, email, found, since, raced>>
    BY DEF UpdatePremium, Goto
<1>2. PICK changes \in [accountType : AccountTypes, manual : BOOLEAN] :
        /\ changes.accountType # "free" => changes.manual
        /\ users' = UpdateById(adapter, users, found[r], changes)
  <2>1. PICK type \in IF kind[r] = "activate" THEN AccountTypes ELSE {"free"} :
            users' = UpdateById(adapter, users, found[r],
                        [accountType |-> type, manual |-> kind[r] = "activate"])
    BY DEF UpdatePremium
  <2>2. type \in AccountTypes /\ (type # "free" => kind[r] = "activate")
    BY <2>1 DEF AccountTypes
  <2> DEFINE changes == [accountType |-> type, manual |-> kind[r] = "activate"]
  <2>3. /\ changes \in [accountType : AccountTypes, manual : BOOLEAN]
        /\ changes.accountType # "free" => changes.manual
    BY <2>2
  <2>4. users' = UpdateById(adapter, users, found[r], changes) BY <2>1
  <2> HIDE DEF changes
  <2> QED BY <2>3, <2>4
<1>3. found[r] \in DOMAIN users BY <1>1 DEF PlacesInv
<1>4. users' = Change(users, {found[r]}, changes) BY <1>2, <1>3 DEF UpdateById
<1> QED BY <1>1, <1>2, <1>4 DEF Change

\* A step of one request.
StepOf(r) ==
    \/ Start(r) \/ AppleRefuses(r) \/ Sync(r) \/ CreateLooks(r) \/ Create(r)
    \/ UpdateUnsubscribed(r) \/ UpdatePremium(r)

\* The other requests stay where they are.
LEMMA OthersStay ==
    ASSUME AccountsTyped, PlacesInv, NEW r \in Requests, StepOf(r), NEW q \in Requests, q # r
    PROVE /\ pc'[q] = pc[q] /\ kind'[q] = kind[q] /\ email'[q] = email[q]
          /\ found'[q] = found[q] /\ since'[q] = since[q]
<1>1. /\ pc \in [Requests -> Positions] /\ kind \in [Requests -> Kinds]
      /\ email \in [Requests -> Emails]
      /\ found \in [Requests -> DOMAIN users \union {None}]
      /\ since \in [Requests -> SUBSET DOMAIN users]
    BY DEF AccountsTyped, TypeOK
<1>2. CASE Start(r) BY <1>1, <1>2, StartOf
<1>3. CASE AppleRefuses(r) BY <1>1, <1>3 DEF AppleRefuses, Goto
<1>4. CASE Sync(r) BY <1>1, <1>4, SyncOf
<1>5. CASE CreateLooks(r) BY <1>1, <1>5, CreateLooksOf
<1>6. CASE Create(r)
  <2>1. UNCHANGED <<kind, email, since>> BY <1>6, CreateOf
  <2>2. CASE UNCHANGED found /\ pc' = [pc EXCEPT ![r] = "refused"] BY <1>1, <2>1, <2>2
  <2>3. CASE ~(UNCHANGED found /\ pc' = [pc EXCEPT ![r] = "refused"])
    <3>1. PICK id : /\ found' = [found EXCEPT ![r] = id]
                    /\ pc' = [pc EXCEPT ![r] = IF kind[r] \in OAuth THEN "granted"
                                               ELSE "done"]
      BY <1>6, <2>3, CreateOf
    <3> QED BY <1>1, <2>1, <3>1
  <2> QED BY <2>2, <2>3
<1>7. CASE UpdateUnsubscribed(r) BY <1>1, <1>7, UnsubscribedOf
<1>8. CASE UpdatePremium(r) BY <1>1, <1>8, PremiumOf
<1> QED BY <1>2, <1>3, <1>4, <1>5, <1>6, <1>7, <1>8 DEF StepOf

\* No account goes, nor changes its address or its flow, nor is subscribed again.
LEMMA UsersGrow ==
    ASSUME AccountsTyped, PlacesInv, NEW r \in Requests, StepOf(r)
    PROVE /\ adapter' = adapter /\ raced \subseteq raced' /\ raced' \subseteq Emails
          /\ DOMAIN users \subseteq DOMAIN users'
          /\ IsFiniteSet(DOMAIN users')
          /\ DOMAIN users' \subseteq 1..Cardinality(DOMAIN users')
          /\ \A u \in DOMAIN users' : users'[u] \in Records
          /\ \A u \in DOMAIN users :
                /\ users'[u].email = users[u].email /\ users'[u].authFlow = users[u].authFlow
                /\ users[u].unsubscribed => users'[u].unsubscribed
<1>1. /\ raced \subseteq Emails /\ IsFiniteSet(DOMAIN users)
      /\ DOMAIN users \subseteq 1..Cardinality(DOMAIN users)
      /\ \A u \in DOMAIN users : users[u] \in Records
    BY DEF AccountsTyped, TypeOK
<1>2. CASE UNCHANGED <<adapter, users, raced>> BY <1>1, <1>2
<1>3. CASE Start(r) BY <1>2, <1>3, StartOf
<1>4. CASE AppleRefuses(r) BY <1>2, <1>4 DEF AppleRefuses
<1>5. CASE Sync(r) BY <1>2, <1>5, SyncOf
<1>6. CASE CreateLooks(r) BY <1>2, <1>6, CreateLooksOf
<1>7. CASE Create(r)
  <2>1. adapter' = adapter /\ raced \subseteq raced' /\ raced' \subseteq Emails
    BY <1>7, CreateOf
  <2>2. CASE users' = users BY <1>1, <2>1, <2>2
  <2>3. CASE users' # users
    <3>1. PICK id :
            /\ DOMAIN users' = DOMAIN users \union {id}
            /\ \A u \in DOMAIN users : users'[u] = users[u]
            /\ users'[id] = NewUser(Address(r), AuthFlow(r))
            /\ IsFiniteSet(DOMAIN users')
            /\ DOMAIN users' \subseteq 1..Cardinality(DOMAIN users')
      BY <1>7, <2>3, CreateOf
    <3>2. NewUser(Address(r), AuthFlow(r)) \in Records
      <4>1. Address(r) \in Emails
        BY AccountsAssumption DEF Address, AccountsTyped, TypeOK
      <4>2. AuthFlow(r) \in Flows BY DEF AuthFlow, Flows
      <4> QED BY <4>1, <4>2 DEF NewUser, Records, AccountTypes
    <3> QED BY <1>1, <2>1, <3>1, <3>2
  <2> QED BY <2>2, <2>3
<1>8. CASE UpdateUnsubscribed(r)
  <2>1. /\ UNCHANGED <<adapter, raced>> /\ DOMAIN users' = DOMAIN users
        /\ \A u \in DOMAIN users :
            users'[u] \in {users[u], [users[u] EXCEPT !.unsubscribed = TRUE]}
    BY <1>8, UnsubscribedOf
  <2>2. ASSUME NEW record \in Records
        PROVE /\ [record EXCEPT !.unsubscribed = TRUE] \in Records
              /\ [record EXCEPT !.unsubscribed = TRUE].email = record.email
              /\ [record EXCEPT !.unsubscribed = TRUE].authFlow = record.authFlow
              /\ [record EXCEPT !.unsubscribed = TRUE].unsubscribed
    BY DEF Records
  <2> QED BY <1>1, <2>1, <2>2
<1>9. CASE UpdatePremium(r)
  <2>1. UNCHANGED <<adapter, raced>> /\ DOMAIN users' = DOMAIN users
    BY <1>9, PremiumOf
  <2>2. PICK changes \in [accountType : AccountTypes, manual : BOOLEAN] :
            \A u \in DOMAIN users : users'[u] =
                IF u = found[r] THEN Written(users[u], changes) ELSE users[u]
    BY <1>9, PremiumOf
  <2>3. \A u \in DOMAIN users :
            /\ users'[u] \in Records
            /\ users'[u].email = users[u].email /\ users'[u].authFlow = users[u].authFlow
            /\ users'[u].unsubscribed = users[u].unsubscribed
    BY <1>1, <2>2, WrittenPremium
  <2> QED BY <1>1, <2>1, <2>3
<1> QED BY <1>3, <1>4, <1>5, <1>6, <1>7, <1>8, <1>9 DEF StepOf

\* The types hold over every step.
LEMMA AccountsTypedKept ==
    ASSUME AccountsTyped, PlacesInv, NEW r \in Requests, StepOf(r)
    PROVE AccountsTyped'
<1>1. /\ pc \in [Requests -> Positions] /\ kind \in [Requests -> Kinds]
      /\ email \in [Requests -> Emails] /\ adapter \in Adapters
      /\ found \in [Requests -> DOMAIN users \union {None}]
      /\ since \in [Requests -> SUBSET DOMAIN users]
    BY DEF AccountsTyped, TypeOK
<1>2. DOMAIN users \subseteq DOMAIN users' BY UsersGrow
<1>3. {"refused", "look", "granted", "create", "done"} \subseteq Positions BY DEF Positions
<1>4. /\ pc' \in [Requests -> Positions] /\ kind' \in [Requests -> Kinds]
      /\ email' \in [Requests -> Emails]
      /\ found' \in [Requests -> DOMAIN users' \union {None}]
      /\ since' \in [Requests -> SUBSET DOMAIN users']
  <2>1. CASE Start(r)
    <3>1. PICK e \in Emails, k \in Kinds, x \in DOMAIN users \union {None}, l \in Positions :
            /\ UNCHANGED users
            /\ pc' = [pc EXCEPT ![r] = l] /\ kind' = [kind EXCEPT ![r] = k]
            /\ email' = [email EXCEPT ![r] = e] /\ found' = [found EXCEPT ![r] = x]
            /\ since' = [since EXCEPT ![r] = DOMAIN users]
      BY <2>1, StartOf
    <3> QED BY <1>1, <3>1
  <2>2. CASE AppleRefuses(r) BY <1>1, <1>3, <2>2 DEF AppleRefuses, Goto
  <2>3. CASE Sync(r)
    <3>1. PICK x \in DOMAIN users \union {None}, l \in {"granted", "look"} :
            /\ UNCHANGED <<users, kind, email, since>>
            /\ pc' = [pc EXCEPT ![r] = l] /\ found' = [found EXCEPT ![r] = x]
      BY <2>3, SyncOf
    <3> QED BY <1>1, <1>3, <3>1
  <2>4. CASE CreateLooks(r)
    <3>1. PICK x \in DOMAIN users \union {None}, l \in {"refused", "create"} :
            /\ UNCHANGED <<users, kind, email, since>>
            /\ pc' = [pc EXCEPT ![r] = l] /\ found' = [found EXCEPT ![r] = x]
      BY <2>4, CreateLooksOf
    <3> QED BY <1>1, <1>3, <3>1
  <2>5. CASE Create(r)
    <3>1. kind' = kind /\ email' = email /\ since' = since BY <2>5, CreateOf
    <3>2. CASE UNCHANGED <<users, found>> /\ pc' = [pc EXCEPT ![r] = "refused"]
      BY <1>1, <1>3, <3>1, <3>2
    <3>3. CASE ~(UNCHANGED <<users, found>> /\ pc' = [pc EXCEPT ![r] = "refused"])
      <4>1. PICK id : /\ DOMAIN users' = DOMAIN users \union {id}
                      /\ found' = [found EXCEPT ![r] = id]
                      /\ pc' = [pc EXCEPT ![r] = IF kind[r] \in OAuth THEN "granted"
                                                 ELSE "done"]
        BY <2>5, <3>3, CreateOf
      <4> QED BY <1>1, <1>3, <3>1, <4>1
    <3> QED BY <3>2, <3>3
  <2>6. CASE UpdateUnsubscribed(r) BY <1>1, <1>2, <1>3, <2>6, UnsubscribedOf
  <2>7. CASE UpdatePremium(r) BY <1>1, <1>2, <1>3, <2>7, PremiumOf
  <2> QED BY <2>1, <2>2, <2>3, <2>4, <2>5, <2>6, <2>7 DEF StepOf
<1> QED BY <1>1, <1>4, UsersGrow DEF AccountsTyped, TypeOK

\* What the other requests ask for stays what it was.
LEMMA OthersAsk ==
    ASSUME AccountsTyped, PlacesInv, NEW r \in Requests, StepOf(r), NEW q \in Requests, q # r
    PROVE Address(q)' = Address(q) /\ (Exact(q)' <=> Exact(q))
BY OthersStay, UsersGrow DEF Address, Exact

\* So does what a request asks for that has begun.
LEMMA AskStays ==
    ASSUME AccountsTyped, PlacesInv, NEW r \in Requests, StepOf(r), ~Start(r)
    PROVE /\ UNCHANGED <<kind, email, since>> /\ Address(r)' = Address(r)
          /\ Exact(r)' <=> Exact(r)
<1>1. UNCHANGED <<kind, email, since>>
  <2>1. CASE AppleRefuses(r) BY <2>1 DEF AppleRefuses
  <2>2. CASE Sync(r) BY <2>2, SyncOf
  <2>3. CASE CreateLooks(r) BY <2>3, CreateLooksOf
  <2>4. CASE Create(r) BY <2>4, CreateOf
  <2>5. CASE UpdateUnsubscribed(r) BY <2>5, UnsubscribedOf
  <2>6. CASE UpdatePremium(r) BY <2>6, PremiumOf
  <2> QED BY <2>1, <2>2, <2>3, <2>4, <2>5, <2>6 DEF StepOf
<1> QED BY <1>1, UsersGrow DEF Address, Exact

\* An account that was not there is the one the step created.
LEMMA NewAccount ==
    ASSUME AccountsTyped, PlacesInv, NEW r \in Requests, StepOf(r),
           NEW u \in DOMAIN users' \ DOMAIN users
    PROVE /\ Create(r) /\ pc[r] = "create" /\ found'[r] = u
          /\ users'[u] = NewUser(Address(r), AuthFlow(r))
          /\ DOMAIN users' = DOMAIN users \union {u}
          /\ \A v \in DOMAIN users : users'[v] = users[v]
          /\ adapter = "prisma" => \A v \in DOMAIN users : users[v].email # Address(r)
<1>1. Create(r)
  <2>1. users' # users OBVIOUS
  <2>2. CASE Start(r) BY <2>1, <2>2, StartOf
  <2>3. CASE AppleRefuses(r) BY <2>1, <2>3 DEF AppleRefuses
  <2>4. CASE Sync(r) BY <2>1, <2>4, SyncOf
  <2>5. CASE CreateLooks(r) BY <2>1, <2>5, CreateLooksOf
  <2>6. CASE UpdateUnsubscribed(r) BY <2>6, UnsubscribedOf
  <2>7. CASE UpdatePremium(r) BY <2>7, PremiumOf
  <2> QED BY <2>2, <2>3, <2>4, <2>5, <2>6, <2>7 DEF StepOf
<1>2. PICK id :
        /\ id \notin DOMAIN users /\ DOMAIN users' = DOMAIN users \union {id}
        /\ \A v \in DOMAIN users : users'[v] = users[v]
        /\ users'[id] = NewUser(Address(r), AuthFlow(r))
        /\ found' = [found EXCEPT ![r] = id]
        /\ adapter = "prisma" => \A v \in DOMAIN users : users[v].email # Address(r)
    BY <1>1, CreateOf
<1>3. found \in [Requests -> DOMAIN users \union {None}] BY DEF AccountsTyped, TypeOK
<1>4. id = u BY <1>2
<1> QED BY <1>1, <1>2, <1>3, <1>4, CreateOf

\* A request goes only where its kind of request goes.
LEMMA PlacesKept ==
    ASSUME AccountsTyped, PlacesInv, NEW r \in Requests, StepOf(r)
    PROVE PlacesInv'
<1> DEFINE Place(q) ==
        /\ pc[q] = "write" => kind[q] \in {"unsubscribe", "activate", "deactivate"}
        /\ pc[q] \in {"sync", "granted"} => kind[q] \in OAuth
        /\ pc[q] \in {"look", "create"} => kind[q] \in {"signup", "apple", "google"}
        /\ pc[q] = "done" => kind[q] \notin OAuth
        /\ pc[q] \in {"write", "granted"} => found[q] \in DOMAIN users
        /\ pc[q] = "write" => Equals(adapter, email[q], users[found[q]].email)
<1> SUFFICES ASSUME NEW q \in Requests PROVE Place(q)' BY DEF PlacesInv
<1>1. /\ Place(q) /\ DOMAIN users \subseteq DOMAIN users' /\ adapter' = adapter
      /\ \A u \in DOMAIN users : users'[u].email = users[u].email
    BY UsersGrow DEF PlacesInv
<1>2. CASE q # r
  <2>1. /\ pc'[q] = pc[q] /\ kind'[q] = kind[q] /\ email'[q] = email[q]
        /\ found'[q] = found[q]
    BY <1>2, OthersStay
  <2> QED BY <1>1, <2>1 DEF Equals
<1>3. /\ pc \in [Requests -> Positions] /\ kind \in [Requests -> Kinds]
      /\ email \in [Requests -> Emails]
      /\ found \in [Requests -> DOMAIN users \union {None}]
    BY DEF AccountsTyped, TypeOK
<1>4. CASE q = r
  <2>1. CASE Start(r)
    <3>1. PICK e \in Emails, k \in Kinds, x \in DOMAIN users \union {None}, l \in Positions :
            /\ UNCHANGED <<adapter, users>>
            /\ pc' = [pc EXCEPT ![r] = l] /\ kind' = [kind EXCEPT ![r] = k]
            /\ email' = [email EXCEPT ![r] = e] /\ found' = [found EXCEPT ![r] = x]
            /\ l \in {"refused", "look", "sync", "write"}
            /\ l = "look" => k = "signup"
            /\ l = "sync" => k \in OAuth
            /\ l = "write" => /\ k \in {"unsubscribe", "activate", "deactivate"}
                              /\ x \in DOMAIN users /\ Equals(adapter, e, users[x].email)
      BY <2>1, StartOf
    <3>2. pc'[r] = l /\ kind'[r] = k /\ email'[r] = e /\ found'[r] = x BY <1>3, <3>1
    <3> QED BY <1>4, <3>1, <3>2 DEF Equals
  <2>2. CASE AppleRefuses(r) BY <1>3, <1>4, <2>2 DEF AppleRefuses, Goto
  <2>3. CASE Sync(r) BY <1>1, <1>3, <1>4, <2>3, SyncOf DEF OAuth
  <2>4. CASE CreateLooks(r) BY <1>1, <1>3, <1>4, <2>4, CreateLooksOf
  <2>5. CASE Create(r)
    <3>1. kind' = kind /\ email' = email BY <2>5, CreateOf
    <3>2. CASE pc' = [pc EXCEPT ![r] = "refused"] BY <1>3, <1>4, <3>2
    <3>3. CASE pc' # [pc EXCEPT ![r] = "refused"]
      <4>1. PICK id : /\ DOMAIN users' = DOMAIN users \union {id}
                      /\ found' = [found EXCEPT ![r] = id]
                      /\ pc' = [pc EXCEPT ![r] = IF kind[r] \in OAuth THEN "granted"
                                                 ELSE "done"]
        BY <2>5, <3>3, CreateOf
      <4> QED BY <1>3, <1>4, <3>1, <4>1
    <3> QED BY <3>2, <3>3
  <2>6. CASE UpdateUnsubscribed(r) BY <1>3, <1>4, <2>6, UnsubscribedOf DEF OAuth
  <2>7. CASE UpdatePremium(r) BY <1>3, <1>4, <2>7, PremiumOf DEF OAuth
  <2> QED BY <2>1, <2>2, <2>3, <2>4, <2>5, <2>6, <2>7 DEF StepOf
<1> QED BY <1>2, <1>4

\* Between a look and the creation after it only a race makes an account of the address.
LEMMA CreateKept ==
    ASSUME AccountsInv, NEW r \in Requests, StepOf(r)
    PROVE CreateInv'
<1>0. AccountsTyped /\ PlacesInv /\ CreateInv BY DEF AccountsInv
<1> SUFFICES ASSUME NEW q \in Requests, NEW u \in DOMAIN users',
                    pc'[q] = "create", adapter' # "prisma", users'[u].email = Address(q)'
             PROVE Address(q)' \in raced'
    BY DEF CreateInv
<1>1. /\ adapter' = adapter /\ raced \subseteq raced' /\ pc \in [Requests -> Positions]
      /\ \A v \in DOMAIN users : users'[v].email = users[v].email
    BY <1>0, UsersGrow DEF AccountsTyped, TypeOK
<1>2. CASE q # r
  <2>1. pc[q] = "create" /\ Address(q)' = Address(q) BY <1>0, <1>2, OthersStay, OthersAsk
  <2>2. CASE u \in DOMAIN users BY <1>0, <1>1, <2>1, <2>2 DEF CreateInv
  <2>3. CASE u \notin DOMAIN users
    <3>1. Create(r) /\ users'[u] = NewUser(Address(r), AuthFlow(r))
      BY <1>0, <2>3, NewAccount
    <3>2. users'[u].email = Address(r) BY <3>1 DEF NewUser
    <3> QED BY <1>0, <1>2, <2>1, <3>1, <3>2, CreateOf
  <2> QED BY <2>2, <2>3
<1>3. CASE q = r
  <2>1. CreateLooks(r)
    <3>1. CASE Start(r)
      <4>1. PICK l \in {"refused", "look", "sync", "write"} : pc' = [pc EXCEPT ![r] = l]
        BY <1>0, <3>1, StartOf
      <4> QED BY <1>1, <1>3, <4>1
    <3>2. CASE AppleRefuses(r) BY <1>1, <1>3, <3>2 DEF AppleRefuses, Goto
    <3>3. CASE Sync(r) BY <1>0, <1>1, <1>3, <3>3, SyncOf
    <3>4. CASE Create(r) BY <1>0, <1>1, <1>3, <3>4, CreateOf
    <3>5. CASE UpdateUnsubscribed(r) BY <1>0, <1>1, <1>3, <3>5, UnsubscribedOf
    <3>6. CASE UpdatePremium(r) BY <1>0, <1>1, <1>3, <3>6, PremiumOf
    <3> QED BY <3>1, <3>2, <3>3, <3>4, <3>5, <3>6 DEF StepOf
  <2>2. Address(r)' = Address(r)
    BY <1>0, <2>1, CreateLooksOf DEF Address
  <2>3. users' = users /\ \A v \in DOMAIN users : users[v].email # Address(r)
    BY <1>0, <1>1, <1>3, <2>1, CreateLooksOf
  <2> QED BY <1>3, <2>2, <2>3
<1> QED BY <1>2, <1>3

\* Two accounts of one address come from a race only.
LEMMA UniqueKept ==
    ASSUME AccountsInv, NEW r \in Requests, StepOf(r)
    PROVE OneAccountAnAddress'
<1>0. AccountsTyped /\ PlacesInv /\ CreateInv /\ OneAccountAnAddress BY DEF AccountsInv
<1>1. /\ adapter' = adapter /\ raced \subseteq raced'
      /\ \A u \in DOMAIN users : users'[u].email = users[u].email
    BY <1>0, UsersGrow
<1>2. ASSUME NEW u \in DOMAIN users, NEW v \in DOMAIN users' \ DOMAIN users,
             users'[u].email = users'[v].email
      PROVE adapter' # "prisma" /\ users'[u].email \in raced'
  <2>1. /\ pc[r] = "create" /\ users'[v] = NewUser(Address(r), AuthFlow(r))
        /\ adapter = "prisma" => users[u].email # Address(r)
    BY <1>0, NewAccount
  <2>2. users[u].email = Address(r) BY <1>1, <1>2, <2>1 DEF NewUser
  <2>3. Address(r) \in raced BY <1>0, <2>1, <2>2 DEF CreateInv
  <2> QED BY <1>1, <2>1, <2>2, <2>3
<1>3. ASSUME NEW u \in DOMAIN users' \ DOMAIN users, NEW v \in DOMAIN users' \ DOMAIN users
      PROVE u = v
    BY <1>0, NewAccount
<1>4. ASSUME NEW u \in DOMAIN users, NEW v \in DOMAIN users, u # v,
             users'[u].email = users'[v].email
      PROVE adapter' # "prisma" /\ users'[u].email \in raced'
    BY <1>0, <1>1, <1>4 DEF OneAccountAnAddress
<1> SUFFICES ASSUME NEW u \in DOMAIN users', NEW v \in DOMAIN users', u # v,
                    users'[u].email = users'[v].email
             PROVE adapter' # "prisma" /\ users'[u].email \in raced'
    BY DEF OneAccountAnAddress
<1> QED BY <1>2, <1>3, <1>4

\* Only sign-up gives an account a password, and it stores the address in lower case.
LEMMA LowerKept ==
    ASSUME AccountsInv, NEW r \in Requests, StepOf(r)
    PROVE BasicIsLower'
<1>0. AccountsTyped /\ PlacesInv /\ BasicIsLower BY DEF AccountsInv
<1> SUFFICES ASSUME NEW u \in DOMAIN users', users'[u].authFlow = "Basic"
             PROVE Lower[users'[u].email] = users'[u].email
    BY DEF BasicIsLower
<1>1. CASE u \in DOMAIN users BY <1>0, <1>1, UsersGrow DEF BasicIsLower
<1>2. CASE u \notin DOMAIN users
  <2>1. pc[r] = "create" /\ users'[u] = NewUser(Address(r), AuthFlow(r))
    BY <1>0, <1>2, NewAccount
  <2>2. AuthFlow(r) = "Basic" /\ users'[u].email = Address(r) BY <2>1 DEF NewUser
  <2>3. kind[r] = "signup" BY <1>0, <2>1, <2>2 DEF PlacesInv, AuthFlow
  <2>4. email[r] \in Emails BY <1>0 DEF AccountsTyped, TypeOK
  <2> QED BY <2>2, <2>3, <2>4, AccountsAssumption DEF Address
<1> QED BY <1>1, <1>2

\* A login with Google that goes on saw no account of its address with a password.
LEMMA SyncKept ==
    ASSUME AccountsInv, NEW r \in Requests, StepOf(r)
    PROVE SyncInv'
<1>0. AccountsTyped /\ PlacesInv /\ SyncInv /\ OneAccountAnAddress BY DEF AccountsInv
<1> SUFFICES ASSUME NEW q \in Requests, NEW u \in DOMAIN users',
                    pc'[q] = "sync", kind'[q] = "google", Exact(q)', email'[q] \notin raced',
                    u \in since'[q], users'[u].email = email'[q]
             PROVE users'[u].authFlow # "Basic"
    BY DEF SyncInv
<1>1. /\ adapter' = adapter /\ raced \subseteq raced' /\ pc \in [Requests -> Positions]
      /\ \A v \in DOMAIN users : /\ users'[v].email = users[v].email
                                 /\ users'[v].authFlow = users[v].authFlow
    BY <1>0, UsersGrow DEF AccountsTyped, TypeOK
<1>2. CASE q # r
  <2>1. /\ pc[q] = "sync" /\ kind[q] = "google" /\ Exact(q) /\ email'[q] = email[q]
        /\ u \in since[q] /\ since[q] \in SUBSET DOMAIN users
    BY <1>0, <1>2, OthersStay, OthersAsk DEF AccountsTyped, TypeOK
  <2> QED BY <1>0, <1>1, <2>1 DEF SyncInv
<1>3. CASE q = r
  <2>1. Start(r)
    <3>1. CASE AppleRefuses(r) BY <1>1, <1>3, <3>1 DEF AppleRefuses, Goto
    <3>2. CASE Sync(r) BY <1>0, <1>1, <1>3, <3>2, SyncOf
    <3>3. CASE CreateLooks(r) BY <1>0, <1>1, <1>3, <3>3, CreateLooksOf
    <3>4. CASE Create(r)
      <4>1. PICK l \in {"refused", "granted", "done"} : pc' = [pc EXCEPT ![r] = l]
        BY <1>0, <3>4, CreateOf
      <4> QED BY <1>1, <1>3, <4>1
    <3>5. CASE UpdateUnsubscribed(r) BY <1>0, <1>1, <1>3, <3>5, UnsubscribedOf
    <3>6. CASE UpdatePremium(r) BY <1>0, <1>1, <1>3, <3>6, PremiumOf
    <3> QED BY <3>1, <3>2, <3>3, <3>4, <3>5, <3>6 DEF StepOf
  <2>2. PICK e \in Emails, k \in Kinds, x \in DOMAIN users \union {None}, l \in Positions :
            /\ UNCHANGED <<adapter, users, raced>>
            /\ pc' = [pc EXCEPT ![r] = l] /\ kind' = [kind EXCEPT ![r] = k]
            /\ email' = [email EXCEPT ![r] = e]
            /\ l = "sync" /\ k = "google" =>
                \/ \A v \in DOMAIN users : ~Equals(adapter, e, users[v].email)
                \/ /\ x \in DOMAIN users /\ Equals(adapter, e, users[x].email)
                   /\ users[x].authFlow # "Basic"
    BY <1>0, <2>1, StartOf
  <2>3. l = "sync" /\ k = "google" /\ email'[r] = e
    BY <1>0, <1>3, <2>2 DEF AccountsTyped, TypeOK
  <2>4. \A v : Equals(adapter, e, v) <=> v = e
    BY <1>1, <1>3, <2>3 DEF Exact, Equals
  <2>5. u \in DOMAIN users /\ users[u].email = e BY <1>1, <1>3, <2>2, <2>3
  <2>6. PICK y \in DOMAIN users : users[y].email = e /\ users[y].authFlow # "Basic"
    BY <2>2, <2>3, <2>4, <2>5
  <2>7. CASE u = y BY <1>1, <2>6, <2>7
  <2>8. CASE u # y BY <1>0, <1>3, <2>2, <2>3, <2>5, <2>6, <2>8 DEF OneAccountAnAddress
  <2> QED BY <2>7, <2>8
<1> QED BY <1>2, <1>3

\* A request is granted by the second read of a login or by the creation.
LEMMA GrantedBy ==
    ASSUME AccountsTyped, PlacesInv, NEW r \in Requests, StepOf(r), pc'[r] = "granted"
    PROVE /\ ~Start(r) /\ found'[r] \in DOMAIN users' /\ kind[r] \in OAuth
          /\ \/ /\ UNCHANGED users
                /\ Exact(r) => /\ users[found'[r]].email = email[r]
                               /\ kind[r] = "apple" => users[found'[r]].authFlow = "AppleOAuth"
                /\ pc[r] = "sync"
             \/ /\ found'[r] \notin DOMAIN users
                /\ users'[found'[r]] = NewUser(Address(r), AuthFlow(r))
<1>1. /\ pc \in [Requests -> Positions]
      /\ found \in [Requests -> DOMAIN users \union {None}]
    BY DEF AccountsTyped, TypeOK
<1>2. ~Start(r)
  <2>1. ASSUME Start(r) PROVE FALSE
    <3>1. PICK l \in {"refused", "look", "sync", "write"} : pc' = [pc EXCEPT ![r] = l]
      BY <2>1, StartOf
    <3> QED BY <1>1, <3>1
  <2> QED BY <2>1
<1>3. CASE AppleRefuses(r) BY <1>1, <1>3 DEF AppleRefuses, Goto
<1>4. CASE Sync(r)
  <2>1. PICK x \in DOMAIN users \union {None}, l \in {"granted", "look"} :
            /\ pc[r] = "sync" /\ kind[r] \in OAuth /\ UNCHANGED users
            /\ pc' = [pc EXCEPT ![r] = l] /\ found' = [found EXCEPT ![r] = x]
            /\ l = "granted" =>
                /\ x \in DOMAIN users
                /\ Exact(r) => /\ users[x].email = email[r]
                               /\ kind[r] = "apple" => users[x].authFlow = "AppleOAuth"
    BY <1>4, SyncOf
  <2>2. l = "granted" /\ found'[r] = x BY <1>1, <2>1
  <2> QED BY <1>2, <2>1, <2>2
<1>5. CASE CreateLooks(r)
  <2>1. PICK l \in {"refused", "create"} : pc' = [pc EXCEPT ![r] = l]
    BY <1>5, CreateLooksOf
  <2> QED BY <1>1, <2>1
<1>6. CASE Create(r)
  <2>1. PICK id :
            /\ id \notin DOMAIN users /\ DOMAIN users' = DOMAIN users \union {id}
            /\ users'[id] = NewUser(Address(r), AuthFlow(r))
            /\ found' = [found EXCEPT ![r] = id]
            /\ pc' = [pc EXCEPT ![r] = IF kind[r] \in OAuth THEN "granted" ELSE "done"]
    <3>1. pc' # [pc EXCEPT ![r] = "refused"] BY <1>1
    <3> QED BY <1>6, <3>1, CreateOf
  <2>2. found'[r] = id /\ kind[r] \in OAuth BY <1>1, <2>1
  <2> QED BY <1>2, <2>1, <2>2
<1>7. CASE UpdateUnsubscribed(r) BY <1>1, <1>7, UnsubscribedOf
<1>8. CASE UpdatePremium(r) BY <1>1, <1>8, PremiumOf
<1> QED BY <1>2, <1>3, <1>4, <1>5, <1>6, <1>7, <1>8 DEF StepOf

\* A login is granted an account of its address.
LEMMA GrantedKept ==
    ASSUME AccountsInv, NEW r \in Requests, StepOf(r)
    PROVE GrantedIsOwn'
<1>0. AccountsTyped /\ PlacesInv /\ GrantedIsOwn BY DEF AccountsInv
<1> SUFFICES ASSUME NEW q \in Requests, pc'[q] = "granted", Exact(q)'
             PROVE users'[found'[q]].email = email'[q]
    BY DEF GrantedIsOwn
<1>1. CASE q # r
  <2>1. /\ pc[q] = "granted" /\ Exact(q) /\ email'[q] = email[q] /\ found'[q] = found[q]
    BY <1>0, <1>1, OthersStay, OthersAsk
  <2>2. found[q] \in DOMAIN users /\ users[found[q]].email = email[q]
    BY <1>0, <2>1 DEF PlacesInv, GrantedIsOwn
  <2> QED BY <1>0, <2>1, <2>2, UsersGrow
<1>2. CASE q = r
  <2>1. /\ Exact(r) /\ email' = email BY <1>0, <1>2, GrantedBy, AskStays
  <2>2. CASE UNCHANGED users /\ users[found'[r]].email = email[r] BY <1>2, <2>1, <2>2
  <2>3. CASE users'[found'[r]] = NewUser(Address(r), AuthFlow(r))
    <3>1. kind[r] # "signup" BY <1>0, <1>2, GrantedBy DEF OAuth
    <3> QED BY <1>2, <2>1, <2>3, <3>1 DEF NewUser, Address
  <2> QED BY <1>0, <1>2, <2>1, <2>2, <2>3, GrantedBy
<1> QED BY <1>1, <1>2

\* No login reaches an account with a password that was there before it.
LEMMA PasswordKept ==
    ASSUME AccountsInv, NEW r \in Requests, StepOf(r)
    PROVE PasswordAccountsApart'
<1>0. AccountsTyped /\ PlacesInv /\ SyncInv /\ PasswordAccountsApart BY DEF AccountsInv
<1> SUFFICES ASSUME NEW q \in Requests, pc'[q] = "granted", Exact(q)', email'[q] \notin raced',
                    users'[found'[q]].authFlow = "Basic", found'[q] \in since'[q]
             PROVE FALSE
    BY DEF PasswordAccountsApart
<1>1. raced \subseteq raced' /\ since \in [Requests -> SUBSET DOMAIN users]
    BY <1>0, UsersGrow DEF AccountsTyped, TypeOK
<1>2. CASE q # r
  <2>1. /\ pc[q] = "granted" /\ Exact(q) /\ email'[q] = email[q] /\ found'[q] = found[q]
        /\ since'[q] = since[q]
    BY <1>0, <1>2, OthersStay, OthersAsk
  <2>2. found[q] \in DOMAIN users BY <1>0, <2>1 DEF PlacesInv
  <2>3. users[found[q]].authFlow = "Basic" BY <1>0, <2>1, <2>2, UsersGrow
  <2> QED BY <1>0, <1>1, <2>1, <2>3 DEF PasswordAccountsApart
<1>3. CASE q = r
  <2>1. /\ Exact(r) /\ email' = email /\ since' = since
    BY <1>0, <1>3, GrantedBy, AskStays
  <2>2. found'[r] \in DOMAIN users BY <1>1, <1>3, <2>1
  <2>3. /\ UNCHANGED users /\ users[found'[r]].email = email[r] /\ pc[r] = "sync"
        /\ kind[r] = "apple" => users[found'[r]].authFlow = "AppleOAuth"
    BY <1>0, <1>3, <2>1, <2>2, GrantedBy
  <2>4. kind[r] = "google" BY <1>0, <1>3, <2>3, GrantedBy DEF OAuth
  <2>5. email[r] \notin raced BY <1>1, <1>3, <2>1
  <2>6. users[found'[r]].authFlow # "Basic"
    BY <1>0, <1>3, <2>1, <2>2, <2>3, <2>4, <2>5 DEF SyncInv
  <2> QED BY <1>3, <2>3, <2>6
<1> QED BY <1>2, <1>3

\* A sign-up is refused by an account of the address.
LEMMA RefusalKept ==
    ASSUME AccountsInv, NEW r \in Requests, StepOf(r)
    PROVE RefusalHasReason'
<1>0. AccountsTyped /\ PlacesInv /\ RefusalHasReason BY DEF AccountsInv
<1> SUFFICES ASSUME NEW q \in Requests, pc'[q] = "refused", kind'[q] = "signup", Exact(q)'
             PROVE \E u \in DOMAIN users' : users'[u].email = Lower[email'[q]]
    BY DEF RefusalHasReason
<1>1. /\ DOMAIN users \subseteq DOMAIN users' /\ adapter' = adapter
      /\ \A u \in DOMAIN users : users'[u].email = users[u].email
      /\ pc \in [Requests -> Positions] /\ kind \in [Requests -> Kinds]
      /\ email \in [Requests -> Emails]
    BY <1>0, UsersGrow DEF AccountsTyped, TypeOK
<1>2. CASE q # r
  <2>1. pc[q] = "refused" /\ kind[q] = "signup" /\ Exact(q) /\ email'[q] = email[q]
    BY <1>0, <1>2, OthersStay, OthersAsk
  <2> QED BY <1>0, <1>1, <2>1 DEF RefusalHasReason
<1>3. CASE q = r /\ Start(r)
  <2>1. PICK e \in Emails, k \in Kinds, l \in Positions :
            /\ pc' = [pc EXCEPT ![r] = l] /\ kind' = [kind EXCEPT ![r] = k]
            /\ email' = [email EXCEPT ![r] = e]
            /\ l = "refused" /\ k = "signup" =>
                \E u \in DOMAIN users : Equals(adapter, Lower[e], users[u].email)
    BY <1>0, <1>3, StartOf
  <2>2. l = "refused" /\ k = "signup" /\ email'[r] = e BY <1>1, <1>3, <2>1
  <2>3. \A v : Equals(adapter, Lower[e], v) <=> v = Lower[e]
    BY <1>1, <1>3, <2>2 DEF Exact, Equals
  <2> QED BY <1>1, <1>3, <2>1, <2>2, <2>3
<1>4. CASE q = r /\ ~Start(r)
  <2>1. Exact(r) /\ kind[r] = "signup" /\ email' = email BY <1>0, <1>4, AskStays
  <2>2. Address(r) = Lower[email[r]] BY <2>1 DEF Address
  <2>3. CASE AppleRefuses(r) BY <2>1, <2>3 DEF AppleRefuses
  <2>4. CASE Sync(r) BY <1>0, <2>1, <2>4, SyncOf DEF OAuth
  <2>5. CASE CreateLooks(r)
    <3>1. \E u \in DOMAIN users : Equals(adapter, Address(r), users[u].email)
      <4>1. PICK l \in {"refused", "create"} :
                /\ pc' = [pc EXCEPT ![r] = l]
                /\ l = "refused" => \E u \in DOMAIN users :
                                        Equals(adapter, Address(r), users[u].email)
        BY <1>0, <2>5, CreateLooksOf
      <4> QED BY <1>1, <1>4, <4>1
    <3>2. \A v : Equals(adapter, Lower[email[r]], v) => v = Lower[email[r]]
      BY <2>1, ExactEquals
    <3> QED BY <1>1, <1>4, <2>1, <2>2, <3>1, <3>2
  <2>6. CASE Create(r)
    <3>1. \E u \in DOMAIN users : users[u].email = Address(r)
      <4>1. \A l \in {"granted", "done"} : pc' # [pc EXCEPT ![r] = l] BY <1>1, <1>4
      <4> QED BY <1>0, <2>6, <4>1, CreateOf
    <3> QED BY <1>1, <1>4, <2>1, <2>2, <3>1
  <2>7. CASE UpdateUnsubscribed(r) BY <1>0, <2>1, <2>7, UnsubscribedOf
  <2>8. CASE UpdatePremium(r) BY <1>0, <2>1, <2>8, PremiumOf
  <2> QED BY <1>4, <2>3, <2>4, <2>5, <2>6, <2>7, <2>8 DEF StepOf
<1> QED BY <1>2, <1>3, <1>4

\* Who is unsubscribed was marked by a request that is done and asked for that address.
LEMMA UnsubscribedKept ==
    ASSUME AccountsInv, NEW r \in Requests, StepOf(r)
    PROVE UnsubscribeIsExact'
<1>0. AccountsTyped /\ PlacesInv /\ UnsubscribeIsExact BY DEF AccountsInv
<1>1. /\ DOMAIN users \subseteq DOMAIN users' /\ adapter' = adapter
      /\ \A u \in DOMAIN users : /\ users'[u].email = users[u].email
                                 /\ users[u].unsubscribed => users'[u].unsubscribed
      /\ pc \in [Requests -> Positions] /\ kind \in [Requests -> Kinds]
      /\ \A u \in DOMAIN users : users[u] \in Records
    BY <1>0, UsersGrow DEF AccountsTyped, TypeOK
<1>2. ASSUME pc'[r] = "done", kind'[r] = "unsubscribe" PROVE UpdateUnsubscribed(r)
  <2>1. CASE Start(r)
    <3>1. PICK l \in {"refused", "look", "sync", "write"} : pc' = [pc EXCEPT ![r] = l]
      BY <1>0, <2>1, StartOf
    <3> QED BY <1>1, <1>2, <3>1
  <2>2. CASE AppleRefuses(r) BY <1>1, <1>2, <2>2 DEF AppleRefuses, Goto
  <2>3. CASE Sync(r) BY <1>0, <1>1, <1>2, <2>3, SyncOf
  <2>4. CASE CreateLooks(r) BY <1>0, <1>1, <1>2, <2>4, CreateLooksOf
  <2>5. CASE Create(r) BY <1>0, <1>1, <1>2, <2>5, CreateOf
  <2>6. CASE UpdatePremium(r) BY <1>0, <1>1, <1>2, <2>6, PremiumOf
  <2> QED BY <2>1, <2>2, <2>3, <2>4, <2>5, <2>6 DEF StepOf
<1>3. ASSUME NEW q \in Requests, pc'[q] = "done", kind'[q] = "unsubscribe", Exact(q)'
      PROVE \E u \in DOMAIN users' : users'[u].email = email'[q] /\ users'[u].unsubscribed
  <2>1. CASE q # r
    <3>1. /\ pc[q] = "done" /\ kind[q] = "unsubscribe" /\ Exact(q) /\ email'[q] = email[q]
      BY <1>0, <1>3, <2>1, OthersStay, OthersAsk
    <3> QED BY <1>0, <1>1, <3>1 DEF UnsubscribeIsExact
  <2>2. CASE q = r
    <3>1. UpdateUnsubscribed(r) BY <1>2, <1>3, <2>2
    <3>2. PICK ids \in SUBSET DOMAIN users :
            /\ ids # {} /\ \A u \in ids : Equals(adapter, email[r], users[u].email)
            /\ \A u \in DOMAIN users : users'[u] =
                IF u \in ids THEN [users[u] EXCEPT !.unsubscribed = TRUE] ELSE users[u]
      BY <1>0, <3>1, UnsubscribedOf
    <3>3. email' = email /\ Exact(r)
      BY <1>0, <1>1, <1>3, <2>2, <3>1, UnsubscribedOf DEF Exact
    <3>4. PICK u \in ids : TRUE BY <3>2
    <3>5. users[u].email = email[r] BY <3>2, <3>3, <3>4, ExactEquals
    <3>6. users'[u].unsubscribed BY <1>1, <3>2, <3>4 DEF Records
    <3> QED BY <1>1, <2>2, <3>3, <3>4, <3>5, <3>6
  <2> QED BY <2>1, <2>2
<1>4. ASSUME NEW u \in DOMAIN users', users'[u].unsubscribed
      PROVE \E q \in Requests :
                /\ pc'[q] = "done" /\ kind'[q] = "unsubscribe"
                /\ Exact(q)' => users'[u].email = email'[q]
  <2>1. CASE u \in DOMAIN users /\ users[u].unsubscribed
    <3>1. PICK q \in Requests : /\ pc[q] = "done" /\ kind[q] = "unsubscribe"
                                /\ Exact(q) => users[u].email = email[q]
      BY <1>0, <2>1 DEF UnsubscribeIsExact
    <3>2. q # r
      <4>1. pc[r] # "done"
        <5>1. CASE Start(r) BY <1>0, <5>1, StartOf
        <5>2. CASE AppleRefuses(r) BY <5>2 DEF AppleRefuses
        <5>3. CASE Sync(r) BY <1>0, <5>3, SyncOf
        <5>4. CASE CreateLooks(r) BY <1>0, <5>4, CreateLooksOf
        <5>5. CASE Create(r) BY <1>0, <5>5, CreateOf
        <5>6. CASE UpdateUnsubscribed(r) BY <1>0, <5>6, UnsubscribedOf
        <5>7. CASE UpdatePremium(r) BY <1>0, <5>7, PremiumOf
        <5> QED BY <5>1, <5>2, <5>3, <5>4, <5>5, <5>6, <5>7 DEF StepOf
      <4> QED BY <3>1, <4>1
    <3> QED BY <1>0, <1>1, <2>1, <3>1, <3>2, OthersStay, OthersAsk
  <2>2. CASE u \in DOMAIN users /\ ~users[u].unsubscribed
    <3>1. UpdateUnsubscribed(r)
      <4>1. users' # users BY <1>4, <2>2
      <4>2. CASE Start(r) BY <1>0, <4>1, <4>2, StartOf
      <4>3. CASE AppleRefuses(r) BY <4>1, <4>3 DEF AppleRefuses
      <4>4. CASE Sync(r) BY <1>0, <4>1, <4>4, SyncOf
      <4>5. CASE CreateLooks(r) BY <1>0, <4>1, <4>5, CreateLooksOf
      <4>6. CASE Create(r)
        <5>1. users'[u] = users[u] BY <1>0, <2>2, <4>1, <4>6, CreateOf
        <5> QED BY <1>4, <2>2, <5>1
      <4>7. CASE UpdatePremium(r)
        <5>1. PICK changes \in [accountType : AccountTypes, manual : BOOLEAN] :
                \A v \in DOMAIN users : users'[v] =
                    IF v = found[r] THEN Written(users[v], changes) ELSE users[v]
          BY <1>0, <4>7, PremiumOf
        <5>2. users'[u].unsubscribed = users[u].unsubscribed
          BY <1>1, <2>2, <5>1, WrittenPremium
        <5> QED BY <1>4, <2>2, <5>2
      <4> QED BY <4>2, <4>3, <4>4, <4>5, <4>6, <4>7 DEF StepOf
    <3>2. /\ pc' = [pc EXCEPT ![r] = "done"] /\ kind[r] = "unsubscribe"
          /\ UNCHANGED <<adapter, kind, email>>
          /\ Equals(adapter, email[r], users[u].email)
      <4>1. PICK ids \in SUBSET DOMAIN users :
                /\ \A v \in ids : Equals(adapter, email[r], users[v].email)
                /\ \A v \in DOMAIN users : users'[v] =
                    IF v \in ids THEN [users[v] EXCEPT !.unsubscribed = TRUE] ELSE users[v]
        BY <1>0, <3>1, UnsubscribedOf
      <4>2. u \in ids BY <1>4, <2>2, <4>1
      <4> QED BY <1>0, <3>1, <4>1, <4>2, UnsubscribedOf
    <3>3. pc'[r] = "done" /\ kind'[r] = "unsubscribe" BY <1>1, <3>2
    <3>4. Exact(r)' => users'[u].email = email'[r]
      <4>1. Exact(r)' => Exact(r) BY <3>2 DEF Exact
      <4> QED BY <1>1, <2>2, <3>2, <4>1, ExactEquals
    <3> QED BY <3>3, <3>4
  <2>3. CASE u \notin DOMAIN users
    <3>1. users'[u] = NewUser(Address(r), AuthFlow(r)) BY <1>0, <2>3, NewAccount
    <3> QED BY <1>4, <3>1 DEF NewUser
  <2> QED BY <2>1, <2>2, <2>3
<1> QED BY <1>3, <1>4 DEF UnsubscribeIsExact

\* Both fields of a premium account are written at once.
LEMMA PremiumKept ==
    ASSUME AccountsInv, NEW r \in Requests, StepOf(r)
    PROVE PremiumIsManual'
<1>0. AccountsTyped /\ PlacesInv /\ PremiumIsManual BY DEF AccountsInv
<1>1. \A u \in DOMAIN users : users[u] \in Records BY <1>0 DEF AccountsTyped, TypeOK
<1> SUFFICES ASSUME NEW u \in DOMAIN users', users'[u].accountType # "free"
             PROVE users'[u].manual
    BY DEF PremiumIsManual
<1>2. CASE u \notin DOMAIN users
  <2>1. users'[u] = NewUser(Address(r), AuthFlow(r)) BY <1>0, <1>2, NewAccount
  <2> QED BY <2>1 DEF NewUser
<1>3. CASE u \in DOMAIN users /\ users'[u] = users[u]
  BY <1>0, <1>3 DEF PremiumIsManual
<1>4. CASE u \in DOMAIN users /\ users'[u] # users[u]
  <2>1. CASE Start(r) BY <1>0, <1>4, <2>1, StartOf
  <2>2. CASE AppleRefuses(r) BY <1>4, <2>2 DEF AppleRefuses
  <2>3. CASE Sync(r) BY <1>0, <1>4, <2>3, SyncOf
  <2>4. CASE CreateLooks(r) BY <1>0, <1>4, <2>4, CreateLooksOf
  <2>5. CASE Create(r) BY <1>0, <1>4, <2>5, CreateOf
  <2>6. CASE UpdateUnsubscribed(r)
    <3>1. users'[u] = [users[u] EXCEPT !.unsubscribed = TRUE]
      BY <1>0, <1>4, <2>6, UnsubscribedOf
    <3>2. /\ users'[u].accountType = users[u].accountType
          /\ users'[u].manual = users[u].manual
      BY <1>1, <1>4, <3>1 DEF Records
    <3> QED BY <1>0, <1>4, <3>2 DEF PremiumIsManual
  <2>7. CASE UpdatePremium(r)
    <3>1. PICK changes \in [accountType : AccountTypes, manual : BOOLEAN] :
            /\ changes.accountType # "free" => changes.manual
            /\ \A v \in DOMAIN users : users'[v] =
                IF v = found[r] THEN Written(users[v], changes) ELSE users[v]
      BY <1>0, <2>7, PremiumOf
    <3>2. /\ users'[u].accountType = changes.accountType
          /\ users'[u].manual = changes.manual
      BY <1>1, <1>4, <3>1, WrittenPremium
    <3> QED BY <3>1, <3>2
  <2> QED BY <2>1, <2>2, <2>3, <2>4, <2>5, <2>6, <2>7 DEF StepOf
<1> QED BY <1>2, <1>3, <1>4

\* A run begins in the invariant.
LEMMA AccountsBegin == Init => AccountsInv
<1> SUFFICES ASSUME Init PROVE AccountsInv OBVIOUS
<1>1. /\ users \in Seq(Records)
      /\ \A u, v \in DOMAIN users : users[u].email = users[v].email => u = v
      /\ \A u \in DOMAIN users :
            /\ users[u].authFlow = "Basic" => Lower[users[u].email] = users[u].email
            /\ ~users[u].unsubscribed
            /\ users[u].accountType # "free" => users[u].manual
    BY AccountsAssumption DEF Init, WellFormed
<1>2. /\ \A r \in Requests : pc[r] = "idle"
      /\ pc \in [Requests -> Positions] /\ kind \in [Requests -> Kinds]
      /\ email \in [Requests -> Emails] /\ adapter \in Adapters /\ raced = {}
      /\ found \in [Requests -> DOMAIN users \union {None}]
      /\ since \in [Requests -> SUBSET DOMAIN users]
    BY AccountsAssumption DEF Init, Positions, Kinds
<1>3. AccountsTyped
  <2>1. Len(users) \in Nat /\ DOMAIN users = 1..Len(users) BY <1>1
  <2>2. IsFiniteSet(DOMAIN users) /\ Cardinality(DOMAIN users) = Len(users)
    <3>1. PICK n \in Nat : n = Len(users) BY <2>1
    <3>2. IsFiniteSet(1..n) /\ Cardinality(1..n) = IF 1 > n THEN 0 ELSE n - 1 + 1
      BY FS_Interval
    <3>3. Cardinality(1..n) = n BY <3>2
    <3> QED BY <2>1, <3>1, <3>2, <3>3
  <2>3. \A u \in DOMAIN users : users[u] \in Records BY <1>1
  <2> QED BY <1>2, <2>1, <2>2, <2>3 DEF AccountsTyped, TypeOK
<1>4. PlacesInv /\ CreateInv /\ SyncInv BY <1>2 DEF PlacesInv, CreateInv, SyncInv
<1>5. OneAccountAnAddress /\ BasicIsLower BY <1>1 DEF OneAccountAnAddress, BasicIsLower
<1>6. GrantedIsOwn /\ PasswordAccountsApart /\ RefusalHasReason
    BY <1>2 DEF GrantedIsOwn, PasswordAccountsApart, RefusalHasReason
<1>7. UnsubscribeIsExact /\ PremiumIsManual
    BY <1>1, <1>2 DEF UnsubscribeIsExact, PremiumIsManual
<1> QED BY <1>3, <1>4, <1>5, <1>6, <1>7 DEF AccountsInv

\* A step that changes nothing keeps all of it.
LEMMA AccountsIdle == AccountsInv /\ UNCHANGED vars => AccountsInv'
<1> SUFFICES ASSUME AccountsInv, UNCHANGED vars PROVE AccountsInv' OBVIOUS
<1>1. UNCHANGED <<adapter, users, pc, kind, email, found, since, raced>> BY DEF vars, request
<1>2. /\ AccountsTyped' /\ PlacesInv' /\ BasicIsLower' /\ OneAccountAnAddress'
      /\ PremiumIsManual'
    BY <1>1 DEF AccountsInv, AccountsTyped, TypeOK, PlacesInv, Equals, BasicIsLower,
        OneAccountAnAddress, PremiumIsManual
<1>3. CreateInv' /\ SyncInv' BY <1>1 DEF AccountsInv, CreateInv, SyncInv, Address, Exact
<1>4. GrantedIsOwn' /\ PasswordAccountsApart' /\ RefusalHasReason' /\ UnsubscribeIsExact'
    BY <1>1 DEF AccountsInv, GrantedIsOwn, PasswordAccountsApart, RefusalHasReason,
        UnsubscribeIsExact, Exact
<1> QED BY <1>2, <1>3, <1>4 DEF AccountsInv

\* Every step of Accounts keeps the invariant.
LEMMA AccountsKept == AccountsInv /\ [Next]_vars => AccountsInv'
<1>1. ASSUME AccountsInv, NEW r \in Requests, StepOf(r) PROVE AccountsInv'
  <2>1. AccountsTyped /\ PlacesInv BY <1>1 DEF AccountsInv
  <2>2. AccountsTyped' /\ PlacesInv' BY <1>1, <2>1, AccountsTypedKept, PlacesKept
  <2> QED BY <1>1, <2>2, CreateKept, SyncKept, UniqueKept, LowerKept, GrantedKept,
        PasswordKept, RefusalKept, UnsubscribedKept, PremiumKept DEF AccountsInv
<1>2. ASSUME AccountsInv, Next PROVE AccountsInv' BY <1>1, <1>2 DEF Next, StepOf
<1> QED BY <1>2, AccountsIdle

\* Accounts never share an address but by a race of two creations, and never under
\* Prisma; a password goes with an address in lower case: for any requests, addresses
\* and table to begin with.
THEOREM AccountsAlwaysHold == Spec => []AccountsHold
<1>1. AccountsInv => AccountsHold BY DEF AccountsInv, AccountsTyped, AccountsHold
<1> QED BY <1>1, AccountsBegin, AccountsKept, PTL DEF Spec

\* A login with an exact query is granted an account of its own address, never one with
\* a password that was there before it; a sign-up is refused by an account there is.
THEOREM GrantsAreAlwaysOwn == Spec => []GrantsAreOwn
<1>1. AccountsInv => GrantsAreOwn BY DEF AccountsInv, GrantsAreOwn
<1> QED BY <1>1, AccountsBegin, AccountsKept, PTL DEF Spec

\* Only who asked for it is unsubscribed, and every premium account is controlled by hand.
THEOREM FlagsAreAlwaysAsked == Spec => []FlagsAreAsked
<1>1. AccountsInv => FlagsAreAsked BY DEF AccountsInv, FlagsAreAsked
<1> QED BY <1>1, AccountsBegin, AccountsKept, PTL DEF Spec

-------------------------------------------------------------------------------
(* The components together *)

\* RedisPubSub and ResultsPoller side by side: a published message is handled by one
\* process, whoever else hears it, and a poll is answered once, to its own request or,
\* after a timeout, to a later one.
THEOREM AnswersAlwaysHold == S!Spec /\ R!Spec => []OneAnswers
<1>1. (R!TypeOK /\ R!AnsweredOnce /\ R!StaleNeedsGiveUp)
        /\ (S!TypeOK /\ S!HandledOnce /\ S!HandledBySomebody) => OneAnswers
    BY DEF OneAnswers
<1> QED BY <1>1, PollerAlwaysHolds, PubSubAlwaysHolds, PTL

\* A behaviour that follows one component is a behaviour of each: of that one by its
\* steps, of the others because nothing of theirs changes.
LEMMA EachComponent ==
    MCSpec => Spec /\ P!Spec /\ E!Spec /\ R!Spec /\ S!Spec /\ B!Spec /\ Q!Spec /\ D!Spec
<1>1. MCInit => Init /\ P!Init /\ E!Init /\ R!Init /\ S!Init /\ B!Init /\ Q!Init /\ D!Init
    BY DEF MCInit
<1>2. [MCNext]_<<focus, Services, Tools>> => [P!Next]_P!vars
    BY DEF MCNext, Services, Tools, preferences, P!vars
<1>3. [MCNext]_<<focus, Services, Tools>> => [E!Next]_E!vars
    BY DEF MCNext, Services, Tools, mail, E!vars, E!counters
<1>4. [MCNext]_<<focus, Services, Tools>> => [R!Next]_R!vars
    BY DEF MCNext, Services, Tools, poll, R!vars
<1>5. [MCNext]_<<focus, Services, Tools>> => [S!Next]_S!vars
    BY DEF MCNext, Services, Tools, pubsub, S!vars
<1>6. [MCNext]_<<focus, Services, Tools>> => [Q!Next]_Q!vars
    BY DEF MCNext, Services, Tools, scaling, Q!vars
<1>7. [MCNext]_<<focus, Services, Tools>> => [D!Next]_D!vars
    BY DEF MCNext, Services, Tools, prisma, D!vars
<1>8. [MCNext]_<<focus, Services, Tools>> => [B!Next]_B!vars
    BY DEF MCNext, Services, Tools, build, B!vars
<1>9. [MCNext]_<<focus, Services, Tools>> => [Next]_vars
    BY DEF MCNext, Services, Tools, accounts
<1> QED BY <1>1, <1>2, <1>3, <1>4, <1>5, <1>6, <1>7, <1>8, <1>9, PTL
        DEF MCSpec, Spec, P!Spec, E!Spec, R!Spec, S!Spec, B!Spec, Q!Spec, D!Spec

\* What the run checks of the eight components holds for all values of the constants.
THEOREM ServicesAlwaysHold ==
    MCSpec => [](/\ AccountsHold /\ GrantsAreOwn /\ FlagsAreAsked
                 /\ PreferencesHold /\ MailHolds /\ OneAnswers
                 /\ ComposeFits /\ ScalingHolds /\ SchemaHolds)
BY EachComponent, AccountsAlwaysHold, GrantsAreAlwaysOwn, FlagsAreAlwaysAsked,
   PreferencesAlwaysHold, MailAlwaysHolds, AnswersAlwaysHold,
   ComposeAlwaysFits, ScalingAlwaysHolds, SchemaAlwaysHolds, PTL
===============================================================================
