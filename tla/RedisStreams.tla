----------------------------- MODULE RedisStreams -----------------------------
(***************************************************************************)
(* RedisStreams: one stream and its consumer group.  A service outside the *)
(* socket service adds messages without waiting for the answer; a refused  *)
(* XADD starts maxRetries chains of maxRetries tries each, all at once.    *)
(* Every API process reads the group under the same consumer name, handles *)
(* a batch with bounded concurrency and acknowledges what succeeded; it    *)
(* only ever asks for ">", so a pending entry is not delivered again.      *)
(*                                                                         *)
(* The i-th entry ever added is entry i; log holds their messages.         *)
(***************************************************************************)
EXTENDS Naturals, Sequences, FiniteSets

CONSTANTS Messages, Readers,
          MaxRetries,      \* maxRetries
          Batch,           \* COUNT of XREADGROUP
          MaxConcurrent,   \* MAX_CONCURRENT_PROCESSING
          MaxLog,          \* bound on the entries ever added
          MaxRefused,      \* bound on refused or repeated XADDs
          MaxFaults        \* bound on the faults that may lose entries

ASSUME RedisStreamsAssumption ==
    /\ {MaxRetries, Batch, MaxConcurrent, MaxLog} \subseteq Nat \ {0}
    /\ {MaxRefused, MaxFaults} \subseteq Nat

VARIABLES
    log, alive,     \* messages of the entries ever added; entries still there
    group, cursor,  \* the group exists; the last entry delivered to it
    pending,        \* delivered and not acknowledged
    call, tries,    \* message -> 0 (first XADD) or chain -> state, failures
    pc,             \* reader -> position
    batch,          \* reader -> entries of the reply whose callback is to start
    running,        \* reader -> entries whose callback runs
    ackIds,         \* reader -> entries whose callback succeeded
    stopping,       \* reader -> isShuttingDown
    done,           \* history: entries whose callback ever succeeded
    unanswered,     \* history: message -> entries whose XADD lost its answer
    refused, faults

redis == <<log, alive, group, cursor, pending>>
adds == <<call, tries, refused, unanswered>>
work == <<batch, running, ackIds>>
vars == <<redis, adds, pc, work, stopping, done, faults>>

Calls == 0..MaxRetries
Ids == 1..Len(log)
Goto(p, l) == pc' = [pc EXCEPT ![p] = l]

Init ==
    /\ log = <<>> /\ alive = {} /\ group = FALSE /\ cursor = 0 /\ pending = {}
    /\ call = [m \in Messages |-> [i \in Calls |-> "off"]]
    /\ tries = [m \in Messages |-> [i \in Calls |-> 0]]
    /\ pc = [p \in Readers |-> "off"]
    /\ batch = [p \in Readers |-> {}]
    /\ running = [p \in Readers |-> {}]
    /\ ackIds = [p \in Readers |-> {}]
    /\ stopping = [p \in Readers |-> FALSE]
    /\ done = {} /\ unanswered = [m \in Messages |-> 0] /\ refused = 0 /\ faults = 0

-------------------------------------------------------------------------------
(* Adding.                                                                 *)

\* sendEventToUser in startup-npc; with a writer that is not ready addToStream
\* throws instead and nothing is sent.
AddToStream(m) ==
    /\ call[m][0] = "off"
    /\ call' = [call EXCEPT ![m][0] = "sent"]
    /\ UNCHANGED <<redis, tries, refused, unanswered, pc, work, stopping, done, faults>>

Append1(m) ==
    /\ Len(log) < MaxLog
    /\ log' = Append(log, m)
    /\ alive' = alive \union {Len(log) + 1}
    /\ UNCHANGED <<group, cursor, pending>>

Added(m, i) ==
    /\ call[m][i] = "sent"
    /\ Append1(m)
    /\ call' = [call EXCEPT ![m][i] = "added"]
    /\ UNCHANGED <<tries, refused, unanswered, pc, work, stopping, done, faults>>

\* The XADD takes effect and its answer is lost with the connection.
AnswerLost(m) ==
    /\ Append1(m)
    /\ unanswered' = [unanswered EXCEPT ![m] = @ + 1]

\* The client is connected again and sends the unanswered command once more
\* (autoResendUnfulfilledCommands).
Resent(m, i) ==
    /\ call[m][i] = "sent" /\ refused < MaxRefused
    /\ refused' = refused + 1
    /\ AnswerLost(m)
    /\ UNCHANGED <<call, tries, pc, work, stopping, done, faults>>

\* The XADD is rejected, by Redis or because the connection ended, before or after it
\* took effect.  The first one starts the retry chains, whose "exit on success" is a
\* comment only; a chain tries again until maxRetries.
Refused(m, i) ==
    /\ call[m][i] = "sent" /\ refused < MaxRefused
    /\ refused' = refused + 1
    /\ tries' = [tries EXCEPT ![m][i] = @ + 1]
    /\ call' = [call EXCEPT ![m] = [j \in Calls |->
                    CASE i = 0 -> IF j = 0 THEN "failed" ELSE "sent"
                      [] i # 0 /\ j = i /\ tries[m][i] + 1 >= MaxRetries -> "failed"
                      [] OTHER -> @[j]]]
    /\ AnswerLost(m) \/ UNCHANGED <<redis, unanswered>>
    /\ UNCHANGED <<pc, work, stopping, done, faults>>

-------------------------------------------------------------------------------
(* The read loop of a process.                                             *)

\* initializeConsumerGroups and the start of readFromStream.
Boot(p) ==
    /\ pc[p] = "off"
    /\ group' = TRUE
    /\ cursor' = IF group THEN cursor ELSE 0
    /\ Goto(p, "loop")
    /\ stopping' = [stopping EXCEPT ![p] = FALSE]
    /\ UNCHANGED <<log, alive, pending, adds, work, done, faults>>

XReadGroup(p) ==
    /\ pc[p] = "loop" /\ ~stopping[p]
    /\ Goto(p, "blocked")
    /\ UNCHANGED <<redis, adds, work, stopping, done, faults>>

Fresh == {e \in alive : e > cursor}
Reply == {e \in Fresh : Cardinality({f \in Fresh : f < e}) < Batch}

\* Redis hands out the oldest Batch of the new entries, which become pending.
HandOut ==
    /\ group
    /\ \E last \in Reply : (\A e \in Reply : e <= last) /\ cursor' = last
    /\ pending' = pending \union Reply

\* The reply is this reader's.
Deliver(p) ==
    /\ pc[p] = "blocked" /\ HandOut
    /\ batch' = [batch EXCEPT ![p] = Reply]
    /\ Goto(p, "batch")
    /\ UNCHANGED <<log, alive, group, adds, running, ackIds, stopping, done, faults>>

\* BLOCK runs out and the loop asks again.
Timeout(p) ==
    /\ pc[p] = "blocked" /\ group /\ Fresh = {}
    /\ Goto(p, "loop")
    /\ UNCHANGED <<redis, adds, work, stopping, done, faults>>

\* Mutants of NoGroup: the loop just goes on; the group is set back to "0" although it
\* exists again.
NoGroupOnly(p) ==
    /\ pc[p] = "blocked" /\ ~group
    /\ Goto(p, "loop")
    /\ UNCHANGED <<redis, adds, work, stopping, done, faults>>

NoGroupReset(p) ==
    /\ pc[p] = "blocked"
    /\ group' = TRUE /\ cursor' = 0
    /\ Goto(p, "loop")
    /\ UNCHANGED <<log, alive, pending, adds, work, stopping, done, faults>>

\* NOGROUP: createConsumerGroupIfNotExists, from "0".
NoGroup(p) ==
    /\ pc[p] = "blocked" /\ ~group
    /\ group' = TRUE /\ cursor' = 0
    /\ Goto(p, "loop")
    /\ UNCHANGED <<log, alive, pending, adds, work, stopping, done, faults>>

\* Any other failure of XGROUP CREATE than BUSYGROUP is thrown out of the catch and out
\* of readFromStream: the rejection is logged and nobody reads in this process again.
NoGroupFails(p) ==
    /\ pc[p] = "blocked" /\ ~group
    /\ faults < MaxFaults
    /\ faults' = faults + 1
    /\ \/ UNCHANGED <<group, cursor>>
       \/ group' = TRUE /\ cursor' = 0
    /\ Goto(p, "ended")
    /\ UNCHANGED <<log, alive, pending, adds, work, stopping, done>>

\* Mutant of Start: no wait for a free slot, the entry is skipped.
StartOrSkip(p) ==
    /\ pc[p] = "batch"
    /\ \E e \in batch[p] :
        /\ \A f \in batch[p] : e <= f
        /\ running' = [running EXCEPT ![p] =
                          IF Cardinality(@) < MaxConcurrent THEN @ \union {e} ELSE @]
        /\ batch' = [batch EXCEPT ![p] = @ \ {e}]
    /\ UNCHANGED <<redis, adds, pc, ackIds, stopping, done, faults>>

\* The callback of the next entry starts once fewer than MaxConcurrent run.
Start(p) ==
    /\ pc[p] = "batch" /\ Cardinality(running[p]) < MaxConcurrent
    /\ \E e \in batch[p] :
        /\ \A f \in batch[p] : e <= f
        /\ running' = [running EXCEPT ![p] = @ \union {e}]
        /\ batch' = [batch EXCEPT ![p] = @ \ {e}]
    /\ UNCHANGED <<redis, adds, pc, ackIds, stopping, done, faults>>

\* The callback (sendEventToUser) of an entry is done.
Handled(p, e) ==
    /\ e \in running[p]
    /\ running' = [running EXCEPT ![p] = @ \ {e}]
    /\ ackIds' = [ackIds EXCEPT ![p] = @ \union {e}]
    /\ done' = done \union {e}
    /\ UNCHANGED <<redis, adds, pc, batch, stopping, faults>>

\* Mutant of Failed: acknowledged in the finally block.
FailedAcked(p, e) ==
    /\ e \in running[p] /\ faults < MaxFaults
    /\ faults' = faults + 1
    /\ running' = [running EXCEPT ![p] = @ \ {e}]
    /\ ackIds' = [ackIds EXCEPT ![p] = @ \union {e}]
    /\ UNCHANGED <<redis, adds, pc, batch, stopping, done>>

\* Its callback throws: logged, not acknowledged, never tried again.
Failed(p, e) ==
    /\ e \in running[p] /\ faults < MaxFaults
    /\ faults' = faults + 1
    /\ running' = [running EXCEPT ![p] = @ \ {e}]
    /\ UNCHANGED <<redis, adds, pc, batch, ackIds, stopping, done>>

BatchDone(p) == pc[p] = "batch" /\ batch[p] = {} /\ running[p] = {}

\* XACK of what succeeded; after quit the connection is closed and it fails.
Ack(p) ==
    /\ BatchDone(p)
    /\ pending' = IF stopping[p] THEN pending ELSE pending \ ackIds[p]
    /\ ackIds' = [ackIds EXCEPT ![p] = {}]
    /\ Goto(p, "loop")
    /\ UNCHANGED <<log, alive, group, cursor, adds, batch, running, stopping, done,
                   faults>>

\* XREADGROUP or XACK fails, then scheduleReconnect.  If XREADGROUP had reached Redis,
\* the new entries are pending and no reader has them; so are they when its answer was
\* lost and the client sends it again.
ReadError(p) ==
    /\ pc[p] = "blocked" \/ BatchDone(p)
    /\ faults < MaxFaults
    /\ faults' = faults + 1
    /\ \/ UNCHANGED <<cursor, pending>> /\ Goto(p, "backoff")
       \/ /\ pc[p] = "blocked" /\ HandOut
          /\ Goto(p, "backoff") \/ Goto(p, "blocked")
    /\ ackIds' = [ackIds EXCEPT ![p] = {}]
    /\ UNCHANGED <<log, alive, group, adds, batch, running, stopping, done>>

\* The delay is over and connectToRedis has new connections.
Reconnect(p) ==
    /\ pc[p] = "backoff"
    /\ Goto(p, "loop")
    /\ UNCHANGED <<redis, adds, work, stopping, done, faults>>

Shutdown(p) ==
    /\ pc[p] # "off" /\ ~stopping[p] /\ faults < MaxFaults
    /\ faults' = faults + 1
    /\ stopping' = [stopping EXCEPT ![p] = TRUE]
    /\ UNCHANGED <<redis, adds, pc, work, done>>

EndLoop(p) ==
    /\ pc[p] \in {"loop", "ended"} /\ stopping[p]
    /\ Goto(p, "off")
    /\ UNCHANGED <<redis, adds, work, stopping, done, faults>>

-------------------------------------------------------------------------------
\* The process dies: what it had taken stays pending.
Crash(p) ==
    /\ pc[p] # "off" /\ faults < MaxFaults
    /\ faults' = faults + 1
    /\ Goto(p, "off")
    /\ batch' = [batch EXCEPT ![p] = {}]
    /\ running' = [running EXCEPT ![p] = {}]
    /\ ackIds' = [ackIds EXCEPT ![p] = {}]
    /\ UNCHANGED <<redis, adds, stopping, done>>

\* XTRIM drops oldest entries, delivered or not.
Trim ==
    /\ alive # {} /\ faults < MaxFaults
    /\ faults' = faults + 1
    /\ alive' = alive \ {CHOOSE e \in alive : \A f \in alive : e <= f}
    /\ UNCHANGED <<log, group, cursor, pending, adds, pc, work, stopping, done>>

\* DEL takes the group with the stream.
DeleteStream ==
    /\ faults < MaxFaults
    /\ faults' = faults + 1
    /\ alive' = {} /\ pending' = {} /\ group' = FALSE
    /\ UNCHANGED <<log, cursor, adds, pc, work, stopping, done>>

Read(p) ==
    \/ Boot(p) \/ XReadGroup(p) \/ Deliver(p) \/ Timeout(p) \/ NoGroup(p)
    \/ Start(p) \/ (\E e \in running[p] : Handled(p, e)) \/ Ack(p)
    \/ Reconnect(p) \/ EndLoop(p)

Next ==
    \/ \E m \in Messages :
         \/ AddToStream(m)
         \/ \E i \in Calls : Added(m, i) \/ Resent(m, i) \/ Refused(m, i)
    \/ \E p \in Readers :
         \/ Read(p) \/ (\E e \in running[p] : Failed(p, e))
         \/ NoGroupFails(p) \/ ReadError(p) \/ Shutdown(p) \/ Crash(p)
    \/ Trim \/ DeleteStream

Spec == Init /\ [][Next]_vars

-------------------------------------------------------------------------------
Taken(p) == batch[p] \union running[p]
Held == UNION {Taken(p) : p \in Readers}
Queued == {e \in alive : ~group \/ e > cursor}
States == {"off", "sent", "added", "failed"}

TypeOK ==
    /\ log \in Seq(Messages) /\ alive \subseteq Ids /\ pending \subseteq Ids
    /\ group \in BOOLEAN /\ cursor \in 0..Len(log)
    /\ call \in [Messages -> [Calls -> States]]
    /\ tries \in [Messages -> [Calls -> 0..MaxRetries]]
    /\ pc \in [Readers -> {"off", "loop", "blocked", "batch", "backoff", "ended"}]
    /\ {batch, running, ackIds} \subseteq [Readers -> SUBSET Ids]
    /\ stopping \in [Readers -> BOOLEAN]
    /\ unanswered \in [Messages -> Nat]
    /\ done \subseteq Ids /\ refused \in 0..MaxRefused /\ faults \in 0..MaxFaults

Fate(e) ==
    IF e \notin Ids THEN "unborn"
    ELSE IF e \in Held THEN "taken"
    ELSE IF e \in done THEN "handled"
    ELSE IF e \in Queued THEN "queued"
    ELSE "lost"

Delivery == INSTANCE StreamDelivery
    WITH Entries <- 1..MaxLog, fate <- [e \in 1..MaxLog |-> Fate(e)],
         losses <- faults

\* Readers share the group and the consumer name, and the group may vanish and be
\* created again from "0" under their feet: still each entry is handled at most
\* once and lost only by a fault.
DeliverySpec == Delivery!Spec

\* No two processes ever run the callback of one entry.
OneTaker == \A p, q \in Readers : p # q => Taken(p) \cap Taken(q) = {}

\* At most MAX_CONCURRENT_PROCESSING callbacks of a process run at once.
Bounded == \A p \in Readers : Cardinality(running[p]) <= MaxConcurrent

\* An entry leaves the pending list only once its callback has succeeded or with
\* the stream itself, so what failed stays visible in Redis.
DroppedFromPending == [][~group' \/ pending \ pending' \subseteq done]_vars

\* A message is in the stream once for each XADD that was accepted, of which there is
\* one, or maxRetries if the first was refused, and once more for each whose answer was
\* lost, which the code or its client tries again on top.
Copies(m) == Cardinality({e \in Ids : log[e] = m})
CopiesBounded ==
    \A m \in Messages :
        Copies(m) <= unanswered[m] + IF call[m][0] = "failed" THEN MaxRetries ELSE 1

\* The state of the stream and its group: an entry is with one process, callbacks and
\* copies are bounded.
GroupHolds == TypeOK /\ OneTaker /\ Bounded /\ CopiesBounded

\* A message that was sent gets into the stream unless every try of every chain is
\* refused.
Persisted ==
    \A m \in Messages :
        call[m][0] = "sent" ~>
            \/ Copies(m) > 0
            \/ \A i \in Calls \ {0} : call[m][i] = "failed" /\ tries[m][i] >= MaxRetries

\* Whatever stops and starts, an entry in the stream is handled or lost to a fault, as
\* long as the read loop of some process has not ended in NoGroupFails.
Settled ==
    \A e \in 1..MaxLog : Fate(e) = "queued" ~>
        Fate(e) \in {"handled", "lost"} \/ \A p \in Readers : pc[p] = "ended"
===============================================================================
