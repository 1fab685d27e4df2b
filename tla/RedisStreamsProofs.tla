-------------------------- MODULE RedisStreamsProofs --------------------------
(***************************************************************************)
(* Proofs about RedisStreams for any messages, readers and bounds: each    *)
(* entry is with one reader, and the stream implements StreamDelivery.     *)
(***************************************************************************)
EXTENDS RedisStreams, FiniteSetTheorems, TLAPS

\* The part of TypeOK that the fate of entries depends on.
StreamTyped ==
    /\ log \in Seq(Messages) /\ Len(log) <= MaxLog
    /\ alive \subseteq Ids /\ done \subseteq Ids
    /\ group \in BOOLEAN /\ cursor \in 0..Len(log)
    /\ batch \in [Readers -> SUBSET Ids] /\ running \in [Readers -> SUBSET Ids]
    /\ pc \in [Readers -> {"off", "loop", "blocked", "batch", "backoff", "ended"}]
    /\ faults \in Nat

\* A reader has entries only while it works on a batch: no reply overwrites one.
OneBatch == \A p \in Readers : pc[p] = "batch" \/ Taken(p) = {}

\* An entry is in one place of one reader.
TakenApart ==
    /\ OneTaker
    /\ \A p \in Readers : batch[p] \cap running[p] = {}

\* What was handed out is not handed out again, nor handled while it is being handled.
TakenOnce ==
    /\ \A p \in Readers : \A e \in Taken(p) : e \notin done /\ e \notin Queued
    /\ \A e \in done : e \notin Queued

StreamInv == StreamTyped /\ OneBatch /\ TakenApart /\ TakenOnce

\* A step that leaves the entries and who has them as they were.
Quiet ==
    /\ UNCHANGED <<log, alive, batch, running, done>>
    /\ group' \in BOOLEAN /\ cursor' \in 0..Len(log)
    /\ Queued' = Queued
    /\ pc' \in [Readers -> {"off", "loop", "blocked", "batch", "backoff", "ended"}]
    /\ \A q \in Readers : pc'[q] = pc[q] \/ Taken(q) = {}
    /\ faults' \in {faults, faults + 1}

\* An XADD is sent, or refused before it took effect.
QuietAdd(m) ==
    \/ AddToStream(m)
    \/ \E i \in Calls : Refused(m, i) /\ UNCHANGED redis

\* The steps that only move a reader, an XADD or the group: a group that is created
\* anew reads from "0", which is where a missing group stands.
LEMMA QuietSteps ==
    ASSUME StreamTyped, OneBatch,
           \/ \E m \in Messages : QuietAdd(m)
           \/ \E p \in Readers :
                \/ Boot(p) \/ XReadGroup(p) \/ Timeout(p) \/ NoGroup(p) \/ NoGroupFails(p)
                \/ Ack(p) \/ Reconnect(p) \/ Shutdown(p) \/ EndLoop(p)
           \/ UNCHANGED vars
    PROVE  Quiet
<1>. USE DEF redis, adds, work, Goto
<1>1. \A e \in alive : e > 0
  BY DEF StreamTyped, Ids
<1>2. ASSUME NEW m \in Messages, QuietAdd(m)
      PROVE  Quiet
  BY <1>2 DEF QuietAdd, AddToStream, Refused, Quiet, Queued, StreamTyped
<1>3. ASSUME NEW p \in Readers, Boot(p) \/ NoGroup(p)
      PROVE  Quiet
  <2>1. Queued' = Queued
    BY <1>1, <1>3 DEF Boot, NoGroup, Queued
  <2>2. cursor' \in 0..Len(log)
    BY <1>3 DEF Boot, NoGroup, StreamTyped
  <2>3. pc[p] # "batch" /\ pc' = [pc EXCEPT ![p] = "loop"]
    BY <1>3 DEF Boot, NoGroup
  <2>4. \A q \in Readers : pc'[q] = pc[q] \/ Taken(q) = {}
    BY <2>3 DEF StreamTyped, OneBatch
  <2>. QED
    BY <1>3, <2>1, <2>2, <2>3, <2>4 DEF Boot, NoGroup, Quiet, StreamTyped
<1>4. ASSUME NEW p \in Readers,
             \/ XReadGroup(p) \/ Timeout(p) \/ Ack(p) \/ Reconnect(p) \/ Shutdown(p)
             \/ EndLoop(p)
      PROVE  Quiet
  <2>1. /\ UNCHANGED <<log, alive, group, cursor, batch, running, done>>
        /\ faults' \in {faults, faults + 1}
    BY <1>4 DEF XReadGroup, Timeout, Ack, Reconnect, Shutdown, EndLoop
  <2>2. /\ pc' \in [Readers -> {"off", "loop", "blocked", "batch", "backoff", "ended"}]
        /\ \A q \in Readers : q # p => pc'[q] = pc[q]
    BY <1>4 DEF XReadGroup, Timeout, Ack, Reconnect, Shutdown, EndLoop, StreamTyped
  <2>3. pc'[p] = pc[p] \/ Taken(p) = {}
    BY <1>4 DEF XReadGroup, Timeout, Ack, Reconnect, Shutdown, EndLoop, BatchDone, Taken,
                OneBatch
  <2>4. Queued' = Queued
    BY <2>1 DEF Queued
  <2>. QED
    BY <2>1, <2>2, <2>3, <2>4 DEF Quiet, StreamTyped
<1>5. CASE UNCHANGED vars
  BY <1>5 DEF vars, Quiet, Queued, StreamTyped
<1>6. ASSUME NEW p \in Readers, NoGroupFails(p)
      PROVE  Quiet
  <2>1. Queued' = Queued
    BY <1>1, <1>6 DEF NoGroupFails, Queued
  <2>5. group' \in BOOLEAN
    BY <1>6, Zenon DEF NoGroupFails, StreamTyped
  <2>6. cursor' \in {cursor, 0}
    BY <1>6 DEF NoGroupFails
  <2>2. cursor' \in 0..Len(log) /\ group' \in BOOLEAN
    BY <2>5, <2>6 DEF StreamTyped
  <2>3. pc[p] # "batch" /\ pc' = [pc EXCEPT ![p] = "ended"]
    BY <1>6 DEF NoGroupFails
  <2>4. \A q \in Readers : pc'[q] = pc[q] \/ Taken(q) = {}
    BY <2>3 DEF StreamTyped, OneBatch
  <2>. QED
    BY <1>6, <2>1, <2>2, <2>3, <2>4 DEF NoGroupFails, Quiet, StreamTyped
<1>. QED
  BY <1>2, <1>3, <1>4, <1>5, <1>6

\* An entry is added, whether or not the answer comes back.
Appends ==
    \E m \in Messages : Append1(m) /\ UNCHANGED <<pc, batch, running, done, faults>>

LEMMA AddingSteps ==
    ASSUME StreamTyped, OneBatch, NEW m \in Messages,
           \/ AddToStream(m)
           \/ \E i \in Calls : Added(m, i) \/ Resent(m, i) \/ Refused(m, i)
    PROVE  Appends \/ Quiet
<1>1. CASE AddToStream(m)
  <2>1. QuietAdd(m)
    BY <1>1 DEF QuietAdd
  <2>. QED
    BY <2>1, QuietSteps
<1>2. ASSUME NEW i \in Calls, Added(m, i) \/ Resent(m, i) \/ Refused(m, i)
      PROVE  Appends \/ Quiet
  <2>1. Appends \/ (Refused(m, i) /\ UNCHANGED redis)
    BY <1>2 DEF Added, Resent, Refused, AnswerLost, Appends, work
  <2>2. CASE Refused(m, i) /\ UNCHANGED redis
    <3>1. QuietAdd(m)
      BY <2>2 DEF QuietAdd
    <3>. QED
      BY <3>1, QuietSteps
  <2>. QED
    BY <2>1, <2>2
<1>. QED
  BY <1>1, <1>2

\* What HandOut hands out is what was queued up to the new position of the group.
LEMMA HandsOut ==
    ASSUME StreamTyped, HandOut
    PROVE  /\ Reply \subseteq Queued /\ Reply # {} /\ Reply \subseteq Ids
           /\ cursor' \in Ids
           /\ \A e \in Queued : e \in Reply <=> e <= cursor'
           /\ group
<1>1. PICK last \in Reply : (\A e \in Reply : e <= last) /\ cursor' = last
  BY DEF HandOut
<1>2. Len(log) \in Nat /\ alive \subseteq 1..Len(log) /\ Fresh \subseteq alive
  <2>1. log \in Seq(Messages) /\ alive \subseteq 1..Len(log)
    BY DEF StreamTyped, Ids
  <2>2. Fresh \subseteq alive
    BY DEF Fresh
  <2>. QED
    BY <2>1, <2>2
<1>3. IsFiniteSet(Fresh)
  <2>1. IsFiniteSet(1..Len(log))
    BY <1>2, FS_Interval
  <2>2. Fresh \subseteq 1..Len(log)
    BY <1>2
  <2>. QED
    BY <2>1, <2>2, FS_Subset
<1>4. group /\ Fresh = Queued
  BY DEF HandOut, Fresh, Queued
<1>5. ASSUME NEW e \in Fresh, e <= last
      PROVE  e \in Reply
  <2>. DEFINE Before(x) == {f \in Fresh : f < x}
  <2>1. last \in Fresh /\ Cardinality(Before(last)) < Batch
    BY DEF Reply
  <2>2. Before(e) \subseteq Before(last)
    <3>1. \A f \in Fresh : f \in Nat
      BY <1>2
    <3>2. e \in Nat /\ last \in Nat /\ e <= last
      BY <1>5, <2>1, <3>1
    <3>3. \A f \in Fresh : f < e => f < last
      BY <3>1, <3>2
    <3>. QED
      BY <3>3
  <2>3. IsFiniteSet(Before(last)) /\ IsFiniteSet(Before(e))
    <3>1. Before(last) \subseteq Fresh /\ Before(e) \subseteq Fresh
      OBVIOUS
    <3>. HIDE DEF Before
    <3>. QED
      BY <1>3, <3>1, FS_Subset
  <2>4. Cardinality(Before(e)) <= Cardinality(Before(last))
    BY <2>2, <2>3, FS_Subset
  <2>5. Cardinality(Before(e)) \in Nat /\ Cardinality(Before(last)) \in Nat
    BY <2>3, FS_CardinalityType
  <2>6. Cardinality(Before(e)) < Batch
    BY <2>1, <2>4, <2>5, RedisStreamsAssumption
  <2>. QED
    BY <2>6 DEF Reply
<1>. QED
  BY <1>1, <1>2, <1>4, <1>5 DEF Reply, Ids

-------------------------------------------------------------------------------
(* Each action keeps the invariant.                                        *)

\* Who has an entry, spelled out.
LEMMA HeldBySome ==
    /\ \A e : e \in Held <=> \E p \in Readers : e \in batch[p] \/ e \in running[p]
    /\ \A e : e \in Held' <=> \E p \in Readers : e \in batch'[p] \/ e \in running'[p]
  BY DEF Held, Taken

LEMMA QuietKeeps ==
    ASSUME StreamInv, Quiet
    PROVE  StreamInv'
<1>1. StreamTyped'
  BY DEF StreamInv, StreamTyped, Quiet, Ids
<1>2. TakenApart' /\ TakenOnce' /\ OneBatch'
  BY DEF StreamInv, TakenApart, TakenOnce, OneBatch, OneTaker, Taken, Quiet
<1>. QED
  BY <1>1, <1>2 DEF StreamInv

\* A new entry lies behind the group's position.
LEMMA AddedKeeps ==
    ASSUME StreamInv, Appends
    PROVE  StreamInv' /\ Queued' = Queued \union {Len(log) + 1} /\ Len(log') = Len(log) + 1
<1>. USE DEF redis, adds, work
<1>0. PICK m \in Messages : Append1(m) /\ UNCHANGED <<pc, batch, running, done, faults>>
  BY DEF Appends
<1>1. Len(log) \in Nat /\ Len(log) < MaxLog /\ log' = Append(log, m)
  BY <1>0 DEF StreamInv, StreamTyped, Append1
<1>2. Len(log') = Len(log) + 1 /\ log' \in Seq(Messages)
  BY <1>1 DEF StreamInv, StreamTyped
<1>3. Ids' = Ids \union {Len(log) + 1} /\ Len(log) + 1 \notin Ids
  BY <1>1, <1>2 DEF Ids
<1>4. Queued' = Queued \union {Len(log) + 1}
  BY <1>0, <1>1 DEF StreamInv, StreamTyped, Append1, Queued
<1>5. StreamTyped'
  BY <1>0, <1>1, <1>2, <1>3, RedisStreamsAssumption DEF StreamInv, StreamTyped, Append1
<1>6. TakenApart'
  BY <1>0 DEF StreamInv, TakenApart, OneTaker, Taken
<1>8. OneBatch'
  BY <1>0 DEF StreamInv, OneBatch, Taken
<1>7. TakenOnce'
  BY <1>0, <1>3, <1>4 DEF StreamInv, StreamTyped, TakenOnce, Taken
<1>. QED
  BY <1>2, <1>4, <1>5, <1>6, <1>7, <1>8 DEF StreamInv

\* Entries handed out leave the queue, whether or not the reader gets them.
LEMMA HandOutQueue ==
    ASSUME StreamTyped, HandOut, UNCHANGED <<alive, group>>
    PROVE  Queued' = Queued \ Reply /\ cursor' \in 0..Len(log)
<1>1. \A e \in Queued : e \in Reply <=> e <= cursor'
  BY HandsOut
<1>2. cursor' \in 1..Len(log) /\ group
  BY HandsOut DEF Ids
<1>3. Queued = {e \in alive : e > cursor} /\ Queued' = {e \in alive : e > cursor'}
  BY <1>2 DEF Queued
<1>4. alive \subseteq 1..Len(log) /\ Len(log) \in Nat /\ cursor \in 0..Len(log)
  BY DEF StreamTyped, Ids
<1>5. cursor' > cursor
  <2>1. PICK e \in Reply : e = cursor'
    BY DEF HandOut
  <2>. QED
    BY <1>2, <2>1 DEF Reply, Fresh
<1>6. \A e \in alive : e \in Nat
  BY <1>4
<1>7. Queued' = Queued \ Reply
  <2>. HIDE DEF Queued
  <2>1. ASSUME NEW e \in Queued'
        PROVE  e \in Queued /\ e \notin Reply
    <3>1. e \in alive /\ e > cursor' /\ e \in Nat
      BY <1>3, <1>6
    <3>2. e > cursor /\ ~(e <= cursor')
      BY <1>2, <1>4, <1>5, <3>1
    <3>. QED
      BY <1>1, <1>3, <3>1, <3>2
  <2>2. ASSUME NEW e \in Queued, e \notin Reply
        PROVE  e \in Queued'
    <3>1. e \in alive /\ e \in Nat /\ ~(e <= cursor')
      BY <1>1, <1>3, <1>6, <2>2
    <3>2. e > cursor'
      BY <1>2, <3>1
    <3>. QED
      BY <1>3, <3>1, <3>2
  <2>. QED
    BY <2>1, <2>2
<1>. QED
  BY <1>2, <1>4, <1>7

LEMMA DeliverKeeps ==
    ASSUME StreamInv, NEW p \in Readers, Deliver(p)
    PROVE  StreamInv'
<1>1. batch' = [batch EXCEPT ![p] = Reply] /\ HandOut
      /\ UNCHANGED <<log, alive, group, running, done, faults>>
      /\ pc' = [pc EXCEPT ![p] = "batch"]
  BY DEF Deliver, Goto
<1>2. /\ Queued' = Queued \ Reply /\ cursor' \in 0..Len(log)
      /\ Reply \subseteq Queued /\ Reply \subseteq Ids
  BY <1>1, HandOutQueue, HandsOut DEF StreamInv
<1>3. StreamTyped'
  BY <1>1, <1>2 DEF StreamInv, StreamTyped, Ids
<1>4. \A q \in Readers : Taken(q)' = IF q = p THEN Reply \union running[p] ELSE Taken(q)
  BY <1>1 DEF StreamInv, StreamTyped, Taken
<1>5. \A q \in Readers : Taken(q) \cap Reply = {}
  BY <1>2 DEF StreamInv, TakenOnce
<1>6. TakenApart'
  <2>1. OneTaker'
    BY <1>4, <1>5 DEF StreamInv, TakenApart, OneTaker, Taken
  <2>2. ASSUME NEW q \in Readers
        PROVE  batch'[q] \cap running'[q] = {}
    <3>1. batch[q] \cap running[q] = {} /\ Reply \cap running[q] = {}
      BY <1>5 DEF StreamInv, TakenApart, Taken
    <3>2. batch'[q] \in {batch[q], Reply} /\ running' = running
      BY <1>1 DEF StreamInv, StreamTyped
    <3>. QED
      BY <3>1, <3>2
  <2>. QED
    BY <2>1, <2>2 DEF TakenApart
<1>7. TakenOnce'
  BY <1>1, <1>2, <1>4 DEF StreamInv, TakenOnce, Taken
<1>8. OneBatch'
  BY <1>1, <1>4 DEF StreamInv, StreamTyped, OneBatch
<1>. QED
  BY <1>3, <1>6, <1>7, <1>8 DEF StreamInv

\* The callback of an entry starts: the entry stays with its reader.
LEMMA StartKeeps ==
    ASSUME StreamInv, NEW p \in Readers, Start(p)
    PROVE  /\ StreamInv' /\ Queued' = Queued
           /\ \A q \in Readers : Taken(q)' = Taken(q)
<1>1. PICK e \in batch[p] :
        /\ running' = [running EXCEPT ![p] = @ \union {e}]
        /\ batch' = [batch EXCEPT ![p] = @ \ {e}]
  BY DEF Start
<1>2. UNCHANGED <<log, alive, group, cursor, done, faults, pc>>
  BY DEF Start, redis
<1>3. StreamTyped'
  BY <1>1, <1>2 DEF StreamInv, StreamTyped, Ids
<1>4. \A q \in Readers : Taken(q)' = Taken(q)
  BY <1>1 DEF StreamInv, StreamTyped, Taken
<1>5. Queued' = Queued
  BY <1>2 DEF Queued
<1>6. \A q \in Readers : batch'[q] \cap running'[q] = {}
  BY <1>1 DEF StreamInv, StreamTyped, TakenApart
<1>7. TakenApart' /\ TakenOnce' /\ OneBatch'
  BY <1>2, <1>4, <1>5, <1>6 DEF StreamInv, TakenApart, TakenOnce, OneTaker, OneBatch
<1>. QED
  BY <1>3, <1>4, <1>5, <1>7 DEF StreamInv

\* A callback ends, well or not: its entry leaves the reader.
LEMMA EndKeeps ==
    ASSUME StreamInv, NEW p \in Readers, NEW e \in running[p],
           Handled(p, e) \/ Failed(p, e)
    PROVE  /\ StreamInv' /\ Queued' = Queued
           /\ \A q \in Readers : Taken(q)' = IF q = p THEN Taken(q) \ {e} ELSE Taken(q)
           /\ \A q \in Readers : q # p => e \notin Taken(q)
           /\ e \in Ids /\ e \notin done /\ e \notin Queued
<1>1. /\ running' = [running EXCEPT ![p] = @ \ {e}]
      /\ done' \in {done, done \union {e}}
      /\ UNCHANGED <<log, alive, group, cursor, batch, pc>>
      /\ faults' \in {faults, faults + 1}
  BY DEF Handled, Failed, redis
<1>2. e \in Taken(p) /\ e \in Ids /\ e \notin batch[p]
  BY DEF StreamInv, StreamTyped, TakenApart, Taken
<1>3. \A q \in Readers : q # p => e \notin Taken(q)
  BY <1>2 DEF StreamInv, TakenApart, OneTaker
<1>4. e \notin done /\ e \notin Queued
  BY <1>2 DEF StreamInv, TakenOnce
<1>5. \A q \in Readers : Taken(q)' = IF q = p THEN Taken(q) \ {e} ELSE Taken(q)
  BY <1>1, <1>2 DEF StreamInv, StreamTyped, Taken
<1>6. Queued' = Queued
  BY <1>1 DEF Queued
<1>7. StreamTyped'
  BY <1>1, <1>2 DEF StreamInv, StreamTyped, Ids
<1>8. TakenApart'
  BY <1>1, <1>5 DEF StreamInv, StreamTyped, TakenApart, OneTaker
<1>9. TakenOnce' /\ OneBatch'
  BY <1>1, <1>3, <1>4, <1>5, <1>6 DEF StreamInv, TakenOnce, OneBatch
<1>. QED
  BY <1>2, <1>3, <1>4, <1>5, <1>6, <1>7, <1>8, <1>9 DEF StreamInv

\* A failing read may take entries out of the queue that nobody gets.
LEMMA ErrorKeeps ==
    ASSUME StreamInv, NEW p \in Readers, ReadError(p)
    PROVE  /\ StreamInv'
           /\ \A q \in Readers : Taken(q)' = Taken(q)
           /\ Queued' = Queued \/ (HandOut /\ Queued' = Queued \ Reply)
<1>1. /\ UNCHANGED <<log, alive, group, batch, running, done>> /\ faults' = faults + 1
      /\ cursor' = cursor \/ HandOut
      /\ \E l \in {"backoff", "blocked"} : pc' = [pc EXCEPT ![p] = l]
  BY DEF ReadError, Goto
<1>2. cursor' = cursor => Queued' = Queued
  BY <1>1 DEF Queued
<1>3. HandOut => Queued' = Queued \ Reply /\ cursor' \in 0..Len(log)
  BY <1>1, HandOutQueue DEF StreamInv
<1>4. StreamTyped'
  BY <1>1, <1>3 DEF StreamInv, StreamTyped, Ids
<1>5. \A q \in Readers : Taken(q)' = Taken(q)
  BY <1>1 DEF Taken
<1>6. TakenApart' /\ TakenOnce'
  BY <1>1, <1>2, <1>3, <1>5 DEF StreamInv, TakenApart, TakenOnce, OneTaker
<1>7. Taken(p) = {}
  BY DEF StreamInv, OneBatch, ReadError, BatchDone, Taken
<1>8. OneBatch'
  BY <1>1, <1>5, <1>7 DEF StreamInv, StreamTyped, OneBatch
<1>. QED
  BY <1>1, <1>2, <1>3, <1>4, <1>5, <1>6, <1>8 DEF StreamInv

\* A reader that dies has nothing any more.
LEMMA CrashKeeps ==
    ASSUME StreamInv, NEW p \in Readers, Crash(p)
    PROVE  /\ StreamInv' /\ Queued' = Queued
           /\ \A q \in Readers : Taken(q)' = IF q = p THEN {} ELSE Taken(q)
<1>1. /\ batch' = [batch EXCEPT ![p] = {}] /\ running' = [running EXCEPT ![p] = {}]
      /\ UNCHANGED <<log, alive, group, cursor, done>> /\ faults' = faults + 1
      /\ pc' = [pc EXCEPT ![p] = "off"]
  BY DEF Crash, redis, Goto
<1>2. Queued' = Queued
  BY <1>1 DEF Queued
<1>3. StreamTyped'
  BY <1>1 DEF StreamInv, StreamTyped, Ids
<1>4. \A q \in Readers : Taken(q)' = IF q = p THEN {} ELSE Taken(q)
  BY <1>1 DEF StreamInv, StreamTyped, Taken
<1>5. \A q \in Readers : batch'[q] \cap running'[q] = {}
  BY <1>1 DEF StreamInv, StreamTyped, TakenApart
<1>6. TakenApart' /\ TakenOnce' /\ OneBatch'
  BY <1>1, <1>2, <1>4, <1>5
     DEF StreamInv, StreamTyped, TakenApart, TakenOnce, OneTaker, OneBatch
<1>. QED
  BY <1>2, <1>3, <1>4, <1>6 DEF StreamInv

\* Entries that are dropped from the stream leave the queue only.
LEMMA DropKeeps ==
    ASSUME StreamInv, Trim \/ DeleteStream
    PROVE  /\ StreamInv' /\ Queued' \subseteq Queued
           /\ UNCHANGED <<log, batch, running, done>> /\ faults' = faults + 1
<1>1. /\ UNCHANGED <<log, cursor, batch, running, done, pc>> /\ faults' = faults + 1
      /\ alive' \subseteq alive /\ group' \in BOOLEAN
      /\ group' = group \/ alive' = {}
  BY DEF Trim, DeleteStream, work, StreamInv, StreamTyped
<1>2. Queued' \subseteq Queued
  BY <1>1 DEF Queued
<1>3. StreamTyped'
  BY <1>1 DEF StreamInv, StreamTyped, Ids
<1>4. TakenApart' /\ TakenOnce' /\ OneBatch'
  BY <1>1, <1>2 DEF StreamInv, TakenApart, TakenOnce, OneTaker, OneBatch, Taken
<1>. QED
  BY <1>1, <1>2, <1>3, <1>4 DEF StreamInv

\* The invariant of the stream: an entry is with one reader, in one place, and neither
\* waits nor was handled while it is.
THEOREM StreamInvariant == Spec => []StreamInv
<1>1. Init => StreamInv
  <2>. SUFFICES ASSUME Init PROVE StreamInv
    OBVIOUS
  <2>1. log \in Seq(Messages) /\ Len(log) = 0
    BY DEF Init
  <2>2. StreamTyped
    <3>1. MaxLog \in Nat /\ Len(log) <= MaxLog
      BY <2>1, RedisStreamsAssumption
    <3>2. cursor \in 0..Len(log) /\ faults \in Nat /\ group \in BOOLEAN
      <4>1. cursor = 0 /\ faults = 0 /\ group = FALSE
        BY DEF Init
      <4>2. cursor \in 0..Len(log) /\ faults \in Nat
        BY <2>1, <4>1
      <4>. QED
        BY <4>1, <4>2
    <3>3. alive = {} /\ done = {}
      BY DEF Init
    <3>4. /\ batch \in [Readers -> SUBSET Ids] /\ running \in [Readers -> SUBSET Ids]
          /\ pc \in [Readers -> {"off", "loop", "blocked", "batch", "backoff", "ended"}]
      BY DEF Init
    <3>. QED
      BY <2>1, <3>1, <3>2, <3>3, <3>4 DEF StreamTyped
  <2>3. TakenApart /\ TakenOnce /\ OneBatch
    BY DEF Init, TakenApart, TakenOnce, OneTaker, OneBatch, Taken
  <2>. QED
    BY <2>2, <2>3 DEF StreamInv
<1>2. StreamInv /\ [Next]_vars => StreamInv'
  <2>. SUFFICES ASSUME StreamInv, [Next]_vars
                PROVE  StreamInv'
    OBVIOUS
  <2>1. ASSUME Quiet PROVE StreamInv'
    BY <2>1, QuietKeeps
  <2>2. StreamTyped /\ OneBatch
    BY DEF StreamInv
  <2>3. ASSUME NEW m \in Messages,
               \/ AddToStream(m)
               \/ \E i \in Calls : Added(m, i) \/ Resent(m, i) \/ Refused(m, i)
        PROVE  StreamInv'
    BY <2>1, <2>2, <2>3, AddingSteps, AddedKeeps
  <2>4. ASSUME NEW p \in Readers, Read(p)
        PROVE  StreamInv'
    BY <2>1, <2>2, <2>4, QuietSteps, DeliverKeeps, StartKeeps, EndKeeps DEF Read
  <2>5. ASSUME NEW p \in Readers,
               \/ (\E e \in running[p] : Failed(p, e)) \/ NoGroupFails(p) \/ ReadError(p)
               \/ Shutdown(p) \/ Crash(p)
        PROVE  StreamInv'
    BY <2>1, <2>2, <2>5, QuietSteps, EndKeeps, ErrorKeeps, CrashKeeps
  <2>6. CASE Trim \/ DeleteStream
    BY <2>6, DropKeeps
  <2>7. CASE UNCHANGED vars
    BY <2>1, <2>2, <2>7, QuietSteps
  <2>. QED
    BY <2>3, <2>4, <2>5, <2>6, <2>7 DEF Next
<1>. QED
  BY <1>1, <1>2, PTL DEF Spec

\* No two processes ever run the callback of one entry, though they read one group
\* under one consumer name and the group may be created again from "0".
THEOREM AlwaysOneTaker == Spec => []OneTaker
<1>1. StreamInv => OneTaker
  BY DEF StreamInv, TakenApart
<1>. QED
  BY <1>1, StreamInvariant, PTL

\* What a reader is about to acknowledge has been handled.
AckedDone == ackIds \in [Readers -> SUBSET done]

LEMMA AckedDoneStep ==
    ASSUME AckedDone, [Next]_vars
    PROVE  AckedDone' /\ (~group' \/ pending \ pending' \subseteq done)
<1>. USE DEF redis, adds, work
<1>1. ASSUME UNCHANGED <<ackIds, done>>, pending \subseteq pending' \/ ~group'
      PROVE  AckedDone' /\ (~group' \/ pending \ pending' \subseteq done)
  BY <1>1 DEF AckedDone
<1>2. ASSUME NEW m \in Messages,
             \/ AddToStream(m)
             \/ \E i \in Calls : Added(m, i) \/ Resent(m, i) \/ Refused(m, i)
      PROVE  UNCHANGED <<ackIds, done, pending>>
  BY <1>2 DEF AddToStream, Added, Append1, Resent, Refused, AnswerLost
<1>3. ASSUME NEW p \in Readers,
             \/ Boot(p) \/ XReadGroup(p) \/ Deliver(p) \/ Timeout(p) \/ NoGroup(p)
             \/ Start(p) \/ Reconnect(p) \/ EndLoop(p) \/ Shutdown(p) \/ NoGroupFails(p)
      PROVE  UNCHANGED <<ackIds, done>> /\ pending \subseteq pending'
  BY <1>3 DEF Boot, XReadGroup, Deliver, HandOut, Timeout, NoGroup, NoGroupFails, Start, Reconnect,
              EndLoop, Shutdown
<1>4. ASSUME NEW p \in Readers, NEW e \in running[p], Handled(p, e)
      PROVE  AckedDone' /\ pending' = pending
  <2>1. ackIds' = [ackIds EXCEPT ![p] = @ \union {e}] /\ done' = done \union {e}
    BY <1>4 DEF Handled
  <2>. QED
    BY <1>4, <2>1 DEF Handled, AckedDone
<1>5. ASSUME NEW p \in Readers, NEW e \in running[p], Failed(p, e)
      PROVE  UNCHANGED <<ackIds, done, pending>>
  BY <1>5 DEF Failed
<1>6. ASSUME NEW p \in Readers, Ack(p) \/ ReadError(p) \/ Crash(p)
      PROVE  AckedDone' /\ pending \ pending' \subseteq done
  <2>1. ackIds' = [ackIds EXCEPT ![p] = {}] /\ done' = done
    BY <1>6 DEF Ack, ReadError, Crash
  <2>2. AckedDone'
    BY <2>1 DEF AckedDone
  <2>3. pending \subseteq pending' \/ pending' = pending \ ackIds[p]
    BY <1>6 DEF Ack, ReadError, HandOut, Crash
  <2>4. ackIds[p] \subseteq done
    BY DEF AckedDone
  <2>. QED
    BY <2>2, <2>3, <2>4
<1>7. ASSUME Trim \/ DeleteStream
      PROVE  UNCHANGED <<ackIds, done>> /\ (pending' = pending \/ ~group')
  BY <1>7 DEF Trim, DeleteStream
<1>8. ASSUME UNCHANGED vars
      PROVE  UNCHANGED <<ackIds, done, pending>>
  BY <1>8 DEF vars
<1>. QED
  BY <1>1, <1>2, <1>3, <1>4, <1>5, <1>6, <1>7, <1>8 DEF Next, Read

LEMMA AckedAlwaysDone == Spec => []AckedDone
<1>1. Init => AckedDone
  BY DEF Init, AckedDone
<1>2. AckedDone /\ [Next]_vars => AckedDone'
  BY AckedDoneStep
<1>. QED
  BY <1>1, <1>2, PTL DEF Spec

\* An entry leaves the pending list only once its callback has succeeded or with the
\* stream, whatever fails, stops or crashes between the callback and the XACK.
THEOREM PendingUntilDone == Spec => DroppedFromPending
<1>1. AckedDone /\ [Next]_vars => [~group' \/ pending \ pending' \subseteq done]_vars
  BY AckedDoneStep
<1>. QED
  BY <1>1, AckedAlwaysDone, PTL DEF Spec, DroppedFromPending

-------------------------------------------------------------------------------
(* The copies of a message: the state of its XADDs accounts for them.      *)

\* The XADDs of a message that were accepted.
Accepted(m) == {i \in Calls : call[m][i] = "added"}

\* Chains start with the refusal of the first XADD, a call under way has a try left,
\* and each accepted call has put one copy into the stream, as has each lost answer.
AddsInv ==
    /\ call \in [Messages -> [Calls -> States]]
    /\ tries \in [Messages -> [Calls -> 0..MaxRetries]]
    /\ unanswered \in [Messages -> Nat]
    /\ \A m \in Messages :
        /\ call[m][0] # "failed" => \A i \in Calls \ {0} : call[m][i] = "off"
        /\ \A i \in Calls : /\ call[m][i] = "off" => tries[m][i] = 0
                            /\ call[m][i] = "sent" => tries[m][i] < MaxRetries
        /\ Copies(m) = Cardinality(Accepted(m)) + unanswered[m]

LEMMA CallsFinite ==
    /\ 0 \in Calls /\ IsFiniteSet(Calls)
    /\ \A m : IsFiniteSet(Accepted(m)) /\ Cardinality(Accepted(m)) \in Nat
<1>1. MaxRetries \in Nat \ {0}
  BY RedisStreamsAssumption
<1>2. 0 \in Calls /\ IsFiniteSet(Calls)
  BY <1>1, FS_Interval DEF Calls
<1>3. ASSUME NEW m
      PROVE  IsFiniteSet(Accepted(m)) /\ Cardinality(Accepted(m)) \in Nat
  <2>1. Accepted(m) \subseteq Calls
    BY DEF Accepted
  <2>. QED
    BY <1>2, <2>1, FS_Subset, FS_CardinalityType
<1>. QED
  BY <1>2, <1>3

\* An XADD that takes effect puts one copy of its message at the end.
LEMMA CopyAdded ==
    ASSUME StreamTyped, NEW m \in Messages, Append1(m), NEW n \in Messages
    PROVE  Copies(n)' = IF n = m THEN Copies(n) + 1 ELSE Copies(n)
<1>. DEFINE Of(x) == {e \in Ids : log[e] = x}
            OfNext(x) == {e \in Ids' : log'[e] = x}
            new == Len(log) + 1
<1>1. log \in Seq(Messages) /\ Len(log) \in Nat /\ log' = Append(log, m)
  BY DEF StreamTyped, Append1
<1>2. Ids' = Ids \union {new} /\ new \notin Ids
  BY <1>1 DEF Ids
<1>3. \A e \in Ids : log'[e] = log[e]
  BY <1>1 DEF Ids
<1>4. log'[new] = m
  BY <1>1
<1>5. OfNext(n) = IF n = m THEN Of(n) \union {new} ELSE Of(n)
  BY <1>2, <1>3, <1>4
<1>6. IsFiniteSet(Of(n)) /\ new \notin Of(n)
  <2>1. IsFiniteSet(Ids)
    BY <1>1, FS_Interval DEF Ids
  <2>2. Of(n) \subseteq Ids
    OBVIOUS
  <2>. HIDE DEF Of
  <2>3. IsFiniteSet(Of(n))
    BY <2>1, <2>2, FS_Subset
  <2>. QED
    BY <1>2, <2>2, <2>3
<1>7. Copies(n) = Cardinality(Of(n)) /\ Copies(n)' = Cardinality(OfNext(n))
  BY DEF Copies
<1>. HIDE DEF Of, OfNext, new
<1>8. Cardinality(Of(n) \union {new}) = Cardinality(Of(n)) + 1
  BY <1>6, FS_AddElement
<1>. QED
  BY <1>5, <1>7, <1>8

\* The copy of an XADD whose answer is lost is counted as such.
LEMMA UnansweredCopy ==
    ASSUME StreamTyped, AddsInv, NEW m \in Messages, AnswerLost(m),
           \A n \in Messages : Accepted(n)' = Accepted(n)
    PROVE  /\ unanswered' \in [Messages -> Nat]
           /\ \A n \in Messages : Copies(n)' = Cardinality(Accepted(n)') + unanswered'[n]
<1>1. Append1(m) /\ unanswered' = [unanswered EXCEPT ![m] = @ + 1]
  BY DEF AnswerLost
<1>2. unanswered \in [Messages -> Nat]
  BY DEF AddsInv
<1>3. unanswered' \in [Messages -> Nat]
  BY <1>1, <1>2
<1>4. ASSUME NEW n \in Messages
      PROVE  Copies(n)' = Cardinality(Accepted(n)') + unanswered'[n]
  <2>1. /\ Copies(n) = Cardinality(Accepted(n)) + unanswered[n] /\ unanswered[n] \in Nat
        /\ unanswered'[n] = IF n = m THEN unanswered[n] + 1 ELSE unanswered[n]
    BY <1>1, <1>2 DEF AddsInv
  <2>2. Cardinality(Accepted(n)) \in Nat
    BY CallsFinite
  <2>3. Copies(n)' = IF n = m THEN Copies(n) + 1 ELSE Copies(n)
    BY <1>1, CopyAdded
  <2>4. Cardinality(Accepted(n)') = Cardinality(Accepted(n))
    OBVIOUS
  <2>. QED
    BY <2>1, <2>2, <2>3, <2>4
<1>. QED
  BY <1>3, <1>4

LEMMA UnchangedCopy ==
    ASSUME AddsInv, UNCHANGED <<log, unanswered>>,
           \A n \in Messages : Accepted(n)' = Accepted(n)
    PROVE  /\ unanswered' \in [Messages -> Nat]
           /\ \A n \in Messages : Copies(n)' = Cardinality(Accepted(n)') + unanswered'[n]
  BY DEF AddsInv, Copies, Ids

LEMMA AddsStep ==
    ASSUME StreamTyped, AddsInv, [Next]_vars
    PROVE  AddsInv'
<1>. USE DEF redis, adds, work
<1>0. MaxRetries \in Nat \ {0} /\ 0 \in Calls
  BY RedisStreamsAssumption, CallsFinite
<1>1. ASSUME UNCHANGED <<call, tries, log, unanswered>>
      PROVE  AddsInv'
  BY <1>1 DEF AddsInv, Accepted, Copies, Ids
<1>2. ASSUME NEW m \in Messages, AddToStream(m)
      PROVE  AddsInv'
  <2>1. /\ call[m][0] = "off" /\ call' = [call EXCEPT ![m] = [@ EXCEPT ![0] = "sent"]]
        /\ UNCHANGED <<tries, log, unanswered>>
    BY <1>2 DEF AddToStream
  <2>2. \A n \in Messages : Accepted(n)' = Accepted(n) /\ Copies(n)' = Copies(n)
    BY <2>1 DEF AddsInv, Accepted, Copies, Ids
  <2>. QED
    BY <1>0, <2>1, <2>2 DEF AddsInv, States
<1>3. ASSUME NEW m \in Messages, NEW i \in Calls, Added(m, i)
      PROVE  AddsInv'
  <2>1. /\ call[m][i] = "sent" /\ call' = [call EXCEPT ![m] = [@ EXCEPT ![i] = "added"]]
        /\ tries' = tries /\ unanswered' = unanswered /\ Append1(m)
    BY <1>3 DEF Added
  <2>2. \A n \in Messages : /\ n # m => Accepted(n)' = Accepted(n)
                            /\ n = m => Accepted(n)' = Accepted(n) \union {i}
    BY <2>1 DEF AddsInv, Accepted
  <2>3. i \notin Accepted(m)
    BY <2>1 DEF Accepted
  <2>4. Cardinality(Accepted(m)') = Cardinality(Accepted(m)) + 1
    BY <2>2, <2>3, CallsFinite, FS_AddElement
  <2>5. ASSUME NEW n \in Messages
        PROVE  Copies(n)' = Cardinality(Accepted(n)') + unanswered'[n]
    <3>1. /\ Copies(n) = Cardinality(Accepted(n)) + unanswered[n]
          /\ unanswered'[n] = unanswered[n] /\ unanswered[n] \in Nat
      BY <2>1 DEF AddsInv
    <3>2. Cardinality(Accepted(n)) \in Nat
      BY CallsFinite
    <3>3. Copies(n)' = IF n = m THEN Copies(n) + 1 ELSE Copies(n)
      BY <2>1, CopyAdded
    <3>4. Cardinality(Accepted(n)') =
              IF n = m THEN Cardinality(Accepted(n)) + 1 ELSE Cardinality(Accepted(n))
      BY <2>2, <2>4
    <3>. QED
      BY <3>1, <3>2, <3>3, <3>4
  <2>. QED
    BY <1>0, <2>1, <2>5 DEF AddsInv, States
<1>4. ASSUME NEW m \in Messages, NEW i \in Calls, Refused(m, i)
      PROVE  AddsInv'
  <2>. DEFINE next == [j \in Calls |->
                    CASE i = 0 -> IF j = 0 THEN "failed" ELSE "sent"
                      [] i # 0 /\ j = i /\ tries[m][i] + 1 >= MaxRetries -> "failed"
                      [] OTHER -> call[m][j]]
  <2>. DEFINE count == [tries[m] EXCEPT ![i] = @ + 1]
  <2>1. /\ call[m][i] = "sent" /\ tries' = [tries EXCEPT ![m] = count]
        /\ AnswerLost(m) \/ UNCHANGED <<log, unanswered>>
    BY <1>4 DEF Refused
  <2>2. call' = [call EXCEPT ![m] = next]
    BY <1>4 DEF Refused
  <2>3. /\ count \in [Calls -> 0..MaxRetries] /\ count[i] = tries[m][i] + 1
        /\ \A j \in Calls : j # i => count[j] = tries[m][j]
    <3>1. /\ tries[m] \in [Calls -> 0..MaxRetries] /\ tries[m][i] \in 0..MaxRetries
          /\ tries[m][i] < MaxRetries
      BY <2>1 DEF AddsInv
    <3>2. tries[m][i] + 1 \in 0..MaxRetries
      BY <1>0, <3>1
    <3>. QED
      BY <3>1, <3>2
  <2>. HIDE DEF count
  <2>4. /\ next \in [Calls -> States]
        /\ next[0] # "failed" => \A j \in Calls \ {0} : next[j] = "off"
        /\ \A j \in Calls : next[j] = "added" <=> call[m][j] = "added"
    BY <1>0, <2>1 DEF AddsInv, States
  <2>5. ASSUME NEW j \in Calls
        PROVE  /\ next[j] = "off" => count[j] = 0
               /\ next[j] = "sent" => count[j] < MaxRetries
    <3>1. CASE i = 0
      <4>1. next[j] = IF j = 0 THEN "failed" ELSE "sent"
        BY <3>1
      <4>2. j # 0 => count[j] = 0
        BY <1>0, <2>1, <2>3, <3>1 DEF AddsInv
      <4>. QED
        BY <1>0, <4>1, <4>2
    <3>2. CASE i # 0 /\ j = i
      <4>1. next[j] = IF tries[m][i] + 1 >= MaxRetries THEN "failed" ELSE call[m][i]
        BY <3>2
      <4>2. count[j] \in Nat
        BY <1>0, <2>3
      <4>. QED
        BY <1>0, <2>1, <2>3, <3>2, <4>1, <4>2
    <3>3. CASE i # 0 /\ j # i
      <4>1. next[j] = call[m][j] /\ count[j] = tries[m][j]
        BY <2>3, <3>3
      <4>. QED
        BY <4>1 DEF AddsInv
    <3>. QED
      BY <3>1, <3>2, <3>3
  <2>. HIDE DEF next
  <2>6. \A n \in Messages : Accepted(n)' = Accepted(n)
    BY <2>2, <2>4 DEF AddsInv, Accepted
  <2>7. /\ unanswered' \in [Messages -> Nat]
        /\ \A n \in Messages : Copies(n)' = Cardinality(Accepted(n)') + unanswered'[n]
    BY <2>1, <2>6, UnansweredCopy, UnchangedCopy
  <2>8. /\ call' \in [Messages -> [Calls -> States]]
        /\ tries' \in [Messages -> [Calls -> 0..MaxRetries]]
    BY <2>1, <2>2, <2>3, <2>4 DEF AddsInv
  <2>9. ASSUME NEW n \in Messages
        PROVE  /\ call'[n][0] # "failed" => \A j \in Calls \ {0} : call'[n][j] = "off"
               /\ \A j \in Calls : /\ call'[n][j] = "off" => tries'[n][j] = 0
                                   /\ call'[n][j] = "sent" => tries'[n][j] < MaxRetries
    <3>1. CASE n = m
      <4>1. call'[n] = next /\ tries'[n] = count
        BY <2>1, <2>2, <3>1 DEF AddsInv
      <4>. QED
        BY <2>4, <2>5, <4>1
    <3>2. CASE n # m
      <4>1. call'[n] = call[n] /\ tries'[n] = tries[n]
        BY <2>1, <2>2, <3>2 DEF AddsInv
      <4>. QED
        BY <4>1 DEF AddsInv
    <3>. QED
      BY <3>1, <3>2
  <2>. QED
    BY <2>7, <2>8, <2>9 DEF AddsInv
\* The command takes effect and is sent again.
<1>8. ASSUME NEW m \in Messages, NEW i \in Calls, Resent(m, i)
      PROVE  AddsInv'
  <2>1. AnswerLost(m) /\ UNCHANGED <<call, tries>>
    BY <1>8 DEF Resent
  <2>2. \A n \in Messages : Accepted(n)' = Accepted(n)
    BY <2>1 DEF Accepted
  <2>3. /\ unanswered' \in [Messages -> Nat]
        /\ \A n \in Messages : Copies(n)' = Cardinality(Accepted(n)') + unanswered'[n]
    BY <2>1, <2>2, UnansweredCopy
  <2>. QED
    BY <2>1, <2>3 DEF AddsInv
<1>5. ASSUME NEW p \in Readers,
             \/ Read(p) \/ (\E e \in running[p] : Failed(p, e)) \/ ReadError(p)
             \/ NoGroupFails(p) \/ Shutdown(p) \/ Crash(p)
      PROVE  UNCHANGED <<call, tries, log, unanswered>>
  BY <1>5 DEF NoGroupFails, Read, Boot, XReadGroup, Deliver, Timeout, NoGroup, Start, Handled, Ack,
              Reconnect, EndLoop, Failed, ReadError, Shutdown, Crash
<1>6. ASSUME Trim \/ DeleteStream
      PROVE  UNCHANGED <<call, tries, log, unanswered>>
  BY <1>6 DEF Trim, DeleteStream
<1>7. ASSUME UNCHANGED vars
      PROVE  UNCHANGED <<call, tries, log, unanswered>>
  BY <1>7 DEF vars
<1>. QED
  BY <1>1, <1>2, <1>3, <1>4, <1>5, <1>6, <1>7, <1>8 DEF Next

LEMMA AddsAlways == Spec => []AddsInv
<1>1. Init => AddsInv
  <2>. SUFFICES ASSUME Init PROVE AddsInv
    OBVIOUS
  <2>1. MaxRetries \in Nat \ {0}
    BY RedisStreamsAssumption
  <2>2. /\ call = [m \in Messages |-> [i \in Calls |-> "off"]]
        /\ tries = [m \in Messages |-> [i \in Calls |-> 0]]
        /\ unanswered = [m \in Messages |-> 0] /\ Ids = {}
    BY DEF Init, Ids
  <2>3. 0 \in 0..MaxRetries /\ 0 < MaxRetries
    BY <2>1
  <2>4. \A m \in Messages : Copies(m) = 0 /\ Cardinality(Accepted(m)) = 0
    BY <2>2, FS_EmptySet DEF Copies, Accepted
  <2>. QED
    BY <2>2, <2>3, <2>4, CallsFinite DEF AddsInv, States
<1>2. StreamInv /\ AddsInv /\ [Next]_vars => AddsInv'
  BY AddsStep DEF StreamInv
<1>. QED
  BY <1>1, <1>2, StreamInvariant, PTL DEF Spec

\* The rest of what is typed, and the callbacks that run at once.
BooksInv ==
    /\ pending \subseteq Ids /\ stopping \in [Readers -> BOOLEAN]
    /\ refused \in 0..MaxRefused /\ faults \in 0..MaxFaults
    /\ Bounded

\* What a reader runs is part of a finite log.
LEMMA RunningFinite ==
    ASSUME StreamTyped, NEW p \in Readers
    PROVE  IsFiniteSet(running[p]) /\ Cardinality(running[p]) \in Nat
<1>1. running[p] \subseteq 1..Len(log) /\ Len(log) \in Nat
  BY DEF StreamTyped, Ids
<1>2. IsFiniteSet(1..Len(log))
  BY <1>1, FS_Interval
<1>3. IsFiniteSet(running[p])
  BY <1>1, <1>2, FS_Subset
<1>. QED
  BY <1>3, FS_CardinalityType

LEMMA BooksStep ==
    ASSUME StreamTyped, StreamTyped', BooksInv, [Next]_vars
    PROVE  BooksInv'
<1>. USE DEF redis, adds, work
<1>0. /\ MaxRefused \in Nat /\ MaxFaults \in Nat /\ MaxConcurrent \in Nat
      /\ log \in Seq(Messages) /\ pending \subseteq Ids /\ alive \subseteq Ids
  BY RedisStreamsAssumption DEF BooksInv, StreamTyped
<1>1. /\ refused' \in 0..MaxRefused /\ faults' \in 0..MaxFaults
      /\ stopping' \in [Readers -> BOOLEAN]
  <2>1. refused' = refused \/ (refused < MaxRefused /\ refused' = refused + 1)
    BY DEF Next, Read, AddToStream, Added, Resent, Refused, NoGroupFails, Boot, XReadGroup,
       Deliver, Timeout,
           NoGroup, Start, Handled, Ack, Reconnect, EndLoop, Failed, ReadError, Shutdown,
           Crash, Trim, DeleteStream, vars
  <2>2. faults' = faults \/ (faults < MaxFaults /\ faults' = faults + 1)
    BY DEF Next, Read, AddToStream, Added, Resent, Refused, NoGroupFails, Boot, XReadGroup,
       Deliver, Timeout,
           NoGroup, Start, Handled, Ack, Reconnect, EndLoop, Failed, ReadError, Shutdown,
           Crash, Trim, DeleteStream, vars
  <2>3. stopping' = stopping \/ \E p \in Readers, b \in BOOLEAN :
                                    stopping' = [stopping EXCEPT ![p] = b]
    BY DEF Next, Read, AddToStream, Added, Resent, Refused, NoGroupFails, Boot, XReadGroup,
       Deliver, Timeout,
           NoGroup, Start, Handled, Ack, Reconnect, EndLoop, Failed, ReadError, Shutdown,
           Crash, Trim, DeleteStream, vars
  <2>. QED
    BY <1>0, <2>1, <2>2, <2>3 DEF BooksInv
<1>2. pending' \subseteq Ids'
  <2>1. ASSUME NEW m \in Messages, Append1(m)
        PROVE  pending' = pending /\ Ids \subseteq Ids'
    BY <1>0, <2>1 DEF Append1, Ids
  <2>2. ASSUME NEW p \in Readers, Deliver(p) \/ ReadError(p)
        PROVE  pending' \subseteq pending \union Reply /\ log' = log
    BY <2>2 DEF Deliver, ReadError, HandOut
  <2>3. Reply \subseteq Ids
    BY <1>0 DEF Reply, Fresh
  <2>4. ASSUME NEW m \in Messages,
               \/ AddToStream(m)
               \/ \E i \in Calls : Added(m, i) \/ Resent(m, i) \/ Refused(m, i)
        PROVE  Append1(m) \/ (pending' = pending /\ log' = log)
    BY <2>4 DEF AddToStream, Added, Resent, Refused, AnswerLost
  <2>5. ASSUME NEW p \in Readers,
               \/ Boot(p) \/ XReadGroup(p) \/ Timeout(p) \/ NoGroup(p) \/ Start(p)
               \/ (\E e \in running[p] : Handled(p, e) \/ Failed(p, e)) \/ Ack(p)
               \/ Reconnect(p) \/ EndLoop(p) \/ NoGroupFails(p) \/ Shutdown(p) \/ Crash(p)
        PROVE  pending' \subseteq pending /\ log' = log
    BY <2>5 DEF NoGroupFails, Boot, XReadGroup, Timeout, NoGroup, Start, Handled, Failed, Ack,
       Reconnect,
                EndLoop, Shutdown, Crash
  <2>6. ASSUME Trim \/ DeleteStream \/ UNCHANGED vars
        PROVE  pending' \subseteq pending /\ log' = log
    BY <2>6 DEF Trim, DeleteStream, vars
  <2>7. log' = log => Ids' = Ids
    BY DEF Ids
  <2>. QED
    BY <1>0, <2>1, <2>2, <2>3, <2>4, <2>5, <2>6, <2>7 DEF Next, Read
<1>3. ASSUME NEW q \in Readers
      PROVE  Cardinality(running'[q]) <= MaxConcurrent
  <2>0. /\ Cardinality(running[q]) <= MaxConcurrent
        /\ IsFiniteSet(running[q]) /\ Cardinality(running[q]) \in Nat
    BY RunningFinite DEF BooksInv, Bounded
  <2>1. ASSUME running'[q] \subseteq running[q]
        PROVE  Cardinality(running'[q]) <= MaxConcurrent
    <3>1. Cardinality(running'[q]) <= Cardinality(running[q])
      BY <2>0, <2>1, FS_Subset
    <3>2. Cardinality(running'[q]) \in Nat
      BY <2>0, <2>1, FS_Subset, FS_CardinalityType
    <3>. QED
      BY <1>0, <2>0, <3>1, <3>2
  <2>2. ASSUME NEW p \in Readers, Start(p)
        PROVE  Cardinality(running'[q]) <= MaxConcurrent
    <3>1. PICK e \in batch[p] : running' = [running EXCEPT ![p] = @ \union {e}]
      BY <2>2 DEF Start
    <3>2. CASE p = q
      <4>1. running'[q] = running[q] \union {e}
        BY <3>1, <3>2 DEF StreamTyped
      <4>2. Cardinality(running'[q]) \in {Cardinality(running[q]), Cardinality(running[q]) + 1}
        BY <2>0, <4>1, FS_AddElement
      <4>3. Cardinality(running[q]) < MaxConcurrent
        BY <2>2, <3>2 DEF Start
      <4>. QED
        BY <1>0, <2>0, <4>2, <4>3
    <3>3. CASE p # q
      BY <2>1, <3>1, <3>3 DEF StreamTyped
    <3>. QED
      BY <3>2, <3>3
  <2>3. ASSUME NEW p \in Readers,
               (\E e \in running[p] : Handled(p, e) \/ Failed(p, e)) \/ Crash(p)
        PROVE  running'[q] \subseteq running[q]
    BY <2>3 DEF StreamTyped, Handled, Failed, Crash
  <2>4. ASSUME NEW p \in Readers,
               \/ Boot(p) \/ XReadGroup(p) \/ Deliver(p) \/ Timeout(p) \/ NoGroup(p)
               \/ Ack(p) \/ Reconnect(p) \/ EndLoop(p) \/ NoGroupFails(p) \/ ReadError(p)
               \/ Shutdown(p)
        PROVE  running' = running
    BY <2>4 DEF NoGroupFails, Boot, XReadGroup, Deliver, Timeout, NoGroup, Ack, Reconnect, EndLoop,
                ReadError, Shutdown
  <2>5. ASSUME NEW m \in Messages,
               \/ AddToStream(m)
               \/ \E i \in Calls : Added(m, i) \/ Resent(m, i) \/ Refused(m, i)
        PROVE  running' = running
    BY <2>5 DEF AddToStream, Added, Resent, Refused
  <2>6. ASSUME Trim \/ DeleteStream \/ UNCHANGED vars
        PROVE  running' = running
    BY <2>6 DEF Trim, DeleteStream, vars
  <2>. QED
    BY <2>1, <2>2, <2>3, <2>4, <2>5, <2>6 DEF Next, Read
<1>. QED
  BY <1>1, <1>2, <1>3 DEF BooksInv, Bounded

\* The group of any number of processes: an entry is with one of them, their callbacks
\* are bounded, and a message is in the stream once for its first XADD, or for its retry
\* chains, which all start at once, maxRetries times at most, and once more for each
\* XADD that took effect though its answer was lost.
THEOREM GroupAlwaysHolds == Spec => []GroupHolds
<1>1. Init => BooksInv
  <2>. SUFFICES ASSUME Init PROVE BooksInv
    OBVIOUS
  <2>1. /\ MaxRefused \in Nat /\ MaxFaults \in Nat /\ MaxConcurrent \in Nat
    BY RedisStreamsAssumption
  <2>2. \A p \in Readers : Cardinality(running[p]) = 0
    BY FS_EmptySet DEF Init
  <2>. QED
    BY <2>1, <2>2 DEF Init, BooksInv, Bounded
<1>2. StreamInv /\ StreamInv' /\ BooksInv /\ [Next]_vars => BooksInv'
  BY BooksStep DEF StreamInv
<1>3. StreamInv /\ AckedDone /\ AddsInv /\ BooksInv => GroupHolds
  <2>. SUFFICES ASSUME StreamInv, AckedDone, AddsInv, BooksInv PROVE GroupHolds
    OBVIOUS
  <2>1. TypeOK
    BY DEF StreamInv, StreamTyped, AckedDone, AddsInv, BooksInv, TypeOK
  <2>2. ASSUME NEW m \in Messages
        PROVE  Copies(m) <= unanswered[m] + IF call[m][0] = "failed" THEN MaxRetries ELSE 1
    <3>1. MaxRetries \in Nat \ {0}
      BY RedisStreamsAssumption
    <3>0. /\ Copies(m) = Cardinality(Accepted(m)) + unanswered[m] /\ unanswered[m] \in Nat
          /\ Cardinality(Accepted(m)) \in Nat
      BY CallsFinite DEF AddsInv
    <3>2. CASE call[m][0] = "failed"
      <4>1. Accepted(m) \subseteq 1..MaxRetries
        BY <3>1, <3>2 DEF Accepted, Calls
      <4>2. IsFiniteSet(1..MaxRetries) /\ Cardinality(1..MaxRetries) = MaxRetries
        BY <3>1, FS_Interval
      <4>3. Cardinality(Accepted(m)) <= MaxRetries
        BY <4>1, <4>2, FS_Subset
      <4>. QED
        BY <3>0, <3>1, <3>2, <4>3
    <3>3. CASE call[m][0] # "failed"
      <4>1. Accepted(m) \subseteq {0}
        BY <3>3 DEF AddsInv, Accepted
      <4>2. IsFiniteSet({0}) /\ Cardinality({0}) = 1
        BY FS_Singleton
      <4>3. Cardinality(Accepted(m)) <= 1
        BY <4>1, <4>2, FS_Subset
      <4>. QED
        BY <3>0, <3>3, <4>3
    <3>. QED
      BY <3>2, <3>3
  <2>. QED
    BY <2>1, <2>2 DEF StreamInv, TakenApart, BooksInv, CopiesBounded, GroupHolds
<1>. QED
  BY <1>1, <1>2, <1>3, StreamInvariant, AckedAlwaysDone, AddsAlways, PTL DEF Spec

-------------------------------------------------------------------------------
(* The refinement: what each action does to the fate of the entries.       *)

\* The entries S move, the others stay: a step of the abstract specification.
LEMMA MoveImplemented ==
    ASSUME NEW S \in SUBSET (1..MaxLog), S # {}, NEW from, NEW to,
           \A e \in S : Fate(e) \in from /\ Fate(e)' = to,
           \A e \in 1..MaxLog : e \notin S => Fate(e)' = Fate(e)
    PROVE  Delivery!Move(S, from, to)
  BY DEF Delivery!Move

LEMMA StutterImplemented ==
    ASSUME \A e \in 1..MaxLog : Fate(e)' = Fate(e)
    PROVE  [e \in 1..MaxLog |-> Fate(e)]' = [e \in 1..MaxLog |-> Fate(e)]
  OBVIOUS

\* A fault that loses the entries S, or none.
LEMMA LossImplemented ==
    ASSUME NEW S \in SUBSET (1..MaxLog), faults' = faults + 1,
           \A e \in S : Fate(e) \in {"queued", "taken"} /\ Fate(e)' = "lost",
           \A e \in 1..MaxLog : e \notin S => Fate(e)' = Fate(e)
    PROVE  Delivery!Next
<1>1. CASE S = {}
  BY <1>1, StutterImplemented DEF Delivery!Next, Delivery!Fault
<1>2. CASE S # {}
  <2>1. Delivery!Move(S, {"queued", "taken"}, "lost")
    BY <1>2, MoveImplemented
  <2>. QED
    BY <2>1 DEF Delivery!Next, Delivery!Lose
<1>. QED
  BY <1>1, <1>2

\* Entries are among those the abstract specification knows.
LEMMA IdsBounded ==
    ASSUME StreamTyped
    PROVE  Ids \subseteq 1..MaxLog /\ Queued \subseteq Ids
<1>1. Len(log) \in Nat /\ Len(log) <= MaxLog /\ MaxLog \in Nat
  BY RedisStreamsAssumption DEF StreamTyped
<1>2. alive \subseteq Ids
  BY DEF StreamTyped
<1>3. Queued \subseteq Ids
  BY <1>2 DEF Queued
<1>4. 1..Len(log) \subseteq 1..MaxLog
  BY <1>1
<1>. QED
  BY <1>3, <1>4 DEF Ids

\* With the readers' entries the set of held ones is what it was.
LEMMA HeldKept ==
    ASSUME \A q \in Readers : Taken(q)' = Taken(q)
    PROVE  Held' = Held
  BY DEF Held

LEMMA QuietImplemented ==
    ASSUME Quiet
    PROVE  Delivery!Next \/ UNCHANGED Delivery!dvars
<1>1. Held' = Held /\ Queued' = Queued /\ Ids' = Ids /\ done' = done
  BY DEF Quiet, Held, Taken, Ids
<1>2. \A e \in 1..MaxLog : Fate(e)' = Fate(e)
  BY <1>1 DEF Fate
<1>3. faults' \in {faults, faults + 1}
  BY DEF Quiet
<1>. QED
  BY <1>2, <1>3, StutterImplemented
     DEF Delivery!Next, Delivery!Fault, Delivery!dvars

LEMMA AddedImplemented ==
    ASSUME StreamInv, Appends
    PROVE  Delivery!Next
<1>1. PICK x \in 1..MaxLog : x = Len(log) + 1
  <2>1. Len(log) \in Nat /\ Len(log) < MaxLog /\ MaxLog \in Nat
    BY RedisStreamsAssumption DEF StreamInv, StreamTyped, Appends, Append1
  <2>. QED
    BY <2>1
<1>2. Queued' = Queued \union {x} /\ Ids' = Ids \union {x} /\ x \notin Ids
  <2>1. Len(log) \in Nat /\ Len(log') = Len(log) + 1 /\ Queued' = Queued \union {x}
    BY <1>1, AddedKeeps DEF StreamInv, StreamTyped
  <2>. QED
    BY <1>1, <2>1 DEF Ids
<1>3. UNCHANGED <<Held, done, faults>>
  BY DEF Appends, Held, Taken
<1>4. x \notin Held /\ x \notin done
  <2>1. done \subseteq Ids /\ \A q \in Readers : batch[q] \subseteq Ids /\ running[q] \subseteq Ids
    BY DEF StreamInv, StreamTyped
  <2>2. \A q \in Readers : x \notin batch[q] /\ x \notin running[q]
    BY <1>2, <2>1
  <2>. QED
    BY <1>2, <2>1, <2>2, HeldBySome
<1>5. Fate(x) = "unborn" /\ Fate(x)' = "queued"
  BY <1>2, <1>3, <1>4 DEF Fate
<1>6. \A e \in 1..MaxLog : e # x => Fate(e)' = Fate(e)
  BY <1>2, <1>3 DEF Fate
<1>7. Delivery!Move({x}, {"unborn"}, "queued")
  BY <1>5, <1>6, MoveImplemented
<1>. QED
  BY <1>3, <1>7 DEF Delivery!Next, Delivery!Add

LEMMA DeliverImplemented ==
    ASSUME StreamInv, NEW p \in Readers, Deliver(p)
    PROVE  Delivery!Next
<1>1. /\ batch' = [batch EXCEPT ![p] = Reply] /\ HandOut
      /\ UNCHANGED <<log, alive, group, running, done, faults>>
  BY DEF Deliver
<1>2. PICK S \in SUBSET (1..MaxLog) : S = Reply
  BY <1>1, HandsOut, IdsBounded DEF StreamInv
<1>3. S \subseteq Queued /\ S # {} /\ S \subseteq Ids /\ Queued' = Queued \ S
  BY <1>1, <1>2, HandsOut, HandOutQueue DEF StreamInv
<1>4. \A q \in Readers : Taken(q)' = IF q = p THEN S ELSE Taken(q)
  <2>1. Taken(p) = {}
    BY DEF StreamInv, OneBatch, Deliver
  <2>. QED
    BY <1>1, <1>2, <2>1 DEF StreamInv, StreamTyped, Taken
<1>5. Held' = Held \union S
  <2>1. Taken(p) = {}
    BY DEF StreamInv, OneBatch, Deliver
  <2>. QED
    BY <1>4, <2>1 DEF Held
<1>6. \A e \in S : e \notin Held /\ e \notin done
  BY <1>3 DEF StreamInv, TakenOnce, Held
<1>7. UNCHANGED <<Ids, done, faults>>
  BY <1>1 DEF Ids
<1>8. \A e \in S : Fate(e) \in {"queued"} /\ Fate(e)' = "taken"
  BY <1>3, <1>5, <1>6, <1>7 DEF Fate
<1>9. \A e \in 1..MaxLog : e \notin S => Fate(e)' = Fate(e)
  BY <1>3, <1>5, <1>7 DEF Fate
<1>10. Delivery!Move(S, {"queued"}, "taken")
  BY <1>3, <1>8, <1>9, MoveImplemented
<1>. QED
  BY <1>7, <1>10 DEF Delivery!Next, Delivery!Take

LEMMA StartImplemented ==
    ASSUME StreamInv, NEW p \in Readers, Start(p)
    PROVE  UNCHANGED Delivery!dvars
<1>1. UNCHANGED <<Held, Queued, Ids, done, faults>>
  BY StartKeeps, HeldKept DEF Start, redis, Ids
<1>2. \A e \in 1..MaxLog : Fate(e)' = Fate(e)
  BY <1>1 DEF Fate
<1>. QED
  BY <1>1, <1>2, StutterImplemented DEF Delivery!dvars

\* The entry of a callback that ends leaves the held ones.
LEMMA EndedUnheld ==
    ASSUME StreamInv, NEW p \in Readers, NEW e \in running[p],
           Handled(p, e) \/ Failed(p, e)
    PROVE  /\ e \in Held /\ Held' = Held \ {e}
           /\ UNCHANGED <<Queued, Ids>> /\ e \in 1..MaxLog /\ e \in Ids
           /\ e \notin done /\ e \notin Queued
<1>1. /\ \A q \in Readers : Taken(q)' = IF q = p THEN Taken(q) \ {e} ELSE Taken(q)
      /\ \A q \in Readers : q # p => e \notin Taken(q)
      /\ e \in Ids /\ e \notin done /\ e \notin Queued /\ Queued' = Queued
  BY EndKeeps
<1>2. e \in Taken(p)
  BY DEF Taken
<1>3. e \in Held /\ Held' = Held \ {e}
  BY <1>1, <1>2 DEF Held
<1>4. e \in 1..MaxLog
  BY <1>1, IdsBounded DEF StreamInv
<1>5. Ids' = Ids
  BY DEF Handled, Failed, redis, Ids
<1>. QED
  BY <1>1, <1>3, <1>4, <1>5

LEMMA HandledImplemented ==
    ASSUME StreamInv, NEW p \in Readers, NEW e \in running[p], Handled(p, e)
    PROVE  Delivery!Next
<1>1. /\ e \in Held /\ Held' = Held \ {e} /\ UNCHANGED <<Queued, Ids>>
      /\ e \in 1..MaxLog /\ e \in Ids /\ e \notin done
  BY EndedUnheld
<1>2. done' = done \union {e} /\ faults' = faults
  BY DEF Handled
<1>3. Fate(e) \in {"taken"} /\ Fate(e)' = "handled"
  BY <1>1, <1>2 DEF Fate
<1>4. \A f \in 1..MaxLog : f # e => Fate(f)' = Fate(f)
  BY <1>1, <1>2 DEF Fate
<1>5. Delivery!Move({e}, {"taken"}, "handled")
  BY <1>1, <1>3, <1>4, MoveImplemented
<1>. QED
  BY <1>1, <1>2, <1>5 DEF Delivery!Next, Delivery!Handle

LEMMA FailedImplemented ==
    ASSUME StreamInv, NEW p \in Readers, NEW e \in running[p], Failed(p, e)
    PROVE  Delivery!Next
<1>1. /\ e \in Held /\ Held' = Held \ {e} /\ UNCHANGED <<Queued, Ids>>
      /\ e \in 1..MaxLog /\ e \in Ids /\ e \notin done /\ e \notin Queued
  BY EndedUnheld
<1>2. done' = done /\ faults' = faults + 1
  BY DEF Failed
<1>3. Fate(e) = "taken" /\ Fate(e)' = "lost"
  BY <1>1, <1>2 DEF Fate
<1>4. \A f \in 1..MaxLog : f # e => Fate(f)' = Fate(f)
  BY <1>1, <1>2 DEF Fate
<1>5. {e} \in SUBSET (1..MaxLog)
  BY <1>1
<1>6. \A f \in {e} : Fate(f) \in {"queued", "taken"} /\ Fate(f)' = "lost"
  BY <1>3
<1>7. \A f \in 1..MaxLog : f \notin {e} => Fate(f)' = Fate(f)
  BY <1>4
<1>. QED
  BY <1>2, <1>5, <1>6, <1>7, LossImplemented

\* Entries S leave the queue and nothing else happens to any: they are lost.
LEMMA QueueLoss ==
    ASSUME StreamInv, UNCHANGED <<Held, Ids, done>>, faults' = faults + 1,
           Queued' \subseteq Queued
    PROVE  Delivery!Next
<1>1. PICK S \in SUBSET (1..MaxLog) : S = Queued \ Queued'
  BY IdsBounded DEF StreamInv
<1>2. \A e \in S : e \in Ids /\ e \in Queued /\ e \notin Queued' /\ e \notin Held /\ e \notin done
  BY <1>1, IdsBounded DEF StreamInv, TakenOnce, Held
<1>3. \A e \in S : Fate(e) = "queued" /\ Fate(e)' = "lost"
  BY <1>2 DEF Fate
<1>4. \A e \in 1..MaxLog : e \notin S => Fate(e)' = Fate(e)
  BY <1>1 DEF Fate
<1>. QED
  BY <1>3, <1>4, LossImplemented

LEMMA CrashImplemented ==
    ASSUME StreamInv, NEW p \in Readers, Crash(p)
    PROVE  Delivery!Next
<1>1. /\ Queued' = Queued
      /\ \A q \in Readers : Taken(q)' = IF q = p THEN {} ELSE Taken(q)
  BY CrashKeeps
<1>2. UNCHANGED <<Ids, done>> /\ faults' = faults + 1
  BY DEF Crash, redis, Ids
<1>3. Taken(p) \subseteq Ids
  BY DEF StreamInv, StreamTyped, Taken
<1>4. PICK S \in SUBSET (1..MaxLog) : S = Taken(p)
  BY <1>3, IdsBounded DEF StreamInv
<1>5. S \subseteq Held /\ Held' = Held \ S
  <2>1. \A q \in Readers : q # p => Taken(q) \cap S = {}
    BY <1>4 DEF StreamInv, TakenApart, OneTaker
  <2>. QED
    BY <1>1, <1>4, <2>1 DEF Held
<1>6. \A e \in S : e \in Ids /\ e \notin done /\ e \notin Queued
  BY <1>3, <1>4 DEF StreamInv, TakenOnce
<1>7. \A e \in S : Fate(e) = "taken" /\ Fate(e)' = "lost"
  BY <1>1, <1>2, <1>5, <1>6 DEF Fate
<1>8. \A e \in 1..MaxLog : e \notin S => Fate(e)' = Fate(e)
  BY <1>1, <1>2, <1>5 DEF Fate
<1>. QED
  BY <1>2, <1>7, <1>8, LossImplemented

\* The stream implements StreamDelivery: through every reconnection, crash, trim and
\* deletion an entry is taken once, handled at most once and lost only to a fault.
THEOREM StreamImplementsDelivery == Spec => DeliverySpec
<1>1. Init => Delivery!Init
  <2>. SUFFICES ASSUME Init PROVE Delivery!Init
    OBVIOUS
  <2>1. Len(log) = 0 /\ faults = 0
    BY DEF Init
  <2>2. \A e \in 1..MaxLog : e \notin Ids
    BY <2>1 DEF Ids
  <2>3. \A e \in 1..MaxLog : Fate(e) = "unborn"
    BY <2>2 DEF Fate
  <2>. QED
    BY <2>1, <2>3 DEF Delivery!Init
<1>2. StreamInv /\ [Next]_vars => [Delivery!Next]_(Delivery!dvars)
  <2>. SUFFICES ASSUME StreamInv, [Next]_vars
                PROVE  Delivery!Next \/ UNCHANGED Delivery!dvars
    OBVIOUS
  <2>1. StreamTyped /\ OneBatch
    BY DEF StreamInv
  <2>2. ASSUME NEW m \in Messages,
               \/ AddToStream(m)
               \/ \E i \in Calls : Added(m, i) \/ Resent(m, i) \/ Refused(m, i)
        PROVE  Delivery!Next \/ UNCHANGED Delivery!dvars
    BY <2>1, <2>2, QuietImplemented, AddingSteps, AddedImplemented
  <2>3. ASSUME NEW p \in Readers, Read(p)
        PROVE  Delivery!Next \/ UNCHANGED Delivery!dvars
    BY <2>1, <2>3, QuietSteps, QuietImplemented, DeliverImplemented, StartImplemented,
       HandledImplemented DEF Read
  <2>4. ASSUME NEW p \in Readers, ReadError(p)
        PROVE  Delivery!Next
    <3>1. UNCHANGED <<Held, Ids, done>> /\ faults' = faults + 1
      BY <2>4 DEF ReadError, Held, Taken, Ids
    <3>2. Queued' \subseteq Queued
      BY <2>4, ErrorKeeps
    <3>. QED
      BY <3>1, <3>2, QueueLoss
  <2>5. ASSUME NEW p \in Readers,
               \/ (\E e \in running[p] : Failed(p, e)) \/ NoGroupFails(p) \/ Shutdown(p)
               \/ Crash(p)
        PROVE  Delivery!Next \/ UNCHANGED Delivery!dvars
    BY <2>1, <2>5, QuietSteps, QuietImplemented, FailedImplemented, CrashImplemented
  <2>6. CASE Trim \/ DeleteStream
    <3>1. UNCHANGED <<log, batch, running, done>> /\ faults' = faults + 1
          /\ Queued' \subseteq Queued
      BY <2>6, DropKeeps
    <3>2. UNCHANGED <<Held, Ids>>
      BY <3>1 DEF Held, Taken, Ids
    <3>. QED
      BY <3>1, <3>2, QueueLoss
  <2>7. CASE UNCHANGED vars
    BY <2>1, <2>7, QuietSteps, QuietImplemented
  <2>. QED
    BY <2>2, <2>3, <2>4, <2>5, <2>6, <2>7 DEF Next
<1>. QED
  BY <1>1, <1>2, StreamInvariant, PTL DEF Spec, DeliverySpec, Delivery!Spec
===============================================================================
