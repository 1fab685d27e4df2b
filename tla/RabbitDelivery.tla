---------------------------- MODULE RabbitDelivery ----------------------------
(***************************************************************************)
(* A message through RabbitMQ.ts: publishMessage on one side, on a channel *)
(* without confirms, so that what it writes may never reach the broker; on *)
(* the other the consumer of setupConsumer, which starts a callback per    *)
(* message and acknowledges in batches, callbacks running or not: flushAcks *)
(* at the tenth message or five seconds after the first, everything up to  *)
(* the last.  Copies of a message are numbered as they are written, the    *)
(* deliveries of a channel by their tags.  That channels close and consumers *)
(* come back is all a delivery sees of RabbitConnection.                   *)
(***************************************************************************)
EXTENDS Naturals, Sequences, FiniteSets

CONSTANTS Messages,
          Tries,       \* maxRetries of publishMessage
          AckBatch,    \* ackBatchSize
          Prefetch,    \* prefetchCount
          MaxFaults    \* bound on failures and closings

VARIABLES
    attempts, outcome,  \* message -> attempts made, what its caller was told
    copies,             \* copy -> message
    outgoing, lost,     \* copies written and on their way; those that never arrived
    ready,              \* copies the broker may deliver
    chan, settled,      \* tag -> copy on the consumer's channel; tags acked or nacked
    read,               \* deliveries the process has seen
    epoch, up, closing, \* number of the channel, 0 before the queue is first bound; the
                        \*   process has it; the broker closed it
    buffer,             \* ackBuffer, as channel and tag
    timer, threw,       \* ackTimer: its channel, or 0 when null; it fired and threw
    running,            \* callbacks under way
    handled, done,      \* copy -> callbacks started; copies whose callback ended
    died, faults        \* copies whose callback ran when the process died

publisher == <<attempts, outcome, copies, outgoing, lost>>
broker == <<ready, chan, settled, closing>>
consumer == <<buffer, timer, threw, running, handled, done>>
vars == <<publisher, broker, read, epoch, up, consumer, died, faults>>

Init ==
    /\ attempts = [m \in Messages |-> 0] /\ outcome = [m \in Messages |-> "calling"]
    /\ copies = <<>> /\ outgoing = {} /\ lost = {} /\ ready = {}
    /\ chan = <<>> /\ settled = {} /\ read = 0
    /\ (epoch = 0 /\ up = FALSE) \/ (epoch = 1 /\ up = TRUE)
    /\ closing = FALSE
    /\ buffer = <<>> /\ timer = 0 /\ threw = FALSE /\ running = {}
    /\ handled = <<>> /\ done = {}
    /\ died = {} /\ faults = 0

Fail == faults < MaxFaults /\ faults' = faults + 1
Tags == DOMAIN chan
Unsettled == Tags \ settled
CopiesAt(T) == {chan[t] : t \in T}
Held == ready \union IF closing THEN {} ELSE CopiesAt(Unsettled)
\* What the broker had and has no more.
Gone == DOMAIN copies \ (outgoing \union lost \union Held)
First(S) == CHOOSE c \in S : \A d \in S : c <= d

-------------------------------------------------------------------------------
(* publishMessage.                                                         *)

\* An attempt that did not succeed, of retryOperation.
Attempt(m) ==
    /\ attempts' = [attempts EXCEPT ![m] = @ + 1]
    /\ outcome' = [outcome EXCEPT ![m] = IF attempts[m] + 1 = Tries THEN "failed" ELSE @]

Written(m) ==
    /\ copies' = Append(copies, m) /\ outgoing' = outgoing \union {Len(copies')}
    /\ handled' = Append(handled, 0)

\* publish answers true: the message is in the write buffer, no more.
Publish(m) ==
    /\ outcome[m] = "calling"
    /\ Written(m)
    /\ outcome' = [outcome EXCEPT ![m] = "sent"]
    /\ UNCHANGED <<attempts, lost, broker, read, epoch, up, buffer, timer, threw, running, done,
                   died, faults>>

\* It answers false when that buffer is full: the message is written all the same, and
\* published again.
PublishFull(m) ==
    /\ outcome[m] = "calling" /\ Fail
    /\ Written(m) /\ Attempt(m)
    /\ UNCHANGED <<lost, broker, read, epoch, up, buffer, timer, threw, running, done, died>>

\* The publish channel is missing or invalid.
PublishInvalid(m) ==
    /\ outcome[m] = "calling" /\ Fail
    /\ Attempt(m)
    /\ UNCHANGED <<copies, outgoing, lost, broker, read, epoch, up, consumer, died>>

\* The publish channel, its connection or its process goes with what was not yet sent;
\* nobody is told.
OutgoingLost ==
    /\ outgoing # {} /\ Fail
    /\ outgoing' = {} /\ lost' = lost \union outgoing
    /\ UNCHANGED <<attempts, outcome, copies, broker, read, epoch, up, consumer, died>>

-------------------------------------------------------------------------------
(* The broker.                                                             *)

\* It drops what no queue is bound to.
Arrives ==
    /\ outgoing # {}
    /\ LET c == First(outgoing)
       IN  /\ outgoing' = outgoing \ {c}
           /\ IF epoch = 0 THEN lost' = lost \union {c} /\ UNCHANGED ready
              ELSE ready' = ready \union {c} /\ UNCHANGED lost
    /\ UNCHANGED <<attempts, outcome, copies, chan, settled, closing, read, epoch, up, consumer,
                   died, faults>>

BrokerDelivers ==
    /\ up /\ ~closing /\ ready # {} /\ Cardinality(Unsettled) < Prefetch
    /\ chan' = Append(chan, First(ready)) /\ ready' = ready \ {First(ready)}
    /\ UNCHANGED <<publisher, settled, closing, read, epoch, up, consumer, died, faults>>

\* The tags T are acked or nacked; an unknown tag makes the broker close the channel
\* and take back what it delivered.
Settle(T, last) ==
    IF closing THEN UNCHANGED broker
    ELSE IF last \in Unsettled
    THEN settled' = settled \union T /\ UNCHANGED <<ready, chan, closing>>
    ELSE /\ closing' = TRUE /\ ready' = ready \union CopiesAt(Unsettled)
         /\ UNCHANGED <<chan, settled>>

\* The channel goes, with what is on its way to the process.
GiveBack ==
    /\ ready' = IF closing THEN ready ELSE ready \union CopiesAt(Unsettled)
    /\ chan' = <<>> /\ settled' = {} /\ closing' = FALSE /\ read' = 0

-------------------------------------------------------------------------------
(* The consumer.                                                           *)

\* Mutant of Flush: everything the channel delivered.
FlushAll(b) ==
    LET last == b[Len(b)].tag
    IN  Settle(Tags, last) /\ buffer' = <<>> /\ timer' = 0 /\ threw' = FALSE

\* flushAcks(channel) on an open channel: everything up to the last of the buffer b.
Flush(b) ==
    LET last == b[Len(b)].tag
    IN  Settle(1..last, last) /\ buffer' = <<>> /\ timer' = 0 /\ threw' = FALSE

\* Mutant of Receive: waits for the batch.
ReceiveNoTimer ==
    /\ up /\ read < Len(chan)
    /\ read' = read + 1
    /\ LET d == [ch |-> epoch, tag |-> read', copy |-> chan[read']]
           b == Append(buffer, d)
       IN  /\ IF Len(b) >= AckBatch THEN Flush(b)
              ELSE buffer' = b /\ UNCHANGED <<broker, timer, threw>>
           /\ running' = running \union {d}
           /\ handled' = [handled EXCEPT ![d.copy] = @ + 1]
    /\ UNCHANGED <<publisher, epoch, up, done, died, faults>>

Receive ==
    /\ up /\ read < Len(chan)
    /\ read' = read + 1
    /\ LET d == [ch |-> epoch, tag |-> read', copy |-> chan[read']]
           b == Append(buffer, d)
       IN  /\ IF Len(b) >= AckBatch THEN Flush(b)
              ELSE /\ buffer' = b /\ timer' = IF timer = 0 THEN epoch ELSE timer
                   /\ UNCHANGED <<broker, threw>>
           /\ running' = running \union {d}
           /\ handled' = [handled EXCEPT ![d.copy] = @ + 1]
    /\ UNCHANGED <<publisher, epoch, up, done, died, faults>>

CallbackEnds(d) ==
    /\ d \in running
    /\ running' = running \ {d} /\ done' = done \union {d.copy}
    /\ UNCHANGED <<publisher, broker, read, epoch, up, buffer, timer, threw, handled, died,
                   faults>>

\* It throws: nack without requeue, unless the channel is gone.  The message stays in
\* the buffer, and may be acked already: the broker closes the channel either way.
CallbackFails(d) ==
    /\ d \in running /\ Fail
    /\ running' = running \ {d} /\ done' = done \union {d.copy}
    /\ IF d.ch = epoch /\ up THEN Settle({d.tag}, d.tag) ELSE UNCHANGED broker
    /\ UNCHANGED <<publisher, read, epoch, up, buffer, timer, threw, handled, died>>

\* On a channel that is gone ack throws: the buffer and the timer stay as they are.
TimerFires ==
    /\ timer # 0 /\ ~threw
    /\ IF timer = epoch /\ up THEN Flush(buffer)
       ELSE threw' = TRUE /\ UNCHANGED <<broker, buffer, timer>>
    /\ UNCHANGED <<publisher, read, epoch, up, running, handled, done, died, faults>>

\* The process learns that the broker closed the channel.
CloseSeen ==
    /\ up /\ closing
    /\ GiveBack /\ up' = FALSE
    /\ UNCHANGED <<publisher, epoch, consumer, died, faults>>

\* It closes for another reason: close, the broker, the network.
ChannelLost ==
    /\ up /\ Fail
    /\ GiveBack /\ up' = FALSE
    /\ UNCHANGED <<publisher, epoch, consumer, died>>

SetupConsumer ==
    /\ ~up
    /\ up' = TRUE /\ epoch' = epoch + 1
    /\ UNCHANGED <<publisher, broker, read, consumer, died, faults>>

Crash ==
    /\ Fail
    /\ GiveBack /\ up' = FALSE /\ died' = died \union {d.copy : d \in running}
    /\ buffer' = <<>> /\ timer' = 0 /\ threw' = FALSE /\ running' = {}
    /\ UNCHANGED <<publisher, epoch, handled, done>>

Callback == \E d \in running : CallbackEnds(d)

Next ==
    \/ \E m \in Messages : Publish(m) \/ PublishFull(m) \/ PublishInvalid(m)
    \/ OutgoingLost \/ Arrives \/ BrokerDelivers \/ Receive \/ TimerFires \/ CloseSeen
    \/ SetupConsumer \/ Callback \/ \E d \in running : CallbackFails(d)
    \/ ChannelLost \/ Crash

Spec == Init /\ [][Next]_vars

\* Messages move, timers fire and a closed consumer is set up again.
FairSpec ==
    /\ Spec
    /\ WF_vars(Arrives) /\ WF_vars(BrokerDelivers) /\ WF_vars(Receive)
    /\ WF_vars(TimerFires) /\ WF_vars(CloseSeen) /\ WF_vars(SetupConsumer)

-------------------------------------------------------------------------------
Deliveries == [ch : 1..MaxFaults + 1, tag : Nat \ {0}, copy : DOMAIN copies]

TypeOK ==
    /\ attempts \in [Messages -> 0..Tries]
    /\ outcome \in [Messages -> {"calling", "sent", "failed"}]
    /\ copies \in Seq(Messages) /\ {outgoing, lost, ready} \subseteq SUBSET DOMAIN copies
    /\ chan \in Seq(DOMAIN copies) /\ settled \subseteq Tags /\ read \in 0..Len(chan)
    /\ up \in BOOLEAN /\ closing \in BOOLEAN /\ died \subseteq DOMAIN copies
    /\ epoch \in Nat /\ timer \in 0..epoch /\ threw \in BOOLEAN
    /\ running \subseteq Deliveries /\ buffer \in Seq(Deliveries)
    /\ Len(buffer) < AckBatch /\ DOMAIN handled = DOMAIN copies
    /\ done \subseteq DOMAIN copies /\ faults \in 0..MaxFaults

\* Acknowledging ahead of the callbacks loses nothing the process has not begun: what
\* the broker had and has no more was handed to a callback, which has ended, failed or is
\* running, or the process died under this very callback.
GoneWasBegun ==
    \A c \in Gone :
        /\ handled[c] > 0
        /\ c \in died \/ c \in done \/ \E d \in running : d.copy = c

\* No channel hands a copy to a callback twice, whatever is nacked or acked.
OnceAChannel == \A c \in DOMAIN copies : handled[c] <= epoch

\* What this channel owes the broker is in the buffer: the next flush covers it,
\* although messages of a lost channel and failed ones are in there too.
OwedIsBuffered ==
    up /\ ~closing =>
        \A t \in Unsettled : t <= read =>
            \E i \in DOMAIN buffer : buffer[i].ch = epoch /\ buffer[i].tag = t

\* However often publish answers false, maxRetries bounds the copies, and a caller told
\* nothing went wrong had one written.  (Nothing tells whether it arrived.)
CopiesBounded ==
    \A m \in Messages :
        LET sent == {c \in DOMAIN copies : copies[c] = m}
        IN  Cardinality(sent) <= Tries /\ (outcome[m] = "sent" => sent # {})

\* Every copy is lost on its way or leaves the broker in the end, unless ackTimer is left
\* pointing at a timer that threw: then the rest waits for a full batch.
Leaves(c) == c \in DOMAIN copies ~> c \in Gone \union lost \/ threw
MaxCopies == MaxFaults + Cardinality(Messages)
AllLeave == \A c \in 1..MaxCopies : Leaves(c)
===============================================================================
