------------------------------- MODULE MCRabbit -------------------------------
(* RabbitConnection and RabbitDelivery in one run: a behaviour follows one of   *)
(* them, for neither reads the state of the other.                              *)
EXTENDS RabbitConnection

CONSTANTS Messages, Tries, AckBatch, Prefetch

ASSUME RabbitDeliveryAssumption == {Tries, AckBatch, Prefetch} \subseteq Nat \ {0}

VARIABLES attempts, outcome, copies, outgoing, lost, ready, chan, settled, read, epoch, up,
          closing, buffer, timer, threw, running, handled, done, died,
          focus

D == INSTANCE RabbitDelivery

MCInit == Init /\ D!Init /\ focus \in {"connection", "delivery"}

connection == <<fields, broker, registered, pc, mine, tries, retry, calm>>
delivery == <<attempts, outcome, copies, outgoing, lost, ready, chan, settled, read, epoch, up,
              closing, buffer, timer, threw, running, handled, done, died>>

Connection(A) == focus = "connection" /\ A /\ UNCHANGED <<delivery, focus>>
Delivery(A) == focus = "delivery" /\ A /\ UNCHANGED <<connection, focus>>

MCNext == Connection(Next) \/ Delivery(D!Next)

MCSpec ==
    /\ MCInit /\ [][MCNext]_<<connection, delivery, focus, faults>>
    /\ WF_vars(Connection(Initialize))
    /\ WF_vars(Connection(Listen \/ AssertQueueFails))
    /\ WF_vars(Connection(After)) /\ \A t \in Tasks : WF_vars(Connection(Step(t)))
    /\ WF_delivery(Delivery(D!Arrives))
    /\ WF_delivery(Delivery(D!BrokerDelivers)) /\ WF_delivery(Delivery(D!Receive))
    /\ WF_delivery(Delivery(D!TimerFires)) /\ WF_delivery(Delivery(D!CloseSeen))
    /\ WF_delivery(Delivery(D!SetupConsumer))

\* Recovers, in the behaviours that follow the connection.
ConnectionRecovers == focus = "connection" => Recovers

\* The invariants of RabbitDelivery: what reached the broker is not lost but with the
\* callback it was handed to, acknowledging in batches hands nothing over twice on a
\* channel and forgets nothing it owes, and maxRetries bounds the copies.
DeliveryHolds ==
    D!TypeOK /\ D!GoneWasBegun /\ D!OnceAChannel /\ D!OwedIsBuffered /\ D!CopiesBounded

\* Every copy is lost on its way or leaves the broker in the end, as far as RabbitDelivery says.
AllLeave == D!AllLeave
===============================================================================
