--------------------------- MODULE RabbitConnection ---------------------------
(***************************************************************************)
(* How RabbitMQ.ts gets, loses and gets back its connection, its publish   *)
(* channel and its consumer.  connect runs in the constructor, in          *)
(* MessagingBroker.initialize and in the loop of handleReconnection, which *)
(* may overlap: every attempt dials a connection, makes a publish channel  *)
(* on it, listens to whatever this.connection is by then and sets the      *)
(* consumer up again.  Connections and consumer channels are numbered in   *)
(* the order they are made.                                                *)
(***************************************************************************)
EXTENDS Naturals, Sequences

CONSTANTS Attempts,     \* tries of retryOperation in connect
          MaxRetries,   \* maxRetries of handleReconnection
          InitTries,    \* retries of MessagingBroker.initialize
          MaxConns, MaxChans,  \* bounds on what is ever made
          MaxFaults     \* bound on failures and closings

ASSUME RabbitConnectionAssumption ==
    /\ {Attempts, MaxRetries, InitTries, MaxConns, MaxChans} \subseteq Nat \ {0}
    /\ MaxFaults \in Nat

VARIABLES
    open, made,        \* open connections; how many were ever dialled
    conn, pub,         \* this.connection; the connection of publishChannel; or 0
    pubClosed,         \* publishChannel was closed by the broker
    watched,           \* connections with the error and close handlers
    chanOn, chanOpen,  \* consumer channel -> its connection; those open
    cchan,             \* this.consumerChannel, or 0
    active,            \* consumer channels with a consumer
    registered,        \* consumeMessages has pushed its configuration
    pc, mine, tries,   \* task -> position, the connection or channel it made,
                       \*   failed attempts
    reconnecting, currentRetries, initLeft, initialized,
    calm,              \* nothing closed and no connect began while one was under way
    faults

fields == <<conn, pub, pubClosed, watched, cchan>>
broker == <<open, made, chanOn, chanOpen, active>>
retry == <<reconnecting, currentRetries, initLeft, initialized>>
vars == <<fields, broker, registered, pc, mine, tries, retry, calm, faults>>

Connectors == {"constructor", "broker", "loop"}
Tasks == Connectors \union {"handler"}   \* a consumer set up by itself

Init ==
    /\ open = {} /\ made = 0 /\ conn = 0 /\ pub = 0 /\ pubClosed = FALSE /\ watched = {}
    /\ chanOn = <<>> /\ chanOpen = {} /\ cchan = 0 /\ active = {} /\ registered = FALSE
    /\ pc = [t \in Tasks |-> IF t = "constructor" THEN "dial" ELSE "off"]
    /\ mine = [t \in Tasks |-> 0] /\ tries = [t \in Tasks |-> 0]
    /\ reconnecting = FALSE /\ currentRetries = 0 /\ initLeft = InitTries
    /\ initialized = FALSE /\ calm = TRUE /\ faults = 0

Idle == \A t \in Tasks : pc[t] \in {"off", "dead"}
Fail == faults < MaxFaults /\ faults' = faults + 1
PublishValid == pub \in open /\ ~pubClosed
ConsumerValid == cchan \in chanOpen

Goto(t, l) == pc' = [pc EXCEPT ![t] = l]
Fresh(t, l) ==
    /\ Goto(t, l)
    /\ tries' = [tries EXCEPT ![t] = 0] /\ mine' = [mine EXCEPT ![t] = 0]

\* A failed attempt of retryOperation.
Retry(t) ==
    IF tries[t] + 1 < Attempts
    THEN Goto(t, "dial") /\ tries' = [tries EXCEPT ![t] = @ + 1] /\ UNCHANGED mine
    ELSE Fresh(t, "failed")

-------------------------------------------------------------------------------
(* connect.                                                                *)

Initialize ==
    /\ pc["broker"] = "off" /\ ~initialized /\ initLeft > 0
    /\ Fresh("broker", "check")
    /\ calm' = (calm /\ Idle)
    /\ UNCHANGED <<fields, broker, registered, retry, faults>>

Check(t) ==
    /\ pc[t] = "check"
    /\ Fresh(t, IF conn # 0 /\ PublishValid THEN "done" ELSE "dial")
    /\ UNCHANGED <<fields, broker, registered, retry, calm, faults>>

Dial(t) ==
    /\ pc[t] = "dial" /\ made < MaxConns
    /\ made' = made + 1 /\ open' = open \union {made'} /\ conn' = made'
    /\ mine' = [mine EXCEPT ![t] = made']
    /\ Goto(t, "channel")
    /\ UNCHANGED <<pub, pubClosed, watched, cchan, chanOn, chanOpen, active, registered,
                   tries, retry, calm, faults>>

DialFails(t) ==
    /\ pc[t] = "dial" /\ Fail
    /\ Retry(t)
    /\ UNCHANGED <<fields, broker, registered, retry, calm>>

\* createChannel on the connection just dialled; the handlers go to this.connection.
CreateChannel(t) ==
    /\ pc[t] = "channel"
    /\ IF mine[t] \in open
       THEN pub' = mine[t] /\ pubClosed' = FALSE
       ELSE UNCHANGED <<pub, pubClosed>>
    /\ IF mine[t] \in open /\ conn # 0
       THEN watched' = watched \union {conn} /\ Goto(t, "consumer")
            /\ UNCHANGED <<mine, tries>>
       ELSE Retry(t) /\ UNCHANGED watched
    /\ UNCHANGED <<conn, cchan, broker, registered, retry, calm, faults>>

-------------------------------------------------------------------------------
(* setupConsumer, from reestablishConsumers or by itself.                  *)

\* The channel is created on this.connection if it is missing or invalid; what is
\* thrown here leaves setupConsumer.
SetupChannel(t) ==
    /\ pc[t] = "consumer"
    /\ IF ~registered
       THEN Fresh(t, "done") /\ UNCHANGED <<chanOn, chanOpen, cchan>>
       ELSE IF conn # 0 /\ ConsumerValid
       THEN /\ mine' = [mine EXCEPT ![t] = cchan] /\ Goto(t, "consume")
            /\ UNCHANGED <<chanOn, chanOpen, cchan, tries>>
       ELSE IF conn \in open
       THEN /\ Len(chanOn) < MaxChans
            /\ chanOn' = Append(chanOn, conn) /\ cchan' = Len(chanOn')
            /\ chanOpen' = chanOpen \union {cchan'}
            /\ mine' = [mine EXCEPT ![t] = cchan'] /\ Goto(t, "consume")
            /\ UNCHANGED tries
       ELSE /\ IF t = "handler" THEN Fresh(t, "off") ELSE Retry(t)
            /\ UNCHANGED <<chanOn, chanOpen, cchan>>
    /\ UNCHANGED <<conn, pub, pubClosed, watched, open, made, active, registered, retry,
                   calm, faults>>

\* assertQueue, bindQueue, prefetch, consume: what is thrown here is only logged.
Consume(t) ==
    /\ pc[t] = "consume"
    /\ active' = IF mine[t] \in chanOpen THEN active \union {mine[t]} ELSE active
    /\ Fresh(t, IF t = "handler" THEN "off" ELSE "done")
    /\ UNCHANGED <<fields, open, made, chanOn, chanOpen, registered, retry, calm, faults>>

\* listenForMessages, once initialized and its queue asserted and bound.
Listen ==
    /\ initialized /\ ~registered /\ pc["handler"] = "off" /\ PublishValid
    /\ registered' = TRUE
    /\ Fresh("handler", "consumer")
    /\ UNCHANGED <<fields, broker, retry, calm, faults>>

\* assertQueue or bindQueue without a publish channel: after the last attempt it throws,
\* and nobody listens.
AssertQueueFails ==
    /\ initialized /\ ~registered /\ pc["handler"] = "off" /\ ~PublishValid
    /\ IF tries["handler"] + 1 < Attempts
       THEN tries' = [tries EXCEPT !["handler"] = @ + 1] /\ UNCHANGED <<pc, mine>>
       ELSE Fresh("handler", "dead")
    /\ UNCHANGED <<fields, broker, registered, retry, calm, faults>>

-------------------------------------------------------------------------------
(* What follows connect.                                                   *)

ConstructorEnds ==
    /\ pc["constructor"] = "done"
    /\ Goto("constructor", "off")
    /\ UNCHANGED <<fields, broker, registered, mine, tries, retry, calm, faults>>

\* handleReconnection: not twice at once, and not again once currentRetries is
\* maxRetries.
HandleReconnection(Q) ==
    LET starts == ~reconnecting /\ currentRetries < MaxRetries
    IN  /\ reconnecting' = (reconnecting \/ starts)
        /\ pc' = [t \in Tasks |-> IF t = "loop" /\ starts THEN "check"
                                  ELSE IF t \in Q THEN "off" ELSE pc[t]]

ConstructorFails ==
    /\ pc["constructor"] = "failed"
    /\ HandleReconnection({"constructor"})
    /\ UNCHANGED <<fields, broker, registered, mine, tries, currentRetries, initLeft,
                   initialized, calm, faults>>

\* connect succeeded: assertExchange needs the publish channel, or tries again.
AssertExchange ==
    /\ pc["broker"] = "done"
    /\ IF PublishValid
       THEN initialized' = TRUE /\ Goto("broker", "off") /\ UNCHANGED initLeft
       ELSE /\ initLeft' = initLeft - 1 /\ UNCHANGED initialized
            /\ Goto("broker", IF initLeft > 1 THEN "check" ELSE "dead")
    /\ UNCHANGED <<fields, broker, registered, mine, tries, reconnecting, currentRetries,
                   calm, faults>>

InitializeFails ==
    /\ pc["broker"] = "failed"
    /\ initLeft' = initLeft - 1
    /\ Goto("broker", IF initLeft > 1 THEN "check" ELSE "dead")
    /\ UNCHANGED <<fields, broker, registered, mine, tries, reconnecting, currentRetries,
                   initialized, calm, faults>>

\* Mutant of Reconnected: the flag stays set.
ReconnectedFlagLeft ==
    /\ pc["loop"] = "done"
    /\ Goto("loop", "off")
    /\ currentRetries' = 0
    /\ UNCHANGED <<fields, broker, registered, mine, tries, reconnecting, initLeft,
                   initialized, calm, faults>>

Reconnected ==
    /\ pc["loop"] = "done"
    /\ Goto("loop", "off")
    /\ reconnecting' = FALSE /\ currentRetries' = 0
    /\ UNCHANGED <<fields, broker, registered, mine, tries, initLeft, initialized, calm,
                   faults>>

ReconnectFails ==
    /\ pc["loop"] = "failed"
    /\ currentRetries' = currentRetries + 1
    /\ reconnecting' = (currentRetries' < MaxRetries)
    /\ Goto("loop", IF reconnecting' THEN "check" ELSE "off")
    /\ UNCHANGED <<fields, broker, registered, mine, tries, initLeft, initialized, calm,
                   faults>>

-------------------------------------------------------------------------------
(* The broker closes things.                                               *)

\* A connection closes with its channels.  The channels' own handlers come first and
\* cannot set the consumer up on it; then, if this is a watched one, cleanup and
\* handleReconnection, whichever connection the fields hold.
ConnectionCloses(c) ==
    /\ c \in open /\ Fail
    /\ open' = open \ {c}
    /\ LET gone == {k \in chanOpen : chanOn[k] = c}
       IN  chanOpen' = chanOpen \ gone /\ active' = active \ gone
    /\ IF c \in watched
       THEN /\ conn' = 0 /\ pub' = 0 /\ pubClosed' = FALSE
            /\ HandleReconnection({})
       ELSE UNCHANGED <<conn, pub, pubClosed, pc, reconnecting>>
    /\ calm' = (calm /\ Idle)
    /\ UNCHANGED <<watched, cchan, made, chanOn, registered, mine, tries, currentRetries,
                   initLeft, initialized>>

\* Mutant of ChannelCloses: the handler only logs.
ChannelClosesLogged(k) ==
    /\ k \in chanOpen /\ pc["handler"] = "off" /\ Fail
    /\ chanOpen' = chanOpen \ {k} /\ active' = active \ {k}
    /\ calm' = (calm /\ Idle)
    /\ UNCHANGED <<fields, open, made, chanOn, registered, pc, mine, tries, retry>>

\* A consumer channel closes alone: its consumer is set up again.
ChannelCloses(k) ==
    /\ k \in chanOpen /\ pc["handler"] = "off" /\ Fail
    /\ chanOpen' = chanOpen \ {k} /\ active' = active \ {k}
    /\ IF k \in active THEN Goto("handler", "consumer") ELSE UNCHANGED pc
    /\ calm' = (calm /\ Idle)
    /\ UNCHANGED <<fields, open, made, chanOn, registered, mine, tries, retry>>

\* The publish channel closes alone: nobody sets it up again.
PublishChannelCloses ==
    /\ PublishValid /\ Fail
    /\ pubClosed' = TRUE /\ calm' = FALSE
    /\ UNCHANGED <<conn, pub, watched, cchan, broker, registered, pc, mine, tries, retry>>

Step(t) ==
    Check(t) \/ Dial(t) \/ CreateChannel(t) \/ SetupChannel(t) \/ Consume(t)

After ==
    \/ ConstructorEnds \/ ConstructorFails \/ AssertExchange \/ InitializeFails
    \/ Reconnected \/ ReconnectFails

Next ==
    \/ Initialize \/ Listen \/ AssertQueueFails \/ After
    \/ \E t \in Tasks : Step(t) \/ DialFails(t)
    \/ PublishChannelCloses
    \/ \E c \in 1..MaxConns : ConnectionCloses(c)
    \/ \E k \in 1..MaxChans : ChannelCloses(k)

Spec == Init /\ [][Next]_vars

\* Every attempt is answered one way or the other.
FairSpec ==
    /\ Spec
    /\ WF_vars(Initialize) /\ WF_vars(Listen \/ AssertQueueFails) /\ WF_vars(After)
    /\ \A t \in Tasks : WF_vars(Step(t))

-------------------------------------------------------------------------------
Positions == {"off", "check", "dial", "channel", "consumer", "consume", "done", "failed",
              "dead"}

TypeOK ==
    /\ open \subseteq 1..made /\ made \in 0..MaxConns
    /\ {conn, pub} \subseteq 0..made /\ watched \subseteq 1..made
    /\ pubClosed \in BOOLEAN /\ registered \in BOOLEAN
    /\ chanOn \in Seq(Nat) /\ Len(chanOn) <= MaxChans /\ cchan \in 0..Len(chanOn)
    /\ active \subseteq chanOpen /\ chanOpen \subseteq 1..Len(chanOn)
    /\ pc \in [Tasks -> Positions] /\ mine \in [Tasks -> Nat]
    /\ tries \in [Tasks -> 0..Attempts - 1]
    /\ reconnecting \in BOOLEAN /\ initialized \in BOOLEAN /\ calm \in BOOLEAN
    /\ currentRetries \in 0..MaxRetries /\ initLeft \in 0..InitTries
    /\ faults \in 0..MaxFaults

\* The flag that keeps a second loop out is set only while there is a loop: were it
\* left set, no later loss of the connection would be answered.
FlagFollowsLoop == reconnecting <=> pc["loop"] # "off"

\* Unless a connection or channel was lost, or a connect began, in the middle of
\* another connect, the process has at most one connection, the one it publishes on.
\* (Overlapping connects leave one behind that nobody listens to.)
OneConnectionWhenCalm == calm /\ Idle => open \subseteq {conn} /\ pub = conn

\* The invariants together: a loss of the connection is answered by one loop, which
\* ends with one connection while nothing comes in between.
ConnectionHolds == TypeOK /\ FlagFollowsLoop /\ OneConnectionWhenCalm

\* Likewise it comes back, publishing and consuming, unless it has given up, which
\* it does for good.  (A loss in the middle of a connect is swallowed.)
Working ==
    /\ conn \in open /\ PublishValid
    /\ registered => \E k \in active : chanOn[k] \in open
GaveUp == currentRetries = MaxRetries \/ pc["broker"] = "dead"
Recovers == <>~calm \/ <>GaveUp \/ <>[]Working
===============================================================================
