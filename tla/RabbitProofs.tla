------------------------------ MODULE RabbitProofs -----------------------------
(***************************************************************************)
(* Proofs about RabbitConnection for any numbers of tries and bounds, then *)
(* about RabbitDelivery for any messages, batch and prefetch.              *)
(***************************************************************************)
EXTENDS MCRabbit, FiniteSetTheorems, SequenceTheorems, TLAPS

(* RabbitConnection.                                                         *)

Off(t) == pc[t] \in {"off", "dead"}

\* The parts of TypeOK, by what disturbs them.
ConnsOK ==
    /\ open \subseteq 1..made /\ made \in 0..MaxConns
    /\ {conn, pub} \subseteq 0..made /\ watched \subseteq 1..made
ChansOK ==
    /\ chanOn \in Seq(Nat) /\ Len(chanOn) <= MaxChans /\ cchan \in 0..Len(chanOn)
    /\ active \subseteq chanOpen /\ chanOpen \subseteq 1..Len(chanOn)
TasksOK ==
    /\ mine \in [Tasks -> Nat] /\ tries \in [Tasks -> 0..Attempts - 1]
CountsOK ==
    /\ currentRetries \in 0..MaxRetries /\ initLeft \in 0..InitTries
    /\ faults \in 0..MaxFaults
FlagsOK ==
    /\ pubClosed \in BOOLEAN /\ registered \in BOOLEAN
    /\ reconnecting \in BOOLEAN /\ initialized \in BOOLEAN /\ calm \in BOOLEAN

\* A loop under way has retries left, and so has MessagingBroker.initialize; only a
\* connector dials.
TriesLeft ==
    /\ pc["loop"] # "off" => currentRetries < MaxRetries
    /\ pc["broker"] \notin {"off", "dead"} => initLeft > 0
    /\ pc["handler"] \in {"off", "consumer", "consume", "done", "dead"}

PcOK == pc \in [Tasks -> Positions]

ConnInv ==
    /\ ConnsOK /\ ChansOK /\ TasksOK /\ CountsOK /\ FlagsOK /\ PcOK
    /\ TriesLeft /\ FlagFollowsLoop

LEMMA ConnInvTyped == ConnInv => TypeOK /\ FlagFollowsLoop
  BY DEF ConnInv, TypeOK, ConnsOK, ChansOK, TasksOK, CountsOK, FlagsOK, PcOK

-------------------------------------------------------------------------------
(* Type correctness, with the flag of the loop.                            *)

LEMMA InitConn == Init => ConnInv
<1>. SUFFICES ASSUME Init PROVE ConnInv
  OBVIOUS
<1>. USE RabbitConnectionAssumption DEF Init
<1>1. ConnsOK
  BY DEF ConnsOK
<1>2. ChansOK
  BY DEF ChansOK
<1>3. TasksOK
  BY DEF TasksOK
<1>4. CountsOK
  BY DEF CountsOK
<1>5. FlagsOK
  BY DEF FlagsOK
<1>6. PcOK
  BY DEF PcOK, Positions
<1>7. TriesLeft
  BY DEF TriesLeft, Tasks, Connectors
<1>8. FlagFollowsLoop
  BY DEF FlagFollowsLoop, Tasks, Connectors
<1>. QED
  BY <1>1, <1>2, <1>3, <1>4, <1>5, <1>6, <1>7, <1>8 DEF ConnInv

\* A task that is under way moves from one position to another and nothing else about
\* the tasks changes: the loop stays under way, so its flag stays as it is.
LEMMA TaskMoves ==
    ASSUME ConnInv, NEW t \in Tasks, NEW l \in Positions, pc' = [pc EXCEPT ![t] = l],
           UNCHANGED retry, ~Off(t),
           t = "loop" => l # "off",
           t = "handler" => l \in {"off", "consumer", "consume", "done", "dead"}
    PROVE  PcOK' /\ TriesLeft' /\ FlagFollowsLoop'
<1>. USE DEF ConnInv
<1>1. PcOK'
  BY DEF PcOK
<1>2. \A s \in Tasks : pc'[s] = IF s = t THEN l ELSE pc[s]
  BY DEF PcOK
<1>3. TriesLeft'
  BY <1>2 DEF TriesLeft, retry, Off, Tasks, Connectors
<1>4. FlagFollowsLoop'
  BY <1>2 DEF FlagFollowsLoop, retry, Off, Tasks, Connectors
<1>. QED
  BY <1>1, <1>3, <1>4

\* The ways that two branching steps can go.
LEMMA SetupCases ==
    ASSUME NEW t, SetupChannel(t)
    PROVE  /\ pc[t] = "consumer"
           /\ \/ Fresh(t, "done") /\ UNCHANGED <<chanOn, chanOpen, cchan>>
              \/ /\ ConsumerValid /\ mine' = [mine EXCEPT ![t] = cchan] /\ Goto(t, "consume")
                 /\ UNCHANGED <<chanOn, chanOpen, cchan, tries>>
              \/ /\ conn \in open /\ Len(chanOn) < MaxChans
                 /\ chanOn' = Append(chanOn, conn) /\ cchan' = Len(chanOn')
                 /\ chanOpen' = chanOpen \union {cchan'}
                 /\ mine' = [mine EXCEPT ![t] = cchan'] /\ Goto(t, "consume")
                 /\ UNCHANGED tries
              \/ /\ t = "handler" /\ Fresh(t, "off")
                 /\ UNCHANGED <<chanOn, chanOpen, cchan>>
              \/ /\ t # "handler" /\ conn \notin open /\ Retry(t)
                 /\ UNCHANGED <<chanOn, chanOpen, cchan>>
  BY Zenon DEF SetupChannel

LEMMA CreateCases ==
    ASSUME NEW t, CreateChannel(t)
    PROVE  /\ pc[t] = "channel"
           /\ \/ /\ mine[t] \in open /\ conn # 0
                 /\ pub' = mine[t] /\ pubClosed' = FALSE
                 /\ watched' = watched \union {conn} /\ Goto(t, "consumer")
                 /\ UNCHANGED <<mine, tries>>
              \/ /\ mine[t] \in open /\ conn = 0
                 /\ pub' = mine[t] /\ pubClosed' = FALSE
                 /\ Retry(t) /\ UNCHANGED watched
              \/ /\ mine[t] \notin open /\ Retry(t)
                 /\ pub' = pub /\ pubClosed' = pubClosed /\ watched' = watched
  BY Zenon DEF CreateChannel

LEMMA RetryCases ==
    ASSUME TasksOK, NEW t \in Tasks, Retry(t)
    PROVE  /\ pc' = [pc EXCEPT ![t] = "dial"] \/ pc' = [pc EXCEPT ![t] = "failed"]
           /\ TasksOK'
<1>. USE RabbitConnectionAssumption DEF Retry, Fresh, Goto
<1>1. pc' = [pc EXCEPT ![t] = "dial"] \/ pc' = [pc EXCEPT ![t] = "failed"]
  OBVIOUS
<1>2. TasksOK'
  BY DEF TasksOK
<1>. QED
  BY <1>1, <1>2

\* What the steps of connect and of setupConsumer do to the tasks.
LEMMA StepMoves ==
    ASSUME ConnInv, NEW t \in Tasks, Step(t) \/ DialFails(t)
    PROVE  /\ UNCHANGED <<retry, registered, calm>> /\ ~Off(t)
           /\ PcOK' /\ TriesLeft' /\ FlagFollowsLoop' /\ TasksOK'
<1>. USE RabbitConnectionAssumption
<1>1. UNCHANGED retry /\ UNCHANGED <<registered, calm>>
  BY DEF Step, Check, Dial, CreateChannel, SetupChannel, Consume, DialFails
<1>2. ~Off(t) /\ (t = "handler" => pc[t] \in {"consumer", "consume"})
  BY DEF Step, Check, Dial, CreateChannel, SetupChannel, Consume, DialFails, Off, ConnInv,
     TriesLeft
<1>3. PICK l \in Positions :
        /\ pc' = [pc EXCEPT ![t] = l]
        /\ t = "loop" => l # "off"
        /\ t = "handler" => l \in {"off", "consumer", "consume", "done", "dead"}
  <2>. USE DEF Fresh, Goto, Positions
  <2>1. CASE Check(t)
    BY <1>2, <2>1 DEF Check
  <2>2. CASE Dial(t)
    BY <1>2, <2>2 DEF Dial
  <2>3. CASE CreateChannel(t)
    <3>1. \E l \in {"consumer", "dial", "failed"} : pc' = [pc EXCEPT ![t] = l]
      BY <2>3, CreateCases, RetryCases DEF ConnInv
    <3>. QED
      BY <1>2, <2>3, <3>1 DEF CreateChannel
  <2>4. CASE SetupChannel(t)
    <3>1. \/ \E l \in {"done", "consume"} : pc' = [pc EXCEPT ![t] = l]
          \/ t = "handler" /\ pc' = [pc EXCEPT ![t] = "off"]
          \/ t # "handler" /\ \E l \in {"dial", "failed"} : pc' = [pc EXCEPT ![t] = l]
      BY <2>4, SetupCases, RetryCases DEF ConnInv
    <3>. QED
      BY <1>2, <3>1
  <2>5. CASE Consume(t)
    BY <1>2, <2>5 DEF Consume
  <2>6. CASE DialFails(t)
    BY <1>2, <2>6, RetryCases DEF DialFails, ConnInv
  <2>. QED
    BY <2>1, <2>2, <2>3, <2>4, <2>5, <2>6 DEF Step
<1>4. PcOK' /\ TriesLeft' /\ FlagFollowsLoop'
  BY <1>1, <1>2, <1>3, TaskMoves
<1>5. TasksOK'
  <2>. USE DEF ConnInv, Fresh
  <2>1. CASE Check(t)
    BY <2>1 DEF Check, TasksOK
  <2>2. CASE Dial(t)
    BY <2>2 DEF Dial, ConnsOK, TasksOK
  <2>3. CASE CreateChannel(t)
    BY <2>3, CreateCases, RetryCases DEF TasksOK
  <2>4. CASE SetupChannel(t)
    <3>1. CASE Retry(t)
      BY <3>1, RetryCases
    <3>2. CASE Fresh(t, "done") \/ Fresh(t, "off")
      BY <3>2 DEF TasksOK
    <3>3. CASE tries' = tries /\ mine' = [mine EXCEPT ![t] = cchan] /\ UNCHANGED cchan
      BY <3>3 DEF TasksOK, ChansOK
    <3>4. CASE /\ tries' = tries /\ mine' = [mine EXCEPT ![t] = cchan']
               /\ chanOn' = Append(chanOn, conn) /\ cchan' = Len(chanOn') /\ conn \in open
      <4>1. cchan' \in Nat
        BY <3>4 DEF ChansOK, ConnsOK
      <4>. QED
        BY <3>4, <4>1 DEF TasksOK
    <3>. QED
      BY <2>4, <3>1, <3>2, <3>3, <3>4, SetupCases
  <2>5. CASE Consume(t)
    BY <2>5 DEF Consume, TasksOK
  <2>6. CASE DialFails(t)
    BY <2>6, RetryCases DEF DialFails
  <2>. QED
    BY <2>1, <2>2, <2>3, <2>4, <2>5, <2>6 DEF Step
<1>. QED
  BY <1>1, <1>2, <1>4, <1>5

LEMMA StepConn ==
    ASSUME ConnInv, NEW t \in Tasks, Step(t) \/ DialFails(t)
    PROVE  ConnInv'
<1>. USE RabbitConnectionAssumption DEF ConnInv
<1>1. UNCHANGED retry /\ UNCHANGED <<registered, calm>>
  BY StepMoves
<1>2. ConnsOK'
  <2>. USE DEF ConnsOK, fields, broker
  <2>1. CASE Dial(t)
    BY <2>1 DEF Dial
  <2>2. CASE CreateChannel(t)
    <3>1. UNCHANGED <<open, made, conn>>
      BY <2>2 DEF CreateChannel
    <3>2. pub' = pub \/ pub' \in open
      BY <2>2, CreateCases, Zenon
    <3>3. watched' = watched \/ (conn # 0 /\ watched' = watched \union {conn})
      BY <2>2, CreateCases, Zenon
    <3>4. conn \in 0..made /\ (\A c \in open : c \in 0..made) /\ (conn # 0 => conn \in 1..made)
      OBVIOUS
    <3>5. {conn', pub'} \subseteq 0..made'
      <4>1. pub' \in 0..made
        BY <3>2, <3>4
      <4>. QED
        BY <3>1, <3>4, <4>1
    <3>6. watched' \subseteq 1..made'
      <4>1. watched' \subseteq 1..made
        BY <3>3, <3>4
      <4>. QED
        BY <3>1, <4>1
    <3>. QED
      BY <3>1, <3>5, <3>6
  <2>3. CASE Check(t) \/ SetupChannel(t) \/ Consume(t) \/ DialFails(t)
    BY <2>3 DEF Check, SetupChannel, Consume, DialFails
  <2>. QED
    BY <2>1, <2>2, <2>3 DEF Step
<1>3. ChansOK'
  <2>. USE DEF ChansOK, fields, broker
  <2>1. CASE SetupChannel(t)
    <3>1. active' = active
      BY <2>1 DEF SetupChannel
    <3>2. CASE UNCHANGED <<chanOn, chanOpen, cchan>>
      BY <3>1, <3>2
    <3>3. CASE /\ conn \in open /\ Len(chanOn) < MaxChans
               /\ chanOn' = Append(chanOn, conn) /\ cchan' = Len(chanOn')
               /\ chanOpen' = chanOpen \union {cchan'}
      <4>1. chanOn' \in Seq(Nat) /\ Len(chanOn') = Len(chanOn) + 1
        BY <3>3 DEF ConnsOK
      <4>2. cchan' = Len(chanOn) + 1 /\ Len(chanOn') <= MaxChans
        BY <3>3, <4>1
      <4>3. cchan' \in 0..Len(chanOn') /\ active' \subseteq chanOpen'
        BY <3>1, <3>3, <4>1, <4>2
      <4>4. chanOpen' \subseteq 1..Len(chanOn')
        <5>1. \A k \in chanOpen : k \in 1..Len(chanOn')
          BY <4>1
        <5>2. cchan' \in 1..Len(chanOn')
          BY <4>1, <4>2
        <5>. QED
          BY <3>3, <5>1, <5>2
      <4>. QED
        BY <4>1, <4>2, <4>3, <4>4
    <3>. QED
      BY <2>1, <3>2, <3>3, SetupCases
  <2>2. CASE Consume(t)
    BY <2>2 DEF Consume
  <2>3. CASE Check(t) \/ Dial(t) \/ CreateChannel(t) \/ DialFails(t)
    BY <2>3 DEF Check, Dial, CreateChannel, DialFails
  <2>. QED
    BY <2>1, <2>2, <2>3 DEF Step
<1>4. CountsOK'
  <2>1. UNCHANGED faults \/ Fail
    BY DEF Step, Check, Dial, CreateChannel, SetupChannel, Consume, DialFails
  <2>. QED
    BY <1>1, <2>1 DEF CountsOK, retry, Fail
<1>5. pubClosed' \in BOOLEAN
  BY DEF FlagsOK, fields, Step, Check, Dial, CreateChannel, SetupChannel, Consume, DialFails
<1>6. FlagsOK'
  BY <1>1, <1>5 DEF FlagsOK, retry
<1>. QED
  BY <1>2, <1>3, <1>4, <1>6, StepMoves

LEMMA ListenConn ==
    ASSUME ConnInv, Initialize \/ Listen \/ AssertQueueFails
    PROVE  ConnInv'
<1>. USE RabbitConnectionAssumption DEF ConnInv
<1>1. UNCHANGED <<fields, broker, retry, faults>>
  BY DEF Initialize, Listen, AssertQueueFails
<1>2. ConnsOK' /\ ChansOK' /\ CountsOK'
  BY <1>1 DEF ConnsOK, ChansOK, CountsOK, fields, broker, retry
<1>3. TasksOK'
  BY DEF TasksOK, Initialize, Listen, AssertQueueFails, Fresh, Tasks, Connectors
<1>4. FlagsOK'
  <2>1. registered' \in BOOLEAN /\ calm' \in BOOLEAN
    BY DEF FlagsOK, Initialize, Listen, AssertQueueFails
  <2>. QED
    BY <1>1, <2>1 DEF FlagsOK, fields, retry
<1>5. PICK t \in {"broker", "handler"}, l \in {"check", "consumer", "dead", "off"} :
        /\ pc' = [pc EXCEPT ![t] = l]
        /\ t = "broker" => initLeft > 0
        /\ t = "handler" => l \in {"off", "consumer", "dead"}
  <2>1. CASE Initialize
    BY <2>1 DEF Initialize, Fresh, Goto
  <2>2. CASE Listen
    BY <2>2 DEF Listen, Fresh, Goto
  <2>3. CASE AssertQueueFails
    <3>1. CASE tries["handler"] + 1 < Attempts
      <4>1. pc' = [pc EXCEPT !["handler"] = "off"]
        BY <2>3, <3>1 DEF AssertQueueFails, PcOK
      <4>. QED
        BY <4>1
    <3>2. CASE ~(tries["handler"] + 1 < Attempts)
      BY <2>3, <3>2 DEF AssertQueueFails, Fresh, Goto
    <3>. QED
      BY <3>1, <3>2
  <2>. QED
    BY <2>1, <2>2, <2>3
<1>6. PcOK'
  BY <1>5 DEF PcOK, Positions
<1>7. TriesLeft' /\ FlagFollowsLoop'
  BY <1>1, <1>5 DEF PcOK, TriesLeft, FlagFollowsLoop, retry, Tasks, Connectors
<1>. QED
  BY <1>2, <1>3, <1>4, <1>6, <1>7

\* handleReconnection keeps one loop, with its flag.
LEMMA LoopStarts ==
    ASSUME ConnInv, NEW Q \in SUBSET {"constructor"}, HandleReconnection(Q),
           UNCHANGED <<currentRetries, initLeft>>
    PROVE  PcOK' /\ TriesLeft' /\ FlagFollowsLoop' /\ reconnecting' \in BOOLEAN
<1>. USE DEF ConnInv, HandleReconnection
<1>1. PcOK'
  BY DEF PcOK, Positions
<1>2. CASE ~reconnecting /\ currentRetries < MaxRetries
  <2>1. reconnecting' = TRUE
    BY <1>2
  <2>2. \A t \in Tasks : pc'[t] = IF t = "loop" THEN "check"
                                  ELSE IF t \in Q THEN "off" ELSE pc[t]
    BY <1>2
  <2>. QED
    BY <1>1, <1>2, <2>1, <2>2 DEF TriesLeft, Tasks, Connectors, FlagFollowsLoop
<1>3. CASE reconnecting \/ ~(currentRetries < MaxRetries)
  <2>1. reconnecting' = reconnecting
    BY <1>3 DEF FlagsOK
  <2>2. \A t \in Tasks : pc'[t] = IF t \in Q THEN "off" ELSE pc[t]
    BY <1>3
  <2>. QED
    BY <1>1, <2>1, <2>2 DEF TriesLeft, FlagFollowsLoop, FlagsOK, Tasks, Connectors
<1>. QED
  BY <1>1, <1>2, <1>3

LEMMA AfterConn ==
    ASSUME ConnInv, After
    PROVE  ConnInv'
<1>. USE RabbitConnectionAssumption DEF ConnInv
<1>1. UNCHANGED <<fields, broker, registered, mine, tries, calm, faults>>
  BY DEF After, ConstructorEnds, ConstructorFails, AssertExchange, InitializeFails, Reconnected,
     ReconnectFails
<1>2. ConnsOK' /\ ChansOK' /\ TasksOK'
  BY <1>1 DEF ConnsOK, ChansOK, TasksOK, fields, broker
<1>3. /\ reconnecting' \in BOOLEAN /\ initialized' \in BOOLEAN
      /\ CountsOK' /\ PcOK' /\ TriesLeft' /\ FlagFollowsLoop'
  <2>1. CASE ConstructorEnds
    BY <2>1 DEF ConstructorEnds, Goto, CountsOK, PcOK, Positions, TriesLeft, FlagFollowsLoop,
       FlagsOK, retry, Tasks, Connectors
  <2>2. CASE ConstructorFails
    BY <2>2, LoopStarts DEF ConstructorFails, CountsOK, FlagsOK
  <2>3. CASE AssertExchange \/ InitializeFails
    <3>1. reconnecting' = reconnecting /\ currentRetries' = currentRetries /\ faults' = faults
      BY <2>3 DEF AssertExchange, InitializeFails
    <3>2. initialized' \in BOOLEAN
      BY <2>3 DEF AssertExchange, InitializeFails, FlagsOK
    <3>3. initLeft > 0
      BY <2>3 DEF AssertExchange, InitializeFails, TriesLeft
    <3>4. PICK l \in {"off", "check", "dead"} :
            /\ pc' = [pc EXCEPT !["broker"] = l]
            /\ \/ initLeft' = initLeft /\ l = "off"
               \/ initLeft' = initLeft - 1 /\ (initLeft > 1 \/ l = "dead")
      <4>1. CASE AssertExchange
        BY <4>1 DEF AssertExchange, Goto
      <4>2. CASE InitializeFails
        BY <4>2 DEF InitializeFails, Goto
      <4>. QED
        BY <2>3, <4>1, <4>2
    <3>5. CountsOK'
      BY <3>1, <3>3, <3>4 DEF CountsOK
    <3>6. PcOK'
      BY <3>4 DEF PcOK, Positions
    <3>7. TriesLeft' /\ FlagFollowsLoop'
      BY <3>1, <3>4 DEF CountsOK, PcOK, TriesLeft, FlagFollowsLoop, Tasks, Connectors
    <3>. QED
      BY <3>1, <3>2, <3>5, <3>6, <3>7 DEF FlagsOK
  <2>4. CASE Reconnected
    <3>1. reconnecting' = FALSE /\ pc' = [pc EXCEPT !["loop"] = "off"]
      BY <2>4 DEF Reconnected, Goto
    <3>2. currentRetries' = 0 /\ UNCHANGED <<initLeft, initialized, faults>>
      BY <2>4 DEF Reconnected
    <3>3. CountsOK'
      BY <3>2 DEF CountsOK
    <3>4. PcOK'
      BY <3>1 DEF PcOK, Positions
    <3>5. TriesLeft' /\ FlagFollowsLoop'
      BY <3>1, <3>2 DEF PcOK, TriesLeft, FlagFollowsLoop, Tasks, Connectors
    <3>. QED
      BY <3>1, <3>2, <3>3, <3>4, <3>5 DEF FlagsOK
  <2>5. CASE ReconnectFails
    <3>1. /\ currentRetries' = currentRetries + 1 /\ currentRetries < MaxRetries
          /\ UNCHANGED <<initLeft, initialized, faults>>
      BY <2>5 DEF ReconnectFails, TriesLeft
    <3>2. reconnecting' \in BOOLEAN /\ (reconnecting' = TRUE => currentRetries' < MaxRetries)
      <4>1. reconnecting' \in BOOLEAN
        BY <2>5 DEF ReconnectFails
      <4>2. reconnecting' => currentRetries' < MaxRetries
        BY <2>5, <3>1 DEF ReconnectFails, CountsOK
      <4>. QED
        BY <4>1, <4>2
    <3>3. CountsOK'
      BY <3>1 DEF CountsOK
    <3>4. CASE reconnecting' = TRUE
      <4>1. pc' = [pc EXCEPT !["loop"] = "check"]
        BY <2>5, <3>4 DEF ReconnectFails, Goto
      <4>2. PcOK'
        BY <4>1 DEF PcOK, Positions
      <4>. QED
        BY <3>1, <3>2, <3>3, <3>4, <4>1, <4>2 DEF PcOK, TriesLeft, FlagFollowsLoop, FlagsOK,
           Tasks, Connectors
    <3>5. CASE reconnecting' = FALSE
      <4>1. pc' = [pc EXCEPT !["loop"] = "off"]
        BY <2>5, <3>5 DEF ReconnectFails, Goto
      <4>2. PcOK'
        BY <4>1 DEF PcOK, Positions
      <4>. QED
        BY <3>1, <3>3, <3>5, <4>1, <4>2 DEF PcOK, TriesLeft, FlagFollowsLoop, FlagsOK,
           Tasks, Connectors
    <3>. QED
      BY <3>2, <3>4, <3>5
  <2>. QED
    BY <2>1, <2>2, <2>3, <2>4, <2>5 DEF After
<1>4. FlagsOK'
  BY <1>1, <1>3 DEF FlagsOK, fields
<1>. QED
  BY <1>2, <1>3, <1>4

LEMMA ConnectionClosesConn ==
    ASSUME ConnInv, NEW c, ConnectionCloses(c)
    PROVE  ConnInv'
<1>. USE RabbitConnectionAssumption DEF ConnInv, ConnectionCloses
<1>1. ConnsOK'
  BY DEF ConnsOK
<1>2. ChansOK'
  BY DEF ChansOK
<1>3. TasksOK' /\ CountsOK'
  BY DEF TasksOK, CountsOK, Fail
<1>4. reconnecting' \in BOOLEAN /\ PcOK' /\ TriesLeft' /\ FlagFollowsLoop'
  <2>1. CASE c \in watched
    BY <2>1, LoopStarts
  <2>2. CASE c \notin watched
    BY <2>2 DEF FlagsOK, PcOK, TriesLeft, FlagFollowsLoop
  <2>. QED
    BY <2>1, <2>2
<1>5. pubClosed' \in BOOLEAN /\ calm' \in BOOLEAN
  BY DEF FlagsOK
<1>. QED
  BY <1>1, <1>2, <1>3, <1>4, <1>5 DEF FlagsOK

LEMMA ChannelClosesConn ==
    ASSUME ConnInv, PublishChannelCloses \/ \E k \in 1..MaxChans : ChannelCloses(k)
    PROVE  ConnInv'
<1>. USE RabbitConnectionAssumption DEF ConnInv
<1>1. /\ UNCHANGED <<conn, pub, watched, cchan, open, made, chanOn, registered, mine, tries,
                     retry>>
      /\ Fail
  BY DEF PublishChannelCloses, ChannelCloses, fields, broker
<1>2. ConnsOK' /\ TasksOK' /\ CountsOK'
  BY <1>1 DEF ConnsOK, TasksOK, CountsOK, Fail, retry
<1>3. ChansOK'
  <2>1. CASE PublishChannelCloses
    BY <1>1, <2>1 DEF ChansOK, PublishChannelCloses, broker
  <2>2. ASSUME NEW k \in 1..MaxChans, ChannelCloses(k) PROVE ChansOK'
    BY <1>1, <2>2 DEF ChansOK, ChannelCloses
  <2>. QED
    BY <2>1, <2>2
<1>4. pubClosed' \in BOOLEAN /\ calm' \in BOOLEAN
  BY DEF FlagsOK, PublishChannelCloses, ChannelCloses, fields
<1>5. FlagsOK'
  BY <1>1, <1>4 DEF FlagsOK, retry
<1>6. pc' = pc \/ pc' = [pc EXCEPT !["handler"] = "consumer"]
  BY DEF PublishChannelCloses, ChannelCloses, Goto
<1>7. PcOK' /\ TriesLeft' /\ FlagFollowsLoop'
  BY <1>1, <1>6 DEF PcOK, Positions, TriesLeft, FlagFollowsLoop, retry, Tasks, Connectors
<1>. QED
  BY <1>2, <1>3, <1>5, <1>7

LEMMA NextConn == ConnInv /\ [Next]_vars => ConnInv'
<1>. SUFFICES ASSUME ConnInv, [Next]_vars PROVE ConnInv'
  OBVIOUS
<1>1. CASE Initialize \/ Listen \/ AssertQueueFails
  BY <1>1, ListenConn
<1>2. CASE After
  BY <1>2, AfterConn
<1>3. ASSUME NEW t \in Tasks, Step(t) \/ DialFails(t) PROVE ConnInv'
  BY <1>3, StepConn
<1>4. CASE PublishChannelCloses \/ \E k \in 1..MaxChans : ChannelCloses(k)
  BY <1>4, ChannelClosesConn
<1>5. ASSUME NEW c \in 1..MaxConns, ConnectionCloses(c) PROVE ConnInv'
  BY <1>5, ConnectionClosesConn
<1>6. CASE UNCHANGED vars
  BY <1>6 DEF ConnInv, ConnsOK, ChansOK, TasksOK, CountsOK, FlagsOK, PcOK, TriesLeft,
     FlagFollowsLoop, vars, fields, broker, retry
<1>. QED
  BY <1>1, <1>2, <1>3, <1>4, <1>5, <1>6 DEF Next

-------------------------------------------------------------------------------
(* One connection in calm times.                                           *)

\* What one connector under way has done so far.
CalmTask(t) ==
    /\ pc[t] \in {"dial", "failed"} => open = {}
    /\ pc[t] \in {"channel", "consumer", "consume", "done"} => conn \in open
    /\ pc[t] = "channel" => mine[t] = conn

CalmConns ==
    /\ ~pubClosed /\ open \subseteq {conn}
    /\ (\A t \in Connectors : pc[t] # "channel") => pub = conn /\ open \subseteq watched

\* One connect at a time.
CalmAlone == \A s, t \in Connectors : s # t => Off(s) \/ Off(t)

\* In calm times one connect is under way at most, and what it has done so far is what
\* the fields and the broker show.
CalmInv == calm => CalmConns /\ CalmAlone /\ \A t \in Connectors : CalmTask(t)

LEMMA InitCalm == Init => CalmInv
<1>. SUFFICES ASSUME Init PROVE CalmInv
  OBVIOUS
<1>. USE DEF Init, Tasks, Connectors
<1>1. CalmConns
  BY DEF CalmConns
<1>2. CalmAlone
  BY DEF CalmAlone, Off
<1>3. \A t \in Connectors : CalmTask(t)
  BY DEF CalmTask
<1>. QED
  BY <1>1, <1>2, <1>3 DEF CalmInv

\* It is enough to look at the one connector that is, or may be, under way.
LEMMA CalmByOne ==
    ASSUME NEW t \in Connectors,
           \A s \in Connectors \ {t} : pc'[s] \in {"off", "dead"},
           ~pubClosed', open' \subseteq {conn'},
           pc'[t] # "channel" => pub' = conn' /\ open' \subseteq watched',
           CalmTask(t)'
    PROVE  CalmInv'
<1>1. CalmConns'
  BY DEF CalmConns
<1>2. CalmAlone'
  BY DEF CalmAlone, Off
<1>3. \A s \in Connectors : CalmTask(s)'
  BY DEF CalmTask
<1>. QED
  BY <1>1, <1>2, <1>3 DEF CalmInv

\* A step that leaves alone what CalmInv reads keeps it.
LEMMA CalmSame ==
    ASSUME CalmInv, UNCHANGED <<calm, open, conn, pub, pubClosed, watched>>,
           \A s \in Connectors : pc'[s] = pc[s] /\ mine'[s] = mine[s]
    PROVE  CalmInv'
<1>. SUFFICES ASSUME calm' PROVE CalmConns' /\ CalmAlone' /\ \A t \in Connectors : CalmTask(t)'
  BY DEF CalmInv
<1>1. CalmConns /\ CalmAlone /\ \A t \in Connectors : CalmTask(t)
  BY DEF CalmInv
<1>2. CalmConns'
  BY <1>1 DEF CalmConns
<1>3. CalmAlone'
  BY <1>1 DEF CalmAlone, Off
<1>4. \A t \in Connectors : CalmTask(t)'
  BY <1>1 DEF CalmTask
<1>. QED
  BY <1>2, <1>3, <1>4

\* A connector moves on and the rest of connect stays as it was.
LEMMA CalmMoves ==
    ASSUME ConnInv, CalmInv, calm, NEW t \in Connectors, NEW l, pc' = [pc EXCEPT ![t] = l],
           ~Off(t), pc[t] # "channel", l # "channel",
           UNCHANGED <<open, conn, pub, pubClosed, watched>>,
           l \in {"dial", "failed"} => open = {},
           l \in {"consumer", "consume", "done"} => conn \in open
    PROVE  CalmInv'
<1>1. CalmConns /\ CalmAlone
  BY DEF CalmInv
<1>2. \A s \in Tasks : pc'[s] = IF s = t THEN l ELSE pc[s]
  BY DEF ConnInv, PcOK
<1>3. \A s \in Connectors \ {t} : pc'[s] \in {"off", "dead"} /\ pc[s] # "channel"
  BY <1>1, <1>2 DEF CalmAlone, Off, Tasks
<1>4. pub = conn /\ open \subseteq watched
  BY <1>1, <1>3 DEF CalmConns
<1>5. CalmTask(t)'
  BY <1>2 DEF CalmTask, Tasks
<1>. QED
  BY <1>1, <1>3, <1>4, <1>5, CalmByOne DEF CalmConns

LEMMA StepCalm ==
    ASSUME ConnInv, CalmInv, NEW t \in Tasks, Step(t) \/ DialFails(t)
    PROVE  CalmInv'
<1>. SUFFICES ASSUME calm' PROVE CalmInv'
  BY DEF CalmInv
<1>1. calm /\ ~Off(t) /\ PcOK'
  BY StepMoves
<1>2. CASE t \notin Connectors
  <2>1. SetupChannel(t) \/ Consume(t)
    BY <1>2 DEF Step, Check, Dial, CreateChannel, DialFails, ConnInv, TriesLeft, Tasks
  <2>2. UNCHANGED <<calm, open, conn, pub, pubClosed, watched>>
    BY <2>1 DEF SetupChannel, Consume, fields
  <2>3. \E l, m : /\ pc' = [pc EXCEPT ![t] = l]
                  /\ mine' = [mine EXCEPT ![t] = m] \/ mine' = mine
    <3>1. CASE SetupChannel(t)
      BY <3>1, SetupCases DEF Fresh, Retry, Goto
    <3>2. CASE Consume(t)
      BY <3>2 DEF Consume, Fresh, Goto
    <3>. QED
      BY <2>1, <3>1, <3>2
  <2>4. \A s \in Connectors : pc'[s] = pc[s] /\ mine'[s] = mine[s]
    BY <1>2, <2>3 DEF ConnInv, PcOK, TasksOK, Tasks
  <2>. QED
    BY <2>2, <2>4, CalmSame
<1>3. CASE t \in Connectors
  <2>0. CalmConns /\ CalmAlone /\ CalmTask(t) /\ conn \in Nat /\ 0 \notin open
    BY <1>1, <1>3 DEF CalmInv, ConnInv, ConnsOK
  <2>1. \A s \in Connectors \ {t} : pc[s] \in {"off", "dead"}
    BY <1>1, <1>3, <2>0 DEF CalmAlone, Off
  <2>2. pc[t] # "channel" => pub = conn /\ open \subseteq watched
    BY <2>0, <2>1 DEF CalmConns
  <2>3. CASE Check(t)
    <3>1. PICK l \in {"done", "dial"} :
            /\ pc' = [pc EXCEPT ![t] = l]
            /\ l = "done" <=> conn # 0 /\ PublishValid
      BY <2>3 DEF Check, Fresh, Goto
    <3>2. UNCHANGED <<open, conn, pub, pubClosed, watched>> /\ pc[t] = "check"
      BY <2>3 DEF Check, fields, broker
    <3>3. PublishValid <=> conn \in open
      BY <2>0, <2>2, <3>2 DEF CalmConns, PublishValid
    <3>4. conn \in open \/ open = {}
      BY <2>0 DEF CalmConns
    <3>. QED
      BY <1>1, <1>3, <2>0, <3>1, <3>2, <3>3, <3>4, CalmMoves
  <2>4. CASE Dial(t)
    <3>1. open = {} /\ ~pubClosed
      BY <2>0, <2>4 DEF Dial, CalmTask, CalmConns
    <3>2. open' = {made'} /\ conn' = made' /\ ~pubClosed' /\ pc' = [pc EXCEPT ![t] = "channel"]
      BY <2>4, <3>1 DEF Dial, Goto
    <3>3. mine' = [mine EXCEPT ![t] = made']
      BY <2>4 DEF Dial
    <3>4. pc'[t] = "channel" /\ \A s \in Connectors \ {t} : pc'[s] = pc[s]
      BY <1>3, <3>2 DEF ConnInv, PcOK, Tasks
    <3>5. mine'[t] = made'
      BY <1>3, <3>3 DEF ConnInv, TasksOK, Tasks
    <3>6. CalmTask(t)'
      BY <3>2, <3>4, <3>5 DEF CalmTask
    <3>7. open' \subseteq {conn'}
      BY <3>2
    <3>. QED
      BY <1>3, <2>1, <3>2, <3>4, <3>6, <3>7, CalmByOne
  <2>5. CASE CreateChannel(t)
    <3>1. mine[t] = conn /\ conn \in open
      BY <2>0, <2>5 DEF CreateChannel, CalmTask
    <3>2. UNCHANGED <<open, conn>>
      BY <2>5 DEF CreateChannel, broker
    <3>3. /\ pub' = conn /\ ~pubClosed' /\ watched' = watched \union {conn}
          /\ pc' = [pc EXCEPT ![t] = "consumer"]
      BY <2>0, <2>5, <3>1, CreateCases DEF Goto
    <3>4. pc'[t] = "consumer" /\ \A s \in Connectors \ {t} : pc'[s] = pc[s]
      BY <1>3, <3>3 DEF ConnInv, PcOK, Tasks
    <3>5. CalmTask(t)'
      BY <3>1, <3>2, <3>4 DEF CalmTask
    <3>6. open' \subseteq {conn'} /\ open' \subseteq watched'
      BY <2>0, <3>2, <3>3 DEF CalmConns
    <3>. QED
      BY <1>3, <2>1, <3>2, <3>3, <3>4, <3>5, <3>6, CalmByOne
  <2>6. CASE SetupChannel(t)
    <3>1. pc[t] = "consumer" /\ conn \in open
      BY <2>0, <2>6 DEF SetupChannel, CalmTask
    <3>2. UNCHANGED <<open, conn, pub, pubClosed, watched>>
      BY <2>6 DEF SetupChannel
    <3>3. t # "handler"
      BY <1>3 DEF Connectors
    <3>4. \E l \in {"done", "consume"} : pc' = [pc EXCEPT ![t] = l]
      BY <2>6, <3>1, <3>3, SetupCases DEF Fresh, Goto
    <3>. QED
      BY <1>1, <1>3, <3>1, <3>2, <3>4, CalmMoves
  <2>7. CASE Consume(t)
    <3>1. pc[t] = "consume" /\ conn \in open
      BY <2>0, <2>7 DEF Consume, CalmTask
    <3>2. UNCHANGED <<open, conn, pub, pubClosed, watched>>
      BY <2>7 DEF Consume, fields
    <3>3. pc' = [pc EXCEPT ![t] = "done"]
      BY <1>3, <2>7 DEF Consume, Fresh, Goto, Connectors
    <3>. QED
      BY <1>1, <1>3, <3>1, <3>2, <3>3, CalmMoves
  <2>8. CASE DialFails(t)
    <3>1. pc[t] = "dial" /\ open = {}
      BY <2>0, <2>8 DEF DialFails, CalmTask
    <3>2. UNCHANGED <<open, conn, pub, pubClosed, watched>>
      BY <2>8 DEF DialFails, fields, broker
    <3>3. \E l \in {"dial", "failed"} : pc' = [pc EXCEPT ![t] = l]
      BY <2>8, RetryCases DEF DialFails, ConnInv
    <3>. QED
      BY <1>1, <1>3, <3>1, <3>2, <3>3, CalmMoves
  <2>. QED
    BY <2>3, <2>4, <2>5, <2>6, <2>7, <2>8 DEF Step
<1>. QED
  BY <1>2, <1>3

\* Initialize, and handleReconnection, begin a connect when none is under way.
LEMMA CalmBegins ==
    ASSUME ConnInv, CalmConns, NEW t \in Connectors, \A s \in Connectors : Off(s),
           \A s \in Connectors \ {t} : pc'[s] \in {"off", "dead"},
           pc'[t] \in {"off", "dead", "check"},
           UNCHANGED <<open, conn, pub, pubClosed, watched>>
    PROVE  CalmInv'
<1>1. pub = conn /\ open \subseteq watched /\ ~pubClosed /\ open \subseteq {conn}
  BY DEF CalmConns, Off
<1>2. CalmTask(t)'
  BY DEF CalmTask
<1>. QED
  BY <1>1, <1>2, CalmByOne

LEMMA ListenCalm ==
    ASSUME ConnInv, CalmInv, Initialize \/ Listen \/ AssertQueueFails
    PROVE  CalmInv'
<1>. SUFFICES ASSUME calm' PROVE CalmInv'
  BY DEF CalmInv
<1>1. UNCHANGED <<open, conn, pub, pubClosed, watched>>
  BY DEF Initialize, Listen, AssertQueueFails, fields, broker
<1>2. CASE Initialize
  <2>1. calm /\ \A s \in Connectors : Off(s)
    BY <1>2 DEF Initialize, Idle, Off, Tasks
  <2>2. pc' = [pc EXCEPT !["broker"] = "check"]
    BY <1>2 DEF Initialize, Fresh, Goto
  <2>3. /\ pc'["broker"] = "check"
        /\ \A s \in Connectors \ {"broker"} : pc'[s] \in {"off", "dead"}
    BY <2>1, <2>2 DEF ConnInv, PcOK, Off, Tasks, Connectors
  <2>. QED
    BY <1>1, <2>1, <2>3, CalmBegins DEF CalmInv, Connectors
<1>3. CASE Listen \/ AssertQueueFails
  <2>1. calm' = calm
    BY <1>3 DEF Listen, AssertQueueFails
  <2>2. \A s \in Connectors : pc'[s] = pc[s] /\ mine'[s] = mine[s]
    <3>1. /\ pc' = pc \/ \E l : pc' = [pc EXCEPT !["handler"] = l]
          /\ mine' = mine \/ \E m : mine' = [mine EXCEPT !["handler"] = m]
      BY <1>3 DEF Listen, AssertQueueFails, Fresh, Goto
    <3>. QED
      BY <3>1 DEF ConnInv, PcOK, TasksOK, Tasks, Connectors
  <2>. QED
    BY <1>1, <2>1, <2>2, CalmSame
<1>. QED
  BY <1>2, <1>3

\* A connector ends, or hands over to the loop.
LEMMA AfterCalm ==
    ASSUME ConnInv, CalmInv, After
    PROVE  CalmInv'
<1>. SUFFICES ASSUME calm' PROVE CalmInv'
  BY DEF CalmInv
<1>1. /\ calm /\ UNCHANGED <<open, conn, pub, pubClosed, watched, mine>>
  BY DEF After, ConstructorEnds, ConstructorFails, AssertExchange, InitializeFails, Reconnected,
     ReconnectFails, fields, broker
<1>2. CalmConns /\ CalmAlone /\ \A t \in Connectors : CalmTask(t)
  BY <1>1 DEF CalmInv
<1>3. ASSUME NEW t \in Connectors, pc[t] \in {"done", "failed"},
             NEW l \in {"off", "dead", "check"}, pc' = [pc EXCEPT ![t] = l]
      PROVE  CalmInv'
  BY <1>1, <1>3, CalmMoves DEF Off
<1>4. CASE ConstructorFails
  <2>1. pc["constructor"] = "failed" /\ open = {}
    BY <1>2, <1>4 DEF ConstructorFails, CalmTask, Connectors
  <2>2. \A s \in Connectors \ {"constructor"} : Off(s)
    BY <1>2, <2>1 DEF CalmAlone, Off, Connectors
  <2>3. pub = conn
    BY <1>2, <2>1, <2>2 DEF CalmConns, Off, Connectors
  <2>4. /\ pc'["constructor"] = "off"
        /\ pc'["broker"] \in {"off", "dead"} /\ pc'["loop"] \in {"off", "dead", "check"}
    BY <1>4, <2>2 DEF ConstructorFails, HandleReconnection, Off, Tasks, Connectors
  <2>5. CalmTask("loop")'
    BY <2>4 DEF CalmTask
  <2>. QED
    BY <1>1, <1>2, <2>1, <2>3, <2>4, <2>5, CalmByOne DEF CalmConns, Connectors
<1>5. CASE ~ConstructorFails
  <2>1. PICK t \in Connectors, l \in {"off", "dead", "check"} :
          pc[t] \in {"done", "failed"} /\ pc' = [pc EXCEPT ![t] = l]
    <3>1. CASE ConstructorEnds
      BY <3>1 DEF ConstructorEnds, Goto, Connectors
    <3>2. CASE AssertExchange
      BY <3>2 DEF AssertExchange, Goto, Connectors
    <3>3. CASE InitializeFails
      BY <3>3 DEF InitializeFails, Goto, Connectors
    <3>4. CASE Reconnected
      BY <3>4 DEF Reconnected, Goto, Connectors
    <3>5. CASE ReconnectFails
      BY <3>5 DEF ReconnectFails, Goto, Connectors
    <3>. QED
      BY <1>5, <3>1, <3>2, <3>3, <3>4, <3>5 DEF After
  <2>. QED
    BY <1>3, <2>1
<1>. QED
  BY <1>4, <1>5

LEMMA ConnectionClosesCalm ==
    ASSUME ConnInv, CalmInv, NEW c, ConnectionCloses(c)
    PROVE  CalmInv'
<1>. SUFFICES ASSUME calm' PROVE CalmInv'
  BY DEF CalmInv
<1>1. calm /\ \A s \in Connectors : Off(s)
  BY DEF ConnectionCloses, Idle, Off, Tasks
<1>2. CalmConns /\ pub = conn /\ open \subseteq watched
  BY <1>1 DEF CalmInv, CalmConns, Off
<1>3. c \in watched /\ open' = {}
  BY <1>2 DEF ConnectionCloses, CalmConns
<1>4. /\ conn' = 0 /\ pub' = 0 /\ ~pubClosed'
      /\ HandleReconnection({})
  BY <1>3 DEF ConnectionCloses
<1>5. /\ \A s \in Connectors \ {"loop"} : pc'[s] \in {"off", "dead"}
      /\ pc'["loop"] \in {"off", "dead", "check"}
  BY <1>1, <1>4 DEF HandleReconnection, Off, Tasks, Connectors
<1>6. CalmTask("loop")'
  BY <1>5 DEF CalmTask
<1>. QED
  BY <1>3, <1>4, <1>5, <1>6, CalmByOne DEF Connectors

LEMMA ChannelClosesCalm ==
    ASSUME ConnInv, CalmInv, PublishChannelCloses \/ \E k \in 1..MaxChans : ChannelCloses(k)
    PROVE  CalmInv'
<1>. SUFFICES ASSUME calm' PROVE CalmInv'
  BY DEF CalmInv
<1>1. PICK k \in 1..MaxChans : ChannelCloses(k)
  BY DEF PublishChannelCloses
<1>2. calm' = calm /\ UNCHANGED <<open, conn, pub, pubClosed, watched, mine>>
  BY <1>1 DEF ChannelCloses, fields, CalmInv, ConnInv, FlagsOK
<1>3. pc' = pc \/ pc' = [pc EXCEPT !["handler"] = "consumer"]
  BY <1>1 DEF ChannelCloses, Goto
<1>4. \A s \in Connectors : pc'[s] = pc[s] /\ mine'[s] = mine[s]
  BY <1>2, <1>3 DEF ConnInv, PcOK, Tasks, Connectors
<1>. QED
  BY <1>2, <1>4, CalmSame

LEMMA NextCalm == ConnInv /\ CalmInv /\ [Next]_vars => CalmInv'
<1>. SUFFICES ASSUME ConnInv, CalmInv, [Next]_vars PROVE CalmInv'
  OBVIOUS
<1>1. CASE Initialize \/ Listen \/ AssertQueueFails
  BY <1>1, ListenCalm
<1>2. CASE After
  BY <1>2, AfterCalm
<1>3. ASSUME NEW t \in Tasks, Step(t) \/ DialFails(t) PROVE CalmInv'
  BY <1>3, StepCalm
<1>4. CASE PublishChannelCloses \/ \E k \in 1..MaxChans : ChannelCloses(k)
  BY <1>4, ChannelClosesCalm
<1>5. ASSUME NEW c \in 1..MaxConns, ConnectionCloses(c) PROVE CalmInv'
  BY <1>5, ConnectionClosesCalm
<1>6. CASE UNCHANGED vars
  BY <1>6, CalmSame DEF vars, fields, broker
<1>. QED
  BY <1>1, <1>2, <1>3, <1>4, <1>5, <1>6 DEF Next

-------------------------------------------------------------------------------
\* Every loss of the connection finds the flag of handleReconnection telling whether a
\* loop runs, whatever fails and however connects overlap; and as long as nothing was
\* lost or begun in the middle of a connect, the process ends each with at most one
\* connection, the one its fields hold and it publishes on (RabbitMQ.ts, connect,
\* setupConnectionHandlers, handleReconnection).
THEOREM AlwaysConnectionHolds == Spec => []ConnectionHolds
<1>1. Init => ConnInv /\ CalmInv
  BY InitConn, InitCalm
<1>2. ConnInv /\ CalmInv /\ [Next]_vars => (ConnInv /\ CalmInv)'
  BY NextConn, NextCalm
<1>3. ConnInv /\ CalmInv => ConnectionHolds
  <2>. SUFFICES ASSUME ConnInv, CalmInv PROVE ConnectionHolds
    OBVIOUS
  <2>1. TypeOK /\ FlagFollowsLoop
    BY ConnInvTyped
  <2>2. OneConnectionWhenCalm
    BY DEF OneConnectionWhenCalm, CalmInv, CalmConns, Idle, Tasks
  <2>. QED
    BY <2>1, <2>2 DEF ConnectionHolds
<1>. QED
  BY <1>1, <1>2, <1>3, PTL DEF Spec

-------------------------------------------------------------------------------
(* RabbitDelivery.  The parts of the invariant, by what they speak of.       *)

Work == [ch : 1..epoch, tag : Nat \ {0}, copy : DOMAIN copies]

Typed ==
    /\ copies \in Seq(Messages) /\ ready \subseteq DOMAIN copies
    /\ outgoing \subseteq DOMAIN copies /\ lost \subseteq DOMAIN copies
    /\ handled \in Seq(Nat) /\ Len(handled) = Len(copies)
    /\ chan \in Seq(DOMAIN copies) /\ read \in 0..Len(chan) /\ settled \subseteq 1..read
    /\ up \in BOOLEAN /\ closing \in BOOLEAN /\ threw \in BOOLEAN
    /\ epoch \in Nat /\ (up => epoch > 0) /\ timer \in 0..epoch
    /\ done \subseteq DOMAIN copies /\ died \subseteq DOMAIN copies
    /\ faults \in 0..MaxFaults

\* What the process works on it was handed by a channel it has or had.
WorkInv ==
    /\ running \subseteq Work /\ buffer \in Seq(Work) /\ Len(buffer) < AckBatch
    /\ \A d \in running : up /\ d.ch = epoch => d.tag <= read

\* A channel has a copy once, and what it has is not ready.
ChanInv ==
    /\ ~up => chan = <<>> /\ ~closing
    /\ \A s, t \in DOMAIN chan : chan[s] = chan[t] => s = t
    /\ ~closing => \A t \in DOMAIN chan : chan[t] \notin ready

\* What can still be handed over on this channel was handed over on earlier ones only.
HandledInv ==
    /\ \A c \in DOMAIN copies : handled[c] <= epoch
    /\ up /\ ~closing => \A c \in ready : handled[c] < epoch
    /\ \A t \in DOMAIN chan : t > read => handled[chan[t]] < epoch

\* A callback was started for a copy; it runs, has ended, or the process died under it.
Begun(c) ==
    /\ handled[c] > 0
    /\ c \in died \/ c \in done \/ \E d \in running : d.copy = c

BegunInv ==
    /\ \A t \in 1..read : Begun(chan[t])
    /\ \A c \in D!Gone : Begun(c)

\* The timer runs while there is something to acknowledge; one of this channel will
\* acknowledge everything read.
Final == buffer[Len(buffer)]
BufferInv ==
    /\ timer = 0 <=> buffer = <<>>
    /\ up /\ timer = epoch => Final.ch = epoch /\ Final.tag = read
    /\ D!OwedIsBuffered

\* Each channel but the first is paid for by a fault, and so is the end of this one,
\* which a flush whose last message was nacked will bring.
Ending == ~up \/ closing \/ (timer = epoch /\ Final.tag \in settled)
EpochInv == epoch <= faults + 1 /\ (Ending => epoch <= faults)

DeliveryInv ==
    Typed /\ WorkInv /\ ChanInv /\ HandledInv /\ BegunInv /\ BufferInv /\ EpochInv

\* What is on its way the broker never had.
WayInv ==
    \A c \in outgoing :
        handled[c] = 0 /\ c \notin ready /\ \A t \in DOMAIN chan : chan[t] # c

Sent(m) == {c \in DOMAIN copies : copies[c] = m}

\* A copy is paid for by an attempt that was told to have failed, but for the last.
PublisherInv ==
    /\ attempts \in [Messages -> 0..Tries]
    /\ outcome \in [Messages -> {"calling", "sent", "failed"}]
    /\ \A m \in Messages :
        /\ outcome[m] # "failed" => attempts[m] < Tries
        /\ Cardinality(Sent(m)) <= attempts[m] + (IF outcome[m] = "sent" THEN 1 ELSE 0)
        /\ outcome[m] = "sent" => Sent(m) # {}

\* A set of copies that is not empty has a first one.
LEMMA FirstExists ==
    ASSUME NEW n \in Nat, NEW S \in SUBSET (1..n), S # {}
    PROVE  D!First(S) \in S
<1>. DEFINE Below(c) == {d \in S : d < c}
            T == {Below(c) : c \in S}
<1>1. IsFiniteSet(S)
  <2>1. IsFiniteSet(1..n)
    BY FS_Interval
  <2>. QED
    BY <2>1, FS_Subset
<1>2. IsWellFoundedOn(StrictSubsetOrdering(S), FiniteSubsetsOf(S))
  BY FS_StrictSubsetOrderingWellFounded
<1>3. T \subseteq FiniteSubsetsOf(S) /\ T # {}
  <2>1. \A c \in S : Below(c) \subseteq S /\ IsFiniteSet(Below(c))
    BY <1>1, FS_Subset
  <2>. QED
    BY <2>1 DEF FiniteSubsetsOf
<1>. HIDE DEF T
<1>4. PICK x \in T : \A y \in T : ~(<<y, x>> \in StrictSubsetOrdering(S))
  BY <1>2, <1>3, WFMin
<1>5. PICK c \in S : x = Below(c)
  BY DEF T
<1>. S \subseteq Nat
  OBVIOUS
<1>6. ASSUME NEW d \in S, d < c PROVE FALSE
  <2>1. Below(d) \subseteq Below(c) /\ Below(d) # Below(c)
    <3>1. \A e \in S : e < d => e < c
      BY <1>6
    <3>2. d \in Below(c) /\ d \notin Below(d)
      BY <1>6
    <3>. QED
      BY <3>1, <3>2
  <2>2. Below(d) \in T
    BY DEF T
  <2>3. <<Below(d), Below(c)>> \in StrictSubsetOrdering(S)
    <3>. HIDE DEF Below
    <3>1. Below(d) \in SUBSET S /\ Below(c) \in SUBSET S
      BY DEF Below
    <3>. QED
      BY <2>1, <3>1 DEF StrictSubsetOrdering
  <2>. QED
    BY <1>4, <1>5, <2>2, <2>3
<1>7. \A d \in S : c <= d
  BY <1>6
<1>. QED
  BY <1>7 DEF D!First

\* Sequences of copies and of work stay such when there are more copies.
LEMMA MoreCopies ==
    ASSUME Typed, WorkInv, NEW m \in Messages, copies' = Append(copies, m), epoch' = epoch
    PROVE  /\ Len(copies) \in Nat /\ copies' \in Seq(Messages)
           /\ DOMAIN copies = 1..Len(copies)
           /\ Len(copies') = Len(copies) + 1 /\ DOMAIN copies' = 1..Len(copies) + 1
           /\ DOMAIN copies' = DOMAIN copies \union {Len(copies) + 1}
           /\ \A c \in DOMAIN copies : copies'[c] = copies[c]
           /\ copies'[Len(copies) + 1] = m
           /\ chan \in Seq(DOMAIN copies') /\ buffer \in Seq(Work') /\ running \subseteq Work'
<1>1. copies \in Seq(Messages)
  BY DEF Typed
<1>2. /\ Len(copies) \in Nat /\ copies' \in Seq(Messages)
      /\ DOMAIN copies = 1..Len(copies)
      /\ Len(copies') = Len(copies) + 1 /\ DOMAIN copies' = 1..Len(copies) + 1
      /\ \A c \in 1..Len(copies) : copies'[c] = copies[c]
      /\ copies'[Len(copies) + 1] = m
  BY <1>1
<1>3. DOMAIN copies' = DOMAIN copies \union {Len(copies) + 1}
  BY <1>2
<1>4. DOMAIN copies \subseteq DOMAIN copies'
  BY <1>3
<1>5. Work \subseteq Work'
  BY <1>4 DEF Work
<1>6. chan \in Seq(DOMAIN copies')
  BY <1>4, SeqMonotonic DEF Typed
<1>7. buffer \in Seq(Work')
  BY <1>5, SeqMonotonic DEF WorkInv
<1>8. running \subseteq Work'
  BY <1>5 DEF WorkInv
<1>. QED
  BY <1>2, <1>3, <1>6, <1>7, <1>8

\* A copy more leaves the deliveries as they are.
LEMMA WrittenKeeps ==
    ASSUME DeliveryInv, NEW m \in Messages, D!Publish(m) \/ D!PublishFull(m)
    PROVE  DeliveryInv'
<1>0. Typed /\ WorkInv /\ ChanInv /\ HandledInv /\ BegunInv /\ BufferInv /\ EpochInv
  BY DEF DeliveryInv
<1>1. /\ copies' = Append(copies, m) /\ outgoing' = outgoing \union {Len(copies')}
      /\ handled' = Append(handled, 0) /\ lost' = lost
      /\ UNCHANGED <<ready, chan, settled, closing, read, epoch, up, buffer, timer, threw, running,
                     done, died>>
      /\ faults' = faults \/ (faults < MaxFaults /\ faults' = faults + 1)
  BY DEF D!Publish, D!PublishFull, D!Written, D!Fail, D!broker
<1>2. /\ Len(copies) \in Nat /\ copies' \in Seq(Messages)
      /\ DOMAIN copies = 1..Len(copies)
      /\ Len(copies') = Len(copies) + 1
      /\ DOMAIN copies' = DOMAIN copies \union {Len(copies) + 1}
      /\ chan \in Seq(DOMAIN copies') /\ buffer \in Seq(Work') /\ running \subseteq Work'
  BY <1>0, <1>1, MoreCopies
<1>3. /\ handled' \in Seq(Nat) /\ Len(handled') = Len(copies')
      /\ \A c \in DOMAIN copies : handled'[c] = handled[c]
      /\ handled'[Len(copies) + 1] = 0
  BY <1>0, <1>1, <1>2 DEF Typed
<1>4. MaxFaults \in Nat
  BY RabbitConnectionAssumption
<1>5. Typed'
  <2>1. /\ ready' \subseteq DOMAIN copies' /\ outgoing' \subseteq DOMAIN copies'
        /\ lost' \subseteq DOMAIN copies' /\ done' \subseteq DOMAIN copies'
        /\ died' \subseteq DOMAIN copies'
    BY <1>0, <1>1, <1>2 DEF Typed
  <2>2. faults' \in 0..MaxFaults
    BY <1>0, <1>1, <1>4 DEF Typed
  <2>. QED
    BY <1>0, <1>1, <1>2, <1>3, <2>1, <2>2 DEF Typed
<1>6. WorkInv'
  BY <1>0, <1>1, <1>2 DEF WorkInv
<1>7. \A t \in DOMAIN chan : chan[t] \in DOMAIN copies /\ chan[t] # Len(copies) + 1
  BY <1>0, <1>2 DEF Typed
<1>8. ChanInv'
  BY <1>0, <1>1, <1>2, <1>7 DEF ChanInv
<1>9. HandledInv'
  BY <1>0, <1>1, <1>2, <1>3, <1>7 DEF Typed, HandledInv
<1>10. \A c \in DOMAIN copies : Begun(c) => Begun(c)'
  BY <1>1, <1>3 DEF Begun
<1>11. D!Gone' = D!Gone
  BY <1>1, <1>2, <1>7 DEF D!Gone, D!Held, D!CopiesAt, D!Unsettled, D!Tags
<1>12. BegunInv'
  <2>1. \A t \in 1..read : chan[t] \in DOMAIN copies
    BY <1>0 DEF Typed
  <2>2. \A c \in D!Gone : c \in DOMAIN copies
    BY DEF D!Gone
  <2>. QED
    BY <1>0, <1>1, <1>10, <1>11, <2>1, <2>2 DEF BegunInv
<1>13. BufferInv'
  BY <1>0, <1>1 DEF BufferInv, Final, D!OwedIsBuffered, D!Unsettled, D!Tags
<1>14. EpochInv'
  <2>1. faults \in Nat /\ epoch \in Nat /\ (faults' = faults \/ faults' = faults + 1)
    BY <1>0, <1>1, <1>4 DEF Typed
  <2>2. Ending' => Ending
    BY <1>1 DEF Ending, Final
  <2>3. epoch' = epoch /\ epoch <= faults + 1
    BY <1>0, <1>1 DEF EpochInv
  <2>4. epoch' <= faults' + 1
    BY <2>1, <2>3
  <2>5. ASSUME Ending' PROVE epoch' <= faults'
    <3>1. epoch <= faults
      BY <1>0, <2>2, <2>5 DEF EpochInv
    <3>. QED
      BY <2>1, <2>3, <3>1
  <2>. QED
    BY <2>4, <2>5 DEF EpochInv
<1>. QED
  BY <1>5, <1>6, <1>8, <1>9, <1>12, <1>13, <1>14 DEF DeliveryInv

\* What Settle of tags the consumer has read does: nothing on a channel that is closing;
\* settles them; or, the last being settled already, has the broker close the channel.
LEMMA SettleEffect ==
    ASSUME Typed, UNCHANGED <<copies, outgoing, lost>>, NEW last \in 1..Len(chan),
           NEW T \in SUBSET (1..last), D!Settle(T, last)
    PROVE  /\ chan' = chan /\ ready' \subseteq DOMAIN copies
           /\ \A c \in D!Gone' : c \in D!Gone \/ \E t \in T : c = chan[t]
           /\ \/ closing /\ closing' = closing /\ settled' = settled /\ ready' = ready
              \/ /\ ~closing /\ closing' = closing /\ ready' = ready
                 /\ settled' = settled \union T /\ last \notin settled
              \/ /\ ~closing /\ closing' = TRUE /\ settled' = settled
                 /\ last \in settled
<1>. USE DEF D!Gone, D!Held, D!CopiesAt, D!Unsettled, D!Tags
<1>1. DOMAIN chan = 1..Len(chan) /\ \A t \in DOMAIN chan : chan[t] \in DOMAIN copies
  BY DEF Typed
<1>2. CASE closing
  BY <1>2 DEF D!Settle, D!broker, Typed
<1>3. CASE ~closing /\ last \notin settled
  <2>1. /\ settled' = settled \union T /\ ready' = ready /\ chan' = chan
        /\ ~closing /\ closing' = closing
    BY <1>1, <1>3 DEF D!Settle
  <2>. QED
    BY <1>1, <1>3, <2>1 DEF Typed
<1>4. CASE ~closing /\ last \in settled
  <2>1. /\ settled' = settled /\ ready' = ready \union D!CopiesAt(D!Unsettled)
        /\ chan' = chan /\ ~closing /\ closing' = TRUE
    BY <1>4 DEF D!Settle
  <2>. QED
    BY <1>1, <1>4, <2>1 DEF Typed
<1>. QED
  BY <1>2, <1>3, <1>4

\* The broker hands over the first copy.
LEMMA BrokerDeliversKeeps ==
    ASSUME DeliveryInv, D!BrokerDelivers
    PROVE  DeliveryInv'
<1>. DEFINE c == D!First(ready)
            n == Len(chan) + 1
<1>0. Typed /\ WorkInv /\ ChanInv /\ HandledInv /\ BegunInv /\ BufferInv /\ EpochInv
  BY DEF DeliveryInv
<1>1. /\ up /\ ~closing /\ ready # {} /\ chan' = Append(chan, c) /\ ready' = ready \ {c}
      /\ UNCHANGED <<attempts, outcome, copies, outgoing, lost, settled, closing, read, epoch, up,
                     buffer, timer, threw, running, handled, done, died, faults>>
  BY DEF D!BrokerDelivers, D!publisher, D!consumer
<1>2. c \in ready /\ c \in DOMAIN copies
  <2>1. Len(copies) \in Nat /\ ready \in SUBSET (1..Len(copies))
    BY <1>0 DEF Typed
  <2>. QED
    BY <1>0, <1>1, <2>1, FirstExists DEF Typed
<1>. HIDE DEF c
<1>3. /\ Len(chan) \in Nat /\ DOMAIN chan = 1..Len(chan)
      /\ chan' \in Seq(DOMAIN copies) /\ Len(chan') = n /\ DOMAIN chan' = 1..n
      /\ chan'[n] = c /\ \A t \in DOMAIN chan : chan'[t] = chan[t]
  BY <1>0, <1>1, <1>2 DEF Typed
<1>4. DOMAIN chan' = DOMAIN chan \union {n} /\ n \notin DOMAIN chan /\ n > read
  BY <1>0, <1>3 DEF Typed
<1>5. Typed'
  <2>1. read \in 0..Len(chan') /\ ready' \subseteq DOMAIN copies
    BY <1>0, <1>1, <1>3 DEF Typed
  <2>. QED
    BY <1>0, <1>1, <1>3, <2>1 DEF Typed
<1>6. WorkInv'
  BY <1>0, <1>1 DEF WorkInv, Work
<1>7. ChanInv'
  BY <1>0, <1>1, <1>2, <1>3, <1>4 DEF ChanInv
<1>8. HandledInv'
  BY <1>0, <1>1, <1>2, <1>3, <1>4 DEF HandledInv
<1>9. \A d \in DOMAIN copies : Begun(d)' <=> Begun(d)
  BY <1>1 DEF Begun
<1>10. D!Gone' = D!Gone
  <2>1. n \notin settled
    BY <1>0, <1>4 DEF Typed
  <2>2. D!CopiesAt(D!Unsettled)' = D!CopiesAt(D!Unsettled) \union {c}
    BY <1>1, <1>3, <1>4, <2>1 DEF D!CopiesAt, D!Unsettled, D!Tags
  <2>. QED
    BY <1>1, <1>2, <2>2 DEF D!Gone, D!Held
<1>11. BegunInv'
  <2>1. \A t \in 1..read : t \in DOMAIN chan /\ chan[t] \in DOMAIN copies
    BY <1>0 DEF Typed
  <2>2. D!Gone \subseteq DOMAIN copies
    BY DEF D!Gone
  <2>. QED
    BY <1>0, <1>1, <1>3, <1>9, <1>10, <2>1, <2>2 DEF BegunInv
<1>12. BufferInv'
  <2>1. \A t \in D!Unsettled' : t <= read => t \in D!Unsettled
    BY <1>0, <1>1, <1>4 DEF D!Unsettled, D!Tags, Typed
  <2>2. D!OwedIsBuffered'
    BY <1>0, <1>1, <2>1 DEF BufferInv, D!OwedIsBuffered
  <2>. QED
    BY <1>0, <1>1, <2>2 DEF BufferInv, Final
<1>13. EpochInv'
  BY <1>0, <1>1 DEF EpochInv, Ending, Final
<1>. QED
  BY <1>5, <1>6, <1>7, <1>8, <1>11, <1>12, <1>13 DEF DeliveryInv

\* The timer acknowledges everything read, or finds its channel gone.
LEMMA TimerFiresKeeps ==
    ASSUME DeliveryInv, D!TimerFires
    PROVE  DeliveryInv'
<1>0. Typed /\ WorkInv /\ ChanInv /\ HandledInv /\ BegunInv /\ BufferInv /\ EpochInv
  BY DEF DeliveryInv
<1>1. UNCHANGED <<attempts, outcome, copies, outgoing, lost, read, epoch, up, running, handled,
                  done, died, faults>>
  BY DEF D!TimerFires, D!publisher
<1>2. \A c \in DOMAIN copies : Begun(c)' <=> Begun(c)
  BY <1>1 DEF Begun
<1>3. /\ read \in Nat /\ 1..read \subseteq DOMAIN chan /\ DOMAIN chan = 1..Len(chan)
      /\ \A t \in DOMAIN chan : chan[t] \in DOMAIN copies
  BY <1>0 DEF Typed
<1>4. CASE timer = epoch /\ up
  <2>1. Final.tag = read /\ read \in 1..Len(chan)
    <3>1. Final.tag = read /\ buffer # <<>>
      BY <1>0, <1>4 DEF BufferInv, Typed
    <3>2. buffer \in Seq(Work) /\ Final \in Work
      BY <1>0, <3>1, ElementOfSeq, EmptySeq DEF WorkInv, Final
    <3>3. Final.tag \in Nat \ {0}
      BY <3>2 DEF Work
    <3>. QED
      BY <1>0, <3>1, <3>3 DEF Typed
  <2>2. D!Settle(1..read, read) /\ buffer' = <<>> /\ timer' = 0 /\ threw' = FALSE
    BY <1>4, <2>1 DEF D!TimerFires, D!Flush, Final
  <2>3. /\ chan' = chan /\ ready' \subseteq DOMAIN copies
        /\ \A c \in D!Gone' : c \in D!Gone \/ \E t \in 1..read : c = chan[t]
        /\ \/ closing /\ closing' = closing /\ settled' = settled /\ ready' = ready
           \/ /\ ~closing /\ closing' = closing /\ ready' = ready
              /\ settled' = settled \union 1..read /\ read \notin settled
           \/ /\ ~closing /\ closing' = TRUE /\ settled' = settled
              /\ read \in settled
    BY <1>0, <1>1, <2>1, <2>2, SettleEffect
  <2>4. settled' \subseteq 1..read /\ closing' \in BOOLEAN
    <3>1. settled \subseteq 1..read /\ closing \in BOOLEAN
      BY <1>0 DEF Typed
    <3>2. settled' \in {settled, settled \union 1..read} /\ closing' \in {closing, TRUE}
      BY <2>3
    <3>. QED
      BY <3>1, <3>2
  <2>5. Typed'
    <3>1. chan' = chan /\ ready' \subseteq DOMAIN copies
      BY <2>3
    <3>2. chan' \in Seq(DOMAIN copies') /\ read' \in 0..Len(chan') /\ settled' \subseteq 1..read'
      BY <1>0, <1>1, <2>4, <3>1 DEF Typed
    <3>3. epoch' \in Nat /\ (up' => epoch' > 0) /\ timer' \in 0..epoch'
      BY <1>0, <1>1, <2>2 DEF Typed
    <3>. QED
      BY <1>0, <1>1, <2>2, <2>4, <3>1, <3>2, <3>3 DEF Typed
  <2>6. WorkInv'
    BY <1>0, <1>1, <2>2, RabbitDeliveryAssumption DEF WorkInv, Work
  <2>7. ChanInv'
    BY <1>0, <1>1, <1>4, <2>3 DEF ChanInv
  <2>8. HandledInv'
    BY <1>0, <1>1, <2>3 DEF HandledInv
  <2>9. BegunInv'
    <3>1. \A t \in 1..read : Begun(chan[t])'
      BY <1>0, <1>1, <1>2, <1>3, <2>3 DEF BegunInv, Begun
    <3>2. \A c \in D!Gone : Begun(c)'
      BY <1>0, <1>2 DEF BegunInv, D!Gone
    <3>. QED
      BY <1>1, <2>3, <3>1, <3>2 DEF BegunInv
  <2>10. BufferInv'
    <3>1. timer' # epoch'
      BY <1>0, <1>1, <1>4, <2>2 DEF Typed
    <3>2. D!OwedIsBuffered'
      BY <1>0, <1>1, <1>3, <2>3 DEF D!OwedIsBuffered, D!Unsettled, D!Tags, Typed
    <3>. QED
      BY <2>2, <3>1, <3>2 DEF BufferInv
  <2>11. EpochInv'
    <3>1. ASSUME Ending' PROVE Ending
      <4>1. timer' # epoch'
        BY <1>0, <1>1, <1>4, <2>2 DEF Typed
      <4>. QED
        BY <1>1, <1>4, <2>1, <2>3, <3>1, <4>1 DEF Ending
    <3>. QED
      BY <1>0, <1>1, <3>1 DEF EpochInv
  <2>. QED
    BY <2>5, <2>6, <2>7, <2>8, <2>9, <2>10, <2>11 DEF DeliveryInv
<1>5. CASE ~(timer = epoch /\ up)
  <2>1. threw' = TRUE /\ UNCHANGED <<ready, chan, settled, closing, buffer, timer>>
    BY <1>5 DEF D!TimerFires, D!broker
  <2>2. D!Gone' = D!Gone
    BY <1>1, <2>1 DEF D!Gone, D!Held, D!CopiesAt, D!Unsettled, D!Tags
  <2>3. BegunInv'
    BY <1>0, <1>1, <1>2, <1>3, <2>1, <2>2 DEF BegunInv, D!Gone
  <2>4. Typed' /\ WorkInv' /\ ChanInv' /\ HandledInv'
    BY <1>0, <1>1, <2>1 DEF Typed, WorkInv, Work, ChanInv, HandledInv
  <2>5. BufferInv'
    BY <1>0, <1>1, <2>1 DEF BufferInv, Final, D!OwedIsBuffered, D!Unsettled, D!Tags
  <2>6. EpochInv'
    BY <1>0, <1>1, <2>1 DEF EpochInv, Ending, Final
  <2>. QED
    BY <2>3, <2>4, <2>5, <2>6 DEF DeliveryInv
<1>. QED
  BY <1>4, <1>5

\* A delivery starts a callback and joins the buffer, which is acknowledged when full.
LEMMA ReceiveKeeps ==
    ASSUME DeliveryInv, D!Receive
    PROVE  DeliveryInv'
<1>0. Typed /\ WorkInv /\ ChanInv /\ HandledInv /\ BegunInv /\ BufferInv /\ EpochInv
  BY DEF DeliveryInv
<1>1. up /\ read < Len(chan)
  BY DEF D!Receive
<1>2. PICK n \in Nat \ {0} :
        /\ read \in Nat /\ n = read + 1 /\ Len(chan) \in Nat /\ n \in 1..Len(chan)
        /\ DOMAIN chan = 1..Len(chan) /\ 1..n = 1..read \union {n} /\ n \notin 1..read
  <2>1. read \in Nat /\ read + 1 \in 1..Len(chan) /\ Len(chan) \in Nat
    BY <1>0, <1>1 DEF Typed
  <2>2. 1..read + 1 = 1..read \union {read + 1} /\ read + 1 \notin 1..read
    BY <2>1
  <2>. QED
    BY <1>0, <2>1, <2>2 DEF Typed
<1>3. PICK c \in DOMAIN copies :
        c = chan[n] /\ \A t \in DOMAIN chan : chan[t] \in DOMAIN copies
  BY <1>0, <1>2, ElementOfSeq DEF Typed
<1>. DEFINE d == [ch |-> epoch, tag |-> n, copy |-> c]
            b == Append(buffer, d)
            flushed == /\ D!Settle(1..n, n)
                       /\ buffer' = <<>> /\ timer' = 0 /\ threw' = FALSE
            kept == /\ buffer' = b /\ Len(b) < AckBatch
                    /\ timer' = (IF timer = 0 THEN epoch ELSE timer)
                    /\ UNCHANGED <<ready, chan, settled, closing, threw>>
<1>3a. /\ up /\ read' = n /\ running' = running \union {d}
       /\ handled' = [handled EXCEPT ![c] = @ + 1]
       /\ UNCHANGED <<attempts, outcome, copies, outgoing, lost, epoch, up, done, died, faults>>
  BY <1>2, <1>3 DEF D!Receive, D!publisher
<1>4. /\ handled' \in Seq(Nat) /\ Len(handled') = Len(copies) /\ handled'[c] = handled[c] + 1
      /\ DOMAIN copies = 1..Len(copies)
      /\ \A e \in DOMAIN copies : handled[e] \in Nat /\ handled'[e] \in Nat
      /\ \A e \in DOMAIN copies \ {c} : handled'[e] = handled[e]
  <2>1. handled \in Seq(Nat) /\ DOMAIN handled = DOMAIN copies
    BY <1>0 DEF Typed
  <2>2. handled' \in Seq(Nat) /\ Len(handled') = Len(handled)
    BY <1>3a, <1>3, <2>1
  <2>3. DOMAIN handled' = DOMAIN handled
    BY <1>3a
  <2>. QED
    BY <1>0, <1>3a, <1>3, <2>1, <2>2, <2>3 DEF Typed
<1>5. d \in Work /\ Work' = Work
  BY <1>0, <1>3a, <1>2, <1>3 DEF Work, Typed
<1>6. buffer \in Seq(Work) /\ Len(buffer) \in Nat /\ b \in Seq(Work) /\ Len(b) = Len(buffer) + 1
      /\ b[Len(b)] = d /\ b # <<>>
      /\ \A i \in DOMAIN buffer : i \in DOMAIN b /\ b[i] = buffer[i]
  <2>. HIDE DEF d
  <2>1. buffer \in Seq(Work)
    BY <1>0 DEF WorkInv
  <2>. QED
    BY <1>5, <2>1
<1>7. flushed \/ kept
  <2>1. CASE Len(b) >= AckBatch
    <3>1. D!Flush(b)
      BY <1>2, <1>3, <2>1 DEF D!Receive
    <3>2. b[Len(b)].tag = n
      BY <1>6
    <3>. HIDE DEF b
    <3>. QED
      BY <3>1, <3>2 DEF D!Flush
  <2>2. CASE ~(Len(b) >= AckBatch)
    <3>1. Len(b) < AckBatch
      BY <1>6, <2>2, RabbitDeliveryAssumption
    <3>. QED
      BY <1>2, <1>3, <2>2, <3>1 DEF D!Receive, D!broker
  <2>. QED
    BY <2>1, <2>2
<1>. HIDE DEF b, d
<1>8. /\ chan' = chan /\ ready' = ready /\ closing' = closing /\ settled' \subseteq 1..n
      /\ settled \subseteq settled'
      /\ \A e \in D!Gone' : e \in D!Gone \/ \E t \in 1..n : e = chan[t]
      /\ settled' = settled \/ closing \/ settled' = settled \union 1..n
  <2>1. settled \subseteq 1..read
    BY <1>0 DEF Typed
  <2>2. CASE flushed
    <3>1. /\ chan' = chan
          /\ \A e \in D!Gone' : e \in D!Gone \/ \E t \in 1..n : e = chan[t]
          /\ \/ closing /\ closing' = closing /\ settled' = settled /\ ready' = ready
             \/ /\ ~closing /\ closing' = closing /\ ready' = ready
                /\ settled' = settled \union 1..n /\ n \notin settled
             \/ /\ ~closing /\ closing' = TRUE /\ settled' = settled
                /\ n \in settled
      <4>1. D!Settle(1..n, n) /\ UNCHANGED <<copies, outgoing, lost>> /\ 1..n \in SUBSET (1..n)
        BY <1>3a, <2>2
      <4>2. Typed /\ n \in 1..Len(chan)
        BY <1>0, <1>2
      <4>. QED
        BY <4>1, <4>2, SettleEffect
    <3>2. n \notin settled
      BY <1>2, <2>1
    <3>. QED
      BY <1>2, <2>1, <3>1, <3>2
  <2>3. CASE kept
    <3>1. D!Gone' = D!Gone
      BY <1>3a, <2>3 DEF D!Gone, D!Held, D!CopiesAt, D!Unsettled, D!Tags
    <3>. QED
      BY <1>2, <2>1, <2>3, <3>1
  <2>. QED
    BY <1>7, <2>2, <2>3
<1>9. timer' \in 0..epoch /\ threw' \in BOOLEAN
  <2>1. (timer' = 0 \/ timer' = epoch \/ timer' = timer) /\ threw' \in {FALSE, threw}
    BY <1>7
  <2>2. timer \in 0..epoch /\ epoch \in Nat
    BY <1>0 DEF Typed
  <2>3. threw' \in BOOLEAN
    BY <1>0, <2>1 DEF Typed
  <2>4. timer' \in 0..epoch
    BY <2>1, <2>2
  <2>. QED
    BY <2>3, <2>4
<1>10. Typed'
  <2>1. read' \in 0..Len(chan') /\ settled' \subseteq 1..read'
    BY <1>3a, <1>2, <1>8
  <2>. QED
    BY <1>0, <1>3a, <1>4, <1>8, <1>9, <2>1 DEF Typed
<1>11. WorkInv'
  <2>1. running' \subseteq Work'
    BY <1>0, <1>3a, <1>5 DEF WorkInv
  <2>2. buffer' \in Seq(Work') /\ Len(buffer') < AckBatch
    <3>1. CASE flushed
      BY <3>1, EmptySeq, RabbitDeliveryAssumption
    <3>2. CASE kept
      BY <1>5, <1>6, <3>2
    <3>. QED
      BY <1>7, <3>1, <3>2
  <2>3. d.tag = n
    BY DEF d
  <2>4. \A e \in running : e.tag \in Nat
    BY <1>0 DEF WorkInv, Work
  <2>5. \A e \in running' : up' /\ e.ch = epoch' => e.tag <= read'
    BY <1>0, <1>3a, <1>2, <2>3, <2>4 DEF WorkInv
  <2>. QED
    BY <2>1, <2>2, <2>5 DEF WorkInv
<1>12. ChanInv'
  BY <1>0, <1>3a, <1>8 DEF ChanInv
<1>13. HandledInv'
  <2>1. handled[c] < epoch /\ epoch \in Nat
    <3>1. n \in DOMAIN chan /\ n > read
      BY <1>2
    <3>2. epoch \in Nat
      BY <1>0 DEF Typed
    <3>. QED
      BY <1>0, <1>3, <3>1, <3>2 DEF HandledInv
  <2>2. \A e \in DOMAIN copies : handled'[e] <= epoch
    <3>1. \A e \in DOMAIN copies \ {c} : handled'[e] <= epoch
      BY <1>0, <1>4 DEF HandledInv
    <3>2. handled'[c] <= epoch
      BY <1>3, <1>4, <2>1
    <3>. QED
      BY <3>1, <3>2
  <2>3. ~closing => c \notin ready
    BY <1>0, <1>2, <1>3 DEF ChanInv
  <2>4. \A t \in DOMAIN chan : t > n => t > read /\ chan[t] # c
    BY <1>0, <1>2, <1>3 DEF ChanInv
  <2>5. \A t \in DOMAIN chan : t > n => handled'[chan[t]] < epoch
    BY <1>0, <1>2, <1>3, <1>4, <2>4 DEF HandledInv
  <2>6. up /\ ~closing => \A e \in ready : handled'[e] < epoch
    BY <1>0, <1>4, <2>3 DEF HandledInv, Typed
  <2>. QED
    BY <1>3a, <1>8, <2>2, <2>5, <2>6 DEF HandledInv
<1>14. BegunInv'
  <2>1. ASSUME NEW e \in DOMAIN copies, Begun(e)
        PROVE  Begun(e)'
    <3>1. handled'[e] > 0
      BY <1>4, <2>1 DEF Begun
    <3>. QED
      BY <1>3a, <2>1, <3>1 DEF Begun
  <2>2. Begun(c)'
    <3>1. d \in running' /\ d.copy = c
      BY <1>3a DEF d
    <3>2. handled'[c] > 0
      BY <1>3, <1>4
    <3>. QED
      BY <1>3a, <1>8, <3>1, <3>2 DEF Begun
  <2>. QED
    <3>1. \A t \in 1..n : Begun(chan[t])'
      <4>1. ASSUME NEW t \in 1..read PROVE Begun(chan[t])'
        <5>1. PICK e \in DOMAIN copies : e = chan[t] /\ Begun(e)
          BY <1>0, <1>2, <1>3 DEF BegunInv
        <5>. QED
          BY <1>8, <2>1, <5>1 DEF Begun
      <4>2. Begun(chan[n])'
        BY <1>3, <1>8, <2>2 DEF Begun
      <4>. QED
        BY <1>2, <4>1, <4>2
    <3>2. \A e \in D!Gone : Begun(e)'
      BY <1>0, <2>1 DEF BegunInv, D!Gone
    <3>. QED
      BY <1>3a, <1>8, <3>1, <3>2 DEF BegunInv, Begun
<1>15. BufferInv'
  <2>1. CASE flushed
    <3>1. timer' = 0 /\ buffer' = <<>> /\ timer' # epoch
      BY <1>0, <1>1, <2>1 DEF Typed
    <3>2. ~closing => settled' = settled \union 1..n
      BY <1>0, <1>3a, <1>2, <2>1, SettleEffect DEF Typed
    <3>3. D!OwedIsBuffered'
      BY <1>3a, <1>2, <1>8, <3>2 DEF D!OwedIsBuffered, D!Unsettled, D!Tags
    <3>. QED
      BY <1>3a, <3>1, <3>3 DEF BufferInv
  <2>2. CASE kept
    <3>1. timer' # 0 /\ buffer' # <<>> /\ Final'.ch = epoch /\ Final'.tag = n
      BY <1>0, <1>1, <1>6, <2>2 DEF Typed, Final, d
    <3>2. ASSUME ~closing, NEW t \in D!Unsettled, t <= n
          PROVE  \E j \in DOMAIN b : b[j].ch = epoch /\ b[j].tag = t
      <4>1. CASE t = n
        <5>1. Len(b) \in DOMAIN b /\ b[Len(b)].ch = epoch /\ b[Len(b)].tag = t
          BY <1>6, <4>1 DEF d
        <5>. QED
          BY <5>1
      <4>2. CASE t # n
        <5>1. t \in DOMAIN chan /\ t <= read
          BY <1>2, <3>2, <4>2 DEF D!Unsettled, D!Tags
        <5>2. PICK i \in DOMAIN buffer : buffer[i].ch = epoch /\ buffer[i].tag = t
          BY <1>0, <1>3a, <3>2, <5>1 DEF BufferInv, D!OwedIsBuffered
        <5>. QED
          BY <1>6, <5>2
      <4>. QED
        BY <4>1, <4>2
    <3>3. D!OwedIsBuffered'
      BY <1>3a, <2>2, <3>2 DEF D!OwedIsBuffered, D!Unsettled, D!Tags
    <3>. QED
      BY <1>3a, <3>1, <3>3 DEF BufferInv
  <2>. QED
    BY <1>7, <2>1, <2>2
<1>16. EpochInv'
  <2>1. ASSUME Ending' PROVE closing
    <3>1. CASE flushed
      BY <1>0, <1>3a, <1>8, <2>1, <3>1 DEF Ending, Typed
    <3>2. CASE kept
      <4>1. Final'.tag = n /\ n \notin settled
        <5>1. b[Len(b)].tag = n
          BY <1>6 DEF d
        <5>. HIDE DEF b
        <5>2. Final'.tag = n
          BY <3>2, <5>1 DEF Final
        <5>3. n \notin settled
          BY <1>0, <1>2 DEF Typed
        <5>. QED
          BY <5>2, <5>3
      <4>. QED
        BY <1>3a, <1>8, <2>1, <3>2, <4>1 DEF Ending
    <3>. QED
      BY <1>7, <3>1, <3>2
  <2>. QED
    BY <1>0, <1>3a, <2>1 DEF EpochInv, Ending
<1>. QED
  BY <1>10, <1>11, <1>12, <1>13, <1>14, <1>15, <1>16 DEF DeliveryInv

\* A callback that ends leaves its copy among those done.
LEMMA CallbackEndsKeeps ==
    ASSUME DeliveryInv, NEW d \in running, D!CallbackEnds(d)
    PROVE  DeliveryInv'
<1>0. Typed /\ WorkInv /\ ChanInv /\ HandledInv /\ BegunInv /\ BufferInv /\ EpochInv
  BY DEF DeliveryInv
<1>1. /\ running' = running \ {d} /\ done' = done \union {d.copy}
      /\ UNCHANGED <<attempts, outcome, copies, outgoing, lost, ready, chan, settled, closing, read,
                     epoch, up, buffer, timer, threw, handled, died, faults>>
  BY DEF D!CallbackEnds, D!publisher, D!broker
<1>2. d.copy \in DOMAIN copies
  BY <1>0 DEF WorkInv, Work
<1>3. ASSUME NEW c, Begun(c) PROVE Begun(c)'
  BY <1>1, <1>3 DEF Begun
<1>4. Typed'
  BY <1>0, <1>1, <1>2 DEF Typed
<1>5. WorkInv'
  BY <1>0, <1>1 DEF WorkInv, Work
<1>6. ChanInv' /\ HandledInv'
  BY <1>0, <1>1 DEF ChanInv, HandledInv
<1>7. BegunInv'
  <2>1. D!Gone' = D!Gone
    BY <1>1 DEF D!Gone, D!Held, D!CopiesAt, D!Unsettled, D!Tags
  <2>2. \A t \in 1..read : Begun(chan[t])'
    BY <1>0, <1>1, <1>3 DEF BegunInv, Begun
  <2>. QED
    BY <1>0, <1>1, <1>3, <2>1, <2>2 DEF BegunInv, Begun
<1>8. BufferInv'
  BY <1>0, <1>1 DEF BufferInv, Final, D!OwedIsBuffered, D!Unsettled, D!Tags
<1>9. EpochInv'
  BY <1>0, <1>1 DEF EpochInv, Ending, Final
<1>. QED
  BY <1>4, <1>5, <1>6, <1>7, <1>8, <1>9 DEF DeliveryInv

\* A fault pays for whatever it brings about.
LEMMA FaultPays ==
    ASSUME EpochInv, Typed, faults < MaxFaults, faults' = faults + 1, epoch' = epoch
    PROVE  EpochInv' /\ faults' \in 0..MaxFaults
<1>1. epoch \in Nat /\ faults \in Nat /\ MaxFaults \in Nat
  BY RabbitConnectionAssumption DEF Typed
<1>2. epoch <= faults + 1
  BY DEF EpochInv
<1>3. epoch' <= faults' /\ epoch' <= faults' + 1 /\ faults' \in 0..MaxFaults
  BY <1>1, <1>2
<1>. QED
  BY <1>3 DEF EpochInv

\* One that fails has its message nacked, which settles what was read at most.
LEMMA CallbackFailsKeeps ==
    ASSUME DeliveryInv, NEW d \in running, D!CallbackFails(d)
    PROVE  DeliveryInv'
<1>0. Typed /\ WorkInv /\ ChanInv /\ HandledInv /\ BegunInv /\ BufferInv /\ EpochInv
  BY DEF DeliveryInv
<1>1. /\ running' = running \ {d} /\ done' = done \union {d.copy}
      /\ faults < MaxFaults /\ faults' = faults + 1
      /\ UNCHANGED <<attempts, outcome, copies, outgoing, lost, read, epoch, up, buffer, timer,
                     threw, handled, died>>
  BY DEF D!CallbackFails, D!publisher, D!Fail
<1>2. d.copy \in DOMAIN copies /\ d.tag \in Nat \ {0}
  BY <1>0 DEF WorkInv, Work
<1>3. ASSUME NEW c, Begun(c) PROVE Begun(c)'
  BY <1>1, <1>3 DEF Begun
<1>4. /\ read \in Nat /\ 1..read \subseteq DOMAIN chan /\ DOMAIN chan = 1..Len(chan)
      /\ settled \subseteq 1..read
  BY <1>0 DEF Typed
<1>5. /\ chan' = chan /\ ready' \subseteq DOMAIN copies
      /\ \A c \in D!Gone' : c \in D!Gone \/ \E t \in 1..read : c = chan[t]
      /\ settled \subseteq settled' /\ settled' \subseteq 1..read
      /\ closing' = TRUE \/ (closing' = closing /\ ready' = ready)
  <2>1. CASE d.ch = epoch /\ up
    <3>1. d.tag \in 1..read /\ d.tag \in 1..Len(chan)
      BY <1>0, <1>2, <1>4, <2>1 DEF WorkInv
    <3>2. D!Settle({d.tag}, d.tag) /\ {d.tag} \in SUBSET (1..d.tag)
      BY <1>2, <2>1 DEF D!CallbackFails
    <3>3. /\ chan' = chan /\ ready' \subseteq DOMAIN copies
          /\ \A c \in D!Gone' : c \in D!Gone \/ \E t \in {d.tag} : c = chan[t]
          /\ \/ closing /\ closing' = closing /\ settled' = settled /\ ready' = ready
             \/ /\ ~closing /\ closing' = closing /\ ready' = ready
                /\ settled' = settled \union {d.tag} /\ d.tag \notin settled
             \/ /\ ~closing /\ closing' = TRUE /\ settled' = settled
                /\ d.tag \in settled
      BY <1>0, <1>1, <3>1, <3>2, SettleEffect
    <3>4. settled' = settled \/ settled' = settled \union {d.tag}
      BY <3>3
    <3>5. settled \subseteq settled' /\ settled' \subseteq 1..read
      BY <1>4, <3>1, <3>4
    <3>6. closing' = TRUE \/ (closing' = closing /\ ready' = ready)
      BY <3>3
    <3>. QED
      BY <3>1, <3>3, <3>5, <3>6
  <2>2. CASE ~(d.ch = epoch /\ up)
    <3>1. UNCHANGED <<ready, chan, settled, closing>>
      BY <2>2 DEF D!CallbackFails, D!broker
    <3>2. D!Gone' = D!Gone
      BY <1>1, <3>1 DEF D!Gone, D!Held, D!CopiesAt, D!Unsettled, D!Tags
    <3>. QED
      BY <1>0, <1>4, <3>1, <3>2 DEF Typed
  <2>. QED
    BY <2>1, <2>2
<1>6. Typed'
  <2>1. closing' \in BOOLEAN
    BY <1>0, <1>5 DEF Typed
  <2>2. faults' \in 0..MaxFaults
    BY <1>0, <1>1, FaultPays
  <2>3. done' \subseteq DOMAIN copies
    BY <1>0, <1>1, <1>2 DEF Typed
  <2>. QED
    BY <1>0, <1>1, <1>5, <2>1, <2>2, <2>3 DEF Typed
<1>7. WorkInv'
  BY <1>0, <1>1 DEF WorkInv, Work
<1>8. ChanInv'
  <2>1. ~up => ~closing'
    <3>1. ASSUME ~up PROVE closing' = closing
      BY <3>1 DEF D!CallbackFails, D!broker
    <3>. QED
      BY <1>0, <3>1 DEF ChanInv
  <2>. QED
    BY <1>0, <1>1, <1>5, <2>1 DEF ChanInv
<1>9. HandledInv'
  BY <1>0, <1>1, <1>5 DEF HandledInv
<1>10. BegunInv'
  <2>1. \A t \in 1..read : Begun(chan[t])'
    BY <1>0, <1>3, <1>5 DEF BegunInv, Begun
  <2>. QED
    BY <1>0, <1>1, <1>3, <1>5, <2>1 DEF BegunInv, Begun
<1>11. BufferInv'
  <2>1. D!OwedIsBuffered'
    BY <1>0, <1>1, <1>5 DEF BufferInv, D!OwedIsBuffered, D!Unsettled, D!Tags
  <2>. QED
    BY <1>0, <1>1, <2>1 DEF BufferInv, Final
<1>12. EpochInv'
  BY <1>0, <1>1, FaultPays
<1>. QED
  BY <1>6, <1>7, <1>8, <1>9, <1>10, <1>11, <1>12 DEF DeliveryInv

\* A channel that goes gives back what was not settled, so nothing leaves the broker.
LEMMA GiveBackEffect ==
    ASSUME Typed, UNCHANGED <<copies, outgoing, lost>>, D!GiveBack
    PROVE  /\ chan' = <<>> /\ settled' = {} /\ closing' = FALSE /\ read' = 0
           /\ ready' \subseteq DOMAIN copies /\ D!Gone' = D!Gone
<1>. USE DEF D!Gone, D!Held, D!CopiesAt, D!Unsettled, D!Tags
<1>1. /\ chan' = <<>> /\ settled' = {} /\ closing' = FALSE /\ read' = 0
      /\ ready' = IF closing THEN ready ELSE ready \union D!CopiesAt(D!Unsettled)
  BY DEF D!GiveBack
<1>2. DOMAIN chan = 1..Len(chan) /\ \A t \in DOMAIN chan : chan[t] \in DOMAIN copies
  BY DEF Typed
<1>3. ready' \subseteq DOMAIN copies
  BY <1>1, <1>2 DEF Typed
<1>4. DOMAIN chan' = {}
  BY <1>1
<1>5. D!Gone' = DOMAIN copies \ (outgoing \union lost \union ready')
  BY <1>1, <1>4
<1>6. D!Gone = DOMAIN copies \ (outgoing \union lost \union ready')
  BY <1>1
<1>. QED
  BY <1>1, <1>3, <1>5, <1>6

\* What was started stays started when a channel or the process goes.
LEMMA ChannelGoesKeeps ==
    ASSUME DeliveryInv, D!CloseSeen \/ D!ChannelLost \/ D!Crash
    PROVE  DeliveryInv'
<1>0. Typed /\ WorkInv /\ ChanInv /\ HandledInv /\ BegunInv /\ BufferInv /\ EpochInv
  BY DEF DeliveryInv
<1>1. D!GiveBack /\ up' = FALSE /\ UNCHANGED <<copies, outgoing, lost, epoch, handled, done>>
  BY DEF D!CloseSeen, D!ChannelLost, D!Crash, D!publisher, D!consumer
<1>2. \/ UNCHANGED <<buffer, timer, threw, running, died>>
      \/ /\ died' = died \union {d.copy : d \in running}
         /\ buffer' = <<>> /\ timer' = 0 /\ threw' = FALSE
         /\ running' = {}
  BY DEF D!CloseSeen, D!ChannelLost, D!Crash, D!consumer
<1>3. /\ chan' = <<>> /\ settled' = {} /\ closing' = FALSE /\ read' = 0
      /\ ready' \subseteq DOMAIN copies /\ D!Gone' = D!Gone
  BY <1>0, <1>1, GiveBackEffect
<1>4. ASSUME NEW c, Begun(c) PROVE Begun(c)'
  BY <1>1, <1>2, <1>4 DEF Begun
<1>5. EpochInv' /\ faults' \in 0..MaxFaults
  <2>1. CASE D!CloseSeen
    <3>1. faults' = faults /\ closing
      BY <2>1 DEF D!CloseSeen
    <3>2. epoch <= faults /\ epoch \in Nat /\ faults \in 0..MaxFaults
      BY <1>0, <3>1 DEF EpochInv, Ending, Typed
    <3>3. epoch' <= faults' /\ epoch' <= faults' + 1
      BY <1>1, <3>1, <3>2
    <3>. QED
      BY <3>1, <3>2, <3>3 DEF EpochInv
  <2>2. CASE D!ChannelLost \/ D!Crash
    BY <1>0, <1>1, <2>2, FaultPays DEF D!ChannelLost, D!Crash, D!Fail
  <2>. QED
    BY <2>1, <2>2
<1>6. Typed'
  <2>1. chan' \in Seq(DOMAIN copies) /\ read' \in 0..Len(chan') /\ settled' \subseteq 1..read'
    BY <1>3
  <2>2. died' \subseteq DOMAIN copies /\ threw' \in BOOLEAN
    <3>1. \A d \in running : d.copy \in DOMAIN copies
      BY <1>0 DEF WorkInv, Work
    <3>. QED
      BY <1>0, <1>2, <3>1 DEF Typed
  <2>3. timer' \in 0..epoch
    BY <1>0, <1>2 DEF Typed
  <2>. QED
    BY <1>0, <1>1, <1>3, <1>5, <2>1, <2>2, <2>3 DEF Typed
<1>7. WorkInv'
  <2>1. Work' = Work
    BY <1>1 DEF Work
  <2>2. running' \subseteq Work
    BY <1>0, <1>2 DEF WorkInv
  <2>3. buffer' \in Seq(Work) /\ Len(buffer') < AckBatch
    <3>1. <<>> \in Seq(Work) /\ Len(<<>>) < AckBatch
      BY EmptySeq, RabbitDeliveryAssumption
    <3>2. buffer \in Seq(Work) /\ Len(buffer) < AckBatch
      BY <1>0 DEF WorkInv
    <3>3. buffer' = buffer \/ buffer' = <<>>
      BY <1>2
    <3>. QED
      BY <3>1, <3>2, <3>3
  <2>. QED
    BY <1>1, <2>1, <2>2, <2>3 DEF WorkInv
<1>8. ChanInv' /\ HandledInv'
  <2>1. DOMAIN chan' = {}
    BY <1>3
  <2>. QED
    BY <1>0, <1>1, <1>3, <2>1 DEF ChanInv, HandledInv
<1>9. BegunInv'
  <2>1. \A c \in D!Gone' : Begun(c)'
    BY <1>0, <1>3, <1>4 DEF BegunInv
  <2>. QED
    BY <1>3, <2>1 DEF BegunInv
<1>10. BufferInv'
  BY <1>0, <1>1, <1>2 DEF BufferInv, D!OwedIsBuffered
<1>. QED
  BY <1>5, <1>6, <1>7, <1>8, <1>9, <1>10 DEF DeliveryInv

\* A new channel has handed over nothing, and the end of the last one was paid for.
LEMMA SetupConsumerKeeps ==
    ASSUME DeliveryInv, D!SetupConsumer
    PROVE  DeliveryInv'
<1>0. Typed /\ WorkInv /\ ChanInv /\ HandledInv /\ BegunInv /\ BufferInv /\ EpochInv
  BY DEF DeliveryInv
<1>1. /\ ~up /\ up' = TRUE /\ epoch' = epoch + 1
      /\ UNCHANGED <<attempts, outcome, copies, outgoing, lost, ready, chan, settled, closing, read,
                     buffer, timer, threw, running, handled, done, died, faults>>
  BY DEF D!SetupConsumer, D!publisher, D!broker, D!consumer
<1>2. chan = <<>> /\ DOMAIN chan = {} /\ ~closing
  BY <1>0, <1>1 DEF ChanInv
<1>3. /\ epoch \in Nat /\ epoch' \in Nat \ {0} /\ epoch' > 0
      /\ timer \in 0..epoch' /\ timer' # epoch'
  BY <1>0, <1>1 DEF Typed
<1>4. Typed'
  BY <1>0, <1>1, <1>3 DEF Typed
<1>5. WorkInv'
  <2>1. Work \subseteq Work'
    BY <1>1, <1>3 DEF Work
  <2>2. buffer \in Seq(Work')
    BY <1>0, <2>1, SeqMonotonic DEF WorkInv
  <2>3. \A d \in running : d.ch # epoch'
    BY <1>0, <1>1, <1>3 DEF WorkInv, Work
  <2>. QED
    BY <1>0, <1>1, <2>1, <2>2, <2>3 DEF WorkInv
<1>6. ChanInv'
  BY <1>0, <1>1, <1>2 DEF ChanInv
<1>7. HandledInv'
  <2>1. \A c \in DOMAIN copies : handled[c] \in Nat /\ handled[c] <= epoch
    BY <1>0 DEF HandledInv, Typed
  <2>2. \A c \in DOMAIN copies : handled[c] <= epoch' /\ handled[c] < epoch'
    BY <1>1, <1>3, <2>1
  <2>3. ready \subseteq DOMAIN copies
    BY <1>0 DEF Typed
  <2>. QED
    BY <1>1, <1>2, <2>2, <2>3 DEF HandledInv
<1>8. BegunInv'
  <2>1. D!Gone' = D!Gone
    BY <1>1 DEF D!Gone, D!Held, D!CopiesAt, D!Unsettled, D!Tags
  <2>. QED
    BY <1>0, <1>1, <2>1 DEF BegunInv, Begun
<1>9. BufferInv'
  BY <1>0, <1>1, <1>2, <1>3 DEF BufferInv, D!OwedIsBuffered, D!Unsettled, D!Tags
<1>10. EpochInv'
  <2>1. epoch <= faults /\ faults \in Nat
    BY <1>0, <1>1 DEF EpochInv, Ending, Typed
  <2>2. ~Ending'
    BY <1>1, <1>2, <1>3 DEF Ending
  <2>3. epoch' <= faults' + 1
    BY <1>1, <1>3, <2>1
  <2>. QED
    BY <2>2, <2>3 DEF EpochInv
<1>. QED
  BY <1>4, <1>5, <1>6, <1>7, <1>8, <1>9, <1>10 DEF DeliveryInv

\* A copy reaches the broker, which drops it where no queue is bound.
LEMMA ArrivesKeeps ==
    ASSUME DeliveryInv, WayInv, D!Arrives
    PROVE  DeliveryInv'
<1>. DEFINE c == D!First(outgoing)
<1>0. Typed /\ WorkInv /\ ChanInv /\ HandledInv /\ BegunInv /\ BufferInv /\ EpochInv
  BY DEF DeliveryInv
<1>1. /\ outgoing # {} /\ outgoing' = outgoing \ {c}
      /\ \/ epoch = 0 /\ lost' = lost \union {c} /\ ready' = ready
         \/ epoch # 0 /\ ready' = ready \union {c} /\ lost' = lost
      /\ UNCHANGED <<copies, chan, settled, closing, read, epoch, up, buffer, timer, threw,
                     running, handled, done, died, faults>>
  BY DEF D!Arrives, D!consumer
<1>2. c \in outgoing /\ c \in DOMAIN copies
  <2>1. Len(copies) \in Nat /\ outgoing \in SUBSET (1..Len(copies))
    BY <1>0 DEF Typed
  <2>. QED
    BY <1>0, <1>1, <2>1, FirstExists DEF Typed
<1>. HIDE DEF c
<1>3. handled[c] = 0 /\ \A t \in DOMAIN chan : chan[t] # c
  BY <1>2 DEF WayInv
<1>4. Typed'
  BY <1>0, <1>1, <1>2 DEF Typed
<1>5. WorkInv'
  BY <1>0, <1>1 DEF WorkInv, Work
<1>6. ChanInv'
  BY <1>0, <1>1, <1>3 DEF ChanInv
<1>7. HandledInv'
  <2>1. up => handled[c] < epoch
    BY <1>0, <1>3 DEF Typed
  <2>. QED
    BY <1>0, <1>1, <2>1 DEF HandledInv
<1>8. BegunInv'
  <2>1. \A d \in D!Gone' : d \in D!Gone
    BY <1>1 DEF D!Gone, D!Held, D!CopiesAt, D!Unsettled, D!Tags
  <2>. QED
    BY <1>0, <1>1, <2>1 DEF BegunInv, Begun
<1>9. BufferInv'
  BY <1>0, <1>1 DEF BufferInv, Final, D!OwedIsBuffered, D!Unsettled, D!Tags
<1>10. EpochInv'
  BY <1>0, <1>1 DEF EpochInv, Ending, Final
<1>. QED
  BY <1>4, <1>5, <1>6, <1>7, <1>8, <1>9, <1>10 DEF DeliveryInv

\* What is lost on its way the broker never had.
LEMMA OutgoingLostKeeps ==
    ASSUME DeliveryInv, D!OutgoingLost
    PROVE  DeliveryInv'
<1>0. Typed /\ WorkInv /\ ChanInv /\ HandledInv /\ BegunInv /\ BufferInv /\ EpochInv
  BY DEF DeliveryInv
<1>1. /\ outgoing' = {} /\ lost' = lost \union outgoing
      /\ faults < MaxFaults /\ faults' = faults + 1
      /\ UNCHANGED <<copies, ready, chan, settled, closing, read, epoch, up, buffer, timer, threw,
                     running, handled, done, died>>
  BY DEF D!OutgoingLost, D!broker, D!consumer, D!Fail
<1>2. EpochInv' /\ faults' \in 0..MaxFaults
  BY <1>0, <1>1, FaultPays
<1>3. Typed'
  BY <1>0, <1>1, <1>2 DEF Typed
<1>4. WorkInv' /\ ChanInv' /\ HandledInv'
  BY <1>0, <1>1 DEF WorkInv, Work, ChanInv, HandledInv
<1>5. BegunInv'
  <2>1. D!Gone' = D!Gone
    BY <1>1 DEF D!Gone, D!Held, D!CopiesAt, D!Unsettled, D!Tags
  <2>. QED
    BY <1>0, <1>1, <2>1 DEF BegunInv, Begun
<1>6. BufferInv'
  BY <1>0, <1>1 DEF BufferInv, Final, D!OwedIsBuffered, D!Unsettled, D!Tags
<1>. QED
  BY <1>2, <1>3, <1>4, <1>5, <1>6 DEF DeliveryInv

\* Copies move between the broker, the channel and the callbacks; none joins from the way
\* but by arriving.
LEMMA WayStep ==
    ASSUME DeliveryInv, WayInv, [D!Next]_(D!vars)
    PROVE  WayInv'
<1>0. Typed
  BY DEF DeliveryInv
<1>. DEFINE had == {chan[t] : t \in DOMAIN chan}
<1>1. ASSUME /\ outgoing' \subseteq outgoing /\ ready' \subseteq ready \union had
             /\ \A t \in DOMAIN chan' : chan'[t] \in ready \union had
             /\ \A c \in DOMAIN copies : c \notin had => handled'[c] = handled[c]
      PROVE  WayInv'
  <2>1. ASSUME NEW c \in outgoing'
        PROVE  handled'[c] = 0 /\ c \notin ready' /\ \A t \in DOMAIN chan' : chan'[t] # c
    <3>1. c \in outgoing /\ c \in DOMAIN copies
      BY <1>0, <1>1, <2>1 DEF Typed
    <3>2. handled[c] = 0 /\ c \notin ready /\ c \notin had
      BY <3>1 DEF WayInv
    <3>. HIDE DEF had
    <3>. QED
      BY <1>1, <3>1, <3>2
  <2>. QED
    BY <2>1 DEF WayInv
<1>2. D!CopiesAt(D!Unsettled) \subseteq had
  BY DEF D!CopiesAt, D!Unsettled, D!Tags
<1>3. ASSUME NEW m \in Messages, D!Publish(m) \/ D!PublishFull(m) PROVE WayInv'
  <2>1. /\ copies' = Append(copies, m) /\ outgoing' = outgoing \union {Len(copies')}
        /\ handled' = Append(handled, 0) /\ chan' = chan /\ ready' = ready
    BY <1>3 DEF D!Publish, D!PublishFull, D!Written, D!broker
  <2>2. /\ Len(copies) \in Nat /\ DOMAIN copies = 1..Len(copies)
        /\ Len(copies') = Len(copies) + 1
        /\ \A c \in DOMAIN copies : handled'[c] = handled[c]
        /\ handled'[Len(copies) + 1] = 0
    BY <1>0, <2>1 DEF Typed
  <2>3. ready \subseteq DOMAIN copies /\ \A t \in DOMAIN chan : chan[t] \in DOMAIN copies
    BY <1>0 DEF Typed
  <2>4. outgoing \subseteq DOMAIN copies
    BY <1>0 DEF Typed
  <2>5. ASSUME NEW c \in outgoing'
        PROVE  handled'[c] = 0 /\ c \notin ready' /\ \A t \in DOMAIN chan' : chan'[t] # c
    <3>1. CASE c = Len(copies) + 1
      <4>1. c \notin DOMAIN copies
        BY <2>2, <3>1
      <4>. QED
        BY <2>1, <2>2, <2>3, <3>1, <4>1
    <3>2. CASE c # Len(copies) + 1
      <4>1. c \in outgoing
        BY <2>1, <2>2, <3>2
      <4>. QED
        BY <2>1, <2>2, <2>4, <4>1 DEF WayInv
    <3>. QED
      BY <3>1, <3>2
  <2>. QED
    BY <2>5 DEF WayInv
<1>4. CASE D!Arrives
  <2>1. /\ outgoing' = outgoing \ {D!First(outgoing)}
        /\ ready' \subseteq ready \union {D!First(outgoing)}
        /\ chan' = chan /\ handled' = handled
    BY <1>4 DEF D!Arrives, D!consumer
  <2>. QED
    BY <2>1 DEF WayInv
<1>5. CASE D!OutgoingLost
  BY <1>5 DEF D!OutgoingLost, WayInv
<1>6. CASE D!BrokerDelivers
  <2>. DEFINE c == D!First(ready)
  <2>1. /\ ready # {} /\ chan' = Append(chan, c) /\ ready' = ready \ {c}
        /\ outgoing' = outgoing /\ handled' = handled
    BY <1>6 DEF D!BrokerDelivers, D!publisher, D!consumer
  <2>2. c \in ready
    <3>1. Len(copies) \in Nat /\ ready \in SUBSET (1..Len(copies))
      BY <1>0 DEF Typed
    <3>. QED
      BY <2>1, <3>1, FirstExists
  <2>. HIDE DEF c
  <2>3. \A t \in DOMAIN chan' : chan'[t] \in ready \union had
    BY <1>0, <2>1, <2>2 DEF Typed
  <2>. QED
    BY <1>1, <2>1, <2>3
<1>7. ASSUME NEW T, NEW last, D!Settle(T, last)
      PROVE  chan' = chan /\ ready' \subseteq ready \union had
  BY <1>2, <1>7 DEF D!Settle, D!broker
<1>8. CASE D!Receive
  <2>1. read + 1 \in DOMAIN chan /\ handled' = [handled EXCEPT ![chan[read + 1]] = @ + 1]
    BY <1>0, <1>8 DEF D!Receive, Typed
  <2>2. \A c \in DOMAIN copies : c \notin had => handled'[c] = handled[c]
    BY <1>0, <2>1 DEF Typed
  <2>3. chan' = chan /\ ready' \subseteq ready \union had
    BY <1>7, <1>8 DEF D!Receive, D!Flush, D!broker
  <2>4. outgoing' = outgoing
    BY <1>8 DEF D!Receive, D!publisher
  <2>. QED
    BY <1>1, <2>2, <2>3, <2>4
<1>9. CASE D!TimerFires
  <2>1. chan' = chan /\ ready' \subseteq ready \union had
    BY <1>7, <1>9 DEF D!TimerFires, D!Flush, D!broker
  <2>2. outgoing' = outgoing /\ handled' = handled
    BY <1>9 DEF D!TimerFires, D!publisher
  <2>. QED
    BY <1>1, <2>1, <2>2
<1>10. ASSUME NEW d \in running, D!CallbackFails(d) PROVE WayInv'
  <2>1. chan' = chan /\ ready' \subseteq ready \union had
    BY <1>7, <1>10 DEF D!CallbackFails, D!broker
  <2>2. outgoing' = outgoing /\ handled' = handled
    BY <1>10 DEF D!CallbackFails, D!publisher
  <2>. QED
    BY <1>1, <2>1, <2>2
<1>11. CASE D!CloseSeen \/ D!ChannelLost \/ D!Crash
  <2>1. chan' = <<>> /\ ready' \subseteq ready \union had
    BY <1>2, <1>11 DEF D!CloseSeen, D!ChannelLost, D!Crash, D!GiveBack
  <2>2. outgoing' = outgoing /\ handled' = handled
    BY <1>11 DEF D!CloseSeen, D!ChannelLost, D!Crash, D!publisher, D!consumer
  <2>3. DOMAIN chan' = {}
    BY <2>1
  <2>. QED
    BY <1>1, <2>1, <2>2, <2>3
<1>12. ASSUME NEW d \in running, D!CallbackEnds(d) PROVE WayInv'
  BY <1>12 DEF D!CallbackEnds, D!publisher, D!broker, WayInv
<1>13. CASE D!SetupConsumer \/ UNCHANGED D!vars \/ \E m \in Messages : D!PublishInvalid(m)
  BY <1>13 DEF D!SetupConsumer, D!PublishInvalid, D!vars, D!publisher, D!broker, D!consumer,
               WayInv
<1>. QED
  BY <1>3, <1>4, <1>5, <1>6, <1>8, <1>9, <1>10, <1>11, <1>12, <1>13 DEF D!Next, D!Callback

LEMMA SameCardinality == \A S : D!Cardinality(S) = Cardinality(S)
BY DEF D!Cardinality, Cardinality

\* What leaves the deliveries alone, but for a fault.
LEMMA DeliveryStutters ==
    ASSUME DeliveryInv, UNCHANGED D!vars \/ \E m \in Messages : D!PublishInvalid(m)
    PROVE  DeliveryInv'
<1>0. Typed /\ WorkInv /\ ChanInv /\ HandledInv /\ BegunInv /\ BufferInv /\ EpochInv
  BY DEF DeliveryInv
<1>1. /\ UNCHANGED <<copies, outgoing, lost, ready, chan, settled, closing, read, epoch, up, buffer,
                     timer, threw, running, handled, done, died>>
      /\ faults' = faults \/ (faults < MaxFaults /\ faults' = faults + 1)
  BY DEF D!vars, D!PublishInvalid, D!publisher, D!broker, D!consumer, D!Fail
<1>2. EpochInv' /\ faults' \in 0..MaxFaults
  <2>1. CASE faults' = faults
    <3>1. EpochInv'
      BY <1>0, <1>1, <2>1 DEF EpochInv, Ending, Final
    <3>. QED
      BY <1>0, <2>1, <3>1 DEF Typed
  <2>2. CASE faults < MaxFaults /\ faults' = faults + 1
    BY <1>0, <1>1, <2>2, FaultPays
  <2>. QED
    BY <1>1, <2>1, <2>2
<1>3. Typed'
  BY <1>0, <1>1, <1>2 DEF Typed
<1>4. WorkInv'
  BY <1>0, <1>1 DEF WorkInv, Work
<1>5. ChanInv' /\ HandledInv'
  BY <1>0, <1>1 DEF ChanInv, HandledInv
<1>6. BegunInv'
  <2>1. D!Gone' = D!Gone
    BY <1>1 DEF D!Gone, D!Held, D!CopiesAt, D!Unsettled, D!Tags
  <2>. QED
    BY <1>0, <1>1, <2>1 DEF BegunInv, Begun
<1>7. BufferInv'
  BY <1>0, <1>1 DEF BufferInv, Final, D!OwedIsBuffered, D!Unsettled, D!Tags
<1>. QED
  BY <1>2, <1>3, <1>4, <1>5, <1>6, <1>7 DEF DeliveryInv

LEMMA SentFinite ==
    ASSUME copies \in Seq(Messages), NEW m
    PROVE  IsFiniteSet(Sent(m)) /\ Cardinality(Sent(m)) \in Nat /\ Sent(m) \subseteq 1..Len(copies)
<1>1. Len(copies) \in Nat /\ Sent(m) \subseteq 1..Len(copies)
  BY DEF Sent
<1>2. IsFiniteSet(1..Len(copies))
  BY <1>1, FS_Interval
<1>3. IsFiniteSet(Sent(m))
  BY <1>1, <1>2, FS_Subset
<1>. QED
  BY <1>1, <1>3, FS_CardinalityType

\* The copies of one message are one more when it is written, those of the others as many.
LEMMA WrittenSent ==
    ASSUME copies \in Seq(Messages), NEW m \in Messages, D!Written(m), NEW k \in Messages
    PROVE  /\ Cardinality(Sent(k)) \in Nat
           /\ k # m => Sent(k)' = Sent(k)
           /\ k = m => /\ Sent(k)' # {}
                       /\ Cardinality(Sent(k)') = Cardinality(Sent(k)) + 1
<1>. DEFINE n == Len(copies) + 1
<1>1. /\ Len(copies) \in Nat /\ DOMAIN copies = 1..Len(copies) /\ DOMAIN copies' = 1..n
      /\ \A c \in 1..Len(copies) : copies'[c] = copies[c]
      /\ copies'[n] = m
  BY DEF D!Written
<1>2. 1..n = 1..Len(copies) \union {n} /\ n \notin 1..Len(copies)
  BY <1>1
<1>. HIDE DEF n
<1>3. IsFiniteSet(Sent(k)) /\ n \notin Sent(k)
  BY <1>2, SentFinite
<1>4. Cardinality(Sent(k)) \in Nat
  BY <1>3, FS_CardinalityType
<1>5. ASSUME k # m PROVE Sent(k)' = Sent(k)
  BY <1>1, <1>2, <1>5 DEF Sent
<1>6. ASSUME k = m PROVE Sent(k)' = Sent(k) \union {n}
  BY <1>1, <1>2, <1>6 DEF Sent
<1>7. Cardinality(Sent(k) \union {n}) = Cardinality(Sent(k)) + 1
  BY <1>3, FS_AddElement
<1>. QED
  BY <1>4, <1>5, <1>6, <1>7

LEMMA PublisherStep ==
    ASSUME copies \in Seq(Messages), PublisherInv, [D!Next]_(D!vars)
    PROVE  PublisherInv'
<1>. DEFINE Bound(k) == attempts[k] + (IF outcome[k] = "sent" THEN 1 ELSE 0)
            Good(k) == /\ outcome[k] # "failed" => attempts[k] < Tries
                       /\ Cardinality(Sent(k)) <= Bound(k)
                       /\ outcome[k] = "sent" => Sent(k) # {}
<1>0. Tries \in Nat \ {0}
  BY RabbitDeliveryAssumption
<1>1. /\ attempts \in [Messages -> 0..Tries]
      /\ outcome \in [Messages -> {"calling", "sent", "failed"}]
      /\ \A k \in Messages : Good(k)
  BY DEF PublisherInv
<1>2. SUFFICES /\ attempts' \in [Messages -> 0..Tries]
               /\ outcome' \in [Messages -> {"calling", "sent", "failed"}]
               /\ \A k \in Messages : Good(k)'
  BY DEF PublisherInv
<1>3. ASSUME NEW m \in Messages, D!Publish(m)
      PROVE  /\ attempts' \in [Messages -> 0..Tries]
             /\ outcome' \in [Messages -> {"calling", "sent", "failed"}]
             /\ \A k \in Messages : Good(k)'
  <2>1. /\ outcome[m] = "calling" /\ D!Written(m) /\ attempts' = attempts
        /\ outcome' = [outcome EXCEPT ![m] = "sent"]
    BY <1>3 DEF D!Publish
  <2>2. outcome' \in [Messages -> {"calling", "sent", "failed"}]
    BY <1>1, <2>1
  <2>3. ASSUME NEW k \in Messages, k # m PROVE Good(k)'
    <3>1. Sent(k)' = Sent(k) /\ outcome'[k] = outcome[k]
      BY <1>1, <2>1, <2>3, WrittenSent
    <3>. QED
      BY <1>1, <2>1, <3>1
  <2>4. Good(m)'
    <3>1. /\ Sent(m)' # {} /\ Cardinality(Sent(m)) \in Nat
          /\ Cardinality(Sent(m)') = Cardinality(Sent(m)) + 1
      BY <2>1, WrittenSent
    <3>2. outcome'[m] = "sent" /\ attempts'[m] = attempts[m] /\ attempts[m] \in 0..Tries
      BY <1>1, <2>1
    <3>3. attempts[m] < Tries /\ Cardinality(Sent(m)) <= attempts[m]
      BY <1>1, <2>1
    <3>. QED
      BY <3>1, <3>2, <3>3
  <2>. QED
    BY <1>1, <2>1, <2>2, <2>3, <2>4
<1>4. ASSUME NEW m \in Messages, D!PublishFull(m) \/ D!PublishInvalid(m)
      PROVE  /\ attempts' \in [Messages -> 0..Tries]
             /\ outcome' \in [Messages -> {"calling", "sent", "failed"}]
             /\ \A k \in Messages : Good(k)'
  <2>1. /\ outcome[m] = "calling" /\ D!Attempt(m) /\ (D!Written(m) \/ copies' = copies)
    BY <1>4 DEF D!PublishFull, D!PublishInvalid
  <2>2. /\ attempts' = [attempts EXCEPT ![m] = @ + 1]
        /\ outcome' = [outcome EXCEPT ![m] = IF attempts[m] + 1 = Tries THEN "failed" ELSE @]
    BY <2>1 DEF D!Attempt
  <2>3. attempts[m] < Tries /\ Cardinality(Sent(m)) <= attempts[m] /\ attempts[m] \in Nat
    BY <1>1, <2>1
  <2>4. /\ attempts'[m] = attempts[m] + 1 /\ attempts'[m] \in 0..Tries
        /\ attempts' \in [Messages -> 0..Tries]
    BY <1>0, <1>1, <2>2, <2>3
  <2>5. /\ outcome' \in [Messages -> {"calling", "sent", "failed"}]
        /\ outcome'[m] = IF attempts[m] + 1 = Tries THEN "failed" ELSE "calling"
    BY <1>1, <2>1, <2>2
  <2>6. ASSUME NEW k \in Messages, k # m PROVE Good(k)'
    <3>1. Sent(k)' = Sent(k)
      BY <2>1, <2>6, WrittenSent DEF Sent
    <3>2. outcome'[k] = outcome[k] /\ attempts'[k] = attempts[k]
      BY <1>1, <2>2, <2>6
    <3>. QED
      BY <1>1, <3>1, <3>2
  <2>7. Good(m)'
    <3>1. outcome'[m] # "sent" /\ (outcome'[m] # "failed" => attempts'[m] < Tries)
      BY <1>0, <2>3, <2>4, <2>5
    <3>2. Cardinality(Sent(m)') <= attempts'[m]
      <4>1. CASE D!Written(m)
        <5>1. /\ Cardinality(Sent(m)) \in Nat
              /\ Cardinality(Sent(m)') = Cardinality(Sent(m)) + 1
          BY <4>1, WrittenSent
        <5>. QED
          BY <2>3, <2>4, <5>1
      <4>2. CASE copies' = copies
        <5>1. Sent(m)' = Sent(m)
          BY <4>2 DEF Sent
        <5>2. Cardinality(Sent(m)) \in Nat
          BY SentFinite
        <5>. QED
          BY <2>3, <2>4, <5>1, <5>2
      <4>. QED
        BY <2>1, <4>1, <4>2
    <3>3. Bound(m)' = attempts'[m]
      BY <2>4, <3>1
    <3>. QED
      BY <3>1, <3>2, <3>3
  <2>. QED
    BY <2>4, <2>5, <2>6, <2>7
<1>5. CASE UNCHANGED <<attempts, outcome, copies>>
  BY <1>1, <1>5 DEF Sent
<1>6. \/ UNCHANGED <<attempts, outcome, copies>>
      \/ \E m \in Messages : D!Publish(m) \/ D!PublishFull(m) \/ D!PublishInvalid(m)
  BY DEF D!Next, D!vars, D!publisher, D!Arrives, D!OutgoingLost, D!BrokerDelivers, D!Receive,
         D!TimerFires, D!CloseSeen, D!SetupConsumer, D!Callback, D!CallbackEnds,
         D!CallbackFails, D!ChannelLost, D!Crash
<1>. QED
  BY <1>3, <1>4, <1>5, <1>6

LEMMA DeliveryStarts ==
    ASSUME D!Init
    PROVE  DeliveryInv /\ WayInv /\ PublisherInv
<1>1. /\ copies = <<>> /\ outgoing = {} /\ lost = {} /\ ready = {} /\ chan = <<>>
      /\ settled = {} /\ read = 0 /\ ((epoch = 0 /\ up = FALSE) \/ (epoch = 1 /\ up = TRUE))
      /\ closing = FALSE /\ buffer = <<>> /\ timer = 0 /\ threw = FALSE
      /\ running = {} /\ handled = <<>> /\ done = {} /\ died = {} /\ faults = 0
  BY DEF D!Init
<1>2. DOMAIN copies = {} /\ DOMAIN chan = {}
  BY <1>1
<1>3. D!Gone = {} /\ D!Unsettled = {}
  BY <1>2 DEF D!Gone, D!Unsettled, D!Tags
<1>4. Typed
  <2>1. <<>> \in Seq(Messages) /\ <<>> \in Seq(Nat) /\ <<>> \in Seq(DOMAIN copies)
    BY EmptySeq
  <2>2. epoch \in Nat /\ up \in BOOLEAN /\ (up => epoch > 0)
    <3>1. CASE epoch = 0 /\ up = FALSE
      BY <3>1
    <3>2. CASE epoch = 1 /\ up = TRUE
      BY <3>2
    <3>. QED
      BY <1>1, <3>1, <3>2
  <2>3. faults \in 0..MaxFaults /\ timer \in 0..epoch /\ read \in 0..Len(chan)
    BY <1>1, <2>2, RabbitConnectionAssumption
  <2>. QED
    BY <1>1, <1>2, <2>1, <2>2, <2>3 DEF Typed
<1>5. WorkInv
  BY <1>1, EmptySeq, RabbitDeliveryAssumption DEF WorkInv
<1>6. ChanInv /\ HandledInv
  BY <1>1, <1>2 DEF ChanInv, HandledInv
<1>7. BegunInv /\ BufferInv /\ EpochInv
  <2>1. BegunInv
    BY <1>1, <1>3 DEF BegunInv
  <2>2. BufferInv
    BY <1>1, <1>3, 0 # 1 DEF BufferInv, D!OwedIsBuffered
  <2>3. /\ epoch <= faults + 1 /\ (~up => epoch <= faults)
        /\ (timer = epoch => ~up) /\ (timer = epoch => epoch <= faults)
    BY <1>1
  <2>4. EpochInv
    BY <1>1, <2>3 DEF EpochInv, Ending
  <2>. QED
    BY <2>1, <2>2, <2>4
<1>8. PublisherInv
  <2>1. \A m \in Messages : Sent(m) = {}
    BY <1>2 DEF Sent
  <2>2. Cardinality({}) = 0
    BY FS_EmptySet
  <2>3. /\ attempts = [m \in Messages |-> 0] /\ outcome = [m \in Messages |-> "calling"]
    BY DEF D!Init
  <2>. QED
    BY <2>1, <2>2, <2>3, RabbitDeliveryAssumption DEF PublisherInv
<1>. QED
  BY <1>1, <1>4, <1>5, <1>6, <1>7, <1>8 DEF DeliveryInv, WayInv

LEMMA DeliveryStep ==
    ASSUME DeliveryInv, WayInv, [D!Next]_(D!vars)
    PROVE  DeliveryInv'
<1>1. \A m \in Messages : D!Publish(m) \/ D!PublishFull(m) => DeliveryInv'
  BY WrittenKeeps
<1>2. \A d \in running : D!CallbackEnds(d) \/ D!CallbackFails(d) => DeliveryInv'
  BY CallbackEndsKeeps, CallbackFailsKeeps
<1>. QED
  BY <1>1, <1>2, ArrivesKeeps, OutgoingLostKeeps, BrokerDeliversKeeps, TimerFiresKeeps,
     ReceiveKeeps, ChannelGoesKeeps, SetupConsumerKeeps, DeliveryStutters
  DEF D!Next, D!Callback

LEMMA InvGivesDeliveryHolds ==
    ASSUME DeliveryInv, PublisherInv
    PROVE  DeliveryHolds
<1>0. Typed /\ WorkInv /\ ChanInv /\ HandledInv /\ BegunInv /\ BufferInv /\ EpochInv
  BY DEF DeliveryInv
<1>1. D!TypeOK
  <2>1. Work \subseteq D!Deliveries
    <3>1. epoch \in Nat /\ epoch <= faults + 1 /\ faults \in 0..MaxFaults /\ MaxFaults \in Nat
      BY <1>0, RabbitConnectionAssumption DEF Typed, EpochInv
    <3>2. 1..epoch \subseteq 1..MaxFaults + 1
      BY <3>1
    <3>. QED
      BY <3>2 DEF Work, D!Deliveries
  <2>2. running \subseteq D!Deliveries /\ buffer \in Seq(D!Deliveries) /\ Len(buffer) < AckBatch
    BY <1>0, <2>1, SeqMonotonic DEF WorkInv
  <2>3. settled \subseteq D!Tags
    BY <1>0 DEF Typed, D!Tags
  <2>4. DOMAIN handled = DOMAIN copies
    BY <1>0 DEF Typed
  <2>. QED
    BY <1>0, <2>2, <2>3, <2>4 DEF D!TypeOK, Typed, PublisherInv
<1>2. D!GoneWasBegun
  BY <1>0 DEF D!GoneWasBegun, BegunInv, Begun
<1>3. D!OnceAChannel /\ D!OwedIsBuffered
  BY <1>0 DEF D!OnceAChannel, HandledInv, BufferInv
<1>4. D!CopiesBounded
  <2>1. ASSUME NEW m \in Messages
        PROVE  Cardinality(Sent(m)) <= Tries /\ (outcome[m] = "sent" => Sent(m) # {})
    <3>1. Cardinality(Sent(m)) \in Nat
      BY <1>0, SentFinite DEF Typed
    <3>2. attempts[m] \in 0..Tries /\ Tries \in Nat
      BY RabbitDeliveryAssumption DEF PublisherInv
    <3>3. CASE outcome[m] = "sent"
      BY <3>1, <3>2, <3>3 DEF PublisherInv
    <3>4. CASE outcome[m] # "sent"
      BY <3>1, <3>2, <3>4 DEF PublisherInv
    <3>. QED
      BY <3>3, <3>4
  <2>. QED
    BY <2>1, SameCardinality DEF D!CopiesBounded, Sent
<1>. QED
  BY <1>1, <1>2, <1>3, <1>4 DEF DeliveryHolds

\* In every behaviour of the publisher, the broker and the consumer: what the broker had
\* and has no more was begun, and lost only with a process that died under it; nothing is
\* handed over twice on a channel, the buffer covers what the channel owes, and maxRetries
\* bounds the copies.
THEOREM DeliveryAlwaysHolds == D!Spec => []DeliveryHolds
<1>1. D!Init => DeliveryInv /\ WayInv /\ PublisherInv
  BY DeliveryStarts
<1>2. DeliveryInv /\ WayInv /\ PublisherInv /\ [D!Next]_(D!vars)
      => (DeliveryInv /\ WayInv /\ PublisherInv)'
  <2>1. DeliveryInv => copies \in Seq(Messages)
    BY DEF DeliveryInv, Typed
  <2>. QED
    BY <2>1, DeliveryStep, WayStep, PublisherStep
<1>3. DeliveryInv /\ PublisherInv => DeliveryHolds
  BY InvGivesDeliveryHolds
<1>. QED
  BY <1>1, <1>2, <1>3, PTL DEF D!Spec
===============================================================================
