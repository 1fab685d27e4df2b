-------------------------- MODULE RedisClientsProofs --------------------------
(***************************************************************************)
(* Proofs about RedisClients for any pool and any numbers of reconnects,   *)
(* connects and queues.                                                    *)
(***************************************************************************)
EXTENDS RedisClients, TLAPS

\* The clients i are idle and the others are held by m, b, w and r, by one each.
Shared(i, m, b, w, r) ==
    /\ i \subseteq Clients /\ {m, b, w, r} \subseteq Clients \union {None}
    /\ \A x \in Clients : x \in i <=> x \notin {m, b, w, r}
    /\ m # None => m \notin {b, w, r}
    /\ b # None => b \notin {w, r}
    /\ w # None => w # r

\* What the streams hold: between its release and the next a field still names a
\* client that is not theirs any more.
LiveWriter ==
    IF \E k \in Chains : chain[k] \in {"releaseReader", "getWriter"} THEN None ELSE writer
LiveReader ==
    IF \E k \in Chains : chain[k] \in {"getWriter", "getReader"} THEN None ELSE reader

Alone == \A j, k \in Chains : chain[j] # "idle" /\ chain[k] # "idle" => j = k

CalmInv == calm => Alone /\ Shared(idle, main, boardConn, LiveWriter, LiveReader)

\* The main client is borrowed once: a second call of connect finds the pool there.
OneConnect ==
    /\ main # None => pool = TRUE
    /\ \A c \in Connects : connect[c] = "acquire" =>
        pool = TRUE /\ main = None /\ \A d \in Connects : connect[d] = "acquire" => c = d

BoardIdle == board # "synced" => boardConn = None

PoolInv == ClientsTyped /\ OneConnect /\ BoardIdle /\ CalmInv

-------------------------------------------------------------------------------
(* Borrowing and giving back.                                              *)

LEMMA Borrows ==
    ASSUME NEW i, NEW m, NEW b, NEW w, NEW r, Shared(i, m, b, w, r), NEW x \in i
    PROVE  /\ m = None => Shared(i \ {x}, x, b, w, r)
           /\ b = None => Shared(i \ {x}, m, x, w, r)
           /\ w = None => Shared(i \ {x}, m, b, x, r)
           /\ r = None => Shared(i \ {x}, m, b, w, x)
  BY RedisClientsAssumption DEF Shared, Clients

LEMMA Returns ==
    ASSUME NEW i, NEW m, NEW b, NEW w, NEW r, Shared(i, m, b, w, r), NEW x
    PROVE  LET j == IF x \in Clients \ i THEN i \union {x} ELSE i
           IN  /\ x = b => Shared(j, m, None, w, r)
               /\ x = w => Shared(j, m, b, None, r)
               /\ x = r => Shared(j, m, b, w, None)
<1>. DEFINE j == IF x \in Clients \ i THEN i \union {x} ELSE i
<1>1. None \notin Clients
  BY RedisClientsAssumption DEF Clients
<1>2. CASE x \in Clients \ i
  BY <1>1, <1>2 DEF Shared
<1>3. CASE x \notin Clients \ i
  BY <1>1, <1>3 DEF Shared
<1>. QED
  BY <1>2, <1>3

\* A reconnect under way moves on: it is the only one before and after.
LEMMA OneMoves ==
    ASSUME ClientsTyped, Alone, NEW k \in Chains, NEW l, chain' = [chain EXCEPT ![k] = l],
           \A j \in Chains : chain[j] # "idle" => j = k
    PROVE  /\ \A j \in Chains : chain'[j] = IF j = k THEN l ELSE "idle"
           /\ \A j \in Chains \ {k} : chain[j] = "idle"
           /\ Alone'
  BY DEF ClientsTyped, Alone

-------------------------------------------------------------------------------
(* Type correctness, connect and the board.                                *)

LEMMA InitPool == ClientsInit => PoolInv
<1>. SUFFICES ASSUME ClientsInit PROVE PoolInv
  OBVIOUS
<1>. USE RedisClientsAssumption DEF ClientsInit
<1>1. ClientsTyped
  <2>1. connect \in [Connects -> {"idle", "acquire", "retry"}]
    OBVIOUS
  <2>2. chain \in [Chains -> Positions]
    BY DEF Positions
  <2>3. idle \subseteq Clients /\ queues \subseteq Queues
    OBVIOUS
  <2>4. {main, manager, writer, reader, boardConn} \subseteq Clients \union {None}
    OBVIOUS
  <2>5. failed \in 0..MaxFailed /\ errors \in 0..MaxErrors
    OBVIOUS
  <2>6. /\ pool \in BOOLEAN /\ calm \in BOOLEAN /\ board = "idle"
        /\ names \subseteq Queues /\ monitored \subseteq Queues
    OBVIOUS
  <2>. QED
    BY ONLY <2>1, <2>2, <2>3, <2>4, <2>5, <2>6 DEF ClientsTyped
<1>2. OneConnect /\ BoardIdle
  BY DEF OneConnect, BoardIdle
<1>3. Alone /\ LiveWriter = None /\ LiveReader = None
  BY DEF Alone, LiveWriter, LiveReader
<1>4. Shared(idle, main, boardConn, None, None)
  BY DEF Shared, Clients
<1>. QED
  BY <1>1, <1>2, <1>3, <1>4 DEF PoolInv, CalmInv

LEMMA NextTypeOK == ClientsTyped /\ [ClientsNext]_clientVars => ClientsTyped'
<1>. SUFFICES ASSUME ClientsTyped, [ClientsNext]_clientVars PROVE ClientsTyped'
  OBVIOUS
<1>. USE RedisClientsAssumption DEF ClientsTyped, Acquire, Release, borrowed, Fail, mainv,
   streams, boardv
<1>1. ASSUME NEW c \in Connects, Connect(c) PROVE ClientsTyped'
  BY <1>1 DEF Connect
<1>2. ASSUME NEW c \in Connects, Connected(c) PROVE ClientsTyped'
  BY <1>2 DEF Connected
<1>3. ASSUME NEW c \in Connects, ConnectFails(c) PROVE ClientsTyped'
  BY <1>3 DEF ConnectFails
<1>4. ASSUME NEW k \in Chains, InitStreams(k) PROVE ClientsTyped'
  BY <1>4 DEF InitStreams, Step, Positions
<1>5. ASSUME NEW k \in Chains, ErrorEvent(k) PROVE ClientsTyped'
  <2>1. calm' \in BOOLEAN /\ errors' \in 0..MaxErrors
    BY <1>5 DEF ErrorEvent
  <2>. QED
    BY <1>5, <2>1 DEF ErrorEvent, Step, Positions
<1>6. ASSUME NEW k \in Chains, ReleaseWriter(k) PROVE ClientsTyped'
  BY <1>6 DEF ReleaseWriter, Step, Positions
<1>7. ASSUME NEW k \in Chains, ReleaseReader(k) PROVE ClientsTyped'
  BY <1>7 DEF ReleaseReader, Step, Positions
<1>8. ASSUME NEW k \in Chains, GetWriter(k) PROVE ClientsTyped'
  BY <1>8 DEF GetWriter, Step, Positions
<1>9. ASSUME NEW k \in Chains, GetReader(k) PROVE ClientsTyped'
  BY <1>9 DEF GetReader, Step, Positions
<1>10. ASSUME NEW k \in Chains, ConnectionFails(k) PROVE ClientsTyped'
  <2>1. /\ idle' \subseteq Clients /\ reader' \in Clients \union {None}
        /\ UNCHANGED <<mainv, writer, boardv, queues, errors>>
    BY <1>10 DEF ConnectionFails
  <2>2. chain' \in [Chains -> Positions]
    BY <1>10 DEF ConnectionFails, Positions
  <2>3. calm' \in BOOLEAN
    BY <1>10 DEF ConnectionFails
  <2>4. failed' \in 0..MaxFailed
    BY <1>10 DEF ConnectionFails
  <2>. QED
    BY <2>1, <2>2, <2>3, <2>4
<1>11. CASE GetAllQueues
  BY <1>11 DEF GetAllQueues
<1>12. CASE BoardAcquire
  BY <1>12 DEF BoardAcquire
<1>13. CASE BoardRelease
  BY <1>13 DEF BoardRelease
<1>14. CASE BoardFails
  BY <1>14 DEF BoardFails
<1>15. CASE QueuesChange
  BY <1>15 DEF QueuesChange
<1>16. CASE UNCHANGED clientVars
  BY <1>16 DEF clientVars
<1>. QED
  BY <1>1, <1>2, <1>3, <1>4, <1>5, <1>6, <1>7, <1>8, <1>9, <1>10, <1>11, <1>12, <1>13, <1>14,
     <1>15, <1>16 DEF ClientsNext, ReconnectStep

LEMMA NextOneConnect == ClientsTyped /\ OneConnect /\ [ClientsNext]_clientVars => OneConnect'
<1>. SUFFICES ASSUME ClientsTyped, OneConnect, [ClientsNext]_clientVars PROVE OneConnect'
  OBVIOUS
<1>1. ASSUME NEW c \in Connects, Connect(c) PROVE OneConnect'
  <2>1. CASE pool
    <3>1. UNCHANGED <<pool, main>> /\ connect' = [connect EXCEPT ![c] = "idle"]
      BY <1>1, <2>1 DEF Connect, ClientsTyped
    <3>. QED
      BY <3>1 DEF OneConnect, ClientsTyped
  <2>2. CASE ~pool
    <3>1. pool' = TRUE /\ main' = main /\ connect' = [connect EXCEPT ![c] = "acquire"]
      BY <1>1, <2>2 DEF Connect
    <3>. QED
      BY <2>2, <3>1 DEF OneConnect, ClientsTyped
  <2>. QED
    BY <2>1, <2>2
<1>2. ASSUME NEW c \in Connects, Connected(c) \/ ConnectFails(c) PROVE OneConnect'
  <2>1. /\ pool' = pool /\ connect[c] = "acquire"
        /\ \E l \in {"idle", "retry"} : connect' = [connect EXCEPT ![c] = l]
    BY <1>2 DEF Connected, ConnectFails
  <2>2. \A d \in Connects : connect'[d] # "acquire"
    BY <2>1 DEF OneConnect, ClientsTyped
  <2>. QED
    BY <2>1, <2>2 DEF OneConnect
<1>3. CASE UNCHANGED <<pool, main, connect>>
  BY <1>3 DEF OneConnect
<1>4. ASSUME NEW k \in Chains,
             InitStreams(k) \/ ErrorEvent(k) \/ ReconnectStep(k) \/ ConnectionFails(k)
      PROVE  UNCHANGED <<pool, main, connect>>
  BY <1>4 DEF InitStreams, ErrorEvent, ReconnectStep, ReleaseWriter, ReleaseReader, GetWriter,
     GetReader, ConnectionFails, mainv
<1>5. ASSUME GetAllQueues \/ BoardAcquire \/ BoardRelease \/ BoardFails \/ QueuesChange
      PROVE  UNCHANGED <<pool, main, connect>>
  BY <1>5 DEF GetAllQueues, BoardAcquire, BoardRelease, BoardFails, QueuesChange, mainv
<1>6. ASSUME UNCHANGED clientVars PROVE UNCHANGED <<pool, main, connect>>
  BY <1>6 DEF clientVars, mainv
<1>. QED
  BY <1>1, <1>2, <1>3, <1>4, <1>5, <1>6 DEF ClientsNext

LEMMA NextBoardIdle == BoardIdle /\ [ClientsNext]_clientVars => BoardIdle'
  BY DEF BoardIdle, ClientsNext, Connect, Connected, ConnectFails, InitStreams, ErrorEvent,
     ReconnectStep,
     ReleaseWriter, ReleaseReader, GetWriter, GetReader, ConnectionFails, GetAllQueues,
     BoardAcquire, BoardRelease, BoardFails, QueuesChange, boardv, clientVars

-------------------------------------------------------------------------------
(* Who holds what in calm times.                                           *)

LEMMA InitStreamsCalm ==
    ASSUME PoolInv, NEW k \in Chains, InitStreams(k)
    PROVE  CalmInv'
<1>. USE RedisClientsAssumption DEF PoolInv
<1>. SUFFICES ASSUME calm' PROVE CalmInv'
  BY DEF CalmInv
<1>1. /\ calm /\ UNCHANGED <<idle, main, boardConn, writer, reader>>
      /\ writer = None /\ reader = None /\ Busy = {}
      /\ chain' = [chain EXCEPT ![k] = "delay"]
  BY DEF InitStreams, Step, mainv, boardv
<1>2. Alone /\ \A j \in Chains : chain[j] # "idle" => j = k
  BY <1>1 DEF Busy, Alone
<1>3. Alone'
  BY <1>1, <1>2, OneMoves
<1>4. LiveWriter = None /\ LiveReader = None /\ LiveWriter' = None /\ LiveReader' = None
  BY <1>1 DEF LiveWriter, LiveReader
<1>. QED
  BY <1>1, <1>3, <1>4 DEF CalmInv

LEMMA ErrorEventCalm ==
    ASSUME PoolInv, NEW k \in Chains, ErrorEvent(k)
    PROVE  CalmInv'
<1>. USE DEF PoolInv
<1>. SUFFICES ASSUME calm' PROVE CalmInv'
  BY DEF CalmInv
<1>1. /\ calm /\ Busy = {} /\ UNCHANGED <<idle, main, boardConn, writer, reader>>
      /\ chain' = [chain EXCEPT ![k] = "delay"]
  BY DEF ErrorEvent, Step, mainv, boardv
<1>2. Alone /\ \A j \in Chains : chain[j] = "idle"
  BY <1>1 DEF Busy, Alone
<1>3. Alone' /\ \A j \in Chains : chain'[j] \in {"idle", "delay"}
  <2>1. \A j \in Chains : chain'[j] = IF j = k THEN "delay" ELSE "idle"
    BY <1>1, <1>2 DEF ClientsTyped
  <2>. QED
    BY <2>1 DEF Alone
<1>4. LiveWriter = writer /\ LiveReader = reader /\ LiveWriter' = writer /\ LiveReader' = reader
  BY <1>1, <1>2, <1>3 DEF LiveWriter, LiveReader
<1>. QED
  BY <1>1, <1>3, <1>4 DEF CalmInv

LEMMA ReconnectCalm ==
    ASSUME PoolInv, NEW k \in Chains, ReconnectStep(k)
    PROVE  CalmInv'
<1>. USE RedisClientsAssumption DEF PoolInv
<1>. SUFFICES ASSUME calm' PROVE CalmInv'
  BY DEF CalmInv
<1>1. calm /\ UNCHANGED <<main, boardConn>>
  BY DEF ReconnectStep, ReleaseWriter, ReleaseReader, GetWriter, GetReader, mainv, boardv
<1>2. Alone /\ Shared(idle, main, boardConn, LiveWriter, LiveReader)
  BY <1>1 DEF CalmInv
<1>3. chain[k] # "idle" /\ \E l : chain' = [chain EXCEPT ![k] = l]
  BY DEF ReconnectStep, ReleaseWriter, ReleaseReader, GetWriter, GetReader, Step
<1>4. /\ \A j \in Chains \ {k} : chain[j] = "idle" /\ chain'[j] = "idle"
      /\ Alone'
  <2>1. \A j \in Chains : chain[j] # "idle" => j = k
    BY <1>2, <1>3 DEF Alone
  <2>. QED
    BY <1>2, <1>3, <2>1, OneMoves
<1>5. /\ LiveWriter = IF chain[k] \in {"releaseReader", "getWriter"} THEN None ELSE writer
      /\ LiveReader = IF chain[k] \in {"getWriter", "getReader"} THEN None ELSE reader
  BY <1>4 DEF LiveWriter, LiveReader
<1>6. /\ LiveWriter' = IF chain'[k] \in {"releaseReader", "getWriter"} THEN None ELSE writer'
      /\ LiveReader' = IF chain'[k] \in {"getWriter", "getReader"} THEN None ELSE reader'
  BY <1>4 DEF LiveWriter, LiveReader
<1>7. Shared(idle', main, boardConn, LiveWriter', LiveReader')
  <2>1. CASE ReleaseWriter(k)
    <3>1. chain[k] = "delay" /\ chain'[k] = "releaseReader"
      BY <2>1 DEF ReleaseWriter, Step, ClientsTyped
    <3>2. LiveWriter = writer /\ LiveReader = reader /\ LiveWriter' = None /\ LiveReader' = reader
      BY <1>5, <1>6, <2>1, <3>1 DEF ReleaseWriter
    <3>3. idle' = IF writer \in Clients \ idle THEN idle \union {writer} ELSE idle
      BY <2>1 DEF ReleaseWriter, Release, borrowed
    <3>. QED
      BY <1>2, <3>2, <3>3, Returns
  <2>2. CASE ReleaseReader(k)
    <3>1. chain[k] = "releaseReader" /\ chain'[k] = "getWriter"
      BY <2>2 DEF ReleaseReader, Step, ClientsTyped
    <3>2. LiveWriter = None /\ LiveReader = reader /\ LiveWriter' = None /\ LiveReader' = None
      BY <1>5, <1>6, <3>1
    <3>3. idle' = IF reader \in Clients \ idle THEN idle \union {reader} ELSE idle
      BY <2>2 DEF ReleaseReader, Release, borrowed
    <3>. QED
      BY <1>2, <3>2, <3>3, Returns
  <2>3. CASE GetWriter(k)
    <3>1. chain[k] = "getWriter" /\ chain'[k] = "getReader"
      BY <2>3 DEF GetWriter, Step, ClientsTyped
    <3>2. LiveWriter = None /\ LiveReader = None /\ LiveWriter' = writer' /\ LiveReader' = None
      BY <1>5, <1>6, <3>1
    <3>3. writer' \in idle /\ idle' = idle \ {writer'}
      BY <2>3 DEF GetWriter, Acquire
    <3>. QED
      BY <1>2, <3>2, <3>3, Borrows
  <2>4. CASE GetReader(k)
    <3>1. chain[k] = "getReader" /\ chain'[k] = "idle"
      BY <2>4 DEF GetReader, Step, ClientsTyped
    <3>2. /\ LiveWriter = writer /\ LiveReader = None
          /\ LiveWriter' = writer /\ LiveReader' = reader'
      BY <1>5, <1>6, <2>4, <3>1 DEF GetReader
    <3>3. reader' \in idle /\ idle' = idle \ {reader'}
      BY <2>4 DEF GetReader, Acquire
    <3>. QED
      BY <1>2, <3>2, <3>3, Borrows
  <2>. QED
    BY <2>1, <2>2, <2>3, <2>4 DEF ReconnectStep
<1>. QED
  BY <1>1, <1>4, <1>7 DEF CalmInv

\* The streams stand still: the others may borrow and give back.
LEMMA StreamsSame ==
    ASSUME CalmInv, UNCHANGED streams,
           Shared(idle, main, boardConn, LiveWriter, LiveReader) =>
               Shared(idle', main', boardConn', LiveWriter, LiveReader)
    PROVE  CalmInv'
<1>1. calm' = calm /\ LiveWriter' = LiveWriter /\ LiveReader' = LiveReader
  BY DEF streams, LiveWriter, LiveReader
<1>2. Alone' <=> Alone
  BY DEF streams, Alone
<1>. QED
  BY <1>1, <1>2 DEF CalmInv

LEMMA ConnectCalm ==
    ASSUME PoolInv, NEW c \in Connects, Connect(c) \/ Connected(c) \/ ConnectFails(c)
    PROVE  CalmInv'
<1>. USE DEF PoolInv
<1>1. UNCHANGED streams /\ boardConn' = boardConn
  BY DEF Connect, Connected, ConnectFails, boardv
<1>2. CASE Connected(c)
  <2>1. main = None /\ main' \in idle /\ idle' = idle \ {main'}
    BY <1>2 DEF Connected, Acquire, OneConnect
  <2>. QED
    BY <1>1, <2>1, Borrows, StreamsSame
<1>3. CASE Connect(c) \/ ConnectFails(c)
  <2>1. UNCHANGED <<idle, main>>
    BY <1>3 DEF Connect, ConnectFails
  <2>. QED
    BY <1>1, <2>1, StreamsSame
<1>. QED
  BY <1>2, <1>3

LEMMA BoardCalm ==
    ASSUME PoolInv, GetAllQueues \/ BoardAcquire \/ BoardRelease \/ BoardFails \/ QueuesChange
    PROVE  CalmInv'
<1>. USE DEF PoolInv
<1>1. UNCHANGED streams /\ main' = main
  BY DEF GetAllQueues, BoardAcquire, BoardRelease, BoardFails, QueuesChange, mainv
<1>2. CASE BoardAcquire
  <2>1. boardConn = None /\ boardConn' \in idle /\ idle' = idle \ {boardConn'}
    BY <1>2 DEF BoardAcquire, Acquire, BoardIdle
  <2>. QED
    BY <1>1, <2>1, Borrows, StreamsSame
<1>3. CASE BoardRelease
  <2>1. /\ boardConn' = None
        /\ idle' = IF boardConn \in Clients \ idle THEN idle \union {boardConn} ELSE idle
    BY <1>3 DEF BoardRelease, Release, borrowed
  <2>. QED
    BY <1>1, <2>1, Returns, StreamsSame
<1>4. CASE GetAllQueues \/ BoardFails \/ QueuesChange
  <2>1. UNCHANGED <<idle, boardConn>>
    BY <1>4 DEF GetAllQueues, BoardFails, QueuesChange, boardv
  <2>. QED
    BY <1>1, <2>1, StreamsSame
<1>. QED
  BY <1>2, <1>3, <1>4

LEMMA NextCalm == PoolInv /\ [ClientsNext]_clientVars => CalmInv'
<1>. SUFFICES ASSUME PoolInv, [ClientsNext]_clientVars PROVE CalmInv'
  OBVIOUS
<1>1. ASSUME NEW k \in Chains, ConnectionFails(k) PROVE CalmInv'
  BY <1>1 DEF ConnectionFails, CalmInv
<1>2. CASE UNCHANGED clientVars
  BY <1>2, StreamsSame DEF clientVars, mainv, boardv, PoolInv
<1>. QED
  BY <1>1, <1>2, InitStreamsCalm, ErrorEventCalm, ReconnectCalm, ConnectCalm,
     BoardCalm DEF ClientsNext

-------------------------------------------------------------------------------
\* The pool is never drained by calm reconnects: in a process whose reconnects of the
\* streams neither overlap nor fail half-way, every borrowed client is the main one,
\* the streams' or the board's, and no two of these are one client (RedisIOClient.ts
\* getPoolClient and releasePoolClient, RedisStreams.ts connectToRedis).
THEOREM AlwaysPoolHolds == ClientsSpec => []PoolHolds
<1>1. ClientsInit => PoolInv
  BY InitPool
<1>2. PoolInv /\ [ClientsNext]_clientVars => PoolInv'
  BY NextTypeOK, NextOneConnect, NextBoardIdle, NextCalm DEF PoolInv
<1>3. PoolInv => PoolHolds
  <2>. SUFFICES ASSUME PoolInv PROVE PoolHolds
    OBVIOUS
  <2>. SUFFICES ASSUME calm, Busy = {} PROVE NoLeakWhenCalm /\ OneHolderWhenCalm
    BY DEF PoolHolds, PoolInv, NoLeakWhenCalm, OneHolderWhenCalm
  <2>1. Shared(idle, main, boardConn, LiveWriter, LiveReader)
    BY DEF PoolInv, CalmInv
  <2>2. LiveWriter = writer /\ LiveReader = reader
    BY DEF Busy, LiveWriter, LiveReader
  <2>3. Shared(idle, main, boardConn, writer, reader) /\ None \notin Clients
    BY <2>1, <2>2, RedisClientsAssumption DEF Clients
  <2>4. NoLeakWhenCalm
    BY <2>3 DEF NoLeakWhenCalm, Shared, borrowed
  <2>5. OneHolderWhenCalm
    BY <2>3 DEF OneHolderWhenCalm, Shared
  <2>. QED
    BY <2>4, <2>5
<1>. QED
  BY <1>1, <1>2, <1>3, PTL DEF ClientsSpec
===============================================================================
