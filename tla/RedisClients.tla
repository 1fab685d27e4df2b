----------------------------- MODULE RedisClients -----------------------------
(***************************************************************************)
(* The pool of Redis clients of one process and who borrows from it:       *)
(* RedisManager (its one main client), RedisStreams (a writer and a reader,*)
(* replaced by every reconnect), BullBoardMonitor (one per refresh) and    *)
(* everybody else.  Each error event on a client the streams ever had      *)
(* starts a reconnect of its own; connectToRedis reads and writes the      *)
(* shared fields between awaits, so reconnects overlap.                    *)
(***************************************************************************)
EXTENDS Naturals

CONSTANTS PoolSize,    \* the clients of the pool (max)
          MaxChains,   \* reconnects that may be under way at once
          Connects,    \* calls of RedisManager.connect under way at once
          Queues,      \* BullMQ queues the board may show
          None,
          MaxFailed,   \* bound on failing commands
          MaxErrors    \* bound on error events

ASSUME RedisClientsAssumption ==
    /\ PoolSize \in Nat \ {0} /\ None = 0
    /\ {MaxFailed, MaxErrors} \subseteq Nat

VARIABLES
    idle,            \* the pool's idle clients
    pool, main,      \* RedisIOClient: the pool exists; its client
    manager,         \* RedisManager.client
    connect,         \* call of connect -> position
    writer, reader,  \* RedisStreams' fields
    chain,           \* reconnect -> position in scheduleReconnect, connectToRedis
    board, boardConn,    \* BullBoardMonitor: position, borrowed client
    names, monitored,    \* the queue names it read; the queues it shows
    queues,          \* the queues there are
    calm,            \* no two reconnects overlapped and none failed half-way
    failed, errors

streams == <<writer, reader, chain, calm>>
mainv == <<pool, main, manager, connect>>
boardv == <<board, boardConn, names, monitored>>
clientVars == <<idle, mainv, streams, boardv, queues, failed, errors>>

Clients == 1..PoolSize
Chains == 1..MaxChains
borrowed == Clients \ idle

\* pool.acquire and client SETNAME.  Clients are alike, so the pool lends the first:
\* what was just given back is lent again at once, as in a pool near its limit.
Acquire(x) == x \in idle /\ (\A y \in idle : x <= y) /\ idle' = idle \ {x}

\* releasePoolClient looks only whether the client is borrowed, not by whom.
Release(x) == idle' = IF x \in borrowed THEN idle \union {x} ELSE idle

Busy == {k \in Chains : chain[k] # "idle"}

ClientsInit ==
    /\ idle = Clients /\ pool = FALSE /\ main = None /\ manager = None
    /\ connect = [c \in Connects |-> "idle"]
    /\ writer = None /\ reader = None /\ calm = TRUE
    /\ chain = [k \in Chains |-> "idle"]
    /\ board = "idle" /\ boardConn = None /\ names = {} /\ monitored = {}
    /\ queues \in SUBSET Queues
    /\ failed = 0 /\ errors = 0

Fail == failed < MaxFailed /\ failed' = failed + 1

-------------------------------------------------------------------------------
(* RedisManager.connect and RedisIOClient.connect: the first call creates  *)
(* the pool and borrows the main client; while it waits for SETNAME and    *)
(* after it a call answers what main is, be it null.                       *)

Connect(c) ==
    /\ connect[c] \in {"idle", "retry"} /\ manager = None
    /\ IF ~pool
       THEN pool' = TRUE /\ connect' = [connect EXCEPT ![c] = "acquire"] /\ UNCHANGED manager
       ELSE manager' = main /\ connect' = [connect EXCEPT ![c] = "idle"] /\ UNCHANGED pool
    /\ UNCHANGED <<idle, main, streams, boardv, queues, failed, errors>>

Connected(c) ==
    /\ connect[c] = "acquire"
    /\ \E x \in Clients : Acquire(x) /\ main' = x /\ manager' = x
    /\ connect' = [connect EXCEPT ![c] = "idle"]
    /\ UNCHANGED <<pool, streams, boardv, queues, failed, errors>>

\* SETNAME fails: the client goes back, connect tries again later.
ConnectFails(c) ==
    /\ connect[c] = "acquire" /\ idle # {} /\ Fail
    /\ connect' = [connect EXCEPT ![c] = "retry"]
    /\ UNCHANGED <<idle, pool, main, manager, streams, boardv, queues, errors>>

-------------------------------------------------------------------------------
(* RedisStreams.connectToRedis, one step between two awaits.               *)

Step(k, from, to) == chain[k] = from /\ chain' = [chain EXCEPT ![k] = to]

InitStreams(k) ==
    /\ pool /\ writer = None /\ reader = None /\ Busy = {}
    /\ Step(k, "idle", "delay")
    /\ UNCHANGED <<idle, mainv, writer, reader, calm, boardv, queues,
                   failed, errors>>

\* handleRedisError, handleRedisClose or a failing read: scheduleReconnect.
ErrorEvent(k) ==
    /\ writer # None /\ errors < MaxErrors /\ 1..k-1 \subseteq Busy
    /\ errors' = errors + 1
    /\ Step(k, "idle", "delay")
    /\ calm' = (calm /\ Busy = {})
    /\ UNCHANGED <<idle, mainv, writer, reader, boardv, queues, failed>>

ReleaseWriter(k) ==
    /\ Step(k, "delay", "releaseReader")
    /\ Release(writer)
    /\ UNCHANGED <<mainv, writer, reader, calm, boardv, queues, failed, errors>>

\* Mutant of ReleaseReader: only the writer is given back.
KeepReader(k) ==
    /\ Step(k, "releaseReader", "getWriter")
    /\ UNCHANGED <<idle, mainv, writer, reader, calm, boardv, queues,
                   failed, errors>>

ReleaseReader(k) ==
    /\ Step(k, "releaseReader", "getWriter")
    /\ Release(reader)
    /\ UNCHANGED <<mainv, writer, reader, calm, boardv, queues, failed, errors>>

GetWriter(k) ==
    /\ Step(k, "getWriter", "getReader")
    /\ \E x \in Clients : Acquire(x) /\ writer' = x
    /\ UNCHANGED <<mainv, reader, calm, boardv, queues, failed, errors>>

\* With the reader comes the pipelined ping of the writer.
GetReader(k) ==
    /\ Step(k, "getReader", "idle")
    /\ \E x \in Clients : Acquire(x) /\ reader' = x
    /\ UNCHANGED <<mainv, writer, calm, boardv, queues, failed, errors>>

\* Mutant of ConnectionFails: logged, not scheduled again.
GiveUp(k) ==
    /\ chain[k] \in {"getWriter", "getReader"} /\ idle # {} /\ Fail
    /\ chain' = [chain EXCEPT ![k] = "idle"]
    /\ calm' = FALSE
    /\ UNCHANGED <<idle, mainv, writer, reader, boardv, queues, errors>>

\* getPoolClient throws, or the ping once there is a new reader: scheduled again.
ConnectionFails(k) ==
    /\ chain[k] \in {"getWriter", "getReader"} /\ idle # {} /\ Fail
    /\ \/ UNCHANGED <<idle, reader>>
       \/ chain[k] = "getReader" /\ \E x \in Clients : Acquire(x) /\ reader' = x
    /\ chain' = [chain EXCEPT ![k] = "delay"]
    /\ calm' = FALSE
    /\ UNCHANGED <<mainv, writer, boardv, queues, errors>>

ReconnectStep(k) ==
    \/ ReleaseWriter(k) \/ ReleaseReader(k) \/ GetWriter(k) \/ GetReader(k)

-------------------------------------------------------------------------------
(* BullBoardMonitor: refreshQueues, and the timer after it.                *)

GetAllQueues ==
    /\ board = "idle" /\ pool
    /\ names' = queues /\ board' = "named"
    /\ UNCHANGED <<idle, mainv, streams, boardConn, monitored, queues, failed, errors>>

BoardOnlyAdds ==
    /\ board = "named"
    /\ \E x \in Clients : Acquire(x) /\ boardConn' = x
    /\ board' = "synced" /\ monitored' = monitored \union names /\ names' = {}
    /\ UNCHANGED <<mainv, streams, queues, failed, errors>>

BoardAcquire ==
    /\ board = "named"
    /\ \E x \in Clients : Acquire(x) /\ boardConn' = x
    /\ board' = "synced" /\ monitored' = names /\ names' = {}
    /\ UNCHANGED <<mainv, streams, queues, failed, errors>>

\* The connection goes back although the queues just added keep it.
BoardRelease ==
    /\ board = "synced" /\ board' = "idle"
    /\ Release(boardConn) /\ boardConn' = None
    /\ UNCHANGED <<mainv, streams, names, monitored, queues, failed, errors>>

\* getAllQueues or getPoolClient throws: the next timer is never set.
BoardFails ==
    /\ board \in {"idle", "named"} /\ pool /\ Fail
    /\ board' = "dead"
    /\ UNCHANGED <<idle, mainv, streams, boardConn, names, monitored, queues, errors>>

-------------------------------------------------------------------------------
\* DynamicQueue adds and cleans up queues.
QueuesChange ==
    /\ queues' \in SUBSET Queues
    /\ UNCHANGED <<idle, mainv, streams, boardv, failed, errors>>

ClientsNext ==
    \/ \E c \in Connects : Connect(c) \/ Connected(c) \/ ConnectFails(c)
    \/ \E k \in Chains : InitStreams(k) \/ ErrorEvent(k) \/ ReconnectStep(k) \/ ConnectionFails(k)
    \/ GetAllQueues \/ BoardAcquire \/ BoardRelease \/ BoardFails
    \/ QueuesChange

ClientsSpec == ClientsInit /\ [][ClientsNext]_clientVars

-------------------------------------------------------------------------------
Positions == {"idle", "delay", "releaseReader", "getWriter", "getReader"}

ClientsTyped ==
    /\ idle \subseteq Clients
    /\ {main, manager, writer, reader, boardConn} \subseteq Clients \union {None}
    /\ pool \in BOOLEAN /\ calm \in BOOLEAN
    /\ connect \in [Connects -> {"idle", "acquire", "retry"}]
    /\ chain \in [Chains -> Positions]
    /\ board \in {"idle", "named", "synced", "dead"}
    /\ names \subseteq Queues /\ monitored \subseteq Queues /\ queues \subseteq Queues
    /\ failed \in 0..MaxFailed /\ errors \in 0..MaxErrors

\* While reconnects do not overlap or fail half-way every borrowed client has an
\* owner that gives it back or keeps it for good: the pool loses none.  (When
\* they do, connectToRedis overwrites a client nobody has released.)
NoLeakWhenCalm ==
    calm /\ Busy = {} =>
        borrowed = {main, writer, reader, boardConn} \ {None}

\* ...and no client is lent to two at once.  (When they do, releasePoolClient
\* takes back a client that has meanwhile been lent to somebody else.)
OneHolderWhenCalm ==
    calm /\ Busy = {} =>
        /\ writer # None => writer # reader
        /\ boardConn # None => boardConn \notin {main, writer, reader}
        /\ main # None => main \notin {writer, reader}

\* The invariants together: while reconnects are calm no client leaks and none is lent
\* twice.
PoolHolds == ClientsTyped /\ NoLeakWhenCalm /\ OneHolderWhenCalm

\* However reconnects overlap and fail, when they are over the streams have a
\* writer and a reader, unless a reconnect still waits for a client of the pool.
StreamsRecover ==
    []<>pool => <>[](writer # None /\ reader # None /\ (Busy = {} \/ idle = {}))

\* Once the queues in Redis stay the same the board shows exactly them, unless a
\* refresh failed (which ends the timer) or waits for a client.
BoardFollows ==
    \A Q \in SUBSET Queues :
        <>[](pool /\ queues = Q) => <>[](monitored = Q \/ board = "dead" \/ idle = {})
===============================================================================
