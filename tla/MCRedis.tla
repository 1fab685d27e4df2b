------------------------------- MODULE MCRedis -------------------------------
(* RedisStreams and RedisClients in one run, for neither reads the state of the *)
(* other.  A behaviour follows the pool of clients through errors of the streams, *)
(* or the board; or the XADDs of a message, or the group all processes read.    *)
EXTENDS RedisStreams, RedisClients

CONSTANTS First, Only,  \* the process that reads what is added; its message
          FewFaults,    \* bound on the faults beside the XADDs
          FewRefused,   \* bound on refused or repeated XADDs beside the group
          FewEntries    \* bound on the entries of the group

VARIABLE focus

MCInit ==
    /\ focus \in {"pool", "board", "adds", "group"}
    /\ Init /\ ClientsInit /\ (focus # "board" => queues = {})

OfPool(A) == focus \in {"pool", "board"} /\ A /\ UNCHANGED <<vars, focus>>
Streams(A) == focus \in {"adds", "group"} /\ A /\ UNCHANGED <<clientVars, focus>>

\* The streams have errors while no queues come and go, or the other way round.
PoolBounds == IF focus = "pool" THEN queues' = {} ELSE errors' = 0

Bounds ==
    /\ focus = "adds" =>
        /\ faults' <= FewFaults /\ {m \in Messages : call'[m][0] # "off"} \subseteq {Only}
        /\ \A p \in Readers \ {First} : pc'[p] = "off"
    /\ focus = "group" =>
        /\ refused' <= FewRefused /\ Len(log') <= FewEntries
        /\ faults' <= MaxFaults - 1 \/ \E p \in Readers : pc'[p] = "ended"

MCNext == OfPool(ClientsNext /\ PoolBounds) \/ Streams(Next /\ Bounds)

\* The event loop runs, commands are answered, timers fire, PM2 starts a process again;
\* a waiting acquire gets a client that is free again and again (the pool's queue is
\* first come, first served).
MCSpec ==
    /\ MCInit /\ [][MCNext]_<<vars, clientVars, focus>>
    /\ \A p \in Readers : WF_vars(Streams(Read(p) /\ Bounds))
    /\ \A m \in Messages, i \in Calls : WF_vars(Streams(Added(m, i) /\ Bounds))
    /\ WF_clientVars(OfPool(\E k \in Chains : InitStreams(k)))
    /\ \A k \in Chains : SF_clientVars(OfPool(ReconnectStep(k)))
    /\ WF_clientVars(OfPool(GetAllQueues)) /\ SF_clientVars(OfPool(BoardAcquire))
    /\ WF_clientVars(OfPool(BoardRelease))

\* What is sent gets into the stream, and what is in the stream is settled.
Settles == Persisted /\ Settled
===============================================================================
