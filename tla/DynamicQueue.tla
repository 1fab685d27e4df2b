----------------------------- MODULE DynamicQueue -----------------------------
(***************************************************************************)
(* The life of one BullMQ queue as DynamicQueue, DynamicQueueCleaner and   *)
(* QueueActivityMonitor run it in several processes: addJob creates the    *)
(* queue, its worker and its monitor on first use; the monitor's interval  *)
(* tears them down again when the queue looks inactive.  A process is      *)
(* single-threaded and interleaves at every await, so each action is the   *)
(* code from one await to the next.                                        *)
(*                                                                         *)
(* A call c is one addJob, made in process procOf[c]; c also names its job *)
(* and, if that call set up the monitor, the monitor.  Queues of different *)
(* names share nothing but the pool, so one name is modelled.              *)
(*                                                                         *)
(* Timing taken as given: a monitor does not tick (30 s) before the addJob *)
(* that set it up has returned or thrown, and one tick ends before the     *)
(* next.                                                                   *)
(***************************************************************************)
EXTENDS Locker, Naturals, FiniteSets

CONSTANTS Procs,       \* server processes
          Calls,       \* addJob calls
          Placements,  \* the ways to spread the calls over the processes
          Clients,     \* Redis clients the pool of a process may lend (its max)
          MonitorKey,  \* the lock key queue-connection-monitor-<queueName>
          None,        \* an absent map entry
          MaxBoots,    \* bound on boots that clear the activity hash
          MaxFaults    \* bound on Redis, pool or BullMQ calls that throw

ASSUME DynamicQueueAssumption ==
    /\ Keys = {MonitorKey}
    /\ None \notin Clients \union Calls
    /\ Placements \subseteq [Calls -> Procs]
    /\ MaxBoots \in Nat /\ MaxFaults \in Nat

VARIABLES
    \* in Redis, shared by all processes
    job,               \* call -> fate of its job
    paused,            \* the queue's paused flag
    activity,          \* its queue-activity field: absent, recent, over 60 s old
    \* in each process
    queues,            \* process -> BOOLEAN: the map has a Queue
    workers,           \* process -> "none", "running", "closing": the Worker
    live,              \* process -> number of Worker objects not yet closed
    queueConnections,  \* process -> the client in the map, or None
    borrowed,          \* process -> clients the pool has lent out for this queue
    active,            \* process -> the job its worker is processing, or None
    \* in each addJob call and each monitor
    pc, conn, handle,  \* call -> position, its connection, has it a Queue object
    monitor, saw,      \* monitor -> position, hasQueueActivity of this tick
    \* the cron closeInactiveQueues, where calls are made, and bounds
    cron, cronWait,    \* its position; jobs it waits for
    procOf,            \* call -> the process it is made in; never changes
    boots, faults,
    overlaps           \* process -> fetches of a client that overlapped (history)

redis == <<job, paused, activity>>
procs == <<queues, workers, live, queueConnections, borrowed, active>>
callv == <<pc, conn, handle>>
monv  == <<monitor, saw>>
cronv == <<cron, cronWait>>
env == <<procOf, boots, faults, overlaps>>
vars == <<locks, redis, procs, callv, monv, cronv, env>>

Init ==
    /\ LockerInit
    /\ job = [c \in Calls |-> "none"] /\ paused = FALSE /\ activity = "none"
    /\ queues = [p \in Procs |-> FALSE]
    /\ workers = [p \in Procs |-> "none"]
    /\ live = [p \in Procs |-> 0]
    /\ queueConnections = [p \in Procs |-> None]
    /\ borrowed = [p \in Procs |-> {}]
    /\ active = [p \in Procs |-> None]
    /\ pc = [c \in Calls |-> "idle"]
    /\ conn = [c \in Calls |-> None]
    /\ handle = [c \in Calls |-> FALSE]
    /\ monitor = [c \in Calls |-> "off"]
    /\ saw = [c \in Calls |-> FALSE]
    /\ cron = "idle" /\ cronWait = {}
    /\ procOf \in Placements
    /\ boots = 0 /\ faults = 0
    /\ overlaps = [p \in Procs |-> 0]

-------------------------------------------------------------------------------
(* addJob.                                                                 *)

Goto(c, l) == pc' = [pc EXCEPT ![c] = l]

\* While one of these is at work in p the map's entry is about to change: a call that
\* has yet to write it, or a cleanup's monitor that has yet to delete it.
MapInUse(p) ==
    \E c \in Calls : /\ procOf[c] = p
                     /\ \/ pc[c] \in {"acquire", "init", "lock"}
                        \/ monitor[c] \notin {"off", "unlock"}

\* getQueueConnection: the map is read before the await of the pool ...
StartAdd(c) ==
    LET p == procOf[c] IN
    /\ pc[c] = "idle"
    /\ \/ /\ queueConnections[p] # None
          /\ conn' = [conn EXCEPT ![c] = queueConnections[p]]
          /\ Goto(c, "init")
          /\ UNCHANGED overlaps
       \/ /\ queueConnections[p] = None
          /\ Goto(c, "acquire")
          /\ overlaps' = [overlaps EXCEPT ![p] = IF MapInUse(p) THEN @ + 1 ELSE @]
          /\ UNCHANGED conn
    /\ UNCHANGED <<locks, redis, procs, handle, monv, cronv, procOf, boots, faults>>

\* ... and written after it, without a second look.
GetClient(c) ==
    LET p == procOf[c] IN
    /\ pc[c] = "acquire"
    /\ \E cl \in Clients \ borrowed[p] :
         /\ borrowed' = [borrowed EXCEPT ![p] = @ \union {cl}]
         /\ queueConnections' = [queueConnections EXCEPT ![p] = cl]
         /\ conn' = [conn EXCEPT ![c] = cl]
    /\ Goto(c, "init")
    /\ UNCHANGED <<locks, redis, queues, workers, live, active, handle, monv,
                   cronv, env>>

\* Mutant of InitQueue: an existing Queue is not returned early.
InitQueueAgain(c) ==
    /\ pc[c] = "init"
    /\ queues' = [queues EXCEPT ![procOf[c]] = TRUE]
    /\ Goto(c, "lock")
    /\ UNCHANGED <<locks, redis, workers, live, queueConnections, borrowed,
                   active, conn, handle, monv, cronv, env>>

\* initOrFetchQueue: check and set are one step, no await between them.
InitQueue(c) ==
    LET p == procOf[c] IN
    /\ pc[c] = "init"
    /\ \/ /\ queues[p]
          /\ handle' = [handle EXCEPT ![c] = TRUE]
          /\ Goto(c, "add")
          /\ UNCHANGED queues
       \/ /\ ~queues[p]
          /\ queues' = [queues EXCEPT ![p] = TRUE]
          /\ Goto(c, "lock")
          /\ UNCHANGED handle
    /\ UNCHANGED <<locks, redis, workers, live, queueConnections, borrowed,
                   active, conn, monv, cronv, env>>

\* monitorAndReleaseInactiveQueueRedisConnections: with the lock, start the
\* interval; without it (some process is setting up its monitor), no monitor.
StartMonitor(c) ==
    /\ pc[c] = "lock"
    /\ Lock(MonitorKey)
    /\ queueConnections' = [queueConnections EXCEPT ![procOf[c]] = conn[c]]
    /\ monitor' = [monitor EXCEPT ![c] = "idle"]
    /\ Goto(c, "unlock")
    /\ UNCHANGED <<redis, queues, workers, live, borrowed, active, conn, handle,
                   saw, cronv, env>>

NoMonitor(c) ==
    /\ pc[c] = "lock"
    /\ LockDenied(MonitorKey)
    /\ Goto(c, "worker")
    /\ UNCHANGED <<redis, procs, conn, handle, monv, cronv, env>>

\* The finally block: the lock covers the set-up only, not the monitor's life.
UnlockMonitor(c) ==
    /\ pc[c] = "unlock"
    /\ Unlock(MonitorKey)
    /\ Goto(c, "worker")
    /\ UNCHANGED <<redis, procs, conn, handle, monv, cronv, env>>

\* initOrFetchWorker: checked here, created after the scaling await.
CheckWorker(c) ==
    LET p == procOf[c] IN
    /\ pc[c] = "worker"
    /\ \/ /\ workers[p] # "none"
          /\ handle' = [handle EXCEPT ![c] = queues[p]]
          /\ Goto(c, "add")
       \/ /\ workers[p] = "none"
          /\ Goto(c, "create")
          /\ UNCHANGED handle
    /\ UNCHANGED <<locks, redis, procs, conn, monv, cronv, env>>

\* new Worker, then initOrFetchQueue returns queues.get(queueName).
CreateWorker(c) ==
    LET p == procOf[c] IN
    /\ pc[c] = "create"
    /\ workers' = [workers EXCEPT ![p] = "running"]
    /\ live' = [live EXCEPT ![p] = @ + 1]
    /\ handle' = [handle EXCEPT ![c] = queues[p]]
    /\ Goto(c, "add")
    /\ UNCHANGED <<locks, redis, queues, queueConnections, borrowed, active,
                   conn, monv, cronv, env>>

\* queue?.add: into Redis, through a Queue object that may be closed by now, or
\* nowhere if there was none to fetch.
Enqueue(c) ==
    /\ pc[c] = "add"
    /\ job' = [job EXCEPT ![c] = IF handle[c] THEN "waiting" ELSE "dropped"]
    /\ Goto(c, "done")
    /\ UNCHANGED <<locks, paused, activity, procs, conn, handle, monv, cronv,
                   env>>

\* The pool, lock, unlock, the scaling's read or queue.add throws: addJob rethrows, and
\* what it has put in the maps stays.  The command may have been carried out.
AddThrows(c) ==
    /\ pc[c] \in {"acquire", "lock", "unlock", "create", "add"}
    /\ faults < MaxFaults
    /\ faults' = faults + 1
    /\ \/ UNCHANGED <<locks, job>>
       \/ /\ \/ pc[c] = "lock" /\ locks' = locks \union {MonitorKey}
             \/ pc[c] = "unlock" /\ Unlock(MonitorKey)
          /\ UNCHANGED job
       \/ /\ pc[c] = "add" /\ handle[c]
          /\ job' = [job EXCEPT ![c] = "waiting"]
          /\ UNCHANGED locks
    /\ Goto(c, "failed")
    /\ UNCHANGED <<paused, activity, procs, conn, handle, monv, cronv, procOf, boots,
                   overlaps>>

\* addJob is over for its caller.
Over(c) == pc[c] \in {"done", "failed"}

-------------------------------------------------------------------------------
(* The worker (concurrency 1, the default) and the activity hash.          *)

\* A running worker takes a waiting job, from whichever process it came.
TakeJob(p, c) ==
    /\ workers[p] = "running"
    /\ ~paused
    /\ active[p] = None
    /\ job[c] = "waiting"
    /\ job' = [job EXCEPT ![c] = "active"]
    /\ active' = [active EXCEPT ![p] = c]
    /\ UNCHANGED <<locks, paused, activity, queues, workers, live,
                   queueConnections, borrowed, callv, monv, cronv, env>>

\* updateQueueActivity, awaited by the handler before the job function runs.
MarkActivity(p) ==
    /\ active[p] # None
    /\ activity' = "recent"
    /\ UNCHANGED <<locks, job, paused, procs, callv, monv, cronv, env>>

\* The handler settles (result, error or the 7.5 s timeout); a job whose key was
\* obliterated meanwhile has no state left to move.
FinishJob(p) ==
    /\ active[p] # None
    /\ job' = [job EXCEPT ![active[p]] = IF @ = "active" THEN "finished" ELSE @]
    /\ active' = [active EXCEPT ![p] = None]
    /\ UNCHANGED <<locks, paused, activity, queues, workers, live,
                   queueConnections, borrowed, callv, monv, cronv, env>>

\* QUEUE_INACTIVITY_THRESHOLD_MS pass without a new mark.
Age ==
    /\ activity = "recent"
    /\ activity' = "old"
    /\ UNCHANGED <<locks, job, paused, procs, callv, monv, cronv, env>>

\* A process boots: clearSomeQueues drops the activity of every queue; in the one
\* process per node that also does the one-time operations, all locks go first.
BootClear ==
    /\ boots < MaxBoots
    /\ boots' = boots + 1
    /\ Clear \/ UNCHANGED locks
    /\ activity' = "none"
    /\ UNCHANGED <<job, paused, procs, callv, monv, cronv, procOf, faults, overlaps>>

\* closeInactiveQueues (a unique cron): an old mark, the jobs active now ...
CronCheck ==
    /\ cron = "idle"
    /\ activity = "old"
    /\ cron' = "wait"
    /\ cronWait' = {c \in Calls : job[c] = "active"}
    /\ UNCHANGED <<locks, redis, procs, callv, monv, env>>

\* ... and, once none of those is active (ten tries outlast the job timeout),
\* the mark is deleted, even if it is a new one by now.
CronDelete ==
    /\ cron = "wait"
    /\ \A c \in cronWait : job[c] # "active"
    /\ activity' = "none"
    /\ cron' = "idle"
    /\ cronWait' = {}
    /\ UNCHANGED <<locks, job, paused, procs, callv, monv, env>>

-------------------------------------------------------------------------------
(* A tick of monitor m and performResourceCleanup.                         *)

MGoto(m, l) == monitor' = [monitor EXCEPT ![m] = l]

TickHas(m) ==
    /\ monitor[m] = "idle"
    /\ Over(m)
    /\ saw' = [saw EXCEPT ![m] = activity # "none"]
    /\ MGoto(m, "has")
    /\ UNCHANGED <<locks, redis, procs, callv, cronv, env>>

\* Mutant of TickDecide: only a queue without any mark counts as inactive.
TickDecideUnaged(m) ==
    /\ monitor[m] = "has"
    /\ MGoto(m, IF ~saw[m] THEN "cleanup" ELSE "idle")
    /\ saw' = [saw EXCEPT ![m] = FALSE]
    /\ UNCHANGED <<locks, redis, procs, callv, cronv, env>>

\* shouldShutdownQueue reads the mark again.
TickDecide(m) ==
    /\ monitor[m] = "has"
    /\ MGoto(m, IF activity = "old" \/ ~saw[m] THEN "cleanup" ELSE "idle")
    /\ saw' = [saw EXCEPT ![m] = FALSE]
    /\ UNCHANGED <<locks, redis, procs, callv, cronv, env>>

\* One of the two reads throws: the monitor gives up without a cleanup.
TickThrows(m) ==
    /\ monitor[m] \in {"idle", "has"}
    /\ Over(m)
    /\ faults < MaxFaults
    /\ faults' = faults + 1
    /\ MGoto(m, "unlock")
    /\ saw' = [saw EXCEPT ![m] = FALSE]
    /\ UNCHANGED <<locks, redis, procs, callv, cronv, procOf, boots, overlaps>>

\* Mutant of BeginClose: the close is not awaited.
BeginCloseUnawaited(m) ==
    /\ monitor[m] = "cleanup"
    /\ workers' = [workers EXCEPT ![procOf[m]] = "none"]
    /\ live' = [live EXCEPT ![procOf[m]] = 0]
    /\ MGoto(m, "queue")
    /\ UNCHANGED <<locks, redis, queues, queueConnections, borrowed, active,
                   callv, saw, cronv, env>>

\* worker.close() takes no new job and resolves when the active one has settled.
BeginClose(m) ==
    LET p == procOf[m] IN
    /\ monitor[m] = "cleanup"
    /\ \/ /\ workers[p] # "none"
          /\ workers' = [workers EXCEPT ![p] = "closing"]
          /\ MGoto(m, "closing")
       \/ /\ workers[p] = "none"
          /\ MGoto(m, "queue")
          /\ UNCHANGED workers
    /\ UNCHANGED <<locks, redis, queues, live, queueConnections, borrowed,
                   active, callv, saw, cronv, env>>

\* Mutant of CloseDone: close(true) does not wait for the active job.
CloseDoneForced(m) ==
    LET p == procOf[m] IN
    /\ monitor[m] = "closing"
    /\ workers' = [workers EXCEPT ![p] = "none"]
    /\ live' = [live EXCEPT ![p] = @ - 1]
    /\ MGoto(m, "queue")
    /\ UNCHANGED <<locks, redis, queues, queueConnections, borrowed, active,
                   callv, saw, cronv, env>>

CloseDone(m) ==
    LET p == procOf[m] IN
    /\ monitor[m] = "closing"
    /\ active[p] = None
    /\ workers' = [workers EXCEPT ![p] = "none"]
    /\ live' = [live EXCEPT ![p] = @ - 1]
    /\ MGoto(m, "queue")
    /\ UNCHANGED <<locks, redis, queues, queueConnections, borrowed, active,
                   callv, saw, cronv, env>>

\* queue.pause(), for all processes; a name without a Queue has nothing to clean.
Pause(m) ==
    /\ monitor[m] = "queue"
    /\ \/ /\ queues[procOf[m]]
          /\ paused' = TRUE
          /\ MGoto(m, "paused")
       \/ /\ ~queues[procOf[m]]
          /\ MGoto(m, "release")
          /\ UNCHANGED paused
    /\ UNCHANGED <<locks, job, activity, procs, callv, saw, cronv, env>>

\* Two seconds and queue.close() later: obliterate({force}) removes every job of
\* the queue in Redis, active ones of other processes included.
Obliterate(m) ==
    /\ monitor[m] = "paused"
    /\ job' = [c \in Calls |-> IF job[c] \in {"waiting", "active"}
                               THEN "obliterated" ELSE job[c]]
    /\ paused' = FALSE
    /\ MGoto(m, "forget")
    /\ UNCHANGED <<locks, activity, procs, callv, saw, cronv, env>>

\* worker.close(), pause, queue.close() or obliterate throws: logged, and on to the
\* finally block; a worker whose close threw stays in the map and takes no more jobs.
CleanupThrows(m) ==
    /\ \/ monitor[m] = "closing"
       \/ monitor[m] \in {"queue", "paused"} /\ queues[procOf[m]]
    /\ faults < MaxFaults
    /\ faults' = faults + 1
    /\ MGoto(m, "release")
    /\ UNCHANGED <<locks, redis, procs, callv, saw, cronv, procOf, boots, overlaps>>

\* Mutant of ReleaseClient: a cleanup that threw keeps the client.
ReleaseClientUnlessThrown(m) ==
    /\ \/ /\ monitor[m] = "forget"
          /\ queues' = [queues EXCEPT ![procOf[m]] = FALSE]
          /\ borrowed' = [borrowed EXCEPT ![procOf[m]] = @ \ {conn[m]}]
       \/ monitor[m] = "release" /\ UNCHANGED <<queues, borrowed>>
    /\ MGoto(m, "drop")
    /\ UNCHANGED <<locks, redis, workers, live, queueConnections, active, callv,
                   saw, cronv, env>>

\* Mutant of ReleaseClient: the map keeps the obliterated Queue.
ReleaseClientOnly(m) ==
    /\ monitor[m] \in {"forget", "release"}
    /\ borrowed' = [borrowed EXCEPT ![procOf[m]] = @ \ {conn[m]}]
    /\ MGoto(m, "drop")
    /\ UNCHANGED <<locks, redis, queues, workers, live, queueConnections, active,
                   callv, saw, cronv, env>>

\* queues.delete (unless the cleanup threw), then the captured connection goes
\* back to the pool: no await in between.
ReleaseClient(m) ==
    LET p == procOf[m] IN
    /\ monitor[m] \in {"forget", "release"}
    /\ queues' = IF monitor[m] = "forget" THEN [queues EXCEPT ![p] = FALSE]
                                          ELSE queues
    /\ borrowed' = [borrowed EXCEPT ![p] = @ \ {conn[m]}]
    /\ MGoto(m, "drop")
    /\ UNCHANGED <<locks, redis, workers, live, queueConnections, active, callv,
                   saw, cronv, env>>

\* Mutant of DropConnection: queues.delete happens here, after the release.
DropConnectionAndQueue(m) ==
    LET p == procOf[m] IN
    /\ monitor[m] = "drop"
    /\ queueConnections' = [queueConnections EXCEPT ![p] = None]
    /\ queues' = [queues EXCEPT ![p] = FALSE]
    /\ MGoto(m, "unlock")
    /\ UNCHANGED <<locks, redis, workers, live, borrowed, active, callv, saw,
                   cronv, env>>

\* queueConnections.delete, whatever the map holds now; then clearInterval.
DropConnection(m) ==
    /\ monitor[m] = "drop"
    /\ queueConnections' = [queueConnections EXCEPT ![procOf[m]] = None]
    /\ MGoto(m, "unlock")
    /\ UNCHANGED <<locks, redis, queues, workers, live, borrowed, active, callv,
                   saw, cronv, env>>

EndMonitor(m) ==
    /\ monitor[m] = "unlock"
    /\ Unlock(MonitorKey)
    /\ MGoto(m, "off")
    /\ UNCHANGED <<redis, procs, callv, saw, cronv, env>>

\* Its unlock throws, in the catch block too: the interval is over, the key stays.
EndMonitorThrows(m) ==
    /\ monitor[m] = "unlock"
    /\ faults < MaxFaults
    /\ faults' = faults + 1
    /\ MGoto(m, "off")
    /\ UNCHANGED <<locks, redis, procs, callv, saw, cronv, procOf, boots, overlaps>>

CallStep(c) ==
    \/ GetClient(c) \/ InitQueue(c) \/ StartMonitor(c) \/ NoMonitor(c)
    \/ UnlockMonitor(c) \/ CheckWorker(c) \/ CreateWorker(c) \/ Enqueue(c)

MonitorStep(m) ==
    \/ TickHas(m) \/ TickDecide(m) \/ BeginClose(m) \/ CloseDone(m) \/ Pause(m)
    \/ Obliterate(m) \/ ReleaseClient(m) \/ DropConnection(m) \/ EndMonitor(m)

Next ==
    \/ \E c \in Calls : StartAdd(c) \/ CallStep(c) \/ AddThrows(c)
    \/ \E p \in Procs : MarkActivity(p) \/ FinishJob(p)
    \/ \E p \in Procs, c \in Calls : TakeJob(p, c)
    \/ Age \/ BootClear \/ CronCheck \/ CronDelete
    \/ \E m \in Calls : MonitorStep(m) \/ TickThrows(m) \/ CleanupThrows(m)
                       \/ EndMonitorThrows(m)

Spec == Init /\ [][Next]_vars

\* Redis and BullMQ answer, timers fire, jobs settle (they time out after 7.5 s),
\* time passes.  Nobody has to call addJob, boot a process or run the cron.
Fairness ==
    /\ \A c \in Calls : WF_vars(CallStep(c)) /\ WF_vars(MonitorStep(c))
    /\ \A p \in Procs : /\ WF_vars(\E c \in Calls : TakeJob(p, c))
                        /\ WF_vars(FinishJob(p))
    /\ WF_vars(Age)

FairSpec == Spec /\ Fairness

-------------------------------------------------------------------------------
TypeOK ==
    /\ LockerTypeOK
    /\ job \in [Calls -> {"none", "dropped", "waiting", "active", "finished",
                          "obliterated"}]
    /\ paused \in BOOLEAN
    /\ activity \in {"none", "recent", "old"}
    /\ queues \in [Procs -> BOOLEAN]
    /\ workers \in [Procs -> {"none", "running", "closing"}]
    /\ live \in [Procs -> Nat]
    /\ queueConnections \in [Procs -> Clients \union {None}]
    /\ borrowed \in [Procs -> SUBSET Clients]
    /\ active \in [Procs -> Calls \union {None}]
    /\ pc \in [Calls -> {"idle", "acquire", "init", "lock", "unlock", "worker",
                         "create", "add", "done", "failed"}]
    /\ conn \in [Calls -> Clients \union {None}]
    /\ handle \in [Calls -> BOOLEAN]
    /\ monitor \in [Calls -> {"off", "idle", "has", "cleanup", "closing", "queue",
                              "paused", "forget", "release", "drop", "unlock"}]
    /\ saw \in [Calls -> BOOLEAN]
    /\ cron \in {"idle", "wait"} /\ cronWait \subseteq Calls
    /\ procOf \in Placements
    /\ boots \in 0..MaxBoots /\ faults \in 0..MaxFaults
    /\ overlaps \in [Procs -> Nat]

\* However addJob calls, monitors and cleanups interleave, a process never has
\* two open workers for a queue, and the one it has is the one in its map:
\* nobody could close another.
OneWorker ==
    \A p \in Procs : live[p] = (IF workers[p] = "none" THEN 0 ELSE 1)

\* While a process pauses and obliterates the queue, no job function of that
\* queue runs in it: its worker was closed first and cannot come back before
\* the map forgets the queue.
QuietCleanup ==
    \A m \in Calls : monitor[m] \in {"queue", "paused", "forget"} =>
        active[procOf[m]] = None /\ workers[procOf[m]] = "none"

\* addJob always finds a Queue to add to, even when a cleanup ran between its
\* check of the map and its return: `queue?.add` never skips a job silently.
AddFindsQueue == \A c \in Calls : pc[c] = "add" => handle[c]

\* The one way to lose a started job: another process, which does not run it and has
\* closed its own worker, obliterates the queue the two share in Redis.
LostToOthers(c) ==
    \E m \in Calls :
        /\ monitor[m] = "paused" /\ monitor'[m] = "forget"
        /\ workers[procOf[m]] = "none"
        /\ \A p \in Procs : active[p] = c => p # procOf[m]

\* A job that has started is never removed from Redis under its function by the process
\* that runs it: in a single process, never.  Several processes that run the same
\* queue lose started jobs to one another's cleanups, and to nothing else.
StartedJobKept ==
    [][\A c \in Calls : job[c] = "active" =>
          job'[c] \in {"active", "finished"} \/ LostToOthers(c)]_job

\* To callers of addJob all this is a queue that keeps every job it is given until a
\* worker has run it, or until a process that runs no job of it wipes it: no set-up is
\* so late and no cleanup so early that a job is dropped, run twice, or removed by its
\* own process.
Promised == INSTANCE JobQueue WITH Jobs <- Calls, fate <- job, running <- active

JobsAsPromised == Promised!Spec

\* A monitor ends: when calls stop, jobs settle, their mark ages, and the next
\* tick cleans up, so its interval does not go on for ever.
MonitorEnds == \A m \in Calls : (monitor[m] # "off") ~> (monitor[m] = "off")

\* An accepted job is processed or obliterated, unless it slipped in after the
\* obliterate: then its queue is gone from every map and the next addJob, whose
\* worker finds it, is what it waits for.  (As long as no tick throws.)
AcceptedJobSettles ==
    \A c \in Calls :
        (job[c] = "waiting") ~>
            \/ job[c] \in {"finished", "obliterated"}
            \/ \A p \in Procs : ~queues[p]
            \/ faults > 0

\* A lent client that is still needed, or on its way back: it is in the map, where the
\* next call finds it, or with a call in flight or a monitor that will release it.
Kept(p, cl) ==
    \/ queueConnections[p] = cl
    \/ \E c \in Calls : procOf[c] = p /\ conn[c] = cl /\ (~Over(c) \/ monitor[c] # "off")

Lost(p) == {cl \in borrowed[p] : ~Kept(p, cl)}

\* Clients are lost to one cause only.  Where a call finds no client in the map and
\* fetches one while another call or a cleanup is about to write that entry, one of
\* the two clients is overwritten there and never goes back to the pool; each such
\* overlap costs one client at most, and without one none is lost, whatever throws.
ClientsKept == \A p \in Procs : Cardinality(Lost(p)) <= overlaps[p]

\* DynamicQueueCleaner.ts:19 of the connections: "it's important to release them when
\* they're no longer needed".  The code does not: see ClientsKept.
ClientsReleased == \A p \in Procs : Lost(p) = {}
===============================================================================
