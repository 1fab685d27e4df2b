-------------------------- MODULE DynamicQueueProofs --------------------------
(***************************************************************************)
(* Proofs about DynamicQueue for every set of processes, calls and clients.*)
(***************************************************************************)
EXTENDS DynamicQueue, Integers, FiniteSetTheorems, TLAPS

\* A call that sets the queue up, and a monitor whose cleanup, if it comes to one,
\* is still ahead of queues.delete.
Building(c) == pc[c] \in {"lock", "unlock", "worker", "create"}
Minding(m) == monitor[m] \in {"idle", "has", "cleanup", "closing", "queue",
                              "paused", "forget"}
Keeping(c) == Building(c) \/ Minding(c)

\* A process that has the Queue has at most one call that builds it or minds it.
OneGeneration ==
    /\ \A c \in Calls : Keeping(c) => queues[procOf[c]]
    /\ \A c, d \in Calls :
         procOf[c] = procOf[d] /\ Keeping(c) /\ Keeping(d) => c = d

\* A monitor begins to tick when its addJob has returned.
TicksLater == \A m \in Calls : monitor[m] \notin {"off", "idle"} => Over(m)

\* The worker of a process at the positions that rely on it.
WorkerAsSeen ==
    /\ \A c \in Calls : pc[c] = "create" => workers[procOf[c]] = "none"
    /\ \A m \in Calls : monitor[m] = "closing" => workers[procOf[m]] = "closing"
    /\ \A m \in Calls : monitor[m] \in {"queue", "paused", "forget"} =>
                            workers[procOf[m]] = "none"
    /\ \A p \in Procs : workers[p] = "none" => active[p] = None

QueueInv ==
    /\ TypeOK
    /\ OneGeneration /\ TicksLater
    /\ OneWorker /\ WorkerAsSeen
    /\ AddFindsQueue

\* The calls stay in their processes.
LEMMA Placed ==
    ASSUME TypeOK, NEW c \in Calls
    PROVE  procOf[c] \in Procs
  BY DynamicQueueAssumption DEF TypeOK

\* Every step keeps the types; a close finds the worker it takes off the count.
LEMMA TypeStep ==
    ASSUME QueueInv, [Next]_vars
    PROVE  TypeOK'
<1>. USE DEF redis, procs, callv, monv, cronv, env
<1>0. TypeOK
  BY DEF QueueInv
<1>. USE <1>0, DynamicQueueAssumption DEF TypeOK, LockerTypeOK
<1>1. ASSUME NEW c \in Calls, StartAdd(c)
      PROVE  TypeOK'
  BY <1>1 DEF StartAdd, Goto
<1>2. ASSUME NEW c \in Calls, GetClient(c)
      PROVE  TypeOK'
  BY <1>2 DEF GetClient, Goto
<1>3. ASSUME NEW c \in Calls, InitQueue(c)
      PROVE  TypeOK'
  <2>1. queues' \in [Procs -> BOOLEAN] /\ handle' \in [Calls -> BOOLEAN]
    BY <1>3 DEF InitQueue
  <2>2. pc' = [pc EXCEPT ![c] = "add"] \/ pc' = [pc EXCEPT ![c] = "lock"]
    BY <1>3 DEF InitQueue, Goto
  <2>3. UNCHANGED <<locks, redis, workers, live, queueConnections, borrowed, active,
                    conn, monv, cronv, env>>
    BY <1>3 DEF InitQueue
  <2>. QED
    BY <2>1, <2>2, <2>3
<1>4. ASSUME NEW c \in Calls, StartMonitor(c)
      PROVE  TypeOK'
  BY <1>4 DEF StartMonitor, Lock, Goto
<1>5. ASSUME NEW c \in Calls, NoMonitor(c)
      PROVE  TypeOK'
  BY <1>5 DEF NoMonitor, LockDenied, Goto
<1>6. ASSUME NEW c \in Calls, UnlockMonitor(c)
      PROVE  TypeOK'
  BY <1>6 DEF UnlockMonitor, Unlock, Goto
<1>7. ASSUME NEW c \in Calls, CheckWorker(c)
      PROVE  TypeOK'
  BY <1>7 DEF CheckWorker, Goto
<1>8. ASSUME NEW c \in Calls, CreateWorker(c)
      PROVE  TypeOK'
  BY <1>8 DEF CreateWorker, Goto
<1>9. ASSUME NEW c \in Calls, Enqueue(c)
      PROVE  TypeOK'
  BY <1>9 DEF Enqueue, Goto
<1>10. ASSUME NEW m \in Calls, TickHas(m)
      PROVE  TypeOK'
  BY <1>10 DEF TickHas, MGoto
<1>11. ASSUME NEW m \in Calls, TickDecide(m)
      PROVE  TypeOK'
  BY <1>11 DEF TickDecide, MGoto
<1>12. ASSUME NEW m \in Calls, BeginClose(m)
      PROVE  TypeOK'
  BY <1>12 DEF BeginClose, MGoto
<1>13. ASSUME NEW m \in Calls, CloseDone(m)
      PROVE  TypeOK'
  <2>1. live[procOf[m]] = 1
    BY <1>13 DEF CloseDone, QueueInv, OneWorker, WorkerAsSeen
  <2>. QED
    BY <2>1, <1>13 DEF CloseDone, MGoto
<1>14. ASSUME NEW m \in Calls, Pause(m)
      PROVE  TypeOK'
  <2>1. CASE queues[procOf[m]]
    BY <2>1, <1>14 DEF Pause, MGoto
  <2>2. CASE ~queues[procOf[m]]
    BY <2>2, <1>14 DEF Pause, MGoto
  <2>. QED
    BY <2>1, <2>2
<1>15. ASSUME NEW m \in Calls, Obliterate(m)
      PROVE  TypeOK'
  BY <1>15 DEF Obliterate, MGoto
<1>16. ASSUME NEW m \in Calls, ReleaseClient(m)
      PROVE  TypeOK'
  BY <1>16 DEF ReleaseClient, MGoto
<1>17. ASSUME NEW m \in Calls, DropConnection(m)
      PROVE  TypeOK'
  BY <1>17 DEF DropConnection, MGoto
<1>18. ASSUME NEW m \in Calls, EndMonitor(m)
      PROVE  TypeOK'
  BY <1>18 DEF EndMonitor, Unlock, MGoto
<1>19. ASSUME NEW m \in Calls, TickThrows(m)
      PROVE  TypeOK'
  BY <1>19 DEF TickThrows, MGoto
<1>20. ASSUME NEW m \in Calls, CleanupThrows(m)
      PROVE  TypeOK'
  BY <1>20 DEF CleanupThrows, MGoto
<1>21. ASSUME NEW p \in Procs, MarkActivity(p)
      PROVE  TypeOK'
  BY <1>21 DEF MarkActivity
<1>22. ASSUME NEW p \in Procs, FinishJob(p)
      PROVE  TypeOK'
  BY <1>22 DEF FinishJob
<1>23. ASSUME NEW p \in Procs, NEW c \in Calls, TakeJob(p, c)
      PROVE  TypeOK'
  BY <1>23 DEF TakeJob
<1>24. CASE Age
  BY <1>24 DEF Age
<1>25. CASE BootClear
  BY <1>25 DEF BootClear, Clear
<1>26. CASE CronCheck
  BY <1>26 DEF CronCheck
<1>27. CASE CronDelete
  BY <1>27 DEF CronDelete
<1>28. CASE UNCHANGED vars
  BY <1>28 DEF vars
<1>29. ASSUME NEW c \in Calls, AddThrows(c)
      PROVE  TypeOK'
  BY <1>29 DEF AddThrows, Unlock, Goto
<1>30. ASSUME NEW m \in Calls, EndMonitorThrows(m)
      PROVE  TypeOK'
  BY <1>30 DEF EndMonitorThrows, MGoto
<1>. QED
  BY <1>1, <1>2, <1>3, <1>4, <1>5, <1>6, <1>7, <1>8, <1>9, <1>10, <1>11, <1>12, <1>13,
     <1>14, <1>15, <1>16, <1>17, <1>18, <1>19, <1>20, <1>21, <1>22, <1>23, <1>24,
     <1>25, <1>26, <1>27, <1>28, <1>29, <1>30
  DEF Next, CallStep, MonitorStep

\* A call builds only when nobody keeps the queue, and the queue goes with its keeper.
LEMMA GenerationStep ==
    ASSUME QueueInv, TypeOK', [Next]_vars
    PROVE  OneGeneration'
<1>. USE DEF redis, procs, callv, monv, cronv, env
<1>0. TypeOK /\ OneGeneration /\ TicksLater
  BY DEF QueueInv
<1>. USE <1>0, Placed DEF TypeOK, OneGeneration, Keeping, Building, Minding
<1>1. ASSUME NEW c \in Calls, StartAdd(c)
      PROVE  OneGeneration'
  BY <1>1 DEF StartAdd, Goto
<1>2. ASSUME NEW c \in Calls, GetClient(c)
      PROVE  OneGeneration'
  BY <1>2 DEF GetClient, Goto
<1>3. ASSUME NEW c \in Calls, InitQueue(c)
      PROVE  OneGeneration'
  BY <1>3 DEF InitQueue, Goto
<1>4. ASSUME NEW c \in Calls, StartMonitor(c)
      PROVE  OneGeneration'
  BY <1>4 DEF StartMonitor, Lock, Goto
<1>5. ASSUME NEW c \in Calls, NoMonitor(c)
      PROVE  OneGeneration'
  BY <1>5 DEF NoMonitor, LockDenied, Goto
<1>6. ASSUME NEW c \in Calls, UnlockMonitor(c)
      PROVE  OneGeneration'
  BY <1>6 DEF UnlockMonitor, Unlock, Goto
<1>7. ASSUME NEW c \in Calls, CheckWorker(c)
      PROVE  OneGeneration'
  BY <1>7 DEF CheckWorker, Goto
<1>8. ASSUME NEW c \in Calls, CreateWorker(c)
      PROVE  OneGeneration'
  BY <1>8 DEF CreateWorker, Goto
<1>9. ASSUME NEW c \in Calls, Enqueue(c)
      PROVE  OneGeneration'
  BY <1>9 DEF Enqueue, Goto
<1>10. ASSUME NEW m \in Calls, TickHas(m)
      PROVE  OneGeneration'
  BY <1>10 DEF TickHas, MGoto
<1>11. ASSUME NEW m \in Calls, TickDecide(m)
      PROVE  OneGeneration'
  BY <1>11 DEF TickDecide, MGoto
<1>12. ASSUME NEW m \in Calls, BeginClose(m)
      PROVE  OneGeneration'
  BY <1>12 DEF BeginClose, MGoto
<1>13. ASSUME NEW m \in Calls, CloseDone(m)
      PROVE  OneGeneration'
  BY <1>13 DEF CloseDone, MGoto
<1>14. ASSUME NEW m \in Calls, Pause(m)
      PROVE  OneGeneration'
  BY <1>14 DEF Pause, MGoto
<1>15. ASSUME NEW m \in Calls, Obliterate(m)
      PROVE  OneGeneration'
  BY <1>15 DEF Obliterate, MGoto
<1>16. ASSUME NEW m \in Calls, ReleaseClient(m)
      PROVE  OneGeneration'
  <2>1. \A c \in Calls : Keeping(c)' => Keeping(c) /\ c # m
    BY <1>16 DEF ReleaseClient, MGoto, TicksLater, Over
  <2>2. CASE monitor[m] = "forget"
    <3>1. \A c \in Calls : Keeping(c)' => procOf[c] # procOf[m]
      BY <2>1, <2>2
    <3>. QED
      BY <2>1, <3>1, <1>16 DEF ReleaseClient
  <2>3. CASE monitor[m] = "release"
    BY <2>1, <2>3, <1>16 DEF ReleaseClient
  <2>. QED
    BY <2>2, <2>3, <1>16 DEF ReleaseClient
<1>17. ASSUME NEW m \in Calls, DropConnection(m)
      PROVE  OneGeneration'
  BY <1>17 DEF DropConnection, MGoto
<1>18. ASSUME NEW m \in Calls, EndMonitor(m)
      PROVE  OneGeneration'
  BY <1>18 DEF EndMonitor, Unlock, MGoto
<1>19. ASSUME NEW m \in Calls, TickThrows(m)
      PROVE  OneGeneration'
  BY <1>19 DEF TickThrows, MGoto
<1>20. ASSUME NEW m \in Calls, CleanupThrows(m)
      PROVE  OneGeneration'
  BY <1>20 DEF CleanupThrows, MGoto
<1>21. ASSUME NEW p \in Procs, MarkActivity(p)
      PROVE  OneGeneration'
  BY <1>21 DEF MarkActivity
<1>22. ASSUME NEW p \in Procs, FinishJob(p)
      PROVE  OneGeneration'
  BY <1>22 DEF FinishJob
<1>23. ASSUME NEW p \in Procs, NEW c \in Calls, TakeJob(p, c)
      PROVE  OneGeneration'
  BY <1>23 DEF TakeJob
<1>24. CASE Age
  BY <1>24 DEF Age
<1>25. CASE BootClear
  BY <1>25 DEF BootClear, Clear
<1>26. CASE CronCheck
  BY <1>26 DEF CronCheck
<1>27. CASE CronDelete
  BY <1>27 DEF CronDelete
<1>28. CASE UNCHANGED vars
  BY <1>28 DEF vars
<1>29. ASSUME NEW c \in Calls, AddThrows(c)
      PROVE  OneGeneration'
  BY <1>29 DEF AddThrows, Unlock, Goto
<1>30. ASSUME NEW m \in Calls, EndMonitorThrows(m)
      PROVE  OneGeneration'
  BY <1>30 DEF EndMonitorThrows, MGoto
<1>. QED
  BY <1>1, <1>2, <1>3, <1>4, <1>5, <1>6, <1>7, <1>8, <1>9, <1>10, <1>11, <1>12, <1>13,
     <1>14, <1>15, <1>16, <1>17, <1>18, <1>19, <1>20, <1>21, <1>22, <1>23, <1>24,
     <1>25, <1>26, <1>27, <1>28, <1>29, <1>30
  DEF Next, CallStep, MonitorStep

\* A call that has returned does not move, and only its tick starts the rest.
LEMMA TicksStep ==
    ASSUME QueueInv, TypeOK', [Next]_vars
    PROVE  TicksLater'
<1>. USE DEF redis, procs, callv, monv, cronv, env
<1>0. TypeOK /\ TicksLater
  BY DEF QueueInv
<1>. USE <1>0 DEF TypeOK, TicksLater, Over
<1>1. ASSUME NEW c \in Calls, StartAdd(c)
      PROVE  TicksLater'
  BY <1>1 DEF StartAdd, Goto
<1>2. ASSUME NEW c \in Calls, GetClient(c)
      PROVE  TicksLater'
  BY <1>2 DEF GetClient, Goto
<1>3. ASSUME NEW c \in Calls, InitQueue(c)
      PROVE  TicksLater'
  BY <1>3 DEF InitQueue, Goto
<1>4. ASSUME NEW c \in Calls, StartMonitor(c)
      PROVE  TicksLater'
  BY <1>4 DEF StartMonitor, Lock, Goto
<1>5. ASSUME NEW c \in Calls, NoMonitor(c)
      PROVE  TicksLater'
  BY <1>5 DEF NoMonitor, LockDenied, Goto
<1>6. ASSUME NEW c \in Calls, UnlockMonitor(c)
      PROVE  TicksLater'
  BY <1>6 DEF UnlockMonitor, Unlock, Goto
<1>7. ASSUME NEW c \in Calls, CheckWorker(c)
      PROVE  TicksLater'
  BY <1>7 DEF CheckWorker, Goto
<1>8. ASSUME NEW c \in Calls, CreateWorker(c)
      PROVE  TicksLater'
  BY <1>8 DEF CreateWorker, Goto
<1>9. ASSUME NEW c \in Calls, Enqueue(c)
      PROVE  TicksLater'
  BY <1>9 DEF Enqueue, Goto
<1>10. ASSUME NEW m \in Calls, TickHas(m)
      PROVE  TicksLater'
  BY <1>10 DEF TickHas, MGoto
<1>11. ASSUME NEW m \in Calls, TickDecide(m)
      PROVE  TicksLater'
  BY <1>11 DEF TickDecide, MGoto
<1>12. ASSUME NEW m \in Calls, BeginClose(m)
      PROVE  TicksLater'
  BY <1>12 DEF BeginClose, MGoto
<1>13. ASSUME NEW m \in Calls, CloseDone(m)
      PROVE  TicksLater'
  BY <1>13 DEF CloseDone, MGoto
<1>14. ASSUME NEW m \in Calls, Pause(m)
      PROVE  TicksLater'
  BY <1>14 DEF Pause, MGoto
<1>15. ASSUME NEW m \in Calls, Obliterate(m)
      PROVE  TicksLater'
  BY <1>15 DEF Obliterate, MGoto
<1>16. ASSUME NEW m \in Calls, ReleaseClient(m)
      PROVE  TicksLater'
  BY <1>16 DEF ReleaseClient, MGoto
<1>17. ASSUME NEW m \in Calls, DropConnection(m)
      PROVE  TicksLater'
  BY <1>17 DEF DropConnection, MGoto
<1>18. ASSUME NEW m \in Calls, EndMonitor(m)
      PROVE  TicksLater'
  BY <1>18 DEF EndMonitor, Unlock, MGoto
<1>19. ASSUME NEW m \in Calls, TickThrows(m)
      PROVE  TicksLater'
  BY <1>19 DEF TickThrows, MGoto
<1>20. ASSUME NEW m \in Calls, CleanupThrows(m)
      PROVE  TicksLater'
  BY <1>20 DEF CleanupThrows, MGoto
<1>21. ASSUME NEW p \in Procs, MarkActivity(p)
      PROVE  TicksLater'
  BY <1>21 DEF MarkActivity
<1>22. ASSUME NEW p \in Procs, FinishJob(p)
      PROVE  TicksLater'
  BY <1>22 DEF FinishJob
<1>23. ASSUME NEW p \in Procs, NEW c \in Calls, TakeJob(p, c)
      PROVE  TicksLater'
  BY <1>23 DEF TakeJob
<1>24. CASE Age
  BY <1>24 DEF Age
<1>25. CASE BootClear
  BY <1>25 DEF BootClear, Clear
<1>26. CASE CronCheck
  BY <1>26 DEF CronCheck
<1>27. CASE CronDelete
  BY <1>27 DEF CronDelete
<1>28. CASE UNCHANGED vars
  BY <1>28 DEF vars
<1>29. ASSUME NEW c \in Calls, AddThrows(c)
      PROVE  TicksLater'
  BY <1>29 DEF AddThrows, Unlock, Goto
<1>30. ASSUME NEW m \in Calls, EndMonitorThrows(m)
      PROVE  TicksLater'
  BY <1>30 DEF EndMonitorThrows, MGoto
<1>. QED
  BY <1>1, <1>2, <1>3, <1>4, <1>5, <1>6, <1>7, <1>8, <1>9, <1>10, <1>11, <1>12, <1>13,
     <1>14, <1>15, <1>16, <1>17, <1>18, <1>19, <1>20, <1>21, <1>22, <1>23, <1>24,
     <1>25, <1>26, <1>27, <1>28, <1>29, <1>30
  DEF Next, CallStep, MonitorStep

\* Whoever creates or closes a worker is alone in doing so in its process.
LEMMA WorkerStep ==
    ASSUME QueueInv, TypeOK', [Next]_vars
    PROVE  (OneWorker /\ WorkerAsSeen)'
<1>. USE DEF redis, procs, callv, monv, cronv, env
<1>0. QueueInv
  OBVIOUS
<1>. USE <1>0, Placed DEF QueueInv, TypeOK, OneGeneration, Keeping, Building, Minding,
        TicksLater, Over, OneWorker, WorkerAsSeen
<1>1. ASSUME NEW c \in Calls, StartAdd(c)
      PROVE  (OneWorker /\ WorkerAsSeen)'
  BY <1>1 DEF StartAdd, Goto
<1>2. ASSUME NEW c \in Calls, GetClient(c)
      PROVE  (OneWorker /\ WorkerAsSeen)'
  BY <1>2 DEF GetClient, Goto
<1>3. ASSUME NEW c \in Calls, InitQueue(c)
      PROVE  (OneWorker /\ WorkerAsSeen)'
  BY <1>3 DEF InitQueue, Goto
<1>4. ASSUME NEW c \in Calls, StartMonitor(c)
      PROVE  (OneWorker /\ WorkerAsSeen)'
  BY <1>4 DEF StartMonitor, Lock, Goto
<1>5. ASSUME NEW c \in Calls, NoMonitor(c)
      PROVE  (OneWorker /\ WorkerAsSeen)'
  BY <1>5 DEF NoMonitor, LockDenied, Goto
<1>6. ASSUME NEW c \in Calls, UnlockMonitor(c)
      PROVE  (OneWorker /\ WorkerAsSeen)'
  BY <1>6 DEF UnlockMonitor, Unlock, Goto
<1>7. ASSUME NEW c \in Calls, CheckWorker(c)
      PROVE  (OneWorker /\ WorkerAsSeen)'
  BY <1>7 DEF CheckWorker, Goto
<1>8. ASSUME NEW c \in Calls, CreateWorker(c)
      PROVE  (OneWorker /\ WorkerAsSeen)'
  BY <1>8 DEF CreateWorker, Goto
<1>9. ASSUME NEW c \in Calls, Enqueue(c)
      PROVE  (OneWorker /\ WorkerAsSeen)'
  BY <1>9 DEF Enqueue, Goto
<1>10. ASSUME NEW m \in Calls, TickHas(m)
      PROVE  (OneWorker /\ WorkerAsSeen)'
  BY <1>10 DEF TickHas, MGoto
<1>11. ASSUME NEW m \in Calls, TickDecide(m)
      PROVE  (OneWorker /\ WorkerAsSeen)'
  BY <1>11 DEF TickDecide, MGoto
<1>12. ASSUME NEW m \in Calls, BeginClose(m)
      PROVE  (OneWorker /\ WorkerAsSeen)'
  BY <1>12 DEF BeginClose, MGoto
<1>13. ASSUME NEW m \in Calls, CloseDone(m)
      PROVE  (OneWorker /\ WorkerAsSeen)'
  BY <1>13 DEF CloseDone, MGoto
<1>14. ASSUME NEW m \in Calls, Pause(m)
      PROVE  (OneWorker /\ WorkerAsSeen)'
  BY <1>14 DEF Pause, MGoto
<1>15. ASSUME NEW m \in Calls, Obliterate(m)
      PROVE  (OneWorker /\ WorkerAsSeen)'
  BY <1>15 DEF Obliterate, MGoto
<1>16. ASSUME NEW m \in Calls, ReleaseClient(m)
      PROVE  (OneWorker /\ WorkerAsSeen)'
  BY <1>16 DEF ReleaseClient, MGoto
<1>17. ASSUME NEW m \in Calls, DropConnection(m)
      PROVE  (OneWorker /\ WorkerAsSeen)'
  BY <1>17 DEF DropConnection, MGoto
<1>18. ASSUME NEW m \in Calls, EndMonitor(m)
      PROVE  (OneWorker /\ WorkerAsSeen)'
  BY <1>18 DEF EndMonitor, Unlock, MGoto
<1>19. ASSUME NEW m \in Calls, TickThrows(m)
      PROVE  (OneWorker /\ WorkerAsSeen)'
  BY <1>19 DEF TickThrows, MGoto
<1>20. ASSUME NEW m \in Calls, CleanupThrows(m)
      PROVE  (OneWorker /\ WorkerAsSeen)'
  BY <1>20 DEF CleanupThrows, MGoto
<1>21. ASSUME NEW p \in Procs, MarkActivity(p)
      PROVE  (OneWorker /\ WorkerAsSeen)'
  BY <1>21 DEF MarkActivity
<1>22. ASSUME NEW p \in Procs, FinishJob(p)
      PROVE  (OneWorker /\ WorkerAsSeen)'
  BY <1>22 DEF FinishJob
<1>23. ASSUME NEW p \in Procs, NEW c \in Calls, TakeJob(p, c)
      PROVE  (OneWorker /\ WorkerAsSeen)'
  BY <1>23 DEF TakeJob
<1>24. CASE Age
  BY <1>24 DEF Age
<1>25. CASE BootClear
  BY <1>25 DEF BootClear, Clear
<1>26. CASE CronCheck
  BY <1>26 DEF CronCheck
<1>27. CASE CronDelete
  BY <1>27 DEF CronDelete
<1>28. CASE UNCHANGED vars
  BY <1>28 DEF vars
<1>29. ASSUME NEW c \in Calls, AddThrows(c)
      PROVE  (OneWorker /\ WorkerAsSeen)'
  BY <1>29 DEF AddThrows, Unlock, Goto
<1>30. ASSUME NEW m \in Calls, EndMonitorThrows(m)
      PROVE  (OneWorker /\ WorkerAsSeen)'
  BY <1>30 DEF EndMonitorThrows, MGoto
<1>. QED
  BY <1>1, <1>2, <1>3, <1>4, <1>5, <1>6, <1>7, <1>8, <1>9, <1>10, <1>11, <1>12, <1>13,
     <1>14, <1>15, <1>16, <1>17, <1>18, <1>19, <1>20, <1>21, <1>22, <1>23, <1>24,
     <1>25, <1>26, <1>27, <1>28, <1>29, <1>30
  DEF Next, CallStep, MonitorStep

\* A call goes on to add with the Queue that is in the map.
LEMMA HandleStep ==
    ASSUME QueueInv, TypeOK', [Next]_vars
    PROVE  AddFindsQueue'
<1>. USE DEF redis, procs, callv, monv, cronv, env
<1>0. TypeOK /\ OneGeneration /\ AddFindsQueue
  BY DEF QueueInv
<1>. USE <1>0 DEF TypeOK, OneGeneration, Keeping, Building, AddFindsQueue
<1>1. ASSUME NEW c \in Calls, StartAdd(c)
      PROVE  AddFindsQueue'
  BY <1>1 DEF StartAdd, Goto
<1>2. ASSUME NEW c \in Calls, GetClient(c)
      PROVE  AddFindsQueue'
  BY <1>2 DEF GetClient, Goto
<1>3. ASSUME NEW c \in Calls, InitQueue(c)
      PROVE  AddFindsQueue'
  BY <1>3 DEF InitQueue, Goto
<1>4. ASSUME NEW c \in Calls, StartMonitor(c)
      PROVE  AddFindsQueue'
  BY <1>4 DEF StartMonitor, Lock, Goto
<1>5. ASSUME NEW c \in Calls, NoMonitor(c)
      PROVE  AddFindsQueue'
  BY <1>5 DEF NoMonitor, LockDenied, Goto
<1>6. ASSUME NEW c \in Calls, UnlockMonitor(c)
      PROVE  AddFindsQueue'
  BY <1>6 DEF UnlockMonitor, Unlock, Goto
<1>7. ASSUME NEW c \in Calls, CheckWorker(c)
      PROVE  AddFindsQueue'
  BY <1>7 DEF CheckWorker, Goto
<1>8. ASSUME NEW c \in Calls, CreateWorker(c)
      PROVE  AddFindsQueue'
  BY <1>8 DEF CreateWorker, Goto
<1>9. ASSUME NEW c \in Calls, Enqueue(c)
      PROVE  AddFindsQueue'
  BY <1>9 DEF Enqueue, Goto
<1>10. ASSUME NEW m \in Calls, TickHas(m)
      PROVE  AddFindsQueue'
  BY <1>10 DEF TickHas, MGoto
<1>11. ASSUME NEW m \in Calls, TickDecide(m)
      PROVE  AddFindsQueue'
  BY <1>11 DEF TickDecide, MGoto
<1>12. ASSUME NEW m \in Calls, BeginClose(m)
      PROVE  AddFindsQueue'
  BY <1>12 DEF BeginClose, MGoto
<1>13. ASSUME NEW m \in Calls, CloseDone(m)
      PROVE  AddFindsQueue'
  BY <1>13 DEF CloseDone, MGoto
<1>14. ASSUME NEW m \in Calls, Pause(m)
      PROVE  AddFindsQueue'
  BY <1>14 DEF Pause, MGoto
<1>15. ASSUME NEW m \in Calls, Obliterate(m)
      PROVE  AddFindsQueue'
  BY <1>15 DEF Obliterate, MGoto
<1>16. ASSUME NEW m \in Calls, ReleaseClient(m)
      PROVE  AddFindsQueue'
  BY <1>16 DEF ReleaseClient, MGoto
<1>17. ASSUME NEW m \in Calls, DropConnection(m)
      PROVE  AddFindsQueue'
  BY <1>17 DEF DropConnection, MGoto
<1>18. ASSUME NEW m \in Calls, EndMonitor(m)
      PROVE  AddFindsQueue'
  BY <1>18 DEF EndMonitor, Unlock, MGoto
<1>19. ASSUME NEW m \in Calls, TickThrows(m)
      PROVE  AddFindsQueue'
  BY <1>19 DEF TickThrows, MGoto
<1>20. ASSUME NEW m \in Calls, CleanupThrows(m)
      PROVE  AddFindsQueue'
  BY <1>20 DEF CleanupThrows, MGoto
<1>21. ASSUME NEW p \in Procs, MarkActivity(p)
      PROVE  AddFindsQueue'
  BY <1>21 DEF MarkActivity
<1>22. ASSUME NEW p \in Procs, FinishJob(p)
      PROVE  AddFindsQueue'
  BY <1>22 DEF FinishJob
<1>23. ASSUME NEW p \in Procs, NEW c \in Calls, TakeJob(p, c)
      PROVE  AddFindsQueue'
  BY <1>23 DEF TakeJob
<1>24. CASE Age
  BY <1>24 DEF Age
<1>25. CASE BootClear
  BY <1>25 DEF BootClear, Clear
<1>26. CASE CronCheck
  BY <1>26 DEF CronCheck
<1>27. CASE CronDelete
  BY <1>27 DEF CronDelete
<1>28. CASE UNCHANGED vars
  BY <1>28 DEF vars
<1>29. ASSUME NEW c \in Calls, AddThrows(c)
      PROVE  AddFindsQueue'
  BY <1>29 DEF AddThrows, Unlock, Goto
<1>30. ASSUME NEW m \in Calls, EndMonitorThrows(m)
      PROVE  AddFindsQueue'
  BY <1>30 DEF EndMonitorThrows, MGoto
<1>. QED
  BY <1>1, <1>2, <1>3, <1>4, <1>5, <1>6, <1>7, <1>8, <1>9, <1>10, <1>11, <1>12, <1>13,
     <1>14, <1>15, <1>16, <1>17, <1>18, <1>19, <1>20, <1>21, <1>22, <1>23, <1>24,
     <1>25, <1>26, <1>27, <1>28, <1>29, <1>30
  DEF Next, CallStep, MonitorStep

\* The inductive invariant.
THEOREM QueueInvariant == Spec => []QueueInv
<1>1. Init => QueueInv
  <2>. SUFFICES ASSUME Init
                PROVE  QueueInv
    OBVIOUS
  <2>1. TypeOK
    <3>1. LockerTypeOK /\ procOf \in Placements /\ boots \in 0..MaxBoots
          /\ faults \in 0..MaxFaults
      BY DynamicQueueAssumption DEF Init, LockerInit, LockerTypeOK
    <3>. QED
      BY <3>1 DEF Init, TypeOK
  <2>2. OneGeneration /\ TicksLater
    BY DEF Init, OneGeneration, TicksLater, Keeping, Building, Minding
  <2>3. OneWorker /\ WorkerAsSeen /\ AddFindsQueue
    BY <2>1, Placed DEF Init, OneWorker, WorkerAsSeen, AddFindsQueue
  <2>. QED
    BY <2>1, <2>2, <2>3 DEF QueueInv
<1>2. QueueInv /\ [Next]_vars => QueueInv'
  BY TypeStep, GenerationStep, TicksStep, WorkerStep, HandleStep DEF QueueInv
<1>. QED
  BY <1>1, <1>2, PTL DEF Spec

\* Type correctness of the queue, its workers and its monitors.
THEOREM QueueTypeCorrect == Spec => []TypeOK
<1>1. QueueInv => TypeOK
  BY DEF QueueInv
<1>. QED
  BY <1>1, QueueInvariant, PTL

\* A process never has two open workers for the queue, nor one its map has lost.
THEOREM AlwaysOneWorker == Spec => []OneWorker
<1>1. QueueInv => OneWorker
  BY DEF QueueInv
<1>. QED
  BY <1>1, QueueInvariant, PTL

\* No job function of a process runs while it pauses and obliterates the queue.
THEOREM CleanupIsQuiet == Spec => []QuietCleanup
<1>1. QueueInv => QuietCleanup
  BY Placed DEF QueueInv, WorkerAsSeen, QuietCleanup
<1>. QED
  BY <1>1, QueueInvariant, PTL

\* addJob always has a Queue to add to.
THEOREM AddAlwaysFindsQueue == Spec => []AddFindsQueue
<1>1. QueueInv => AddFindsQueue
  BY DEF QueueInv
<1>. QED
  BY <1>1, QueueInvariant, PTL
-------------------------------------------------------------------------------
(* What becomes of a job that has started.                                 *)

\* A job exists once its addJob has returned, and an active one is in a worker's hands.
InHands ==
    /\ \A c \in Calls : job[c] # "none" => Over(c)
    /\ \A c \in Calls : job[c] = "active" => \E p \in Procs : active[p] = c

\* A started job is only finished, or obliterated under another process's function.
LEMMA InHandsStep ==
    ASSUME TypeOK, TypeOK', InHands, [Next]_vars
    PROVE  /\ InHands'
           /\ \A c \in Calls : job[c] = "active" =>
                \/ job'[c] \in {"active", "finished"}
                \/ \E m \in Calls : monitor[m] = "paused" /\ monitor'[m] = "forget"
<1>. USE DEF redis, procs, callv, monv, cronv, env, Goto, MGoto, Over
<1>1. ASSUME UNCHANGED <<job, active>>, \A c \in Calls : Over(c) => Over(c)'
      PROVE  /\ InHands'
             /\ \A c \in Calls : job[c] = "active" => job'[c] = "active"
  BY <1>1 DEF InHands
<1>2. ASSUME NEW c \in Calls,
             \/ StartAdd(c) \/ GetClient(c) \/ InitQueue(c) \/ StartMonitor(c)
             \/ NoMonitor(c) \/ UnlockMonitor(c) \/ CheckWorker(c) \/ CreateWorker(c)
      PROVE  UNCHANGED <<job, active>> /\ \A d \in Calls : Over(d) => Over(d)'
  BY <1>2 DEF TypeOK, StartAdd, GetClient, InitQueue, StartMonitor, NoMonitor,
              UnlockMonitor, CheckWorker, CreateWorker
<1>3. ASSUME NEW c \in Calls, Enqueue(c)
      PROVE  InHands' /\ \A d \in Calls : job[d] = "active" => job'[d] = "active"
  <2>1. job[c] = "none"
    BY <1>3 DEF InHands, Enqueue
  <2>2. /\ job' = [job EXCEPT ![c] = IF handle[c] THEN "waiting" ELSE "dropped"]
        /\ pc' = [pc EXCEPT ![c] = "done"] /\ active' = active
    BY <1>3 DEF Enqueue
  <2>. QED
    BY <2>1, <2>2 DEF InHands, TypeOK
<1>4. ASSUME NEW p \in Procs, NEW c \in Calls, TakeJob(p, c)
      PROVE  InHands' /\ \A d \in Calls : job[d] = "active" => job'[d] = "active"
  <2>1. /\ job[c] = "waiting" /\ job' = [job EXCEPT ![c] = "active"]
        /\ active[p] = None /\ active' = [active EXCEPT ![p] = c] /\ pc' = pc
    BY <1>4 DEF TakeJob
  <2>2. \A d \in Calls : job'[d] = "active" => \E q \in Procs : active'[q] = d
    <3>1. active'[p] = c
      BY <2>1 DEF TypeOK
    <3>2. ASSUME NEW d \in Calls, d # c, job'[d] = "active"
          PROVE  \E q \in Procs : active'[q] = d
      <4>1. PICK q \in Procs : active[q] = d
        BY <2>1, <3>2 DEF InHands, TypeOK
      <4>2. q # p
        BY <2>1, <4>1, DynamicQueueAssumption
      <4>. QED
        BY <2>1, <4>1, <4>2 DEF TypeOK
    <3>. QED
      BY <3>1, <3>2
  <2>. QED
    BY <2>1, <2>2 DEF InHands, TypeOK
<1>5. ASSUME NEW p \in Procs, FinishJob(p)
      PROVE  /\ InHands'
             /\ \A d \in Calls : job[d] = "active" => job'[d] \in {"active", "finished"}
  <2>1. PICK a \in Calls : a = active[p]
    BY <1>5 DEF FinishJob, TypeOK
  <2>2. /\ job' = [job EXCEPT ![a] = IF job[a] = "active" THEN "finished" ELSE job[a]]
        /\ active' = [active EXCEPT ![p] = None] /\ pc' = pc
    BY <1>5, <2>1 DEF FinishJob, TypeOK
  <2>3. \A d \in Calls : job[d] = "active" => job'[d] \in {"active", "finished"}
    BY <2>2 DEF TypeOK
  <2>4. ASSUME NEW d \in Calls, job'[d] = "active"
        PROVE  \E q \in Procs : active'[q] = d
    <3>1. d # a /\ job[d] = "active"
      BY <2>2, <2>4 DEF TypeOK
    <3>2. PICK q \in Procs : active[q] = d
      BY <3>1 DEF InHands
    <3>. QED
      BY <2>1, <2>2, <3>1, <3>2 DEF TypeOK
  <2>5. \A d \in Calls : job'[d] # "none" => job[d] # "none"
    BY <2>2 DEF TypeOK
  <2>. QED
    BY <2>2, <2>3, <2>4, <2>5 DEF InHands
<1>6. ASSUME NEW m \in Calls, Obliterate(m)
      PROVE  InHands' /\ monitor[m] = "paused" /\ monitor'[m] = "forget"
  BY <1>6 DEF Obliterate, InHands, TypeOK
<1>7. ASSUME NEW m \in Calls,
             \/ TickHas(m) \/ TickDecide(m) \/ BeginClose(m) \/ CloseDone(m) \/ Pause(m)
             \/ ReleaseClient(m) \/ DropConnection(m) \/ EndMonitor(m) \/ TickThrows(m)
             \/ CleanupThrows(m) \/ EndMonitorThrows(m)
      PROVE  UNCHANGED <<job, active, pc>>
  BY <1>7 DEF TickHas, TickDecide, BeginClose, CloseDone, Pause, ReleaseClient,
              DropConnection, EndMonitor, TickThrows, CleanupThrows, EndMonitorThrows
<1>8. ASSUME \/ \E p \in Procs : MarkActivity(p)
             \/ Age \/ BootClear \/ CronCheck \/ CronDelete \/ UNCHANGED vars
      PROVE  UNCHANGED <<job, active, pc>>
  BY <1>8 DEF MarkActivity, Age, BootClear, CronCheck, CronDelete, vars
<1>9. ASSUME NEW c \in Calls, AddThrows(c)
      PROVE  InHands' /\ \A d \in Calls : job[d] = "active" => job'[d] = "active"
  <2>1. job[c] = "none" /\ active' = active /\ pc' = [pc EXCEPT ![c] = "failed"]
    BY <1>9 DEF InHands, AddThrows
  <2>2. job' = job \/ job' = [job EXCEPT ![c] = "waiting"]
    BY <1>9 DEF AddThrows
  <2>. QED
    BY <2>1, <2>2 DEF InHands, TypeOK
<1>. QED
  BY <1>1, <1>2, <1>3, <1>4, <1>5, <1>6, <1>7, <1>8, <1>9 DEF Next, CallStep, MonitorStep

\* With any number of processes: a started job is finished, or removed by the cleanup of
\* a process that was not running it.  Obliterate is forced on the whole queue, and the
\* cleanup waits for the worker of its own process only.
THEOREM StartedJobAlwaysKept == Spec => StartedJobKept
<1>. DEFINE Step == \A c \in Calls : job[c] = "active" =>
                        job'[c] \in {"active", "finished"} \/ LostToOthers(c)
<1>1. Init => InHands
  BY DEF Init, InHands
<1>2. TypeOK /\ TypeOK' /\ InHands /\ [Next]_vars => InHands'
  BY InHandsStep
<1>3. TypeOK /\ TypeOK' /\ InHands /\ QuietCleanup /\ [Next]_vars => [Step]_job
  <2>. SUFFICES ASSUME TypeOK, TypeOK', InHands, QuietCleanup, [Next]_vars,
                       NEW c \in Calls, job[c] = "active",
                       job'[c] \notin {"active", "finished"}
                PROVE  LostToOthers(c)
    OBVIOUS
  <2>1. PICK m \in Calls : monitor[m] = "paused" /\ monitor'[m] = "forget"
    BY InHandsStep
  <2>2. active[procOf[m]] = None /\ workers[procOf[m]] = "none"
    BY <2>1 DEF QuietCleanup
  <2>. QED
    BY <2>1, <2>2, DynamicQueueAssumption DEF LostToOthers
<1>. QED
  BY <1>1, <1>2, <1>3, QueueTypeCorrect, CleanupIsQuiet, PTL DEF Spec, StartedJobKept

-------------------------------------------------------------------------------
(* The queue as its callers see it.                                        *)

\* Every step is one of JobQueue, or none of its: enqueuing adds, for there is a Queue to
\* add to; obliterating wipes, for the process that does it runs nothing.
LEMMA PromiseStep ==
    ASSUME TypeOK, InHands, AddFindsQueue, QuietCleanup, [Next]_vars
    PROVE  [Promised!Next]_(Promised!jvars)
<1>. USE DEF Promised!jvars, Promised!Next
<1>1. ASSUME NEW c \in Calls, Enqueue(c)
      PROVE  Promised!Add(c)
  <2>1. handle[c] /\ job[c] = "none"
    BY <1>1 DEF Enqueue, AddFindsQueue, InHands, Over
  <2>. QED
    BY <1>1, <2>1 DEF Enqueue, procs, Promised!Add
<1>2. ASSUME NEW p \in Procs, NEW c \in Calls, TakeJob(p, c)
      PROVE  Promised!Start(p, c)
  BY <1>2 DEF TakeJob, Promised!Start
<1>3. ASSUME NEW p \in Procs, FinishJob(p)
      PROVE  Promised!Finish(p)
  BY <1>3 DEF FinishJob, Promised!Finish
<1>4. ASSUME NEW m \in Calls, Obliterate(m)
      PROVE  \E p \in Procs : Promised!Wipe(p)
  <2>1. procOf[m] \in Procs /\ active[procOf[m]] = None
    BY <1>4, Placed DEF Obliterate, QuietCleanup
  <2>. QED
    BY <1>4, <2>1 DEF Obliterate, procs, Promised!Wipe
<1>5. ASSUME NEW c \in Calls,
             \/ StartAdd(c) \/ GetClient(c) \/ InitQueue(c) \/ StartMonitor(c)
             \/ NoMonitor(c) \/ UnlockMonitor(c) \/ CheckWorker(c) \/ CreateWorker(c)
             \/ TickHas(c) \/ TickDecide(c) \/ BeginClose(c) \/ CloseDone(c) \/ Pause(c)
             \/ ReleaseClient(c) \/ DropConnection(c) \/ EndMonitor(c) \/ TickThrows(c)
             \/ CleanupThrows(c) \/ EndMonitorThrows(c)
      PROVE  UNCHANGED <<job, active>>
  BY <1>5 DEF StartAdd, GetClient, InitQueue, StartMonitor, NoMonitor, UnlockMonitor,
              CheckWorker, CreateWorker, TickHas, TickDecide, BeginClose, CloseDone, Pause,
              ReleaseClient, DropConnection, EndMonitor, TickThrows, CleanupThrows,
              EndMonitorThrows, redis, procs
<1>6. ASSUME \/ \E p \in Procs : MarkActivity(p)
             \/ Age \/ BootClear \/ CronCheck \/ CronDelete \/ UNCHANGED vars
      PROVE  UNCHANGED <<job, active>>
  BY <1>6 DEF MarkActivity, Age, BootClear, CronCheck, CronDelete, vars, redis, procs
<1>7. ASSUME NEW c \in Calls, AddThrows(c)
      PROVE  Promised!Add(c) \/ UNCHANGED <<job, active>>
  <2>1. job[c] = "none" /\ active' = active
    BY <1>7 DEF AddThrows, InHands, Over, procs
  <2>. QED
    BY <1>7, <2>1 DEF AddThrows, Promised!Add
<1>. QED
  BY <1>1, <1>2, <1>3, <1>4, <1>5, <1>6, <1>7 DEF Next, CallStep, MonitorStep

\* The queue implements JobQueue, for any number of processes and calls, whatever throws.
THEOREM QueueKeepsPromise == Spec => JobsAsPromised
<1>1. Init => InHands /\ Promised!Init
  BY DEF Init, InHands, Promised!Init
<1>2. TypeOK /\ TypeOK' /\ InHands /\ [Next]_vars => InHands'
  BY InHandsStep
<1>3. TypeOK /\ InHands /\ AddFindsQueue /\ QuietCleanup /\ [Next]_vars
        => [Promised!Next]_(Promised!jvars)
  BY PromiseStep
<1>. QED
  BY <1>1, <1>2, <1>3, QueueTypeCorrect, CleanupIsQuiet, AddAlwaysFindsQueue, PTL
  DEF Spec, JobsAsPromised, Promised!Spec

\* A job is run by one process at a time.
OneRunner == \A p, q \in Procs : active[p] = active[q] /\ active[p] # None => p = q

\* What is run was taken from those that wait.
PromisedInv ==
    /\ job \in [Calls -> {"none", "waiting", "active", "finished", "obliterated"}]
    /\ active \in [Procs -> Calls \union {None}]
    /\ \A p \in Procs : active[p] # None => job[active[p]] \notin {"none", "waiting"}
    /\ OneRunner

\* What JobQueue alone entails: no job is run by two processes at once, and one that is
\* finished or wiped stays so, hence is never run again.
LEMMA PromiseEntails ==
    JobsAsPromised =>
        /\ []OneRunner
        /\ [][\A c \in Calls : job[c] \in {"finished", "obliterated"} => job'[c] = job[c]]_job
<1>. DEFINE Step == \A c \in Calls : job[c] \in {"finished", "obliterated"} => job'[c] = job[c]
<1>. USE DynamicQueueAssumption DEF PromisedInv, OneRunner
<1>1. Promised!Init => PromisedInv
  BY DEF Promised!Init
<1>2. PromisedInv /\ [Promised!Next]_(Promised!jvars) => PromisedInv' /\ [Step]_job
  <2>. SUFFICES ASSUME PromisedInv, [Promised!Next]_(Promised!jvars)
                PROVE  PromisedInv' /\ Step
    OBVIOUS
  <2>1. ASSUME NEW c \in Calls, Promised!Add(c)
        PROVE  PromisedInv' /\ Step
    BY <2>1 DEF Promised!Add
  <2>2. ASSUME NEW p \in Procs, NEW c \in Calls, Promised!Start(p, c)
        PROVE  PromisedInv' /\ Step
    BY <2>2 DEF Promised!Start
  <2>3. ASSUME NEW p \in Procs, Promised!Finish(p)
        PROVE  PromisedInv' /\ Step
    <3>1. PICK a \in Calls : a = active[p]
      BY <2>3 DEF Promised!Finish
    <3>2. /\ job' = [job EXCEPT ![a] = IF job[a] = "active" THEN "finished" ELSE job[a]]
          /\ active' = [active EXCEPT ![p] = None]
      BY <2>3, <3>1 DEF Promised!Finish
    <3>. QED
      BY <3>1, <3>2
  <2>4. ASSUME NEW p \in Procs, Promised!Wipe(p)
        PROVE  PromisedInv' /\ Step
    BY <2>4 DEF Promised!Wipe
  <2>5. CASE UNCHANGED Promised!jvars
    BY <2>5 DEF Promised!jvars
  <2>. QED
    BY <2>1, <2>2, <2>3, <2>4, <2>5 DEF Promised!Next
<1>3. PromisedInv => OneRunner
  OBVIOUS
<1>. QED
  BY <1>1, <1>2, <1>3, PTL DEF JobsAsPromised, Promised!Spec

\* So the code does: a job is run by one process, and never again once it is wiped.
THEOREM JobRunsInOneProcess ==
    Spec => /\ []OneRunner
            /\ [][\A c \in Calls :
                    job[c] \in {"finished", "obliterated"} => job'[c] = job[c]]_job
BY QueueKeepsPromise, PromiseEntails

-------------------------------------------------------------------------------
(* What becomes of the clients a pool has lent.                            *)

\* The calls that wait for a client, and those that hold one and have yet to write it to
\* the map, or whose monitor has yet to give it back.
Fetching(p) == {c \in Calls : procOf[c] = p /\ pc[c] = "acquire"}
Holding(c) == pc[c] \in {"init", "lock"} \/ monitor[c] \notin {"off", "drop", "unlock"}

Spent(p) == Cardinality(borrowed[p]) + Cardinality(Fetching(p))

\* Nobody holds a client that was given back, and the next to come finds one.
Tight(p) ==
    /\ \A c \in Calls : procOf[c] = p /\ Holding(c) => conn[c] \in borrowed[p]
    /\ queueConnections[p] \in borrowed[p] \union {None}
    /\ \A m \in Calls : procOf[m] = p => monitor[m] # "drop"
    /\ queueConnections[p] # None \/ Fetching(p) # {}

\* The books of a process: it has lent or is about to lend one client more than there
\* were overlaps, at most, and where it is just that many no client can be lost.
Books(p) ==
    /\ IsFiniteSet(borrowed[p]) /\ IsFiniteSet(Fetching(p))
    /\ Spent(p) <= overlaps[p] + 1
    /\ Spent(p) = overlaps[p] + 1 => Tight(p)

\* A process whose clients and map do not move, and where nobody comes to hold one.
LEMMA BooksStay ==
    ASSUME NEW p \in Procs, Books(p), procOf' = procOf,
           borrowed'[p] = borrowed[p], queueConnections'[p] = queueConnections[p],
           overlaps'[p] = overlaps[p], Fetching(p)' = Fetching(p),
           \A c \in Calls : procOf[c] = p /\ Holding(c)' => Holding(c) /\ conn'[c] = conn[c],
           \A m \in Calls : procOf[m] = p /\ monitor'[m] = "drop" => monitor[m] = "drop"
    PROVE  Books(p)'
<1>1. Spent(p)' = Spent(p)
  BY DEF Spent
<1>2. Tight(p) => Tight(p)'
  BY DEF Tight
<1>. QED
  BY <1>1, <1>2 DEF Books

\* The steps of getQueueConnection, of the monitor's start and of the cleanup's end are
\* the only ones that touch clients.
LEMMA ClientSteps ==
    ASSUME TypeOK, [Next]_vars
    PROVE  \/ \E c \in Calls : \/ StartAdd(c) \/ GetClient(c) \/ StartMonitor(c)
                               \/ AddThrows(c) \/ ReleaseClient(c) \/ DropConnection(c)
           \/ /\ UNCHANGED <<conn, borrowed, queueConnections, procOf, overlaps>>
              /\ \A c \in Calls :
                   /\ pc'[c] = "acquire" <=> pc[c] = "acquire"
                   /\ Holding(c)' => Holding(c)
                   /\ monitor'[c] = "drop" => monitor[c] = "drop"
<1>. USE DEF redis, procs, callv, monv, cronv, env, Goto, MGoto, Holding
<1>. DEFINE Same == UNCHANGED <<conn, borrowed, queueConnections, procOf, overlaps>>
            Moves == \A c \in Calls :
                       /\ pc'[c] = "acquire" <=> pc[c] = "acquire"
                       /\ Holding(c)' => Holding(c)
                       /\ monitor'[c] = "drop" => monitor[c] = "drop"
<1>1. ASSUME NEW c \in Calls, \/ InitQueue(c) \/ NoMonitor(c) \/ UnlockMonitor(c)
                              \/ CheckWorker(c) \/ CreateWorker(c) \/ Enqueue(c)
      PROVE  Same /\ Moves
  BY <1>1 DEF InitQueue, NoMonitor, UnlockMonitor, CheckWorker, CreateWorker, Enqueue,
              TypeOK
<1>2. ASSUME NEW m \in Calls,
             \/ TickHas(m) \/ TickDecide(m) \/ BeginClose(m) \/ CloseDone(m) \/ Pause(m)
             \/ Obliterate(m) \/ EndMonitor(m) \/ TickThrows(m) \/ CleanupThrows(m)
             \/ EndMonitorThrows(m)
      PROVE  Same /\ Moves
  BY <1>2 DEF TickHas, TickDecide, BeginClose, CloseDone, Pause, Obliterate, EndMonitor,
              TickThrows, CleanupThrows, EndMonitorThrows, TypeOK
<1>3. ASSUME \/ \E p \in Procs : MarkActivity(p) \/ FinishJob(p)
             \/ \E p \in Procs, c \in Calls : TakeJob(p, c)
             \/ Age \/ BootClear \/ CronCheck \/ CronDelete \/ UNCHANGED vars
      PROVE  Same /\ UNCHANGED <<pc, monitor>>
  BY <1>3 DEF MarkActivity, FinishJob, TakeJob, Age, BootClear, CronCheck, CronDelete, vars
<1>4. ASSUME Same, UNCHANGED <<pc, monitor>>
      PROVE  Moves
  BY <1>4
<1>. QED
  BY <1>1, <1>2, <1>3, <1>4 DEF Next, CallStep, MonitorStep

\* A fetch: the next one to wait is paid for by an overlap, or is the first.
LEMMA FetchBooked ==
    ASSUME TypeOK, NEW c \in Calls, NEW p \in Procs, p = procOf[c],
           StartAdd(c), queueConnections[p] = None, Books(p)
    PROVE  Books(p)'
<1>1. p = procOf[c]
  OBVIOUS
<1>2. /\ procOf' = procOf /\ borrowed' = borrowed /\ queueConnections' = queueConnections
      /\ conn' = conn /\ monitor' = monitor
      /\ pc[c] = "idle" /\ pc' = [pc EXCEPT ![c] = "acquire"]
      /\ overlaps'[p] = IF MapInUse(p) THEN overlaps[p] + 1 ELSE overlaps[p]
  BY <1>1 DEF StartAdd, Goto, procs, monv, TypeOK
<1>3. Fetching(p)' = Fetching(p) \union {c} /\ c \notin Fetching(p)
  BY <1>1, <1>2 DEF Fetching, TypeOK
<1>4. /\ IsFiniteSet(Fetching(p)') /\ Spent(p)' = Spent(p) + 1
      /\ Spent(p) \in Nat /\ overlaps[p] \in Nat
  <2>1. IsFiniteSet(Fetching(p)) /\ IsFiniteSet(borrowed[p])
    BY <1>1 DEF Books
  <2>2. /\ IsFiniteSet(Fetching(p)') /\ Cardinality(Fetching(p)') = Cardinality(Fetching(p)) + 1
        /\ Cardinality(Fetching(p)) \in Nat /\ Cardinality(borrowed[p]) \in Nat
    BY <1>3, <2>1, FS_AddElement, FS_CardinalityType
  <2>3. Cardinality(borrowed[p])' = Cardinality(borrowed[p]) /\ overlaps[p] \in Nat
    BY <1>1, <1>2 DEF TypeOK
  <2>. QED
    BY <2>2, <2>3 DEF Spent
<1>5. \A d \in Calls : Holding(d)' => Holding(d)
  BY <1>2 DEF Holding, TypeOK
<1>6. CASE MapInUse(p)
  <2>1. overlaps'[p] = overlaps[p] + 1 /\ Spent(p) <= overlaps[p] + 1
    BY <1>1, <1>2, <1>6 DEF Books
  <2>2. Spent(p)' <= overlaps'[p] + 1
    BY <1>4, <2>1
  <2>3. Spent(p)' = overlaps'[p] + 1 => Tight(p)
    BY <1>1, <1>4, <2>1 DEF Books
  <2>4. Tight(p) => Tight(p)'
    BY <1>2, <1>3, <1>5 DEF Tight
  <2>5. IsFiniteSet(borrowed'[p])
    BY <1>1, <1>2 DEF Books
  <2>. QED
    BY <1>1, <1>2, <1>4, <2>2, <2>3, <2>4, <2>5 DEF Books
<1>7. CASE ~MapInUse(p)
  <2>1. /\ Fetching(p) = {}
        /\ \A d \in Calls : procOf[d] = p => ~Holding(d) /\ monitor[d] # "drop"
    BY <1>7 DEF MapInUse, Fetching, Holding
  <2>2. ~Tight(p)
    BY <1>1, <2>1 DEF Tight
  <2>3. overlaps'[p] = overlaps[p] /\ Spent(p) <= overlaps[p] + 1
        /\ Spent(p) # overlaps[p] + 1
    BY <1>1, <1>2, <1>7, <2>2 DEF Books
  <2>4. Spent(p)' <= overlaps'[p] + 1
    BY <1>4, <2>3
  <2>5. Tight(p)'
    BY <1>1, <1>2, <1>3, <1>5, <2>1 DEF Tight
  <2>6. IsFiniteSet(borrowed'[p])
    BY <1>1, <1>2 DEF Books
  <2>. QED
    BY <1>1, <1>2, <1>4, <2>4, <2>5, <2>6 DEF Books
<1>. QED
  BY <1>6, <1>7

\* A client of the pool: one less waits, one more is lent, and the map has it.
LEMMA LentBooked ==
    ASSUME TypeOK, NEW c \in Calls, NEW p \in Procs, p = procOf[c],
           GetClient(c), Books(p)
    PROVE  Books(p)'
<1>1. p = procOf[c]
  OBVIOUS
<1>2. PICK cl \in Clients \ borrowed[p] :
        /\ borrowed' = [borrowed EXCEPT ![p] = @ \union {cl}]
        /\ queueConnections' = [queueConnections EXCEPT ![p] = cl]
        /\ conn' = [conn EXCEPT ![c] = cl]
  BY <1>1 DEF GetClient
<1>3. /\ procOf' = procOf /\ monitor' = monitor /\ overlaps' = overlaps
      /\ pc[c] = "acquire" /\ pc' = [pc EXCEPT ![c] = "init"]
      /\ borrowed'[p] = borrowed[p] \union {cl} /\ queueConnections'[p] = cl
      /\ conn'[c] = cl /\ \A d \in Calls \ {c} : conn'[d] = conn[d] /\ pc'[d] = pc[d]
  BY <1>1, <1>2 DEF GetClient, Goto, env, monv, TypeOK
<1>4. Fetching(p)' = Fetching(p) \ {c} /\ c \in Fetching(p)
  BY <1>1, <1>3 DEF Fetching, TypeOK
<1>5. IsFiniteSet(Fetching(p)') /\ IsFiniteSet(borrowed'[p]) /\ Spent(p)' = Spent(p)
  <2>1. IsFiniteSet(Fetching(p)) /\ IsFiniteSet(borrowed[p])
    BY <1>1 DEF Books
  <2>2. /\ IsFiniteSet(Fetching(p)') /\ Cardinality(Fetching(p)') = Cardinality(Fetching(p)) - 1
        /\ Cardinality(Fetching(p)) \in Nat
    BY <1>4, <2>1, FS_RemoveElement, FS_CardinalityType
  <2>3. /\ IsFiniteSet(borrowed'[p]) /\ Cardinality(borrowed'[p]) = Cardinality(borrowed[p]) + 1
        /\ Cardinality(borrowed[p]) \in Nat
    <3>1. cl \notin borrowed[p] /\ borrowed'[p] = borrowed[p] \union {cl}
      BY <1>2, <1>3
    <3>2. /\ IsFiniteSet(borrowed[p] \union {cl})
          /\ Cardinality(borrowed[p] \union {cl}) = Cardinality(borrowed[p]) + 1
      BY <2>1, <3>1, FS_AddElement
    <3>3. Cardinality(borrowed[p]) \in Nat
      BY <2>1, FS_CardinalityType
    <3>. QED
      BY ONLY <3>1, <3>2, <3>3
  <2>. QED
    BY <2>2, <2>3 DEF Spent
<1>6. Tight(p) => Tight(p)'
  BY <1>1, <1>2, <1>3, DynamicQueueAssumption DEF Tight, Holding
<1>. QED
  BY <1>1, <1>3, <1>5, <1>6 DEF Books

\* A call that throws while it waits, or later, is one less to wait or to hold a client.
LEMMA ThrowBooked ==
    ASSUME TypeOK, NEW c \in Calls, NEW p \in Procs, p = procOf[c],
           AddThrows(c), Books(p)
    PROVE  Books(p)'
<1>1. p = procOf[c]
  OBVIOUS
<1>2. /\ procOf' = procOf /\ monitor' = monitor /\ overlaps' = overlaps /\ conn' = conn
      /\ borrowed' = borrowed /\ queueConnections' = queueConnections
      /\ pc' = [pc EXCEPT ![c] = "failed"]
  BY DEF AddThrows, Goto, procs, monv
<1>3. Fetching(p)' = Fetching(p) \ {c}
  BY <1>2 DEF Fetching, TypeOK
<1>4. \A d \in Calls : Holding(d)' => Holding(d)
  BY <1>2 DEF Holding, TypeOK
<1>5. CASE c \notin Fetching(p)
  <2>1. Fetching(p)' = Fetching(p)
    BY <1>3, <1>5
  <2>. QED
    BY <1>1, <1>2, <1>4, <2>1, BooksStay
<1>6. CASE c \in Fetching(p)
  <2>1. IsFiniteSet(Fetching(p)) /\ IsFiniteSet(borrowed[p]) /\ Spent(p) <= overlaps[p] + 1
        /\ overlaps[p] \in Nat
    BY <1>1 DEF Books, TypeOK
  <2>2. /\ IsFiniteSet(Fetching(p)') /\ Cardinality(Fetching(p)') = Cardinality(Fetching(p)) - 1
        /\ Cardinality(Fetching(p)) \in Nat /\ Cardinality(borrowed[p]) \in Nat
    BY <1>3, <1>6, <2>1, FS_RemoveElement, FS_CardinalityType
  <2>3. Cardinality(borrowed[p])' = Cardinality(borrowed[p])
    BY <1>2
  <2>4. Spent(p)' = Spent(p) - 1 /\ Spent(p) \in Nat
    BY <2>2, <2>3 DEF Spent
  <2>5. Spent(p)' <= overlaps[p] /\ Spent(p)' \in Int
    BY <2>1, <2>4
  <2>6. Spent(p)' <= overlaps[p] + 1 /\ Spent(p)' # overlaps[p] + 1
    BY <2>1, <2>5
  <2>. QED
    BY <1>1, <1>2, <2>1, <2>2, <2>6 DEF Books
<1>. QED
  BY <1>5, <1>6

\* The monitor takes over the client of its call; the map has it now.
LEMMA MonitorBooked ==
    ASSUME TypeOK, NEW c \in Calls, NEW p \in Procs, p = procOf[c],
           StartMonitor(c), Books(p)
    PROVE  Books(p)'
<1>1. p = procOf[c]
  OBVIOUS
<1>2. /\ procOf' = procOf /\ overlaps' = overlaps /\ conn' = conn /\ borrowed' = borrowed
      /\ queueConnections'[p] = conn[c]
      /\ pc[c] = "lock" /\ pc' = [pc EXCEPT ![c] = "unlock"]
      /\ monitor' = [monitor EXCEPT ![c] = "idle"]
  BY <1>1 DEF StartMonitor, Goto, env, TypeOK
<1>3. Fetching(p)' = Fetching(p)
  BY <1>2 DEF Fetching, TypeOK
<1>4. Holding(c) /\ \A d \in Calls : Holding(d)' => Holding(d)
  BY <1>2 DEF Holding, TypeOK
<1>5. Spent(p)' = Spent(p)
  BY <1>2, <1>3 DEF Spent
<1>6. Tight(p) => Tight(p)'
  <2>. SUFFICES ASSUME Tight(p) PROVE Tight(p)'
    OBVIOUS
  <2>1. conn[c] \in borrowed[p] /\ borrowed[p] \subseteq Clients
    BY <1>1, <1>4 DEF Tight, TypeOK
  <2>2. \A m \in Calls : procOf[m] = p => monitor'[m] # "drop"
    BY <1>2 DEF Tight, TypeOK
  <2>3. queueConnections'[p] # None
    BY <1>2, <2>1, DynamicQueueAssumption
  <2>. QED
    BY <1>2, <1>4, <2>1, <2>2, <2>3 DEF Tight
<1>. QED
  BY <1>1, <1>2, <1>3, <1>5, <1>6 DEF Books

\* The cleanup gives back its client, if it was not given back before: none is short.
LEMMA ReleaseBooked ==
    ASSUME TypeOK, NEW m \in Calls, NEW p \in Procs, p = procOf[m],
           ReleaseClient(m), Books(p)
    PROVE  Books(p)'
<1>1. p = procOf[m]
  OBVIOUS
<1>2. /\ procOf' = procOf /\ overlaps' = overlaps /\ pc' = pc
      /\ borrowed'[p] = borrowed[p] \ {conn[m]} /\ monitor[m] \in {"forget", "release"}
  BY <1>1 DEF ReleaseClient, env, callv, TypeOK
<1>3. Fetching(p)' = Fetching(p)
  BY <1>2 DEF Fetching
<1>4. IsFiniteSet(Fetching(p)) /\ IsFiniteSet(borrowed[p]) /\ Spent(p) <= overlaps[p] + 1
      /\ overlaps[p] \in Nat
  BY <1>1 DEF Books, TypeOK
<1>5. /\ IsFiniteSet(borrowed'[p]) /\ Cardinality(borrowed[p]) \in Nat
      /\ Cardinality(Fetching(p)) \in Nat
      /\ conn[m] \in borrowed[p] => Cardinality(borrowed'[p]) = Cardinality(borrowed[p]) - 1
      /\ conn[m] \notin borrowed[p] => Cardinality(borrowed'[p]) = Cardinality(borrowed[p])
  <2>1. CASE conn[m] \in borrowed[p]
    BY <1>2, <1>4, <2>1, FS_RemoveElement, FS_CardinalityType
  <2>2. CASE conn[m] \notin borrowed[p]
    <3>1. borrowed'[p] = borrowed[p]
      BY <1>2, <2>2
    <3>. QED
      BY <1>4, <2>2, <3>1, FS_CardinalityType
  <2>. QED
    BY <2>1, <2>2
<1>6. Spent(p) = overlaps[p] + 1 => conn[m] \in borrowed[p]
  BY <1>1, <1>2 DEF Books, Tight, Holding
<1>7. Spent(p)' = Cardinality(borrowed'[p]) + Cardinality(Fetching(p))
  BY <1>3 DEF Spent
<1>8. Spent(p)' <= overlaps[p] + 1 /\ Spent(p)' # overlaps[p] + 1
  <2>1. Spent(p) = Cardinality(borrowed[p]) + Cardinality(Fetching(p))
    BY DEF Spent
  <2>2. CASE conn[m] \in borrowed[p]
    BY <1>4, <1>5, <1>7, <2>1, <2>2
  <2>3. CASE conn[m] \notin borrowed[p]
    BY <1>4, <1>5, <1>6, <1>7, <2>1, <2>3
  <2>. QED
    BY <2>2, <2>3
<1>. QED
  BY <1>1, <1>2, <1>3, <1>4, <1>5, <1>8 DEF Books

\* The map forgets a client only when there is one to spare.
LEMMA DropBooked ==
    ASSUME TypeOK, NEW m \in Calls, NEW p \in Procs, p = procOf[m],
           DropConnection(m), Books(p)
    PROVE  Books(p)'
<1>1. p = procOf[m]
  OBVIOUS
<1>2. /\ procOf' = procOf /\ overlaps' = overlaps /\ pc' = pc /\ borrowed' = borrowed
      /\ monitor[m] = "drop"
  BY DEF DropConnection, env, callv
<1>3. Fetching(p)' = Fetching(p)
  BY <1>2 DEF Fetching
<1>4. Spent(p)' = Spent(p)
  BY <1>2, <1>3 DEF Spent
<1>5. ~Tight(p)
  BY <1>1, <1>2 DEF Tight
<1>. QED
  BY <1>1, <1>2, <1>3, <1>4, <1>5 DEF Books

\* Every step keeps the books of every process.
LEMMA BooksStep ==
    ASSUME TypeOK, [Next]_vars, NEW p \in Procs, Books(p)
    PROVE  Books(p)'
<1>. USE DEF redis, procs, callv, monv, cronv, env, Goto, MGoto
<1>1. ASSUME NEW c \in Calls, procOf[c] # p,
             \/ StartAdd(c) \/ GetClient(c) \/ StartMonitor(c)
             \/ AddThrows(c) \/ ReleaseClient(c) \/ DropConnection(c)
      PROVE  Books(p)'
  <2>1. /\ procOf' = procOf /\ borrowed'[p] = borrowed[p]
        /\ queueConnections'[p] = queueConnections[p] /\ overlaps'[p] = overlaps[p]
    BY <1>1 DEF TypeOK, StartAdd, GetClient, StartMonitor, AddThrows, ReleaseClient,
                DropConnection
  <2>2. \A d \in Calls \ {c} : pc'[d] = pc[d] /\ monitor'[d] = monitor[d] /\ conn'[d] = conn[d]
    BY <1>1 DEF TypeOK, StartAdd, GetClient, StartMonitor, AddThrows, ReleaseClient,
                DropConnection
  <2>3. Fetching(p)' = Fetching(p)
    BY <1>1, <2>1, <2>2 DEF Fetching
  <2>4. /\ \A d \in Calls : procOf[d] = p /\ Holding(d)' => Holding(d) /\ conn'[d] = conn[d]
        /\ \A d \in Calls : procOf[d] = p /\ monitor'[d] = "drop" => monitor[d] = "drop"
    BY <1>1, <2>2 DEF Holding
  <2>. QED
    BY <2>1, <2>3, <2>4, BooksStay
<1>2. ASSUME NEW c \in Calls, procOf[c] = p, StartAdd(c)
      PROVE  Books(p)'
  <2>1. CASE queueConnections[p] = None
    BY <1>2, <2>1, FetchBooked DEF StartAdd
  <2>2. CASE queueConnections[p] # None
    <3>1. /\ procOf' = procOf /\ overlaps' = overlaps /\ borrowed' = borrowed
          /\ queueConnections' = queueConnections /\ monitor' = monitor
          /\ pc[c] = "idle" /\ pc' = [pc EXCEPT ![c] = "init"]
          /\ conn' = [conn EXCEPT ![c] = queueConnections[p]]
      BY <1>2, <2>2 DEF StartAdd
    <3>2. Fetching(p)' = Fetching(p)
      BY <3>1 DEF Fetching, TypeOK
    <3>3. Spent(p)' = Spent(p)
      BY <3>1, <3>2 DEF Spent
    <3>4. Tight(p) => Tight(p)'
      <4>. SUFFICES ASSUME Tight(p) PROVE Tight(p)'
        OBVIOUS
      <4>1. conn'[c] \in borrowed[p]
        BY <2>2, <3>1 DEF Tight, TypeOK
      <4>2. \A d \in Calls : procOf[d] = p /\ Holding(d)' => conn'[d] \in borrowed[p]
        BY <3>1, <4>1 DEF Tight, Holding, TypeOK
      <4>. QED
        BY <3>1, <3>2, <4>2 DEF Tight
    <3>. QED
      BY <3>1, <3>2, <3>3, <3>4 DEF Books
  <2>. QED
    BY <2>1, <2>2
<1>3. ASSUME NEW c \in Calls, procOf[c] = p,
             \/ GetClient(c) \/ StartMonitor(c)
             \/ AddThrows(c) \/ ReleaseClient(c) \/ DropConnection(c)
      PROVE  Books(p)'
  <2>1. procOf' = procOf
    BY <1>3 DEF GetClient, StartMonitor, AddThrows, ReleaseClient, DropConnection
  <2>. QED
    BY <1>3, LentBooked, MonitorBooked, ThrowBooked, ReleaseBooked, DropBooked
<1>4. ASSUME UNCHANGED <<conn, borrowed, queueConnections, procOf, overlaps>>,
             \A c \in Calls :
               /\ pc'[c] = "acquire" <=> pc[c] = "acquire"
               /\ Holding(c)' => Holding(c)
               /\ monitor'[c] = "drop" => monitor[c] = "drop"
      PROVE  Books(p)'
  <2>1. Fetching(p)' = Fetching(p)
    BY <1>4 DEF Fetching
  <2>. QED
    BY <1>4, <2>1, BooksStay
<1>. QED
  BY <1>1, <1>2, <1>3, <1>4, ClientSteps

\* By the books no more clients are lost than there were overlaps.
LEMMA BooksKeepClients ==
    ASSUME TypeOK, NEW p \in Procs, Books(p)
    PROVE  Cardinality(Lost(p)) <= overlaps[p]
<1>1. /\ IsFiniteSet(borrowed[p]) /\ IsFiniteSet(Fetching(p)) /\ Spent(p) <= overlaps[p] + 1
      /\ overlaps[p] \in Nat
  BY DEF Books, TypeOK
<1>2. /\ Cardinality(borrowed[p]) \in Nat /\ Cardinality(Fetching(p)) \in Nat
      /\ Spent(p) = Cardinality(borrowed[p]) + Cardinality(Fetching(p))
  BY <1>1, FS_CardinalityType DEF Spent
<1>3. Lost(p) \subseteq borrowed[p]
  BY DEF Lost
<1>4. IsFiniteSet(Lost(p)) /\ Cardinality(Lost(p)) <= Cardinality(borrowed[p])
      /\ Cardinality(Lost(p)) \in Nat
  BY <1>1, <1>3, FS_Subset, FS_CardinalityType
<1>5. CASE Cardinality(borrowed[p]) <= overlaps[p]
  BY <1>1, <1>2, <1>4, <1>5
<1>6. CASE ~(Cardinality(borrowed[p]) <= overlaps[p])
  <2>1. Spent(p) = overlaps[p] + 1 /\ Cardinality(Fetching(p)) = 0
    BY <1>1, <1>2, <1>6
  <2>2. Fetching(p) = {}
    BY <1>1, <2>1, FS_EmptySet
  <2>3. queueConnections[p] \in borrowed[p]
    BY <2>1, <2>2 DEF Books, Tight
  <2>4. Lost(p) \subseteq borrowed[p] \ {queueConnections[p]}
    BY DEF Lost, Kept
  <2>5. /\ IsFiniteSet(borrowed[p] \ {queueConnections[p]})
        /\ Cardinality(borrowed[p] \ {queueConnections[p]}) = Cardinality(borrowed[p]) - 1
    BY <1>1, <2>3, FS_RemoveElement
  <2>6. Cardinality(Lost(p)) <= Cardinality(borrowed[p]) - 1
    BY <2>4, <2>5, FS_Subset
  <2>. QED
    BY <1>1, <1>2, <1>4, <2>1, <2>6
<1>. QED
  BY <1>5, <1>6

\* Whatever throws, a lent client is lost only where a call fetched one while another
\* call or a cleanup was about to write the map, and one at most each time.
THEOREM ClientsAlwaysKept == Spec => []ClientsKept
<1>. DEFINE AllBooks == \A p \in Procs : Books(p)
<1>1. Init => AllBooks
  <2>. SUFFICES ASSUME Init, NEW p \in Procs PROVE Books(p)
    OBVIOUS
  <2>1. borrowed[p] = {} /\ Fetching(p) = {} /\ overlaps[p] = 0
    BY DEF Init, Fetching
  <2>2. IsFiniteSet(borrowed[p]) /\ IsFiniteSet(Fetching(p)) /\ Spent(p) = 0
    BY <2>1, FS_EmptySet DEF Spent
  <2>. QED
    BY <2>1, <2>2 DEF Books
<1>2. TypeOK /\ AllBooks /\ [Next]_vars => AllBooks'
  BY BooksStep
<1>3. TypeOK /\ AllBooks => ClientsKept
  BY BooksKeepClients DEF ClientsKept
<1>. QED
  BY <1>1, <1>2, <1>3, QueueTypeCorrect, PTL DEF Spec
===============================================================================
