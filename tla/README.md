# Verification project of startup-api

TLA+ models of the parts of this server in which several processes, handlers or
requests share state, the TLC runs that check them on small instances, and
machine-checked proofs (TLAPS) of the properties that matter most. In paths the
first `src/` is the root of the repository; `providers/` (left out in the table)
stands for `src/src/providers/`, `useCases/` for
`src/src/useCases/ModuleSystem/user/`.

How to run, inside this directory:

    tlc -workers 2 -config Locks.cfg MCLocks
    tlapm LocksProofs.tla

`PROJECT.json` maps each definition to the lines it models and lists runs,
mutants (a plausible bug for every property, which TLC must find), findings,
hazards and theorems.

## 1. Inventory

The server runs as several Node processes (pm2 instances, and nodes of a docker
swarm). A process is single-threaded and interleaves its handlers at every
`await`; processes share Redis, the database (MongoDB, Postgres or Firestore)
and RabbitMQ. Everything below that is hard comes from those two facts.

| Component | State | Operations | Hard behaviour | What makes it correct |
|---|---|---|---|---|
| Locks (`locks/Locker.ts`, `database/InMemoryHashTable.ts`) | the Redis hash `locks` | lock (HSETNX), unlock (HDEL), clear (DEL) | no owner, no expiry, cleared by every boot | used by the next three |
| Cron scheduler and boot (`cronjobs/`, `server/ServerBootstrap.ts`, `src/src/server.ts`) | boot phase, runs in progress | uniqueSchedule, boot, clear of locks, shutdown | boots of one process against runs of another, crashes, failed unlocks | a job runs once at a time; none is shut out for good |
| Socket event locks (`sockets/SocketAuthLock.ts`, `SocketAuth.ts`) | the same hash | performLockedEvent, authCharacterOn | early return inside `try`, failing lock command, crash | one callback per event and character |
| Dynamic queues (`queue/DynamicQueue.ts`, `DynamicQueueCleaner.ts`, `QueueActivityMonitor.ts`) | maps of queues, workers, connections; in Redis jobs, pause flag, activity hash | addJob, worker, monitor tick, cleanup, inactivity cron | map read before an await and written after it, cleanup against addJob, several processes | one worker, no cleanup under a running job, no job or client lost |
| Queue names and scaling (`EntityQueueScalingCalculator.ts`, `DynamicQueue.generate*`) | counts in Redis, live workers | name of a queue, concurrency of a worker | off by one, counts that change under a live worker | few queues, earned concurrency |
| Redis manager and pool (`database/RedisManager.ts`, `RedisManager/`) | shared client, pool of 31 | connect, lend, release | release by whoever, exhaustion, concurrent connects | a client has one borrower and goes back |
| Bull board (`queue/BullBoardMonitor.ts`) | its queues and client | periodic refresh | timer set only after success | shows the queues there are |
| Redis streams (`redis/RedisStreams.ts`) | streams, groups, writer and reader, reconnects | add, read, ack, trim, reconnect, shutdown | retries that add again, crash between handling and ack, overlapping reconnects | each entry handled at most once, lost only to a fault |
| Redis pub/sub (`redis/RedisPubSub.ts`) | keys with expiry | publish, subscribe | the same message in every process | handled once within the expiry |
| RabbitMQ and broker (`rabbitmq/RabbitMQ.ts`, `microservice/`) | connection, channels, consumers, unacked batch | connect, publish, consume, flush, reconnect | overlapping connects, batched acks over lost channels | one connection, no message lost |
| Socket sessions (`sockets/SocketAdapter.ts`, `SocketSessionControl.ts`, `SocketEventsBinderControl.ts`) | channel of a character, session hash, handlers | connect, take over, disconnect | a new connection against the old one's disconnect | the session belongs to the latest connection |
| Refresh tokens and passwords (`auth/`, `useCases/login` ... `forgotPassword`) | token list and password of a user | login, logout, refresh, rotate, change, forgot | the document is read, awaited over, and whole fields are written back | an ended session stays ended, a login lasts, the account stays reachable |
| Sign-up, OAuth, premium accounts (`useCases/signup`, `appleOAuth`, `googleOAuth*`, `premiumAccount/`) | users | sign up, log in, unsubscribe, (de)activate | look, await, write | one account per address, a login is to one's own |
| Repositories (`database/repository/`) | documents | create, find, update, delete | check-then-act, adapters that differ | the same contract for every adapter |
| User preferences (`UserPreferenceController`, its repository) | one record per user | create, update, delete | the same, and delete against update | one record, the owner's |
| E-mail (`src/emails/TransactionalEmail.ts`) | log of the day | send | count before, log after | credits, order of the providers |
| Results poller (`poller/ResultsPoller.ts`) | a hash | leave a result, poll | timeout against a late result | one's own result, once |
| Prisma check (`src/scripts/check-prisma-changes.js`), module builder (`src/environment/modules/module-builder.js`) | hash, client, database; a compose file | check and generate; compose | failure half-way; sections removed and kept | a server of its schema; a file without dangling names |

Interactions. `server.ts` connects the stores, starts the crons, then runs the
one-time operations, which clear locks, sessions, polled results and activity
marks that *other* processes rely on. The crons, the event guards and the queue
monitors all use `Locker`, so all share one hash. Streams, board, queues and
manager borrow from one pool of clients. Login, logout, refresh and the two
password use cases write one user document without a version check; sign-up,
OAuth and preferences rely on look-then-create in `BaseRepository`.

## 2. Modules

An arrow of composition is an EXTENDS or INSTANCE; each `MC*` module gives the
constants of a run.

| Component module | Uses | Abstract specification | Proofs | Run |
|---|---|---|---|---|
| `UniqueSchedule`, `EventLock` | `Locker` | `RunPermits` | `LocksProofs` | `locks`, `single_instance` |
| `DynamicQueue` | `Locker` | `JobQueue` | `DynamicQueueProofs` | `dynamic_queue`, `dynamic_queue_live`, `dynamic_queue_clients` |
| `RefreshTokens` | - | - | `RefreshTokensProofs` | `refresh_tokens`, `refresh_tokens_race` |
| `SocketSession` | - | - | `SocketSessionProofs` | `socket_session`, `socket_devices` |
| `RedisStreams` | - | `StreamDelivery` | `RedisStreamsProofs` | `redis` |
| `RedisClients` | - | - | `RedisClientsProofs` | `redis` |
| `RabbitConnection`, `RabbitDelivery` | - | - | `RabbitProofs` | `rabbit` |
| `Accounts`, `UserPreferences` | `Repository` | - | `ServicesProofs` | `services` |
| `TransactionalEmail`, `ResultsPoller`, `RedisPubSub`, `QueueScaling`, `PrismaSetup`, `ModuleBuilder` | - | - | `ServicesProofs` | `services` |

`MCLocks`, `MCRedis`, `MCRabbit` and `MCServices` put components side by side
that read nothing of one another: a behaviour chooses one (`focus`) and follows
it, so each is explored in full and their states are added, not multiplied. Cron
jobs and events do share the hash of locks, but never a field of it.

### Locker

The variable `locks` is the set of fields of the hash. `Lock`, `LockDenied`,
`Unlock`, `Clear` are one Redis command each; composing modules conjoin them to
the rest of an action. `hasLock` has no caller and `ttlSeconds` is never passed.

### UniqueSchedule, RunPermits

One process per node schedules crons. `Boot` is `server.ts` up to
`cronJobs.start()`; `BootClear` is the end of `execOneTimeOperations`, later, so
in between (`phase = "booting"`) crons already fire. A run of a job goes `idle`
-> `task` (`Fire`, lock taken) -> `finally` (`Finish`) -> `idle` (`Release` or
`UnlockFails`); `Denied` is the early return before the `try`. `Crash` covers a
dead process and the SIGTERM handler, which releases no lock. History: `wiped`
counts the clears that removed a set key, `lost` holds keys whose unlock failed.

`RunPermits` is the abstract specification: a counting semaphore per job whose
permits only grow. `UniqueSchedule` implements it with one permit plus one for
each clear that removed the held key.

### EventLock

A call goes `idle` -> `callback` (`Acquire`) -> `finally` (`CallbackDone`) ->
`idle` (`ReleaseEvent`), or `idle` -> `denied` (`Deny`, `LockThrows`) -> `idle`:
the same `ReleaseEvent`, because the denied call's `return` is inside the `try`.
`stray` counts releases of a set key by somebody who did not have it, boots
included.

### DynamicQueue, JobQueue

One queue name, several processes. Each action is the code between two awaits:

- addJob: `StartAdd`, `GetClient` (pool), `InitQueue`, `StartMonitor` or
  `NoMonitor`, `UnlockMonitor`, `CheckWorker`, `CreateWorker`, `Enqueue`, and
  `AddThrows`, the rejection of any of these awaits: what the call has put in the
  maps by then stays, a `Queue` without a monitor or a worker included;
- worker (BullMQ, as the code uses it): `TakeJob`, `MarkActivity`, `FinishJob`;
- monitor: `TickHas`, `TickDecide`, `TickThrows`, then the cleanup `BeginClose`,
  `CloseDone`, `Pause`, `Obliterate`, `CleanupThrows` (`worker.close` itself or
  any call after it; the outer `finally` still releases the client),
  `ReleaseClient`, `DropConnection`, `EndMonitor` or `EndMonitorThrows`;
- the rest: `Age` (60 s without a mark), `CronCheck` and `CronDelete`
  (`closeInactiveQueues`), `BootClear` (`clearSomeQueues`).

A call names its job and, if it set one up, its monitor. History: `overlaps`
counts, for each process, the fetches of a client that began while another call
or a cleanup was about to write the map's entry. Left out: queue names
(one is modelled here, the choice of names is `QueueScaling`), `clearAllJobs`
and `shutdown` (no caller), the continuation of a job function that has timed
out, crashes. Timing taken as given: a monitor does not tick before the addJob
that set it up has returned, and a tick ends before the next one (30 s) begins.

`JobQueue` is the abstract specification, in which queues, workers, monitors,
clients and locks do not occur: a job is added, runs once, in one process, and
what waits or runs may be wiped by a process that runs nothing. `Enqueue` is its
`Add`, `TakeJob` its `Start`, `FinishJob` its `Finish`, `Obliterate` its `Wipe`.

### RefreshTokens

One user, several requests. `Begin` reads the document (`seen`), later actions
write whole fields computed from it, as `updateBy` does: `Sign` and `AddToken`
for a login, plus `RemoveToken` for `UserAuth.refreshToken` (`rotate`, reachable
by no controller), `Logout`, `Refresh`, `Invalidate` and `ChangePassword`,
`ResetPlain`, `Reread`, `ResetHash`, `Mail` or `MailLost` for forgot password,
`Refuse` for the early errors, `Crash`. Forgot password goes on with the user
that `updateById` returns, and hashes *its* password: one atomic command under
Mongoose and Prisma, but under Firebase (`db`) a read of its own, `Reread`, which
may return what another request wrote. A refresh token is the second it was
signed in, because the JWT holds nothing else that differs and has no expiry;
hence two logins of one second share a token. Bcrypt is abstracted to how often
a secret was hashed. History: `beside` says which requests were in flight
together, `known` which passwords the user chose or was sent, `unsent` whose mail
was lost, `ended` and `late` which tokens were ended, and when.

### SocketSession

The session of one character, whose devices connect to several processes. The
database's `user.channel` is `channel`, the field of the hash `socket-sessions`
is `session`, the hash `channel-bound-events` is `bound`; `listening` and
`hooked` are the sockets with event listeners and with the disconnect handler.
The handler of a connection takes one action per call on Redis or the database:
`Connect`, `HasSession`, then, if there is a session, `FindPrevious` (read the
channel, tell it to disconnect, strip it if its socket is in this process),
`Unbind`, `UnsetBound`, `DeleteSession`; then `Update`, `SetSession`, `Bind`,
`SetBound`. `Fails` is the inner `catch`, which lets the take-over go on, and the
outer one, which closes the socket. `Drop` is a socket closing, after which a
hooked one runs `ClearChannel` and `EndSession` (or `DisconnectFails`), whoever
owns the character by then. `Crash` ends a process with its sockets, `BootClear`
is `clearAllSessions` of the boot that follows. History: `told` holds who told
whom to go, `last` is the connection that began last, `orderly` says that no two
handlers overlapped and no boot cleared a session, `stray` holds the connections
that listen although the code has lost sight of them: one of another process
when it is taken over, and whoever listens when a stray one closes. Left out:
the UDP adapter (geckos), emit operations, which change no state, connections
without a character.

### RedisStreams, StreamDelivery

One stream and its consumer group. Entries are numbered as they are added; `log`
holds their messages, `alive` those not trimmed, `cursor` the last one handed to
the group, `pending` the delivered and unacknowledged. `AddToStream` is a caller
that does not wait; `Added` is an XADD that was answered, `Resent` one that took
effect unanswered and that the client sends again
(`autoResendUnfulfilledCommands`), `Refused` a rejected one, which may have
taken effect as well (`unanswered` counts both) and of which the first starts
`maxRetries` chains at once. A reader goes `off` -> `loop` (`Boot`) -> `blocked`
(`XReadGroup`) -> `batch` (`Deliver`) and back by `Ack`; `Start` and `Handled`
or `Failed` are the bounded callbacks, `NoGroup` the group created again from
"0", `NoGroupFails` that creation refused, which leaves `readFromStream` for
good (`ended`), `ReadError` and `Reconnect` the error path, `Shutdown` and
`EndLoop` the orderly end, `Crash` the other one. `Trim` and `DeleteStream` are
XTRIM and DEL. What a failing XREADGROUP took is pending and with no reader:
nothing reads anything but ">".

`StreamDelivery` is the abstract specification: an entry is unborn, queued,
taken, handled or lost, moves forward only, and is lost only in a step that
counts a fault. The refinement mapping is `Fate`.

### RedisClients

The pool of one process with its lasting borrowers. `Connect`, `Connected`,
`ConnectFails` are `RedisManager.connect` over `RedisIOClient.connect`; a chain
`delay` -> `releaseReader` -> `getWriter` -> `getReader` is one
`scheduleReconnect` with `connectToRedis`, of which every `ErrorEvent` starts
another; `GetAllQueues`, `BoardAcquire`, `BoardRelease`, `BoardFails` are a
refresh of the board and its timer. `Release(x)` asks only whether x is borrowed,
as `releasePoolClient` does. `calm` is the history "no two reconnects overlapped
and none failed half-way". The pool lends the first idle client: clients are
alike, and a client that was just given back is lent again at once.

### RabbitConnection, RabbitDelivery

`RabbitConnection` has the life of the connection. Three tasks connect: the
constructor, `MessagingBroker.initialize`, the loop of `handleReconnection`; each
goes `check` -> `dial` -> `channel` -> `consumer` -> `consume` -> `done`, writes
the shared fields between awaits, and retries. `ConnectionCloses` closes what is
on the connection and, if it has the handlers, cleans up and calls
`handleReconnection`; `ChannelCloses` sets the consumer up again;
`PublishChannelCloses` is answered by nobody. What a message sees of all this is
only that channels close and come back: that is `RabbitDelivery`. `Publish` is
`true` from a channel without confirms: the copy is `outgoing`, no more.
`PublishFull` is written, reported as refused and sent again. `Arrives` brings a
copy to the queue, or drops it when no queue was bound yet (`epoch = 0`),
`OutgoingLost` loses what was buffered: both end in `lost`, and nobody is told.
Then `BrokerDelivers` under the prefetch limit, `Receive` with the buffer and its
timer, `Flush` (`ack(last, allUpTo)`), `CallbackFails` (nack, and the message
stays in the buffer), `Settle` (an unknown tag makes the broker close the
channel), `ChannelLost`, `Crash` (`died` holds the copies whose callback ran).

### Repository, Accounts, UserPreferences

`Repository` is the pure part: what `findBy`, `exists`, `create`, `updateBy`,
`updateById` and `delete` do to a table under each adapter, differences
included (Prisma's `contains` for a string with "_", Firebase's first key only,
Prisma's unique index, what an update does to a missing record). `Accounts` runs
concurrent requests over it, an action per await: `SignUp`, `AppleOAuth`,
`GoogleOAuth`, `Sync`, `CreateLooks`, `Create`, `UpdateUnsubscribed`,
`UpdatePremium`. `UserPreferences` has create, update and delete of one table,
with Firebase's update in two steps. The controller hands the raw body of an
update to `updateBy`: `body` is the user it names, if any, `Changes` what is
written then, `Writable` that Prisma's unique index may refuse it; `Given`
collects the users that were given a record so. Of the keys a body may have, the
theme and the user are modelled, others (`id`, unknown fields) are not. Which
database it is is chosen in `Init`.

### The small components

`TransactionalEmail`: `CountLogs`, `FindUser`, `Submit`, `CreateLog` lie an await
apart and other senders in between. `ResultsPoller`: the field of one key, the
gets of a poll, the `finally` that deletes. `RedisPubSub`: hand-out to every
subscriber, `Claim` (SET NX EX), `Expire`. `QueueScaling`: `generateQueueName`
with the count at that time, `InitOrFetchWorker` with the count later, `Track`.
`ModuleBuilder`: one build, in the order of the code. `PrismaSetup`: `Start`
(hash compared), `Generate`, `Migrate`, `saveHash`, with edits, failures and
restarts in between.

## 3. Runs

| Run | Instance | Shows |
|---|---|---|
| `locks` | crons: 2 nodes, 2 jobs, 4 run slots, 2 faults; events: 2 processes, 3 calls of one event, 1 of another, 2 crashes, 3 stray releases | runs of a job overlap by at most the boots that cleared its held key (`OverlapBound`); refinement of `RunPermits`; no job is shut out for good (`CronsRunAgain`); callbacks overlap by at most the stray releases; a lock orphaned by a crash is freed if calls keep coming (`AttemptsHeal`) |
| `single_instance` | the same crons, no faults | finding: a job runs on two nodes |
| `dynamic_queue` | 1 process, 3 calls, 3 clients, the cron, 1 throwing call | `OneWorker`, `QuietCleanup`, `ClientsKept` (a client is lost only where a fetch overlapped something), `StartedJobKept` |
| `dynamic_queue_live` | 2 calls, in one process or two, 1 boot, 1 throwing call, fairness | `MonitorEnds`, `AcceptedJobSettles`; refinement of `JobQueue` (`JobsAsPromised`) |
| `dynamic_queue_clients` | 2 calls, in one process or two, no faults | finding: overlapping first calls leave a client unreleased |
| `refresh_tokens` | 4 requests of all kinds in every overlap, 2 seconds, 1 fault, an atomic and a two-step database | ended sessions stay ended, logins last, a change revokes and an ended token is refused, each but for what a request that overlapped writes back; the account stays reachable but for resets of Firebase that read one another |
| `refresh_tokens_race` | 3 requests, no faults | finding: a login that overlaps a password change survives it |
| `socket_session` | 3 connections to 2 processes, 1 fault | `ToldIsOut` however handlers overlap; with handlers one at a time, `LatestOwns` and `NoGhost` |
| `socket_devices` | the same, no faults | finding: a device that was told it is disconnected goes on listening |
| `redis` | one message with 3 refused or unanswered XADDs; or 2 messages, 2 readers, 2 entries, 2 faults (3 when a read loop has ended); or 4 clients, 2 reconnects at once, 2 connects, 1 failed command, with an error event or a queue that comes and goes | `GroupHolds` (one taker, bounded callbacks and copies); refinement of `StreamDelivery`; `DroppedFromPending`; sent messages are added and entries settled (`Settles`); `PoolHolds` while reconnects are calm; `StreamsRecover` and `BoardFollows` whatever happens |
| `rabbit` | 4 connections, 3 channels, 2 attempts, 2 faults; 2 messages, batches of 2, 2 faults | `ConnectionHolds`, `ConnectionRecovers`; `DeliveryHolds`, `AllLeave` |
| `services` | 3 requests of any kind, 4 addresses (two spellings of one, one containing another), 3 databases; 3 preference clients of 2 users; 2 senders, 2 providers, 3 days; 2 subscribers of 2 messages; 4 polled requests; 6 modules on or off, their files there or not; 2 processors; 3 schemas | for accounts `AccountsHold`, `GrantsAreOwn`, `FlagsAreAsked`, for each other component one property: `PreferencesHold`, `MailHolds`, `OneAnswers`, `ComposeFits`, `ScalingHolds`, `SchemaHolds` |

Why the bounds are enough. Overlap on a lock needs one holder, one call that
steals and one that enters: three calls, two of them in different processes.
Three addJob calls are the one that set the queue up, one in the middle of its
awaits during the cleanup, and one that comes after; two processes are enough to
share a queue in Redis. Four requests are two logins, one that ends them, and
one that races it; two seconds distinguish a token of the same second from a
later one. Mongoose and Prisma update atomically and differ in nothing these
requests see, so one of them stands for both. Three connections are one to be
taken over, its successor, and one that comes after or in between, one of them
in another process. One message meets every combination of refused, applied and
repeated XADDs, up to one copy more than `MaxRetries`; two readers and two
entries let a batch of one reader meet a batch of the other, two faults let the
group vanish under a lost reply or a crash, the third ends a read loop
meanwhile. Four clients are the main one, the streams' two and one that the
board and a second reconnect fight for: the pool's limit is reached. Two
messages fill a batch of two and leave a tail in a batch of one; two faults lose
a channel and nack on its successor. Three requests are two that race and one
they race with. Three days let a sender count on the first, submit on the second
and log on the third. Where there are two faults, a crash may follow a crash.
Counters of history saturate or are bounded by the faults; every bound is a
CONSTANT named in its module. `CHECK_DEADLOCK FALSE` is said where the system
may stop: all calls or requests of the instance have been made, or (in `redis`)
the pool is exhausted.

Properties that hold under a condition say which, and the condition is the
hazard. `EndedStaysEnded`, `LoginsLast`, `PasswordChangeRevokes` and
`EndedTokensRefused` name the one request that may break the rule: a login or
rotation that had read the list before and overlapped the very request in
question. `AccountReachable` excepts resets of Firebase that overlapped a reset
or a change, lost mails and crashes. `LatestOwns` and `NoGhost` speak of
handlers that run one at a time, for two devices that connect within the same
few awaits both end up listening, and a socket that closes before its disconnect
handler is installed leaves its session behind; `LatestOwns` excepts strays.
`PoolHolds` and part of `ConnectionHolds` speak of calm times, since overlapping
reconnects and connects leak a client or a connection; `OneAccountAnAddress` and
`OnePreferenceAUser` except two requests that both looked before either created,
the latter also a record given away by an update; `Settles` expects an entry to
be settled only as long as some process still has a read loop.

Fairness. Weak fairness of the steps a process takes by itself once the thing
it awaits has answered: tasks and callbacks settle, `finally` blocks run, pm2
restarts a dead process, Redis, RabbitMQ and BullMQ answer, timers fire, a job
settles because of its 7.5 s timeout, the activity mark ages. In
`UniqueSchedule` a job's cron ticks every minute in every process, so *some*
process takes a key that stays free. Strong fairness only for a waiting
`pool.acquire` in `RedisClients`: the pool serves its queue first come, first
served, so who waits gets a client that is free again and again. In
`RedisStreams` a reader as a whole is fair (one loop), not each of its steps.
In `RabbitDelivery` the end of a callback is *not* assumed: acknowledgement does
not wait for it. Nobody is obliged to call addJob, to send an event or a
message, to boot a live process, to fail or to crash.

## 4. Findings

Four lines of the repository promise what the code does not keep. Each has a run
that shows the violation, and beside it a property of a passing run and a theorem
that say what does hold.

- `cronjobs/CronJobScheduler.ts:12`: a unique job "will only run in a single
  instance or node". The last one-time operation of every boot clears the locks
  of all nodes (`server/ServerBootstrap.ts:119`), after its own crons have
  started (`src/src/server.ts:101`), so a job runs on two nodes with no crash and
  no failing command. Run `single_instance`; what holds is `OverlapBound`.
- `queue/DynamicQueueCleaner.ts:19`: it is "important to release" clients "when
  they're no longer needed". `getQueueConnection` (`DynamicQueue.ts:198`) reads
  the map before the await of the pool and writes it after, so of overlapping
  first calls all but one client are never released. Run `dynamic_queue_clients`;
  what holds is `ClientsKept`.
- `useCases/changePassword/ChangePasswordUseCase.ts:53`: "Invalidate all refresh
  tokens when password is changed". A login with the old password that overlaps
  the change leaves its token valid (`auth/AuthRefreshToken.ts:18`): the token
  list is written back from the copy the login read before its bcrypt compare.
  Run `refresh_tokens_race`; what holds is `PasswordChangeRevokes`.
- `sockets/SocketAdapter.ts:130`: the old device is told "You have been
  disconnected because you logged in from another device!" before the code looks
  whether it can disconnect it. `getChannelById` (line 133) finds sockets of its
  own process, and there are as many processes as cores (`src/pm2.json:9`): a
  device of another process goes on listening. Run `socket_devices`; what holds
  are `ToldIsOut` and, with strays excepted, `LatestOwns`.

## 5. Known limits of the code, as modelled

Behaviours the models contain and the properties except or bound, beside the
findings above. Most are hazards in `PROJECT.json`.

Locks, crons, queues
- A boot clears not only the locks of running processes but also their sessions,
  results and activity marks (`ServerBootstrap.ts`).
- A denied event releases the lock of the running one (`SocketAuthLock.ts:26`);
  the same `finally` block is also what frees a lock orphaned by a crash.
- An `addJob` that fails after it has put the `Queue` in the map
  (`DynamicQueue.ts:90`) leaves it without a worker: later calls find it, return
  early and add to it, until its monitor removes it, and for good if it has none
  either. A process denied the monitor's lock keeps its client, queue and worker
  for good (`DynamicQueueCleaner.ts:29`); one that dies between lock and unlock
  of that key leaves the queue without a monitor everywhere.
- Between `releasePoolClient` and `queueConnections.delete`
  (`DynamicQueueCleaner.ts:110`) an addJob still finds the released client.
- A job function that times out keeps running (`DynamicQueue.ts:163`).
- `random(0, scaleFactor)` yields one queue more than the factor; the limiter
  of a worker is computed but used only as a metric; a live worker keeps the
  concurrency it was created with.
- `InMemoryHashTable.expire` would expire the whole hash `locks`; nobody passes
  a time to live. The hash `channel-bound-events` only grows.

Sessions, tokens and passwords
- The stray connection of a finding (`SocketAdapter.ts:133`), when it closes,
  ends the session of its successor: `handleDisconnect` asks nothing.
- Two connections that overlap both end up listening; a socket that closes
  before its disconnect handler is installed leaves its session behind.
- A login or rotation writes back a list of tokens it read awaits ago: it loses
  the token of a login that overlapped it and revives what a logout ended
  meanwhile. Two logins of one second share a token.
- `UserAuth.refreshToken` removes the token it has just added
  (`UserAuth.ts:72`). It is reached by no controller: the rotation that
  `src/docs/docs/systems/auth/authentication.md` (lines 40-61 and 169) describes
  does not take place, as `RefreshUseCase` only signs an access token.
- Under Firebase a reset hashes what it reads an await after its own write
  (`FirebaseRepository.ts:116`); overlapping resets, or a reset and a change, may
  leave a password nobody knows. So does a reset that dies before its mail.

Redis
- Error handlers are attached again by every connect of the streams, so an
  error may start several reconnects; overlapping ones leak a client, and a
  second release takes a client back that was lent to somebody else. A second
  `connect` during the first one's SETNAME answers with a null client.
- The board gives its client back while the queues it made keep it; its timer
  dies with a refresh that throws. `idleTimeoutMillis` of the pool has no effect,
  as no interval for evictions is set: an idle client stays.
- A stream's entry whose callback failed, or whose reader died, stays pending
  for good; a refused XADD is retried by three chains that do not know of one
  another, and it may have been applied, or be sent again by the client
  (`RedisIOClient.ts:106`), so that a message is in the stream several times.
- An `XGROUP CREATE` refused in the `catch` of the read loop
  (`RedisStreams.ts:305`) ends that loop for good, and the process goes on.
- `RedisPubSub` hands a message to one process only, by its key; no code
  subscribes yet. `shutdown` unsubscribes and closes the broker, nothing else.
  Unhandled rejections are only logged in production.

RabbitMQ
- Messages are published on a channel without confirms (`RabbitMQ.ts:300`):
  `true` means buffered. What is lost with a closing connection, or published
  before a queue is bound to the exchange, is reported as sent.
- A loss of the connection while a connect is under way is swallowed by the
  flag; overlapping connects leave a connection nobody listens to; after giving
  up, `currentRetries` stays at its maximum; a closed publish channel is never
  repaired; `listenForMessages` gives up after its attempts; `close` triggers
  the reconnect handlers.
- A timer bound to a closed channel throws and is never reset: the tail of the
  buffer waits for a full batch. A nacked message is acknowledged again with its
  batch, which makes the broker close the channel and deliver the rest again.

Accounts and database
- No unique index under Mongoose and Firebase: two simultaneous creations both
  succeed. OAuth addresses are not lowercased, sign-up's are. Prisma turns a
  string with "_" into `contains`, Firebase looks at the first key only and its
  `updateById` creates what is missing; `FirebaseRepository.init` before
  `initialize` leaves its reference unset.
- The body of `PATCH /preferences` goes to `updateBy` as it came
  (`UserPreferenceController.ts:35`): one that names another user gives the record
  away, and that user may then have two.
- Neither Firebase nor Prisma can run `findLogsByAction`: no e-mail is sent
  there. A failed submission does not try the next provider; concurrent senders
  overrun the credits by at most one each. "Today" is a local date taken as UTC.
- A Prisma run that failed half-way, or under an edit, followed by a change
  back, is "up to date" with a newer client.

## 6. Proofs

Every theorem below holds for all values of the constants that satisfy the
module's named assumption, which TLC evaluates in the module's run.

`LocksProofs`, the cron scheduler (finite set of runs, any processes, jobs,
faults):

- `TypeCorrect`: `Spec => []TypeOK`.
- `PermitsAlwaysCovered`: `Spec => []PermitsCovered`, by induction. `OverlapBound`
  is not inductive: it does not say whether the key is set, and `Fire` may add a
  run only because the key is free. `PermitsCovered` does: the active runs of a
  job are at most the clears of its held key, plus one if the key is set. `Fire`
  adds a run and sets the key; `BootClear` frees the key and counts; `Release`
  and `Crash` take runs away, `Release` exactly the one run that the freed key
  may cost; `UnlockFails` takes a run away and leaves the key.
- `OverlapIsBounded`: `Spec => []OverlapBound`, from it.
- `SchedulerImplementsPermits`: `Spec => ImplementsPermits`. `Fire` maps to
  `Enter` (the free permit is what `PermitsCovered` gives), `Release`,
  `UnlockFails` and `Crash` to `Leave`, `BootClear` to `Grant`, the rest stutter.

`LocksProofs`, the event guard (finite set of calls, any processes, events,
bounds): `GuardTypeCorrect`; `StraysAlwaysCovered` by the same argument, where a
release may come from a call that never had the lock: it frees the key it paid
for or counts as stray; `GuardOverlapIsBounded`, from it.

`DynamicQueueProofs` (any processes, calls, clients, placements, bounds):

- `QueueInvariant`: `Spec => []QueueInv`, by induction. `OneWorker` alone is not
  inductive: it does not exclude that a second call is about to create a worker,
  or that a monitor is closing the worker of a later generation. `QueueInv` adds
  `OneGeneration` (a process that has the `Queue` has at most one call that still
  builds it or one monitor that still has its deletion ahead, never two),
  `TicksLater` (a monitor ticks only after its own call has returned) and
  `WorkerAsSeen` (what a call or a cleanup read of the worker map is still so
  when it acts on it). It is the synchronous `has` and `set` of the queue map in
  `initOrFetchQueue` that keep `OneGeneration`.
- `QueueTypeCorrect`, `AlwaysOneWorker`, `CleanupIsQuiet`, `AddAlwaysFindsQueue`:
  `[]TypeOK`, `[]OneWorker`, `[]QuietCleanup`, `[]AddFindsQueue`, from it, for any
  number of processes; what fails between processes (jobs obliterated by another
  process's cleanup) is the subject of the last two.
- `StartedJobAlwaysKept`: `Spec => StartedJobKept`, for any number of processes.
  `InHands` (an active job is in some worker's hands, and a job exists only once
  its addJob has returned) turns `QuietCleanup` into a statement about jobs:
  whoever obliterates runs none and has closed its own worker, so a started job is
  lost to another process's cleanup or not at all. With one process it is kept.
- `QueueKeepsPromise`: `Spec => JobsAsPromised`, for any number of processes.
  `Enqueue` maps to `Add` because the Queue is there (`AddFindsQueue`),
  `Obliterate` to `Wipe` because of `QuietCleanup`. What `JobQueue` entails by
  itself (`PromiseEntails`) the code then has too, `JobRunsInOneProcess`: no job
  is run by two processes, nor ever again once it is finished or obliterated.
- `ClientsAlwaysKept`: `Spec => []ClientsKept`, for any number of processes.
  `Books`: a process has lent, or is about to lend, at most one client more than
  there were overlaps, and where it is just that many the accounts are `Tight`:
  nobody holds a client that was given back, and the map's client is lent or
  about to be. A fetch that overlaps something raises the limit by the client it
  takes; one that does not finds an empty map and no other fetch, so the accounts
  are below the limit.

`RefreshTokensProofs` (any requests, kinds, databases, clock, faults; no
restriction on what overlaps):

- `TokensTypeCorrect`; `PasswordsInvariant`, and from it
  `PlainIsAlwaysTransient` and `AccountAlwaysReachable`. `PasswordAccounted`
  says who is responsible for the stored password at every moment, where
  `AccountReachable` speaks only of moments without requests; `ResetsRead` that
  a reset goes on with its own password, or overlapped the request that stored
  this one.
- `SessionsInvariant` and from it `EndedAlwaysStaysEnded`,
  `EndedTokensAlwaysRefused`, `LoginsAlwaysLast`, `PasswordChangeAlwaysRevokes`.
  Each property excuses what an overlapping login or rotation *has written*; the
  invariant says the same of what one *has read and will write* (`EndedRead`,
  `LoginsRead`, `ChangedRead`): it overlapped, or it read the list after the
  event. `Overlap` makes that sound: requests in flight together know of one
  another. `LateRead` does it for a refresh, `ClearedSlips` for the moment
  between the two updates of a password change; `Places` ties the position of a
  request to its kind and its tokens.

`SocketSessionProofs` (any processes and connections):

- `SessionTypeCorrect`.
- `ToldAlwaysOut`: inductive is `ToldAreDeaf`: a connection told to go by one of
  its own process is deaf from the step that tells it, its own connection handler
  is over, so nothing installs listeners again, and without a disconnect handler
  its closing starts nothing. `HandlersInTime` adds that the handlers of a socket
  start with its events.
- `LatestAlwaysOwns`: `LatestOwns` speaks of the moment when no handler runs;
  `OrderInv` of every moment: while handlers are one at a time, the one that runs
  is the latest connection's or the disconnect of the owner or a stray, past its
  look at the session it knows who listens, and nobody but strays listens beside
  it.
- `OnlyTheOwnerLeaves`, an action property: `ClearChannel` and `EndSession` ask
  nothing, yet what they clear is their own, strays excepted (`LeavesOwn`): a
  hooked connection listens and so has the channel when it closes, and no
  take-over runs before its handler is over.
- `NeverAGhost`: `CaredInv`: without a failure, a character with a channel or a
  session has a handler at work on it or an open, hooked connection, of whatever
  process.

`RedisStreamsProofs` (any messages, readers, bounds):

- `StreamInvariant`: `Spec => []StreamInv`: a reader has entries only while it
  works on a batch, an entry is in one place of one reader (`TakenApart`), and
  what is taken or handled is not queued (`TakenOnce`). That a group created
  again from "0" hands nothing out twice is `Queued' = Queued` of `NoGroup`: a
  group is missing only when the stream was emptied with it. `HandsOut` relates
  a batch (the oldest COUNT entries) to the new cursor with the cardinality
  facts of FiniteSetTheorems.
- `GroupAlwaysHolds`: `Spec => []GroupHolds`. Besides the one taker it
  bounds two numbers. `AddsInv`: the copies of a message are as many as its
  answered XADDs and those that took effect unanswered, a chain of retries exists
  only after a first refusal, and one under way has a try left. `BooksInv` adds
  that a reader starts a callback only below MAX_CONCURRENT_PROCESSING.
- `AlwaysOneTaker`, from `StreamInv`; `PendingUntilDone`: `Spec =>
  DroppedFromPending`, from `AckedDone` (what a reader is about to acknowledge
  has been handled).
- `StreamImplementsDelivery`: `Spec => DeliverySpec`. One lemma per action says
  what happens to the fates: `Added` maps to `Add`, `Deliver` to `Take`,
  `Handled` to `Handle`, `Failed`, `ReadError`, `Crash`, `Trim` and
  `DeleteStream` to `Lose` or `Fault`, the rest stutter.

`RedisClientsProofs` (any pool, connects, reconnects, queues):
`AlwaysPoolHolds`: `Spec => []PoolHolds`. `PoolHolds` speaks of moments without
reconnects; `CalmInv` says at every calm moment that the clients in use are
shared out, one to each holder, where `LiveWriter` and `LiveReader` leave out a
field that still names a client already given back. `OneConnect`: no second
call of `connect` borrows while one does.

`RabbitProofs`, the connection (any numbers of tries, connections, channels,
faults): `AlwaysConnectionHolds`: `Spec => []ConnectionHolds`. The typing and
`FlagFollowsLoop` need what each task has made and tried (`ConnInv`); that calm
times end with one connection needs `CalmInv`: at most one task connects, what
it has dialled is this.connection, and before that nothing is open or the fields
hold the one that is.

`RabbitProofs`, the deliveries (any messages, tries, batch size, prefetch limit,
faults): `DeliveryAlwaysHolds`: `D!Spec => []DeliveryHolds`. `DeliveryInv` says
that a channel has a copy once and none that is ready (`ChanInv`), that what it
can still hand over was handed over on earlier channels only (`HandledInv`),
that what it handed over or what left the broker was begun (`BegunInv`), and
that a timer of this channel runs on a buffer which ends with the last delivery
read, so its flush acknowledges everything (`BufferInv`). `EpochInv`: each
channel but the first, and the end of this one, is paid for by a fault. `WayInv`
keeps apart what is on its way: the broker never had it, so what is `lost` was
in no hands; what the broker had and has no more was begun, and a callback that
did not end is running or died with its process. `PublisherInv` charges each
copy of a message to a failed attempt, but for the last.

`ServicesProofs` (for each component any number of its actors; the constants as
`ServicesAssumption` and `AccountsAssumption` have them):

- `SchemaAlwaysHolds`: `SchemaInv` says what each stage of the script may rely
  on while nobody edits the schema, and what the hash vouches for.
- `ScalingAlwaysHolds`: `ScalingInv` carries the factor from the choice of a name
  to the making of its worker, which counts anew; `peak` is monotone.
- `PollerAlwaysHolds`, `PubSubAlwaysHolds`, together `AnswersAlwaysHold`: at most
  one process has won a message per life of its key, and each expiry pays for
  one more (`SubInv`); a result that is in the hash is nobody's answer yet
  (`PollInv`).
- `PreferencesAlwaysHold`: `LookInv`: who is about to create and whose record is
  there meanwhile has raced, or was given one; `SeenInv`: what a request found,
  and still is, is of its user or of one it was given to; `WholeInv`: only
  Firebase keeps records without a user; `MadeInv` counts the records against
  the requests that are done. `GivenGrows`: who was given a record stays so.
- `MailAlwaysHolds`, for any number of days: the credits alone are not
  inductive, and a sender may count on one day and log on a later one. `logs[d]`
  counts what was logged since day `d` began, so that what a sender saw on the
  day it counted is still there (`SinceInv` orders the counts of two days);
  `TodayInv` charges the mails sent today to the log, to senders about to log
  and to lost logs, and counts the senders that have passed the credit check;
  `SpentInv` keeps for each sender past the first provider that the one before
  is spent.
- `ComposeAlwaysFits`: `ComposeInv` says at each stage of the build what the file
  holds: the services, volumes and dependencies gathered so far, then the same
  without what the disabled modules named. It gives the file in closed form, from
  which `NothingDangles` and `AsSwitched` are read off; the network stays because
  an entry without a value is not removed.
- `ServicesAlwaysHold`: a behaviour of `MCServices` is one of every component
  (`EachComponent`), so what the run checks of all eight holds for all constants.
- `AccountsAlwaysHold`, `GrantsAreAlwaysOwn`, `FlagsAreAlwaysAsked`: from
  `AccountsInv`, the properties themselves with `PlacesInv` (what a request is
  about at each position, and that the account it will write to is one its query
  matches), `CreateInv` (who is about to create, where an account of the address
  exists, has raced) and `SyncInv` (the accounts that were there when a login
  with Google began have no password). Assumed of a table to begin with: unique
  addresses, in lower case where there is a password, nobody unsubscribed, every
  premium account controlled by hand; and that the names of the login flows
  contain no "_".

Only model-checked: the liveness properties (`CronsRunAgain`, `AttemptsHeal`,
`MonitorEnds`, `AcceptedJobSettles`, `Settles`, `StreamsRecover`,
`BoardFollows`, `ConnectionRecovers`, `AllLeave`: liveness under fairness and
ENABLED are out of the prover's reach). Every safety invariant, action property
and refinement that a passing run checks is a theorem. No module uses a
RECURSIVE operator, which would cost the prover its SMT backend; what a
recursive function computes on every input would need an induction the installed
provers cannot instantiate.

## 7. Not modelled, and next

Components marked `not_modelled` in `PROJECT.json`, each with its reason: the
other use cases (single reads or updates of one document), request validation,
analytics, logging and translation (no state that is read back), the heap
monitor and routing, cooldowns (no caller but `clearAll`), push notifications
and remote APIs, helpers, schema generators, seeds, the documentation site and
shell scripts.

In the modelled components: the UDP adapter of the sockets, `clearAllJobs` and
`shutdown` of the queues, queue names of the kind `stickToOrigin`, status
getters, the verification by Apple and Google (only the address it yields), mail
templates and the time zone of "today", Apple's optional e-mail, `findAll`,
population and projections of the repositories.

What would come next: `DynamicQueue` composed with `RedisClients`, so that the
released client of `DynamicQueueCleaner.ts:110` is seen by its next borrower.
