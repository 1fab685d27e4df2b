------------------------------ MODULE MCServices ------------------------------
(* Eight components in one run, of which Accounts is the largest: a behaviour   *)
(* follows one of them, for none reads the state of another.                    *)
EXTENDS MCAccounts

CONSTANTS
    Clients, Owners,                                   \* UserPreferences
    Senders, Credits, MaxDays, MaxSends, MaxFaults,    \* TransactionalEmail
    Rounds, MaxPolls, MaxBoots,                        \* ResultsPoller
    Nodes, Texts, MaxExpiries, MaxLosses,              \* RedisPubSub
    Cpus, Counts, Scales, CustomFactors,               \* QueueScaling
    Schemas, MaxEdits, MaxFailures                     \* PrismaSetup

VARIABLES
    store, prefs, made, step, op, owner, body, seen, twice, deleted,
    mongodb, day, logs, sent, unsubscribed, at, tried, began, late, unlogged, sends,
    failures,
    entry, round, phase, polls, finished, answer, boots,
    subscribed, published, inbox, won, processed, runs, expiries, losses,
    enabled, present, compose, stage, nth,
    count, peak, adding, workers,
    schema, hash, client, database, script, current, edited, halfway, edits, errors,
    focus

TwoProviders == <<1, 1>>
NoneContain == <<>>   \* user identifiers have no "_"

P == INSTANCE UserPreferences WITH adapter <- store, raced <- twice, Containing <- NoneContain
E == INSTANCE TransactionalEmail WITH since <- began
R == INSTANCE ResultsPoller
S == INSTANCE RedisPubSub
B == INSTANCE ModuleBuilder
Q == INSTANCE QueueScaling
D == INSTANCE PrismaSetup WITH stage <- script, failures <- errors

ASSUME ServicesAssumption ==
    /\ IsFiniteSet(Clients) /\ IsFiniteSet(Senders) /\ IsFiniteSet(Nodes)
    /\ Credits \in Seq(Nat \ {0}) /\ Credits # <<>> /\ MaxDays \in Nat \ {0}
    /\ {MaxSends, MaxFaults, Rounds, MaxPolls, MaxBoots, MaxExpiries, MaxLosses, MaxEdits,
        MaxFailures} \subseteq Nat
    /\ Cpus \in Nat \ {0} /\ Counts \subseteq Nat /\ CustomFactors \subseteq Nat
    /\ Scales \subseteq {"single", "custom", "active-characters", "active-npcs"}
    /\ P!None \notin Owners /\ D!Nothing \notin Schemas

\* A component that is not followed stays where some behaviour of it begins.
MCInit ==
    /\ focus \in {"accounts", "preferences", "mail", "poll", "pubsub", "compose",
                  "scaling", "prisma"}
    /\ \/ focus = "accounts"
       \/ /\ focus # "accounts"
          /\ adapter = "mongoose" /\ users = CHOOSE t \in Present : TRUE
    /\ \/ focus = "preferences"
       \/ /\ focus # "preferences"
          /\ store = "mongoose" /\ op = [r \in Clients |-> "create"]
          /\ owner = [r \in Clients |-> CHOOSE u \in Owners : TRUE]
          /\ body = [r \in Clients |-> P!None]
    /\ focus = "mail" \/ (focus # "mail" /\ mongodb = TRUE)
    /\ \/ focus = "compose"
       \/ focus # "compose" /\ enabled = {} /\ present = B!ModuleNames
    /\ \/ focus = "scaling"
       \/ focus # "scaling" /\ count = [e \in Q!Entities |-> 0]
    /\ \/ focus = "prisma"
       \/ focus # "prisma" /\ schema = CHOOSE s \in Schemas : TRUE
    /\ Init /\ P!Init /\ E!Init /\ R!Init /\ S!Init /\ B!Init /\ Q!Init /\ D!Init

accounts == vars
preferences == <<store, prefs, made, step, op, owner, body, seen, twice, deleted>>
mail == <<mongodb, day, logs, sent, unsubscribed, at, tried, began, late, unlogged, sends,
          failures>>
poll == <<entry, round, phase, polls, finished, answer, boots>>
pubsub == <<subscribed, published, inbox, won, processed, runs, expiries, losses>>
build == <<enabled, present, compose, stage, nth>>
scaling == <<count, peak, adding, workers>>
prisma == <<schema, hash, client, database, script, current, edited, halfway, edits, errors>>

Services == <<accounts, preferences, mail, poll, pubsub>>
Tools == <<build, scaling, prisma>>

MCNext ==
    /\ UNCHANGED focus
    /\ \/ /\ focus = "accounts" /\ Next
          /\ UNCHANGED <<preferences, mail, poll, pubsub, Tools>>
       \/ /\ focus = "preferences" /\ P!Next
          /\ UNCHANGED <<accounts, mail, poll, pubsub, Tools>>
       \/ /\ focus = "mail" /\ E!Next
          /\ UNCHANGED <<accounts, preferences, poll, pubsub, Tools>>
       \/ /\ focus = "poll" /\ R!Next
          /\ UNCHANGED <<accounts, preferences, mail, pubsub, Tools>>
       \/ /\ focus = "pubsub" /\ S!Next
          /\ UNCHANGED <<accounts, preferences, mail, poll, Tools>>
       \/ /\ focus = "compose" /\ B!Next /\ UNCHANGED <<Services, scaling, prisma>>
       \/ /\ focus = "scaling" /\ Q!Next /\ UNCHANGED <<Services, build, prisma>>
       \/ /\ focus = "prisma" /\ D!Next /\ UNCHANGED <<Services, build, scaling>>

MCSpec == MCInit /\ [][MCNext]_<<focus, Services, Tools>>

\* One preference record a user, its own, and gone once it is deleted, unless the body
\* of an update names a user: as far as UserPreferences says.
PreferencesHold ==
    P!TypeOK /\ P!OnePreferenceAUser /\ P!DeletedStaysDeleted /\ P!PreferencesAreOwn

\* The mail providers are used in order, within their credits, and never for those who
\* have unsubscribed: as far as TransactionalEmail says.
MailHolds == E!TypeOK /\ E!CreditsHold /\ E!NextOnlyWhenSpent /\ E!UnsubscribedIsSpared

\* A published message is handled by one process and a polled result answered once, to
\* the request it is of: as far as RedisPubSub and ResultsPoller say.
OneAnswers ==
    /\ S!TypeOK /\ S!HandledOnce /\ S!HandledBySomebody
    /\ R!TypeOK /\ R!AnsweredOnce /\ R!StaleNeedsGiveUp

\* The built composition is what was asked for: as far as ModuleBuilder says.
ComposeFits == B!TypeOK /\ B!NothingDangles /\ B!AsSwitched

\* A kind of job has few queues, and its workers the concurrency that was counted for:
\* as far as QueueScaling says.
ScalingHolds == Q!TypeOK /\ Q!FewQueues /\ Q!ConcurrencyIsEarned

\* The server starts with the client and database of its schema: as far as PrismaSetup
\* says.
SchemaHolds == D!TypeOK /\ D!ServerFits /\ D!HashIsMigrated
===============================================================================
