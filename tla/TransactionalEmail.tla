-------------------------- MODULE TransactionalEmail --------------------------
(***************************************************************************)
(* TransactionalEmail.send to one user by concurrent callers: count        *)
(* today's log of a provider, find the user, submit the mail, log it.      *)
(* The count and the log lie an await and a submission apart; a day may    *)
(* end anywhere.                                                           *)
(***************************************************************************)
EXTENDS Naturals, Sequences, FiniteSets

CONSTANTS Senders,
          Credits,    \* the credits of the providers, in their order
          MaxDays, MaxSends, MaxFaults   \* bounds

VARIABLES
    mongodb,         \* whether the logs are read through Mongoose
    day,
    logs,            \* day -> provider -> mails logged since that day began
    sent,            \* day -> provider -> mails submitted on that day
    unsubscribed,
    at, tried, since,  \* sender -> position, provider tried, day it began
    late,            \* sender -> the user had unsubscribed when it began
    unlogged,        \* mails submitted that were never logged
    sends, failures

counters == <<day, sends, failures>>
vars == <<mongodb, logs, sent, unsubscribed, at, tried, since, late, unlogged, counters>>

Providers == DOMAIN Credits
Days == 1..MaxDays

Init ==
    /\ mongodb \in BOOLEAN /\ day = 1
    /\ logs = [d \in Days |-> [p \in Providers |-> 0]] /\ sent = logs
    /\ unsubscribed = FALSE
    /\ at = [s \in Senders |-> "idle"] /\ tried = [s \in Senders |-> 1]
    /\ since = [s \in Senders |-> 1] /\ late = [s \in Senders |-> FALSE]
    /\ unlogged = 0 /\ sends = 0 /\ failures = 0

Goto(s, l) == at' = [at EXCEPT ![s] = l]
Fail == failures < MaxFaults /\ failures' = failures + 1

\* findLogsByAction: the query has a first day and no last one.
Logged(d, p) == logs[d][p]

Send(s) ==
    /\ at[s] \in {"idle", "true", "false"} /\ sends < MaxSends
    /\ sends' = sends + 1
    /\ Goto(s, "count")
    /\ tried' = [tried EXCEPT ![s] = 1] /\ since' = [since EXCEPT ![s] = day]
    /\ late' = [late EXCEPT ![s] = unsubscribed]
    /\ UNCHANGED <<mongodb, logs, sent, unsubscribed, unlogged, day, failures>>

\* The query on createdAt is one that neither Prisma nor Firebase accepts: it throws.
LogsUnreadable(s) ==
    /\ at[s] = "count" /\ ~mongodb
    /\ Goto(s, "false")
    /\ UNCHANGED <<mongodb, logs, sent, unsubscribed, tried, since, late, unlogged,
                   counters>>

CountLogs(s) ==
    /\ at[s] = "count" /\ mongodb
    /\ IF Logged(since[s], tried[s]) < Credits[tried[s]]
       THEN Goto(s, "user") /\ UNCHANGED tried
       ELSE IF tried[s] < Len(Credits)
       THEN tried' = [tried EXCEPT ![s] = @ + 1] /\ UNCHANGED at
       ELSE Goto(s, "false") /\ UNCHANGED tried
    /\ UNCHANGED <<mongodb, logs, sent, unsubscribed, since, late, unlogged, counters>>

\* An unsubscribed user counts as served, an unknown one does not.
FindUser(s) ==
    /\ at[s] = "user"
    /\ Goto(s, IF unsubscribed THEN "true" ELSE "submit") \/ Goto(s, "false")
    /\ UNCHANGED <<mongodb, logs, sent, unsubscribed, tried, since, late, unlogged,
                   counters>>

Submit(s) ==
    /\ at[s] = "submit"
    /\ sent' = [sent EXCEPT ![day][tried[s]] = @ + 1]
    /\ Goto(s, "log")
    /\ UNCHANGED <<mongodb, logs, unsubscribed, tried, since, late, unlogged, counters>>

\* The next provider is not tried.
SubmitFails(s) ==
    /\ at[s] = "submit" /\ Fail
    /\ Goto(s, "false")
    /\ UNCHANGED <<mongodb, logs, sent, unsubscribed, tried, since, late, unlogged, day,
                   sends>>

\* Mutant of CreateLog: logs nothing.
CreateLogNone(s) ==
    /\ at[s] = "log"
    /\ Goto(s, "true")
    /\ UNCHANGED <<mongodb, logs, sent, unsubscribed, tried, since, late, unlogged,
                   counters>>

CreateLog(s) ==
    /\ at[s] = "log"
    /\ logs' = [d \in Days |-> [logs[d] EXCEPT ![tried[s]] = IF d <= day THEN @ + 1 ELSE @]]
    /\ Goto(s, "true")
    /\ UNCHANGED <<mongodb, sent, unsubscribed, tried, since, late, unlogged, counters>>

\* Logging fails, or the process dies before it: the mail is on its way, unlogged.
LogLost(s) ==
    /\ at[s] = "log" /\ Fail
    /\ unlogged' = unlogged + 1
    /\ Goto(s, "false")
    /\ UNCHANGED <<mongodb, logs, sent, unsubscribed, tried, since, late, day, sends>>

Unsubscribe ==
    /\ ~unsubscribed
    /\ unsubscribed' = TRUE
    /\ UNCHANGED <<mongodb, logs, sent, at, tried, since, late, unlogged, counters>>

NextDay ==
    /\ day < MaxDays
    /\ day' = day + 1
    /\ UNCHANGED <<mongodb, logs, sent, unsubscribed, at, tried, since, late, unlogged,
                   sends, failures>>

Next ==
    \/ \E s \in Senders :
        \/ Send(s) \/ LogsUnreadable(s) \/ CountLogs(s) \/ FindUser(s)
        \/ Submit(s) \/ SubmitFails(s) \/ CreateLog(s) \/ LogLost(s)
    \/ Unsubscribe \/ NextDay

Spec == Init /\ [][Next]_vars

-------------------------------------------------------------------------------
TypeOK ==
    /\ mongodb \in BOOLEAN /\ unsubscribed \in BOOLEAN /\ day \in Days
    /\ {logs, sent} \subseteq [Days -> [Providers -> 0..MaxSends]]
    /\ at \in [Senders -> {"idle", "count", "user", "submit", "log", "true", "false"}]
    /\ tried \in [Senders -> Providers] /\ since \in [Senders -> Days]
    /\ late \in [Senders -> BOOLEAN]
    /\ unlogged \in 0..MaxFaults /\ sends \in 0..MaxSends /\ failures \in 0..MaxFaults

\* A provider sends more than its credits a day only as far as senders count at once,
\* or a submission was never logged.
CreditsHold ==
    \A d \in Days, p \in Providers :
        sent[d][p] < Credits[p] + Cardinality(Senders) + unlogged

\* A mail goes out by a later provider only when the earlier ones are spent for the
\* day of the request: a failure is no reason.
NextOnlyWhenSpent ==
    \A d \in Days, p \in Providers \ {1} :
        sent[d][p] > 0 =>
            \E e \in 1..d : Logged(e, p - 1) >= Credits[p - 1]

\* Nobody who has unsubscribed is sent a mail that was asked for later.
UnsubscribedIsSpared ==
    \A s \in Senders : at[s] \in {"submit", "log"} => ~late[s]
===============================================================================
