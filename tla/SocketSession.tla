----------------------------- MODULE SocketSession -----------------------------
(***************************************************************************)
(* The socket session of one character: SocketAdapter's handler of a new   *)
(* connection, which takes the character over from the connection stored   *)
(* in user.channel, and its handler of a disconnect, over the Redis hashes *)
(* of SocketSessionControl and SocketEventsBinderControl.  Each action is  *)
(* the code from one await on the database or Redis to the next.           *)
(*                                                                         *)
(* Sockets are socket.io's (TCP): leave() does not close the previous      *)
(* connection and removeAllListeners leaves it open and deaf.  A socket id *)
(* is used once, and sockets.get finds only the sockets of the own process.*)
(* A connection without a character is refused and not modelled.           *)
(***************************************************************************)
EXTENDS Naturals

CONSTANTS Procs,      \* processes; each runs the one-time operations of its node
          Conns,      \* connections the character's devices make
          ProcOf,     \* the process that accepts a connection
          None,       \* no channel
          MaxFaults   \* bound on failing calls and crashes

ASSUME SocketSessionAssumption ==
    /\ ProcOf \in [Conns -> Procs]
    /\ None \notin Conns
    /\ MaxFaults \in Nat

VARIABLES
    channel,       \* user.channel: the socket id stored in the database
    session,       \* the hash socket-sessions has the character
    bound,         \* the fields of the hash channel-bound-events
    sock,          \* connection -> "new", "open", "closed"
    pc,            \* connection -> position of its connection handler
    previous,      \* connection -> the channel its handler read, or None
    listening,     \* connections with event listeners
    hooked,        \* connections with the disconnect handler
    dpc,           \* connection -> position of its disconnect handler
    clearing,      \* processes whose boot has yet to clear the sessions
    \* history
    last,          \* the last connection that began, or None
    told,          \* <<c, d>>: c's take-over sent ForceDisconnect to d, open and ready
    stray,         \* connections that the code has lost sight of while they listened
    orderly,       \* so far handlers ran one at a time and no boot cleared a session
    faults         \* failed calls and crashes so far

db == <<channel, session, bound>>
connv == <<sock, pc, previous, listening, hooked, dpc>>
hist == <<last, told, stray, orderly>>
vars == <<db, connv, clearing, hist, faults>>

Init ==
    /\ channel = None /\ session = FALSE /\ bound = {}
    /\ sock = [c \in Conns |-> "new"]
    /\ pc = [c \in Conns |-> "idle"]
    /\ previous = [c \in Conns |-> None]
    /\ listening = {} /\ hooked = {}
    /\ dpc = [c \in Conns |-> "idle"]
    /\ clearing = Procs
    /\ last = None /\ told = {} /\ stray = {} /\ orderly = TRUE
    /\ faults = 0

Running(c) == pc[c] \notin {"idle", "ready", "failed"} \/ dpc[c] \in {"clear", "delete"}
Quiet == \A c \in Conns : ~Running(c)

Goto(c, l) == pc' = [pc EXCEPT ![c] = l]

-------------------------------------------------------------------------------
(* onConnect: take over from the previous connection ...                   *)

Connect(c) ==
    /\ sock[c] = "new"
    /\ sock' = [sock EXCEPT ![c] = "open"]
    /\ last' = c
    /\ orderly' = (orderly /\ Quiet)
    /\ Goto(c, "has")
    /\ UNCHANGED <<db, previous, listening, hooked, dpc, clearing, told, stray, faults>>

HasSession(c) ==
    /\ pc[c] = "has"
    /\ Goto(c, IF session THEN "find" ELSE "update")
    /\ UNCHANGED <<db, sock, previous, listening, hooked, dpc, clearing, hist, faults>>

\* getChannelById: an open socket of this process.
Local(c, d) == d # None /\ sock[d] = "open" /\ ProcOf[d] = ProcOf[c]

\* The stored channel is sent ForceDisconnect; a ready connection hears it.
Told(c) == {<<c, d>> : d \in {e \in Conns : e = channel /\ sock[e] = "open" /\ pc[e] = "ready"}}

\* Mutant of FindPrevious: the previous channel is never found.
FindNobody(c) ==
    /\ pc[c] = "find"
    /\ previous' = [previous EXCEPT ![c] = channel]
    /\ told' = told \union Told(c)
    /\ Goto(c, "update")
    /\ UNCHANGED <<db, sock, listening, hooked, dpc, clearing, last, stray, orderly, faults>>

\* The stored channel is read and sent ForceDisconnect, wherever it is; only a
\* local one loses its listeners, the disconnect handler among them.  One in
\* another process goes on listening, and its disconnect will be handled.
FindPrevious(c) ==
    /\ pc[c] = "find"
    /\ previous' = [previous EXCEPT ![c] = channel]
    /\ told' = told \union Told(c)
    /\ \/ /\ Local(c, channel)
          /\ listening' = listening \ {channel}
          /\ hooked' = hooked \ {channel}
          /\ Goto(c, "unbind")
          /\ UNCHANGED stray
       \/ /\ ~Local(c, channel)
          /\ stray' = stray \union {d \in listening : d = channel /\ sock[d] = "open"}
          /\ Goto(c, "update")
          /\ UNCHANGED <<listening, hooked>>
    /\ UNCHANGED <<db, sock, dpc, clearing, last, orderly, faults>>

\* unbindEvents: nothing to do for a channel that is not in the hash.
Unbind(c) ==
    /\ pc[c] = "unbind"
    /\ \/ /\ previous[c] \in bound
          /\ listening' = listening \ {previous[c]}
          /\ hooked' = hooked \ {previous[c]}
          /\ Goto(c, "unset")
       \/ /\ previous[c] \notin bound
          /\ Goto(c, "delete")
          /\ UNCHANGED <<listening, hooked>>
    /\ UNCHANGED <<db, sock, previous, dpc, clearing, hist, faults>>

UnsetBound(c) ==
    /\ pc[c] = "unset"
    /\ bound' = bound \ {previous[c]}
    /\ Goto(c, "delete")
    /\ UNCHANGED <<channel, session, sock, previous, listening, hooked, dpc,
                   clearing, hist, faults>>

DeleteSession(c) ==
    /\ pc[c] = "delete"
    /\ session' = FALSE
    /\ Goto(c, "update")
    /\ UNCHANGED <<channel, bound, sock, previous, listening, hooked, dpc,
                   clearing, hist, faults>>

(* ... then updateCharacterConnection, bindEvents and the disconnect       *)
(* handler.  All of it goes on even if the socket has closed meanwhile.    *)

Update(c) ==
    /\ pc[c] = "update"
    /\ channel' = c
    /\ Goto(c, "set")
    /\ UNCHANGED <<session, bound, sock, previous, listening, hooked, dpc,
                   clearing, hist, faults>>

SetSession(c) ==
    /\ pc[c] = "set"
    /\ session' = TRUE
    /\ Goto(c, "bind")
    /\ UNCHANGED <<channel, bound, sock, previous, listening, hooked, dpc,
                   clearing, hist, faults>>

\* The id of a new socket is not in the hash: its listeners are bound.
Bind(c) ==
    /\ pc[c] = "bind"
    /\ c \notin bound
    /\ listening' = listening \union {c}
    /\ Goto(c, "setBound")
    /\ UNCHANGED <<db, sock, previous, hooked, dpc, clearing, hist, faults>>

SetBound(c) ==
    /\ pc[c] = "setBound"
    /\ bound' = bound \union {c}
    /\ hooked' = hooked \union {c}
    /\ Goto(c, "ready")
    /\ UNCHANGED <<channel, session, sock, previous, listening, dpc, clearing,
                   hist, faults>>

\* A call of the handler fails.  While it disconnects the previous session that
\* is caught and the take-over goes on; anywhere else the socket is closed.
Fails(c) ==
    /\ faults < MaxFaults
    /\ faults' = faults + 1
    /\ \/ /\ pc[c] \in {"unbind", "unset", "delete"}
          /\ Goto(c, "update")
          /\ UNCHANGED sock
       \/ /\ pc[c] \in {"has", "find", "update", "set", "bind", "setBound"}
          /\ Goto(c, "failed")
          /\ sock' = [sock EXCEPT ![c] = "closed"]
    /\ UNCHANGED <<db, previous, listening, hooked, dpc, clearing, hist>>

-------------------------------------------------------------------------------
\* The socket closes: the client leaves (because it was told to, or not) or its
\* network does.  Without the disconnect handler nobody hears of it.  With the
\* handler of a stray one the code loses sight of whoever listens.
Drop(c) ==
    /\ sock[c] = "open"
    /\ sock' = [sock EXCEPT ![c] = "closed"]
    /\ dpc' = IF c \in hooked THEN [dpc EXCEPT ![c] = "clear"] ELSE dpc
    /\ orderly' = (orderly /\ Quiet)
    /\ stray' = IF c \in stray \intersect hooked THEN stray \union listening ELSE stray
    /\ UNCHANGED <<db, pc, previous, listening, hooked, clearing, last, told, faults>>

\* handleDisconnect, whatever the channel and the session are by now.
ClearChannel(c) ==
    /\ dpc[c] = "clear"
    /\ channel' = None
    /\ dpc' = [dpc EXCEPT ![c] = "delete"]
    /\ UNCHANGED <<session, bound, sock, pc, previous, listening, hooked,
                   clearing, hist, faults>>

\* Mutant of EndSession: the session is left in the hash.
KeepSession(c) ==
    /\ dpc[c] = "delete"
    /\ dpc' = [dpc EXCEPT ![c] = "over"]
    /\ UNCHANGED <<db, sock, pc, previous, listening, hooked, clearing, hist, faults>>

EndSession(c) ==
    /\ dpc[c] = "delete"
    /\ session' = FALSE
    /\ dpc' = [dpc EXCEPT ![c] = "over"]
    /\ UNCHANGED <<channel, bound, sock, pc, previous, listening, hooked,
                   clearing, hist, faults>>

\* One of its two calls fails: logged, the rest is skipped.
DisconnectFails(c) ==
    /\ dpc[c] \in {"clear", "delete"}
    /\ faults < MaxFaults
    /\ faults' = faults + 1
    /\ dpc' = [dpc EXCEPT ![c] = "over"]
    /\ UNCHANGED <<db, sock, pc, previous, listening, hooked, clearing, hist>>

\* clearAllSessions at the end of a boot: the sockets listen by then, here and in
\* the other processes.
BootClear(p) ==
    /\ p \in clearing
    /\ clearing' = clearing \ {p}
    /\ session' = FALSE
    /\ orderly' = (orderly /\ Quiet /\ ~session)
    /\ UNCHANGED <<channel, bound, connv, last, told, stray, faults>>

\* A process dies with its sockets and handlers, and boots again.
Crash(p) ==
    LET mine == {c \in Conns : ProcOf[c] = p /\ sock[c] # "new"} IN
    /\ faults < MaxFaults
    /\ faults' = faults + 1
    /\ sock' = [c \in Conns |-> IF c \in mine THEN "closed" ELSE sock[c]]
    /\ pc' = [c \in Conns |-> IF c \in mine THEN "failed" ELSE pc[c]]
    /\ dpc' = [c \in Conns |-> IF c \in mine THEN "over" ELSE dpc[c]]
    /\ listening' = listening \ mine
    /\ hooked' = hooked \ mine
    /\ clearing' = clearing \union {p}
    /\ UNCHANGED <<db, previous, hist>>

Next ==
    \/ \E c \in Conns :
         \/ Connect(c) \/ HasSession(c) \/ FindPrevious(c) \/ Unbind(c)
         \/ UnsetBound(c) \/ DeleteSession(c) \/ Update(c) \/ SetSession(c)
         \/ Bind(c) \/ SetBound(c) \/ Fails(c)
         \/ Drop(c) \/ ClearChannel(c) \/ EndSession(c) \/ DisconnectFails(c)
    \/ \E p \in Procs : BootClear(p) \/ Crash(p)

Spec == Init /\ [][Next]_vars

-------------------------------------------------------------------------------
TypeOK ==
    /\ channel \in Conns \union {None} /\ session \in BOOLEAN /\ bound \subseteq Conns
    /\ sock \in [Conns -> {"new", "open", "closed"}]
    /\ pc \in [Conns -> {"idle", "has", "find", "unbind", "unset", "delete", "update",
                         "set", "bind", "setBound", "ready", "failed"}]
    /\ previous \in [Conns -> Conns \union {None}]
    /\ listening \subseteq Conns /\ hooked \subseteq Conns
    /\ dpc \in [Conns -> {"idle", "clear", "delete", "over"}]
    /\ clearing \subseteq Procs
    /\ last \in Conns \union {None} /\ told \subseteq Conns \X Conns /\ stray \subseteq Conns
    /\ orderly \in BOOLEAN /\ faults \in 0..MaxFaults

\* When a take-over is complete, a ready connection of the same process that it told to
\* go (SocketAdapter.ts:129) is deaf, and when it goes its disconnect handler does not
\* touch the session of its successor, however handlers overlap and whatever fails.
ToldIsOut ==
    \A c \in Conns :
        /\ pc[c] = "ready" /\ <<c, previous[c]>> \in told
        /\ ProcOf[previous[c]] = ProcOf[c]
        => previous[c] \notin listening \union hooked /\ dpc[previous[c]] \in {"idle", "over"}

\* "You have been disconnected because you logged in from another device!"
\* (SocketAdapter.ts:130): when the take-over is complete, whoever was told so is.  The
\* code does not keep this for a connection of another process.
OldDeviceIsOut ==
    \A c \in Conns : pc[c] = "ready" /\ <<c, previous[c]>> \in told =>
        previous[c] \notin listening

\* Once it is ready the latest connection owns the character: messages go to it, the
\* next connection will find its session, and it alone listens, even when the
\* connections before it close later, calls failed or a process died.  Strays are
\* the exception: they listen on, and when one closes the latest is cut off.  (As long
\* as handlers ran one at a time.)
LatestOwns ==
    orderly /\ Quiet /\ last # None /\ sock[last] = "open" /\ pc[last] = "ready" =>
        /\ last \notin stray => channel = last /\ session
        /\ \A c \in listening : sock[c] = "open" => c = last \/ c \in stray

\* With all sockets closed nothing is left of the session, in whatever order the
\* devices came to whichever process and went.  (As above, and as long as nothing
\* failed.)
NoGhost ==
    orderly /\ faults = 0 /\ Quiet /\ (\A c \in Conns : sock[c] # "open") =>
        channel = None /\ ~session
===============================================================================
