-------------------------- MODULE SocketSessionProofs --------------------------
(***************************************************************************)
(* Proofs about SocketSession for all processes and connections.           *)
(***************************************************************************)
EXTENDS SocketSession, TLAPS

\* A connection that one of its own process told to go has been deaf since; its
\* connection handler is over and its disconnect handler will not start.
Deaf(d) ==
    /\ pc[d] \in {"ready", "failed"}
    /\ d \notin listening \union hooked
    /\ dpc[d] \in {"idle", "over"}
ToldAreDeaf == \A c, d \in Conns : <<c, d>> \in told /\ ProcOf[d] = ProcOf[c] => Deaf(d)

\* A socket's handlers begin with its connection and its disconnect.
HandlersInTime ==
    \A c \in Conns : /\ sock[c] = "new" => pc[c] = "idle"
                     /\ sock[c] \in {"new", "open"} => dpc[c] \in {"idle", "over"}

SessionInv == TypeOK /\ HandlersInTime /\ ToldAreDeaf

\* Type correctness of the session, for any processes.
THEOREM SessionTypeCorrect == Spec => []TypeOK
<1>. USE SocketSessionAssumption DEF TypeOK, db, connv, hist
<1>1. Init => TypeOK
  <2>. SUFFICES ASSUME Init
                PROVE  TypeOK
    OBVIOUS
  <2>1. session \in BOOLEAN /\ orderly \in BOOLEAN
    BY Zenon DEF Init
  <2>2. /\ channel \in Conns \union {None} /\ last \in Conns \union {None}
        /\ bound \subseteq Conns /\ listening \subseteq Conns /\ hooked \subseteq Conns
        /\ clearing \subseteq Procs /\ told \subseteq Conns \X Conns /\ stray \subseteq Conns
        /\ faults \in 0..MaxFaults
    BY DEF Init
  <2>. QED
    BY <2>1, <2>2 DEF Init
<1>2. TypeOK /\ [Next]_vars => TypeOK'
  <2>. SUFFICES ASSUME TypeOK, [Next]_vars
                PROVE  TypeOK'
    OBVIOUS
  <2>1. ASSUME NEW c \in Conns, Connect(c)
        PROVE  TypeOK'
    BY <2>1 DEF Connect, Goto
  <2>2. ASSUME NEW c \in Conns, HasSession(c)
        PROVE  TypeOK'
    BY <2>2 DEF HasSession, Goto
  <2>3. ASSUME NEW c \in Conns, FindPrevious(c)
        PROVE  TypeOK'
    BY <2>3 DEF FindPrevious, Goto, Told
  <2>4. ASSUME NEW c \in Conns, Unbind(c)
        PROVE  TypeOK'
    BY <2>4 DEF Unbind, Goto
  <2>5. ASSUME NEW c \in Conns, UnsetBound(c) \/ DeleteSession(c)
        PROVE  TypeOK'
    BY <2>5 DEF UnsetBound, DeleteSession, Goto
  <2>6. ASSUME NEW c \in Conns, Update(c) \/ SetSession(c)
        PROVE  TypeOK'
    BY <2>6 DEF Update, SetSession, Goto
  <2>7. ASSUME NEW c \in Conns, Bind(c) \/ SetBound(c)
        PROVE  TypeOK'
    BY <2>7 DEF Bind, SetBound, Goto
  <2>8. ASSUME NEW c \in Conns, Fails(c)
        PROVE  TypeOK'
    BY <2>8 DEF Fails, Goto
  <2>9. ASSUME NEW c \in Conns, Drop(c)
        PROVE  TypeOK'
    BY <2>9 DEF Drop
  <2>10. ASSUME NEW c \in Conns, ClearChannel(c) \/ EndSession(c) \/ DisconnectFails(c)
         PROVE  TypeOK'
    <3>1. CASE EndSession(c)
      <4>1. session' \in BOOLEAN
        BY <3>1, Zenon DEF EndSession
      <4>. QED
        BY <4>1, <3>1 DEF EndSession
    <3>2. CASE ClearChannel(c)
      BY <3>2 DEF ClearChannel
    <3>3. CASE DisconnectFails(c)
      BY <3>3 DEF DisconnectFails
    <3>. QED
      BY <3>1, <3>2, <3>3, <2>10
  <2>11. ASSUME NEW p \in Procs, BootClear(p)
         PROVE  TypeOK'
    <3>1. session' \in BOOLEAN /\ orderly' \in BOOLEAN
      BY <2>11, Zenon DEF BootClear
    <3>. QED
      BY <3>1, <2>11 DEF BootClear
  <2>12. ASSUME NEW p \in Procs, Crash(p)
         PROVE  TypeOK'
    BY <2>12 DEF Crash
  <2>13. CASE UNCHANGED vars
    BY <2>13 DEF vars
  <2>. QED
    BY <2>1, <2>2, <2>3, <2>4, <2>5, <2>6, <2>7, <2>8, <2>9, <2>10, <2>11, <2>12,
       <2>13 DEF Next
<1>. QED
  BY <1>1, <1>2, PTL DEF Spec

\* Every step keeps the told connections of one's own process deaf.
LEMMA DeafStep ==
    ASSUME SessionInv, [Next]_vars
    PROVE  HandlersInTime' /\ ToldAreDeaf'
<1>. USE SocketSessionAssumption DEF SessionInv, TypeOK, HandlersInTime, ToldAreDeaf, Deaf
<1>. USE DEF db, connv, hist
<1>1. ASSUME NEW c \in Conns, Connect(c)
      PROVE  HandlersInTime' /\ ToldAreDeaf'
  <2>1. \A d \in Conns : Deaf(d) => d # c
    BY <1>1 DEF Connect
  <2>2. UNCHANGED <<told, listening, hooked, dpc>>
        /\ \A d \in Conns : d # c => pc'[d] = pc[d] /\ sock'[d] = sock[d]
    BY <1>1 DEF Connect, Goto
  <2>. QED
    BY <2>1, <2>2, <1>1 DEF Connect, Goto
<1>2. ASSUME NEW c \in Conns, HasSession(c)
      PROVE  HandlersInTime' /\ ToldAreDeaf'
  BY <1>2 DEF HasSession, Goto
<1>3. ASSUME NEW c \in Conns, FindPrevious(c)
      PROVE  HandlersInTime' /\ ToldAreDeaf'
  <2>1. ASSUME NEW d \in Conns, <<c, d>> \in Told(c), ProcOf[d] = ProcOf[c]
        PROVE  Local(c, channel) /\ d = channel /\ d # c /\ pc[d] = "ready" /\ sock[d] = "open"
    BY <2>1, <1>3 DEF Told, Local, FindPrevious
  <2>2. ASSUME NEW d \in Conns, <<c, d>> \in Told(c), ProcOf[d] = ProcOf[c]
        PROVE  Deaf(d)'
    BY <2>1, <2>2, <1>3 DEF FindPrevious, Goto
  <2>3. listening' \subseteq listening /\ hooked' \subseteq hooked /\ dpc' = dpc
    BY <1>3 DEF FindPrevious
  <2>4. \A d \in Conns : d # c => pc'[d] = pc[d]
    BY <1>3 DEF FindPrevious, Goto
  <2>5. pc[c] = "find" /\ sock' = sock /\ told' = told \union Told(c)
    BY <1>3 DEF FindPrevious
  <2>6. \A e, d \in Conns : <<e, d>> \in Told(c) => e = c
    BY DEF Told
  <2>7. \A d \in Conns : Deaf(d) => Deaf(d)'
    BY <2>3, <2>4, <2>5
  <2>8. ToldAreDeaf'
    BY <2>2, <2>5, <2>6, <2>7
  <2>. QED
    BY <2>3, <2>4, <2>5, <2>8
<1>4. ASSUME NEW c \in Conns, Unbind(c)
      PROVE  HandlersInTime' /\ ToldAreDeaf'
  BY <1>4 DEF Unbind, Goto
<1>5. ASSUME NEW c \in Conns, UnsetBound(c) \/ DeleteSession(c)
      PROVE  HandlersInTime' /\ ToldAreDeaf'
  BY <1>5 DEF UnsetBound, DeleteSession, Goto
<1>6. ASSUME NEW c \in Conns, Update(c) \/ SetSession(c)
      PROVE  HandlersInTime' /\ ToldAreDeaf'
  BY <1>6 DEF Update, SetSession, Goto
<1>7. ASSUME NEW c \in Conns, Bind(c) \/ SetBound(c)
      PROVE  HandlersInTime' /\ ToldAreDeaf'
  BY <1>7 DEF Bind, SetBound, Goto
<1>8. ASSUME NEW c \in Conns, Fails(c)
      PROVE  HandlersInTime' /\ ToldAreDeaf'
  BY <1>8 DEF Fails, Goto
<1>9. ASSUME NEW c \in Conns, Drop(c)
      PROVE  HandlersInTime' /\ ToldAreDeaf'
  BY <1>9 DEF Drop
<1>10. ASSUME NEW c \in Conns, ClearChannel(c) \/ EndSession(c) \/ DisconnectFails(c)
       PROVE  HandlersInTime' /\ ToldAreDeaf'
  BY <1>10 DEF ClearChannel, EndSession, DisconnectFails
<1>11. ASSUME NEW p \in Procs, BootClear(p)
       PROVE  HandlersInTime' /\ ToldAreDeaf'
  BY <1>11 DEF BootClear
<1>12. ASSUME NEW p \in Procs, Crash(p)
       PROVE  HandlersInTime' /\ ToldAreDeaf'
  BY <1>12 DEF Crash
<1>13. CASE UNCHANGED vars
  BY <1>13 DEF vars
<1>. QED
  BY <1>1, <1>2, <1>3, <1>4, <1>5, <1>6, <1>7, <1>8, <1>9, <1>10, <1>11, <1>12,
     <1>13 DEF Next

\* Whoever was told to go when another device of the same process took the character
\* over is out for good, however the handlers overlap and whatever fails.
THEOREM ToldAlwaysOut == Spec => []ToldIsOut
<1>1. Init => HandlersInTime /\ ToldAreDeaf
  BY DEF Init, HandlersInTime, ToldAreDeaf
<1>2. TypeOK /\ HandlersInTime /\ ToldAreDeaf /\ [Next]_vars
        => (HandlersInTime /\ ToldAreDeaf)'
  BY DeafStep DEF SessionInv
<1>3. TypeOK /\ ToldAreDeaf => ToldIsOut
  BY DEF ToldAreDeaf, Deaf, ToldIsOut, TypeOK
<1>. QED
  BY <1>1, <1>2, <1>3, SessionTypeCorrect, PTL DEF Spec

-------------------------------------------------------------------------------
(* Handlers that run one at a time.                                        *)

Taking(c) == pc[c] \notin {"idle", "ready", "failed"}
Leaving(c) == dpc[c] \in {"clear", "delete"}

\* Positions of a take-over that has dealt with the previous connection.
Past == {"unbind", "unset", "delete", "update", "set", "bind", "setBound"}

OneRuns ==
    /\ \A c, d \in Conns : Running(c) /\ Running(d) => c = d
    /\ \A c \in Conns : Taking(c) => c = last /\ ~Leaving(c) /\ c \notin stray

\* What a take-over under way has done so far.
TakesOver ==
    \A c \in Conns :
        /\ pc[c] \in {"set", "bind", "setBound"} => channel = c
        /\ pc[c] \in {"bind", "setBound"} => session
        /\ pc[c] = "setBound" => c \in listening

\* An open connection that listens is about to own the character or owns it, or it is
\* a stray.
ListenersOwn ==
    /\ \A d \in listening \union stray : sock[d] # "new"
    /\ last \in stray => listening \subseteq stray
    /\ \A d \in listening \ stray : sock[d] = "open" /\ pc[d] # "setBound" =>
        /\ pc[d] = "ready" /\ channel = d /\ session
        /\ \A c \in Conns : pc[c] \notin Past /\ ~Leaving(c)
    /\ last # None /\ pc[last] = "ready" /\ sock[last] = "open" => last \in listening

OrderInv == orderly => OneRuns /\ TakesOver /\ ListenersOwn /\ hooked \subseteq listening

\* While nothing failed either, a character with a channel or a session has a handler
\* at work on it, or a connection whose end will be heard.
Cared ==
    /\ \A c \in Conns : Taking(c) => sock[c] = "open"
    /\ \A c \in Conns : dpc[c] = "delete" => channel = None
    /\ Quiet =>
        \/ channel = None /\ ~session
        \/ channel # None /\ sock[channel] = "open" /\ channel \in hooked

CaredInv == orderly /\ faults = 0 => Cared

LEMMA OrderStep ==
    ASSUME TypeOK, HandlersInTime, OrderInv, [Next]_vars
    PROVE  OrderInv'
<1>. USE SocketSessionAssumption DEF TypeOK, HandlersInTime, OrderInv, OneRuns, TakesOver,
     ListenersOwn, Taking, Leaving, Running, Quiet, Past, db, connv, hist
<1>1. ASSUME NEW c \in Conns, Connect(c)
      PROVE  OrderInv'
  <2>. SUFFICES ASSUME orderly' PROVE OrderInv'
    OBVIOUS
  <2>1. orderly /\ Quiet
    BY <1>1, Zenon DEF Connect
  <2>2. \A d \in Conns : ~Taking(d) /\ ~Leaving(d)
    BY <2>1 DEF Quiet, Running
  <2>3. \A d \in Conns : pc'[d] = IF d = c THEN "has" ELSE pc[d]
    BY <1>1 DEF Connect, Goto
  <2>4. \A d \in Conns : sock'[d] = IF d = c THEN "open" ELSE sock[d]
    BY <1>1 DEF Connect
  <2>5. /\ last' = c /\ sock[c] = "new" /\ stray' = stray /\ dpc' = dpc
        /\ channel' = channel /\ session' = session
        /\ listening' = listening /\ hooked' = hooked
    BY <1>1 DEF Connect
  <2>6. OneRuns /\ TakesOver /\ ListenersOwn /\ hooked \subseteq listening
    BY <2>1
  <2>7. c \notin listening \union stray
    BY <2>5, <2>6
  <2>8. OneRuns'
    <3>1. \A d \in Conns : Running(d)' => d = c
      BY <2>2, <2>3, <2>5
    <3>2. ~Leaving(c)'
      BY <2>2, <2>5
    <3>. QED
      BY <3>1, <3>2, <2>5, <2>7
  <2>9. TakesOver'
    BY <2>2, <2>3
  <2>10. ListenersOwn'
    <3>1. \A d \in listening \union stray : sock'[d] # "new"
      BY <2>4, <2>6
    <3>2. \A d \in listening \ stray : sock'[d] = "open" =>
              pc'[d] = "ready" /\ channel = d /\ session
      BY <2>2, <2>3, <2>4, <2>6, <2>7
    <3>3. \A d \in Conns : pc'[d] \notin Past /\ ~Leaving(d)'
      BY <2>2, <2>3, <2>5
    <3>4. pc'[c] = "has" /\ last' = c /\ c \notin stray'
      BY <2>3, <2>5, <2>7
    <3>. QED
      BY <3>1, <3>2, <3>3, <3>4, <2>5
  <2>. QED
    BY <2>5, <2>6, <2>8, <2>9, <2>10
<1>2. ASSUME NEW c \in Conns, HasSession(c)
      PROVE  OrderInv'
  BY <1>2 DEF HasSession, Goto
<1>3. ASSUME NEW c \in Conns, FindPrevious(c)
      PROVE  OrderInv'
  <2>. SUFFICES ASSUME orderly' PROVE OrderInv'
    OBVIOUS
  <2>1. /\ Taking(c) /\ orderly /\ UNCHANGED <<db, sock, dpc, last>>
        /\ pc[c] = "find" /\ pc'[c] \in {"unbind", "update"}
        /\ \A d \in Conns \ {c} : pc'[d] = pc[d]
    BY <1>3 DEF FindPrevious, Goto
  <2>2. /\ ~Leaving(c) /\ last = c /\ c \notin stray
        /\ \A d \in Conns \ {c} : ~Taking(d) /\ ~Leaving(d)
    BY <2>1
  <2>3. \A d \in Conns : ~Leaving(d)'
    BY <2>1, <2>2
  <2>4. c \notin listening \/ sock[c] # "open"
    BY <2>1, <2>2
  <2>5. CASE Local(c, channel)
    <3>1. /\ listening' = listening \ {channel} /\ hooked' = hooked \ {channel}
          /\ stray' = stray
      BY <2>5, <1>3 DEF FindPrevious
    <3>2. \A d \in listening' \ stray : sock[d] # "open"
      BY <3>1, <2>1, <2>2
    <3>3. OneRuns' /\ TakesOver'
      BY <2>1, <2>2, <2>3, <3>1
    <3>. QED
      BY <2>1, <2>2, <3>1, <3>2, <3>3
  <2>6. CASE ~Local(c, channel)
    <3>1. /\ listening' = listening /\ hooked' = hooked
          /\ stray' = stray \union {d \in listening : d = channel /\ sock[d] = "open"}
      BY <2>6, <1>3 DEF FindPrevious
    <3>2. \A d \in listening \ stray' : sock[d] # "open"
      BY <3>1, <2>1, <2>2
    <3>3. c \notin stray'
      BY <2>2, <2>4, <3>1
    <3>4. OneRuns' /\ TakesOver'
      BY <2>1, <2>2, <2>3, <3>3
    <3>. QED
      BY <2>1, <2>2, <3>1, <3>2, <3>3, <3>4
  <2>. QED
    BY <2>5, <2>6
<1>4. ASSUME NEW c \in Conns, Unbind(c)
      PROVE  OrderInv'
  BY <1>4 DEF Unbind, Goto
<1>5. ASSUME NEW c \in Conns, UnsetBound(c) \/ DeleteSession(c)
      PROVE  OrderInv'
  <2>. SUFFICES ASSUME orderly' PROVE OrderInv'
    OBVIOUS
  <2>1. /\ Taking(c) /\ orderly /\ UNCHANGED <<sock, dpc, last, stray>>
        /\ \E l : pc' = [pc EXCEPT ![c] = l]
    BY <1>5 DEF UnsetBound, DeleteSession, Goto
  <2>2. /\ ~Leaving(c) /\ last = c /\ pc[c] \notin {"ready", "failed"} /\ c \notin stray
        /\ \A d \in Conns \ {c} : ~Taking(d) /\ ~Leaving(d) /\ pc'[d] = pc[d]
    BY <2>1
  <2>3. \A d \in Conns : ~Leaving(d)'
    BY <2>1, <2>2
  <2>4. OneRuns'
    BY <2>1, <2>2, <2>3
  <2>5. TakesOver'
    <3>1. \A d \in Conns \ {c} : pc'[d] \in {"idle", "ready", "failed"}
      BY <2>2
    <3>2. pc'[c] \in {"delete", "update"}
      <4>1. CASE UnsetBound(c)
        BY <4>1 DEF UnsetBound, Goto
      <4>2. CASE DeleteSession(c)
        BY <4>2 DEF DeleteSession, Goto
      <4>. QED
        BY <1>5, <4>1, <4>2
    <3>. QED
      BY <3>1, <3>2
  <2>6. ListenersOwn' /\ hooked' \subseteq listening'
    BY <1>5, <2>1, <2>2, <2>3 DEF UnsetBound, DeleteSession, Goto
  <2>. QED
    BY <2>4, <2>5, <2>6
<1>6. ASSUME NEW c \in Conns, Update(c) \/ SetSession(c)
      PROVE  OrderInv'
  <2>. SUFFICES ASSUME orderly' PROVE OrderInv'
    OBVIOUS
  <2>1. /\ Taking(c) /\ orderly /\ UNCHANGED <<sock, dpc, last, stray>>
        /\ \E l : pc' = [pc EXCEPT ![c] = l]
    BY <1>6 DEF Update, SetSession, Goto
  <2>2. /\ ~Leaving(c) /\ last = c /\ pc[c] \notin {"ready", "failed"} /\ c \notin stray
        /\ \A d \in Conns \ {c} : ~Taking(d) /\ ~Leaving(d) /\ pc'[d] = pc[d]
    BY <2>1
  <2>3. \A d \in Conns : ~Leaving(d)'
    BY <2>1, <2>2
  <2>4. OneRuns'
    BY <2>1, <2>2, <2>3
  <2>5. TakesOver'
    <3>1. \A d \in Conns \ {c} : pc'[d] \in {"idle", "ready", "failed"}
      BY <2>2
    <3>2. CASE Update(c)
      BY <3>1, <3>2 DEF Update, Goto
    <3>3. CASE SetSession(c)
      <4>1. pc'[c] = "bind" /\ channel' = c /\ session' = TRUE
        BY <3>3 DEF SetSession, Goto
      <4>. QED
        BY <3>1, <4>1
    <3>. QED
      BY <1>6, <3>2, <3>3
  <2>6. ListenersOwn' /\ hooked' \subseteq listening'
    BY <1>6, <2>1, <2>2, <2>3 DEF Update, SetSession, Goto
  <2>. QED
    BY <2>4, <2>5, <2>6
<1>7. ASSUME NEW c \in Conns, Bind(c) \/ SetBound(c)
      PROVE  OrderInv'
  <2>. SUFFICES ASSUME orderly' PROVE OrderInv'
    OBVIOUS
  <2>1. /\ Taking(c) /\ orderly /\ UNCHANGED <<sock, dpc, last, stray>>
        /\ \E l : pc' = [pc EXCEPT ![c] = l]
    BY <1>7 DEF Bind, SetBound, Goto
  <2>2. /\ ~Leaving(c) /\ last = c /\ pc[c] \notin {"ready", "failed"} /\ c \notin stray
        /\ \A d \in Conns \ {c} : ~Taking(d) /\ ~Leaving(d) /\ pc'[d] = pc[d]
    BY <2>1
  <2>3. \A d \in Conns : ~Leaving(d)'
    BY <2>1, <2>2
  <2>4. OneRuns'
    BY <2>1, <2>2, <2>3
  <2>5. TakesOver'
    <3>1. \A d \in Conns \ {c} : pc'[d] \in {"idle", "ready", "failed"}
      BY <2>2
    <3>2. CASE Bind(c)
      <4>1. /\ channel' = channel /\ session' = session /\ channel = c /\ session
            /\ pc'[c] = "setBound" /\ c \in listening'
        BY <3>2, <2>1 DEF Bind, Goto
      <4>. QED
        BY <3>1, <4>1
    <3>3. CASE SetBound(c)
      BY <3>1, <3>3 DEF SetBound, Goto
    <3>. QED
      BY <1>7, <3>2, <3>3
  <2>6. ListenersOwn' /\ hooked' \subseteq listening'
    BY <1>7, <2>1, <2>2, <2>3 DEF Bind, SetBound, Goto
  <2>. QED
    BY <2>4, <2>5, <2>6
<1>8. ASSUME NEW c \in Conns, Fails(c)
      PROVE  OrderInv'
  BY <1>8 DEF Fails, Goto
<1>9. ASSUME NEW c \in Conns, Drop(c)
      PROVE  OrderInv'
  <2>. SUFFICES ASSUME orderly' PROVE OrderInv'
    OBVIOUS
  <2>1. /\ orderly /\ \A d \in Conns : ~Taking(d) /\ ~Leaving(d)
        /\ UNCHANGED <<db, pc, previous, listening, hooked, last>>
        /\ \A d \in Conns : sock'[d] = IF d = c THEN "closed" ELSE sock[d]
        /\ sock[c] = "open"
        /\ stray' = IF c \in stray \intersect hooked THEN stray \union listening ELSE stray
    BY <1>9 DEF Drop
  <2>2. \A d \in Conns : dpc'[d] = IF d = c /\ c \in hooked THEN "clear" ELSE dpc[d]
    BY <1>9 DEF Drop
  <2>3. OneRuns' /\ TakesOver'
    BY <2>1, <2>2
  <2>4. c \in hooked => \A d \in listening \ stray' : sock'[d] # "open"
    BY <2>1
  <2>5. /\ \A d \in listening' \union stray' : sock'[d] # "new"
        /\ last' \in stray' => listening' \subseteq stray'
        /\ last' # None /\ pc'[last'] = "ready" /\ sock'[last'] = "open" =>
               last' \in listening'
    BY <2>1
  <2>6. \A d \in listening' \ stray' : sock'[d] = "open" /\ pc'[d] # "setBound" =>
            /\ pc'[d] = "ready" /\ channel' = d /\ session'
            /\ \A e \in Conns : pc'[e] \notin Past /\ ~Leaving(e)'
    BY <2>1, <2>2, <2>4
  <2>. QED
    BY <2>1, <2>3, <2>5, <2>6
<1>10. ASSUME NEW c \in Conns, ClearChannel(c) \/ EndSession(c) \/ DisconnectFails(c)
       PROVE  OrderInv'
  <2>. SUFFICES ASSUME orderly' PROVE OrderInv'
    OBVIOUS
  <2>1. /\ Leaving(c) /\ orderly /\ UNCHANGED <<sock, pc, listening, hooked, last, stray>>
        /\ \E l : dpc' = [dpc EXCEPT ![c] = l]
    BY <1>10 DEF ClearChannel, EndSession, DisconnectFails
  <2>2. \A d \in Conns : ~Taking(d) /\ (d # c => ~Leaving(d) /\ ~Leaving(d)')
    BY <2>1
  <2>3. OneRuns' /\ TakesOver'
    BY <2>1, <2>2
  <2>4. \A d \in listening \ stray : sock[d] # "open"
    BY <2>1, <2>2
  <2>5. ListenersOwn'
    BY <2>1, <2>2, <2>4
  <2>. QED
    BY <2>1, <2>3, <2>5
<1>11. ASSUME NEW p \in Procs, BootClear(p)
       PROVE  OrderInv'
  BY <1>11 DEF BootClear
<1>12. ASSUME NEW p \in Procs, Crash(p)
       PROVE  OrderInv'
  BY <1>12 DEF Crash
<1>13. CASE UNCHANGED vars
  BY <1>13 DEF vars
<1>. QED
  BY <1>1, <1>2, <1>3, <1>4, <1>5, <1>6, <1>7, <1>8, <1>9, <1>10, <1>11, <1>12,
     <1>13 DEF Next

\* As long as handlers ran one at a time, the latest connection owns the character once
\* it is ready and but for strays alone, whatever failed or crashed before it.
THEOREM LatestAlwaysOwns == Spec => []LatestOwns
<1>1. Init => HandlersInTime /\ ToldAreDeaf /\ OrderInv
  BY SocketSessionAssumption DEF Init, HandlersInTime, ToldAreDeaf, OrderInv, OneRuns, TakesOver,
     ListenersOwn, Running, Taking
<1>2. TypeOK /\ HandlersInTime /\ ToldAreDeaf /\ OrderInv /\ [Next]_vars
        => (HandlersInTime /\ ToldAreDeaf /\ OrderInv)'
  BY DeafStep, OrderStep DEF SessionInv
<1>3. TypeOK /\ OrderInv => LatestOwns
  <2>. SUFFICES ASSUME TypeOK, OrderInv, orderly, Quiet, last # None, sock[last] = "open",
                       pc[last] = "ready"
                PROVE  /\ last \notin stray => channel = last /\ session
                       /\ \A c \in listening : sock[c] = "open" => c = last \/ c \in stray
    BY DEF LatestOwns
  <2>1. ListenersOwn /\ last \in listening
    BY DEF OrderInv, ListenersOwn
  <2>2. \A c \in listening : pc[c] # "setBound"
    BY DEF Quiet, Running, TypeOK
  <2>. QED
    BY <2>1, <2>2 DEF ListenersOwn
<1>. QED
  BY <1>1, <1>2, <1>3, SessionTypeCorrect, PTL DEF Spec

-------------------------------------------------------------------------------
(* The end of a session.                                                   *)

LEMMA CaredStep ==
    ASSUME TypeOK, HandlersInTime, OrderInv, CaredInv, [Next]_vars
    PROVE  CaredInv'
<1>. USE SocketSessionAssumption DEF TypeOK, HandlersInTime, Taking, Leaving, Running, db, connv,
     hist
<1>. SUFFICES ASSUME orderly', faults' = 0 PROVE Cared'
  BY DEF CaredInv
<1>0. faults' # faults + 1
  OBVIOUS
<1>1. ASSUME NEW c \in Conns PROVE ~Fails(c) /\ ~DisconnectFails(c)
  BY <1>0, Zenon DEF Fails, DisconnectFails
<1>2. ASSUME NEW p \in Procs PROVE ~Crash(p)
  BY <1>0, Zenon DEF Crash
<1>3. ASSUME orderly, faults = 0 PROVE Cared /\ OneRuns /\ TakesOver
  BY <1>3 DEF CaredInv, OrderInv
\* A take-over goes on: at its end the connection it is of owns the character.
<1>4. ASSUME NEW c \in Conns, Taking(c), UNCHANGED <<sock, dpc, last, orderly, faults>>,
             NEW l, l \notin {"idle", "failed"}, pc' = [pc EXCEPT ![c] = l],
             l = "ready" => channel' = c /\ c \in hooked'
      PROVE  Cared'
  <2>1. /\ sock[c] = "open" /\ dpc[c] # "delete"
        /\ \A d \in Conns \ {c} : ~Taking(d) /\ ~Leaving(d) /\ pc'[d] = pc[d]
    BY <1>3, <1>4 DEF Cared, OneRuns
  <2>2. /\ \A d \in Conns : Taking(d)' => sock'[d] = "open"
        /\ \A d \in Conns : dpc'[d] # "delete"
    BY <1>4, <2>1
  <2>3. pc'[c] = l /\ (l # "ready" => ~Quiet')
    BY <1>4 DEF Quiet
  <2>4. l = "ready" => channel' # None /\ sock'[channel'] = "open" /\ channel' \in hooked'
    BY <1>4, <2>1
  <2>. QED
    BY <2>2, <2>3, <2>4 DEF Cared
<1>5. ASSUME NEW c \in Conns, Connect(c)
      PROVE  Cared'
  <2>1. /\ orderly /\ faults = 0 /\ Quiet
        /\ \A d \in Conns : pc'[d] = IF d = c THEN "has" ELSE pc[d]
        /\ sock'[c] = "open" /\ UNCHANGED <<channel, dpc>>
    BY <1>5 DEF Connect, Goto
  <2>2. ~Quiet'
    BY <2>1 DEF Quiet
  <2>. QED
    BY <1>3, <2>1, <2>2 DEF Cared, Quiet
<1>6. ASSUME NEW c \in Conns, HasSession(c)
      PROVE  Cared'
  BY <1>4, <1>6 DEF HasSession, Goto
<1>7. ASSUME NEW c \in Conns, FindPrevious(c)
      PROVE  Cared'
  BY <1>4, <1>7 DEF FindPrevious, Goto
<1>8. ASSUME NEW c \in Conns, Unbind(c)
      PROVE  Cared'
  BY <1>4, <1>8 DEF Unbind, Goto
<1>9. ASSUME NEW c \in Conns, UnsetBound(c) \/ DeleteSession(c)
      PROVE  Cared'
  BY <1>4, <1>9 DEF UnsetBound, DeleteSession, Goto
<1>10. ASSUME NEW c \in Conns, Update(c) \/ SetSession(c)
       PROVE  Cared'
  BY <1>4, <1>10 DEF Update, SetSession, Goto
<1>11. ASSUME NEW c \in Conns, Bind(c)
       PROVE  Cared'
  BY <1>4, <1>11 DEF Bind, Goto
<1>12. ASSUME NEW c \in Conns, SetBound(c)
       PROVE  Cared'
  <2>1. orderly /\ faults = 0
    BY <1>12 DEF SetBound
  <2>2. channel' = c /\ c \in hooked'
    BY <1>3, <1>12, <2>1 DEF SetBound, TakesOver
  <2>. QED
    BY <1>4, <1>12, <2>2 DEF SetBound, Goto
\* The owner leaves, and its handler is at work; or somebody else does.
<1>13. ASSUME NEW c \in Conns, Drop(c)
       PROVE  Cared'
  <2>1. /\ orderly /\ faults = 0 /\ \A d \in Conns : ~Taking(d) /\ ~Leaving(d)
        /\ UNCHANGED <<db, pc, hooked>>
        /\ \A d \in Conns : sock'[d] = IF d = c THEN "closed" ELSE sock[d]
        /\ \A d \in Conns : dpc'[d] = IF d = c /\ c \in hooked THEN "clear" ELSE dpc[d]
    BY <1>13 DEF Drop, Quiet
  <2>2. Cared /\ Quiet
    BY <1>3, <2>1 DEF Quiet
  <2>3. c \in hooked => ~Quiet'
    BY <2>1 DEF Quiet
  <2>. QED
    BY <2>1, <2>2, <2>3 DEF Cared
<1>14. ASSUME NEW c \in Conns, ClearChannel(c)
       PROVE  Cared'
  <2>1. /\ UNCHANGED <<sock, pc, orderly, faults>> /\ channel' = None
        /\ dpc'[c] = "delete"
    BY <1>14 DEF ClearChannel
  <2>2. Cared /\ ~Quiet'
    BY <1>3, <2>1 DEF Quiet
  <2>. QED
    BY <2>1, <2>2 DEF Cared
<1>15. ASSUME NEW c \in Conns, EndSession(c)
       PROVE  Cared'
  <2>1. /\ UNCHANGED <<channel, sock, pc, orderly, faults>> /\ session' = FALSE
        /\ dpc[c] = "delete" /\ dpc' = [dpc EXCEPT ![c] = "over"]
    BY <1>15 DEF EndSession
  <2>2. Cared /\ channel' = None
    BY <1>3, <2>1 DEF Cared
  <2>. QED
    BY <2>1, <2>2 DEF Cared
<1>16. ASSUME NEW p \in Procs, BootClear(p)
       PROVE  Cared'
  <2>1. /\ orderly /\ faults = 0 /\ ~session /\ session' = FALSE
        /\ UNCHANGED <<channel, sock, pc, hooked, dpc>>
    BY <1>16 DEF BootClear
  <2>2. Quiet' <=> Quiet
    BY <2>1 DEF Quiet
  <2>. QED
    BY <1>3, <2>1, <2>2 DEF Cared
<1>17. CASE UNCHANGED vars
  <2>1. Quiet' <=> Quiet
    BY <1>17 DEF vars, Quiet
  <2>. QED
    BY <1>3, <1>17, <2>1 DEF vars, Cared
<1>. QED
  BY <1>1, <1>2, <1>5, <1>6, <1>7, <1>8, <1>9, <1>10, <1>11, <1>12, <1>13, <1>14, <1>15,
     <1>16, <1>17 DEF Next

\* As long as handlers ran one at a time and nothing failed, nothing is left of the
\* session when the last socket of the character has closed.
THEOREM NeverAGhost == Spec => []NoGhost
<1>1. Init => HandlersInTime /\ ToldAreDeaf /\ OrderInv /\ CaredInv
  BY SocketSessionAssumption DEF Init, HandlersInTime, ToldAreDeaf, OrderInv, OneRuns, TakesOver,
     ListenersOwn, CaredInv, Cared, Running, Taking
<1>2. TypeOK /\ HandlersInTime /\ ToldAreDeaf /\ OrderInv /\ CaredInv /\ [Next]_vars
        => (HandlersInTime /\ ToldAreDeaf /\ OrderInv /\ CaredInv)'
  BY DeafStep, OrderStep, CaredStep DEF SessionInv
<1>3. TypeOK /\ CaredInv => NoGhost
  BY DEF TypeOK, CaredInv, Cared, NoGhost
<1>. QED
  BY <1>1, <1>2, <1>3, SessionTypeCorrect, PTL DEF Spec
-------------------------------------------------------------------------------
(* Who may change what the others go by.                                   *)

\* Whoever is about to clear the channel has it or is a stray, and only then deletes the
\* session.
LeavesOwn ==
    orderly => \A c \in Conns : /\ dpc[c] = "clear" => channel = c \/ c \in stray
                                /\ dpc[c] = "delete" => channel = None

LEMMA LeavesStep ==
    ASSUME TypeOK, OrderInv, LeavesOwn, [Next]_vars
    PROVE  LeavesOwn'
<1>. USE SocketSessionAssumption DEF TypeOK, Taking, Leaving, Running, db, connv, hist
<1>. SUFFICES ASSUME orderly' PROVE LeavesOwn'
  BY DEF LeavesOwn
<1>1. orderly
  BY DEF Next, vars, Connect, HasSession, FindPrevious, Unbind, UnsetBound, DeleteSession,
     Update, SetSession, Bind, SetBound, Fails, Drop, ClearChannel, EndSession,
     DisconnectFails, BootClear, Crash
<1>2. OneRuns /\ ListenersOwn /\ hooked \subseteq listening
  BY <1>1 DEF OrderInv
<1>30. stray \subseteq stray'
  <2>1. ASSUME NEW c \in Conns, FindPrevious(c)
        PROVE  stray \subseteq stray'
    BY <2>1 DEF FindPrevious
  <2>2. ASSUME NEW c \in Conns, Drop(c)
        PROVE  stray \subseteq stray'
    BY <2>2 DEF Drop
  <2>3. ASSUME NEW c \in Conns,
               \/ Connect(c) \/ HasSession(c) \/ Unbind(c) \/ UnsetBound(c) \/ DeleteSession(c)
               \/ Update(c) \/ SetSession(c) \/ Bind(c) \/ SetBound(c) \/ Fails(c)
               \/ ClearChannel(c) \/ EndSession(c) \/ DisconnectFails(c)
        PROVE  stray' = stray
    BY <2>3 DEF Connect, HasSession, Unbind, UnsetBound, DeleteSession, Update, SetSession,
       Bind, SetBound, Fails, ClearChannel, EndSession, DisconnectFails
  <2>4. ASSUME NEW p \in Procs, BootClear(p) \/ Crash(p)
        PROVE  stray' = stray
    BY <2>4 DEF BootClear, Crash
  <2>5. CASE UNCHANGED vars
    BY <2>5 DEF vars
  <2>. QED
    BY <2>1, <2>2, <2>3, <2>4, <2>5 DEF Next
<1>3. \A d \in Conns : /\ dpc[d] = "clear" => channel = d \/ d \in stray'
                       /\ dpc[d] = "delete" => channel = None
  BY <1>1, <1>30 DEF LeavesOwn
<1>4. ASSUME NEW c \in Conns,
             \/ Connect(c) \/ HasSession(c) \/ FindPrevious(c) \/ Unbind(c) \/ UnsetBound(c)
             \/ DeleteSession(c) \/ SetSession(c) \/ Bind(c) \/ SetBound(c) \/ Fails(c)
             \/ EndSession(c)
      PROVE  LeavesOwn'
  <2>1. channel' = channel /\ \A d \in Conns : dpc'[d] \in {dpc[d], "over"}
    BY <1>4 DEF Connect, HasSession, FindPrevious, Unbind, UnsetBound, DeleteSession,
       SetSession, Bind, SetBound, Fails, EndSession
  <2>. QED
    BY <1>3, <2>1 DEF LeavesOwn
\* No handler of a disconnect runs beside a take-over.
<1>5. ASSUME NEW c \in Conns, Update(c)
      PROVE  LeavesOwn'
  <2>1. Running(c) /\ ~Leaving(c) /\ dpc' = dpc
    BY <1>2, <1>5 DEF Update, OneRuns
  <2>2. \A d \in Conns : ~Leaving(d)
    BY <1>2, <2>1 DEF OneRuns
  <2>. QED
    BY <2>1, <2>2 DEF LeavesOwn
\* A connection with the disconnect handler listens, hence has the channel.
<1>6. ASSUME NEW c \in Conns, Drop(c)
      PROVE  LeavesOwn'
  <2>1. channel' = channel /\ sock[c] = "open" /\ pc[c] # "setBound"
    BY <1>6 DEF Drop, Quiet
  <2>2. \A d \in Conns : dpc'[d] = IF d = c /\ c \in hooked THEN "clear" ELSE dpc[d]
    BY <1>6 DEF Drop
  <2>3. c \in hooked => channel = c \/ c \in stray'
    BY <1>2, <1>30, <2>1 DEF ListenersOwn
  <2>. QED
    BY <1>3, <2>1, <2>2, <2>3 DEF LeavesOwn
<1>7. ASSUME NEW c \in Conns, ClearChannel(c)
      PROVE  LeavesOwn'
  <2>1. Leaving(c) /\ channel' = None /\ dpc' = [dpc EXCEPT ![c] = "delete"]
    BY <1>7 DEF ClearChannel
  <2>2. \A d \in Conns \ {c} : ~Leaving(d)
    BY <1>2, <2>1 DEF OneRuns
  <2>. QED
    BY <2>1, <2>2 DEF LeavesOwn
<1>8. ASSUME NEW c \in Conns, DisconnectFails(c)
      PROVE  LeavesOwn'
  <2>1. channel' = channel /\ \A d \in Conns : dpc'[d] \in {dpc[d], "over"}
    BY <1>8 DEF DisconnectFails
  <2>. QED
    BY <1>3, <2>1 DEF LeavesOwn
<1>9. ASSUME NEW p \in Procs, BootClear(p) \/ Crash(p)
      PROVE  LeavesOwn'
  <2>1. channel' = channel /\ \A d \in Conns : dpc'[d] \in {dpc[d], "over"}
    BY <1>9 DEF BootClear, Crash
  <2>. QED
    BY <1>3, <2>1 DEF LeavesOwn
<1>10. CASE UNCHANGED vars
  BY <1>3, <1>10 DEF vars, LeavesOwn
<1>. QED
  BY <1>4, <1>5, <1>6, <1>7, <1>8, <1>9, <1>10 DEF Next

\* The channel goes to the latest connection while it takes the character over, or is
\* given up by the connection that has it or by a stray.
ChannelMoves ==
    \/ channel' = last /\ Taking(last)
    \/ channel' = None /\ \E c \in {channel} \union stray : Leaving(c)

\* The session is made for the channel, and ended in a take-over or after the channel.
SessionMoves ==
    \/ session' /\ channel = last /\ Taking(last)
    \/ ~session' /\ Taking(last)
    \/ ~session' /\ channel = None

\* As long as handlers run one at a time, no disconnect but a stray's clears the channel
\* of a successor (ClearChannel and EndSession ask nothing), nor ends its session,
\* whatever fails; the rest of the code leaves both alone.
THEOREM OnlyTheOwnerLeaves ==
    Spec => [][orderly' => /\ channel' # channel => ChannelMoves
                           /\ session' # session => SessionMoves]_vars
<1>. DEFINE Step == orderly' => /\ channel' # channel => ChannelMoves
                                /\ session' # session => SessionMoves
<1>1. Init => HandlersInTime /\ ToldAreDeaf /\ OrderInv /\ LeavesOwn
  BY SocketSessionAssumption DEF Init, HandlersInTime, ToldAreDeaf, OrderInv, OneRuns, TakesOver,
     ListenersOwn, LeavesOwn, Running, Taking
<1>2. TypeOK /\ HandlersInTime /\ ToldAreDeaf /\ OrderInv /\ LeavesOwn /\ [Next]_vars
        => (HandlersInTime /\ ToldAreDeaf /\ OrderInv /\ LeavesOwn)'
  BY DeafStep, OrderStep, LeavesStep DEF SessionInv
<1>3. TypeOK /\ OrderInv /\ LeavesOwn /\ [Next]_vars => [Step]_vars
  <2>. SUFFICES ASSUME TypeOK, OrderInv, LeavesOwn, Next, orderly'
                PROVE  /\ channel' # channel => ChannelMoves
                       /\ session' # session => SessionMoves
    OBVIOUS
  <2>. USE DEF TypeOK, ChannelMoves, SessionMoves, Taking, Leaving, db, connv, hist
  <2>1. orderly
    BY DEF Next, Connect, HasSession, FindPrevious, Unbind, UnsetBound, DeleteSession,
       Update, SetSession, Bind, SetBound, Fails, Drop, ClearChannel, EndSession,
       DisconnectFails, BootClear, Crash
  <2>2. \A c \in Conns : Taking(c) => c = last
    BY <2>1 DEF OrderInv, OneRuns
  <2>3. TakesOver
    BY <2>1 DEF OrderInv
  <2>4. ASSUME NEW c \in Conns, Update(c) \/ SetSession(c) \/ DeleteSession(c)
        PROVE  /\ channel' # channel => ChannelMoves
               /\ session' # session => SessionMoves
    <3>1. pc[c] \in {"update", "set", "delete"} /\ c = last
      BY <2>2, <2>4 DEF Update, SetSession, DeleteSession
    <3>. QED
      BY <2>3, <2>4, <3>1 DEF Update, SetSession, DeleteSession, TakesOver
  <2>5. ASSUME NEW c \in Conns, ClearChannel(c) \/ EndSession(c)
        PROVE  /\ channel' # channel => ChannelMoves
               /\ session' # session => SessionMoves
    BY <2>1, <2>5 DEF LeavesOwn, ClearChannel, EndSession
  <2>6. ASSUME NEW p \in Procs, BootClear(p)
        PROVE  UNCHANGED <<channel, session>>
    BY <2>6 DEF BootClear
  <2>7. ASSUME \/ \E c \in Conns :
                    \/ Connect(c) \/ HasSession(c) \/ FindPrevious(c) \/ Unbind(c)
                    \/ UnsetBound(c) \/ Bind(c) \/ SetBound(c) \/ Fails(c) \/ Drop(c)
                    \/ DisconnectFails(c)
               \/ \E p \in Procs : Crash(p)
        PROVE  UNCHANGED <<channel, session>>
    BY <2>7 DEF Connect, HasSession, FindPrevious, Unbind, UnsetBound, Bind, SetBound, Fails,
       Drop, DisconnectFails, Crash
  <2>. QED
    BY <2>4, <2>5, <2>6, <2>7 DEF Next
<1>. QED
  BY <1>1, <1>2, <1>3, SessionTypeCorrect, PTL DEF Spec
===============================================================================
