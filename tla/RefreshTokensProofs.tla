-------------------------- MODULE RefreshTokensProofs --------------------------
(***************************************************************************)
(* Proofs about RefreshTokens for every set of requests and every clock.   *)
(***************************************************************************)
EXTENDS RefreshTokens, TLAPS

\* What the position of a request says about its kind and the tokens it holds.
Places ==
    \A r \in Requests :
        /\ pc[r] = "signed" => kind[r] \in {"login", "rotate"}
        /\ pc[r] = "added" => kind[r] = "rotate"
        /\ pc[r] = "cleared" => kind[r] = "change"
        /\ pc[r] \in {"stored", "plain", "hashed"} => kind[r] = "forgot"
        /\ pc[r] = "stored" => db = "firebase"
        /\ pc[r] \in {"idle", "begun"} => fresh[r] = 0
        /\ pc[r] \in {"signed", "added"} => fresh[r] \in Seconds
        /\ pc[r] = "done" /\ kind[r] = "login" => fresh[r] \in Seconds
        /\ pc[r] # "idle" /\ kind[r] \in {"refresh", "rotate"} => tok[r] \in Seconds
        /\ pc[r] = "granted" => tok[r] \in seen[r].tokens

\* Requests that are in flight together know it.
Overlap == \A x, y \in Requests : InFlight(x) /\ InFlight(y) /\ x # y => y \in beside[x]

\* A login or a rotation that has yet to write the list back.
Writing(q) == kind[q] \in {"login", "rotate"} /\ pc[q] \in {"begun", "signed", "added"}

\* An ended token that one of these has read will be written back by a request that
\* overlapped the end, or was written back before.
Enders == {e \in Requests : kind[e] \in {"logout", "change", "rotate"}}
EndedRead ==
    \A q \in Requests : Writing(q) =>
        \A t \in seen[q].tokens \cap ended : (\E e \in beside[q] : e \in Enders) \/ Revived(t)

\* What a refresh reads of the tokens that were ended before it began.
LateRead == \A r \in Requests : \A t \in seen[r].tokens \cap late[r] : Revived(t)

EndedInv == EndedStaysEnded /\ EndedRead /\ LateRead

\* A token that a login returned and nothing has ended or signed again.
Current(t) ==
    /\ \E l \in Requests : kind[l] = "login" /\ pc[l] = "done" /\ fresh[l] = t
    /\ t \notin ended
    /\ ~\E x \in Requests : kind[x] = "rotate" /\ fresh[x] = t

\* It is listed, and a request that is to write the list back has read it or overlapped
\* its login.
Beside(q, t) == \E l \in beside[q] : kind[l] = "login" /\ fresh[l] = t
LoginsKept == \A t \in Seconds : Current(t) => t \in tokens \/ Overwritten(t)
LoginsRead ==
    \A q \in Requests, t \in Seconds : Writing(q) /\ Current(t) =>
        t \in seen[q].tokens \/ Beside(q, t) \/ Overwritten(t)

\* A token that a request which overlapped r has written back.
Slipped(r, t) == \E q \in beside[r] : Wrote(q) /\ t \in seen[q].tokens \union {fresh[q]}
Fine(r, t) == under[t] = r \/ Slipped(r, t)

\* Between the two updates of a password change, and after them.
Changed(r) == kind[r] = "change" /\ password = Stored(r, 1)
ClearedSlips == \A r \in Requests : pc[r] = "cleared" => \A t \in tokens : Slipped(r, t)
ChangedFine == \A r \in Requests : Changed(r) => pc[r] = "done" /\ \A t \in tokens : Fine(r, t)
ChangedRead ==
    \A q, r \in Requests : Changed(r) /\ Writing(q) /\ q \notin beside[r] =>
        seen[q].password.secret = r /\ \A t \in seen[q].tokens : Fine(r, t)

ChangedInv == ClearedSlips /\ ChangedFine /\ ChangedRead

\* Only forgot stores a password that is not hashed.
ByForgot(p) == p.times = 0 => \E r \in Requests : r = p.secret /\ kind[r] = "forgot"
PlainKinds == ByForgot(password) /\ \A x \in Requests : ByForgot(seen[x].password)

\* A reset hashes the password it stored, or overlapped the request that stored this one.
Meddled(q) == db = "firebase" /\ \E x \in beside[q] : kind[x] \in {"forgot", "change"}
ResetsRead ==
    \A q \in Requests :
        /\ pc[q] = "stored" => password = Stored(q, 0) \/ Meddled(q)
        /\ pc[q] = "plain" => seen[q].password = Stored(q, 0) \/ Meddled(q)

\* The stored password is one the user knows, or the request that stored it has yet to
\* hash or to mail it, or never will, or it is one that a reset read from another.
Pending(r) ==
    \/ password.times = 0 /\ pc[r] \in {"stored", "plain"}
    \/ password.times = 1 /\ pc[r] = "hashed"
    \/ pc[r] = "dead"
PasswordAccounted ==
    \/ password.times = 1 /\ password.secret \in known
    \/ password.secret \in unsent
    \/ \E r \in Requests : r = password.secret /\ Pending(r)
    \/ \E q \in Requests : Garbled(q)

\* What storing the random password changes, whichever the database.
LEMMA PlainStored ==
    ASSUME NEW r \in Requests, ResetPlain(r)
    PROVE  /\ password' = Stored(r, 0)
           /\ pc' = [pc EXCEPT ![r] = "stored"] \/ pc' = [pc EXCEPT ![r] = "plain"]
           /\ seen' = seen \/ seen' = [seen EXCEPT ![r].password = Stored(r, 0)]
           /\ UNCHANGED <<tokens, db, now, kind, tok, fresh, late, beside, hist, secrets,
                          faults>>
  BY DEF ResetPlain, Goto

\* Every step keeps the types.
LEMMA TokensTypeStep ==
    ASSUME TypeOK, Places, [Next]_vars
    PROVE  TypeOK'
<1>. USE DEF reqv, hist, secrets, Stored
<1>. USE RefreshTokensAssumption DEF TypeOK, Places, Secrets
<1>1. ASSUME NEW r \in Requests, Begin(r)
      PROVE  TypeOK'
  BY <1>1 DEF Begin, Goto, user
<1>2. ASSUME NEW r \in Requests, Sign(r)
      PROVE  TypeOK'
  BY <1>2 DEF Sign, Goto, login, Seconds
<1>3. ASSUME NEW r \in Requests, Refuse(r)
      PROVE  TypeOK'
  BY <1>3 DEF Refuse, Goto
<1>4. ASSUME NEW r \in Requests, AddToken(r)
      PROVE  TypeOK'
  <2>1. fresh[r] \in Seconds /\ seen[r].tokens \subseteq Seconds
        /\ seen[r].password.secret \in Requests \union {Orig}
    BY <1>4 DEF AddToken
  <2>2. tokens' \subseteq Seconds /\ ended' \subseteq Seconds /\ given' \subseteq Seconds
    BY <2>1, <1>4 DEF AddToken
  <2>3. under' \in [Seconds -> Requests \union {Orig}]
    BY <2>1, <1>4 DEF AddToken
  <2>4. /\ pc' = [pc EXCEPT ![r] = "done"] \/ pc' = [pc EXCEPT ![r] = "added"]
        /\ UNCHANGED <<password, db, now, kind, seen, tok, fresh, late, beside, secrets,
                       faults>>
    BY <1>4 DEF AddToken, Goto
  <2>. QED
    BY <2>2, <2>3, <2>4
<1>5. ASSUME NEW r \in Requests, RemoveToken(r)
      PROVE  TypeOK'
  <2>1. fresh[r] \in Seconds /\ seen[r].tokens \subseteq Seconds
    BY <1>5 DEF RemoveToken
  <2>2. tok[r] \in Seconds
    BY <1>5 DEF RemoveToken
  <2>. QED
    BY <2>1, <2>2, <1>5 DEF RemoveToken, Goto
<1>6. ASSUME NEW r \in Requests, Logout(r)
      PROVE  TypeOK'
  BY <1>6 DEF Logout, Goto
<1>7. ASSUME NEW r \in Requests, Refresh(r)
      PROVE  TypeOK'
  BY <1>7 DEF Refresh, Goto
<1>8. ASSUME NEW r \in Requests, Invalidate(r)
      PROVE  TypeOK'
  BY <1>8 DEF Invalidate, Goto
<1>9. ASSUME NEW r \in Requests, ChangePassword(r)
      PROVE  TypeOK'
  BY <1>9 DEF ChangePassword, Goto
<1>10. ASSUME NEW r \in Requests, ResetPlain(r)
      PROVE  TypeOK'
  <2>1. password' \in [secret : Requests \union {Orig}, times : Nat]
    BY <1>10, PlainStored DEF Stored
  <2>2. pc' = [pc EXCEPT ![r] = "stored"] \/ pc' = [pc EXCEPT ![r] = "plain"]
    BY <1>10, PlainStored
  <2>3. seen' = seen \/ seen' = [seen EXCEPT ![r].password = Stored(r, 0)]
    BY <1>10, PlainStored
  <2>4. seen' \in [Requests -> [tokens : SUBSET Seconds,
                                password : [secret : Requests \union {Orig}, times : Nat]]]
    BY <2>3
  <2>5. UNCHANGED <<tokens, db, now, kind, tok, fresh, late, beside, hist, secrets, faults>>
    BY <1>10, PlainStored
  <2>. QED
    BY <2>1, <2>2, <2>4, <2>5
<1>11. ASSUME NEW r \in Requests, Reread(r)
      PROVE  TypeOK'
  BY <1>11 DEF Reread, Goto
<1>12. ASSUME NEW r \in Requests, ResetHash(r)
      PROVE  TypeOK'
  <2>1. password' \in [secret : Requests \union {Orig}, times : Nat]
    BY <1>12 DEF ResetHash
  <2>. QED
    BY <2>1, <1>12 DEF ResetHash, Goto
<1>13. ASSUME NEW r \in Requests, Mail(r)
      PROVE  TypeOK'
  BY <1>13 DEF Mail, Goto
<1>14. ASSUME NEW r \in Requests, MailLost(r)
      PROVE  TypeOK'
  BY <1>14 DEF MailLost, Goto
<1>15. ASSUME NEW r \in Requests, Crash(r)
      PROVE  TypeOK'
  BY <1>15 DEF Crash, Goto
<1>16. CASE Tick
  BY <1>16 DEF Tick, Seconds
<1>17. CASE UNCHANGED vars
  BY <1>17 DEF vars
<1>. QED
  BY <1>1, <1>2, <1>3, <1>4, <1>5, <1>6, <1>7, <1>8,
     <1>9, <1>10, <1>11, <1>12, <1>13, <1>14, <1>15, <1>16, <1>17
  DEF Next

\* Positions go with kinds and signed tokens.
LEMMA PlacesStep ==
    ASSUME TypeOK, Places, [Next]_vars
    PROVE  Places'
<1>. USE DEF reqv, hist, secrets
<1>. USE RefreshTokensAssumption DEF TypeOK, Places, InFlight
<1>1. ASSUME NEW r \in Requests, Begin(r)
      PROVE  Places'
  BY <1>1 DEF Begin, Goto, user
<1>2. ASSUME NEW r \in Requests, Sign(r)
      PROVE  Places'
  BY <1>2 DEF Sign, Goto, login
<1>3. ASSUME NEW r \in Requests, Refuse(r)
      PROVE  Places'
  BY <1>3 DEF Refuse, Goto
<1>4. ASSUME NEW r \in Requests, AddToken(r)
      PROVE  Places'
  BY <1>4 DEF AddToken, Goto
<1>5. ASSUME NEW r \in Requests, RemoveToken(r)
      PROVE  Places'
  BY <1>5 DEF RemoveToken, Goto
<1>6. ASSUME NEW r \in Requests, Logout(r)
      PROVE  Places'
  BY <1>6 DEF Logout, Goto
<1>7. ASSUME NEW r \in Requests, Refresh(r)
      PROVE  Places'
  BY <1>7 DEF Refresh, Goto
<1>8. ASSUME NEW r \in Requests, Invalidate(r)
      PROVE  Places'
  BY <1>8 DEF Invalidate, Goto
<1>9. ASSUME NEW r \in Requests, ChangePassword(r)
      PROVE  Places'
  BY <1>9 DEF ChangePassword, Goto
<1>10. ASSUME NEW r \in Requests, ResetPlain(r)
      PROVE  Places'
  BY <1>10 DEF ResetPlain, Goto
<1>11. ASSUME NEW r \in Requests, Reread(r)
      PROVE  Places'
  BY <1>11 DEF Reread, Goto
<1>12. ASSUME NEW r \in Requests, ResetHash(r)
      PROVE  Places'
  BY <1>12 DEF ResetHash, Goto
<1>13. ASSUME NEW r \in Requests, Mail(r)
      PROVE  Places'
  BY <1>13 DEF Mail, Goto
<1>14. ASSUME NEW r \in Requests, MailLost(r)
      PROVE  Places'
  BY <1>14 DEF MailLost, Goto
<1>15. ASSUME NEW r \in Requests, Crash(r)
      PROVE  Places'
  BY <1>15 DEF Crash, Goto
<1>16. CASE Tick
  BY <1>16 DEF Tick
<1>17. CASE UNCHANGED vars
  BY <1>17 DEF vars
<1>. QED
  BY <1>1, <1>2, <1>3, <1>4, <1>5, <1>6, <1>7, <1>8,
     <1>9, <1>10, <1>11, <1>12, <1>13, <1>14, <1>15, <1>16, <1>17
  DEF Next

\* What is in flight together is recorded on both sides.
LEMMA OverlapStep ==
    ASSUME TypeOK, Overlap, [Next]_vars
    PROVE  Overlap'
<1>. USE DEF reqv, hist, secrets
<1>. USE RefreshTokensAssumption DEF TypeOK, Overlap, InFlight
<1>1. ASSUME NEW r \in Requests, Begin(r)
      PROVE  Overlap'
  BY <1>1 DEF Begin, Goto
<1>2. ASSUME NEW r \in Requests, Sign(r)
      PROVE  Overlap'
  BY <1>2 DEF Sign, Goto, login
<1>3. ASSUME NEW r \in Requests, Refuse(r)
      PROVE  Overlap'
  BY <1>3 DEF Refuse, Goto
<1>4. ASSUME NEW r \in Requests, AddToken(r)
      PROVE  Overlap'
  BY <1>4 DEF AddToken, Goto
<1>5. ASSUME NEW r \in Requests, RemoveToken(r)
      PROVE  Overlap'
  BY <1>5 DEF RemoveToken, Goto
<1>6. ASSUME NEW r \in Requests, Logout(r)
      PROVE  Overlap'
  BY <1>6 DEF Logout, Goto
<1>7. ASSUME NEW r \in Requests, Refresh(r)
      PROVE  Overlap'
  BY <1>7 DEF Refresh, Goto
<1>8. ASSUME NEW r \in Requests, Invalidate(r)
      PROVE  Overlap'
  BY <1>8 DEF Invalidate, Goto
<1>9. ASSUME NEW r \in Requests, ChangePassword(r)
      PROVE  Overlap'
  BY <1>9 DEF ChangePassword, Goto
<1>10. ASSUME NEW r \in Requests, ResetPlain(r)
      PROVE  Overlap'
  BY <1>10 DEF ResetPlain, Goto
<1>11. ASSUME NEW r \in Requests, Reread(r)
      PROVE  Overlap'
  BY <1>11 DEF Reread, Goto
<1>12. ASSUME NEW r \in Requests, ResetHash(r)
      PROVE  Overlap'
  BY <1>12 DEF ResetHash, Goto
<1>13. ASSUME NEW r \in Requests, Mail(r)
      PROVE  Overlap'
  BY <1>13 DEF Mail, Goto
<1>14. ASSUME NEW r \in Requests, MailLost(r)
      PROVE  Overlap'
  BY <1>14 DEF MailLost, Goto
<1>15. ASSUME NEW r \in Requests, Crash(r)
      PROVE  Overlap'
  BY <1>15 DEF Crash, Goto
<1>16. CASE Tick
  BY <1>16 DEF Tick
<1>17. CASE UNCHANGED vars
  BY <1>17 DEF vars
<1>. QED
  BY <1>1, <1>2, <1>3, <1>4, <1>5, <1>6, <1>7, <1>8,
     <1>9, <1>10, <1>11, <1>12, <1>13, <1>14, <1>15, <1>16, <1>17
  DEF Next

\* What no step takes back.
LEMMA StepFacts ==
    ASSUME TypeOK, Places, [Next]_vars
    PROVE  /\ kind' = kind /\ db' = db
           /\ \A q \in Requests : pc[q] # "idle" =>
                  pc'[q] # "idle" /\ beside[q] \subseteq beside'[q]
                  /\ seen'[q].tokens = seen[q].tokens /\ late'[q] = late[q]
           /\ \A q \in Requests : fresh[q] # 0 => fresh'[q] = fresh[q]
           /\ \A q \in Requests : Wrote(q) => Wrote(q)'
<1>. DEFINE G == /\ kind' = kind /\ db' = db
                 /\ \A q \in Requests : pc[q] # "idle" =>
                        pc'[q] # "idle" /\ beside[q] \subseteq beside'[q]
                        /\ seen'[q].tokens = seen[q].tokens /\ late'[q] = late[q]
                 /\ \A q \in Requests : fresh[q] # 0 => fresh'[q] = fresh[q]
                 /\ \A q \in Requests : Wrote(q) => Wrote(q)'
<1>. USE DEF reqv, hist, secrets
<1>. USE RefreshTokensAssumption DEF TypeOK, Places, InFlight, Wrote
<1>1. ASSUME NEW r \in Requests, Begin(r)
      PROVE  G
  BY <1>1 DEF Begin, Goto
<1>2. ASSUME NEW r \in Requests, Sign(r)
      PROVE  G
  BY <1>2 DEF Sign, Goto, login
<1>3. ASSUME NEW r \in Requests, Refuse(r)
      PROVE  G
  BY <1>3 DEF Refuse, Goto
<1>4. ASSUME NEW r \in Requests, AddToken(r)
      PROVE  G
  BY <1>4 DEF AddToken, Goto
<1>5. ASSUME NEW r \in Requests, RemoveToken(r)
      PROVE  G
  BY <1>5 DEF RemoveToken, Goto
<1>6. ASSUME NEW r \in Requests, Logout(r)
      PROVE  G
  BY <1>6 DEF Logout, Goto
<1>7. ASSUME NEW r \in Requests, Refresh(r)
      PROVE  G
  BY <1>7 DEF Refresh, Goto
<1>8. ASSUME NEW r \in Requests, Invalidate(r)
      PROVE  G
  BY <1>8 DEF Invalidate, Goto
<1>9. ASSUME NEW r \in Requests, ChangePassword(r)
      PROVE  G
  BY <1>9 DEF ChangePassword, Goto
<1>10. ASSUME NEW r \in Requests, ResetPlain(r)
      PROVE  G
  BY <1>10 DEF ResetPlain, Goto
<1>11. ASSUME NEW r \in Requests, Reread(r)
      PROVE  G
  BY <1>11 DEF Reread, Goto
<1>12. ASSUME NEW r \in Requests, ResetHash(r)
      PROVE  G
  BY <1>12 DEF ResetHash, Goto
<1>13. ASSUME NEW r \in Requests, Mail(r)
      PROVE  G
  BY <1>13 DEF Mail, Goto
<1>14. ASSUME NEW r \in Requests, MailLost(r)
      PROVE  G
  BY <1>14 DEF MailLost, Goto
<1>15. ASSUME NEW r \in Requests, Crash(r)
      PROVE  G
  BY <1>15 DEF Crash, Goto
<1>16. CASE Tick
  BY <1>16 DEF Tick
<1>17. CASE UNCHANGED vars
  BY <1>17 DEF vars
<1>. QED
  BY <1>1, <1>2, <1>3, <1>4, <1>5, <1>6, <1>7, <1>8,
     <1>9, <1>10, <1>11, <1>12, <1>13, <1>14, <1>15, <1>16, <1>17
  DEF Next

-------------------------------------------------------------------------------
(* To the token list a step is a read, a signature, one of the two writes, *)
(* an end, or nothing.                                                     *)

Ends(r) ==
    /\ InFlight(r) /\ kind[r] \in {"logout", "change"}
    /\ tokens' = {} /\ ended' = ended \union tokens
    /\ \E l \in {"done", "cleared"} : pc' = [pc EXCEPT ![r] = l]
    /\ UNCHANGED <<password, kind, db, seen, tok, fresh, late, beside, under>>

Passes(r) ==
    /\ InFlight(r)
    /\ \E l \in {"stored", "plain", "hashed", "done", "refused", "granted", "dead", "halfway"} :
          /\ pc' = [pc EXCEPT ![r] = l]
          /\ kind[r] \in {"login", "rotate"} => l # "done"
          /\ pc[r] = "added" <=> l = "halfway"
    /\ \A q \in Requests : seen'[q].tokens = seen[q].tokens
    /\ \A q \in Requests : kind[q] # "forgot" => seen'[q] = seen[q]
    /\ UNCHANGED <<tokens, kind, db, tok, fresh, late, beside, ended, under>>

Still == UNCHANGED <<tokens, password, kind, db, pc, seen, tok, fresh, late, beside, ended, under>>

LEMMA TokenSteps ==
    ASSUME TypeOK, Places, [Next]_vars
    PROVE  \/ \E r \in Requests : \/ Begin(r) \/ Sign(r) \/ AddToken(r) \/ RemoveToken(r)
                                 \/ Ends(r) \/ Passes(r)
           \/ Still
<1>. DEFINE G == \/ \E r \in Requests : \/ Begin(r) \/ Sign(r) \/ AddToken(r) \/ RemoveToken(r)
                                       \/ Ends(r) \/ Passes(r)
                 \/ Still
<1>. USE DEF reqv, hist, secrets
<1>1. ASSUME NEW r \in Requests, Begin(r)
      PROVE  G
  BY <1>1
<1>2. ASSUME NEW r \in Requests, Sign(r)
      PROVE  G
  BY <1>2
<1>3. ASSUME NEW r \in Requests, Refuse(r)
      PROVE  G
  <2>. Passes(r)
    BY <1>3 DEF Refuse, Goto, InFlight, Passes, TypeOK, Places
  <2>. QED
    OBVIOUS
<1>4. ASSUME NEW r \in Requests, AddToken(r)
      PROVE  G
  BY <1>4
<1>5. ASSUME NEW r \in Requests, RemoveToken(r)
      PROVE  G
  BY <1>5
<1>6. ASSUME NEW r \in Requests, Logout(r)
      PROVE  G
  <2>. Ends(r)
    BY <1>6 DEF Logout, Goto, InFlight, Ends, TypeOK, Places
  <2>. QED
    OBVIOUS
<1>7. ASSUME NEW r \in Requests, Refresh(r)
      PROVE  G
  <2>. Passes(r)
    BY <1>7 DEF Refresh, Goto, InFlight, Passes, TypeOK, Places
  <2>. QED
    OBVIOUS
<1>8. ASSUME NEW r \in Requests, Invalidate(r)
      PROVE  G
  <2>. Ends(r)
    BY <1>8 DEF Invalidate, Goto, InFlight, Ends, TypeOK, Places
  <2>. QED
    OBVIOUS
<1>9. ASSUME NEW r \in Requests, ChangePassword(r)
      PROVE  G
  <2>. Passes(r)
    BY <1>9 DEF ChangePassword, Goto, InFlight, Passes, TypeOK, Places
  <2>. QED
    OBVIOUS
<1>10. ASSUME NEW r \in Requests, ResetPlain(r)
      PROVE  G
  <2>. Passes(r)
    BY <1>10 DEF ResetPlain, Goto, InFlight, Passes, TypeOK, Places
  <2>. QED
    OBVIOUS
<1>11. ASSUME NEW r \in Requests, Reread(r)
      PROVE  G
  <2>. Passes(r)
    BY <1>11 DEF Reread, Goto, InFlight, Passes, TypeOK, Places
  <2>. QED
    OBVIOUS
<1>12. ASSUME NEW r \in Requests, ResetHash(r)
      PROVE  G
  <2>. Passes(r)
    BY <1>12 DEF ResetHash, Goto, InFlight, Passes, TypeOK, Places
  <2>. QED
    OBVIOUS
<1>13. ASSUME NEW r \in Requests, Mail(r)
      PROVE  G
  <2>. Passes(r)
    BY <1>13 DEF Mail, Goto, InFlight, Passes, TypeOK, Places
  <2>. QED
    OBVIOUS
<1>14. ASSUME NEW r \in Requests, MailLost(r)
      PROVE  G
  <2>. Passes(r)
    BY <1>14 DEF MailLost, Goto, InFlight, Passes, TypeOK, Places
  <2>. QED
    OBVIOUS
<1>15. ASSUME NEW r \in Requests, Crash(r)
      PROVE  G
  <2>. Passes(r)
    BY <1>15 DEF Crash, Goto, InFlight, Passes, TypeOK, Places
  <2>. QED
    OBVIOUS
<1>16. CASE Tick
  BY <1>16 DEF Tick, Still
<1>17. CASE UNCHANGED vars
  BY <1>17 DEF vars, Still
<1>. QED
  BY <1>1, <1>2, <1>3, <1>4, <1>5, <1>6, <1>7, <1>8,
     <1>9, <1>10, <1>11, <1>12, <1>13, <1>14, <1>15, <1>16, <1>17
  DEF Next

\* What was written back, and what slipped through, stays so.
LEMMA HistoryStays ==
    ASSUME TypeOK, Places, [Next]_vars
    PROVE  /\ \A t : Revived(t) => Revived(t)'
           /\ \A t \in Seconds : Overwritten(t) => Overwritten(t)'
           /\ \A r \in Requests, t \in Seconds :
                  pc[r] # "idle" /\ Slipped(r, t) => Slipped(r, t)'
<1>1. /\ kind' = kind
      /\ \A q \in Requests : pc[q] # "idle" => /\ beside[q] \subseteq beside'[q]
                                              /\ seen'[q].tokens = seen[q].tokens
      /\ \A q \in Requests : fresh[q] # 0 => fresh'[q] = fresh[q]
      /\ \A q \in Requests : Wrote(q) => Wrote(q)' /\ pc[q] # "idle" /\ q \in Requests
  BY StepFacts DEF Wrote
<1>2. \A q \in Requests : beside[q] \subseteq Requests /\ beside'[q] \subseteq Requests
  BY TokensTypeStep DEF TypeOK
<1>3. ASSUME NEW t, Revived(t)
      PROVE  Revived(t)'
  <2>1. PICK q \in Requests : /\ Wrote(q) /\ t \in seen[q].tokens
                              /\ \E e \in beside[q] : kind[e] \in {"logout", "change", "rotate"}
    BY <1>3 DEF Revived
  <2>. QED
    BY <1>1, <2>1 DEF Revived
<1>4. ASSUME NEW t \in Seconds, Overwritten(t)
      PROVE  Overwritten(t)'
  <2>1. PICK q \in Requests : /\ Wrote(q) /\ t \notin seen[q].tokens
                              /\ \E l \in beside[q] : kind[l] = "login" /\ fresh[l] = t
    BY <1>4 DEF Overwritten
  <2>2. PICK l \in beside[q] : kind[l] = "login" /\ fresh[l] = t
    BY <2>1
  <2>3. l \in beside'[q] /\ fresh'[l] = t
    BY <1>1, <1>2, <2>1, <2>2 DEF Seconds
  <2>. QED
    BY <1>1, <2>1, <2>2, <2>3 DEF Overwritten
<1>5. ASSUME NEW r \in Requests, NEW t \in Seconds, pc[r] # "idle", Slipped(r, t)
      PROVE  Slipped(r, t)'
  <2>1. PICK q \in beside[r] : Wrote(q) /\ t \in seen[q].tokens \union {fresh[q]}
    BY <1>5 DEF Slipped
  <2>2. q \in Requests /\ q \in beside'[r] /\ Wrote(q)'
    BY <1>1, <1>2, <1>5, <2>1
  <2>3. t \in seen'[q].tokens \union {fresh'[q]}
    BY <1>1, <2>1, <2>2 DEF Seconds
  <2>. QED
    BY <2>2, <2>3 DEF Slipped
<1>. QED
  BY <1>3, <1>4, <1>5

\* No token comes back but by a request that overlapped its end.
LEMMA EndedStep ==
    ASSUME TypeOK, Places, Overlap, EndedInv, [Next]_vars
    PROVE  EndedInv'
<1>1. \A t : Revived(t) => Revived(t)'
  BY HistoryStays
<1>2. /\ kind' = kind
      /\ \A q \in Requests : pc[q] # "idle" => /\ beside[q] \subseteq beside'[q]
                                              /\ seen'[q].tokens = seen[q].tokens
  BY StepFacts
<1>3. \A q \in Requests : Writing(q) => InFlight(q)
  BY DEF Writing, InFlight
<1>. USE DEF EndedInv, TypeOK
<1>4. ASSUME NEW r \in Requests, Begin(r)
      PROVE  EndedInv'
  <2>1. /\ tokens' = tokens /\ ended' = ended /\ seen'[r].tokens = tokens
        /\ late'[r] \subseteq ended
        /\ \A q \in Requests : q # r => /\ pc'[q] = pc[q] /\ late'[q] = late[q]
                                        /\ seen'[q] = seen[q]
    BY <1>4 DEF Begin, Goto, user, hist
  <2>2. \A q \in Requests : Writing(q)' /\ q # r => Writing(q) /\ pc[q] # "idle"
    BY <2>1, <1>2 DEF Writing
  <2>3. \A t \in tokens \cap ended : Revived(t)'
    BY <1>1 DEF EndedStaysEnded
  <2>4. EndedStaysEnded'
    BY <2>1, <2>3 DEF EndedStaysEnded
  <2>5. LateRead'
    BY <2>1, <2>3, <1>1 DEF LateRead
  <2>6. EndedRead'
    BY <2>1, <2>2, <2>3, <1>1, <1>2 DEF EndedRead, Enders
  <2>. QED
    BY <2>4, <2>5, <2>6
<1>5. ASSUME NEW r \in Requests, Sign(r)
      PROVE  EndedInv'
  <2>1. UNCHANGED <<tokens, ended, late, seen, beside, kind>> /\ Writing(r)
        /\ \A q \in Requests : Writing(q)' => Writing(q)
    BY <1>5 DEF Sign, login, Goto, Writing, hist
  <2>. QED
    BY <2>1, <1>1 DEF EndedStaysEnded, LateRead, EndedRead, Enders
<1>6. ASSUME NEW r \in Requests, AddToken(r)
      PROVE  EndedInv'
  <2>1. /\ tokens' = seen[r].tokens \union {fresh[r]} /\ ended' = ended \ {fresh[r]}
        /\ UNCHANGED <<late, seen, beside, kind>> /\ Writing(r) /\ Wrote(r)'
        /\ \A q \in Requests : Writing(q)' => Writing(q)
    BY <1>6 DEF AddToken, Goto, Writing, Wrote, Places
  <2>2. \A t \in tokens' \cap ended' : Revived(t)'
    BY <2>1, <1>1 DEF EndedRead, Revived, Enders
  <2>3. EndedRead'
    BY <2>1, <1>1 DEF EndedRead, Enders
  <2>. QED
    BY <2>1, <2>2, <2>3, <1>1 DEF EndedStaysEnded, LateRead
<1>7. ASSUME NEW r \in Requests, RemoveToken(r)
      PROVE  EndedInv'
  <2>1. /\ tokens' = seen[r].tokens \ {tok[r]} /\ ended' = ended \union {tok[r]}
        /\ UNCHANGED <<late, seen, beside, kind>> /\ Writing(r) /\ Wrote(r)' /\ r \in Enders
        /\ \A q \in Requests : Writing(q)' => Writing(q) /\ q # r
    BY <1>7 DEF RemoveToken, Goto, Writing, Wrote, Places, Enders
  <2>2. \A t \in tokens' \cap ended' : Revived(t)'
    BY <2>1, <1>1 DEF EndedRead, Revived, Enders
  <2>3. \A q \in Requests : Writing(q)' => r \in beside[q]
    BY <2>1, <1>3 DEF Overlap
  <2>4. EndedRead'
    BY <2>1, <2>3, <1>1 DEF EndedRead, Enders
  <2>. QED
    BY <2>1, <2>2, <2>4, <1>1 DEF EndedStaysEnded, LateRead
<1>8. ASSUME NEW r \in Requests, Ends(r)
      PROVE  EndedInv'
  <2>1. /\ tokens' = {}
        /\ UNCHANGED <<late, seen, beside, kind>> /\ InFlight(r) /\ r \in Enders
        /\ \A q \in Requests : Writing(q)' => Writing(q) /\ q # r
    BY <1>8 DEF Ends, Writing, Enders
  <2>2. \A q \in Requests : Writing(q)' => r \in beside[q]
    BY <2>1, <1>3 DEF Overlap
  <2>3. EndedRead'
    BY <2>1, <2>2 DEF EndedRead, Enders
  <2>. QED
    BY <2>1, <2>3, <1>1 DEF EndedStaysEnded, LateRead
<1>9. ASSUME NEW r \in Requests, Passes(r)
      PROVE  EndedInv'
  <2>1. /\ UNCHANGED <<tokens, ended, late, beside, kind>>
        /\ \A q \in Requests : Writing(q)' => Writing(q)
        /\ \A q \in Requests : seen'[q].tokens = seen[q].tokens
    BY <1>9 DEF Passes, Writing, InFlight
  <2>. QED
    BY <2>1, <1>1 DEF EndedStaysEnded, LateRead, EndedRead, Enders
<1>10. CASE Still
  BY <1>10, <1>1 DEF Still, EndedStaysEnded, LateRead, EndedRead, Enders, Writing
<1>. QED
  BY TokenSteps, <1>4, <1>5, <1>6, <1>7, <1>8, <1>9, <1>10

\* No step loses the token of a login, but one of a request that overlapped it.
LEMMA LoginsStep ==
    ASSUME TypeOK, Places, Overlap, LoginsKept, LoginsRead, [Next]_vars
    PROVE  LoginsKept' /\ LoginsRead'
<1>1. /\ \A t \in Seconds : Overwritten(t) => Overwritten(t)'
      /\ kind' = kind
      /\ \A q \in Requests : pc[q] # "idle" => /\ beside[q] \subseteq beside'[q]
                                              /\ seen'[q].tokens = seen[q].tokens
      /\ \A q \in Requests : fresh[q] # 0 => fresh'[q] = fresh[q]
      /\ \A q \in Requests : beside[q] \subseteq Requests
  BY HistoryStays, StepFacts DEF TypeOK
<1>2. \A q \in Requests : Writing(q) => InFlight(q) /\ pc[q] # "idle"
  BY DEF Writing, InFlight
<1>3. \A q \in Requests, t \in Seconds : pc[q] # "idle" /\ Beside(q, t) => Beside(q, t)'
  BY <1>1 DEF Beside, Seconds
<1>. USE DEF TypeOK
<1>4. ASSUME NEW r \in Requests, Begin(r)
      PROVE  LoginsKept' /\ LoginsRead'
  <2>1. /\ tokens' = tokens /\ ended' = ended /\ seen'[r].tokens = tokens /\ fresh' = fresh
        /\ \A q \in Requests : q # r => pc'[q] = pc[q] /\ seen'[q] = seen[q]
        /\ pc'[r] = "begun"
    BY <1>4 DEF Begin, Goto, user, hist
  <2>2. \A t \in Seconds : Current(t)' => Current(t)
    BY <2>1, <1>1 DEF Current
  <2>3. LoginsKept'
    BY <2>1, <2>2, <1>1 DEF LoginsKept
  <2>4. ASSUME NEW q \in Requests, NEW t \in Seconds, Writing(q)', Current(t)', q # r
        PROVE  t \in seen'[q].tokens \/ Beside(q, t)' \/ Overwritten(t)'
    <3>1. Writing(q) /\ Current(t) /\ pc[q] # "idle"
      BY <2>1, <2>2, <2>4, <1>1, <1>2 DEF Writing
    <3>. QED
      BY <3>1, <2>1, <2>4, <1>1, <1>3 DEF LoginsRead
  <2>5. LoginsRead'
    BY <2>1, <2>3, <2>4, <1>1 DEF LoginsRead, LoginsKept
  <2>. QED
    BY <2>3, <2>5
<1>5. ASSUME NEW r \in Requests, Sign(r)
      PROVE  LoginsKept' /\ LoginsRead'
  <2>1. /\ UNCHANGED <<tokens, ended, seen, beside, kind>> /\ fresh[r] = 0 /\ pc[r] = "begun"
        /\ \A q \in Requests : Writing(q)' => Writing(q)
        /\ \A q \in Requests : q # r => fresh'[q] = fresh[q] /\ pc'[q] = pc[q]
        /\ pc'[r] = "signed"
    BY <1>5 DEF Sign, login, Goto, Writing, hist, Places
  <2>2. \A t \in Seconds : Current(t)' => Current(t)
    <3>. SUFFICES ASSUME NEW t \in Seconds, Current(t)'
                  PROVE  Current(t)
      OBVIOUS
    <3>1. PICK l \in Requests : kind[l] = "login" /\ pc'[l] = "done" /\ fresh'[l] = t
      BY <2>1 DEF Current
    <3>2. l # r
      BY <3>1, <2>1
    <3>3. \A x \in Requests : kind[x] = "rotate" => fresh'[x] # t
      BY <2>1 DEF Current
    <3>4. 0 # t
      BY RefreshTokensAssumption DEF Seconds
    <3>5. \A x \in Requests : kind[x] = "rotate" => fresh[x] # t
      BY <3>3, <3>4, <2>1
    <3>. QED
      BY <3>1, <3>2, <3>5, <2>1 DEF Current
  <2>. QED
    BY <2>1, <2>2, <1>1, <1>2, <1>3 DEF LoginsKept, LoginsRead
<1>6. ASSUME NEW r \in Requests, AddToken(r)
      PROVE  LoginsKept' /\ LoginsRead'
  <2>1. /\ tokens' = seen[r].tokens \union {fresh[r]} /\ ended' = ended \ {fresh[r]}
        /\ UNCHANGED <<seen, beside, kind, fresh>> /\ Writing(r) /\ Wrote(r)'
        /\ \A q \in Requests : q # r => pc'[q] = pc[q]
        /\ \A q \in Requests : Writing(q)' => Writing(q)
    BY <1>6 DEF AddToken, Goto, Writing, Wrote, Places
  <2>0. \/ kind[r] = "login" /\ pc'[r] = "done"
        \/ kind[r] = "rotate" /\ pc'[r] = "added"
    <3>1. kind[r] \in {"login", "rotate"}
      BY <1>6 DEF AddToken, Places
    <3>. QED
      BY <3>1, <1>6 DEF AddToken, Goto
  <2>2. ASSUME NEW t \in Seconds, Current(t)', t # fresh[r]
        PROVE  Current(t)
    BY <2>1, <2>2 DEF Current
  <2>3. ASSUME NEW t \in Seconds, Current(t)', t = fresh[r]
        PROVE  kind[r] = "login"
    BY <2>0, <2>1, <2>3 DEF Current
  <2>4. ASSUME NEW t \in Seconds, Current(t)', t # fresh[r]
        PROVE  t \in tokens' \/ Overwritten(t)'
    <3>1. t \in seen[r].tokens \/ Beside(r, t) \/ Overwritten(t)
      BY <2>1, <2>2, <2>4 DEF LoginsRead
    <3>2. CASE t \notin seen[r].tokens /\ Beside(r, t)
      BY <3>2, <2>1 DEF Beside, Overwritten
    <3>. QED
      BY <3>1, <3>2, <2>1, <1>1
  <2>5. LoginsKept'
    BY <2>1, <2>4 DEF LoginsKept
  <2>6. ASSUME NEW q \in Requests, NEW t \in Seconds, Writing(q)', Current(t)'
        PROVE  t \in seen'[q].tokens \/ Beside(q, t)' \/ Overwritten(t)'
    <3>1. CASE t # fresh[r]
      BY <3>1, <2>1, <2>2, <2>6, <1>1, <1>2, <1>3 DEF LoginsRead
    <3>2. CASE t = fresh[r]
      <4>1. kind[r] = "login" /\ q # r
        BY <3>2, <2>0, <2>1, <2>3, <2>6 DEF Writing
      <4>2. r \in beside[q]
        BY <4>1, <2>1, <2>6, <1>2 DEF Overlap
      <4>. QED
        BY <4>1, <4>2, <3>2, <2>1 DEF Beside
    <3>. QED
      BY <3>1, <3>2
  <2>. QED
    BY <2>5, <2>6 DEF LoginsRead
<1>7. ASSUME NEW r \in Requests, RemoveToken(r)
      PROVE  LoginsKept' /\ LoginsRead'
  <2>1. /\ tokens' = seen[r].tokens \ {tok[r]} /\ ended' = ended \union {tok[r]}
        /\ UNCHANGED <<seen, beside, kind, fresh>> /\ Writing(r) /\ Wrote(r)'
        /\ kind[r] = "rotate"
        /\ \A q \in Requests : q # r => pc'[q] = pc[q]
        /\ \A q \in Requests : Writing(q)' => Writing(q)
    BY <1>7 DEF RemoveToken, Goto, Writing, Wrote, Places
  <2>2. ASSUME NEW t \in Seconds, Current(t)'
        PROVE  Current(t) /\ t # tok[r]
    BY <2>1, <2>2 DEF Current
  <2>3. ASSUME NEW t \in Seconds, Current(t)'
        PROVE  t \in tokens' \/ Overwritten(t)'
    <3>1. t \in seen[r].tokens \/ Beside(r, t) \/ Overwritten(t)
      BY <2>1, <2>2, <2>3 DEF LoginsRead
    <3>2. CASE t \notin seen[r].tokens /\ Beside(r, t)
      BY <3>2, <2>1 DEF Beside, Overwritten
    <3>. QED
      BY <3>1, <3>2, <2>1, <2>2, <2>3, <1>1
  <2>4. LoginsKept'
    BY <2>3 DEF LoginsKept
  <2>. QED
    BY <2>1, <2>2, <2>4, <1>1, <1>2, <1>3 DEF LoginsRead
<1>8. ASSUME NEW r \in Requests, Ends(r)
      PROVE  LoginsKept' /\ LoginsRead'
  <2>1. /\ tokens' = {} /\ ended' = ended \union tokens
        /\ UNCHANGED <<seen, beside, kind, fresh>> /\ kind[r] \notin {"login", "rotate"}
        /\ \A q \in Requests : q # r => pc'[q] = pc[q]
        /\ \A q \in Requests : Writing(q)' => Writing(q)
    BY <1>8 DEF Ends, Writing
  <2>2. ASSUME NEW t \in Seconds, Current(t)'
        PROVE  Current(t) /\ t \notin tokens
    BY <2>1, <2>2 DEF Current
  <2>. QED
    BY <2>1, <2>2, <1>1, <1>2, <1>3 DEF LoginsKept, LoginsRead
<1>9. ASSUME NEW r \in Requests, Passes(r)
      PROVE  LoginsKept' /\ LoginsRead'
  <2>1. /\ UNCHANGED <<tokens, ended, fresh, beside, kind>>
        /\ \A q \in Requests : Writing(q)' => Writing(q)
        /\ \A q \in Requests : seen'[q].tokens = seen[q].tokens
        /\ \A q \in Requests : kind[q] = "login" /\ pc'[q] = "done" => pc[q] = "done"
    BY <1>9 DEF Passes, Writing, InFlight
  <2>2. \A t \in Seconds : Current(t)' => Current(t)
    BY <2>1 DEF Current
  <2>. QED
    BY <2>1, <2>2, <1>1, <1>2, <1>3 DEF LoginsKept, LoginsRead
<1>10. CASE Still
  <2>1. /\ UNCHANGED <<tokens, ended, fresh, beside, kind, pc, seen>>
    BY <1>10 DEF Still
  <2>2. \A t \in Seconds : Current(t)' => Current(t)
    BY <2>1 DEF Current
  <2>. QED
    BY <2>1, <2>2, <1>1, <1>2, <1>3 DEF LoginsKept, LoginsRead, Writing
<1>. QED
  BY TokenSteps, <1>4, <1>5, <1>6, <1>7, <1>8, <1>9, <1>10

\* Only forgot stores an unhashed password, and only what is stored is read.
LEMMA PlainStep ==
    ASSUME TypeOK, Places, PlainKinds, [Next]_vars
    PROVE  PlainKinds'
<1>. USE DEF reqv, hist, secrets, PlainKinds, ByForgot, Stored, TypeOK, Places
<1>1. ASSUME NEW r \in Requests, Begin(r)
      PROVE  PlainKinds'
  BY <1>1 DEF Begin, user
<1>2. ASSUME NEW r \in Requests, Sign(r)
      PROVE  PlainKinds'
  BY <1>2 DEF Sign, login
<1>3. ASSUME NEW r \in Requests, Refuse(r)
      PROVE  PlainKinds'
  BY <1>3 DEF Refuse
<1>4. ASSUME NEW r \in Requests, AddToken(r)
      PROVE  PlainKinds'
  BY <1>4 DEF AddToken
<1>5. ASSUME NEW r \in Requests, RemoveToken(r)
      PROVE  PlainKinds'
  BY <1>5 DEF RemoveToken
<1>6. ASSUME NEW r \in Requests, Logout(r)
      PROVE  PlainKinds'
  BY <1>6 DEF Logout
<1>7. ASSUME NEW r \in Requests, Refresh(r)
      PROVE  PlainKinds'
  BY <1>7 DEF Refresh
<1>8. ASSUME NEW r \in Requests, Invalidate(r)
      PROVE  PlainKinds'
  BY <1>8 DEF Invalidate
<1>9. ASSUME NEW r \in Requests, ChangePassword(r)
      PROVE  PlainKinds'
  BY <1>9 DEF ChangePassword
<1>10. ASSUME NEW r \in Requests, ResetPlain(r)
      PROVE  PlainKinds'
  BY <1>10 DEF ResetPlain
<1>11. ASSUME NEW r \in Requests, Reread(r)
      PROVE  PlainKinds'
  BY <1>11 DEF Reread
<1>12. ASSUME NEW r \in Requests, ResetHash(r)
      PROVE  PlainKinds'
  BY <1>12 DEF ResetHash
<1>13. ASSUME NEW r \in Requests, Mail(r)
      PROVE  PlainKinds'
  BY <1>13 DEF Mail
<1>14. ASSUME NEW r \in Requests, MailLost(r)
      PROVE  PlainKinds'
  BY <1>14 DEF MailLost
<1>15. ASSUME NEW r \in Requests, Crash(r)
      PROVE  PlainKinds'
  BY <1>15 DEF Crash
<1>16. CASE Tick
  BY <1>16 DEF Tick
<1>17. CASE UNCHANGED vars
  BY <1>17 DEF vars
<1>. QED
  BY <1>1, <1>2, <1>3, <1>4, <1>5, <1>6, <1>7, <1>8,
     <1>9, <1>10, <1>11, <1>12, <1>13, <1>14, <1>15, <1>16, <1>17
  DEF Next

\* A reset reads its own password, or one of a request it overlapped.
LEMMA ResetsStep ==
    ASSUME TypeOK, Places, Overlap, ResetsRead, [Next]_vars
    PROVE  ResetsRead'
<1>0. /\ kind' = kind /\ db' = db
      /\ \A q \in Requests : pc[q] # "idle" => beside[q] \subseteq beside'[q]
      /\ \A q \in Requests : beside[q] \subseteq Requests
  BY StepFacts DEF TypeOK
<1>00. \A q \in Requests : pc[q] # "idle" /\ Meddled(q) => Meddled(q)'
  BY <1>0 DEF Meddled
<1>. USE DEF reqv, hist, secrets, ResetsRead, TypeOK, Places
<1>1. ASSUME NEW r \in Requests, Begin(r)
      PROVE  ResetsRead'
  BY <1>1 DEF Begin, Goto, Meddled
<1>2. ASSUME NEW r \in Requests, Sign(r)
      PROVE  ResetsRead'
  BY <1>2 DEF Sign, Goto, Meddled, login
<1>3. ASSUME NEW r \in Requests, Refuse(r)
      PROVE  ResetsRead'
  BY <1>3 DEF Refuse, Goto, Meddled
<1>4. ASSUME NEW r \in Requests, AddToken(r)
      PROVE  ResetsRead'
  BY <1>4 DEF AddToken, Goto, Meddled
<1>5. ASSUME NEW r \in Requests, RemoveToken(r)
      PROVE  ResetsRead'
  BY <1>5 DEF RemoveToken, Goto, Meddled
<1>6. ASSUME NEW r \in Requests, Logout(r)
      PROVE  ResetsRead'
  BY <1>6 DEF Logout, Goto, Meddled
<1>7. ASSUME NEW r \in Requests, Refresh(r)
      PROVE  ResetsRead'
  BY <1>7 DEF Refresh, Goto, Meddled
<1>8. ASSUME NEW r \in Requests, Invalidate(r)
      PROVE  ResetsRead'
  BY <1>8 DEF Invalidate, Goto, Meddled
<1>9. ASSUME NEW r \in Requests, ChangePassword(r)
      PROVE  ResetsRead'
  <2>1. /\ InFlight(r) /\ kind[r] \in {"forgot", "change"}
        /\ \A q \in Requests : q # r => pc'[q] = pc[q] /\ seen'[q] = seen[q]
        /\ UNCHANGED <<kind, db, beside>>
    BY <1>9 DEF ChangePassword, Goto, InFlight
  <2>2. \A q \in Requests : pc[q] \in {"stored", "plain"} => InFlight(q)
    BY DEF InFlight
  <2>3. \A q \in Requests : q # r /\ pc[q] = "stored" => Meddled(q)'
    BY <2>1, <2>2 DEF Overlap, Meddled
  <2>4. /\ pc'[r] = "stored" => password' = Stored(r, 0) \/ Meddled(r)'
        /\ pc'[r] = "plain" => seen'[r].password = Stored(r, 0) \/ Meddled(r)'
    BY <1>9, <1>00 DEF ChangePassword, Goto
  <2>5. \A q \in Requests : q # r /\ pc[q] = "plain" =>
            seen'[q].password = Stored(q, 0) \/ Meddled(q)'
    BY <2>1, <1>00
  <2>. QED
    BY <2>1, <2>3, <2>4, <2>5
<1>10. ASSUME NEW r \in Requests, ResetPlain(r)
      PROVE  ResetsRead'
  <2>1. /\ InFlight(r) /\ kind[r] \in {"forgot", "change"}
        /\ \A q \in Requests : q # r => pc'[q] = pc[q] /\ seen'[q] = seen[q]
        /\ UNCHANGED <<kind, db, beside>>
    BY <1>10 DEF ResetPlain, Goto, InFlight
  <2>2. \A q \in Requests : pc[q] \in {"stored", "plain"} => InFlight(q)
    BY DEF InFlight
  <2>3. \A q \in Requests : q # r /\ pc[q] = "stored" => Meddled(q)'
    BY <2>1, <2>2 DEF Overlap, Meddled
  <2>4. /\ pc'[r] = "stored" => password' = Stored(r, 0) \/ Meddled(r)'
        /\ pc'[r] = "plain" => seen'[r].password = Stored(r, 0) \/ Meddled(r)'
    BY <1>10, <1>00 DEF ResetPlain, Goto
  <2>5. \A q \in Requests : q # r /\ pc[q] = "plain" =>
            seen'[q].password = Stored(q, 0) \/ Meddled(q)'
    BY <2>1, <1>00
  <2>. QED
    BY <2>1, <2>3, <2>4, <2>5
<1>11. ASSUME NEW r \in Requests, Reread(r)
      PROVE  ResetsRead'
  BY <1>11 DEF Reread, Goto, Meddled
<1>12. ASSUME NEW r \in Requests, ResetHash(r)
      PROVE  ResetsRead'
  <2>1. /\ InFlight(r) /\ kind[r] \in {"forgot", "change"}
        /\ \A q \in Requests : q # r => pc'[q] = pc[q] /\ seen'[q] = seen[q]
        /\ UNCHANGED <<kind, db, beside>>
    BY <1>12 DEF ResetHash, Goto, InFlight
  <2>2. \A q \in Requests : pc[q] \in {"stored", "plain"} => InFlight(q)
    BY DEF InFlight
  <2>3. \A q \in Requests : q # r /\ pc[q] = "stored" => Meddled(q)'
    BY <2>1, <2>2 DEF Overlap, Meddled
  <2>4. /\ pc'[r] = "stored" => password' = Stored(r, 0) \/ Meddled(r)'
        /\ pc'[r] = "plain" => seen'[r].password = Stored(r, 0) \/ Meddled(r)'
    BY <1>12, <1>00 DEF ResetHash, Goto
  <2>5. \A q \in Requests : q # r /\ pc[q] = "plain" =>
            seen'[q].password = Stored(q, 0) \/ Meddled(q)'
    BY <2>1, <1>00
  <2>. QED
    BY <2>1, <2>3, <2>4, <2>5
<1>13. ASSUME NEW r \in Requests, Mail(r)
      PROVE  ResetsRead'
  BY <1>13 DEF Mail, Goto, Meddled
<1>14. ASSUME NEW r \in Requests, MailLost(r)
      PROVE  ResetsRead'
  BY <1>14 DEF MailLost, Goto, Meddled
<1>15. ASSUME NEW r \in Requests, Crash(r)
      PROVE  ResetsRead'
  BY <1>15 DEF Crash, Goto, Meddled
<1>16. CASE Tick
  BY <1>16 DEF Tick, Meddled
<1>17. CASE UNCHANGED vars
  BY <1>17 DEF vars, Meddled
<1>. QED
  BY <1>1, <1>2, <1>3, <1>4, <1>5, <1>6, <1>7, <1>8,
     <1>9, <1>10, <1>11, <1>12, <1>13, <1>14, <1>15, <1>16, <1>17
  DEF Next

\* No step stores a password that is nobody's, but a reset that overlapped another write.
LEMMA AccountStep ==
    ASSUME TypeOK, Places, ResetsRead, PasswordAccounted, [Next]_vars
    PROVE  PasswordAccounted'
<1>0. /\ kind' = kind /\ db' = db
      /\ \A q \in Requests : pc[q] # "idle" => beside[q] \subseteq beside'[q]
      /\ \A q \in Requests : beside[q] \subseteq Requests
  BY StepFacts DEF TypeOK
<1>00. ASSUME NEW q \in Requests, Garbled(q), password' = password,
              seen'[q] = seen[q], pc'[q] = pc[q] \/ pc'[q] \in {"hashed", "done", "dead"}
       PROVE  Garbled(q)'
  BY <1>0, <1>00 DEF Garbled
<1>. USE DEF reqv, hist, secrets, TypeOK, Places, PasswordAccounted, Pending
<1>1. ASSUME NEW r \in Requests, Begin(r)
      PROVE  PasswordAccounted'
  <2>1. \A q \in Requests : Garbled(q) => Garbled(q)'
    <3>1. /\ pc[r] = "idle" /\ password' = password
          /\ \A q \in Requests : q # r => pc'[q] = pc[q] /\ seen'[q] = seen[q]
      BY <1>1 DEF Begin, Goto
    <3>2. \A q \in Requests : Garbled(q) => pc[q] # "idle"
      BY DEF Garbled
    <3>. QED
      BY <3>1, <3>2, <1>00
  <2>. QED
    BY <1>1, <2>1 DEF Begin, Goto
<1>2. ASSUME NEW r \in Requests, Sign(r)
      PROVE  PasswordAccounted'
  <2>1. \A q \in Requests : Garbled(q) => Garbled(q)'
    BY <1>2, <1>00 DEF Sign, Goto, Garbled, login
  <2>. QED
    BY <1>2, <2>1 DEF Sign, Goto, login
<1>3. ASSUME NEW r \in Requests, Refuse(r)
      PROVE  PasswordAccounted'
  <2>1. \A q \in Requests : Garbled(q) => Garbled(q)'
    BY <1>3, <1>00 DEF Refuse, Goto, Garbled
  <2>. QED
    BY <1>3, <2>1 DEF Refuse, Goto
<1>4. ASSUME NEW r \in Requests, AddToken(r)
      PROVE  PasswordAccounted'
  <2>1. \A q \in Requests : Garbled(q) => Garbled(q)'
    BY <1>4, <1>00 DEF AddToken, Goto, Garbled
  <2>. QED
    BY <1>4, <2>1 DEF AddToken, Goto
<1>5. ASSUME NEW r \in Requests, RemoveToken(r)
      PROVE  PasswordAccounted'
  <2>1. \A q \in Requests : Garbled(q) => Garbled(q)'
    BY <1>5, <1>00 DEF RemoveToken, Goto, Garbled
  <2>. QED
    BY <1>5, <2>1 DEF RemoveToken, Goto
<1>6. ASSUME NEW r \in Requests, Logout(r)
      PROVE  PasswordAccounted'
  <2>1. \A q \in Requests : Garbled(q) => Garbled(q)'
    BY <1>6, <1>00 DEF Logout, Goto, Garbled
  <2>. QED
    BY <1>6, <2>1 DEF Logout, Goto
<1>7. ASSUME NEW r \in Requests, Refresh(r)
      PROVE  PasswordAccounted'
  <2>1. \A q \in Requests : Garbled(q) => Garbled(q)'
    BY <1>7, <1>00 DEF Refresh, Goto, Garbled
  <2>. QED
    BY <1>7, <2>1 DEF Refresh, Goto
<1>8. ASSUME NEW r \in Requests, Invalidate(r)
      PROVE  PasswordAccounted'
  <2>1. \A q \in Requests : Garbled(q) => Garbled(q)'
    BY <1>8, <1>00 DEF Invalidate, Goto, Garbled
  <2>. QED
    BY <1>8, <2>1 DEF Invalidate, Goto
<1>9. ASSUME NEW r \in Requests, ChangePassword(r)
      PROVE  PasswordAccounted'
  BY <1>9 DEF ChangePassword, Goto, Stored
<1>10. ASSUME NEW r \in Requests, ResetPlain(r)
      PROVE  PasswordAccounted'
  BY <1>10 DEF ResetPlain, Goto, Stored
<1>11. ASSUME NEW r \in Requests, Reread(r)
      PROVE  PasswordAccounted'
  <2>1. \A q \in Requests : Garbled(q) => Garbled(q)'
    BY <1>11, <1>00 DEF Reread, Goto, Garbled
  <2>. QED
    BY <1>11, <2>1 DEF Reread, Goto
<1>12. ASSUME NEW r \in Requests, ResetHash(r)
      PROVE  PasswordAccounted'
  <2>1. /\ kind[r] = "forgot" /\ pc'[r] = "hashed" /\ seen' = seen /\ beside' = beside
        /\ password' = [seen[r].password EXCEPT !.times = @ + 1]
    BY <1>12 DEF ResetHash, Goto
  <2>2. CASE seen[r].password = Stored(r, 0)
    <3>1. password' = Stored(r, 1)
      BY <2>1, <2>2 DEF Stored
    <3>. QED
      BY <2>1, <3>1 DEF Stored
  <2>3. CASE seen[r].password # Stored(r, 0) /\ Meddled(r)
    <3>1. Garbled(r)'
      BY <2>1, <2>3, <1>0 DEF Garbled, Meddled
    <3>. QED
      BY <3>1
  <2>. QED
    BY <2>2, <2>3, <1>12 DEF ResetHash, ResetsRead
<1>13. ASSUME NEW r \in Requests, Mail(r)
      PROVE  PasswordAccounted'
  <2>1. \A q \in Requests : Garbled(q) => Garbled(q)'
    BY <1>13, <1>00 DEF Mail, Goto, Garbled
  <2>. QED
    BY <1>13, <2>1 DEF Mail, Goto
<1>14. ASSUME NEW r \in Requests, MailLost(r)
      PROVE  PasswordAccounted'
  <2>1. \A q \in Requests : Garbled(q) => Garbled(q)'
    BY <1>14, <1>00 DEF MailLost, Goto, Garbled
  <2>. QED
    BY <1>14, <2>1 DEF MailLost, Goto
<1>15. ASSUME NEW r \in Requests, Crash(r)
      PROVE  PasswordAccounted'
  <2>1. \A q \in Requests : Garbled(q) => Garbled(q)'
    BY <1>15, <1>00 DEF Crash, Goto, Garbled, InFlight
  <2>. QED
    BY <1>15, <2>1 DEF Crash, Goto, InFlight
<1>16. CASE Tick
  <2>1. \A q \in Requests : Garbled(q) => Garbled(q)'
    BY <1>16, <1>00 DEF Tick, Garbled
  <2>. QED
    BY <1>16, <2>1 DEF Tick
<1>17. CASE UNCHANGED vars
  <2>1. \A q \in Requests : Garbled(q) => Garbled(q)'
    BY <1>17, <1>00 DEF vars, Garbled
  <2>. QED
    BY <1>17, <2>1 DEF vars
<1>. QED
  BY <1>1, <1>2, <1>3, <1>4, <1>5, <1>6, <1>7, <1>8,
     <1>9, <1>10, <1>11, <1>12, <1>13, <1>14, <1>15, <1>16, <1>17
  DEF Next

\* What a reset stores unhashed is its own, until it hashes it.
LEMMA TransientStep ==
    ASSUME TypeOK, Places, PlainIsTransient, [Next]_vars
    PROVE  PlainIsTransient'
<1>. USE DEF reqv, hist, secrets, TypeOK, Places, PlainIsTransient, Stored, InFlight
<1>1. ASSUME NEW r \in Requests, Begin(r)
      PROVE  PlainIsTransient'
  BY <1>1 DEF Begin, Goto
<1>2. ASSUME NEW r \in Requests, Sign(r)
      PROVE  PlainIsTransient'
  BY <1>2 DEF Sign, Goto, login
<1>3. ASSUME NEW r \in Requests, Refuse(r)
      PROVE  PlainIsTransient'
  BY <1>3 DEF Refuse, Goto
<1>4. ASSUME NEW r \in Requests, AddToken(r)
      PROVE  PlainIsTransient'
  BY <1>4 DEF AddToken, Goto
<1>5. ASSUME NEW r \in Requests, RemoveToken(r)
      PROVE  PlainIsTransient'
  BY <1>5 DEF RemoveToken, Goto
<1>6. ASSUME NEW r \in Requests, Logout(r)
      PROVE  PlainIsTransient'
  BY <1>6 DEF Logout, Goto
<1>7. ASSUME NEW r \in Requests, Refresh(r)
      PROVE  PlainIsTransient'
  BY <1>7 DEF Refresh, Goto
<1>8. ASSUME NEW r \in Requests, Invalidate(r)
      PROVE  PlainIsTransient'
  BY <1>8 DEF Invalidate, Goto
<1>9. ASSUME NEW r \in Requests, ChangePassword(r)
      PROVE  PlainIsTransient'
  BY <1>9 DEF ChangePassword, Goto
<1>10. ASSUME NEW r \in Requests, ResetPlain(r)
      PROVE  PlainIsTransient'
  BY <1>10 DEF ResetPlain, Goto
<1>11. ASSUME NEW r \in Requests, Reread(r)
      PROVE  PlainIsTransient'
  BY <1>11 DEF Reread, Goto
<1>12. ASSUME NEW r \in Requests, ResetHash(r)
      PROVE  PlainIsTransient'
  BY <1>12 DEF ResetHash, Goto
<1>13. ASSUME NEW r \in Requests, Mail(r)
      PROVE  PlainIsTransient'
  BY <1>13 DEF Mail, Goto
<1>14. ASSUME NEW r \in Requests, MailLost(r)
      PROVE  PlainIsTransient'
  BY <1>14 DEF MailLost, Goto
<1>15. ASSUME NEW r \in Requests, Crash(r)
      PROVE  PlainIsTransient'
  BY <1>15 DEF Crash, Goto
<1>16. CASE Tick
  BY <1>16 DEF Tick
<1>17. CASE UNCHANGED vars
  BY <1>17 DEF vars
<1>. QED
  BY <1>1, <1>2, <1>3, <1>4, <1>5, <1>6, <1>7, <1>8,
     <1>9, <1>10, <1>11, <1>12, <1>13, <1>14, <1>15, <1>16, <1>17
  DEF Next

\* Nothing but a password change stores the hash of a changed password.
LEMMA OnlyChanges ==
    ASSUME TypeOK, Places, PlainKinds, [Next]_vars, NEW c \in Requests, Changed(c)', ~Changed(c)
    PROVE  ChangePassword(c)
<1>0. kind' = kind
  BY StepFacts
<1>. USE DEF reqv, hist, secrets, TypeOK, Places, Changed, Stored
<1>1. ASSUME NEW r \in Requests, Begin(r)
      PROVE  ChangePassword(c)
  BY <1>1 DEF Begin
<1>2. ASSUME NEW r \in Requests, Sign(r)
      PROVE  ChangePassword(c)
  BY <1>2 DEF Sign, login
<1>3. ASSUME NEW r \in Requests, Refuse(r)
      PROVE  ChangePassword(c)
  BY <1>3 DEF Refuse
<1>4. ASSUME NEW r \in Requests, AddToken(r)
      PROVE  ChangePassword(c)
  BY <1>4 DEF AddToken
<1>5. ASSUME NEW r \in Requests, RemoveToken(r)
      PROVE  ChangePassword(c)
  BY <1>5 DEF RemoveToken
<1>6. ASSUME NEW r \in Requests, Logout(r)
      PROVE  ChangePassword(c)
  BY <1>6 DEF Logout
<1>7. ASSUME NEW r \in Requests, Refresh(r)
      PROVE  ChangePassword(c)
  BY <1>7 DEF Refresh
<1>8. ASSUME NEW r \in Requests, Invalidate(r)
      PROVE  ChangePassword(c)
  BY <1>8 DEF Invalidate
<1>9. ASSUME NEW r \in Requests, ChangePassword(r)
      PROVE  ChangePassword(c)
  BY <1>0, <1>9 DEF ChangePassword
<1>10. ASSUME NEW r \in Requests, ResetPlain(r)
      PROVE  ChangePassword(c)
  BY <1>10 DEF ResetPlain
<1>11. ASSUME NEW r \in Requests, Reread(r)
      PROVE  ChangePassword(c)
  BY <1>11 DEF Reread
<1>12. ASSUME NEW r \in Requests, ResetHash(r)
      PROVE  ChangePassword(c)
  <2>1. password' = [seen[r].password EXCEPT !.times = @ + 1]
    BY <1>12 DEF ResetHash
  <2>2. seen[r].password = [secret |-> seen[r].password.secret, times |-> seen[r].password.times]
        /\ seen[r].password.times \in Nat
    OBVIOUS
  <2>3. password' = [secret |-> seen[r].password.secret, times |-> seen[r].password.times + 1]
    BY <2>1, <2>2
  <2>4. seen[r].password.secret = c /\ seen[r].password.times + 1 = 1
    BY <2>3
  <2>5. PICK n \in Nat : n = seen[r].password.times
    BY <2>2
  <2>6. n = 0
    BY ONLY <2>4, <2>5
  <2>7. ByForgot(seen[r].password)
    BY DEF PlainKinds
  <2>8. kind[c] = "forgot"
    BY <2>4, <2>5, <2>6, <2>7 DEF ByForgot
  <2>. QED
    BY <2>8, <1>0
<1>13. ASSUME NEW r \in Requests, Mail(r)
      PROVE  ChangePassword(c)
  BY <1>13 DEF Mail
<1>14. ASSUME NEW r \in Requests, MailLost(r)
      PROVE  ChangePassword(c)
  BY <1>14 DEF MailLost
<1>15. ASSUME NEW r \in Requests, Crash(r)
      PROVE  ChangePassword(c)
  BY <1>15 DEF Crash
<1>16. CASE Tick
  BY <1>16 DEF Tick
<1>17. CASE UNCHANGED vars
  BY <1>17 DEF vars
<1>. QED
  BY <1>1, <1>2, <1>3, <1>4, <1>5, <1>6, <1>7, <1>8,
     <1>9, <1>10, <1>11, <1>12, <1>13, <1>14, <1>15, <1>16, <1>17
  DEF Next

\* After a password change the list holds what the new password signed, and what
\* overlapping requests wrote.
LEMMA ChangedStep ==
    ASSUME TypeOK, Places, Overlap, PlainKinds, ChangedInv, [Next]_vars
    PROVE  ChangedInv'
<1>1. /\ \A r \in Requests, t \in Seconds : pc[r] # "idle" /\ Slipped(r, t) => Slipped(r, t)'
      /\ kind' = kind
      /\ \A q \in Requests : pc[q] # "idle" => /\ beside[q] \subseteq beside'[q]
                                              /\ seen'[q].tokens = seen[q].tokens
      /\ \A q \in Requests : seen[q].tokens \subseteq Seconds /\ fresh[q] \in Seconds \union {0}
      /\ tokens \subseteq Seconds
  BY HistoryStays, StepFacts DEF TypeOK
<1>2. \A q \in Requests : Writing(q) => InFlight(q) /\ pc[q] # "idle"
  BY DEF Writing, InFlight
<1>3. \A r \in Requests : pc[r] = "cleared" => InFlight(r)
  BY DEF InFlight
<1>. USE DEF ChangedInv, TypeOK
<1>4. ASSUME NEW b \in Requests, Begin(b)
      PROVE  ChangedInv'
  <2>1. /\ UNCHANGED <<tokens, password, under, kind>> /\ seen'[b] = user
        /\ \A q \in Requests : q # b => pc'[q] = pc[q] /\ seen'[q] = seen[q]
        /\ pc[b] = "idle" /\ pc'[b] = "begun"
    BY <1>4 DEF Begin, Goto, hist
  <2>2. ClearedSlips'
    BY <2>1, <1>1 DEF ClearedSlips
  <2>3. \A r \in Requests : Changed(r)' => Changed(r) /\ pc[r] = "done" /\ r # b
    BY <2>1 DEF Changed, ChangedFine
  <2>4. \A r \in Requests, t \in Seconds : Changed(r) /\ Fine(r, t) => Fine(r, t)'
    BY <2>1, <2>3, <1>1 DEF Fine, ChangedFine
  <2>5. ChangedFine'
    BY <2>1, <2>3, <2>4, <1>1 DEF ChangedFine
  <2>6. ASSUME NEW q \in Requests, NEW r \in Requests,
               Changed(r)', Writing(q)', q \notin beside'[r], q # b
        PROVE  seen'[q].password.secret = r /\ \A t \in seen'[q].tokens : Fine(r, t)'
    <3>1. Changed(r) /\ Writing(q) /\ q \notin beside[r]
      BY <2>1, <2>3, <2>6, <1>1 DEF Writing
    <3>. QED
      BY <3>1, <2>1, <2>4, <2>6, <1>1 DEF ChangedRead
  <2>7. ASSUME NEW r \in Requests, Changed(r)'
        PROVE  seen'[b].password.secret = r /\ \A t \in seen'[b].tokens : Fine(r, t)'
    BY <2>1, <2>3, <2>4, <2>7, <1>1 DEF user, Changed, Stored, ChangedFine
  <2>8. ChangedRead'
    BY <2>6, <2>7 DEF ChangedRead
  <2>. QED
    BY <2>2, <2>5, <2>8
<1>5. ASSUME UNCHANGED <<tokens, under, beside, kind>>,
             \A q \in Requests : Writing(q)' => Writing(q) /\ seen'[q] = seen[q],
             \A q \in Requests : pc'[q] = "cleared" => pc[q] = "cleared",
             \A q \in Requests : kind[q] = "change" /\ pc[q] = "done" => pc'[q] = "done"
      PROVE  ChangedInv'
  <2>1. ClearedSlips'
    BY <1>1, <1>5 DEF ClearedSlips
  <2>2. ASSUME NEW r \in Requests, Changed(r)'
        PROVE  /\ pc[r] # "idle" /\ pc'[r] = "done"
               /\ \A t \in tokens : Fine(r, t)'
               /\ \A q \in Requests : Writing(q) /\ q \notin beside[r] =>
                      seen[q].password.secret = r /\ \A t \in seen[q].tokens : Fine(r, t)'
    <3>1. CASE Changed(r)
      <4>1. pc[r] = "done" /\ kind[r] = "change"
        BY <3>1 DEF ChangedFine, Changed
      <4>2. \A t \in Seconds : Fine(r, t) => Fine(r, t)'
        BY <4>1, <1>1, <1>5 DEF Fine
      <4>. QED
        BY <3>1, <4>1, <4>2, <1>1, <1>5 DEF ChangedFine, ChangedRead
    <3>2. CASE ~Changed(r)
      <4>1. ChangePassword(r)
        BY <2>2, <3>2, OnlyChanges
      <4>2. pc[r] = "cleared" /\ pc'[r] = "done" /\ kind[r] = "change"
        BY <4>1 DEF ChangePassword, Goto, Places
      <4>3. \A t \in tokens : Fine(r, t)'
        BY <4>2, <1>1 DEF ClearedSlips, Fine
      <4>4. \A q \in Requests : Writing(q) => q \in beside[r]
        BY <4>2, <1>2, <1>3 DEF Overlap, Writing
      <4>. QED
        BY <4>2, <4>3, <4>4
    <3>. QED
      BY <3>1, <3>2
  <2>. QED
    BY <2>1, <2>2, <1>5 DEF ChangedFine, ChangedRead
<1>6. ASSUME NEW b \in Requests, Writing(b), Wrote(b)',
             UNCHANGED <<password, beside, kind, seen, fresh>>,
             tokens' \subseteq seen[b].tokens \union {fresh[b]},
             \A q \in Requests : q # b => pc'[q] = pc[q],
             \A q \in Requests : Writing(q)' => Writing(q),
             \A t \in Seconds : t # fresh[b] => under'[t] = under[t],
             \/ under' = under /\ tokens' \subseteq seen[b].tokens
             \/ under'[fresh[b]] = seen[b].password.secret
      PROVE  ChangedInv'
  <2>1. ASSUME NEW r \in Requests, b \in beside[r], NEW t \in seen[b].tokens \union {fresh[b]}
        PROVE  Slipped(r, t)'
    BY <1>6, <2>1 DEF Slipped
  <2>2. ClearedSlips'
    <3>1. \A r \in Requests : pc'[r] = "cleared" => pc[r] = "cleared" /\ r # b /\ b \in beside[r]
      BY <1>2, <1>3, <1>6 DEF Overlap, Wrote
    <3>. QED
      BY <3>1, <2>1, <1>6 DEF ClearedSlips
  <2>3. \A r \in Requests : Changed(r)' => Changed(r) /\ pc[r] = "done" /\ r # b
    BY <1>6 DEF Changed, ChangedFine, Writing
  <2>4. ASSUME NEW r \in Requests, NEW t \in Seconds, Changed(r), Fine(r, t)
        PROVE  Fine(r, t)'
    <3>1. pc[r] # "idle"
      BY <2>4 DEF ChangedFine
    <3>2. CASE t # fresh[b] \/ under' = under
      BY <3>1, <3>2, <2>4, <1>1, <1>6 DEF Fine
    <3>3. CASE t = fresh[b] /\ under'[fresh[b]] = seen[b].password.secret
      <4>1. CASE b \in beside[r]
        BY <4>1, <3>3, <2>1 DEF Fine
      <4>2. CASE b \notin beside[r]
        BY <4>2, <3>3, <2>4, <1>6 DEF Fine, ChangedRead
      <4>. QED
        BY <4>1, <4>2
    <3>. QED
      BY <3>2, <3>3, <1>6
  <2>5. ASSUME NEW r \in Requests, Changed(r), NEW t \in tokens'
        PROVE  Fine(r, t)'
    <3>1. CASE b \in beside[r]
      BY <3>1, <2>1, <1>6 DEF Fine
    <3>2. CASE b \notin beside[r]
      <4>1. seen[b].password.secret = r /\ \A u \in seen[b].tokens : Fine(r, u)'
        BY <3>2, <2>4, <2>5, <1>1, <1>6 DEF ChangedRead
      <4>. QED
        BY <4>1, <1>6 DEF Fine
    <3>. QED
      BY <3>1, <3>2
  <2>6. ChangedFine'
    BY <2>3, <2>5, <1>6 DEF ChangedFine
  <2>7. ChangedRead'
    BY <2>3, <2>4, <1>1, <1>6 DEF ChangedRead
  <2>. QED
    BY <2>2, <2>6, <2>7
<1>7. ASSUME NEW b \in Requests, Ends(b)
      PROVE  ChangedInv'
  <2>1. /\ UNCHANGED <<password, beside, kind, seen, under>> /\ tokens' = {} /\ InFlight(b)
        /\ \A q \in Requests : q # b => pc'[q] = pc[q]
        /\ \A q \in Requests : Writing(q)' => Writing(q)
    BY <1>7 DEF Ends, Writing
  <2>2. \A r \in Requests : Changed(r)' => Changed(r) /\ pc[r] = "done" /\ r # b
    BY <2>1 DEF Changed, ChangedFine, InFlight
  <2>3. \A r \in Requests, t \in Seconds : Changed(r) /\ Fine(r, t) => Fine(r, t)'
    BY <2>1, <2>2, <1>1 DEF Fine, ChangedFine
  <2>4. ClearedSlips' /\ ChangedFine'
    BY <2>1, <2>2 DEF ClearedSlips, ChangedFine
  <2>5. ChangedRead'
    BY <2>1, <2>2, <2>3, <1>1 DEF ChangedRead
  <2>. QED
    BY <2>4, <2>5
<1>8. ASSUME NEW r \in Requests, Sign(r)
      PROVE  ChangedInv'
  BY <1>5, <1>8 DEF Sign, login, Goto, Writing, hist, Places
<1>9. ASSUME NEW r \in Requests, Passes(r)
      PROVE  ChangedInv'
  <2>1. /\ UNCHANGED <<tokens, under, beside, kind>>
        /\ \A q \in Requests : kind[q] # "forgot" => seen'[q] = seen[q]
        /\ \A q \in Requests : pc'[q] = "cleared" => pc[q] = "cleared"
    BY <1>9 DEF Passes
  <2>2. \A q \in Requests : kind[q] = "change" /\ pc[q] = "done" => pc'[q] = "done"
    BY <1>9 DEF Passes, InFlight
  <2>3. \A q \in Requests : Writing(q)' => Writing(q)
    BY <1>9 DEF Passes, Writing
  <2>4. \A q \in Requests : Writing(q) => seen'[q] = seen[q]
    BY <2>1 DEF Writing
  <2>. QED
    BY <1>5, <2>1, <2>2, <2>3, <2>4
<1>10. CASE Still
  <2>1. UNCHANGED <<tokens, under, beside, kind, pc, seen>>
    BY <1>10 DEF Still
  <2>2. \A q \in Requests : Writing(q)' => Writing(q)
    BY <2>1 DEF Writing
  <2>. QED
    BY <1>5, <2>1, <2>2
<1>11. ASSUME NEW r \in Requests, AddToken(r)
      PROVE  ChangedInv'
  <2>1. /\ UNCHANGED <<password, beside, kind, seen, fresh>>
        /\ tokens' = seen[r].tokens \union {fresh[r]} /\ fresh[r] \in Seconds
        /\ Writing(r) /\ Wrote(r)'
        /\ \A q \in Requests : q # r => pc'[q] = pc[q]
        /\ \A q \in Requests : Writing(q)' => Writing(q)
    BY <1>11 DEF AddToken, Goto, Writing, Wrote, Places
  <2>2. /\ \A t \in Seconds : t # fresh[r] => under'[t] = under[t]
        /\ under'[fresh[r]] = seen[r].password.secret
    BY <2>1, <1>11 DEF AddToken
  <2>. QED
    BY <1>6, <2>1, <2>2
<1>12. ASSUME NEW r \in Requests, RemoveToken(r)
      PROVE  ChangedInv'
  BY <1>6, <1>12 DEF RemoveToken, Goto, Writing, Wrote, Places
<1>. QED
  BY TokenSteps, <1>4, <1>7, <1>8, <1>9, <1>10, <1>11, <1>12

-------------------------------------------------------------------------------
\* The inductive invariants of the list and of the password, for any requests.
SessionsInv == TypeOK /\ Places /\ Overlap /\ EndedInv /\ LoginsKept /\ LoginsRead
PasswordsInv ==
    TypeOK /\ Places /\ Overlap /\ PlainKinds /\ ChangedInv /\ ResetsRead /\ PasswordAccounted

LEMMA InitTypes == Init => TypeOK /\ Places /\ Overlap
<1>. SUFFICES ASSUME Init
              PROVE  TypeOK /\ Places /\ Overlap
  OBVIOUS
<1>1. password \in [secret : Secrets, times : Nat]
  BY DEF Init, Stored, Secrets
<1>2. TypeOK
  BY <1>1, RefreshTokensAssumption DEF Init, TypeOK, user, Secrets, Seconds
<1>3. Places /\ Overlap
  BY DEF Init, Places, Overlap, InFlight
<1>. QED
  BY <1>2, <1>3

\* Type correctness of the account, for any requests.
THEOREM TokensTypeCorrect == Spec => []TypeOK
<1>1. Init => TypeOK /\ Places
  BY InitTypes
<1>2. TypeOK /\ Places /\ [Next]_vars => (TypeOK /\ Places)'
  BY TokensTypeStep, PlacesStep
<1>. QED
  BY <1>1, <1>2, PTL DEF Spec

THEOREM SessionsInvariant == Spec => []SessionsInv
<1>1. Init => SessionsInv
  <2>. SUFFICES ASSUME Init
                PROVE  SessionsInv
    OBVIOUS
  <2>1. EndedInv
    BY DEF Init, EndedInv, EndedStaysEnded, EndedRead, LateRead, user
  <2>2. LoginsKept /\ LoginsRead
    BY DEF Init, LoginsKept, LoginsRead, Current
  <2>. QED
    BY <2>1, <2>2, InitTypes DEF SessionsInv
<1>2. SessionsInv /\ [Next]_vars => SessionsInv'
  BY TokensTypeStep, PlacesStep, OverlapStep, EndedStep, LoginsStep DEF SessionsInv
<1>. QED
  BY <1>1, <1>2, PTL DEF Spec

THEOREM PasswordsInvariant == Spec => []PasswordsInv
<1>1. Init => PasswordsInv
  <2>. SUFFICES ASSUME Init
                PROVE  PasswordsInv
    OBVIOUS
  <2>1. PlainKinds
    BY DEF Init, PlainKinds, ByForgot, user, Stored
  <2>2. ChangedInv
    BY RefreshTokensAssumption
    DEF Init, ChangedInv, ClearedSlips, ChangedFine, ChangedRead, Changed, Stored
  <2>3. ResetsRead /\ PasswordAccounted
    BY DEF Init, ResetsRead, PasswordAccounted, Stored
  <2>. QED
    BY <2>1, <2>2, <2>3, InitTypes DEF PasswordsInv
<1>2. PasswordsInv /\ [Next]_vars => PasswordsInv'
  BY TokensTypeStep, PlacesStep, OverlapStep, PlainStep, ChangedStep, ResetsStep, AccountStep
  DEF PasswordsInv
<1>. QED
  BY <1>1, <1>2, PTL DEF Spec

\* A session that a logout, a rotation or a password change ended comes back only by a
\* request that overlapped that end.
THEOREM EndedAlwaysStaysEnded == Spec => []EndedStaysEnded
<1>1. SessionsInv => EndedStaysEnded
  BY DEF SessionsInv, EndedInv
<1>. QED
  BY <1>1, SessionsInvariant, PTL

\* A refresh that begins after its token was ended is refused, with that exception.
THEOREM EndedTokensAlwaysRefused == Spec => []EndedTokensRefused
<1>1. SessionsInv => EndedTokensRefused
  BY DEF SessionsInv, EndedInv, LateRead, EndedTokensRefused, Places
<1>. QED
  BY <1>1, SessionsInvariant, PTL

\* The token of a login stays on the list until it is ended, or a request that
\* overlapped the login writes the list back without it.
THEOREM LoginsAlwaysLast == Spec => []LoginsLast
<1>1. SessionsInv => LoginsLast
  <2>. SUFFICES ASSUME SessionsInv, NEW t \in Returned("login") \ (ended \union Signed("rotate"))
                PROVE  t \in tokens \/ Overwritten(t)
    BY DEF LoginsLast
  <2>1. PICK l \in Requests : kind[l] = "login" /\ pc[l] = "done" /\ fresh[l] = t
    BY DEF Returned
  <2>2. t \in Seconds
    BY <2>1 DEF SessionsInv, Places
  <2>3. Current(t)
    BY <2>1 DEF Current, Signed
  <2>. QED
    BY <2>2, <2>3 DEF SessionsInv, LoginsKept
<1>. QED
  BY <1>1, SessionsInvariant, PTL

\* After a password change the list holds tokens of logins with the new password, and
\* what requests that overlapped the change wrote.
THEOREM PasswordChangeAlwaysRevokes == Spec => []PasswordChangeRevokes
<1>1. PasswordsInv => PasswordChangeRevokes
  BY DEF PasswordsInv, ChangedInv, ChangedFine, Changed, Fine, Slipped, PasswordChangeRevokes
<1>. QED
  BY <1>1, PasswordsInvariant, PTL

\* The unhashed password of a reset is there only until that request hashes it.
THEOREM PlainIsAlwaysTransient == Spec => []PlainIsTransient
<1>1. Init => PlainIsTransient
  BY DEF Init, PlainIsTransient, Stored
<1>2. TypeOK /\ Places /\ PlainIsTransient /\ [Next]_vars => PlainIsTransient'
  BY TransientStep
<1>3. PasswordsInv => TypeOK /\ Places
  BY DEF PasswordsInv
<1>. QED
  BY <1>1, <1>2, <1>3, PasswordsInvariant, PTL DEF Spec

\* With no request in flight the user can log in, lost mails, crashes and the resets
\* that read one another's password aside.
THEOREM AccountAlwaysReachable == Spec => []AccountReachable
<1>1. PasswordsInv => AccountReachable
  BY DEF PasswordsInv, PasswordAccounted, Pending, AccountReachable, Quiet, InFlight
<1>. QED
  BY <1>1, PasswordsInvariant, PTL
===============================================================================
