----------------------------- MODULE RefreshTokens -----------------------------
(***************************************************************************)
(* The refresh tokens and the password of one user account under           *)
(* concurrent requests: login, logout, refresh, change password, forgot    *)
(* password, and UserAuth.refreshToken (rotate), which no controller       *)
(* reaches.  A request reads the user document first, awaits, and writes   *)
(* whole fields back: addRefreshToken stores the token list as it was read *)
(* plus one.  Each action is the code of one request between two awaits on *)
(* the database.                                                           *)
(*                                                                         *)
(* updateById is one command of Mongoose and Prisma and answers with what  *)
(* it stored; over Firebase it is an update and a read of its own.  Only   *)
(* forgot password uses the answer.                                        *)
(*                                                                         *)
(* A refresh token is a JWT of id, email and iat, so all that distinguishes*)
(* two tokens of a user is the second they were signed in: a token is a    *)
(* second.  Tokens never expire.                                           *)
(***************************************************************************)
EXTENDS Naturals

CONSTANTS Requests,   \* requests; r is also the new password of request r
          Kinds,      \* the kinds of request a run sends
          Databases,  \* the database adapters a run tries
          Orig,       \* the password of the sign-up
          MaxNow,     \* bound on the clock, in seconds
          MaxFaults   \* bound on crashes and mails that are not delivered

AllKinds == {"login", "logout", "refresh", "change", "forgot", "rotate"}
Seconds == 1..MaxNow
Secrets == Requests \union {Orig}

ASSUME RefreshTokensAssumption ==
    /\ Kinds \subseteq AllKinds
    /\ Databases \subseteq {"mongoose", "prisma", "firebase"}
    /\ Orig \notin Requests
    /\ MaxNow \in Nat \ {0} /\ MaxFaults \in Nat

VARIABLES
    tokens,    \* user.refreshTokens
    password,  \* user.password and salt: a secret, and how often it was hashed
    db,        \* the adapter of the installation; never changes
    now,       \* the clock, in seconds
    pc, kind,  \* request -> position, kind
    seen,      \* request -> the user document it read: [tokens, password]
    tok,       \* request -> the refresh token it presents, or 0
    fresh,     \* request -> the refresh token it has signed, or 0
    \* history
    given,     \* refresh tokens returned to clients
    ended,     \* tokens a logout or password change found, or a rotation used
    late,      \* refresh -> the ended tokens when it began
    beside,    \* request -> those in flight at one time with it
    under,     \* token -> the password its last login was checked against
    known,     \* passwords the user has chosen or been sent
    unsent,    \* passwords whose mail was lost
    faults     \* crashes and lost mails so far

user == [tokens |-> tokens, password |-> password]
reqv == <<pc, kind, seen, tok, fresh, late, beside>>
hist == <<given, ended, under>>
secrets == <<known, unsent>>
vars == <<tokens, password, db, now, reqv, hist, secrets, faults>>

\* The password field with bcrypt applied so many times: forgot stores a secret as it
\* is; what is hashed twice matches nothing anybody knows.
Stored(secret, times) == [secret |-> secret, times |-> times]

Init ==
    /\ tokens = {} /\ password = Stored(Orig, 1)
    /\ db \in Databases
    /\ now = 1
    /\ pc = [r \in Requests |-> "idle"]
    /\ kind \in [Requests -> Kinds]
    /\ seen = [r \in Requests |-> user]
    /\ tok = [r \in Requests |-> 0]
    /\ fresh = [r \in Requests |-> 0]
    /\ given = {} /\ ended = {}
    /\ late = [r \in Requests |-> {}]
    /\ beside = [r \in Requests |-> {}]
    /\ under = [t \in Seconds |-> Orig]
    /\ known = {Orig} /\ unsent = {}
    /\ faults = 0

InFlight(r) == pc[r] \notin {"idle", "done", "refused", "granted", "dead", "halfway"}
Quiet == \A r \in Requests : ~InFlight(r)

Goto(r, l) == pc' = [pc EXCEPT ![r] = l]

-------------------------------------------------------------------------------
(* The document is read: by AuthMiddleware, findByCredentials, forgot or   *)
(* verifyRefreshToken.  All but login and forgot need an access token, so  *)
(* somebody has logged in; refresh and rotate present a token they got.    *)

Begin(r) ==
    /\ pc[r] = "idle"
    /\ kind[r] \notin {"login", "forgot"} => given # {}
    /\ IF kind[r] \in {"refresh", "rotate"}
       THEN \E t \in given : tok' = [tok EXCEPT ![r] = t]
       ELSE UNCHANGED tok
    /\ seen' = [seen EXCEPT ![r] = user]
    /\ late' = [late EXCEPT ![r] = IF kind[r] = "refresh" THEN ended ELSE {}]
    /\ beside' = [q \in Requests |-> IF q = r THEN {x \in Requests : InFlight(x)}
                                    ELSE IF InFlight(q) THEN beside[q] \union {r}
                                    ELSE beside[q]]
    /\ Goto(r, "begun")
    /\ UNCHANGED <<tokens, password, db, now, kind, fresh, hist, secrets, faults>>

\* bcrypt.compare of what the client typed with the password as it was read; a
\* password that is not a hash matches nothing.
Matches(r, secret) ==
    seen[r].password = Stored(secret, 1)

\* LoginUseCase.login: the client may try any password it knows.
login(r) == kind[r] = "login" /\ \E secret \in known : Matches(r, secret)

\* generateAccessToken up to the update: a login whose password matches, or a
\* rotation whose token is on the list, signs a token of this second.
Sign(r) ==
    /\ pc[r] = "begun"
    /\ \/ login(r)
       \/ kind[r] = "rotate" /\ tok[r] \in seen[r].tokens
    /\ fresh' = [fresh EXCEPT ![r] = now]
    /\ Goto(r, "signed")
    /\ UNCHANGED <<tokens, password, now, db, kind, seen, tok, late, beside, hist, secrets,
                   faults>>

\* A wrong password or an unlisted token.
Refuse(r) ==
    /\ pc[r] = "begun"
    /\ \/ kind[r] \in {"login", "change"} /\ \E secret \in known : ~Matches(r, secret)
       \/ kind[r] \in {"refresh", "rotate"} /\ tok[r] \notin seen[r].tokens
    /\ Goto(r, "refused")
    /\ UNCHANGED <<tokens, password, now, kind, seen, tok, fresh, late, beside, db, hist,
                   secrets, faults>>

\* Mutant of AddToken: the list is replaced, not extended.
ReplaceTokens(r) ==
    /\ pc[r] = "signed"
    /\ tokens' = {fresh[r]}
    /\ ended' = ended \ {fresh[r]}
    /\ under' = [t \in Seconds |-> IF t = fresh[r] THEN seen[r].password.secret
                                          ELSE under[t]]
    /\ given' = given \union {fresh[r]}
    /\ Goto(r, "done")
    /\ UNCHANGED <<password, now, kind, seen, tok, fresh, late, beside, db, secrets,
                   faults>>

\* addRefreshToken: the list as read plus the new token.  A login is done now; a
\* rotation has its old token to remove.
AddToken(r) ==
    /\ pc[r] = "signed"
    /\ tokens' = seen[r].tokens \union {fresh[r]}
    /\ ended' = ended \ {fresh[r]}
    /\ under' = [t \in Seconds |-> IF t = fresh[r] THEN seen[r].password.secret
                                          ELSE under[t]]
    /\ IF kind[r] = "login"
       THEN Goto(r, "done") /\ given' = given \union {fresh[r]}
       ELSE Goto(r, "added") /\ UNCHANGED given
    /\ UNCHANGED <<password, now, kind, seen, tok, fresh, late, beside, db, secrets,
                   faults>>

\* removeRefreshToken, on the list as verifyRefreshToken read it, before the
\* rotation returns its new token.
RemoveToken(r) ==
    /\ pc[r] = "added"
    /\ tokens' = seen[r].tokens \ {tok[r]}
    /\ ended' = ended \union {tok[r]}
    /\ given' = given \union {fresh[r]}
    /\ Goto(r, "done")
    /\ UNCHANGED <<password, now, kind, seen, tok, fresh, late, beside, db, under, secrets,
                   faults>>

\* Mutant of Logout: one token is removed from the list as read.
LogoutOne(r) ==
    /\ pc[r] = "begun" /\ kind[r] = "logout"
    /\ \E t \in given : tokens' = seen[r].tokens \ {t}
    /\ ended' = ended \union tokens
    /\ Goto(r, "done")
    /\ UNCHANGED <<password, now, kind, seen, tok, fresh, late, beside, db, given, under,
                   secrets, faults>>

\* clearRefreshTokens.
Logout(r) ==
    /\ pc[r] = "begun" /\ kind[r] = "logout"
    /\ tokens' = {}
    /\ ended' = ended \union tokens
    /\ Goto(r, "done")
    /\ UNCHANGED <<password, now, kind, seen, tok, fresh, late, beside, db, given, under,
                   secrets, faults>>

\* Mutant of Refresh: the signature is verified, the list is not looked at.
RefreshUnlisted(r) ==
    /\ pc[r] = "begun" /\ kind[r] = "refresh"
    /\ Goto(r, "granted")
    /\ UNCHANGED <<tokens, password, now, kind, seen, tok, fresh, late, beside, db, hist,
                   secrets, faults>>

\* RefreshUseCase: an access token for a token on the list as it was read.
Refresh(r) ==
    /\ pc[r] = "begun" /\ kind[r] = "refresh"
    /\ tok[r] \in seen[r].tokens
    /\ Goto(r, "granted")
    /\ UNCHANGED <<tokens, password, now, kind, seen, tok, fresh, late, beside, db, hist,
                   secrets, faults>>

-------------------------------------------------------------------------------
(* Change password: compare, invalidateAllRefreshTokens, store the hash.   *)

\* Mutant of Invalidate: the tokens are left alone.
InvalidateNone(r) ==
    /\ pc[r] = "begun" /\ kind[r] = "change"
    /\ \E secret \in known : Matches(r, secret)
    /\ Goto(r, "cleared")
    /\ UNCHANGED <<tokens, password, now, kind, seen, tok, fresh, late, beside, db, hist,
                   secrets, faults>>

Invalidate(r) ==
    /\ pc[r] = "begun" /\ kind[r] = "change"
    /\ \E secret \in known : Matches(r, secret)
    /\ tokens' = {}
    /\ ended' = ended \union tokens
    /\ Goto(r, "cleared")
    /\ UNCHANGED <<password, now, kind, seen, tok, fresh, late, beside, db, given, under,
                   secrets, faults>>

\* recalculatePasswordHash of the new password.
ChangePassword(r) ==
    /\ pc[r] = "cleared"
    /\ password' = Stored(r, 1)
    /\ known' = known \union {r}
    /\ Goto(r, "done")
    /\ UNCHANGED <<tokens, now, kind, seen, tok, fresh, late, beside, db, hist, unsent,
                   faults>>

(* Forgot password: the random password is stored as it is, what updateById *)
(* answers is hashed and stored, and the random password is mailed.         *)

ResetPlain(r) ==
    /\ pc[r] = "begun" /\ kind[r] = "forgot"
    /\ password' = Stored(r, 0)
    /\ IF db = "firebase"
       THEN Goto(r, "stored") /\ UNCHANGED seen
       ELSE Goto(r, "plain") /\ seen' = [seen EXCEPT ![r].password = Stored(r, 0)]
    /\ UNCHANGED <<tokens, now, kind, tok, fresh, late, beside, db, hist, secrets, faults>>

\* FirebaseRepository.updateById reads the record again, whoever wrote it last.
Reread(r) ==
    /\ pc[r] = "stored"
    /\ seen' = [seen EXCEPT ![r].password = password]
    /\ Goto(r, "plain")
    /\ UNCHANGED <<tokens, password, now, kind, tok, fresh, late, beside, db, hist,
                   secrets, faults>>

\* Mutant of ResetHash: the password is stored again as it is.
RestorePlain(r) ==
    /\ pc[r] = "plain"
    /\ password' = seen[r].password
    /\ Goto(r, "hashed")
    /\ UNCHANGED <<tokens, now, kind, seen, tok, fresh, late, beside, db, hist, secrets,
                   faults>>

\* recalculatePasswordHash of the user that updateById answered with.
ResetHash(r) ==
    /\ pc[r] = "plain"
    /\ password' = [seen[r].password EXCEPT !.times = @ + 1]
    /\ Goto(r, "hashed")
    /\ UNCHANGED <<tokens, now, kind, seen, tok, fresh, late, beside, db, hist, secrets,
                   faults>>

Mail(r) ==
    /\ pc[r] = "hashed"
    /\ known' = known \union {r}
    /\ Goto(r, "done")
    /\ UNCHANGED <<tokens, password, now, kind, seen, tok, fresh, late, beside, db, hist,
                   unsent, faults>>

\* send answers false (or true for an unsubscribed user) and nothing is sent; the
\* result is not looked at.
MailLost(r) ==
    /\ pc[r] = "hashed"
    /\ faults < MaxFaults
    /\ faults' = faults + 1
    /\ unsent' = unsent \union {r}
    /\ Goto(r, "done")
    /\ UNCHANGED <<tokens, password, now, kind, seen, tok, fresh, late, beside, db, hist,
                   known>>

-------------------------------------------------------------------------------
\* The process dies in the middle of a request, a rotation between its two writes.
Crash(r) ==
    /\ InFlight(r)
    /\ faults < MaxFaults
    /\ faults' = faults + 1
    /\ Goto(r, IF pc[r] = "added" THEN "halfway" ELSE "dead")
    /\ UNCHANGED <<tokens, password, now, kind, seen, tok, fresh, late, beside, db, hist,
                   secrets>>

Tick ==
    /\ now < MaxNow
    /\ now' = now + 1
    /\ UNCHANGED <<tokens, password, db, reqv, hist, secrets, faults>>

Next ==
    \/ Tick
    \/ \E r \in Requests :
         \/ Begin(r) \/ Sign(r) \/ Refuse(r) \/ AddToken(r) \/ RemoveToken(r)
         \/ Logout(r) \/ Refresh(r) \/ Invalidate(r) \/ ChangePassword(r)
         \/ ResetPlain(r) \/ Reread(r) \/ ResetHash(r) \/ Mail(r) \/ MailLost(r) \/ Crash(r)

Spec == Init /\ [][Next]_vars

-------------------------------------------------------------------------------
TypeOK ==
    /\ tokens \subseteq Seconds
    /\ password \in [secret : Secrets, times : Nat]
    /\ db \in Databases
    /\ now \in Seconds
    /\ pc \in [Requests -> {"idle", "begun", "signed", "added", "cleared", "stored",
                           "plain", "hashed", "done", "refused", "granted", "dead",
                           "halfway"}]
    /\ kind \in [Requests -> Kinds]
    /\ seen \in [Requests -> [tokens : SUBSET Seconds,
                             password : [secret : Secrets, times : Nat]]]
    /\ tok \in [Requests -> Seconds \union {0}]
    /\ fresh \in [Requests -> Seconds \union {0}]
    /\ given \subseteq Seconds /\ ended \subseteq Seconds
    /\ late \in [Requests -> SUBSET Seconds]
    /\ beside \in [Requests -> SUBSET Requests]
    /\ under \in [Seconds -> Secrets]
    /\ known \subseteq Secrets /\ unsent \subseteq Requests
    /\ faults \in 0..MaxFaults

\* A login or a rotation that has written a token list back.
Wrote(q) == kind[q] \in {"login", "rotate"} /\ pc[q] \in {"added", "done", "halfway"}

\* Tokens that q wrote back, having read them, while a request ran that ends tokens.
Revived(t) ==
    \E q \in Requests :
        /\ Wrote(q) /\ t \in seen[q].tokens
        /\ \E e \in beside[q] : kind[e] \in {"logout", "change", "rotate"}

\* A session that a logout, a rotation or a password change ended does not come back,
\* unless a login or rotation that had read the list with it overlapped one of these:
\* it then writes the list back.  (A login of the same second has the same token, and
\* begins the session anew.)
EndedStaysEnded == \A t \in ended \cap tokens : Revived(t)

\* A refresh that begins after its token was ended is refused, although the list it
\* looks at is a copy (RefreshController.e2e.spec.ts:84): with the same exception.
EndedTokensRefused ==
    \A r \in Requests : pc[r] = "granted" /\ tok[r] \in late[r] => Revived(tok[r])

\* Tokens that a login added while q, which had read the list without them, had yet to
\* write it back.
Overwritten(t) ==
    \E q \in Requests :
        /\ Wrote(q) /\ t \notin seen[q].tokens
        /\ \E l \in beside[q] : kind[l] = "login" /\ fresh[l] = t

\* The refresh token of a login stays on the list until it is ended: other requests
\* that write the list back lose it only if they overlapped that login.  (A token that
\* a rotation signed again in its second is the rotation's by then.)
Signed(k) == {fresh[r] : r \in {q \in Requests : kind[q] = k}}
Returned(k) == {fresh[r] : r \in {q \in Requests : kind[q] = k /\ pc[q] = "done"}}
LoginsLast ==
    \A t \in Returned("login") \ (ended \union Signed("rotate")) :
        t \in tokens \/ Overwritten(t)

\* After a password change every token on the list comes from a login with the new
\* password, or was written by a login or rotation that overlapped the change.
PasswordChangeRevokes ==
    \A r \in Requests :
        password = Stored(r, 1) /\ kind[r] = "change" =>
            \A t \in tokens :
                \/ under[t] = r
                \/ \E q \in beside[r] : Wrote(q) /\ t \in seen[q].tokens \union {fresh[q]}

\* "Invalidate all refresh tokens when password is changed"
\* (ChangePasswordUseCase.ts:53): once it is, every token on the list comes from a
\* login with the new password.  The code does not keep this: see the exception above.
AllTokensRevoked ==
    \A r \in Requests :
        password = Stored(r, 1) /\ kind[r] = "change" => \A t \in tokens : under[t] = r

\* The unhashed password forgot stores is there only until that request hashes
\* it, whatever other requests write meanwhile, or for good if it died.
PlainIsTransient ==
    password.times = 0 =>
        \E r \in Requests : r = password.secret /\ pc[r] \in {"stored", "plain", "dead"}

\* Over Firebase, a reset that read a password again that another request wrote meanwhile
\* stores its hash: the one its own user was mailed is not it, and it may be twice hashed.
Garbled(q) ==
    /\ db = "firebase" /\ kind[q] = "forgot" /\ pc[q] \in {"hashed", "done", "dead"}
    /\ seen[q].password # Stored(q, 0)
    /\ password = [seen[q].password EXCEPT !.times = @ + 1]
    /\ \E x \in beside[q] : kind[x] \in {"forgot", "change"}

\* With no request in flight the user can log in: the stored password is the hash of one
\* the user chose or was sent, unless a reset died before it was mailed, the mail was
\* lost, or, over Firebase, resets overlapped one another or a password change.
AccountReachable ==
    Quiet =>
        \/ password.times = 1 /\ password.secret \in known
        \/ password.secret \in unsent
        \/ \E r \in Requests : r = password.secret /\ pc[r] = "dead"
        \/ \E q \in Requests : Garbled(q)
===============================================================================
