------------------------------- MODULE Accounts -------------------------------
(***************************************************************************)
(* Concurrent requests about user accounts: sign-up, login with Apple and  *)
(* with Google, unsubscribe, activation and deactivation of the premium    *)
(* account.  Each looks the account up by e-mail and awaits, some of them  *)
(* twice, before it writes.  An action is the code of a request up to the  *)
(* next await on the database, one of three behind BaseRepository.         *)
(***************************************************************************)
EXTENDS Repository, Sequences, FiniteSets

CONSTANTS Requests,
          Emails, Lower,   \* addresses; address -> its toLocaleLowerCase
          Present          \* the tables of accounts a run may begin with

AccountTypes == {"free", "gold"}
Flows == {"Basic", "AppleOAuth", "GoogleOAuth"}   \* none has a "_" or a "%"
Records ==
    [email : Emails, authFlow : Flows, unsubscribed : BOOLEAN, accountType : AccountTypes,
     manual : BOOLEAN]

\* A table to begin with has unique addresses, in lower case where there is a password,
\* nobody unsubscribed, and every premium account controlled by hand.
WellFormed(table) ==
    /\ table \in Seq(Records)
    /\ \A u, v \in DOMAIN table : table[u].email = table[v].email => u = v
    /\ \A u \in DOMAIN table :
        /\ table[u].authFlow = "Basic" => Lower[table[u].email] = table[u].email
        /\ ~table[u].unsubscribed
        /\ table[u].accountType # "free" => table[u].manual

ASSUME AccountsAssumption ==
    /\ Emails # {} /\ Lower \in [Emails -> Emails]
    /\ \A e \in Emails : Lower[Lower[e]] = Lower[e]
    /\ Flows \intersect DOMAIN Containing = {}
    /\ \A table \in Present : WellFormed(table)

VARIABLES
    adapter, users,   \* the database; account -> record
    pc, kind, email,  \* request -> position, kind, address it names
    found,            \* request -> the account found, created or logged in to
    \* history
    since,            \* request -> the accounts there were when it began
    raced             \* addresses two requests were about to create at once

request == <<pc, kind, email, found, since>>
vars == <<adapter, users, request, raced>>

Kinds == {"signup", "apple", "google", "unsubscribe", "activate", "deactivate"}
OAuth == {"apple", "google"}
NewUser(e, flow) ==
    [email |-> e, authFlow |-> flow, unsubscribed |-> FALSE, accountType |-> "free",
     manual |-> FALSE]

Init ==
    /\ adapter \in Adapters /\ users \in Present
    /\ pc = [r \in Requests |-> "idle"]
    /\ kind = [r \in Requests |-> "signup"]
    /\ email = [r \in Requests |-> CHOOSE e \in Emails : TRUE]
    /\ found = [r \in Requests |-> None]
    /\ since = [r \in Requests |-> {}]
    /\ raced = {}

By(key, value) == [key |-> key, value |-> value]
Goto(r, l) == pc' = [pc EXCEPT ![r] = l]

\* findBy(query) of request r, on to the position hit or miss, unless the account found
\* is one of those turned away.
Look(r, query, turnedAway, hit, miss) ==
    \E u \in FindBy(adapter, users, query) :
        /\ Goto(r, IF u = None THEN miss ELSE IF u \in turnedAway THEN "refused" ELSE hit)
        /\ found' = [found EXCEPT ![r] = u]

-------------------------------------------------------------------------------
(* The controllers.                                                        *)

Begins(r, k, e) ==
    /\ pc[r] = "idle"
    /\ kind' = [kind EXCEPT ![r] = k] /\ email' = [email EXCEPT ![r] = e]
    /\ since' = [since EXCEPT ![r] = DOMAIN users]
    /\ UNCHANGED <<adapter, users, raced>>

\* signUp asks exists for the address in lower case.
SignUp(r, e) ==
    /\ Begins(r, "signup", e)
    /\ Goto(r, IF Exists(adapter, users, <<By("email", Lower[e])>>)
               THEN "refused" ELSE "look")
    /\ UNCHANGED found

AppleOAuth(r, e) ==
    /\ Begins(r, "apple", e)
    /\ Look(r, <<By("email", e), By("authFlow", "Basic")>>, {}, "refused", "sync")

GoogleOAuth(r, e) ==
    /\ Begins(r, "google", e)
    /\ Look(r, <<By("email", e)>>,
            {u \in DOMAIN users : users[u].authFlow = "Basic"}, "sync", "sync")

\* The redirect of the web client checks the same, by the user its code yields.
googleOAuthRedirect(r, e) == GoogleOAuth(r, e)

\* The code or the id token yields no user.
GoogleRefuses(r, e) ==
    /\ Begins(r, "google", e)
    /\ Goto(r, "refused") /\ UNCHANGED found

Unsubscribe(r, e) ==
    /\ Begins(r, "unsubscribe", e)
    /\ Look(r, <<By("email", e)>>,
            {u \in DOMAIN users : users[u].unsubscribed}, "write", "refused")

Premium(r, k, e) ==
    /\ Begins(r, k, e)
    /\ Look(r, <<By("email", e)>>, {}, "write", "refused")

-------------------------------------------------------------------------------
(* The use cases.                                                          *)

\* The identity token is not valid, or not for this user.
AppleRefuses(r) ==
    /\ pc[r] = "sync" /\ kind[r] = "apple" /\ Goto(r, "refused")
    /\ UNCHANGED <<adapter, users, kind, email, found, since, raced>>

\* appleOAuthSync and googleOAuthSync: log in, or go on to sign up.
Sync(r) ==
    /\ pc[r] = "sync"
    /\ Look(r, IF kind[r] = "apple"
               THEN <<By("authFlow", "AppleOAuth"), By("email", email[r])>>
               ELSE <<By("email", email[r])>>,
            {}, "granted", "look")
    /\ UNCHANGED <<adapter, users, kind, email, since, raced>>

\* The address of the new account: only sign-up changes it to lower case.
Address(r) == IF kind[r] = "signup" THEN Lower[email[r]] ELSE email[r]

\* BaseRepository.create looks for the address again.
CreateLooks(r) ==
    /\ pc[r] = "look"
    /\ Look(r, <<By("email", Address(r))>>, {}, "refused", "create")
    /\ UNCHANGED <<adapter, users, kind, email, since, raced>>

\* What the three ways to sign up hand to UserRepository.signUp.
AuthFlow(r) ==
    CASE kind[r] = "apple" -> "AppleOAuth"
      [] kind[r] = "google" -> "GoogleOAuth"
      [] OTHER -> "Basic"

Create(r) ==
    LET new == NewUser(Address(r), AuthFlow(r))
        id == Cardinality(DOMAIN users) + 1
    IN  /\ pc[r] = "create"
        /\ IF Creatable(adapter, users, new, "email")
           THEN /\ users' = Insert(users, id, new)
                /\ found' = [found EXCEPT ![r] = id]
                /\ Goto(r, IF kind[r] \in OAuth THEN "granted" ELSE "done")
           ELSE Goto(r, "refused") /\ UNCHANGED <<users, found>>
        /\ raced' = raced \union {Address(q) : q \in {p \in Requests \ {r} :
                        pc[p] = "create" /\ Address(p) = Address(r)}}
        /\ UNCHANGED <<adapter, kind, email, since>>

UpdateUnsubscribed(r) ==
    /\ pc[r] = "write" /\ kind[r] = "unsubscribe"
    /\ users' \in UpdateBy(adapter, users, <<By("email", email[r])>>,
                           [unsubscribed |-> TRUE])
    /\ Goto(r, "done")
    /\ UNCHANGED <<adapter, kind, email, found, since, raced>>

\* Any account type may be activated, "free" too.
UpdatePremium(r) ==
    /\ pc[r] = "write" /\ kind[r] \in {"activate", "deactivate"}
    /\ \E type \in IF kind[r] = "activate" THEN AccountTypes ELSE {"free"} :
        users' = UpdateById(adapter, users, found[r],
                            [accountType |-> type, manual |-> kind[r] = "activate"])
    /\ Goto(r, "done")
    /\ UNCHANGED <<adapter, kind, email, found, since, raced>>

Start(r) ==
    \E e \in Emails :
        \/ SignUp(r, e) \/ AppleOAuth(r, e) \/ GoogleOAuth(r, e)
        \/ googleOAuthRedirect(r, e) \/ GoogleRefuses(r, e) \/ Unsubscribe(r, e)
        \/ Premium(r, "activate", e) \/ Premium(r, "deactivate", e)

Next ==
    \E r \in Requests :
        \/ Start(r) \/ AppleRefuses(r) \/ Sync(r) \/ CreateLooks(r) \/ Create(r)
        \/ UpdateUnsubscribed(r) \/ UpdatePremium(r)

Spec == Init /\ [][Next]_vars

-------------------------------------------------------------------------------
Positions ==
    {"idle", "refused", "sync", "look", "create", "write", "granted", "done"}

TypeOK ==
    /\ adapter \in Adapters
    /\ DOMAIN users \subseteq 1..Cardinality(DOMAIN users)
    /\ \A u \in DOMAIN users : users[u] \in Records
    /\ pc \in [Requests -> Positions] /\ kind \in [Requests -> Kinds]
    /\ email \in [Requests -> Emails] /\ raced \subseteq Emails
    /\ found \in [Requests -> DOMAIN users \union {None}]
    /\ since \in [Requests -> SUBSET DOMAIN users]

\* Two accounts with one address come only from two requests that were both about
\* to create it, and only where no unique index stands behind the look: findBy, then
\* create, is no check at all between two processes.
OneAccountAnAddress ==
    \A u, v \in DOMAIN users :
        u # v /\ users[u].email = users[v].email =>
            adapter # "prisma" /\ users[u].email \in raced

\* Whoever signed up with a password is found by the login, which asks for the
\* address in lower case.
BasicIsLower ==
    \A u \in DOMAIN users :
        users[u].authFlow = "Basic" => Lower[users[u].email] = users[u].email

\* The queries of this request mean what they say: not under Prisma for an address
\* with a "_", nor under Firebase for a query with two keys.
Exact(r) ==
    /\ adapter = "prisma" => {email[r], Lower[email[r]]} \cap DOMAIN Containing = {}
    /\ adapter = "firebase" => kind[r] # "apple"

\* A login is to the account of the address the provider vouched for.
GrantedIsOwn ==
    \A r \in Requests :
        pc[r] = "granted" /\ Exact(r) => users[found[r]].email = email[r]

\* Apple and Google log nobody in to an account with a password that was there when
\* they asked: what they read first still holds when they read it again.
PasswordAccountsApart ==
    \A r \in Requests :
        /\ pc[r] = "granted" /\ Exact(r) /\ email[r] \notin raced
        /\ users[found[r]].authFlow = "Basic"
        => found[r] \notin since[r]

\* A sign-up is turned away only when the address is taken.
RefusalHasReason ==
    \A r \in Requests :
        pc[r] = "refused" /\ kind[r] = "signup" /\ Exact(r) =>
            \E u \in DOMAIN users : users[u].email = Lower[email[r]]

\* An unsubscription reaches an account of its address, and no other address.
UnsubscribeIsExact ==
    /\ \A r \in Requests :
        pc[r] = "done" /\ kind[r] = "unsubscribe" /\ Exact(r) =>
            \E u \in DOMAIN users :
                users[u].email = email[r] /\ users[u].unsubscribed
    /\ \A u \in DOMAIN users :
        users[u].unsubscribed =>
            \E r \in Requests :
                /\ pc[r] = "done" /\ kind[r] = "unsubscribe"
                /\ Exact(r) => users[u].email = email[r]

\* However activations and deactivations interleave, a premium account is one that
\* somebody controls by hand: no deactivation takes back one field of an activation.
PremiumIsManual ==
    \A u \in DOMAIN users : users[u].accountType # "free" => users[u].manual
===============================================================================
