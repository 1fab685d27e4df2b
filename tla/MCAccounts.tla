------------------------------ MODULE MCAccounts ------------------------------
(* Addresses "ann" and "Ann", which differ in case, "a_n" and "xa_n", of which  *)
(* one contains the other; a table to begin with that is empty or holds one     *)
(* account with a password, or one of each OAuth flow.                          *)
EXTENDS Accounts, TLC

MCEmails == {"ann", "Ann", "a_n", "xa_n"}
MCLower == [e \in MCEmails |-> IF e = "Ann" THEN "ann" ELSE e]
MCContaining == [e \in {"a_n", "xa_n"} |-> IF e = "a_n" THEN {"a_n", "xa_n"} ELSE {e}]
MCPresent == {<<>>, <<NewUser("xa_n", "Basic")>>,
              <<NewUser("Ann", "GoogleOAuth"), NewUser("a_n", "AppleOAuth")>>}

\* Accounts are unique and their addresses well-formed: as far as Accounts says.
AccountsHold == TypeOK /\ OneAccountAnAddress /\ BasicIsLower

\* A login is to the right account, by address and by flow, or refused for a reason.
GrantsAreOwn == GrantedIsOwn /\ PasswordAccountsApart /\ RefusalHasReason

\* The flags of an account are what was asked for it, whatever interleaves.
FlagsAreAsked == UnsubscribeIsExact /\ PremiumIsManual

Symmetry == Permutations(Requests)
===============================================================================
