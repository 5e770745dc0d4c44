------------------------------ MODULE Accounts ------------------------------
(***************************************************************************)
(* Accounts and sessions of one phone number or address (internal/auth).    *)
(* VerifyOTP finds or creates the account in one transaction and the        *)
(* session after it; RefreshToken exchanges a refresh token under the lock  *)
(* of its session; requests with an access token log out or delete.         *)
(* Which codes otp.Verify accepts is module Otp's; the phones' push tokens  *)
(* that a sign-in registers and a logout clears are module Push's.          *)
(***************************************************************************)
EXTENDS Integers, FiniteSets

CONSTANTS
  MaxAccounts,    \* bound: accounts the number may have, one after the other
  SignIns,        \* handlers of VerifyOTP with an accepted code; each names its session
  Requests,       \* handlers of everything else
  NoSession,
  MaxExchanges    \* bound: refresh tokens a session hands out

ASSUME AccountsAssumption ==
  MaxAccounts \in Nat /\ MaxExchanges \in Nat /\ NoSession \notin SignIns

Numbers == 1 .. MaxAccounts

VARIABLES
  account,     \* users.status of each account with the number
  session,     \* user_sessions: owner (0: no row), number of its refresh token, revoked
  expired,     \* sessions whose expires_at has passed
  signing,     \* where each sign-in is
  found,       \* the account its transaction has read; 0: none
  doing,       \* where each request is
  using,       \* the session its token names
  held,        \* the row a refresh has locked, as it read it
  exchanged    \* observer: <<request, session, token>> of the refreshes answered

accountsVars == <<account, session, expired, signing, found, doing, using, held, exchanged>>
requestVars == <<doing, using, held, exchanged>>

Live == {a \in Numbers : account[a] = "ACTIVE"}
NoSessionRow == [owner |-> 0, token |-> 0, revoked |-> FALSE]

\* validateSession and validateUser
Valid(s) == ~session[s].revoked /\ s \notin expired /\ session[s].owner \in Live

\* A plausible bug: the SELECT does not lock.
UnlockedAlways(s) == s \in SignIns

Unlocked(s) == \A r \in Requests : ~(doing[r] = "save" /\ using[r] = s)
SessionsOf(a) == {s \in SignIns : session[s].owner = a}

-----------------------------------------------------------------------------
(* VerifyOTP, after the code was accepted *)

FindAccount(s) ==
  /\ signing[s] = "idle"
  /\ \/ \E a \in Live : found' = [found EXCEPT ![s] = a]
     \/ Live = {} /\ found' = [found EXCEPT ![s] = 0]
  /\ signing' = [signing EXCEPT ![s] = "write"]
  /\ UNCHANGED <<account, session, requestVars, expired>>

\* No account: the next one, unless another sign-in was first (the unique index
\* of users).  An account: the UPDATE names its id only.
WriteAccount(s) ==
  /\ signing[s] = "write"
  /\ \/ /\ found[s] = 0 /\ Live = {}
        /\ \E a \in Numbers :
             /\ account[a] = "none" /\ \A b \in 1 .. a - 1 : account[b] # "none"
             /\ account' = [account EXCEPT ![a] = "ACTIVE"]
             /\ found' = [found EXCEPT ![s] = a]
        /\ signing' = [signing EXCEPT ![s] = "session"]
     \/ /\ found[s] = 0 /\ Live # {}
        /\ signing' = [signing EXCEPT ![s] = "failed"]
        /\ UNCHANGED <<account, found>>
     \/ /\ found[s] # 0
        /\ signing' = [signing EXCEPT ![s] = "session"]
        /\ UNCHANGED <<account, found>>
  /\ UNCHANGED <<session, requestVars, expired>>

\* The session is its own statement, and does not look at the account again.
CreateSession(s) ==
  /\ signing[s] = "session"
  /\ session' = [session EXCEPT ![s] = [owner |-> found[s], token |-> 1, revoked |-> FALSE]]
  /\ signing' = [signing EXCEPT ![s] = "done"]
  /\ UNCHANGED <<account, found, requestVars, expired>>

-----------------------------------------------------------------------------
(* RefreshToken *)

\* Finds the row by the token, locks it, and looks at it and at its account.
LockRefresh(r, s, token) ==
  /\ doing[r] = "idle" /\ token \in 1 .. session[s].token
  /\ Unlocked(s)
  /\ IF session[s].token = token /\ Valid(s)
     THEN /\ doing' = [doing EXCEPT ![r] = "save"]
          /\ using' = [using EXCEPT ![r] = s]
          /\ held' = [held EXCEPT ![r] = session[s]]
     ELSE /\ doing' = [doing EXCEPT ![r] = "done"]
          /\ UNCHANGED <<using, held>>
  /\ UNCHANGED <<account, session, signing, found, exchanged, expired>>

\* Save writes every column of the row as it was read.
SaveRefresh(r) ==
  LET s == using[r] IN
  /\ doing[r] = "save"
  /\ session' = [session EXCEPT ![s] = [held[r] EXCEPT !.token = @ + 1]]
  /\ exchanged' = exchanged \union {<<r, s, held[r].token>>}
  /\ doing' = [doing EXCEPT ![r] = "done"] /\ held' = [held EXCEPT ![r] = NoSessionRow]
  /\ UNCHANGED <<account, signing, found, using, expired>>

\* The transaction is rolled back, or the process dies.
RefreshAborts(r) ==
  /\ doing[r] = "save"
  /\ doing' = [doing EXCEPT ![r] = "done"] /\ held' = [held EXCEPT ![r] = NoSessionRow]
  /\ UNCHANGED <<account, session, signing, found, using, exchanged, expired>>

-----------------------------------------------------------------------------
(* Authenticate, and what an authenticated request does next *)

Authenticate(r, s) ==
  /\ doing[r] = "idle" /\ session[s].owner # 0
  /\ doing' = [doing EXCEPT ![r] = IF Valid(s) THEN "authenticated" ELSE "done"]
  /\ using' = [using EXCEPT ![r] = s]
  /\ UNCHANGED <<account, session, signing, found, held, exchanged, expired>>

\* Sets revoked_at of the sessions that have none, once their locks are free.
Revoke(r, sessions) ==
  /\ doing[r] = "authenticated" /\ \A s \in sessions : Unlocked(s)
  /\ session' = [s \in SignIns |->
       IF s \in sessions THEN [session[s] EXCEPT !.revoked = TRUE] ELSE session[s]]
  /\ doing' = [doing EXCEPT ![r] = "done"]
  /\ UNCHANGED <<signing, found, using, held, exchanged, expired>>

\* Of its own session, or of the one a refresh token names, if it still does:
\* a token that was exchanged names none, and the logout succeeds all the same.
Logout(r) ==
  /\ \/ Revoke(r, {using[r]})
     \/ \E s \in SignIns : \E token \in 1 .. session[s].token :
          Revoke(r, IF /\ session[s].owner = session[using[r]].owner
                       /\ token = session[s].token THEN {s} ELSE {})
  /\ UNCHANGED account

LogoutAll(r) == Revoke(r, SessionsOf(session[using[r]].owner)) /\ UNCHANGED account

DeleteAccount(r) ==
  LET a == session[using[r]].owner IN
  /\ Revoke(r, SessionsOf(a))
  /\ account' = [account EXCEPT ![a] = "DELETED"]

ExpireSession(s) ==
  /\ session[s].owner # 0 /\ s \notin expired
  /\ expired' = expired \union {s}
  /\ UNCHANGED <<account, session, signing, found, requestVars>>

-----------------------------------------------------------------------------
AccountsInit ==
  /\ account = [a \in Numbers |-> "none"]
  /\ session = [s \in SignIns |-> NoSessionRow]
  /\ expired = {}
  /\ signing = [s \in SignIns |-> "idle"] /\ found = [s \in SignIns |-> 0]
  /\ doing = [r \in Requests |-> "idle"] /\ using = [r \in Requests |-> NoSession]
  /\ held = [r \in Requests |-> NoSessionRow] /\ exchanged = {}

SignIn(s) == FindAccount(s) \/ WriteAccount(s) \/ CreateSession(s) \/ ExpireSession(s)

Request(r) ==
  \/ \E s \in SignIns :
       \/ \E token \in 1 .. MaxExchanges : LockRefresh(r, s, token)
       \/ Authenticate(r, s)
  \/ SaveRefresh(r) \/ RefreshAborts(r)
  \/ Logout(r) \/ LogoutAll(r) \/ DeleteAccount(r)

AccountsNext == (\E s \in SignIns : SignIn(s)) \/ (\E r \in Requests : Request(r))

AccountsSpec == AccountsInit /\ [][AccountsNext]_accountsVars

-----------------------------------------------------------------------------
\* Out is out: a session that has been revoked or has expired, or whose account
\* is deleted, never becomes valid again, and one that has been revoked hands
\* out no more tokens, whatever refresh or sign-in was under way.
OutIsOut ==
  [][\A s \in SignIns : session[s].owner # 0 =>
       /\ ~Valid(s) => ~Valid(s)'
       /\ session[s].revoked => session'[s].token = session[s].token]_accountsVars

\* A session ends with its row or with its account; that it expires is its own.
Life(s) ==
  IF session[s].owner = 0 THEN "none"
  ELSE IF session[s].revoked \/ session[s].owner \notin Live THEN "shut" ELSE "open"

UserSessions == INSTANCE SessionLife WITH
  Ids <- SignIns,
  life <- [s \in SignIns |-> Life(s)],
  token <- [s \in SignIns |-> session[s].token]

\* The sessions of users are those of SessionLife: whatever sign-ins, refreshes,
\* logouts and deletions of the account cross, each begins once, exchanges its
\* tokens only while it is open, and no step opens one that was shut.
UsersImplementSessionLife == UserSessions!SLSpec

\* No two refreshes are answered for one refresh token: a token that leaked or
\* was sent twice shows itself by a refusal.
TokenExchangedOnce ==
  \A x, y \in exchanged : x[2] = y[2] /\ x[3] = y[3] => x[1] = y[1]
=============================================================================
