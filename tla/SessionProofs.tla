---------------------------- MODULE SessionProofs ----------------------------
(***************************************************************************)
(* Theorems about the three kinds of sessions, each of a specification of   *)
(* its own: of users (Accounts), of admins (AdminSessions) and of sockets   *)
(* (Sockets), for any number of them, of requests and of handlers.          *)
(***************************************************************************)
EXTENDS Accounts, AdminSessions, Sockets, TLAPS

-----------------------------------------------------------------------------
(* Users.  A refresh that has locked its session holds the row as it is stored, *)
(* so saving all of it writes nothing but the new token; and an account or a    *)
(* session that was there is never again what a sign-in creates.                *)

Sessions == [owner : Numbers \union {0}, token : Nat, revoked : BOOLEAN]

AccountsTypes ==
  /\ account \in [Numbers -> {"none", "ACTIVE", "DELETED"}]
  /\ session \in [SignIns -> Sessions] /\ expired \subseteq SignIns
  /\ signing \in [SignIns -> {"idle", "write", "session", "done", "failed"}]
  /\ found \in [SignIns -> Numbers \union {0}]
  /\ doing \in [Requests -> {"idle", "save", "authenticated", "done"}]
  /\ using \in [Requests -> SignIns \union {NoSession}]
  /\ held \in [Requests -> Sessions]
  /\ exchanged \subseteq Requests \X SignIns \X Nat

\* Rows are created once: a session by its sign-in, for an account that exists.
RowsStand ==
  \A s \in SignIns :
    /\ signing[s] # "done" => session[s].owner = 0
    /\ signing[s] = "session" => found[s] # 0
    /\ found[s] # 0 => account[found[s]] # "none"
    /\ session[s].owner # 0 => account[session[s].owner] # "none"

\* Whoever has locked a session alone has it, as it is stored.
HeldIsStored ==
  /\ \A r \in Requests : doing[r] = "authenticated" =>
       using[r] \in SignIns /\ session[using[r]].owner # 0
  /\ \A r \in Requests : doing[r] = "save" =>
       /\ using[r] \in SignIns /\ session[using[r]].owner # 0
       /\ held[r] = session[using[r]] /\ ~held[r].revoked
  /\ \A r, q \in Requests :
       doing[r] = "save" /\ doing[q] = "save" /\ using[r] = using[q] => r = q

\* The token of a session is beyond every one that was exchanged.
ExchangedAreOld ==
  /\ \A x \in exchanged : x[3] < session[x[2]].token /\ session[x[2]].owner # 0
  /\ TokenExchangedOnce

AccountsInv == AccountsTypes /\ RowsStand /\ HeldIsStored /\ ExchangedAreOld

\* A step that leaves sessions, requests and exchanges alone.
LEMMA QuietKeepsHeld ==
  ASSUME HeldIsStored, ExchangedAreOld, UNCHANGED <<session, requestVars>>
  PROVE (HeldIsStored /\ ExchangedAreOld)'
  BY DEF HeldIsStored, ExchangedAreOld, TokenExchangedOnce, requestVars

LEMMA AccountsInvStarts == AccountsInit => AccountsInv
  BY AccountsAssumption
  DEF AccountsInit, AccountsInv, AccountsTypes, RowsStand, HeldIsStored, ExchangedAreOld,
      TokenExchangedOnce, Sessions, NoSessionRow, Numbers

LEMMA SignInKeepsInv ==
  ASSUME AccountsInv, NEW s \in SignIns, SignIn(s)
  PROVE AccountsInv'
<1> USE AccountsAssumption DEF AccountsInv
<1>1. CASE FindAccount(s)
  <2>1. PICK a \in Numbers \union {0} : found' = [found EXCEPT ![s] = a] /\ (a # 0 => account[a] = "ACTIVE")
    BY <1>1 DEF FindAccount, Live
  <2>2. AccountsTypes'
    BY <1>1, <2>1 DEF AccountsTypes, FindAccount, requestVars
  <2>3. RowsStand'
    BY <1>1, <2>1 DEF AccountsTypes, RowsStand, FindAccount
  <2> QED BY <1>1, <2>2, <2>3, QuietKeepsHeld DEF FindAccount
<1>2. CASE ExpireSession(s)
  <2>1. AccountsTypes' /\ RowsStand'
    BY <1>2 DEF AccountsTypes, RowsStand, ExpireSession, requestVars
  <2> QED BY <1>2, <2>1, QuietKeepsHeld DEF ExpireSession
<1>3. CASE WriteAccount(s)
  <2>1. CASE account' = account /\ found' = found
    <3>1. AccountsTypes'
      BY <1>3, <2>1 DEF AccountsTypes, WriteAccount, requestVars
    <3>2. RowsStand'
      BY <1>3, <2>1 DEF AccountsTypes, RowsStand, WriteAccount
    <3> QED BY <1>3, <3>1, <3>2, QuietKeepsHeld DEF WriteAccount
  <2>2. ASSUME NEW a \in Numbers, account[a] = "none", account' = [account EXCEPT ![a] = "ACTIVE"],
               found' = [found EXCEPT ![s] = a], signing' = [signing EXCEPT ![s] = "session"]
        PROVE AccountsInv'
    <3>1. a # 0
      BY <2>2 DEF Numbers
    <3>2. AccountsTypes'
      BY <1>3, <2>2 DEF AccountsTypes, WriteAccount, requestVars
    <3>3. RowsStand'
      BY <1>3, <2>2, <3>1 DEF AccountsTypes, RowsStand, WriteAccount, Sessions
    <3> QED BY <1>3, <3>2, <3>3, QuietKeepsHeld DEF WriteAccount
  <2> QED BY <1>3, <2>1, <2>2 DEF WriteAccount
<1>4. CASE CreateSession(s)
  <2>1. session' = [session EXCEPT ![s] = [owner |-> found[s], token |-> 1, revoked |-> FALSE]]
    BY <1>4 DEF CreateSession
  <2>2. AccountsTypes'
    BY <1>4, <2>1 DEF AccountsTypes, CreateSession, requestVars, Sessions
  <2>3. session[s].owner = 0
    BY <1>4 DEF RowsStand, CreateSession
  <2>4. RowsStand'
    BY <1>4, <2>1 DEF AccountsTypes, RowsStand, CreateSession, requestVars, Sessions
  <2>5. HeldIsStored'
    BY <1>4, <2>1, <2>3 DEF AccountsTypes, HeldIsStored, CreateSession, requestVars, Sessions
  <2>6. ExchangedAreOld'
    BY <1>4, <2>1, <2>3
    DEF AccountsTypes, ExchangedAreOld, TokenExchangedOnce, CreateSession, requestVars, Sessions
  <2> QED BY <2>2, <2>4, <2>5, <2>6
<1> QED BY <1>1, <1>2, <1>3, <1>4 DEF SignIn

LEMMA LockRefreshKeepsInv ==
  ASSUME AccountsInv, NEW r \in Requests, NEW s \in SignIns, NEW token, LockRefresh(r, s, token)
  PROVE AccountsInv'
<1> USE AccountsAssumption DEF AccountsInv
<1>1. AccountsTypes'
  BY DEF AccountsTypes, LockRefresh
<1>2. RowsStand' /\ ExchangedAreOld'
  BY DEF RowsStand, ExchangedAreOld, TokenExchangedOnce, LockRefresh
<1>3. CASE doing' = [doing EXCEPT ![r] = "done"] /\ UNCHANGED <<using, held>>
  <2>1. HeldIsStored'
    BY <1>3 DEF AccountsTypes, HeldIsStored, LockRefresh
  <2> QED BY <1>1, <1>2, <2>1
<1>4. CASE /\ Valid(s)
           /\ doing' = [doing EXCEPT ![r] = "save"]
           /\ using' = [using EXCEPT ![r] = s]
           /\ held' = [held EXCEPT ![r] = session[s]]
  <2>1. session[s].owner # 0 /\ ~session[s].revoked
    BY <1>4 DEF Valid, Live, Numbers
  <2>2. HeldIsStored'
    BY <1>4, <2>1 DEF AccountsTypes, HeldIsStored, LockRefresh, Unlocked
  <2> QED BY <1>1, <1>2, <2>2
<1> QED BY <1>3, <1>4 DEF LockRefresh

LEMMA SaveRefreshKeepsInv ==
  ASSUME AccountsInv, NEW r \in Requests, SaveRefresh(r)
  PROVE AccountsInv'
<1> USE AccountsAssumption DEF AccountsInv
<1> DEFINE s == using[r]
           row == [session[s] EXCEPT !.token = @ + 1]
<1>1. /\ doing[r] = "save" /\ s \in SignIns
      /\ held[r] = session[s] /\ session[s].owner # 0 /\ ~session[s].revoked /\ session[s] \in Sessions
  BY DEF AccountsTypes, HeldIsStored, SaveRefresh
<1>2. session' = [session EXCEPT ![s] = row]
  BY <1>1 DEF SaveRefresh
<1>3. exchanged' = exchanged \union {<<r, s, session[s].token>>}
  BY <1>1 DEF SaveRefresh
<1>4. /\ row \in Sessions
      /\ row.owner = session[s].owner /\ row.token = session[s].token + 1 /\ ~row.revoked
  BY <1>1 DEF Sessions
<1> HIDE DEF row
<1>5. AccountsTypes'
  <2>1. session' \in [SignIns -> Sessions]
    BY <1>1, <1>2, <1>4 DEF AccountsTypes
  <2>2. exchanged' \subseteq Requests \X SignIns \X Nat
    BY <1>1, <1>3 DEF AccountsTypes, Sessions
  <2>3. doing' \in [Requests -> {"idle", "save", "authenticated", "done"}]
        /\ held' \in [Requests -> Sessions]
    BY DEF AccountsTypes, SaveRefresh, NoSessionRow, Sessions
  <2> QED BY <2>1, <2>2, <2>3 DEF AccountsTypes, SaveRefresh
<1>6. \A t \in SignIns : session'[t].owner = session[t].owner
  BY <1>1, <1>2, <1>4 DEF AccountsTypes
<1>7. RowsStand'
  BY <1>6 DEF RowsStand, SaveRefresh
<1>8. HeldIsStored'
  <2>1. \A q \in Requests : doing'[q] = "save" => doing[q] = "save" /\ q # r /\ held'[q] = held[q]
    BY DEF AccountsTypes, SaveRefresh
  <2>2. \A q \in Requests : doing'[q] = "authenticated" => doing[q] = "authenticated"
    BY DEF AccountsTypes, SaveRefresh
  <2>3. \A q \in Requests : doing'[q] = "save" => using[q] # s
    BY <1>1, <2>1 DEF HeldIsStored
  <2> QED BY <1>2, <1>6, <2>1, <2>2, <2>3 DEF AccountsTypes, HeldIsStored, SaveRefresh
<1>9. ExchangedAreOld'
  <2>1. \A x \in exchanged : x[2] \in SignIns /\ x[3] \in Nat
    BY DEF AccountsTypes
  <2>2. \A x \in exchanged' : x[3] < session'[x[2]].token /\ session'[x[2]].owner # 0
    BY <1>1, <1>2, <1>3, <1>4, <2>1 DEF AccountsTypes, ExchangedAreOld, Sessions
  <2>3. \A x \in exchanged : x[2] = s => x[3] # session[s].token
    BY <1>1, <2>1 DEF ExchangedAreOld, Sessions
  <2>4. TokenExchangedOnce'
    BY <1>3, <2>3 DEF ExchangedAreOld, TokenExchangedOnce
  <2> QED BY <2>2, <2>4 DEF ExchangedAreOld
<1> QED BY <1>5, <1>7, <1>8, <1>9

\* Sessions are only marked, by a request that holds none, where none is held.
LEMMA RevokeKeepsInv ==
  ASSUME AccountsInv, NEW r \in Requests, NEW sessions, Revoke(r, sessions),
         account' \in [Numbers -> {"none", "ACTIVE", "DELETED"}],
         \A a \in Numbers : account[a] # "none" => account'[a] # "none"
  PROVE AccountsInv'
<1> USE AccountsAssumption DEF AccountsInv
<1>1. session' \in [SignIns -> Sessions]
  <2>1. ASSUME NEW x \in Sessions PROVE [x EXCEPT !.revoked = TRUE] \in Sessions
    BY DEF Sessions
  <2> QED BY <2>1 DEF AccountsTypes, Revoke
<1>2. AccountsTypes'
  BY <1>1 DEF AccountsTypes, Revoke
<1>3. \A s \in SignIns : session'[s].owner = session[s].owner /\ session'[s].token = session[s].token
  BY DEF AccountsTypes, Revoke, Sessions
<1>4. \A s \in SignIns : session[s] # session'[s] => Unlocked(s)
  BY DEF AccountsTypes, Revoke, Unlocked
<1>5. RowsStand'
  <2>1. UNCHANGED <<signing, found>>
    BY DEF Revoke
  <2>2. \A s \in SignIns : found[s] \in Numbers \union {0} /\ session[s].owner \in Numbers \union {0}
    BY DEF AccountsTypes, Sessions
  <2> QED BY <1>3, <2>1, <2>2 DEF RowsStand
<1>6. HeldIsStored'
  <2>1. \A q \in Requests : doing'[q] \in {"save", "authenticated"} => doing'[q] = doing[q]
    BY DEF AccountsTypes, Revoke
  <2>2. \A q \in Requests : doing[q] = "save" => session'[using[q]] = session[using[q]]
    BY <1>4 DEF AccountsTypes, HeldIsStored, Unlocked
  <2>3. UNCHANGED <<using, held>>
    BY DEF Revoke
  <2>4. \A q \in Requests : doing'[q] = "authenticated" => using[q] \in SignIns /\ session'[using[q]].owner # 0
    BY <1>3, <2>1 DEF HeldIsStored
  <2>5. \A q \in Requests : doing'[q] = "save" =>
           /\ using[q] \in SignIns /\ session'[using[q]].owner # 0
           /\ held[q] = session'[using[q]] /\ ~held[q].revoked
    BY <2>1, <2>2 DEF HeldIsStored
  <2> QED BY <2>1, <2>3, <2>4, <2>5 DEF HeldIsStored
<1>7. ExchangedAreOld'
  BY <1>3 DEF AccountsTypes, ExchangedAreOld, TokenExchangedOnce, Revoke
<1> QED BY <1>2, <1>5, <1>6, <1>7

LEMMA RequestKeepsInv ==
  ASSUME AccountsInv, NEW r \in Requests, Request(r)
  PROVE AccountsInv'
<1> USE AccountsAssumption DEF AccountsInv
<1>1. ASSUME NEW s \in SignIns, NEW token, LockRefresh(r, s, token) PROVE AccountsInv'
  BY <1>1, LockRefreshKeepsInv
<1>2. ASSUME NEW s \in SignIns, Authenticate(r, s) PROVE AccountsInv'
  <2>1. AccountsTypes'
    BY <1>2 DEF AccountsTypes, Authenticate
  <2>2. HeldIsStored'
    BY <1>2 DEF AccountsTypes, HeldIsStored, Authenticate
  <2> QED
    BY <1>2, <2>1, <2>2 DEF RowsStand, ExchangedAreOld, TokenExchangedOnce, Authenticate
<1>3. CASE SaveRefresh(r)
  BY <1>3, SaveRefreshKeepsInv
<1>4. CASE RefreshAborts(r)
  <2>1. AccountsTypes'
    BY <1>4 DEF AccountsTypes, RefreshAborts, NoSessionRow, Sessions
  <2>2. HeldIsStored'
    BY <1>4 DEF AccountsTypes, HeldIsStored, RefreshAborts
  <2> QED
    BY <1>4, <2>1, <2>2 DEF RowsStand, ExchangedAreOld, TokenExchangedOnce, RefreshAborts
<1>5. ASSUME NEW sessions, Revoke(r, sessions), UNCHANGED account PROVE AccountsInv'
  BY <1>5, RevokeKeepsInv DEF AccountsTypes
<1>6. CASE DeleteAccount(r)
  <2>1. session[using[r]].owner \in Numbers
    BY <1>6 DEF AccountsTypes, HeldIsStored, DeleteAccount, Revoke, Sessions
  <2>2. /\ account' \in [Numbers -> {"none", "ACTIVE", "DELETED"}]
        /\ \A a \in Numbers : account[a] # "none" => account'[a] # "none"
    BY <1>6, <2>1 DEF AccountsTypes, DeleteAccount
  <2> QED BY <1>6, <2>2, RevokeKeepsInv DEF DeleteAccount
<1> QED BY <1>1, <1>2, <1>3, <1>4, <1>5, <1>6 DEF Request, Logout, LogoutAll

LEMMA AccountsInvHolds == AccountsSpec => []AccountsInv
<1>1. AccountsInv /\ [AccountsNext]_accountsVars => AccountsInv'
  <2>1. CASE UNCHANGED accountsVars
    BY <2>1 DEF AccountsInv, AccountsTypes, RowsStand, HeldIsStored, ExchangedAreOld,
                TokenExchangedOnce, accountsVars
  <2> QED BY <2>1, SignInKeepsInv, RequestKeepsInv DEF AccountsNext
<1> QED BY <1>1, AccountsInvStarts, PTL DEF AccountsSpec

\* A refresh token is exchanged by one request at most: RefreshToken reads,
\* compares and replaces it under the lock of the session.
THEOREM TokensAreExchangedOnce == AccountsSpec => []TokenExchangedOnce
<1>1. AccountsInv => TokenExchangedOnce
  BY DEF AccountsInv, ExchangedAreOld
<1> QED BY <1>1, AccountsInvHolds, PTL

\* A session that is out stays out, and one that is revoked keeps its token,
\* whatever refreshes, sign-ins and logouts were under way (validateSession,
\* RefreshToken, Logout, LogoutAll, DeleteAccount).
THEOREM OutStaysOut == AccountsSpec => OutIsOut
<1>1. AccountsInv /\ [AccountsNext]_accountsVars =>
        [\A s \in SignIns : session[s].owner # 0 =>
           /\ ~Valid(s) => ~Valid(s)'
           /\ session[s].revoked => session'[s].token = session[s].token]_accountsVars
  <2> SUFFICES ASSUME AccountsInv, AccountsNext, NEW s \in SignIns, session[s].owner # 0
               PROVE /\ ~Valid(s) => ~Valid(s)'
                     /\ session[s].revoked => session'[s].token = session[s].token
    OBVIOUS
  <2>1. /\ session'[s].owner = session[s].owner
        /\ session[s].revoked => session'[s].revoked /\ session'[s].token = session[s].token
    <3>1. ASSUME NEW t \in SignIns, SignIn(t)
          PROVE session'[s] = session[s]
      BY <3>1 DEF AccountsInv, AccountsTypes, RowsStand, SignIn, FindAccount, WriteAccount,
                  CreateSession, ExpireSession
    <3>2. ASSUME NEW r \in Requests, SaveRefresh(r)
          PROVE /\ session'[s].owner = session[s].owner
                /\ session[s].revoked => session'[s] = session[s]
      <4>1. CASE s = using[r]
        BY <3>2, <4>1 DEF AccountsInv, AccountsTypes, HeldIsStored, SaveRefresh, Sessions
      <4>2. CASE s # using[r]
        BY <3>2, <4>2 DEF AccountsInv, AccountsTypes, SaveRefresh
      <4> QED BY <4>1, <4>2
    <3>3. ASSUME NEW r \in Requests, NEW sessions, Revoke(r, sessions)
          PROVE /\ session'[s].owner = session[s].owner /\ session'[s].token = session[s].token
                /\ session[s].revoked => session'[s].revoked
      BY <3>3 DEF AccountsInv, AccountsTypes, Revoke, Sessions
    <3>4. ASSUME NEW r \in Requests, UNCHANGED session PROVE session'[s] = session[s]
      BY <3>4
    <3> QED
      BY <3>1, <3>2, <3>3, <3>4
      DEF AccountsNext, Request, LockRefresh, Authenticate, RefreshAborts, Logout, LogoutAll, DeleteAccount
  <2>2. \A a \in Numbers : account[a] # "none" /\ a \notin Live => a \notin Live'
    <3>1. ASSUME NEW t \in SignIns, SignIn(t), NEW a \in Numbers, account[a] \notin {"none", "ACTIVE"}
          PROVE account'[a] # "ACTIVE"
      BY <3>1 DEF AccountsInv, AccountsTypes, SignIn, FindAccount, WriteAccount, CreateSession, ExpireSession
    <3>2. ASSUME NEW r \in Requests, Request(r), NEW a \in Numbers, account[a] \notin {"none", "ACTIVE"}
          PROVE account'[a] # "ACTIVE"
      BY <3>2 DEF AccountsInv, AccountsTypes, Request, LockRefresh, SaveRefresh, RefreshAborts,
                  Authenticate, Logout, LogoutAll, DeleteAccount
    <3> QED BY <3>1, <3>2 DEF AccountsNext, Live
  <2>3. expired \subseteq expired'
    BY DEF AccountsNext, SignIn, FindAccount, WriteAccount, CreateSession, ExpireSession, Request,
           LockRefresh, SaveRefresh, RefreshAborts, Authenticate, Logout, LogoutAll, DeleteAccount,
           Revoke, requestVars
  <2>4. session[s].owner \in Numbers /\ account[session[s].owner] # "none"
    BY DEF AccountsInv, AccountsTypes, RowsStand, Sessions
  <2>5. ~Valid(s) => ~Valid(s)'
    BY <2>1, <2>2, <2>3, <2>4 DEF Valid
  <2> QED BY <2>1, <2>5
<1> QED BY <1>1, AccountsInvHolds, PTL DEF AccountsSpec, OutIsOut

-----------------------------------------------------------------------------
(* Users' sessions are those of SessionLife.  A refresh that has locked its     *)
(* session holds one whose account lives too: whoever ends the account ends its *)
(* sessions first, and waits for that lock.                                     *)

HeldIsOpen == \A r \in Requests : doing[r] = "save" => session[using[r]].owner \in Live

LEMMA SignInKeepsHeldOpen ==
  ASSUME AccountsInv, HeldIsOpen, NEW s \in SignIns, SignIn(s)
  PROVE HeldIsOpen'
<1>1. UNCHANGED <<doing, using>>
  BY DEF SignIn, FindAccount, WriteAccount, CreateSession, ExpireSession, requestVars
<1>2. Live \subseteq Live'
  BY DEF AccountsInv, AccountsTypes, SignIn, FindAccount, WriteAccount, CreateSession, ExpireSession, Live
<1>3. \A t \in SignIns : session[t].owner # 0 => session'[t] = session[t]
  BY DEF AccountsInv, AccountsTypes, RowsStand, SignIn, FindAccount, WriteAccount, CreateSession,
         ExpireSession
<1> QED BY <1>1, <1>2, <1>3 DEF AccountsInv, HeldIsStored, HeldIsOpen

LEMMA RequestKeepsHeldOpen ==
  ASSUME AccountsInv, HeldIsOpen, NEW r \in Requests, Request(r)
  PROVE HeldIsOpen'
<1>1. ASSUME NEW s \in SignIns, NEW token, LockRefresh(r, s, token) PROVE HeldIsOpen'
  <2>1. UNCHANGED <<session, Live>>
    BY <1>1 DEF LockRefresh, Live
  <2>2. CASE doing' = [doing EXCEPT ![r] = "done"] /\ using' = using
    BY <2>1, <2>2 DEF AccountsInv, AccountsTypes, HeldIsOpen
  <2>3. CASE Valid(s) /\ doing' = [doing EXCEPT ![r] = "save"] /\ using' = [using EXCEPT ![r] = s]
    BY <2>1, <2>3 DEF AccountsInv, AccountsTypes, HeldIsOpen, Valid
  <2> QED BY <1>1, <2>2, <2>3 DEF LockRefresh
<1>2. ASSUME NEW s \in SignIns, Authenticate(r, s) PROVE HeldIsOpen'
  BY <1>2 DEF AccountsInv, AccountsTypes, HeldIsOpen, Authenticate, Live
<1>3. CASE SaveRefresh(r) \/ RefreshAborts(r)
  <2>1. UNCHANGED <<using, Live>> /\ \A q \in Requests : doing'[q] = "save" => doing[q] = "save"
    BY <1>3 DEF AccountsInv, AccountsTypes, SaveRefresh, RefreshAborts, Live
  <2>2. \A t \in SignIns : session'[t].owner = session[t].owner
    BY <1>3 DEF AccountsInv, AccountsTypes, HeldIsStored, SaveRefresh, RefreshAborts, Sessions
  <2> QED BY <2>1, <2>2 DEF AccountsInv, HeldIsStored, HeldIsOpen
<1>4. ASSUME NEW sessions, Revoke(r, sessions),
             \A t \in SignIns \ sessions : session[t].owner \in Live => session[t].owner \in Live'
      PROVE HeldIsOpen'
  <2>1. UNCHANGED using /\ \A q \in Requests : doing'[q] = "save" => doing[q] = "save"
    BY <1>4 DEF AccountsInv, AccountsTypes, Revoke
  <2>2. \A q \in Requests : doing[q] = "save" => using[q] \in SignIns \ sessions
    BY <1>4 DEF AccountsInv, HeldIsStored, Revoke, Unlocked
  <2>3. \A t \in SignIns \ sessions : session'[t] = session[t]
    BY <1>4 DEF Revoke
  <2> QED BY <1>4, <2>1, <2>2, <2>3 DEF HeldIsOpen
<1>5. ASSUME NEW sessions, Revoke(r, sessions), UNCHANGED account PROVE HeldIsOpen'
  BY <1>4, <1>5 DEF Live
<1>6. CASE DeleteAccount(r)
  <2> DEFINE a == session[using[r]].owner
  <2>1. \A t \in SignIns \ SessionsOf(a) : session[t].owner \in Live => session[t].owner \in Live'
    BY <1>6 DEF AccountsInv, AccountsTypes, DeleteAccount, SessionsOf, Live
  <2> QED BY <1>4, <1>6, <2>1 DEF DeleteAccount
<1> QED BY <1>1, <1>2, <1>3, <1>5, <1>6 DEF Request, Logout, LogoutAll

LEMMA HeldIsOpenHolds == AccountsSpec => [](AccountsInv /\ HeldIsOpen)
<1>1. AccountsInit => HeldIsOpen
  BY DEF AccountsInit, HeldIsOpen
<1>2. AccountsInv /\ HeldIsOpen /\ [AccountsNext]_accountsVars => HeldIsOpen'
  <2>1. CASE UNCHANGED accountsVars
    BY <2>1 DEF HeldIsOpen, Live, accountsVars
  <2> QED BY <2>1, SignInKeepsHeldOpen, RequestKeepsHeldOpen DEF AccountsNext
<1> QED BY <1>1, <1>2, AccountsInvHolds, PTL DEF AccountsSpec

\* What a step leaves alone, in the terms of SessionLife.
LEMMA SameLives ==
  ASSUME \A s \in SignIns : Life(s)' = Life(s) /\ session'[s].token = session[s].token
  PROVE UNCHANGED UserSessions!slVars
BY DEF UserSessions!slVars

LEMMA SignInIsSessionStep ==
  ASSUME AccountsInv, NEW s \in SignIns, SignIn(s)
  PROVE [UserSessions!SLNext]_(UserSessions!slVars)
<1>1. ASSUME UNCHANGED session,
             \A t \in SignIns : session[t].owner # 0 => (session[t].owner \in Live' <=> session[t].owner \in Live)
      PROVE UNCHANGED UserSessions!slVars
  BY <1>1, SameLives DEF Life
<1>2. CASE FindAccount(s) \/ ExpireSession(s)
  BY <1>1, <1>2 DEF FindAccount, ExpireSession, Live
<1>3. CASE WriteAccount(s)
  <2>1. \A a \in Numbers : account[a] # "none" => (a \in Live' <=> a \in Live)
    BY <1>3 DEF AccountsInv, AccountsTypes, WriteAccount, Live
  <2>2. \A t \in SignIns : session[t].owner # 0 => session[t].owner \in Numbers /\ account[session[t].owner] # "none"
    BY DEF AccountsInv, AccountsTypes, RowsStand, Sessions
  <2> QED BY <1>1, <1>3, <2>1, <2>2 DEF WriteAccount
<1>4. CASE CreateSession(s)
  <2> DEFINE row == [owner |-> found[s], token |-> 1, revoked |-> FALSE]
  <2>1. session' = [session EXCEPT ![s] = row] /\ UNCHANGED Live
    BY <1>4 DEF CreateSession, Live
  <2>2. session[s].owner = 0 /\ found[s] # 0
    BY <1>4 DEF AccountsInv, RowsStand, CreateSession
  <2>3. session'[s] = row /\ \A t \in SignIns \ {s} : session'[t] = session[t]
    BY <2>1 DEF AccountsInv, AccountsTypes
  <2>4. Life(s) = "none" /\ Life(s)' \in {"open", "shut"} /\ session'[s].token = 1
    BY <2>2, <2>3 DEF Life
  <2>5. \A t \in SignIns \ {s} : Life(t)' = Life(t) /\ session'[t].token = session[t].token
    BY <2>1, <2>3 DEF Life
  <2>6. UserSessions!Begin(s)
    BY <2>4, <2>5 DEF UserSessions!Begin
  <2> QED BY <2>6 DEF UserSessions!SLNext
<1> QED BY <1>2, <1>3, <1>4 DEF SignIn

LEMMA SavingIsExchanging ==
  ASSUME AccountsInv, HeldIsOpen, NEW r \in Requests, SaveRefresh(r)
  PROVE UserSessions!SLNext
<1>0. PICK s \in SignIns : s = using[r]
  BY DEF AccountsInv, HeldIsStored, SaveRefresh
<1>1. /\ held[r] = session[s] /\ ~session[s].revoked /\ session[s] \in Sessions
      /\ session[s].owner \in Live /\ session[s].owner # 0
  BY <1>0 DEF AccountsInv, AccountsTypes, HeldIsStored, HeldIsOpen, SaveRefresh
<1>2. session' = [session EXCEPT ![s] = [session[s] EXCEPT !.token = @ + 1]] /\ UNCHANGED Live
  BY <1>0, <1>1 DEF SaveRefresh, Live
<1>3. /\ session'[s].owner = session[s].owner /\ session'[s].revoked = session[s].revoked
      /\ session'[s].token = session[s].token + 1
      /\ \A t \in SignIns \ {s} : session'[t] = session[t]
  BY <1>1, <1>2 DEF AccountsInv, AccountsTypes, Sessions
<1>4. Life(s) = "open" /\ \A t \in SignIns : Life(t)' = Life(t)
  BY <1>1, <1>2, <1>3 DEF Life
<1>5. [t \in SignIns |-> session'[t].token] =
        [[t \in SignIns |-> session[t].token] EXCEPT ![s] = session[s].token + 1]
  BY <1>1, <1>3
<1>6. UserSessions!Exchange(s)
  BY <1>4, <1>5 DEF UserSessions!Exchange
<1> QED BY <1>6 DEF UserSessions!SLNext

LEMMA RevokingIsShutting ==
  ASSUME AccountsInv, NEW r \in Requests, NEW sessions, Revoke(r, sessions),
         \A s \in SignIns \ sessions : session[s].owner \in Live' <=> session[s].owner \in Live
  PROVE UserSessions!SLNext
<1> DEFINE ended == {s \in SignIns : s \in sessions /\ Life(s) = "open"}
<1>1. \A s \in SignIns :
        /\ session'[s].owner = session[s].owner /\ session'[s].token = session[s].token
        /\ session'[s].revoked <=> (session[s].revoked \/ s \in sessions)
  BY DEF AccountsInv, AccountsTypes, Revoke, Sessions
<1>2. \A s \in SignIns : Life(s)' = IF s \in ended THEN "shut" ELSE Life(s)
  BY <1>1 DEF Life
<1>3. UserSessions!Shut(ended)
  BY <1>1, <1>2 DEF UserSessions!Shut
<1>4. ended \in SUBSET SignIns
  OBVIOUS
<1> HIDE DEF ended
<1> QED BY <1>3, <1>4 DEF UserSessions!SLNext

LEMMA RequestIsSessionStep ==
  ASSUME AccountsInv, HeldIsOpen, NEW r \in Requests, Request(r)
  PROVE [UserSessions!SLNext]_(UserSessions!slVars)
<1>1. ASSUME UNCHANGED <<session, account>> PROVE UNCHANGED UserSessions!slVars
  BY <1>1, SameLives DEF Life, Live
<1>2. ASSUME NEW sessions, Revoke(r, sessions), UNCHANGED account PROVE UserSessions!SLNext
  BY <1>2, RevokingIsShutting DEF Live
<1>3. CASE DeleteAccount(r)
  <2> DEFINE a == session[using[r]].owner
  <2>1. \A t \in SignIns \ SessionsOf(a) : session[t].owner \in Live' <=> session[t].owner \in Live
    BY <1>3 DEF AccountsInv, AccountsTypes, DeleteAccount, SessionsOf, Live
  <2> QED BY <1>3, <2>1, RevokingIsShutting DEF DeleteAccount
<1> QED
  BY <1>1, <1>2, <1>3, SavingIsExchanging
  DEF Request, LockRefresh, Authenticate, RefreshAborts, Logout, LogoutAll

\* The sessions of users implement SessionLife: no refresh, logout or deletion
\* of the account under way opens a session that is shut or exchanges its token
\* (RefreshToken, Logout, LogoutAll, DeleteAccount).
THEOREM UsersAlwaysImplementSessionLife == AccountsSpec => UsersImplementSessionLife
<1>1. AccountsInit => UserSessions!SLInit
  BY DEF AccountsInit, NoSessionRow, Life, UserSessions!SLInit
<1>2. AccountsInv /\ HeldIsOpen /\ [AccountsNext]_accountsVars =>
        [UserSessions!SLNext]_(UserSessions!slVars)
  <2>1. CASE UNCHANGED accountsVars
    BY <2>1, SameLives DEF accountsVars, Life, Live
  <2> QED BY <2>1, SignInIsSessionStep, RequestIsSessionStep DEF AccountsNext
<1> QED
  BY <1>1, <1>2, HeldIsOpenHolds, PTL DEF AccountsSpec, UsersImplementSessionLife, UserSessions!SLSpec

-----------------------------------------------------------------------------
(* Admins.  The version an access token carries counts the changes of the     *)
(* password there had been when its password or refresh token was checked:    *)
(* whoever holds a version took it with the check, in one row.                *)

Steps == [step : {"idle", "stamp", "create", "token", "done", "save", "change"},
          session : Logins \union {NoLogin}, version : Int, time : Int, checked : Int]

\* What an actor carries between the check and the token.
Counts(x) == x.version = x.checked + 1

AdminInv ==
  /\ changes \in Int /\ clock \in Int
  /\ admin \in [password : Int, version : Int, changedAt : Int]
  /\ admin.version = changes + 1
  /\ login \in [Logins -> Steps] /\ request \in [AdminRequests -> Steps]
  /\ \A l \in Logins : login[l].step \in {"stamp", "create", "token"} => Counts(login[l])
  /\ \A r \in AdminRequests : request[r].step = "save" => Counts(request[r])
  /\ \A t \in tokens : t.checked \in Int /\ Counts(t)
  /\ \A w \in welcomed : w.token.checked = w.changes

LEMMA AdminInvStarts == AdminInit => AdminInv
  BY DEF AdminInit, AdminInv, AtRest, Steps, Counts

\* A request that is over carries nothing.
LEMMA RequestsEndAtRest ==
  ASSUME AdminInv, NEW r \in AdminRequests, RequestEnds(r)
  PROVE /\ request' \in [AdminRequests -> Steps]
        /\ \A q \in AdminRequests : request'[q].step = "save" => Counts(request'[q])
  BY DEF AdminInv, RequestEnds, AtRest, Steps, Counts

LEMMA LoginKeepsAdminInv ==
  ASSUME AdminInv, NEW l \in Logins, NEW password,
         CheckPassword(l, password) \/ TakeTime(l) \/ CreateAdminSession(l) \/ IssueToken(l)
  PROVE AdminInv'
<1> USE DEF AdminInv, Counts, Steps, AtRest
<1>1. CASE CheckPassword(l, password)
  <2>1. CASE password = admin.password
    <3> DEFINE x == [step |-> "stamp", session |-> NoLogin, version |-> admin.version,
                     time |-> 0, checked |-> changes]
    <3>1. x \in Steps /\ Counts(x)
      OBVIOUS
    <3>2. login' = [login EXCEPT ![l] = x]
      BY <1>1, <2>1 DEF CheckPassword
    <3> HIDE DEF x
    <3> QED BY <1>1, <3>1, <3>2 DEF CheckPassword
  <2>2. CASE password # admin.password
    BY <1>1, <2>2 DEF CheckPassword
  <2> QED BY <2>1, <2>2
<1>2. CASE TakeTime(l)
  <2> DEFINE x == [login[l] EXCEPT !.step = "create", !.time = clock]
  <2>1. login[l] \in Steps /\ Counts(login[l])
    BY <1>2 DEF TakeTime
  <2>2. x \in Steps /\ Counts(x)
    BY <2>1
  <2>3. login' = [login EXCEPT ![l] = x]
    BY <1>2 DEF TakeTime
  <2> HIDE DEF x
  <2>4. /\ login' \in [Logins -> Steps]
        /\ \A k \in Logins : login'[k].step \in {"stamp", "create", "token"} => Counts(login'[k])
    BY <2>2, <2>3
  <2> QED BY <1>2, <2>4 DEF TakeTime
<1>3. CASE CreateAdminSession(l) BY <1>3 DEF CreateAdminSession
<1>4. CASE IssueToken(l) BY <1>4 DEF IssueToken, AccessToken
<1> QED BY <1>1, <1>2, <1>3, <1>4

LEMMA LockingKeepsAdminInv ==
  ASSUME AdminInv, NEW r \in AdminRequests, NEW s \in Logins, NEW token,
         LockAdminRefresh(r, s, token)
  PROVE AdminInv'
<1>1. CASE RequestEnds(r)
  BY <1>1, RequestsEndAtRest DEF AdminInv, LockAdminRefresh
<1>2. CASE request' = [request EXCEPT ![r] =
             [step |-> "save", session |-> s, version |-> admin.version, time |-> 0, checked |-> changes]]
  BY <1>2 DEF AdminInv, LockAdminRefresh, Counts, Steps
<1> QED BY <1>1, <1>2 DEF LockAdminRefresh

LEMMA SavingKeepsAdminInv ==
  ASSUME AdminInv, NEW r \in AdminRequests, SaveAdminRefresh(r)
  PROVE AdminInv'
<1>1. \A t \in tokens' : t.checked \in Int /\ Counts(t)
  BY DEF AdminInv, SaveAdminRefresh, AccessToken, Counts, Steps
<1> QED BY <1>1, RequestsEndAtRest DEF AdminInv, SaveAdminRefresh

LEMMA ChangeKeepsAdminInv ==
  ASSUME AdminInv, NEW r \in AdminRequests, NEW password,
         BeginPasswordChange(r) \/ ChangePassword(r, password)
  PROVE AdminInv'
<1>1. CASE BeginPasswordChange(r)
  BY <1>1, ZenonT(60) DEF AdminInv, BeginPasswordChange, Counts, Steps
<1>2. CASE ChangePassword(r, password)
  <2>1. /\ changes' \in Int /\ admin' \in [password : Int, version : Int, changedAt : Int]
        /\ admin'.version = changes' + 1
    BY <1>2 DEF AdminInv, ChangePassword, Steps
  <2> QED BY <1>2, <2>1, RequestsEndAtRest DEF AdminInv, ChangePassword
<1> QED BY <1>1, <1>2

\* The version decides: a token that is let in carries the admin's.
LEMMA LettingInKeepsAdminInv ==
  ASSUME AdminInv, NEW r \in AdminRequests, NEW t \in tokens, AuthenticateAdmin(r, t)
  PROVE AdminInv'
<1>1. LetIn(t) => t.checked = changes
  BY DEF AdminInv, LetIn, Counts
<1>2. \A w \in welcomed' : w.token.checked = w.changes
  BY <1>1 DEF AdminInv, AuthenticateAdmin
<1> QED BY <1>2, RequestsEndAtRest DEF AdminInv, AuthenticateAdmin

LEMMA AdminInvHolds == AdminSessionsSpec => []AdminInv
<1>1. AdminInv /\ [AdminNext]_adminVars => AdminInv'
  <2> SUFFICES ASSUME AdminInv, [AdminNext]_adminVars PROVE AdminInv'
    OBVIOUS
  <2>1. ASSUME NEW l \in Logins, NEW password,
               CheckPassword(l, password) \/ TakeTime(l) \/ CreateAdminSession(l) \/ IssueToken(l)
        PROVE AdminInv'
    BY <2>1, LoginKeepsAdminInv
  <2>2. ASSUME NEW r \in AdminRequests, NEW s \in Logins, NEW token,
               LockAdminRefresh(r, s, token)
        PROVE AdminInv'
    BY <2>2, LockingKeepsAdminInv
  <2>3. ASSUME NEW r \in AdminRequests, SaveAdminRefresh(r) PROVE AdminInv'
    BY <2>3, SavingKeepsAdminInv
  <2>4. ASSUME NEW r \in AdminRequests, NEW sessions, LogoutAdmin(r, sessions) PROVE AdminInv'
    BY <2>4, RequestsEndAtRest DEF AdminInv, LogoutAdmin
  <2>5. ASSUME NEW r \in AdminRequests, NEW password,
               BeginPasswordChange(r) \/ ChangePassword(r, password)
        PROVE AdminInv'
    BY <2>5, ChangeKeepsAdminInv
  <2>6. ASSUME NEW r \in AdminRequests, NEW t \in tokens, AuthenticateAdmin(r, t) PROVE AdminInv'
    BY <2>6, LettingInKeepsAdminInv
  <2>7. CASE CreateSuperAdmin \/ Tick
    BY <2>7 DEF AdminInv, CreateSuperAdmin, Tick
  <2>8. CASE UNCHANGED adminVars
    BY <2>8 DEF AdminInv, adminVars
  <2> QED
    BY <2>1, <2>2, <2>3, <2>4, <2>5, <2>6, <2>7, <2>8 DEF AdminNext, There
<1> QED BY <1>1, AdminInvStarts, PTL DEF AdminSessionsSpec

\* No access token is let in that rests on a password, or on a refresh token,
\* that was checked before the last ChangePassword, whatever logins and
\* refreshes were under way.
THEOREM TokensAlwaysFollowPassword == AdminSessionsSpec => []TokensFollowPassword
<1>1. AdminInv => TokensFollowPassword
  BY DEF AdminInv, TokensFollowPassword
<1> QED BY <1>1, AdminInvHolds, PTL

-----------------------------------------------------------------------------
(* An admin's sessions are those of SessionLife.  Its session is there when a   *)
(* login has created it, and a refresh that has locked a session keeps logouts  *)
(* and changes of the password from it until it has saved.                      *)

AdminRows == [there : BOOLEAN, token : Int, revoked : BOOLEAN, created : Int, opened : Int]

AdminRefreshInv ==
  /\ adminSession \in [Logins -> AdminRows]
  /\ \A l \in Logins : adminSession[l].revoked => adminSession[l].there
  /\ \A l \in Logins : login[l].step \in {"idle", "stamp", "create"} => ~adminSession[l].there
  /\ \A r \in AdminRequests : request[r].step = "save" =>
       /\ request[r].session \in Logins
       /\ adminSession[request[r].session].there /\ ~adminSession[request[r].session].revoked

\* A step by which no request comes to hold a session.
LEMMA QuietKeepsRefreshes ==
  ASSUME AdminInv, AdminRefreshInv, UNCHANGED <<adminSession, login>>,
         \A r \in AdminRequests : request'[r].step = "save" => request'[r] = request[r]
  PROVE AdminRefreshInv'
  BY DEF AdminRefreshInv

LEMMA RequestsEndQuietly ==
  ASSUME AdminInv, NEW r \in AdminRequests, RequestEnds(r)
  PROVE \A q \in AdminRequests : request'[q].step = "save" => request'[q] = request[q] /\ q # r
  BY DEF AdminInv, RequestEnds, AtRest

LEMMA LoginKeepsRefreshInv ==
  ASSUME AdminInv, AdminRefreshInv, NEW l \in Logins, NEW password,
         CheckPassword(l, password) \/ TakeTime(l) \/ CreateAdminSession(l) \/ IssueToken(l)
  PROVE AdminRefreshInv'
<1>1. CASE CheckPassword(l, password)
  <2>1. login'[l].step \in {"stamp", "done"} /\ \A k \in Logins \ {l} : login'[k] = login[k]
    BY <1>1 DEF AdminInv, CheckPassword, AtRest
  <2> QED BY <1>1, <2>1 DEF AdminRefreshInv, CheckPassword
<1>2. CASE TakeTime(l)
  <2>1. \A k \in Logins \ {l} : login'[k] = login[k]
    BY <1>2 DEF AdminInv, TakeTime
  <2> QED BY <1>2, <2>1 DEF AdminRefreshInv, TakeTime
<1>3. CASE CreateAdminSession(l)
  <2> DEFINE row == [there |-> TRUE, token |-> 1, revoked |-> FALSE, created |-> login[l].time,
                     opened |-> login[l].checked]
  <2>1. row \in AdminRows
    BY DEF AdminInv, AdminRows, Steps
  <2>2. adminSession' = [adminSession EXCEPT ![l] = row]
    BY <1>3 DEF CreateAdminSession
  <2>3. adminSession' \in [Logins -> AdminRows]
    BY <2>1, <2>2 DEF AdminRefreshInv
  <2>4. login'[l].step = "token" /\ \A k \in Logins \ {l} : login'[k] = login[k]
    BY <1>3 DEF AdminInv, Steps, CreateAdminSession
  <2>5. adminSession'[l].there /\ ~adminSession'[l].revoked
        /\ \A k \in Logins \ {l} : adminSession'[k] = adminSession[k]
    BY <2>2 DEF AdminRefreshInv
  <2> QED BY <1>3, <2>3, <2>4, <2>5 DEF AdminRefreshInv, CreateAdminSession
<1>4. CASE IssueToken(l)
  <2>1. login'[l].step = "done" /\ \A k \in Logins \ {l} : login'[k] = login[k]
    BY <1>4 DEF AdminInv, IssueToken, AtRest
  <2> QED BY <1>4, <2>1 DEF AdminRefreshInv, IssueToken
<1> QED BY <1>1, <1>2, <1>3, <1>4

LEMMA LockingKeepsRefreshInv ==
  ASSUME AdminInv, AdminRefreshInv, NEW r \in AdminRequests, NEW s \in There, NEW token,
         LockAdminRefresh(r, s, token)
  PROVE AdminRefreshInv'
<1>1. CASE RequestEnds(r)
  BY <1>1, RequestsEndQuietly, QuietKeepsRefreshes DEF LockAdminRefresh
<1>2. CASE /\ ~adminSession[s].revoked
           /\ request' = [request EXCEPT ![r] =
                [step |-> "save", session |-> s, version |-> admin.version, time |-> 0, checked |-> changes]]
  <2>1. request'[r].session = s /\ \A q \in AdminRequests \ {r} : request'[q] = request[q]
    BY <1>2 DEF AdminInv
  <2>2. s \in Logins /\ adminSession[s].there
    BY DEF There
  <2>3. UNCHANGED <<adminSession, login>>
    BY DEF LockAdminRefresh
  <2> QED BY <1>2, <2>1, <2>2, <2>3 DEF AdminRefreshInv
<1> QED BY <1>1, <1>2 DEF LockAdminRefresh

LEMMA SavingKeepsRefreshInv ==
  ASSUME AdminInv, AdminRefreshInv, NEW r \in AdminRequests, SaveAdminRefresh(r)
  PROVE AdminRefreshInv'
<1> DEFINE s == request[r].session
<1>1. s \in Logins /\ adminSession[s] \in AdminRows
  BY DEF AdminRefreshInv, SaveAdminRefresh
<1>2. adminSession' = [adminSession EXCEPT ![s] = [adminSession[s] EXCEPT !.token = @ + 1]]
  BY <1>1 DEF AdminRefreshInv, SaveAdminRefresh
<1>3. [adminSession[s] EXCEPT !.token = @ + 1] \in AdminRows
  BY <1>1 DEF AdminRows
<1>4. adminSession' \in [Logins -> AdminRows]
  BY <1>1, <1>2, <1>3 DEF AdminRefreshInv
<1>5. \A l \in Logins : /\ adminSession'[l].there = adminSession[l].there
                        /\ adminSession'[l].revoked = adminSession[l].revoked
  BY <1>1, <1>2 DEF AdminRefreshInv, AdminRows
<1>6. UNCHANGED login
  BY DEF SaveAdminRefresh
<1>7. \A q \in AdminRequests : request'[q].step = "save" => request'[q] = request[q]
  BY RequestsEndQuietly DEF SaveAdminRefresh
<1> QED BY <1>4, <1>5, <1>6, <1>7 DEF AdminRefreshInv

\* A logout or a change of the password: sessions that no refresh holds are shut.
ShutByAdmin(sessions) ==
  /\ \A s \in sessions : RowFree(s)
  /\ \A s \in Logins :
       /\ adminSession'[s].there = adminSession[s].there
       /\ adminSession'[s].token = adminSession[s].token
       /\ adminSession'[s].revoked <=> (adminSession[s].revoked \/ s \in sessions)

LEMMA ShuttingKeepsRefreshInv ==
  ASSUME AdminInv, AdminRefreshInv, NEW r \in AdminRequests, NEW sessions \in SUBSET There,
         ShutByAdmin(sessions), adminSession' \in [Logins -> AdminRows], RequestEnds(r), UNCHANGED login
  PROVE AdminRefreshInv'
<1>1. \A q \in AdminRequests : request'[q].step = "save" => request'[q] = request[q]
  BY RequestsEndQuietly
<1>2. \A q \in AdminRequests : request[q].step = "save" => request[q].session \notin sessions
  BY DEF ShutByAdmin, RowFree
<1> QED BY <1>1, <1>2 DEF AdminRefreshInv, ShutByAdmin, There

LEMMA LogoutShuts ==
  ASSUME AdminRefreshInv, NEW r \in AdminRequests, NEW sessions \in SUBSET There,
         LogoutAdmin(r, sessions)
  PROVE ShutByAdmin(sessions) /\ adminSession' \in [Logins -> AdminRows]
<1>1. adminSession \in [Logins -> AdminRows]
  BY DEF AdminRefreshInv
<1>2. adminSession' = [s \in Logins |->
        IF s \in sessions THEN [adminSession[s] EXCEPT !.revoked = TRUE] ELSE adminSession[s]]
  BY DEF LogoutAdmin
<1>3. \A s \in Logins : adminSession'[s] =
        IF s \in sessions THEN [adminSession[s] EXCEPT !.revoked = TRUE] ELSE adminSession[s]
  BY <1>2
<1>4. adminSession' \in [Logins -> AdminRows]
  BY <1>1, <1>2 DEF AdminRows
<1>5. \A s \in Logins : /\ adminSession'[s].there = adminSession[s].there
                        /\ adminSession'[s].token = adminSession[s].token
                        /\ adminSession'[s].revoked <=> (adminSession[s].revoked \/ s \in sessions)
  <2> SUFFICES ASSUME NEW s \in Logins
               PROVE /\ adminSession'[s].there = adminSession[s].there
                     /\ adminSession'[s].token = adminSession[s].token
                     /\ adminSession'[s].revoked <=> (adminSession[s].revoked \/ s \in sessions)
    OBVIOUS
  <2>1. adminSession[s] \in AdminRows
    BY <1>1
  <2>2. CASE s \in sessions
    BY <1>3, <2>1, <2>2 DEF AdminRows
  <2>3. CASE s \notin sessions
    BY <1>3, <2>3
  <2> QED BY <2>2, <2>3
<1> QED BY <1>4, <1>5 DEF LogoutAdmin, ShutByAdmin

\* Rows that are not there are not revoked, and stay so.
LEMMA ChangeShuts ==
  ASSUME AdminRefreshInv, \A s \in There : RowFree(s),
         adminSession' = [s \in Logins |-> [adminSession[s] EXCEPT !.revoked = adminSession[s].there]]
  PROVE ShutByAdmin(There) /\ adminSession' \in [Logins -> AdminRows]
  BY DEF AdminRefreshInv, There, ShutByAdmin, AdminRows

LEMMA AdminRefreshInvHolds == AdminSessionsSpec => [](AdminInv /\ AdminRefreshInv)
<1>1. AdminInit => AdminRefreshInv
  BY DEF AdminInit, AdminRefreshInv, NoAdminSession, AtRest, AdminRows
<1>2. AdminInv /\ AdminRefreshInv /\ [AdminNext]_adminVars => AdminRefreshInv'
  <2> SUFFICES ASSUME AdminInv, AdminRefreshInv, [AdminNext]_adminVars PROVE AdminRefreshInv'
    OBVIOUS
  <2>1. ASSUME NEW l \in Logins, NEW password,
               CheckPassword(l, password) \/ TakeTime(l) \/ CreateAdminSession(l) \/ IssueToken(l)
        PROVE AdminRefreshInv'
    BY <2>1, LoginKeepsRefreshInv
  <2>2. ASSUME NEW r \in AdminRequests, NEW s \in There, NEW token, LockAdminRefresh(r, s, token)
        PROVE AdminRefreshInv'
    BY <2>2, LockingKeepsRefreshInv
  <2>3. ASSUME NEW r \in AdminRequests, SaveAdminRefresh(r) PROVE AdminRefreshInv'
    BY <2>3, SavingKeepsRefreshInv
  <2>4. ASSUME NEW r \in AdminRequests, NEW sessions \in SUBSET There, LogoutAdmin(r, sessions)
        PROVE AdminRefreshInv'
    BY <2>4, LogoutShuts, ShuttingKeepsRefreshInv DEF LogoutAdmin
  <2>5. ASSUME NEW r \in AdminRequests, NEW password, ChangePassword(r, password)
        PROVE AdminRefreshInv'
    <3>1. CASE password = admin.password
      BY <2>5, <3>1, ChangeShuts, ShuttingKeepsRefreshInv DEF ChangePassword
    <3>2. CASE password # admin.password
      BY <2>5, <3>2, RequestsEndQuietly, QuietKeepsRefreshes DEF ChangePassword
    <3> QED BY <3>1, <3>2
  <2>6. ASSUME NEW r \in AdminRequests, BeginPasswordChange(r) PROVE AdminRefreshInv'
    <3>1. \A q \in AdminRequests : request'[q].step = "save" => request'[q] = request[q]
      BY <2>6 DEF AdminInv, Steps, BeginPasswordChange
    <3> QED BY <2>6, <3>1, QuietKeepsRefreshes DEF BeginPasswordChange
  <2>7. ASSUME NEW r \in AdminRequests, NEW t, AuthenticateAdmin(r, t) PROVE AdminRefreshInv'
    BY <2>7, RequestsEndQuietly, QuietKeepsRefreshes DEF AuthenticateAdmin
  <2>8. CASE CreateSuperAdmin \/ Tick \/ UNCHANGED adminVars
    BY <2>8, QuietKeepsRefreshes DEF CreateSuperAdmin, Tick, adminVars
  <2> QED
    BY <2>1, <2>2, <2>3, <2>4, <2>5, <2>6, <2>7, <2>8 DEF AdminNext
<1> QED BY <1>1, <1>2, AdminInvHolds, PTL DEF AdminSessionsSpec

LEMMA SameAdminLives ==
  ASSUME UNCHANGED adminSession PROVE UNCHANGED SessionsOfAdmin!slVars
BY DEF SessionsOfAdmin!slVars, AdminLife

LEMMA CreatingIsBeginning ==
  ASSUME AdminInv, AdminRefreshInv, NEW l \in Logins, CreateAdminSession(l)
  PROVE SessionsOfAdmin!SLNext
<1>1. ~adminSession[l].there
  BY DEF AdminRefreshInv, CreateAdminSession
<1>2. /\ adminSession'[l].there /\ ~adminSession'[l].revoked /\ adminSession'[l].token = 1
      /\ \A k \in Logins \ {l} : adminSession'[k] = adminSession[k]
  BY DEF AdminRefreshInv, CreateAdminSession
<1>3. AdminLife(l) = "none" /\ AdminLife(l)' = "open"
  BY <1>1, <1>2 DEF AdminLife
<1>4. \A k \in Logins \ {l} : AdminLife(k)' = AdminLife(k) /\ adminSession'[k].token = adminSession[k].token
  BY <1>2 DEF AdminLife
<1>5. SessionsOfAdmin!Begin(l)
  BY <1>2, <1>3, <1>4 DEF SessionsOfAdmin!Begin
<1> QED BY <1>5 DEF SessionsOfAdmin!SLNext

LEMMA AdminSavingIsExchanging ==
  ASSUME AdminInv, AdminRefreshInv, NEW r \in AdminRequests, SaveAdminRefresh(r)
  PROVE SessionsOfAdmin!SLNext
<1>0. PICK s \in Logins : s = request[r].session
  BY DEF AdminRefreshInv, SaveAdminRefresh
<1>1. adminSession[s] \in AdminRows /\ adminSession[s].there /\ ~adminSession[s].revoked
  BY <1>0 DEF AdminRefreshInv, SaveAdminRefresh
<1>2. adminSession' = [adminSession EXCEPT ![s] = [adminSession[s] EXCEPT !.token = @ + 1]]
  BY <1>0, <1>1 DEF AdminRefreshInv, SaveAdminRefresh
<1>3. /\ adminSession'[s].there /\ ~adminSession'[s].revoked
      /\ adminSession'[s].token = adminSession[s].token + 1
      /\ \A k \in Logins \ {s} : adminSession'[k] = adminSession[k]
  BY <1>1, <1>2 DEF AdminRefreshInv, AdminRows
<1>4. AdminLife(s) = "open" /\ \A k \in Logins : AdminLife(k)' = AdminLife(k)
  BY <1>1, <1>3 DEF AdminLife
<1>5. [k \in Logins |-> adminSession'[k].token] =
        [[k \in Logins |-> adminSession[k].token] EXCEPT ![s] = adminSession[s].token + 1]
  BY <1>3
<1>6. SessionsOfAdmin!Exchange(s)
  BY <1>4, <1>5 DEF SessionsOfAdmin!Exchange
<1> QED BY <1>6 DEF SessionsOfAdmin!SLNext

LEMMA ShutByAdminIsShutting ==
  ASSUME NEW sessions \in SUBSET Logins, ShutByAdmin(sessions)
  PROVE SessionsOfAdmin!SLNext
<1> DEFINE ended == {s \in Logins : s \in sessions /\ AdminLife(s) = "open"}
<1>1. \A s \in Logins : AdminLife(s)' = IF s \in ended THEN "shut" ELSE AdminLife(s)
  BY DEF AdminLife, ShutByAdmin
<1>2. SessionsOfAdmin!Shut(ended)
  BY <1>1 DEF ShutByAdmin, SessionsOfAdmin!Shut
<1>3. ended \in SUBSET Logins
  OBVIOUS
<1> HIDE DEF ended
<1> QED BY <1>2, <1>3 DEF SessionsOfAdmin!SLNext

\* The sessions of admins implement SessionLife: a refresh exchanges the token
\* of a session that is open when it saves, and neither a login nor a refresh
\* under way opens one that a logout or ChangePassword has shut.
THEOREM AdminsAlwaysImplementSessionLife == AdminSessionsSpec => AdminsImplementSessionLife
<1>1. AdminInit => SessionsOfAdmin!SLInit
  BY DEF AdminInit, NoAdminSession, AdminLife, SessionsOfAdmin!SLInit
<1>2. AdminInv /\ AdminRefreshInv /\ [AdminNext]_adminVars =>
        [SessionsOfAdmin!SLNext]_(SessionsOfAdmin!slVars)
  <2> SUFFICES ASSUME AdminInv, AdminRefreshInv, [AdminNext]_adminVars
               PROVE SessionsOfAdmin!SLNext \/ UNCHANGED SessionsOfAdmin!slVars
    OBVIOUS
  <2>1. CASE UNCHANGED adminSession
    BY <2>1, SameAdminLives
  <2>2. ASSUME NEW r \in AdminRequests, NEW sessions \in SUBSET There, LogoutAdmin(r, sessions)
        PROVE SessionsOfAdmin!SLNext
    BY <2>2, LogoutShuts, ShutByAdminIsShutting DEF There
  <2>3. ASSUME NEW r \in AdminRequests, NEW password, ChangePassword(r, password)
        PROVE SessionsOfAdmin!SLNext \/ UNCHANGED adminSession
    <3>1. CASE password = admin.password
      BY <2>3, <3>1, ChangeShuts, ShutByAdminIsShutting DEF ChangePassword, There
    <3> QED BY <2>3, <3>1 DEF ChangePassword
  <2> QED
    BY <2>1, <2>2, <2>3, CreatingIsBeginning, AdminSavingIsExchanging
    DEF AdminNext, CheckPassword, TakeTime, IssueToken, LockAdminRefresh, BeginPasswordChange,
        AuthenticateAdmin, CreateSuperAdmin, Tick, adminVars
<1> QED
  BY <1>1, <1>2, AdminRefreshInvHolds, PTL
  DEF AdminSessionsSpec, AdminsImplementSessionLife, SessionsOfAdmin!SLSpec

-----------------------------------------------------------------------------
(* Sockets.  The invariant is the property with the types it needs: closing a *)
(* channel and leaving the map are one step under the mutex, and only the     *)
(* reader, which is the one that closes, sends outside of it.                 *)

SocketsInv ==
  /\ reader \in [Sockets -> {"none", "reading", "reply", "leaving", "gone"}]
  /\ hub \subseteq Sockets
  /\ panicked \in BOOLEAN
  /\ NeverSendsOnClosed

\* A WritePump begins with its reader, and ends with a write that fails, which
\* ends the connection, or with the channel that the reader has closed.
PumpsInv ==
  /\ pump \in [Sockets -> {"none", "running", "gone"}]
  /\ channel \in [Sockets -> 0 .. ChannelSize]
  /\ \A s \in Sockets : pump[s] = "none" => reader[s] = "none"
  /\ \A s \in Sockets : pump[s] = "gone" => s \in broken \/ s \in closed

\* What the sockets of a user in the map are sent reaches open channels only.
LEMMA DeliveredToOpenChannels ==
  ASSUME SocketsInv, NEW u, Deliver(u), UNCHANGED <<hub, closed, reader>>
  PROVE SocketsInv'
<1>1. {s \in hub : UserOf[s] = u} \intersect closed = {}
  BY DEF SocketsInv, NeverSendsOnClosed
<1>2. panicked' = panicked
  BY <1>1 DEF Deliver, SocketsInv, NeverSendsOnClosed
<1> QED BY <1>2 DEF SocketsInv, NeverSendsOnClosed

LEMMA SocketsInvHolds == SocketsSpec => []SocketsInv
<1>1. SocketsInit => SocketsInv
  BY DEF SocketsInit, SocketsInv, NeverSendsOnClosed
<1>2. SocketsInv /\ [SocketsNext]_socketsVars => SocketsInv'
  <2> SUFFICES ASSUME SocketsInv, [SocketsNext]_socketsVars PROVE SocketsInv'
    OBVIOUS
  <2> USE DEF SocketsInv, NeverSendsOnClosed, ReaderGoes
  <2>1. ASSUME NEW s \in Sockets, RegisterSocket(s) PROVE SocketsInv'
    BY <2>1 DEF RegisterSocket
  <2>2. ASSUME NEW s \in Sockets, UnregisterSocket(s) PROVE SocketsInv'
    BY <2>2 DEF UnregisterSocket
  <2>3. ASSUME NEW s \in Sockets, Receive(s) \/ ReadFails(s) PROVE SocketsInv'
    BY <2>3 DEF Receive, ReadFails
  <2>4. ASSUME NEW s \in Sockets, Reply(s) PROVE SocketsInv'
    BY <2>4 DEF Reply
  <2>5. ASSUME NEW s \in Sockets, Break(s) \/ Write(s) \/ PumpEnds(s) PROVE SocketsInv'
    BY <2>5 DEF Break, Write, PumpEnds
  <2>6. ASSUME NEW u, SendToUser(u) PROVE SocketsInv'
    BY <2>6, DeliveredToOpenChannels DEF SendToUser
  <2>7. ASSUME NEW u, NEW key, TypingEvent(key, u) PROVE SocketsInv'
    BY <2>7, DeliveredToOpenChannels DEF TypingEvent
  <2>8. ASSUME NEW key, TypingForgotten(key) PROVE SocketsInv'
    BY <2>8 DEF TypingForgotten
  <2>9. CASE UNCHANGED socketsVars
    BY <2>9 DEF socketsVars
  <2> QED
    BY <2>1, <2>2, <2>3, <2>4, <2>5, <2>6, <2>7, <2>8, <2>9 DEF SocketsNext
<1> QED BY <1>1, <1>2, PTL DEF SocketsSpec

\* The process is never stopped by a send on a closed channel or by closing one
\* twice (Hub.Unregister, Hub.SendToUser, the read loop), for any sockets.
THEOREM NeverOnClosedChannels == SocketsSpec => []NeverSendsOnClosed
<1>1. SocketsInv => NeverSendsOnClosed
  BY DEF SocketsInv
<1> QED BY <1>1, SocketsInvHolds, PTL

LEMMA DeliveredWithinChannels ==
  ASSUME PumpsInv, NEW u, Deliver(u), UNCHANGED <<closed, reader, pump, broken>>
  PROVE PumpsInv'
<1>1. channel' \in [Sockets -> 0 .. ChannelSize]
  BY SocketsAssumption DEF Deliver, PumpsInv
<1> QED BY <1>1 DEF PumpsInv

LEMMA PumpsInvHolds == SocketsSpec => [](SocketsInv /\ PumpsInv)
<1>1. SocketsInit => PumpsInv
  BY SocketsAssumption DEF SocketsInit, PumpsInv
<1>2. SocketsInv /\ PumpsInv /\ [SocketsNext]_socketsVars => PumpsInv'
  <2> SUFFICES ASSUME SocketsInv, PumpsInv, [SocketsNext]_socketsVars PROVE PumpsInv'
    OBVIOUS
  <2> USE SocketsAssumption DEF ReaderGoes
  <2>1. ASSUME NEW s \in Sockets, RegisterSocket(s) PROVE PumpsInv'
    BY <2>1 DEF RegisterSocket, SocketsInv, PumpsInv
  <2>2. ASSUME NEW s \in Sockets, UnregisterSocket(s) PROVE PumpsInv'
    BY <2>2 DEF UnregisterSocket, SocketsInv, PumpsInv
  <2>3. ASSUME NEW s \in Sockets, Receive(s) \/ ReadFails(s) \/ Break(s) PROVE PumpsInv'
    BY <2>3 DEF Receive, ReadFails, Break, SocketsInv, PumpsInv
  <2>4. ASSUME NEW s \in Sockets, Reply(s) PROVE PumpsInv'
    <3>1. channel' \in [Sockets -> 0 .. ChannelSize]
      BY <2>4 DEF Reply, PumpsInv
    <3> QED BY <2>4, <3>1 DEF Reply, SocketsInv, PumpsInv
  <2>5. ASSUME NEW s \in Sockets, Write(s) PROVE PumpsInv'
    <3>1. channel' \in [Sockets -> 0 .. ChannelSize]
      BY <2>5 DEF Write, PumpsInv
    <3> QED BY <2>5, <3>1 DEF Write, PumpsInv
  <2>6. ASSUME NEW s \in Sockets, PumpEnds(s) PROVE PumpsInv'
    BY <2>6 DEF PumpEnds, PumpsInv
  <2>7. ASSUME NEW u, SendToUser(u) \/ \E key : TypingEvent(key, u) PROVE PumpsInv'
    BY <2>7, DeliveredWithinChannels DEF SendToUser, TypingEvent
  <2>8. CASE (\E key : TypingForgotten(key)) \/ UNCHANGED socketsVars
    BY <2>8 DEF TypingForgotten, socketsVars, PumpsInv
  <2> QED
    BY <2>1, <2>2, <2>3, <2>4, <2>5, <2>6, <2>7, <2>8 DEF SocketsNext
<1> QED BY <1>1, <1>2, SocketsInvHolds, PTL DEF SocketsSpec

\* Whoever waits in the read loop for room in the channel has a WritePump that
\* makes room, unless its connection is lost (Handler.handleSocketEvent).
THEOREM ReadersAreAlwaysServed == SocketsSpec => []ReadersAreServed
<1>1. SocketsInv /\ PumpsInv => ReadersAreServed
  BY SocketsAssumption DEF SocketsInv, NeverSendsOnClosed, PumpsInv, ReadersAreServed
<1> QED BY <1>1, PumpsInvHolds, PTL
=============================================================================
