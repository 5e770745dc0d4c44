--------------------------- MODULE AdminSessions ---------------------------
(***************************************************************************)
(* Sessions of one admin (internal/admin): login, refresh, logout, change   *)
(* of the password, and the check of access tokens.  A login reads the      *)
(* admin, compares the password, and creates the session later, in no       *)
(* transaction; a change of the password revokes the sessions there are     *)
(* and steps the version that access tokens carry.                          *)
(*                                                                          *)
(* Time counts ticks, two to a second: a token's issue time is cut to the   *)
(* second, the other times are not.                                         *)
(***************************************************************************)
EXTENDS Integers, FiniteSets

CONSTANTS
  Logins,          \* handlers of Login; each names its session
  AdminRequests,   \* handlers of everything else
  NoLogin,
  MaxTicks,        \* bound: how long the clock runs
  MaxChanges,      \* bound: changes of the password
  MaxPasswords,    \* bound: passwords, one after the other
  MaxTokens        \* bound: refreshes of a session

ASSUME AdminAssumption ==
  MaxTicks \in Nat /\ MaxChanges \in Nat /\ MaxPasswords \in Nat /\ MaxTokens \in Nat /\ NoLogin \notin Logins

VARIABLES
  admin,         \* admin_users: password, token_version, password_changed_at (-1: never)
  adminSession,  \* admin_sessions: there, number of its refresh token, revoked, created_at
  login,         \* where each login is, the admin it has read and its time
  request,       \* where each other request is: step, session, admin row, and time
  tokens,        \* access tokens issued: session, version, issue time, and the
                 \* changes there had been when what they rest on was checked
  clock,
  changes,       \* observer: changes of the password committed
  welcomed       \* observer: access tokens let in, with the changes at that time

adminVars == <<admin, adminSession, login, request, tokens, clock, changes, welcomed>>

NoAdminSession == [there |-> FALSE, token |-> 0, revoked |-> FALSE, created |-> 0, opened |-> 0]
AtRest == [step |-> "idle", session |-> NoLogin, version |-> 0, time |-> 0, checked |-> 0]

Second(time) == time - (time % 2)

AccessToken(s, version, checked) ==
  [session |-> s, version |-> version, issued |-> Second(clock), checked |-> checked]

\* adminTokenStateValid and adminRefreshSessionStateValid
Since(time) == admin.changedAt = -1 \/ time >= admin.changedAt

There == {s \in Logins : adminSession[s].there}

\* A plausible bug: the refresh does not lock the row it reads.
RowFreeAlways(s) == s \in Logins

RowFree(s) == \A r \in AdminRequests : ~(request[r].step = "save" /\ request[r].session = s)

-----------------------------------------------------------------------------
(* Login *)

CheckPassword(l, password) ==
  /\ login[l].step = "idle"
  /\ login' = [login EXCEPT ![l] =
       IF password = admin.password
       THEN [step |-> "stamp", session |-> NoLogin, version |-> admin.version, time |-> 0, checked |-> changes]
       ELSE [AtRest EXCEPT !.step = "done"]]
  /\ UNCHANGED <<admin, adminSession, request, tokens, clock, changes, welcomed>>

TakeTime(l) ==
  /\ login[l].step = "stamp"
  /\ login' = [login EXCEPT ![l].step = "create", ![l].time = clock]
  /\ UNCHANGED <<admin, adminSession, request, tokens, clock, changes, welcomed>>

CreateAdminSession(l) ==
  /\ login[l].step = "create"
  /\ adminSession' = [adminSession EXCEPT ![l] =
       [there |-> TRUE, token |-> 1, revoked |-> FALSE, created |-> login[l].time,
        opened |-> login[l].checked]]
  /\ login' = [login EXCEPT ![l].step = "token"]
  /\ UNCHANGED <<admin, request, tokens, clock, changes, welcomed>>

\* With the version that was read first.
IssueToken(l) ==
  /\ login[l].step = "token"
  /\ tokens' = tokens \union {AccessToken(l, login[l].version, login[l].checked)}
  /\ login' = [login EXCEPT ![l] = [AtRest EXCEPT !.step = "done"]]
  /\ UNCHANGED <<admin, adminSession, request, clock, changes, welcomed>>

-----------------------------------------------------------------------------
RequestEnds(r) == request' = [request EXCEPT ![r] = [AtRest EXCEPT !.step = "done"]]

\* Refresh: the row of the token is locked and compared with the admin's.
LockAdminRefresh(r, s, token) ==
  /\ request[r].step = "idle" /\ token \in 1 .. adminSession[s].token /\ RowFree(s)
  /\ IF token = adminSession[s].token /\ ~adminSession[s].revoked /\ Since(adminSession[s].created)
     THEN request' = [request EXCEPT ![r] =
            [step |-> "save", session |-> s, version |-> admin.version, time |-> 0, checked |-> changes]]
     ELSE RequestEnds(r)
  /\ UNCHANGED <<admin, adminSession, login, tokens, clock, changes, welcomed>>

\* Updates the columns of the token only.
SaveAdminRefresh(r) ==
  LET s == request[r].session IN
  /\ request[r].step = "save"
  /\ adminSession' = [adminSession EXCEPT ![s].token = @ + 1]
  /\ tokens' = tokens \union {AccessToken(s, request[r].version, request[r].checked)}
  /\ RequestEnds(r)
  /\ UNCHANGED <<admin, login, clock, changes, welcomed>>

\* Logout: of the session a refresh token names, or of all.
LogoutAdmin(r, sessions) ==
  /\ request[r].step = "idle" /\ \A s \in sessions : RowFree(s)
  /\ adminSession' = [s \in Logins |->
       IF s \in sessions THEN [adminSession[s] EXCEPT !.revoked = TRUE] ELSE adminSession[s]]
  /\ RequestEnds(r)
  /\ UNCHANGED <<admin, login, tokens, clock, changes, welcomed>>

\* ChangePassword takes its time first, and then waits for the admin's row and
\* for those of the sessions.
BeginPasswordChange(r) ==
  /\ request[r].step = "idle" /\ changes < MaxChanges
  /\ request' = [request EXCEPT ![r].step = "change", ![r].time = clock]
  /\ UNCHANGED <<admin, adminSession, login, tokens, clock, changes, welcomed>>

ChangePassword(r, password) ==
  /\ request[r].step = "change"
  /\ password = admin.password => password < MaxPasswords
  /\ IF password = admin.password
     THEN /\ \A s \in There : RowFree(s)
          /\ admin' = [password |-> admin.password + 1, version |-> admin.version + 1,
                       changedAt |-> request[r].time]
          /\ adminSession' = [s \in Logins |-> [adminSession[s] EXCEPT !.revoked = adminSession[s].there]]
          /\ changes' = changes + 1
     ELSE UNCHANGED <<admin, adminSession, changes>>
  /\ RequestEnds(r)
  /\ UNCHANGED <<login, tokens, clock, welcomed>>

\* A plausible bug: the times alone decide.
LetInByTime(t) ==
  LET s == t.session IN
  /\ adminSession[s].there /\ ~adminSession[s].revoked
  /\ Since(t.issued)

\* CreateSuperAdmin for an admin that exists, run by an operator: a new password,
\* and nothing else.
CreateSuperAdmin ==
  /\ admin.password < MaxPasswords
  /\ admin' = [admin EXCEPT !.password = @ + 1]
  /\ UNCHANGED <<adminSession, login, request, tokens, clock, changes, welcomed>>

\* Authenticate: session, version and times, in one query.
LetIn(t) ==
  LET s == t.session IN
  /\ adminSession[s].there /\ ~adminSession[s].revoked
  /\ t.version = admin.version
  /\ Since(t.issued)

AuthenticateAdmin(r, t) ==
  /\ request[r].step = "idle"
  /\ welcomed' = IF LetIn(t) THEN welcomed \union {[token |-> t, changes |-> changes]} ELSE welcomed
  /\ RequestEnds(r)
  /\ UNCHANGED <<admin, adminSession, login, tokens, clock, changes>>

Tick ==
  /\ clock < MaxTicks /\ clock' = clock + 1
  /\ UNCHANGED <<admin, adminSession, login, request, tokens, changes, welcomed>>

-----------------------------------------------------------------------------
AdminInit ==
  /\ admin = [password |-> 0, version |-> 1, changedAt |-> -1]
  /\ adminSession = [s \in Logins |-> NoAdminSession]
  /\ login = [l \in Logins |-> AtRest]
  /\ request = [r \in AdminRequests |-> AtRest]
  /\ tokens = {} /\ clock = 0 /\ changes = 0 /\ welcomed = {}

AdminNext ==
  \/ \E l \in Logins :
       \/ \E password \in 0 .. MaxPasswords : CheckPassword(l, password)
       \/ TakeTime(l) \/ CreateAdminSession(l) \/ IssueToken(l)
  \/ \E r \in AdminRequests :
       \/ \E s \in There : \E token \in 1 .. MaxTokens : LockAdminRefresh(r, s, token)
       \/ SaveAdminRefresh(r)
       \/ \E s \in There : LogoutAdmin(r, {s})
       \/ LogoutAdmin(r, There)
       \/ BeginPasswordChange(r)
       \/ \E password \in 0 .. MaxPasswords : ChangePassword(r, password)
       \/ \E t \in tokens : AuthenticateAdmin(r, t)
  \/ CreateSuperAdmin \/ Tick

AdminSessionsSpec == AdminInit /\ [][AdminNext]_adminVars

-----------------------------------------------------------------------------
\* No access token outlives a call of ChangePassword: what is let in rests on a
\* password or a refresh token that was checked after the last of these calls.
\* (CreateSuperAdmin replaces the password without revoking anything.)
TokensFollowPassword ==
  \A w \in welcomed : w.token.checked = w.changes

AdminLife(s) ==
  IF ~adminSession[s].there THEN "none" ELSE IF adminSession[s].revoked THEN "shut" ELSE "open"

SessionsOfAdmin == INSTANCE SessionLife WITH
  Ids <- Logins,
  life <- [s \in Logins |-> AdminLife(s)],
  token <- [s \in Logins |-> adminSession[s].token]

\* The sessions of an admin are those of SessionLife too: a refresh that waits
\* between its check and its update never hands out a token of a session that a
\* logout or a change of the password has shut.
AdminsImplementSessionLife == SessionsOfAdmin!SLSpec

\* docs/API_MOBILE.md: "Changing an admin password revokes all admin sessions."
\* Nothing opened with an old password can be refreshed.
ChangeRevokesSessions ==
  \A s \in There : adminSession[s].opened < changes =>
    adminSession[s].revoked \/ ~Since(adminSession[s].created)
=============================================================================
