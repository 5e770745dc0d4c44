---------------------------- MODULE SessionLife ----------------------------
(***************************************************************************)
(* What a session promises, whoever signs in: it begins once, with its first *)
(* refresh token, each token is exchanged for the next only while it is open,*)
(* and it is shut for good.  Accounts and AdminSessions implement it; when a *)
(* session expires, and who may ask, is theirs alone.                       *)
(***************************************************************************)
EXTENDS Naturals

CONSTANT Ids     \* sessions

VARIABLES
  life,    \* "none", "open", "shut"
  token    \* the number of its refresh token

slVars == <<life, token>>

SLInit ==
  /\ life = [s \in Ids |-> "none"]
  /\ token = [s \in Ids |-> 0]

\* A session may come too late to be open at all.
Begin(s) ==
  /\ life[s] = "none"
  /\ \E start \in {"open", "shut"} : life' = [life EXCEPT ![s] = start]
  /\ token' = [token EXCEPT ![s] = 1]

Exchange(s) ==
  /\ life[s] = "open"
  /\ token' = [token EXCEPT ![s] = @ + 1]
  /\ UNCHANGED life

\* One, some or all of those of an account.
Shut(sessions) ==
  /\ \A s \in sessions : life[s] = "open"
  /\ life' = [s \in Ids |-> IF s \in sessions THEN "shut" ELSE life[s]]
  /\ UNCHANGED token

SLNext ==
  \/ \E s \in Ids : Begin(s) \/ Exchange(s)
  \/ \E sessions \in SUBSET Ids : Shut(sessions)

SLSpec == SLInit /\ [][SLNext]_slVars
=============================================================================
