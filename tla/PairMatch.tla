----------------------------- MODULE PairMatch -----------------------------
(***************************************************************************)
(* What discovery promises of a pair of users, with no requests, locks or   *)
(* transactions in sight: each user decides once about another user, a     *)
(* second positive decision forms the match of the pair in the same step,   *)
(* and a match that was undone never comes back.  Matching implements it.   *)
(***************************************************************************)
CONSTANTS Users

VARIABLES
  decided,   \* decided[<<u, v>>]: what u decided about v, or "NONE"
  match      \* match[p]: the status of the match of the pair p, or "NONE"

pmVars == <<decided, match>>

Sides == {s \in Users \X Users : s[1] # s[2]}
PairOf(u, v) == {u, v}
UserPairs == {PairOf(s[1], s[2]) : s \in Sides}

Likes == {"LIKE", "SUPER_LIKE"}

PMInit ==
  /\ decided = [s \in Sides |-> "NONE"]
  /\ match = [p \in UserPairs |-> "NONE"]

\* u decides about v.  A like answered by a like is a match, at once.
Decide(u, v, kind) ==
  /\ <<u, v>> \in Sides
  /\ decided[<<u, v>>] = "NONE"
  /\ decided' = [decided EXCEPT ![<<u, v>>] = kind]
  /\ match' = IF kind \in Likes /\ decided[<<v, u>>] \in Likes
              THEN [match EXCEPT ![PairOf(u, v)] = "ACTIVE"]
              ELSE match

Undo(p) ==
  /\ match[p] = "ACTIVE"
  /\ match' = [match EXCEPT ![p] = "UNMATCHED"]
  /\ UNCHANGED decided

PMNext ==
  \/ \E u, v \in Users, kind \in Likes \union {"PASS"} : Decide(u, v, kind)
  \/ \E p \in UserPairs : Undo(p)

PMSpec == PMInit /\ [][PMNext]_pmVars
=============================================================================
