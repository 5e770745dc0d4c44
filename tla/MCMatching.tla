---------------------------- MODULE MCMatching ----------------------------
(***************************************************************************)
(* Instances of Matching for TLC.  Three users are enough for one actor to  *)
(* compete with itself over a quota and a client id across two pairs; two   *)
(* for everything that happens inside a pair.                               *)
(***************************************************************************)
EXTENDS Matching, TLC

CONSTANTS alice, bob, carol, r1, r2, r3, k1, k2

Send(actor, target, kind, client) ==
  [actor |-> actor, target |-> target, kind |-> kind, client |-> client]

\* Two users who like each other, one of them twice with different keys.
CrossingInputs ==
  {Send(alice, bob, "LIKE", k1), Send(alice, bob, "SUPER_LIKE", k2),
   Send(bob, alice, "LIKE", k1), Send(bob, alice, "PASS", k1)}

\* One user who reuses keys across two targets and runs out of likes.
QuotaInputs ==
  {Send(alice, bob, "LIKE", k1), Send(alice, bob, "LIKE", k2),
   Send(alice, bob, "SUPER_LIKE", k1), Send(alice, carol, "LIKE", k2),
   Send(alice, carol, "SUPER_LIKE", k2), Send(alice, carol, "PASS", k1)}

\* The few bodies that a liveness check can afford.
LivenessInputs ==
  {Send(alice, bob, "LIKE", k1), Send(bob, alice, "LIKE", k1),
   Send(alice, carol, "LIKE", k2)}

OnePlan == {"FREE"}
TwoPlans == {"FREE", "PREMIUM"}
OneLimit == [p \in OnePlan |-> [k \in PositiveKinds |-> 1]]
TwoLimits ==
  [p \in TwoPlans |-> [k \in PositiveKinds |->
     (IF p = "PREMIUM" THEN 1 ELSE 0) + (IF k = "LIKE" THEN 1 ELSE 0)]]

RequestSymmetry == Permutations(Requests)
=============================================================================
