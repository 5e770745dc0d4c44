--------------------------- MODULE MCSubscription ---------------------------
(***************************************************************************)
(* Instances of Subscription for TLC: two users who compete for references, *)
(* three payments so that one user can extend twice, two admins.           *)
(***************************************************************************)
EXTENDS Subscription, TLC

CONSTANTS u1, u2, p1, p2, p3, admin1, admin2, ref1, ref2, ref3

PaymentSymmetry ==
  Permutations(Payments) \union Permutations(Reviewers)
    \union Permutations(References) \union Permutations(Users)
=============================================================================
