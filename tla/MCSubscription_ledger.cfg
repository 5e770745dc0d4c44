\* Payments submitted, approved, rejected and retried at the same time.
SPECIFICATION Spec
CONSTANTS
  u1 = u1
  u2 = u2
  p1 = p1
  p2 = p2
  p3 = p3
  admin1 = admin1
  admin2 = admin2
  ref1 = ref1
  ref2 = ref2
  ref3 = ref3
  Users = {u1, u2}
  Payments = {p1, p2}
  Reviewers = {admin1, admin2}
  References = {ref1, ref2}
  Terms = {1, 2}
  FirstTerm = 1
  MaxTime = 2
  MaxFaults = 1
SYMMETRY PaymentSymmetry
INVARIANT ApprovalSellsOnce
INVARIANT PeriodsDisjoint
INVARIANT PremiumWhilePaid
INVARIANT AnswerHolds
PROPERTY ImplementsPaidTime
