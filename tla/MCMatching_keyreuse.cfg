\* What the API guide says of a reused clientActionId.
SPECIFICATION Spec
CONSTANTS
  alice = alice
  bob = bob
  carol = carol
  r1 = r1
  r2 = r2
  r3 = r3
  k1 = k1
  k2 = k2
  Users = {alice, bob, carol}
  Requests = {r1, r2}
  ClientIds = {k1, k2}
  Inputs <- QuotaInputs
  Plans <- TwoPlans
  InitialPlan = "FREE"
  Limit <- TwoLimits
  Days = {1, 2}
  Blockers = {}
  Subscribers = {alice}
  MaxFaults = 1
SYMMETRY RequestSymmetry
INVARIANT ReusedKeyIsRefused
