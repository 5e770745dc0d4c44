\* Two users, crossing likes, unmatching, blocks, failures.
SPECIFICATION Spec
CONSTANTS
  alice = alice
  bob = bob
  carol = carol
  r1 = r1
  r2 = r2
  r3 = r3
  k1 = k1
  k2 = k2
  Users = {alice, bob}
  Requests = {r1, r2, r3}
  ClientIds = {k1, k2}
  Inputs <- CrossingInputs
  Plans <- OnePlan
  InitialPlan = "FREE"
  Limit <- OneLimit
  Days = {1}
  Blockers = {alice}
  Subscribers = {}
  MaxFaults = 1
SYMMETRY RequestSymmetry
INVARIANT MutualLikesMatch
INVARIANT AnnouncedOnce
INVARIANT StandingBlockHolds
PROPERTY ImplementsPairMatch
