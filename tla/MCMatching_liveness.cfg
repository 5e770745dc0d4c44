\* Fair scheduling: every request ends, every match is announced.
SPECIFICATION FairSpec
CONSTANTS
  alice = alice
  bob = bob
  carol = carol
  r1 = r1
  r2 = r2
  r3 = r3
  k1 = k1
  k2 = k2
  Users = {alice, bob, carol}
  Requests = {r1, r2}
  ClientIds = {k1, k2}
  Inputs <- LivenessInputs
  Plans <- OnePlan
  InitialPlan = "FREE"
  Limit <- OneLimit
  Days = {1}
  Blockers = {alice}
  Subscribers = {}
  MaxFaults = 0
PROPERTY RequestsEnd
PROPERTY MatchesAreAnnounced
