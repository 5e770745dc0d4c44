\* The photos of one user: their limit, and which is primary.
SPECIFICATION Spec
CONSTANTS
  owner = owner
  viewer = viewer
  draft = draft
  p1 = p1
  p2 = p2
  p3 = p3
  v1 = v1
  d1 = d1
  w1 = w1
  w2 = w2
  newcomer = newcomer
  n1 = n1
  n2 = n2
  h1 = h1
  h2 = h2
  h3 = h3
  h4 = h4
  p4 = p4
  p5 = p5
  Users = {owner}
  MediaIds = {p1, p2, p3, p4, p5}
  Owner <- OwnerOnly
  Purpose <- PhotosOnly
  Published = {p1, p2, p4}
  Primary = {p1}
  Handlers = {h1, h2, h3, h4}
  NoMedium = NoMedium
  MaxProfilePhotos = 4
  AutoApprove = TRUE
  MaxAttempts = 1
  MaxFaults = 1
  Fields = {"name"}
  Tastes <- TwoTastes
  Matches = {}
  Aging = {}
  Drafts = {}
  Scenarios <- PhotoScenarios
CHECK_DEADLOCK FALSE
INVARIANT OnePrimary
INVARIANT OrphansAreRemoved
INVARIANT PhotoLimitHolds
ACTION_CONSTRAINT RefreshFirst
SYMMETRY Alike
