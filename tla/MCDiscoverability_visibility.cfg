\* Owners change what they show while workers publish and viewers look.
SPECIFICATION Spec
CONSTANTS
  owner = owner
  viewer = viewer
  draft = draft
  p1 = p1
  p2 = p2
  p3 = p3
  v1 = v1
  d1 = d1
  w1 = w1
  w2 = w2
  newcomer = newcomer
  n1 = n1
  n2 = n2
  h1 = h1
  h2 = h2
  h3 = h3
  h4 = h4
  p4 = p4
  p5 = p5
  Users = {owner, viewer, draft, newcomer}
  MediaIds = {p1, p2, p3, v1, d1, w1, w2, n1, n2}
  Owner <- OwnerOf
  Purpose <- PurposeOf
  Published = {p1, p2, v1, d1}
  Primary = {p1, v1, d1}
  Handlers = {h1, h2, h3}
  NoMedium = NoMedium
  MaxProfilePhotos = 3
  AutoApprove = TRUE
  MaxAttempts = 2
  MaxFaults = 2
  Fields = {"name"}
  Tastes <- TwoTastes
  Matches <- OneMatch
  Aging = {draft}
  Drafts = {draft}
  Scenarios <- AllScenarios
CHECK_DEADLOCK FALSE
INVARIANT TypeOK
INVARIANT WhatIsReadyCanBeServed
INVARIANT FlagIsRight
PROPERTY ShownIsDiscoverable
INVARIANT UploadsSettle
CONSTRAINT FewFaults
SYMMETRY Twins
