\* Fair scheduling: sends and unmatchings that wait for each other.
SPECIFICATION Answers
CONSTANTS
  alice = alice
  bob = bob
  carol = carol
  ab = ab
  ac = ac
  s1 = s1
  s2 = s2
  d1 = d1
  d2 = d2
  k1 = k1
  k2 = k2
  hi = hi
  yo = yo
  Users = {alice, bob, carol}
  Conversations = {ab, ac}
  Members <- TwoPairs
  Senders = {s1, s2}
  Readers = {}
  ClientIds = {k1, k2}
  Texts = {hi, yo}
  Inputs <- KeyInputs
  Blockable = {}
  MaxMessages = 2
  MaxFaults = 0
PROPERTY HandlersEnd
PROPERTY MessagesAreTold
