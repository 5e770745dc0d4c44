\* Two senders and two readers in one conversation, and an unmatching; and a key
\* used again in two conversations, blocks and a handler that dies.
SPECIFICATION TalkOrKeys
CONSTANTS
  alice = alice
  bob = bob
  carol = carol
  ab = ab
  ac = ac
  s1 = s1
  s2 = s2
  d1 = d1
  d2 = d2
  k1 = k1
  k2 = k2
  hi = hi
  yo = yo
  Users = {alice, bob, carol}
  Conversations = {ab, ac}
  Members <- TwoPairs
  Senders = {s1, s2}
  Readers = {d1, d2}
  ClientIds = {k1, k2}
  Texts = {hi, yo}
  Inputs <- EveryInput
  Blockable <- OneBlock
  MaxMessages = 2
  MaxFaults = 1
INVARIANT SentOnce
INVARIANT StandingBlockHolds
INVARIANT NothingUnreadBehindCursor
INVARIANT LastMessageIsNewest
PROPERTY ImplementsChatLog
SYMMETRY HandlerSymmetry
