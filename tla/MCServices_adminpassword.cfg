\* The admins alone: what the API guide says of a password change.
SPECIFICATION AdminSpec
CONSTANTS
  v1 = v1
  v2 = v2
  MaxCodes = 2
  MaxGuesses = 2
  MaxPerHour = 1
  OtpBounds <- TwoGuessers
  Deliveries = 2
  Verifiers = {v1, v2}
  s1 = s1
  s2 = s2
  r1 = r1
  r2 = r2
  r3 = r3
  MaxAccounts = 2
  SignIns = {s1, s2}
  Requests = {r1, r2, r3}
  NoSession = NoSession
  MaxExchanges = 2
  l1 = l1
  l2 = l2
  a1 = a1
  a2 = a2
  a3 = a3
  Logins = {l1, l2}
  AdminRequests = {a1, a2, a3}
  NoLogin = NoLogin
  MaxTicks = 1
  MaxPasswords = 2
  MaxChanges = 1
  MaxTokens = 1
  m1 = m1
  k1 = k1
  k2 = k2
  ua = ua
  ub = ub
  da = da
  db = db
  dc = dc
  t1 = t1
  t2 = t2
  Notes = {m1}
  Receiver <- MCReceiver
  ChatNotes = {m1}
  Calls = {k1, k2}
  Notified <- MCNotified
  Devices = {da, db, dc}
  User <- MCUser
  PushTokens = {t1, t2}
  NoPushToken = NoPushToken
  PushRuns = 2
  MaxPushFaults = 1
  f1 = f1
  f2 = f2
  x1 = x1
  x2 = x2
  profile = profile
  match = match
  People = {ua, ub}
  Targets = {profile, match}
  Reported <- MCReported
  NoPerson = NoPerson
  Reasons = {x1, x2}
  Filings = {f1, f2}
  NoFiling = NoFiling
  w1 = w1
  w2 = w2
  key = key
  Sockets = {w1, w2}
  UserOf <- MCUserOf
  ChannelSize = 2
  TypingKeys = {key}
CONSTRAINT InOrder
CHECK_DEADLOCK FALSE
INVARIANT ChangeRevokesSessions
