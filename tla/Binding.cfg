SPECIFICATION Spec
CONSTANTS
  m1 = m1
  m2 = m2
  p1 = p1
  p2 = p2
  d1 = d1
  d2 = d2
  c1 = c1
  c2 = c2
  t1 = t1
  t2 = t2
  i1 = i1
  i2 = i2
  v1 = v1
  v2 = v2
  b1 = b1
  b2 = b2
  e1 = e1
  e2 = e2
  e3 = e3
  alice = alice
  bob = bob
  acme = acme
  NoDevice = NoDevice
  Unissued = Unissued
  NoHeartbeat = NoHeartbeat
  Meetings = {m1, m2}
  Participants = {p1}
  Devices = {d1, d2}
  Challenges = {}
  Tokens = {t1}
  IssueCalls = {}
  VerifyCalls = {}
  BindCalls = {b1, b2}
  EnrollCalls = {}
  ChallengeTTL = 1
  ChallengeRedisTTL = 3
  TokenTTL = 1
  StaleAfter = 0
  MaxTime = 1
  MaxFaults = 0
  Joined0 = {}
  Enrolled0 = {d1, d2}
  TpmDevices = {d1, d2}
  Bound0 <- NobodyBound
  AgentIdentity <- OwnAgents
  MeetingOf <- MCMeetingOf
  IdentityOf <- MCIdentityOf
SYMMETRY Interchangeable
INVARIANT BindingIsEarned
PROPERTY SpentTokenStaysSpent
INVARIANT FirstMatchWins
PROPERTY TimeOnlyStales
CHECK_DEADLOCK FALSE
