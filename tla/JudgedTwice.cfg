SPECIFICATION Spec
CONSTANTS
  m1 = m1
  m2 = m2
  p1 = p1
  p2 = p2
  d1 = d1
  d2 = d2
  c1 = c1
  c2 = c2
  t1 = t1
  t2 = t2
  i1 = i1
  i2 = i2
  v1 = v1
  v2 = v2
  b1 = b1
  b2 = b2
  e1 = e1
  e2 = e2
  e3 = e3
  alice = alice
  bob = bob
  acme = acme
  NoDevice = NoDevice
  Unissued = Unissued
  NoHeartbeat = NoHeartbeat
  Meetings = {m1}
  Participants = {p1}
  Devices = {d1}
  Challenges = {c1}
  Tokens = {}
  IssueCalls = {i1}
  VerifyCalls = {v1, v2}
  BindCalls = {}
  EnrollCalls = {}
  ChallengeTTL = 1
  ChallengeRedisTTL = 3
  TokenTTL = 2
  StaleAfter = 2
  MaxTime = 0
  MaxFaults = 1
  Joined0 = {p1}
  Enrolled0 = {d1}
  TpmDevices = {d1}
  Bound0 <- FirstBound
  AgentIdentity <- OwnAgents
  MeetingOf <- MCMeetingOf
  IdentityOf <- MCIdentityOf
INVARIANT ChallengeIsJudgedOnce
CHECK_DEADLOCK FALSE
