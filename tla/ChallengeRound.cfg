SPECIFICATION Spec
CONSTANTS
  m1 = m1
  m2 = m2
  p1 = p1
  p2 = p2
  d1 = d1
  d2 = d2
  c1 = c1
  c2 = c2
  t1 = t1
  t2 = t2
  i1 = i1
  i2 = i2
  v1 = v1
  v2 = v2
  b1 = b1
  b2 = b2
  e1 = e1
  e2 = e2
  e3 = e3
  alice = alice
  bob = bob
  acme = acme
  NoDevice = NoDevice
  Unissued = Unissued
  NoHeartbeat = NoHeartbeat
  Meetings = {m1}
  Participants = {p1, p2}
  Devices = {d1}
  Challenges = {c1, c2}
  Tokens = {}
  IssueCalls = {i1}
  VerifyCalls = {v1, v2}
  BindCalls = {}
  EnrollCalls = {e1}
  ChallengeTTL = 1
  ChallengeRedisTTL = 3
  TokenTTL = 2
  StaleAfter = 1
  MaxTime = 2
  MaxFaults = 1
  Joined0 = {p1, p2}
  Enrolled0 = {d1}
  TpmDevices = {}
  Bound0 <- BothOnFirst
  AgentIdentity <- OwnAgents
  MeetingOf <- MCMeetingOf
  IdentityOf <- MCIdentityOf
SYMMETRY Interchangeable
INVARIANT ChallengeVerdictIsEarned
INVARIANT VerdictIsAudited
PROPERTY SpentChallengeStaysSpent
CHECK_DEADLOCK FALSE
