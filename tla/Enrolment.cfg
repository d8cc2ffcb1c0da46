SPECIFICATION FairMachineSpec
CONSTANTS
  m1 = m1
  m2 = m2
  p1 = p1
  p2 = p2
  d1 = d1
  d2 = d2
  c1 = c1
  c2 = c2
  t1 = t1
  t2 = t2
  i1 = i1
  i2 = i2
  v1 = v1
  v2 = v2
  b1 = b1
  b2 = b2
  e1 = e1
  e2 = e2
  e3 = e3
  alice = alice
  bob = bob
  acme = acme
  NoDevice = NoDevice
  Unissued = Unissued
  NoHeartbeat = NoHeartbeat
  Meetings = {m1}
  Participants = {p1}
  Devices = {d1, d2}
  Challenges = {}
  Tokens = {t1}
  IssueCalls = {}
  VerifyCalls = {}
  BindCalls = {b1}
  EnrollCalls = {e1, e2, e3}
  ChallengeTTL = 1
  ChallengeRedisTTL = 3
  TokenTTL = 2
  StaleAfter = 2
  MaxTime = 0
  MaxFaults = 2
  Joined0 = {p1}
  Enrolled0 = {}
  TpmDevices = {d1, d2}
  Bound0 <- NobodyBound
  AgentIdentity <- AliceAgents
  MeetingOf <- MCMeetingOf
  IdentityOf <- MCIdentityOf
  alicesPC = alicesPC
  Torn = Torn
  Machines = {alicesPC}
  MachineOf <- OnePC
INVARIANT TpmKeyIsOnRecord
INVARIANT BoundDeviceReturns
PROPERTY StartIsSettled
CHECK_DEADLOCK FALSE
