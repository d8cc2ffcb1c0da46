SPECIFICATION FairPageSpec
CONSTANTS
  m1 = m1
  m2 = m2
  p1 = p1
  p2 = p2
  d1 = d1
  d2 = d2
  c1 = c1
  c2 = c2
  t1 = t1
  t2 = t2
  i1 = i1
  i2 = i2
  v1 = v1
  v2 = v2
  b1 = b1
  b2 = b2
  e1 = e1
  e2 = e2
  e3 = e3
  alice = alice
  bob = bob
  acme = acme
  NoDevice = NoDevice
  Unissued = Unissued
  NoHeartbeat = NoHeartbeat
  f1 = f1
  f2 = f2
  PageMeeting = m1
  PageDevice = d1
  Seats <- MCSeats
  EnrolledSeats = {p1}
  Fetches = {f1, f2}
  MaxLost = 1
  Meetings = {m1}
  Participants = {p1}
  Devices = {d1}
  Challenges = {c1}
  Tokens = {t1}
  IssueCalls = {i1}
  VerifyCalls = {v1}
  BindCalls = {b1}
  EnrollCalls = {e1}
  ChallengeTTL = 0
  ChallengeRedisTTL = 1
  TokenTTL = 1
  StaleAfter = 0
  MaxTime = 1
  MaxFaults = 0
  Joined0 = {}
  Enrolled0 = {}
  TpmDevices = {d1}
  Bound0 <- NobodyBound
  AgentIdentity <- OwnAgents
  MeetingOf <- MCMeetingOf
  IdentityOf <- MCIdentityOf
INVARIANT ReadyIsSeated
 
 
PROPERTY DeliveredIsSettled
CHECK_DEADLOCK FALSE
