SPECIFICATION FairAgentSessionSpec
CONSTANTS
  m1 = m1
  d1 = d1
  g1 = g1
  c1 = c1
  s1 = s1
  s2 = s2
  s3 = s3
  s4 = s4
  NoDevice = NoDevice
  Unissued = Unissued
  NoHeartbeat = NoHeartbeat
  Meetings = {m1}
  Participants = {}
  Devices = {d1}
  Challenges = {c1}
  Tokens = {}
  EnrollCalls = {}
  Sockets = {s1, s2, s3, s4}
  Pages = {g1}
  ChallengeTTL = 1
  ChallengeRedisTTL = 1
  TokenTTL = 1
  StaleAfter = 10
  FirstBeat = 1
  Period = 2
  MaxTime = 5
  MaxFaults = 1
  MeetingOf <- NobodyJoins
  IdentityOf <- NobodyJoins
  AgentIdentity <- NobodyJoins
INVARIANT ClosedSocketsAreForgotten
INVARIANT ConnectedIsReachable
INVARIANT ConnectedIsFresh
PROPERTY ImplementsGateway
PROPERTY LostAgentReturns
CHECK_DEADLOCK FALSE
