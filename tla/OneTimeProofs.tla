---------------------------- MODULE OneTimeProofs ----------------------------
(***************************************************************************)
(* One-time use of challenges and join tokens, proved for every value of   *)
(* the constants.  The handlers get a key, await more, and delete it: what *)
(* holds is that a key once deleted never comes back, so that no call that *)
(* begins afterwards accepts it.                                           *)
(***************************************************************************)
EXTENDS TrustHubProofs

USE DEF storeVars, gatewayVars, meetingServiceVars, deviceServiceVars, challengeServiceVars

ChallengeSpent(pc) == pc \in {"deleted", "judged", "done"}
TokenSpent(pc) == pc \in {"deleted", "bound", "done"}

SpentKeysAreGone ==
  /\ \A u \in VerifyCalls :
       ChallengeSpent(verify[u].pc) => verify[u].response.challenge \notin redis
  /\ \A u \in BindCalls : TokenSpent(bind[u].pc) => bind[u].request.token \notin redis

\* Only a key that was never used comes into Redis.
RedisGainsFreshKeys ==
  \A k \in redis' : \/ k \in redis
                    \/ k \in Challenges /\ challenge[k] = Unissued
                    \/ k \in Tokens /\ token[k] = Unissued

\* What any step does to a call of verifyResponse: nothing, the fetch, the
\* deletion, or something that spends no challenge.
VerifyMoves == \A v \in VerifyCalls :
  \/ verify'[v] = verify[v]
  \/ /\ verify[v].pc = "idle"
     /\ \/ verify'[v].pc = "rejected"
        \/ verify'[v].pc = "fetched" /\ verify'[v].response.challenge \in redis
  \/ /\ verify[v].pc = "checked"
     /\ verify'[v].response = verify[v].response
     /\ verify[v].response.challenge \notin redis'
  \/ /\ verify[v].pc # "idle"
     /\ verify'[v].pc # "fetched"
     /\ verify'[v].response = verify[v].response
     /\ ChallengeSpent(verify'[v].pc) => ChallengeSpent(verify[v].pc)

\* The same for bindDevice.
BindMoves == \A b \in BindCalls :
  \/ bind'[b] = bind[b]
  \/ /\ bind[b].pc = "idle"
     /\ \/ bind'[b].pc = "rejected"
        \/ bind'[b].pc = "fetched" /\ bind'[b].request.token \in redis
  \/ /\ bind[b].pc = "checked"
     /\ bind'[b].request = bind[b].request
     /\ bind[b].request.token \notin redis'
  \/ /\ bind[b].pc # "idle"
     /\ bind'[b].pc # "fetched"
     /\ bind'[b].request = bind[b].request
     /\ TokenSpent(bind'[b].pc) => TokenSpent(bind[b].pc)

-----------------------------------------------------------------------------
LEMMA RedisStep ==
  ASSUME Typed, [Next]_vars
  PROVE  RedisGainsFreshKeys
<1>1. CASE Clock
  BY <1>1 DEF Clock, Tick, RedisGainsFreshKeys
<1>2. CASE Challenging
  <2>1. ASSUME NEW i \in IssueCalls,
               (\E m \in Meetings : IssueRead(i, m)) \/ IssueStep(i) \/ IssueAbort(i)
        PROVE  RedisGainsFreshKeys
    <3>1. ASSUME NEW p \in Participants, NEW d \in Devices, NEW c \in Challenges,
                 IssueStore(i, p, d, c)
          PROVE  RedisGainsFreshKeys
      BY <3>1 DEF IssueStore, RedisGainsFreshKeys
    <3>2. CASE UNCHANGED redis
      BY <3>2 DEF RedisGainsFreshKeys
    <3> QED
      BY <2>1, <3>1, <3>2 DEF IssueStep, IssueRead, IssueNoDevice, IssueNoDeviceLog,
         IssueEmit, IssueLog, IssueAbort
  <2>2. ASSUME NEW v \in VerifyCalls, VerifyStep(v) \/ VerifyAbort(v)
        PROVE  RedisGainsFreshKeys
    BY <2>2 DEF VerifyStep, VerifyGet, VerifyFindDevice, VerifyDelete, VerifyUpdate,
       VerifyLog, VerifyAbort, RedisGainsFreshKeys
  <2> QED
    BY <1>2, <2>1, <2>2 DEF Challenging, ChallengeServiceNext
<1>3. CASE Meeting
  BY <1>3 DEF Meeting, MeetingServiceNext, BindStep, Create, AddParticipant,
     IssueJoinToken, BindGet, BindFindDevice, BindDelete, BindUpdate, BindLog, BindAbort,
     RedisGainsFreshKeys
<1>4. CASE Enrolling
  BY <1>4 DEF Enrolling, DeviceServiceNext, EnrollStep, EnrollFind, EnrollWrite,
     EnrollLog, EnrollAbort, Revoke, RedisGainsFreshKeys
<1>5. CASE Agents
  BY <1>5 DEF Agents, CompanionNext, CompanionStep, AgentStart, AgentAnswer,
     SignChallenge, AgentSignBinding, SignBinding, AgentEnrolled, AgentConnect, AgentDisconnect, AgentStop,
     AgentHeartbeat, Heartbeat, RedisGainsFreshKeys
<1>6. CASE HubRestart \/ UNCHANGED vars
  BY <1>6 DEF HubRestart, vars, RedisGainsFreshKeys
<1> QED
  BY <1>1, <1>2, <1>3, <1>4, <1>5, <1>6 DEF Next

LEMMA VerifyStepMoves ==
  ASSUME Typed, NEW w \in VerifyCalls, VerifyStep(w) \/ VerifyAbort(w)
  PROVE  VerifyMoves
<1> USE DEF Typed, TypeOK, ChallengeServiceTypeOK, VerifyRecord, VerifyMoves, ChallengeSpent
<1>1. ASSUME NEW r \in responses, VerifyGet(w, r) PROVE VerifyMoves
  BY <1>1 DEF VerifyGet
<1>2. CASE VerifyFindDevice(w)
  BY <1>2 DEF VerifyFindDevice
<1>3. CASE VerifyDelete(w)
  BY <1>3 DEF VerifyDelete
<1>4. CASE VerifyUpdate(w)
  BY <1>4 DEF VerifyUpdate
<1>5. CASE VerifyLog(w)
  BY <1>5 DEF VerifyLog
<1>6. CASE VerifyAbort(w)
  BY <1>6 DEF VerifyAbort
<1> QED
  BY <1>1, <1>2, <1>3, <1>4, <1>5, <1>6 DEF VerifyStep

LEMMA BindStepMoves ==
  ASSUME Typed, NEW w \in BindCalls, BindStep(w) \/ BindAbort(w)
  PROVE  BindMoves
<1> USE DEF Typed, TypeOK, MeetingServiceTypeOK, BindRecord, BindMoves, TokenSpent
<1>1. ASSUME NEW r \in bindRequests, BindGet(w, r) PROVE BindMoves
  BY <1>1 DEF BindGet
<1>2. CASE BindFindDevice(w)
  BY <1>2 DEF BindFindDevice
<1>3. CASE BindDelete(w)
  BY <1>3 DEF BindDelete
<1>4. CASE BindUpdate(w)
  BY <1>4 DEF BindUpdate
<1>5. CASE BindLog(w)
  BY <1>5 DEF BindLog
<1>6. CASE BindAbort(w)
  BY <1>6 DEF BindAbort
<1> QED
  BY <1>1, <1>2, <1>3, <1>4, <1>5, <1>6 DEF BindStep

LEMMA RestartMoves ==
  ASSUME Typed, HubRestart
  PROVE  VerifyMoves /\ BindMoves
<1>1. VerifyMoves
  BY DEF HubRestart, VerifyMoves, ChallengeSpent, Typed, TypeOK, ChallengeServiceTypeOK,
         VerifyRecord
<1>2. BindMoves
  BY DEF HubRestart, BindMoves, TokenSpent, Typed, TypeOK, MeetingServiceTypeOK, BindRecord
<1> QED
  BY <1>1, <1>2

LEMMA CallMoves ==
  ASSUME Typed, [Next]_vars
  PROVE  VerifyMoves /\ BindMoves
<1>1. CASE UNCHANGED <<verify, bind>>
  BY <1>1 DEF VerifyMoves, BindMoves
<1>2. CASE Challenging
  <2>1. BindMoves
    BY <1>2 DEF Challenging, BindMoves
  <2>2. ASSUME NEW w \in VerifyCalls, VerifyStep(w) \/ VerifyAbort(w) PROVE VerifyMoves
    BY <2>2, VerifyStepMoves
  <2>3. ASSUME NEW i \in IssueCalls,
               (\E m \in Meetings : IssueRead(i, m)) \/ IssueStep(i) \/ IssueAbort(i)
        PROVE  VerifyMoves
    BY <2>3 DEF IssueStep, IssueRead, IssueNoDevice, IssueStore, IssueNoDeviceLog,
                IssueEmit, IssueLog, IssueAbort, VerifyMoves
  <2> QED
    BY <1>2, <2>1, <2>2, <2>3 DEF Challenging, ChallengeServiceNext
<1>3. CASE Meeting
  <2>1. VerifyMoves
    BY <1>3 DEF Meeting, VerifyMoves
  <2>2. ASSUME NEW w \in BindCalls, BindStep(w) \/ BindAbort(w) PROVE BindMoves
    BY <2>2, BindStepMoves
  <2>3. ASSUME UNCHANGED bind PROVE BindMoves
    BY <2>3 DEF BindMoves
  <2> QED
    BY <1>3, <2>1, <2>2, <2>3
    DEF Meeting, MeetingServiceNext, Create, AddParticipant, IssueJoinToken
<1>4. CASE Clock \/ Enrolling
  BY <1>1, <1>4 DEF Clock, Enrolling
<1>5. CASE Agents
  BY <1>1, <1>5 DEF Agents, CompanionNext, CompanionStep, AgentStart, AgentAnswer,
     SignChallenge, AgentSignBinding, SignBinding, AgentEnrolled, AgentConnect, AgentDisconnect, AgentStop,
     AgentHeartbeat
<1>6. CASE HubRestart
  BY <1>6, RestartMoves
<1>7. CASE UNCHANGED vars
  BY <1>1, <1>7 DEF vars
<1> QED
  BY <1>2, <1>3, <1>4, <1>5, <1>6, <1>7 DEF Next

-----------------------------------------------------------------------------
LEMMA SpentInit == Init => SpentKeysAreGone
  BY DEF Init, SpentKeysAreGone, ChallengeSpent, TokenSpent, ChallengeServiceInit,
         MeetingServiceInit, IdleVerify

LEMMA SpentNext ==
  ASSUME Typed, SpentKeysAreGone, [Next]_vars
  PROVE  SpentKeysAreGone'
<1>1. RedisGainsFreshKeys /\ VerifyMoves /\ BindMoves
  BY RedisStep, CallMoves
<1>2. ASSUME NEW u \in VerifyCalls, ChallengeSpent(verify'[u].pc)
      PROVE  verify'[u].response.challenge \notin redis'
  <2>1. CASE /\ ChallengeSpent(verify[u].pc)
             /\ verify'[u].response = verify[u].response
    <3>1. /\ verify[u].response.challenge \in Challenges
          /\ challenge[verify[u].response.challenge] \in ChallengeData
      BY <2>1 DEF ChallengeSpent, Typed, References, VerifyRefs, Response
    <3>2. verify[u].response.challenge \notin Tokens
      BY <3>1, IdsAreDistinct
    <3> QED
      BY <1>1, <2>1, <3>1, <3>2, UnissuedIsNoRecord
      DEF RedisGainsFreshKeys, SpentKeysAreGone
  <2> QED
    BY <1>1, <1>2, <2>1 DEF VerifyMoves, ChallengeSpent
<1>3. ASSUME NEW u \in BindCalls, TokenSpent(bind'[u].pc)
      PROVE  bind'[u].request.token \notin redis'
  <2>1. CASE /\ TokenSpent(bind[u].pc)
             /\ bind'[u].request = bind[u].request
    <3>1. /\ bind[u].request.token \in Tokens
          /\ token[bind[u].request.token] \in TokenData
      BY <2>1 DEF TokenSpent, Typed, References, BindRefs, BindRequest
    <3>2. bind[u].request.token \notin Challenges
      BY <3>1, IdsAreDistinct
    <3> QED
      BY <1>1, <2>1, <3>1, <3>2, UnissuedIsNoRecord
      DEF RedisGainsFreshKeys, SpentKeysAreGone
  <2> QED
    BY <1>1, <1>3, <2>1 DEF BindMoves, TokenSpent
<1> QED
  BY <1>2, <1>3 DEF SpentKeysAreGone

LEMMA SpentAlways == Spec => [](Typed /\ SpentKeysAreGone)
<1>1. Init => Typed /\ SpentKeysAreGone
  BY TypedInit, SpentInit
<1>2. Typed /\ SpentKeysAreGone /\ [Next]_vars => (Typed /\ SpentKeysAreGone)'
  BY TypedNext, SpentNext
<1> QED
  BY <1>1, <1>2, PTL DEF Spec

\* Once a call of verifyResponse has deleted the challenge it answers, no call
\* that begins later accepts an answer to that challenge, however often the
\* answer is delivered and whatever was issued in between.
THEOREM ChallengeIsSpentOnce == Spec => SpentChallengeStaysSpent
<1> DEFINE Refused == \A v, u \in VerifyCalls :
       /\ verify[v].pc = "idle" /\ verify'[v].pc = "fetched"
       /\ verify[u].pc \in {"deleted", "judged", "done"}
       => verify'[v].response.challenge # verify[u].response.challenge
<1>1. Typed /\ SpentKeysAreGone /\ [Next]_vars => Refused
  <2> SUFFICES ASSUME Typed, SpentKeysAreGone, [Next]_vars,
                      NEW v \in VerifyCalls, NEW u \in VerifyCalls,
                      verify[v].pc = "idle", verify'[v].pc = "fetched",
                      ChallengeSpent(verify[u].pc)
               PROVE  verify'[v].response.challenge # verify[u].response.challenge
    BY DEF ChallengeSpent
  <2>1. verify'[v].response.challenge \in redis
    BY CallMoves DEF VerifyMoves
  <2> QED
    BY <2>1 DEF SpentKeysAreGone
<1>2. Typed /\ SpentKeysAreGone /\ [Next]_vars => [Refused]_vars
  BY <1>1
<1> QED
  BY <1>2, SpentAlways, PTL DEF Spec, SpentChallengeStaysSpent

\* Once a call of bindDevice has deleted its join token, no call that begins
\* later accepts that token.
THEOREM TokenIsSpentOnce == Spec => SpentTokenStaysSpent
<1> DEFINE Refused == \A b, u \in BindCalls :
       /\ bind[b].pc = "idle" /\ bind'[b].pc = "fetched"
       /\ bind[u].pc \in {"deleted", "bound", "done"}
       => bind'[b].request.token # bind[u].request.token
<1>1. Typed /\ SpentKeysAreGone /\ [Next]_vars => Refused
  <2> SUFFICES ASSUME Typed, SpentKeysAreGone, [Next]_vars,
                      NEW b \in BindCalls, NEW u \in BindCalls,
                      bind[b].pc = "idle", bind'[b].pc = "fetched",
                      TokenSpent(bind[u].pc)
               PROVE  bind'[b].request.token # bind[u].request.token
    BY DEF TokenSpent
  <2>1. bind'[b].request.token \in redis
    BY CallMoves DEF BindMoves
  <2> QED
    BY <2>1 DEF SpentKeysAreGone
<1>2. Typed /\ SpentKeysAreGone /\ [Next]_vars => [Refused]_vars
  BY <1>1
<1> QED
  BY <1>2, SpentAlways, PTL DEF Spec, SpentTokenStaysSpent
=============================================================================
