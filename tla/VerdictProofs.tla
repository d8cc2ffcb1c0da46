---------------------------- MODULE VerdictProofs ----------------------------
(***************************************************************************)
(* What a verdict rests on, proved for every value of the constants: the   *)
(* binding verifyResponse takes for granted, and the one-time use of the   *)
(* challenge it answers.                                                   *)
(***************************************************************************)
EXTENDS TrustHubProofs

USE DEF storeVars, gatewayVars, meetingServiceVars, deviceServiceVars, challengeServiceVars

(***************************************************************************)
(* VerdictNeedsBinding speaks of calls in progress only and is not         *)
(* inductive.  What keeps it true: a bound participant has joined, so that *)
(* AddParticipant cannot reset it; a token is for somebody who joined, so  *)
(* that BindUpdate keeps that; and whatever was issued, stored or read for *)
(* a bound participant finds it bound for ever after.                      *)
(***************************************************************************)
BoundHaveJoined == \A p \in Participants : Bound(p) => participant[p].joined
TokensAreForJoined ==
  \A t \in Tokens : token[t] # Unissued => participant[token[t].participant].joined
ChallengesAreForBound ==
  \A c \in Challenges : challenge[c] # Unissued => Bound(challenge[c].participant)
SnapshotsAreOfBound ==
  \A i \in IssueCalls : \A x \in issue[i].todo : x[2] # NoDevice => Bound(x[1])

Backed == /\ BoundHaveJoined
          /\ TokensAreForJoined
          /\ ChallengesAreForBound
          /\ SnapshotsAreOfBound

\* What a step must not do to the rows: forget that somebody joined, or unbind.
RowsGrow == \A p \in Participants :
  /\ participant[p].joined => participant'[p].joined
  /\ Bound(p) => participant'[p].device # NoDevice
  /\ participant'[p].device # NoDevice => participant'[p].joined

\* Nothing is issued and no snapshot is read.
NothingIssued ==
  /\ UNCHANGED <<token, challenge>>
  /\ \A i \in IssueCalls : issue'[i].todo \subseteq issue[i].todo

LEMMA BackedInit == Init => Backed
<1> SUFFICES ASSUME Init PROVE Backed
  OBVIOUS
<1>1. \A p \in Participants : participant[p] = Row0(p)
  BY DEF Init
<1>2. BoundHaveJoined
  <2> SUFFICES ASSUME NEW p \in Participants, Bound(p)
               PROVE  participant[p].joined
    BY DEF BoundHaveJoined
  <2>1. Row0(p).device = Bound0[p] /\ Row0(p).joined = (p \in Joined0)
    BY Zenon DEF Row0
  <2>2. Bound0[p] # NoDevice
    BY <1>1, <2>1 DEF Bound
  <2>3. p \in Joined0
    BY <2>2, StartIsReachable
  <2>4. participant[p].joined = (p \in Joined0)
    BY <1>1, <2>1
  <2> QED
    BY <2>3, <2>4, Zenon
<1>3. /\ \A t \in Tokens : token[t] = Unissued
      /\ \A c \in Challenges : challenge[c] = Unissued
      /\ \A i \in IssueCalls : issue[i].todo = {}
  BY DEF Init, ChallengeServiceInit, IdleIssue
<1> QED
  BY <1>2, <1>3 DEF Backed, TokensAreForJoined, ChallengesAreForBound, SnapshotsAreOfBound

LEMMA UnissuedIsNoContent ==
  ASSUME Typed
  PROVE  /\ \A c \in Challenges : challenge[c] # Unissued => challenge[c] \in ChallengeData
         /\ \A t \in Tokens : token[t] # Unissued => token[t] \in TokenData
  BY DEF Typed, TypeOK, StoreTypeOK

\* Most steps are settled by what they do to the rows.
LEMMA BackedByRows ==
  ASSUME Typed, Typed', Backed, RowsGrow, NothingIssued
  PROVE  Backed'
<1>1. BoundHaveJoined'
  BY DEF RowsGrow, BoundHaveJoined, Bound
<1>2. TokensAreForJoined'
  BY UnissuedIsNoContent DEF RowsGrow, NothingIssued, Backed, TokensAreForJoined, TokenData
<1>3. ChallengesAreForBound'
  BY UnissuedIsNoContent
  DEF RowsGrow, NothingIssued, Backed, ChallengesAreForBound, ChallengeData, Bound
<1>4. SnapshotsAreOfBound'
  <2> SUFFICES ASSUME NEW i \in IssueCalls, NEW x \in issue'[i].todo, x[2] # NoDevice
               PROVE  Bound(x[1])'
    BY DEF SnapshotsAreOfBound
  <2>1. x \in issue[i].todo
    BY DEF NothingIssued
  <2>2. x[1] \in Participants
    BY <2>1 DEF Typed, TypeOK, ChallengeServiceTypeOK, IssueRecord
  <2> QED
    BY <2>1, <2>2 DEF RowsGrow, Backed, SnapshotsAreOfBound, Bound
<1> QED
  BY <1>1, <1>2, <1>3, <1>4 DEF Backed

\* A step that leaves rows, contents and snapshots alone.
LEMMA BackedUntouched ==
  ASSUME Typed, Typed', Backed, UNCHANGED <<participant, token, challenge, issue>>
  PROVE  Backed'
<1>1. RowsGrow
  BY DEF RowsGrow, Backed, BoundHaveJoined, Bound
<1>2. NothingIssued
  BY DEF NothingIssued
<1> QED
  BY <1>1, <1>2, BackedByRows

\* SetStatus does not touch the binding.
LEMMA StatusKeepsRows ==
  ASSUME Typed, Backed, NEW p \in Participants, NEW verdict, SetStatus(p, verdict)
  PROVE  RowsGrow
<1>1. \A q \in Participants : /\ participant'[q].joined = participant[q].joined
                              /\ participant'[q].device = participant[q].device
  BY DEF SetStatus, Typed, TypeOK, StoreTypeOK, ParticipantRow
<1> QED
  BY <1>1 DEF RowsGrow, Backed, BoundHaveJoined, Bound

LEMMA BackedIssuing ==
  ASSUME Typed, Typed', Backed, NEW i \in IssueCalls,
         \/ \E m \in Meetings : IssueRead(i, m)
         \/ IssueStep(i)
         \/ IssueAbort(i)
  PROVE  Backed'
<1> USE DEF Typed, TypeOK, ChallengeServiceTypeOK, IssueRecord
<1>1. ASSUME NEW m \in Meetings, IssueRead(i, m) PROVE Backed'
  <2>1. BoundHaveJoined' /\ TokensAreForJoined' /\ ChallengesAreForBound'
    BY <1>1 DEF IssueRead, Backed, BoundHaveJoined, TokensAreForJoined,
                ChallengesAreForBound, Bound
  <2>2. SnapshotsAreOfBound'
    <3> SUFFICES ASSUME NEW j \in IssueCalls, NEW x \in issue'[j].todo, x[2] # NoDevice
                 PROVE  Bound(x[1])'
      BY DEF SnapshotsAreOfBound
    <3>1. CASE j # i
      BY <1>1, <3>1 DEF IssueRead, Backed, SnapshotsAreOfBound, Bound
    <3>2. CASE j = i
      <4>1. x \in {<<p, participant[p].device>> :
               p \in {q \in Participants : participant[q].joined /\ MeetingOf[q] = m}}
        BY <1>1, <3>2 DEF IssueRead
      <4>2. PICK p \in Participants : x = <<p, participant[p].device>>
        BY <4>1
      <4> QED
        BY <1>1, <4>2 DEF IssueRead, Bound
    <3> QED
      BY <3>1, <3>2
  <2> QED
    BY <2>1, <2>2 DEF Backed
<1>2. ASSUME NEW p \in Participants, IssueNoDevice(i, p) PROVE Backed'
  <2>1. RowsGrow
    BY <1>2, StatusKeepsRows DEF IssueNoDevice
  <2>2. NothingIssued
    BY <1>2 DEF IssueNoDevice, NothingIssued
  <2> QED
    BY <2>1, <2>2, BackedByRows
<1>3. ASSUME NEW p \in Participants, NEW d \in Devices, NEW c \in Challenges,
             IssueStore(i, p, d, c)
      PROVE  Backed'
  <2>1. Bound(p)
    <3>1. <<p, d>>[2] # NoDevice
      BY IdsAreDistinct
    <3> QED
      BY <1>3, <3>1 DEF IssueStore, Backed, SnapshotsAreOfBound
  <2>2. BoundHaveJoined' /\ TokensAreForJoined'
    BY <1>3 DEF IssueStore, Backed, BoundHaveJoined, TokensAreForJoined, Bound
  <2>3. ChallengesAreForBound'
    BY <1>3, <2>1
    DEF IssueStore, Backed, ChallengesAreForBound, Bound, StoreTypeOK
  <2>4. SnapshotsAreOfBound'
    BY <1>3 DEF IssueStore, Backed, SnapshotsAreOfBound, Bound
  <2> QED
    BY <2>2, <2>3, <2>4 DEF Backed
<1>4. CASE IssueNoDeviceLog(i) \/ IssueEmit(i) \/ IssueLog(i) \/ IssueAbort(i)
  <2>1. RowsGrow
    BY <1>4 DEF IssueNoDeviceLog, IssueEmit, IssueLog, IssueAbort, RowsGrow, Backed,
                BoundHaveJoined, Bound
  <2>2. NothingIssued
    BY <1>4 DEF IssueNoDeviceLog, IssueEmit, IssueLog, IssueAbort, NothingIssued
  <2> QED
    BY <2>1, <2>2, BackedByRows
<1> QED
  BY <1>1, <1>2, <1>3, <1>4 DEF IssueStep

LEMMA BackedMeeting ==
  ASSUME Typed, Typed', Backed, MeetingServiceNext, UNCHANGED issue
  PROVE  Backed'
<1> USE DEF Typed, TypeOK, StoreTypeOK, ParticipantRow
<1>1. ASSUME NEW m \in Meetings, Create(m) PROVE Backed'
  BY <1>1, BackedUntouched DEF Create
<1>2. ASSUME NEW p \in Participants, AddParticipant(p) PROVE Backed'
  <2>1. ~Bound(p)
    BY <1>2 DEF AddParticipant, Backed, BoundHaveJoined
  <2>2. RowsGrow
    BY <1>2, <2>1 DEF AddParticipant, RowsGrow, Backed, BoundHaveJoined, Bound
  <2>3. NothingIssued
    BY <1>2 DEF AddParticipant, NothingIssued
  <2> QED
    BY <2>2, <2>3, BackedByRows
<1>3. ASSUME NEW t \in Tokens, NEW m \in Meetings, NEW p \in Participants,
             IssueJoinToken(t, m, p)
      PROVE  Backed'
  <2>1. BoundHaveJoined' /\ ChallengesAreForBound' /\ SnapshotsAreOfBound'
    BY <1>3 DEF IssueJoinToken, Backed, BoundHaveJoined, ChallengesAreForBound,
                SnapshotsAreOfBound, Bound
  <2>2. TokensAreForJoined'
    BY <1>3 DEF IssueJoinToken, Backed, TokensAreForJoined
  <2> QED
    BY <2>1, <2>2 DEF Backed
<1>4. ASSUME NEW b \in BindCalls, BindUpdate(b) PROVE Backed'
  <2> DEFINE p == token[bind[b].request.token].participant
             d == bind[b].request.device
  <2>1. /\ bind[b].request.token \in Tokens
        /\ token[bind[b].request.token] \in TokenData
        /\ d \in Devices
    BY <1>4 DEF BindUpdate, References, BindRefs, BindRequest
  <2>2. p \in Participants /\ d # NoDevice
    BY <2>1, IdsAreDistinct DEF TokenData
  <2>3. participant[p].joined
    BY <2>1, UnissuedIsNoRecord DEF Backed, TokensAreForJoined
  <2>4. participant' = [participant EXCEPT ![p].device = d, ![p].status = "VERIFIED",
                                           ![p].reason = "bound"]
    BY <1>4 DEF BindUpdate
  <2> HIDE DEF p, d
  <2>5. RowsGrow
    BY <2>2, <2>3, <2>4 DEF RowsGrow, Backed, BoundHaveJoined, Bound
  <2>6. NothingIssued
    BY <1>4 DEF BindUpdate, NothingIssued
  <2> QED
    BY <2>5, <2>6, BackedByRows
<1>5. ASSUME NEW b \in BindCalls,
             \/ \E r \in bindRequests : BindGet(b, r)
             \/ BindFindDevice(b) \/ BindDelete(b) \/ BindLog(b) \/ BindAbort(b)
      PROVE  Backed'
  BY <1>5, BackedUntouched DEF BindGet, BindFindDevice, BindDelete, BindLog, BindAbort
<1> QED
  BY <1>1, <1>2, <1>3, <1>4, <1>5 DEF MeetingServiceNext, BindStep

LEMMA BackedVerifying ==
  ASSUME Typed, Typed', Backed, NEW v \in VerifyCalls, VerifyStep(v) \/ VerifyAbort(v)
  PROVE  Backed'
<1>1. CASE VerifyUpdate(v)
  <2>1. challenge[verify[v].response.challenge].participant \in Participants
    BY <1>1 DEF VerifyUpdate, Typed, References, VerifyRefs, ChallengeData
  <2>2. RowsGrow
    BY <1>1, <2>1, StatusKeepsRows DEF VerifyUpdate
  <2>3. NothingIssued
    BY <1>1 DEF VerifyUpdate, NothingIssued
  <2> QED
    BY <2>2, <2>3, BackedByRows
<1>2. CASE \/ \E r \in responses : VerifyGet(v, r)
           \/ VerifyFindDevice(v) \/ VerifyDelete(v) \/ VerifyLog(v) \/ VerifyAbort(v)
  BY <1>2, BackedUntouched
  DEF VerifyGet, VerifyFindDevice, VerifyDelete, VerifyLog, VerifyAbort
<1> QED
  BY <1>1, <1>2 DEF VerifyStep

LEMMA BackedElsewhere ==
  ASSUME Typed, Typed', Backed, Clock \/ Enrolling \/ Agents
  PROVE  Backed'
<1>1. CASE Clock
  BY <1>1, BackedUntouched DEF Clock, Tick
<1>2. CASE Enrolling
  BY <1>2, BackedUntouched
  DEF Enrolling, DeviceServiceNext, EnrollStep, EnrollFind, EnrollWrite, EnrollLog,
      EnrollAbort, Revoke
<1>3. CASE Agents
  BY <1>3, BackedUntouched
  DEF Agents, CompanionNext, CompanionStep, AgentStart, AgentAnswer, SignChallenge, AgentSignBinding, SignBinding,
      AgentEnrolled, AgentConnect, AgentDisconnect, AgentStop, AgentHeartbeat, Heartbeat
<1> QED
  BY <1>1, <1>2, <1>3

LEMMA BackedRestart ==
  ASSUME Typed, Typed', Backed, HubRestart
  PROVE  Backed'
<1>1. RowsGrow
  BY DEF HubRestart, RowsGrow, Backed, BoundHaveJoined, Bound
<1>2. NothingIssued
  BY DEF HubRestart, NothingIssued, Typed, TypeOK, ChallengeServiceTypeOK, IssueRecord
<1> QED
  BY <1>1, <1>2, BackedByRows

LEMMA BackedNext ==
  ASSUME Typed, Typed', Backed, [Next]_vars
  PROVE  Backed'
<1>1. CASE Clock \/ Enrolling \/ Agents
  BY <1>1, BackedElsewhere
<1>2. CASE Challenging
  BY <1>2, BackedIssuing, BackedVerifying DEF Challenging, ChallengeServiceNext
<1>3. CASE Meeting
  BY <1>3, BackedMeeting DEF Meeting
<1>4. CASE HubRestart
  BY <1>4, BackedRestart
<1>5. CASE UNCHANGED vars
  BY <1>5, BackedUntouched DEF vars
<1> QED
  BY <1>1, <1>2, <1>3, <1>4, <1>5 DEF Next

\* verifyResponse passes hasMeetingBinding: true to the policy engine without
\* looking (challenge.service.ts:202).  It is true whenever it matters: as long
\* as a call has a verdict to come, the participant is bound to a device, and
\* so is everybody issueChallenge still means to challenge.
THEOREM BindingIsNeverMissing == Spec => []VerdictNeedsBinding
<1>1. Init => Typed /\ Backed
  BY TypedInit, BackedInit
<1>2. Typed /\ Backed /\ [Next]_vars => (Typed /\ Backed)'
  BY TypedNext, BackedNext
<1>3. Typed /\ Backed => VerdictNeedsBinding
  <2> SUFFICES ASSUME Typed, Backed PROVE VerdictNeedsBinding
    OBVIOUS
  <2>1. ASSUME NEW v \in VerifyCalls,
               verify[v].pc \in {"fetched", "checked", "deleted", "judged"}
        PROVE  Bound(Subject(v))
    <3>1. /\ verify[v].response.challenge \in Challenges
          /\ challenge[verify[v].response.challenge] \in ChallengeData
      BY <2>1 DEF Typed, References, VerifyRefs, Response
    <3> QED
      BY <3>1, UnissuedIsNoRecord DEF Backed, ChallengesAreForBound, Subject
  <2> QED
    BY <2>1 DEF VerdictNeedsBinding, Backed, SnapshotsAreOfBound
<1> QED
  BY <1>1, <1>2, <1>3, PTL DEF Spec
=============================================================================
