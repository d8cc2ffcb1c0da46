--------------------------- MODULE TrustHubProofs ---------------------------
(***************************************************************************)
(* Theorems about TrustHub for every value of its constants.               *)
(*                                                                         *)
(* TypeOK is not inductive by itself: a handler logs the participant of    *)
(* the challenge it was called for, so the challenge has to exist.         *)
(* References says that whatever is named by a message or a call in        *)
(* progress exists; the two together are inductive.                        *)
(***************************************************************************)
EXTENDS TrustHub, TLAPS

MessageRefs ==
  /\ \A m \in inbox : challenge[m[2]] \in ChallengeData
  /\ \A r \in responses : challenge[r.challenge] \in ChallengeData
  /\ \A r \in bindRequests : token[r.token] \in TokenData

VerifyRefs == \A v \in VerifyCalls : verify[v].pc # "idle" =>
  /\ verify[v].response \in Response
  /\ challenge[verify[v].response.challenge] \in ChallengeData

IssueRefs == \A i \in IssueCalls :
  /\ issue[i].pc = "failing" => issue[i].current \in Participants
  /\ issue[i].pc \in {"stored", "emitted"} =>
       /\ issue[i].challenge \in Challenges
       /\ challenge[issue[i].challenge] \in ChallengeData

BindRefs == \A b \in BindCalls : bind[b].pc # "idle" =>
  /\ bind[b].request \in BindRequest
  /\ token[bind[b].request.token] \in TokenData

EnrollRefs == \A e \in EnrollCalls :
  enroll[e].pc # "idle" => enroll[e].device \in Devices

References == MessageRefs /\ VerifyRefs /\ IssueRefs /\ BindRefs /\ EnrollRefs

Typed == TypeOK /\ References

USE DEF storeVars, gatewayVars, meetingServiceVars, deviceServiceVars, challengeServiceVars

-----------------------------------------------------------------------------
(* The invariant holds at the start, and each component's steps keep it. *)

LEMMA TypedInit == Init => Typed
  BY StartIsReachable, ParticipantsHaveMeetings
  DEF Init, Typed, TypeOK, StoreTypeOK, GatewayTypeOK, MeetingServiceTypeOK,
     DeviceServiceTypeOK, ChallengeServiceTypeOK, CompanionTypeOK, References,
     MessageRefs, VerifyRefs, IssueRefs, BindRefs, EnrollRefs,
     MeetingServiceInit, DeviceServiceInit, ChallengeServiceInit, Row0, NoRow,
     IdleIssue, IdleVerify, Verdict, ParticipantRow, DeviceRow, DeviceOrNone,
     IssueRecord, VerifyRecord, IssuePc, VerifyPc, BindPc, BindRecord, EnrollPc,
     EnrollRecord, AgentRecord, TrustStatus, Reason, DeviceStatus, AuditEvent,
     AuditType, Event

\* Every verdict of the policy engine is one the schema can store.
LEMMA EvaluateTyped ==
  ASSUME NEW status, NEW heartbeat, NEW valid, NEW expired, NEW isBound, NEW t
  PROVE  Evaluate(status, heartbeat, valid, expired, isBound, t)
           \in [status: TrustStatus, reason: Reason]
  BY DEF Evaluate, Verdict, TrustStatus, Reason

\* A step of a call that changes its pc only.
LEMMA IssuePcTyped ==
  ASSUME issue \in [IssueCalls -> IssueRecord], NEW i \in IssueCalls, NEW pc \in IssuePc
  PROVE  [issue EXCEPT ![i].pc = pc] \in [IssueCalls -> IssueRecord]
  BY DEF IssueRecord

LEMMA VerifyPcTyped ==
  ASSUME verify \in [VerifyCalls -> VerifyRecord], NEW v \in VerifyCalls, NEW pc \in VerifyPc
  PROVE  [verify EXCEPT ![v].pc = pc] \in [VerifyCalls -> VerifyRecord]
  BY DEF VerifyRecord

LEMMA BindPcTyped ==
  ASSUME bind \in [BindCalls -> BindRecord], NEW b \in BindCalls, NEW pc \in BindPc
  PROVE  [bind EXCEPT ![b].pc = pc] \in [BindCalls -> BindRecord]
  BY DEF BindRecord

LEMMA LogTyped ==
  ASSUME Typed, NEW type \in AuditType,
         NEW subject \in Meetings \union Participants \union Devices,
         NEW d \in DeviceOrNone, Log(type, subject, d)
  PROVE  audit' \subseteq AuditEvent
  BY DEF Log, Event, AuditEvent, Typed, TypeOK, StoreTypeOK

LEMMA TypedClock == Typed /\ Clock => Typed'
  BY TimesAreNaturals
  DEF Clock, Tick, Typed, TypeOK, StoreTypeOK, GatewayTypeOK, MeetingServiceTypeOK,
     DeviceServiceTypeOK, ChallengeServiceTypeOK, CompanionTypeOK, References,
     MessageRefs, VerifyRefs, IssueRefs, BindRefs, EnrollRefs

LEMMA TypedChallenging ==
  ASSUME Typed, ChallengeServiceNext,
         UNCHANGED <<meetingServiceVars, deviceServiceVars, agent>>
  PROVE  Typed'
<1>1. ASSUME NEW i \in IssueCalls, NEW m \in Meetings, IssueRead(i, m)
      PROVE  Typed'
  <2>1. issue' \in [IssueCalls -> IssueRecord]
    <3> DEFINE snapshot == {<<p, participant[p].device>> :
                 p \in {q \in Participants : participant[q].joined /\ MeetingOf[q] = m}}
    <3>1. snapshot \in SUBSET (Participants \X DeviceOrNone)
      BY DEF Typed, TypeOK, StoreTypeOK, ParticipantRow
    <3>2. issue' = [issue EXCEPT ![i] = [issue[i] EXCEPT !.pc = "loop", !.todo = snapshot]]
      BY <1>1 DEF IssueRead
    <3>3. issue \in [IssueCalls -> IssueRecord]
      BY DEF Typed, TypeOK, ChallengeServiceTypeOK
    <3>4. "loop" \in IssuePc
      BY DEF IssuePc
    <3> HIDE DEF snapshot
    <3>5. [issue[i] EXCEPT !.pc = "loop", !.todo = snapshot] \in IssueRecord
      BY <3>1, <3>3, <3>4 DEF IssueRecord
    <3> QED
      BY <3>2, <3>3, <3>5
  <2>2. TypeOK'
    BY <1>1, <2>1
    DEF IssueRead, Typed, TypeOK, StoreTypeOK, GatewayTypeOK, MeetingServiceTypeOK,
     DeviceServiceTypeOK, ChallengeServiceTypeOK, CompanionTypeOK
  <2>3. References'
    <3>1. /\ issue'[i].pc = "loop"
          /\ \A j \in IssueCalls \ {i} : issue'[j] = issue[j]
          /\ UNCHANGED challenge
      BY <1>1 DEF IssueRead, Typed, TypeOK, ChallengeServiceTypeOK, IssueRecord
    <3>2. IssueRefs'
      BY <3>1 DEF Typed, References, IssueRefs
    <3> QED
      BY <3>2, <1>1 DEF IssueRead, Typed, References, MessageRefs, VerifyRefs, IssueRefs, BindRefs, EnrollRefs
  <2> QED
    BY <2>2, <2>3 DEF Typed
<1>2. ASSUME NEW i \in IssueCalls, NEW p \in Participants, IssueNoDevice(i, p)
      PROVE  Typed'
  <2>1. issue' \in [IssueCalls -> IssueRecord]
    <3> DEFINE rest == issue[i].todo \ {<<p, NoDevice>>}
    <3>1. rest \in SUBSET (Participants \X DeviceOrNone)
      BY DEF Typed, TypeOK, ChallengeServiceTypeOK, IssueRecord
    <3>2. issue' = [issue EXCEPT ![i] =
            [issue[i] EXCEPT !.pc = "failing", !.current = p, !.todo = rest]]
      BY <1>2 DEF IssueNoDevice
    <3>3. "failing" \in IssuePc
      BY DEF IssuePc
    <3>4. issue \in [IssueCalls -> IssueRecord]
      BY DEF Typed, TypeOK, ChallengeServiceTypeOK
    <3> HIDE DEF rest
    <3>5. [issue[i] EXCEPT !.pc = "failing", !.current = p, !.todo = rest] \in IssueRecord
      BY <3>1, <3>3, <3>4 DEF IssueRecord
    <3> QED
      BY <3>2, <3>4, <3>5
  <2>2. participant' \in [Participants -> ParticipantRow]
    <3>1. participant' = [participant EXCEPT ![p].status = "FAILED", ![p].reason = "no_device"]
      BY <1>2 DEF IssueNoDevice, SetStatus, Verdict
    <3>2. "FAILED" \in TrustStatus /\ "no_device" \in Reason
      BY DEF TrustStatus, Reason
    <3> QED
      BY <3>1, <3>2 DEF Typed, TypeOK, StoreTypeOK, ParticipantRow
  <2>3. TypeOK'
    BY <1>2, <2>1, <2>2
    DEF IssueNoDevice, Typed, TypeOK, StoreTypeOK, GatewayTypeOK, MeetingServiceTypeOK,
     DeviceServiceTypeOK, ChallengeServiceTypeOK, CompanionTypeOK
  <2>4. References'
    <3>1. IssueRefs'
      BY <1>2, <2>1, <2>2 DEF IssueNoDevice, Typed, TypeOK, References, IssueRefs, ChallengeServiceTypeOK, IssueRecord
    <3> QED
      BY <3>1, <1>2 DEF IssueNoDevice, Typed, References, MessageRefs, VerifyRefs, IssueRefs, BindRefs, EnrollRefs
  <2> QED
    BY <2>3, <2>4 DEF Typed
<1>3. ASSUME NEW i \in IssueCalls, NEW p \in Participants, NEW d \in Devices, NEW c \in Challenges, IssueStore(i, p, d, c)
      PROVE  Typed'
  BY <1>3
  DEF IssueStore, Typed, TypeOK, StoreTypeOK, GatewayTypeOK, MeetingServiceTypeOK,
     DeviceServiceTypeOK, ChallengeServiceTypeOK, CompanionTypeOK, References,
     MessageRefs, VerifyRefs, IssueRefs, BindRefs, EnrollRefs,
     IssueRecord, IssuePc, ChallengeData, DeviceOrNone
<1>4. ASSUME NEW i \in IssueCalls, IssueNoDeviceLog(i)
      PROVE  Typed'
  <2>1. issue' \in [IssueCalls -> IssueRecord]
    <3>1. "loop" \in IssuePc
      BY DEF IssuePc
    <3> QED
      BY <1>4, <3>1, IssuePcTyped DEF IssueNoDeviceLog, Typed, TypeOK, ChallengeServiceTypeOK
  <2>2. audit' \subseteq AuditEvent
    <3>1. issue[i].current \in Participants
      BY <1>4 DEF IssueNoDeviceLog, Typed, References, IssueRefs
    <3>2. "CHALLENGE_NO_DEVICE" \in AuditType /\ NoDevice \in DeviceOrNone
      BY DEF AuditType, DeviceOrNone
    <3> QED
      BY <1>4, <3>1, <3>2, LogTyped DEF IssueNoDeviceLog
  <2>3. TypeOK'
    BY <1>4, <2>1, <2>2
    DEF IssueNoDeviceLog, Typed, TypeOK, StoreTypeOK, GatewayTypeOK, MeetingServiceTypeOK,
     DeviceServiceTypeOK, ChallengeServiceTypeOK, CompanionTypeOK
  <2>4. References'
    <3>1. /\ issue'[i].pc = "loop"
          /\ \A j \in IssueCalls \ {i} : issue'[j] = issue[j]
          /\ UNCHANGED challenge
      BY <1>4 DEF IssueNoDeviceLog, Typed, TypeOK, ChallengeServiceTypeOK, IssueRecord
    <3>2. IssueRefs'
      BY <3>1 DEF Typed, References, IssueRefs
    <3> QED
      BY <3>2, <1>4 DEF IssueNoDeviceLog, Typed, References, MessageRefs, VerifyRefs, BindRefs, EnrollRefs
  <2> QED
    BY <2>3, <2>4 DEF Typed
<1>5. ASSUME NEW i \in IssueCalls, IssueEmit(i)
      PROVE  Typed'
  BY <1>5
  DEF IssueEmit, Typed, TypeOK, StoreTypeOK, GatewayTypeOK, MeetingServiceTypeOK,
     DeviceServiceTypeOK, ChallengeServiceTypeOK, CompanionTypeOK, References,
     MessageRefs, VerifyRefs, IssueRefs, BindRefs, EnrollRefs,
     IssueRecord, IssuePc, EmitChallengeToDevice, ChallengeData
<1>6. ASSUME NEW i \in IssueCalls, IssueLog(i)
      PROVE  Typed'
  <2>1. issue' \in [IssueCalls -> IssueRecord]
    <3>1. "loop" \in IssuePc
      BY DEF IssuePc
    <3> QED
      BY <1>6, <3>1, IssuePcTyped DEF IssueLog, Typed, TypeOK, ChallengeServiceTypeOK
  <2>2. audit' \subseteq AuditEvent
    <3>1. challenge[issue[i].challenge] \in ChallengeData
      BY <1>6 DEF IssueLog, Typed, References, IssueRefs
    <3>2. /\ challenge[issue[i].challenge].participant \in Participants
          /\ challenge[issue[i].challenge].device \in DeviceOrNone
      BY <3>1 DEF ChallengeData, DeviceOrNone
    <3>3. "CHALLENGE_ISSUED" \in AuditType
      BY DEF AuditType
    <3> QED
      BY <1>6, <3>2, <3>3, LogTyped DEF IssueLog
  <2>3. TypeOK'
    BY <1>6, <2>1, <2>2
    DEF IssueLog, Typed, TypeOK, StoreTypeOK, GatewayTypeOK, MeetingServiceTypeOK,
     DeviceServiceTypeOK, ChallengeServiceTypeOK, CompanionTypeOK
  <2>4. References'
    <3>1. /\ issue'[i].pc = "loop"
          /\ \A j \in IssueCalls \ {i} : issue'[j] = issue[j]
          /\ UNCHANGED challenge
      BY <1>6 DEF IssueLog, Typed, TypeOK, ChallengeServiceTypeOK, IssueRecord
    <3>2. IssueRefs'
      BY <3>1 DEF Typed, References, IssueRefs
    <3> QED
      BY <3>2, <1>6 DEF IssueLog, Typed, References, MessageRefs, VerifyRefs, BindRefs, EnrollRefs
  <2> QED
    BY <2>3, <2>4 DEF Typed
<1>7. ASSUME NEW i \in IssueCalls, IssueAbort(i)
      PROVE  Typed'
  BY <1>7
  DEF IssueAbort, Typed, TypeOK, StoreTypeOK, GatewayTypeOK, MeetingServiceTypeOK,
     DeviceServiceTypeOK, ChallengeServiceTypeOK, CompanionTypeOK, References,
     MessageRefs, VerifyRefs, IssueRefs, BindRefs, EnrollRefs,
     IssueRecord, IssuePc, Fault
<1>8. ASSUME NEW v \in VerifyCalls, NEW r \in responses, VerifyGet(v, r)
      PROVE  Typed'
  <2>1. verify' \in [VerifyCalls -> VerifyRecord]
    <3>1. PICK pc \in VerifyPc :
            verify' = [verify EXCEPT ![v] =
              [verify[v] EXCEPT !.pc = pc, !.response = r, !.at = now]]
      BY <1>8 DEF VerifyGet, VerifyPc
    <3>2. r \in Response /\ now \in Nat
      BY DEF Typed, TypeOK, GatewayTypeOK, StoreTypeOK
    <3>3. verify \in [VerifyCalls -> VerifyRecord]
      BY DEF Typed, TypeOK, ChallengeServiceTypeOK
    <3>4. [verify[v] EXCEPT !.pc = pc, !.response = r, !.at = now] \in VerifyRecord
      BY <3>1, <3>2, <3>3 DEF VerifyRecord
    <3> QED
      BY <3>1, <3>3, <3>4
  <2>2. TypeOK'
    BY <1>8, <2>1
    DEF VerifyGet, Typed, TypeOK, StoreTypeOK, GatewayTypeOK, MeetingServiceTypeOK,
     DeviceServiceTypeOK, ChallengeServiceTypeOK, CompanionTypeOK, Fault
  <2>3. References'
    BY <1>8, <2>1
    DEF VerifyGet, Typed, TypeOK, StoreTypeOK, GatewayTypeOK, MeetingServiceTypeOK,
     DeviceServiceTypeOK, ChallengeServiceTypeOK, CompanionTypeOK, References,
     MessageRefs, VerifyRefs, IssueRefs, BindRefs, EnrollRefs, VerifyRecord
  <2> QED
    BY <2>2, <2>3 DEF Typed
<1>9. ASSUME NEW v \in VerifyCalls, VerifyFindDevice(v)
      PROVE  Typed'
  <2>1. verify' \in [VerifyCalls -> VerifyRecord]
    <3> DEFINE row == device[verify[v].response.device]
    <3>1. PICK pc \in VerifyPc : verify' = [verify EXCEPT ![v].pc = pc, ![v].row = row]
      BY <1>9 DEF VerifyFindDevice, VerifyPc
    <3>2. row \in DeviceRow
      BY <1>9 DEF VerifyFindDevice, Typed, TypeOK, StoreTypeOK, References, VerifyRefs, Response
    <3> HIDE DEF row
    <3>3. verify \in [VerifyCalls -> VerifyRecord]
      BY DEF Typed, TypeOK, ChallengeServiceTypeOK
    <3> QED
      BY <3>1, <3>2, <3>3 DEF VerifyRecord
  <2>2. TypeOK'
    BY <1>9, <2>1
    DEF VerifyFindDevice, Typed, TypeOK, StoreTypeOK, GatewayTypeOK, MeetingServiceTypeOK,
     DeviceServiceTypeOK, ChallengeServiceTypeOK, CompanionTypeOK
  <2>3. References'
    BY <1>9, <2>1
    DEF VerifyFindDevice, Typed, TypeOK, StoreTypeOK, GatewayTypeOK, MeetingServiceTypeOK,
     DeviceServiceTypeOK, ChallengeServiceTypeOK, CompanionTypeOK, References,
     MessageRefs, VerifyRefs, IssueRefs, BindRefs, EnrollRefs
  <2> QED
    BY <2>2, <2>3 DEF Typed
<1>10. ASSUME NEW v \in VerifyCalls, VerifyDelete(v)
      PROVE  Typed'
  <2>1. verify' \in [VerifyCalls -> VerifyRecord]
    <3> DEFINE verdict == Judgement(verify[v])
    <3>1. verify' = [verify EXCEPT ![v].pc = "deleted", ![v].verdict = verdict]
      BY <1>10 DEF VerifyDelete
    <3>2. verdict \in [status: TrustStatus, reason: Reason]
      BY EvaluateTyped DEF Judgement
    <3>3. verify \in [VerifyCalls -> VerifyRecord]
      BY DEF Typed, TypeOK, ChallengeServiceTypeOK
    <3>4. "deleted" \in VerifyPc
      BY DEF VerifyPc
    <3> HIDE DEF verdict
    <3> QED
      BY <3>1, <3>2, <3>3, <3>4 DEF VerifyRecord
  <2>2. TypeOK'
    BY <1>10, <2>1
    DEF VerifyDelete, Typed, TypeOK, StoreTypeOK, GatewayTypeOK, MeetingServiceTypeOK,
     DeviceServiceTypeOK, ChallengeServiceTypeOK, CompanionTypeOK
  <2>3. References'
    BY <1>10, <2>1
    DEF VerifyDelete, Typed, TypeOK, StoreTypeOK, GatewayTypeOK, MeetingServiceTypeOK,
     DeviceServiceTypeOK, ChallengeServiceTypeOK, CompanionTypeOK, References,
     MessageRefs, VerifyRefs, IssueRefs, BindRefs, EnrollRefs
  <2> QED
    BY <2>2, <2>3 DEF Typed
<1>11. ASSUME NEW v \in VerifyCalls, VerifyUpdate(v)
      PROVE  Typed'
  <2>1. verify' \in [VerifyCalls -> VerifyRecord]
    <3>1. "judged" \in VerifyPc
      BY DEF VerifyPc
    <3> QED
      BY <1>11, <3>1, VerifyPcTyped DEF VerifyUpdate, Typed, TypeOK, ChallengeServiceTypeOK
  <2>2. participant' \in [Participants -> ParticipantRow]
    <3> DEFINE p == challenge[verify[v].response.challenge].participant
               status == verify[v].verdict.status
               reason == verify[v].verdict.reason
    <3>1. participant' = [participant EXCEPT ![p].status = status, ![p].reason = reason]
      BY <1>11 DEF VerifyUpdate, SetStatus
    <3>2. status \in TrustStatus /\ reason \in Reason
      BY DEF Typed, TypeOK, ChallengeServiceTypeOK, VerifyRecord
    <3>3. participant \in [Participants -> ParticipantRow]
      BY DEF Typed, TypeOK, StoreTypeOK
    <3> HIDE DEF p, status, reason
    <3> QED
      BY <3>1, <3>2, <3>3 DEF ParticipantRow
  <2>3. TypeOK'
    BY <1>11, <2>1, <2>2
    DEF VerifyUpdate, Typed, TypeOK, StoreTypeOK, GatewayTypeOK, MeetingServiceTypeOK,
     DeviceServiceTypeOK, ChallengeServiceTypeOK, CompanionTypeOK
  <2>4. References'
    BY <1>11, <2>1, <2>2
    DEF VerifyUpdate, Typed, TypeOK, StoreTypeOK, GatewayTypeOK, MeetingServiceTypeOK,
     DeviceServiceTypeOK, ChallengeServiceTypeOK, CompanionTypeOK, References,
     MessageRefs, VerifyRefs, IssueRefs, BindRefs, EnrollRefs
  <2> QED
    BY <2>3, <2>4 DEF Typed
<1>12. ASSUME NEW v \in VerifyCalls, VerifyLog(v)
      PROVE  Typed'
  <2>1. verify' \in [VerifyCalls -> VerifyRecord]
    <3>1. "done" \in VerifyPc
      BY DEF VerifyPc
    <3> QED
      BY <1>12, <3>1, VerifyPcTyped DEF VerifyLog, Typed, TypeOK, ChallengeServiceTypeOK
  <2>2. audit' \subseteq AuditEvent
    <3> DEFINE r == verify[v].response
               type == IF verify[v].verdict.status = "VERIFIED" THEN "CHALLENGE_PASSED"
                                                                ELSE "CHALLENGE_FAILED"
    <3>1. r \in Response /\ challenge[r.challenge] \in ChallengeData
      BY <1>12 DEF VerifyLog, Typed, References, VerifyRefs
    <3>2. challenge[r.challenge].participant \in Participants /\ r.device \in DeviceOrNone
      BY <3>1 DEF Response, ChallengeData, DeviceOrNone
    <3>3. type \in AuditType
      BY DEF AuditType
    <3>4. Log(type, challenge[r.challenge].participant, r.device)
      BY <1>12 DEF VerifyLog
    <3> HIDE DEF r, type
    <3> QED
      BY <3>2, <3>3, <3>4, LogTyped
  <2>3. TypeOK'
    BY <1>12, <2>1, <2>2
    DEF VerifyLog, Typed, TypeOK, StoreTypeOK, GatewayTypeOK, MeetingServiceTypeOK,
     DeviceServiceTypeOK, ChallengeServiceTypeOK, CompanionTypeOK
  <2>4. References'
    BY <1>12, <2>1
    DEF VerifyLog, Typed, TypeOK, ChallengeServiceTypeOK, VerifyRecord, References,
     MessageRefs, VerifyRefs, IssueRefs, BindRefs, EnrollRefs
  <2> QED
    BY <2>3, <2>4 DEF Typed
<1>13. ASSUME NEW v \in VerifyCalls, VerifyAbort(v)
      PROVE  Typed'
  <2>1. verify' \in [VerifyCalls -> VerifyRecord]
    <3>1. "aborted" \in VerifyPc
      BY DEF VerifyPc
    <3> QED
      BY <1>13, <3>1, VerifyPcTyped DEF VerifyAbort, Typed, TypeOK, ChallengeServiceTypeOK
  <2>2. TypeOK'
    BY <1>13, <2>1
    DEF VerifyAbort, Typed, TypeOK, StoreTypeOK, GatewayTypeOK, MeetingServiceTypeOK,
     DeviceServiceTypeOK, ChallengeServiceTypeOK, CompanionTypeOK, Fault
  <2>3. References'
    BY <1>13, <2>1
    DEF VerifyAbort, Typed, TypeOK, StoreTypeOK, GatewayTypeOK, MeetingServiceTypeOK,
     DeviceServiceTypeOK, ChallengeServiceTypeOK, CompanionTypeOK, References,
     MessageRefs, VerifyRefs, IssueRefs, BindRefs, EnrollRefs
  <2> QED
    BY <2>2, <2>3 DEF Typed
<1> QED
  BY <1>1, <1>2, <1>3, <1>4, <1>5, <1>6, <1>7, <1>8, <1>9, <1>10, <1>11, <1>12, <1>13 DEF ChallengeServiceNext, IssueStep, VerifyStep

LEMMA TypedMeeting ==
  ASSUME Typed, MeetingServiceNext,
         UNCHANGED <<gatewayVars, deviceServiceVars, challengeServiceVars, agent>>
  PROVE  Typed'
<1>1. ASSUME NEW m \in Meetings, Create(m)
      PROVE  Typed'
  BY <1>1
  DEF Create, Typed, TypeOK, StoreTypeOK, GatewayTypeOK, MeetingServiceTypeOK,
     DeviceServiceTypeOK, ChallengeServiceTypeOK, CompanionTypeOK, References,
     MessageRefs, VerifyRefs, IssueRefs, BindRefs, EnrollRefs,
     DeviceOrNone, AuditEvent, AuditType, Event, Log, LogOrFail, Fault
<1>2. ASSUME NEW p \in Participants, AddParticipant(p)
      PROVE  Typed'
  <2>1. participant' \in [Participants -> ParticipantRow]
    BY <1>2
    DEF AddParticipant, Typed, TypeOK, StoreTypeOK, ParticipantRow, TrustStatus, Reason, DeviceOrNone
  <2>2. audit' \subseteq AuditEvent
    BY <1>2
    DEF AddParticipant, Typed, TypeOK, StoreTypeOK, DeviceOrNone, AuditEvent, AuditType,
        Event, Log, LogOrFail
  <2>3. TypeOK'
    BY <1>2, <2>1, <2>2
    DEF AddParticipant, Typed, TypeOK, StoreTypeOK, GatewayTypeOK, MeetingServiceTypeOK,
     DeviceServiceTypeOK, ChallengeServiceTypeOK, CompanionTypeOK,
     LogOrFail, Fault
  <2>4. References'
    BY <1>2, <2>1, <2>2
    DEF AddParticipant, Typed, TypeOK, StoreTypeOK, GatewayTypeOK, MeetingServiceTypeOK,
     DeviceServiceTypeOK, ChallengeServiceTypeOK, CompanionTypeOK, References,
     MessageRefs, VerifyRefs, IssueRefs, BindRefs, EnrollRefs
  <2> QED
    BY <2>3, <2>4 DEF Typed
<1>3. ASSUME NEW t \in Tokens, NEW m \in Meetings, NEW p \in Participants, IssueJoinToken(t, m, p)
      PROVE  Typed'
  BY <1>3
  DEF IssueJoinToken, Typed, TypeOK, StoreTypeOK, GatewayTypeOK, MeetingServiceTypeOK,
     DeviceServiceTypeOK, ChallengeServiceTypeOK, CompanionTypeOK, References,
     MessageRefs, VerifyRefs, IssueRefs, BindRefs, EnrollRefs,
     TokenData
<1>4. ASSUME NEW b \in BindCalls, NEW r \in bindRequests, BindGet(b, r)
      PROVE  Typed'
  <2>1. bind' \in [BindCalls -> BindRecord]
    <3>1. PICK pc \in BindPc : bind' = [bind EXCEPT ![b].pc = pc, ![b].request = r]
      BY <1>4 DEF BindGet, BindPc
    <3>2. r \in BindRequest /\ bind \in [BindCalls -> BindRecord]
      BY DEF Typed, TypeOK, MeetingServiceTypeOK
    <3> QED
      BY <3>1, <3>2 DEF BindRecord
  <2>2. TypeOK'
    BY <1>4, <2>1
    DEF BindGet, Typed, TypeOK, StoreTypeOK, GatewayTypeOK, MeetingServiceTypeOK,
     DeviceServiceTypeOK, ChallengeServiceTypeOK, CompanionTypeOK, Fault
  <2>3. References'
    BY <1>4, <2>1
    DEF BindGet, Typed, TypeOK, StoreTypeOK, GatewayTypeOK, MeetingServiceTypeOK,
     DeviceServiceTypeOK, ChallengeServiceTypeOK, CompanionTypeOK, References,
     MessageRefs, VerifyRefs, IssueRefs, BindRefs, EnrollRefs, BindRecord
  <2> QED
    BY <2>2, <2>3 DEF Typed
<1>5. ASSUME NEW b \in BindCalls, BindFindDevice(b)
      PROVE  Typed'
  BY <1>5
  DEF BindFindDevice, Typed, TypeOK, StoreTypeOK, GatewayTypeOK, MeetingServiceTypeOK,
     DeviceServiceTypeOK, ChallengeServiceTypeOK, CompanionTypeOK, References,
     MessageRefs, VerifyRefs, IssueRefs, BindRefs, EnrollRefs,
     BindRecord, BindPc
<1>6. ASSUME NEW b \in BindCalls, BindDelete(b)
      PROVE  Typed'
  BY <1>6
  DEF BindDelete, Typed, TypeOK, StoreTypeOK, GatewayTypeOK, MeetingServiceTypeOK,
     DeviceServiceTypeOK, ChallengeServiceTypeOK, CompanionTypeOK, References,
     MessageRefs, VerifyRefs, IssueRefs, BindRefs, EnrollRefs,
     BindRecord, BindPc
<1>7. ASSUME NEW b \in BindCalls, BindUpdate(b)
      PROVE  Typed'
  <2>1. bind' \in [BindCalls -> BindRecord]
    BY <1>7
    DEF BindUpdate, Typed, TypeOK, MeetingServiceTypeOK, BindRecord, BindPc
  <2>2. participant' \in [Participants -> ParticipantRow]
    <3> DEFINE d == bind[b].request.device
               p == token[bind[b].request.token].participant
    <3>1. participant' = [participant EXCEPT ![p].device = d,
                            ![p].status = "VERIFIED", ![p].reason = "bound"]
      BY <1>7 DEF BindUpdate
    <3>2. d \in DeviceOrNone
      BY <1>7 DEF BindUpdate, Typed, References, BindRefs, BindRequest, DeviceOrNone
    <3>3. "VERIFIED" \in TrustStatus /\ "bound" \in Reason
      BY DEF TrustStatus, Reason
    <3>4. participant \in [Participants -> ParticipantRow]
      BY DEF Typed, TypeOK, StoreTypeOK
    <3> HIDE DEF d, p
    <3> QED
      BY <3>1, <3>2, <3>3, <3>4 DEF ParticipantRow
  <2>3. TypeOK'
    BY <1>7, <2>1, <2>2
    DEF BindUpdate, Typed, TypeOK, StoreTypeOK, GatewayTypeOK, MeetingServiceTypeOK,
     DeviceServiceTypeOK, ChallengeServiceTypeOK, CompanionTypeOK
  <2>4. References'
    <3>1. BindRefs'
      BY <1>7, <2>1, <2>2 DEF BindUpdate, Typed, TypeOK, References, BindRefs, MeetingServiceTypeOK, BindRecord
    <3> QED
      BY <3>1, <1>7 DEF BindUpdate, Typed, References, MessageRefs, VerifyRefs, IssueRefs, BindRefs, EnrollRefs
  <2> QED
    BY <2>3, <2>4 DEF Typed
<1>8. ASSUME NEW b \in BindCalls, BindLog(b)
      PROVE  Typed'
  <2>1. bind' \in [BindCalls -> BindRecord]
    <3>1. PICK pc \in BindPc : bind' = [bind EXCEPT ![b].pc = pc]
      BY <1>8 DEF BindLog, BindPc
    <3> QED
      BY <3>1, BindPcTyped DEF Typed, TypeOK, MeetingServiceTypeOK
  <2>2. audit' \subseteq AuditEvent
    <3> DEFINE p == token[bind[b].request.token].participant
               d == bind[b].request.device
    <3>1. bind[b].request \in BindRequest /\ token[bind[b].request.token] \in TokenData
      BY <1>8 DEF BindLog, Typed, References, BindRefs
    <3>2. p \in Participants /\ d \in DeviceOrNone
      BY <3>1 DEF BindRequest, TokenData, DeviceOrNone
    <3>3. "DEVICE_BOUND" \in AuditType
      BY DEF AuditType
    <3>4. Log("DEVICE_BOUND", p, d) \/ UNCHANGED audit
      BY <1>8 DEF BindLog
    <3> HIDE DEF p, d
    <3>5. CASE Log("DEVICE_BOUND", p, d)
      BY <3>2, <3>3, <3>5, LogTyped
    <3>6. CASE UNCHANGED audit
      BY <3>6 DEF Typed, TypeOK, StoreTypeOK
    <3> QED
      BY <3>4, <3>5, <3>6
  <2>3. TypeOK'
    BY <1>8, <2>1, <2>2
    DEF BindLog, Typed, TypeOK, StoreTypeOK, GatewayTypeOK, MeetingServiceTypeOK,
     DeviceServiceTypeOK, ChallengeServiceTypeOK, CompanionTypeOK
  <2>4. References'
    BY <1>8, <2>1
    DEF BindLog, Typed, TypeOK, MeetingServiceTypeOK, BindRecord, References,
     MessageRefs, VerifyRefs, IssueRefs, BindRefs, EnrollRefs
  <2> QED
    BY <2>3, <2>4 DEF Typed
<1>9. ASSUME NEW b \in BindCalls, BindAbort(b)
      PROVE  Typed'
  BY <1>9
  DEF BindAbort, Typed, TypeOK, StoreTypeOK, GatewayTypeOK, MeetingServiceTypeOK,
     DeviceServiceTypeOK, ChallengeServiceTypeOK, CompanionTypeOK, References,
     MessageRefs, VerifyRefs, IssueRefs, BindRefs, EnrollRefs,
     BindRecord, BindPc, Fault
<1> QED
  BY <1>1, <1>2, <1>3, <1>4, <1>5, <1>6, <1>7, <1>8, <1>9 DEF MeetingServiceNext, BindStep

LEMMA TypedEnrolling ==
  ASSUME Typed, DeviceServiceNext,
         UNCHANGED <<gatewayVars, meetingServiceVars, challengeServiceVars, agent>>
  PROVE  Typed'
<1>1. ASSUME NEW e \in EnrollCalls, EnrollFind(e)
      PROVE  Typed'
  BY <1>1
  DEF EnrollFind, Typed, TypeOK, StoreTypeOK, GatewayTypeOK, MeetingServiceTypeOK,
     DeviceServiceTypeOK, ChallengeServiceTypeOK, CompanionTypeOK, References,
     MessageRefs, VerifyRefs, IssueRefs, BindRefs, EnrollRefs,
     EnrollRecord, EnrollPc
<1>2. ASSUME NEW e \in EnrollCalls, EnrollWrite(e)
      PROVE  Typed'
  <2>1. enroll' \in [EnrollCalls -> EnrollRecord]
    BY <1>2
    DEF EnrollWrite, Typed, TypeOK, DeviceServiceTypeOK, EnrollRecord, EnrollPc
  <2>2. device' \in [Devices -> DeviceRow]
    BY <1>2
    DEF EnrollWrite, Typed, TypeOK, StoreTypeOK, DeviceServiceTypeOK, EnrollRecord, DeviceRow, DeviceStatus
  <2>3. TypeOK'
    BY <1>2, <2>1, <2>2
    DEF EnrollWrite, Typed, TypeOK, StoreTypeOK, GatewayTypeOK, MeetingServiceTypeOK,
     DeviceServiceTypeOK, ChallengeServiceTypeOK, CompanionTypeOK
  <2>4. References'
    <3>1. EnrollRefs'
      BY <1>2, <2>1, <2>2 DEF EnrollWrite, Typed, TypeOK, References, EnrollRefs, DeviceServiceTypeOK, EnrollRecord
    <3> QED
      BY <3>1, <1>2 DEF EnrollWrite, Typed, References, MessageRefs, VerifyRefs, IssueRefs, BindRefs, EnrollRefs
  <2> QED
    BY <2>3, <2>4 DEF Typed
<1>3. ASSUME NEW e \in EnrollCalls, EnrollLog(e)
      PROVE  Typed'
  BY <1>3
  DEF EnrollLog, Typed, TypeOK, StoreTypeOK, GatewayTypeOK, MeetingServiceTypeOK,
     DeviceServiceTypeOK, ChallengeServiceTypeOK, CompanionTypeOK, References,
     MessageRefs, VerifyRefs, IssueRefs, BindRefs, EnrollRefs,
     EnrollRecord, EnrollPc, DeviceOrNone, AuditEvent, AuditType, Event, Log
<1>4. ASSUME NEW e \in EnrollCalls, EnrollAbort(e)
      PROVE  Typed'
  BY <1>4
  DEF EnrollAbort, Typed, TypeOK, StoreTypeOK, GatewayTypeOK, MeetingServiceTypeOK,
     DeviceServiceTypeOK, ChallengeServiceTypeOK, CompanionTypeOK, References,
     MessageRefs, VerifyRefs, IssueRefs, BindRefs, EnrollRefs,
     EnrollRecord, EnrollPc, Fault
<1>5. ASSUME NEW d \in Devices, Revoke(d)
      PROVE  Typed'
  BY <1>5
  DEF Revoke, Typed, TypeOK, StoreTypeOK, GatewayTypeOK, MeetingServiceTypeOK,
     DeviceServiceTypeOK, ChallengeServiceTypeOK, CompanionTypeOK, References,
     MessageRefs, VerifyRefs, IssueRefs, BindRefs, EnrollRefs,
     DeviceRow, DeviceStatus
<1> QED
  BY <1>1, <1>2, <1>3, <1>4, <1>5 DEF DeviceServiceNext, EnrollStep

LEMMA TypedAgents ==
  ASSUME Typed, CompanionNext, UNCHANGED challengeServiceVars
  PROVE  Typed'
<1>1. ASSUME NEW d \in Devices, NEW e \in EnrollCalls, AgentStart(d, e)
      PROVE  Typed'
  <2>1. NextKey(d) \in Nat
    BY <1>1
    DEF AgentStart, Typed, TypeOK, NextKey, CompanionTypeOK, AgentRecord
  <2>2. agent' \in [Devices -> AgentRecord]
    BY <1>1, <2>1
    DEF AgentStart, Typed, TypeOK, CompanionTypeOK, AgentRecord
  <2>3. enroll' \in [EnrollCalls -> EnrollRecord]
    BY <1>1, <2>1
    DEF AgentStart, Typed, TypeOK, DeviceServiceTypeOK, EnrollRecord, EnrollPc, DeviceOrNone
  <2>4. TypeOK'
    BY <1>1, <2>1, <2>2, <2>3
    DEF AgentStart, Typed, TypeOK, StoreTypeOK, GatewayTypeOK, MeetingServiceTypeOK,
     DeviceServiceTypeOK, ChallengeServiceTypeOK, CompanionTypeOK
  <2>5. References'
    BY <1>1, <2>1, <2>2, <2>3
    DEF AgentStart, Typed, TypeOK, StoreTypeOK, GatewayTypeOK, MeetingServiceTypeOK,
     DeviceServiceTypeOK, ChallengeServiceTypeOK, CompanionTypeOK, References,
     MessageRefs, VerifyRefs, IssueRefs, BindRefs, EnrollRefs
  <2> QED
    BY <2>4, <2>5 DEF Typed
<1>2. ASSUME NEW d \in Devices, NEW c \in Challenges, AgentAnswer(d, c)
      PROVE  Typed'
  BY <1>2
  DEF AgentAnswer, SignChallenge, Typed, TypeOK, StoreTypeOK, GatewayTypeOK, MeetingServiceTypeOK,
     DeviceServiceTypeOK, ChallengeServiceTypeOK, CompanionTypeOK, References,
     MessageRefs, VerifyRefs, IssueRefs, BindRefs, EnrollRefs,
     AgentRecord, Response
<1>3. ASSUME NEW d \in Devices, NEW t \in Tokens, NEW m \in Meetings, AgentSignBinding(d, t, m)
      PROVE  Typed'
  BY <1>3
  DEF AgentSignBinding, SignBinding, Typed, TypeOK, StoreTypeOK, GatewayTypeOK, MeetingServiceTypeOK,
     DeviceServiceTypeOK, ChallengeServiceTypeOK, CompanionTypeOK, References,
     MessageRefs, VerifyRefs, IssueRefs, BindRefs, EnrollRefs,
     AgentRecord, BindRequest
<1>4. ASSUME NEW d \in Devices, AgentEnrolled(d)
      PROVE  Typed'
  BY <1>4
  DEF AgentEnrolled, Typed, TypeOK, StoreTypeOK, GatewayTypeOK, MeetingServiceTypeOK,
     DeviceServiceTypeOK, ChallengeServiceTypeOK, CompanionTypeOK, References,
     MessageRefs, VerifyRefs, IssueRefs, BindRefs, EnrollRefs,
     AgentRecord
<1>5. ASSUME NEW d \in Devices, AgentConnect(d)
      PROVE  Typed'
  BY <1>5
  DEF AgentConnect, Typed, TypeOK, StoreTypeOK, GatewayTypeOK, MeetingServiceTypeOK,
     DeviceServiceTypeOK, ChallengeServiceTypeOK, CompanionTypeOK, References,
     MessageRefs, VerifyRefs, IssueRefs, BindRefs, EnrollRefs,
     HandleDeviceConnect
<1>6. ASSUME NEW d \in Devices, AgentDisconnect(d)
      PROVE  Typed'
  BY <1>6
  DEF AgentDisconnect, Typed, TypeOK, StoreTypeOK, GatewayTypeOK, MeetingServiceTypeOK,
     DeviceServiceTypeOK, ChallengeServiceTypeOK, CompanionTypeOK, References,
     MessageRefs, VerifyRefs, IssueRefs, BindRefs, EnrollRefs,
     HandleDisconnect, Fault
<1>7. ASSUME NEW d \in Devices, AgentStop(d)
      PROVE  Typed'
  <2>1. agent \in [Devices -> AgentRecord]
    BY DEF Typed, TypeOK, CompanionTypeOK
  <2>2. agent[d] \in AgentRecord
    BY <2>1
  <2>3. [agent[d] EXCEPT !.pc = "off"] \in AgentRecord
    BY <2>2 DEF AgentRecord
  <2>4. agent' = [agent EXCEPT ![d] = [agent[d] EXCEPT !.pc = "off"]]
    BY <1>7 DEF AgentStop
  <2>5. agent' \in [Devices -> AgentRecord]
    BY <2>1, <2>3, <2>4
  <2>6. /\ deviceSockets' \subseteq deviceSockets
        /\ inbox' \subseteq inbox
        /\ responses' \subseteq responses
        /\ faults' = faults + 1
        /\ UNCHANGED <<now, meeting, participant, device, challenge, token, redis,
                       audit, meetingServiceVars, enroll>>
    BY <1>7 DEF AgentStop, HandleDisconnect, Fault
  <2>7. TypeOK'
    BY <2>5, <2>6
    DEF Typed, TypeOK, StoreTypeOK, GatewayTypeOK, MeetingServiceTypeOK,
     DeviceServiceTypeOK, ChallengeServiceTypeOK, CompanionTypeOK
  <2>8. References'
    BY <2>6
    DEF Typed, References, MessageRefs, VerifyRefs, IssueRefs, BindRefs, EnrollRefs
  <2> QED
    BY <2>7, <2>8 DEF Typed
<1>8. ASSUME NEW d \in Devices, AgentHeartbeat(d)
      PROVE  Typed'
  BY <1>8
  DEF AgentHeartbeat, Typed, TypeOK, StoreTypeOK, GatewayTypeOK, MeetingServiceTypeOK,
     DeviceServiceTypeOK, ChallengeServiceTypeOK, CompanionTypeOK, References,
     MessageRefs, VerifyRefs, IssueRefs, BindRefs, EnrollRefs,
     Heartbeat, DeviceRow
<1> QED
  BY <1>1, <1>2, <1>3, <1>4, <1>5, <1>6, <1>7, <1>8 DEF CompanionNext, CompanionStep

LEMMA TypedRestart == Typed /\ HubRestart => Typed'
<1> SUFFICES ASSUME Typed, HubRestart PROVE Typed'
  OBVIOUS
<1>1. /\ issue' \in [IssueCalls -> IssueRecord]
     /\ \A i \in IssueCalls : \/ issue'[i] = issue[i]
                              \/ issue'[i] = [issue[i] EXCEPT !.pc = "aborted"]
  <2>1. issue \in [IssueCalls -> IssueRecord]
    BY DEF Typed, TypeOK, ChallengeServiceTypeOK
  <2>2. issue' = [i \in IssueCalls |-> IF issue[i].pc = "idle" THEN issue[i]
               ELSE [issue[i] EXCEPT !.pc = "aborted"]]
    BY DEF HubRestart
  <2>3. \A i \in IssueCalls : [issue[i] EXCEPT !.pc = "aborted"] \in IssueRecord
    BY <2>1 DEF IssueRecord, IssuePc
  <2> QED
    BY <2>1, <2>2, <2>3, Zenon
<1>2. /\ verify' \in [VerifyCalls -> VerifyRecord]
     /\ \A v \in VerifyCalls : /\ verify'[v].response = verify[v].response
                               /\ verify'[v].pc # "idle" => verify[v].pc # "idle"
  <2>1. verify \in [VerifyCalls -> VerifyRecord]
    BY DEF Typed, TypeOK, ChallengeServiceTypeOK
  <2>2. verify' = [v \in VerifyCalls |-> IF verify[v].pc \in {"idle", "done", "rejected"} THEN verify[v]
               ELSE [verify[v] EXCEPT !.pc = "aborted"]]
    BY DEF HubRestart
  <2>3. \A v \in VerifyCalls : [verify[v] EXCEPT !.pc = "aborted"] \in VerifyRecord
    BY <2>1 DEF VerifyRecord, VerifyPc
  <2>4. \A v \in VerifyCalls :
          /\ [verify[v] EXCEPT !.pc = "aborted"].response = verify[v].response
          /\ verify[v].pc = "idle" => verify[v].pc \in {"idle", "done", "rejected"}
    BY <2>1 DEF VerifyRecord
  <2>5. \A v \in VerifyCalls : verify'[v] =
          IF verify[v].pc \in {"idle", "done", "rejected"} THEN verify[v] ELSE [verify[v] EXCEPT !.pc = "aborted"]
    BY <2>2
  <2>6. verify' \in [VerifyCalls -> VerifyRecord]
    BY <2>1, <2>2, <2>3, Zenon
  <2>7. \A v \in VerifyCalls : verify'[v].response = verify[v].response
    BY <2>4, <2>5, Zenon
  <2>8. \A v \in VerifyCalls : verify[v].pc = "idle" => verify'[v].pc = "idle"
    BY <2>4, <2>5, Zenon
  <2> QED
    BY <2>6, <2>7, <2>8
<1>3. /\ bind' \in [BindCalls -> BindRecord]
     /\ \A b \in BindCalls : /\ bind'[b].request = bind[b].request
                             /\ bind'[b].pc # "idle" => bind[b].pc # "idle"
  <2>1. bind \in [BindCalls -> BindRecord]
    BY DEF Typed, TypeOK, MeetingServiceTypeOK
  <2>2. bind' = [b \in BindCalls |-> IF bind[b].pc \in {"idle", "done", "rejected"} THEN bind[b]
               ELSE [bind[b] EXCEPT !.pc = "aborted"]]
    BY DEF HubRestart
  <2>3. \A b \in BindCalls : [bind[b] EXCEPT !.pc = "aborted"] \in BindRecord
    BY <2>1 DEF BindRecord, BindPc
  <2>4. \A b \in BindCalls :
          /\ [bind[b] EXCEPT !.pc = "aborted"].request = bind[b].request
          /\ bind[b].pc = "idle" => bind[b].pc \in {"idle", "done", "rejected"}
    BY <2>1 DEF BindRecord
  <2>5. \A b \in BindCalls : bind'[b] =
          IF bind[b].pc \in {"idle", "done", "rejected"} THEN bind[b] ELSE [bind[b] EXCEPT !.pc = "aborted"]
    BY <2>2
  <2>6. bind' \in [BindCalls -> BindRecord]
    BY <2>1, <2>2, <2>3, Zenon
  <2>7. \A b \in BindCalls : bind'[b].request = bind[b].request
    BY <2>4, <2>5, Zenon
  <2>8. \A b \in BindCalls : bind[b].pc = "idle" => bind'[b].pc = "idle"
    BY <2>4, <2>5, Zenon
  <2> QED
    BY <2>6, <2>7, <2>8
<1>4. /\ enroll' \in [EnrollCalls -> EnrollRecord]
     /\ \A e \in EnrollCalls : /\ enroll'[e].device = enroll[e].device
                               /\ enroll'[e].pc # "idle" => enroll[e].pc # "idle"
  <2>1. enroll \in [EnrollCalls -> EnrollRecord]
    BY DEF Typed, TypeOK, DeviceServiceTypeOK
  <2>2. enroll' = [e \in EnrollCalls |-> IF enroll[e].pc \in {"idle", "done"} THEN enroll[e]
               ELSE [enroll[e] EXCEPT !.pc = "aborted"]]
    BY DEF HubRestart
  <2>3. \A e \in EnrollCalls : [enroll[e] EXCEPT !.pc = "aborted"] \in EnrollRecord
    BY <2>1 DEF EnrollRecord, EnrollPc
  <2>4. \A e \in EnrollCalls :
          /\ [enroll[e] EXCEPT !.pc = "aborted"].device = enroll[e].device
          /\ enroll[e].pc = "idle" => enroll[e].pc \in {"idle", "done"}
    BY <2>1 DEF EnrollRecord
  <2>5. \A e \in EnrollCalls : enroll'[e] =
          IF enroll[e].pc \in {"idle", "done"} THEN enroll[e] ELSE [enroll[e] EXCEPT !.pc = "aborted"]
    BY <2>2
  <2>6. enroll' \in [EnrollCalls -> EnrollRecord]
    BY <2>1, <2>2, <2>3, Zenon
  <2>7. \A e \in EnrollCalls : enroll'[e].device = enroll[e].device
    BY <2>4, <2>5, Zenon
  <2>8. \A e \in EnrollCalls : enroll[e].pc = "idle" => enroll'[e].pc = "idle"
    BY <2>4, <2>5, Zenon
  <2> QED
    BY <2>6, <2>7, <2>8
<1>5. /\ deviceSockets' = {} /\ inbox' = {} /\ responses' = {} /\ faults' = faults + 1
     /\ UNCHANGED <<now, meeting, participant, device, challenge, token, redis,
                    audit, bindRequests, agent>>
  BY DEF HubRestart, Fault
<1>6. TypeOK'
  BY <1>1, <1>2, <1>3, <1>4, <1>5
  DEF Typed, TypeOK, StoreTypeOK, GatewayTypeOK, MeetingServiceTypeOK,
     DeviceServiceTypeOK, ChallengeServiceTypeOK, CompanionTypeOK
<1>7. MessageRefs'
  BY <1>5 DEF Typed, References, MessageRefs
<1>8. VerifyRefs'
  BY <1>2, <1>5 DEF Typed, References, VerifyRefs
<1>9. IssueRefs'
  BY <1>1, <1>5 DEF Typed, TypeOK, ChallengeServiceTypeOK, IssueRecord, References, IssueRefs
<1>10. BindRefs'
  BY <1>3, <1>5 DEF Typed, References, BindRefs
<1>11. EnrollRefs'
  BY <1>4, <1>5 DEF Typed, References, EnrollRefs
<1> QED
  BY <1>6, <1>7, <1>8, <1>9, <1>10, <1>11 DEF Typed, References

LEMMA TypedNext == Typed /\ [Next]_vars => Typed'
<1> SUFFICES ASSUME Typed, [Next]_vars PROVE Typed'
  OBVIOUS
<1>1. CASE Next
  BY <1>1, TypedClock, TypedChallenging, TypedMeeting, TypedEnrolling,
     TypedAgents, TypedRestart
     DEF Next, Challenging, Meeting, Enrolling, Agents
<1>2. CASE UNCHANGED vars
  BY <1>2 DEF vars, Typed, TypeOK, StoreTypeOK, GatewayTypeOK, MeetingServiceTypeOK,
     DeviceServiceTypeOK, ChallengeServiceTypeOK, CompanionTypeOK, References,
     MessageRefs, VerifyRefs, IssueRefs, BindRefs, EnrollRefs
<1> QED
  BY <1>1, <1>2

\* Every variable keeps its type, in every behaviour of the Hub and its agents:
\* in particular no handler stores a status the schema's enum does not have,
\* logs an event about nothing or answers for a challenge nobody issued.
THEOREM TypeCorrect == Spec => []TypeOK
<1>1. Init => Typed
  BY TypedInit
<1>2. Typed /\ [Next]_vars => Typed'
  BY TypedNext
<1>3. Typed => TypeOK
  BY DEF Typed
<1> QED
  BY <1>1, <1>2, <1>3, PTL DEF Spec
=============================================================================
