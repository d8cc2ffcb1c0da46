---------------------------- MODULE EarnedProofs ----------------------------
(***************************************************************************)
(* What the status shown for a participant rests on: the policy engine     *)
(* does what its table says, a VERIFIED by challenge was earned, and the   *)
(* status a round leaves behind is in the audit log.  Proved for every     *)
(* value of the constants.                                                 *)
(***************************************************************************)
EXTENDS VerdictProofs, PolicyTable

USE DEF storeVars, gatewayVars, meetingServiceVars, deviceServiceVars, challengeServiceVars

-----------------------------------------------------------------------------
(* The policy engine *)

\* "Rules (evaluated in order, first match wins)", for every clock and every
\* time after which a heartbeat is stale: PolicyService.evaluate returns the
\* result of the first row of SPEC.md's table whose condition holds.
THEOREM PolicyFollowsTable == Spec => []FirstMatchWins
<1>1. FirstMatchWins
  <2> SUFFICES ASSUME NEW e \in Evidence
               PROVE  \E n \in DOMAIN Table(e) :
                        /\ Table(e)[n].if /\ Answer(e) = Table(e)[n].then
                        /\ \A k \in 1..(n - 1) : ~Table(e)[k].if
    BY DEF FirstMatchWins
  <2> DEFINE Decides(n) == /\ n \in 1..6 /\ Table(e)[n].if /\ Answer(e) = Table(e)[n].then
                           /\ \A k \in 1..(n - 1) : ~Table(e)[k].if
  <2>1. DOMAIN Table(e) = 1..6
    BY DEF Table
  <2>2. /\ Table(e)[1].if = (e.status # "ACTIVE")
        /\ Table(e)[2].if = e.challengeExpired
        /\ Table(e)[3].if = ~e.signatureValid
        /\ Table(e)[4].if = ~e.bound
        /\ Table(e)[5].if = IsStale(e.heartbeat, now)
        /\ Table(e)[6].if = TRUE
    BY DEF Table, IsStale
  <2>3. /\ Table(e)[1].then = Verdict("FAILED", "revoked")
        /\ Table(e)[2].then = Verdict("FAILED", "expired")
        /\ Table(e)[3].then = Verdict("FAILED", "bad_signature")
        /\ Table(e)[4].then = Verdict("UNKNOWN", "no_binding")
        /\ Table(e)[5].then = Verdict("STALE", "stale")
        /\ Table(e)[6].then = Verdict("VERIFIED", "verified")
    BY DEF Table
  <2> SUFFICES \E n \in 1..6 : Decides(n)
    BY <2>1
  <2>4. \A k : /\ k \in 1..(1 - 1) => FALSE
               /\ k \in 1..(2 - 1) => k = 1
               /\ k \in 1..(3 - 1) => k \in {1, 2}
               /\ k \in 1..(4 - 1) => k \in {1, 2, 3}
               /\ k \in 1..(5 - 1) => k \in {1, 2, 3, 4}
               /\ k \in 1..(6 - 1) => k \in {1, 2, 3, 4, 5}
               /\ k \in {1, 2, 3, 4, 5, 6} => k \in 1..6
    OBVIOUS
  <2>5. CASE e.status # "ACTIVE"
    <3>1. Decides(1)
      BY <2>2, <2>3, <2>4, <2>5, Zenon DEF Answer, Evaluate
    <3> QED
      BY <3>1
  <2>6. CASE e.status = "ACTIVE" /\ e.challengeExpired
    <3>1. Decides(2)
      BY <2>2, <2>3, <2>4, <2>6, Zenon DEF Answer, Evaluate
    <3> QED
      BY <3>1
  <2>7. CASE e.status = "ACTIVE" /\ ~e.challengeExpired /\ ~e.signatureValid
    <3>1. Decides(3)
      BY <2>2, <2>3, <2>4, <2>7, Zenon DEF Answer, Evaluate
    <3> QED
      BY <3>1
  <2>8. CASE e.status = "ACTIVE" /\ ~e.challengeExpired /\ e.signatureValid /\ ~e.bound
    <3>1. Decides(4)
      BY <2>2, <2>3, <2>4, <2>8, Zenon DEF Answer, Evaluate
    <3> QED
      BY <3>1
  <2>9. CASE /\ e.status = "ACTIVE" /\ ~e.challengeExpired /\ e.signatureValid /\ e.bound
             /\ IsStale(e.heartbeat, now)
    <3>1. Decides(5)
      BY <2>2, <2>3, <2>4, <2>9, Zenon DEF Answer, Evaluate
    <3> QED
      BY <3>1
  <2>10. CASE /\ e.status = "ACTIVE" /\ ~e.challengeExpired /\ e.signatureValid /\ e.bound
              /\ ~IsStale(e.heartbeat, now)
    <3>1. Decides(6)
      BY <2>2, <2>3, <2>4, <2>10, Zenon DEF Answer, Evaluate
    <3> QED
      BY <3>1
  <2> QED
    BY <2>5, <2>6, <2>7, <2>8, <2>9, <2>10
<1> QED
  BY <1>1, PTL

\* The clock never goes back.
LEMMA TimeGoesOn ==
  ASSUME Typed, [Next]_vars
  PROVE  now \in Nat /\ now' \in Nat /\ now <= now'
<1>1. Typed'
  BY TypedNext
<1>2. now \in Nat /\ now' \in Nat
  BY <1>1 DEF Typed, TypeOK, StoreTypeOK
<1>3. CASE Clock
  BY <1>2, <1>3 DEF Clock, Tick
<1>4. CASE UNCHANGED now
  BY <1>2, <1>4
<1>5. CASE Challenging
  <2>1. ASSUME NEW i \in IssueCalls,
               (\E m \in Meetings : IssueRead(i, m)) \/ IssueStep(i) \/ IssueAbort(i)
        PROVE  UNCHANGED now
    BY <2>1 DEF IssueStep, IssueRead, IssueNoDevice, IssueNoDeviceLog, IssueStore,
                IssueEmit, IssueLog, IssueAbort
  <2>2. ASSUME NEW v \in VerifyCalls, VerifyStep(v) \/ VerifyAbort(v)
        PROVE  UNCHANGED now
    BY <2>2 DEF VerifyStep, VerifyGet, VerifyFindDevice, VerifyDelete, VerifyUpdate,
                VerifyLog, VerifyAbort
  <2> QED
    BY <1>4, <1>5, <2>1, <2>2 DEF Challenging, ChallengeServiceNext
<1>6. CASE Meeting
  BY <1>4, <1>6
  DEF Meeting, MeetingServiceNext, BindStep, Create, AddParticipant, IssueJoinToken,
      BindGet, BindFindDevice, BindDelete, BindUpdate, BindLog, BindAbort
<1>7. CASE Enrolling
  BY <1>4, <1>7
  DEF Enrolling, DeviceServiceNext, EnrollStep, EnrollFind, EnrollWrite, EnrollLog,
      EnrollAbort, Revoke
<1>8. CASE Agents
  BY <1>4, <1>8
  DEF Agents, CompanionNext, CompanionStep, AgentStart, AgentAnswer, AgentSignBinding,
      AgentEnrolled, AgentConnect, AgentDisconnect, AgentStop, AgentHeartbeat, Heartbeat
<1>9. CASE HubRestart
  BY <1>2, <1>9 DEF HubRestart
<1>10. CASE UNCHANGED vars
  BY <1>2, <1>10 DEF vars
<1>11. \/ Clock \/ Challenging \/ Meeting \/ Enrolling \/ Agents
       \/ HubRestart \/ UNCHANGED vars
  BY Zenon DEF Next
<1> QED
  BY <1>3, <1>5, <1>6, <1>7, <1>8, <1>9, <1>10, <1>11

\* Judged later on the same evidence, a verdict of PolicyService.evaluate is the
\* same or has gone from VERIFIED to STALE: time alone never restores trust.
THEOREM TimeNeverRestoresTrust == Spec => TimeOnlyStales
<1> DEFINE Stales == \A e \in Evidence : Answer(e)' # Answer(e) =>
       Answer(e).status = "VERIFIED" /\ Answer(e)'.status = "STALE"
<1>1. ASSUME now \in Nat, now' \in Nat, now <= now' PROVE Stales
  <2> SUFFICES ASSUME NEW e \in Evidence, Answer(e)' # Answer(e)
               PROVE  Answer(e).status = "VERIFIED" /\ Answer(e)'.status = "STALE"
    OBVIOUS
  <2>1. IsStale(e.heartbeat, now) => IsStale(e.heartbeat, now')
    BY <1>1, StaleAfterIsATime, TimesAreNaturals DEF Evidence, IsStale
  <2>2. ~IsStale(e.heartbeat, now) /\ IsStale(e.heartbeat, now')
    BY <2>1 DEF Answer, Evaluate
  <2> QED
    BY <2>2 DEF Answer, Evaluate, Verdict
<1>2. Typed /\ [Next]_vars => [now' # now => Stales]_vars
  BY <1>1, TimeGoesOn
<1>3. Spec => []Typed
  BY TypedInit, TypedNext, PTL DEF Spec
<1> QED
  BY <1>2, <1>3, PTL DEF Spec, TimeOnlyStales
-----------------------------------------------------------------------------
(* Steps of the calls *)

\* What is written under a challenge's or token's key is never rewritten, and no
\* audit event is taken back.
RecordsStay ==
  /\ \A c \in Challenges : challenge[c] # Unissued => challenge'[c] = challenge[c]
  /\ \A t \in Tokens : token[t] # Unissued => token'[t] = token[t]
  /\ audit \subseteq audit'

\* The event that a call which has stored a verdict owes the log.
VerdictEvent(v) ==
  Event(IF verify[v].verdict.status = "VERIFIED" THEN "CHALLENGE_PASSED" ELSE "CHALLENGE_FAILED",
        Subject(v), verify[v].response.device)

\* What a step may do to a call of verifyResponse: nothing, fetch the challenge,
\* read the row, reach the verdict, or go on from there with all it has.
JudgingMoves(v) ==
  \/ verify'[v] = verify[v]
  \/ /\ verify[v].pc = "idle" /\ verify'[v].pc \in {"fetched", "rejected"}
     /\ verify'[v].at = now /\ verify'[v].verdict = verify[v].verdict
     /\ verify'[v].response \in responses
     /\ verify'[v].pc = "fetched" =>
          challenge[verify'[v].response.challenge].device = verify'[v].response.device
  \/ /\ verify[v].pc = "fetched" /\ verify'[v].pc \in {"checked", "rejected"}
     /\ verify'[v].response = verify[v].response /\ verify'[v].at = verify[v].at
     /\ verify'[v].verdict = verify[v].verdict
  \/ /\ verify[v].pc = "checked"
     /\ verify'[v] = [verify[v] EXCEPT !.pc = "deleted", !.verdict = Judgement(verify[v])]
  \/ /\ verify[v].pc \in {"fetched", "checked", "deleted", "judged"}
     /\ \/ verify'[v] = [verify[v] EXCEPT !.pc = "aborted"]
        \/ /\ verify[v].pc = "deleted" /\ verify'[v] = [verify[v] EXCEPT !.pc = "judged"]
        \/ /\ verify[v].pc = "judged" /\ verify'[v] = [verify[v] EXCEPT !.pc = "done"]
           /\ VerdictEvent(v) \in audit'

\* The same for a call of issueChallenge, as far as the statuses it stores go.
FailingMoves(i) ==
  \/ issue'[i] = issue[i]
  \/ /\ issue[i].pc = "failing" /\ issue'[i].pc = "loop"
     /\ Event("CHALLENGE_NO_DEVICE", issue[i].current, NoDevice) \in audit'
  \/ issue'[i] = [issue[i] EXCEPT !.pc = "aborted"]
  \/ issue[i].pc \notin {"failing", "aborted"}

\* Where a stored reason comes from.
ReasonMoves(p) ==
  \/ participant'[p].reason = participant[p].reason
  \/ participant'[p].reason \in {"none", "bound"}
  \/ /\ participant'[p].reason = "no_device"
     /\ \E i \in IssueCalls : issue'[i].pc = "failing" /\ issue'[i].current = p
  \/ \E v \in VerifyCalls :
       /\ verify[v].pc = "deleted" /\ verify'[v] = [verify[v] EXCEPT !.pc = "judged"]
       /\ Subject(v) = p /\ participant'[p].reason = verify[v].verdict.reason

Moves ==
  /\ RecordsStay
  /\ \A v \in VerifyCalls : JudgingMoves(v)
  /\ \A i \in IssueCalls : FailingMoves(i)
  /\ \A p \in Participants : ReasonMoves(p)

LEMMA ReasonIsSet ==
  ASSUME Typed, NEW p \in Participants, NEW verdict, SetStatus(p, verdict),
         NEW q \in Participants
  PROVE  \/ participant'[q] = participant[q]
         \/ q = p /\ participant'[q].reason = verdict.reason
<1>1. participant \in [Participants -> ParticipantRow]
  BY DEF Typed, TypeOK, StoreTypeOK
<1>2. CASE q # p
  BY <1>1, <1>2 DEF SetStatus
<1>3. CASE q = p
  BY <1>1, <1>3 DEF SetStatus, ParticipantRow
<1> QED
  BY <1>2, <1>3

LEMMA IssueMoves ==
  ASSUME Typed, NEW i \in IssueCalls,
         (\E m \in Meetings : IssueRead(i, m)) \/ IssueStep(i) \/ IssueAbort(i)
  PROVE  Moves
<1> USE DEF Typed, TypeOK, StoreTypeOK, ChallengeServiceTypeOK, IssueRecord
<1>1. \A v \in VerifyCalls : JudgingMoves(v)
  BY DEF IssueStep, IssueRead, IssueNoDevice, IssueNoDeviceLog, IssueStore, IssueEmit,
         IssueLog, IssueAbort, JudgingMoves
<1>2. RecordsStay
  BY DEF IssueStep, IssueRead, IssueNoDevice, IssueNoDeviceLog, IssueStore, IssueEmit,
         IssueLog, IssueAbort, RecordsStay, Log
<1>3. \A j \in IssueCalls : FailingMoves(j)
  BY DEF IssueStep, IssueRead, IssueNoDevice, IssueNoDeviceLog, IssueStore, IssueEmit,
         IssueLog, IssueAbort, FailingMoves, Log
<1>4. ASSUME NEW p \in Participants PROVE ReasonMoves(p)
  <2>1. CASE UNCHANGED participant
    BY <2>1 DEF ReasonMoves
  <2>2. ASSUME NEW q \in Participants, IssueNoDevice(i, q) PROVE ReasonMoves(p)
    <3>1. \/ participant'[p] = participant[p]
          \/ p = q /\ participant'[p].reason = "no_device"
      <4>1. SetStatus(q, Verdict("FAILED", "no_device"))
        BY <2>2 DEF IssueNoDevice
      <4>2. Verdict("FAILED", "no_device").reason = "no_device"
        BY DEF Verdict
      <4> QED
        BY <4>1, <4>2, ReasonIsSet
    <3>2. issue'[i].pc = "failing" /\ issue'[i].current = q
      BY <2>2 DEF IssueNoDevice
    <3> QED
      BY <3>1, <3>2 DEF ReasonMoves
  <2> QED
    BY <2>1, <2>2 DEF IssueStep, IssueRead, IssueNoDeviceLog, IssueStore, IssueEmit,
                      IssueLog, IssueAbort
<1> QED
  BY <1>1, <1>2, <1>3, <1>4 DEF Moves

LEMMA VerifyingMoves ==
  ASSUME Typed, NEW w \in VerifyCalls, VerifyStep(w) \/ VerifyAbort(w)
  PROVE  Moves
<1> USE DEF Typed, TypeOK, StoreTypeOK, ChallengeServiceTypeOK, VerifyRecord
<1>1. \A i \in IssueCalls : FailingMoves(i)
  BY DEF VerifyStep, VerifyGet, VerifyFindDevice, VerifyDelete, VerifyUpdate, VerifyLog,
         VerifyAbort, FailingMoves
<1>2. RecordsStay
  BY DEF VerifyStep, VerifyGet, VerifyFindDevice, VerifyDelete, VerifyUpdate, VerifyLog,
         VerifyAbort, RecordsStay, Log
<1>3. ASSUME NEW v \in VerifyCalls PROVE JudgingMoves(v)
  <2>1. ASSUME NEW r \in responses, VerifyGet(w, r) PROVE JudgingMoves(v)
    BY <2>1 DEF VerifyGet, JudgingMoves
  <2>2. CASE VerifyFindDevice(w)
    BY <2>2 DEF VerifyFindDevice, JudgingMoves
  <2>3. CASE VerifyDelete(w)
    BY <2>3 DEF VerifyDelete, JudgingMoves
  <2>4. CASE VerifyUpdate(w)
    BY <2>4 DEF VerifyUpdate, JudgingMoves
  <2>5. CASE VerifyLog(w)
    BY <2>5 DEF VerifyLog, JudgingMoves, VerdictEvent, Log, Subject
  <2>6. CASE VerifyAbort(w)
    BY <2>6 DEF VerifyAbort, JudgingMoves
  <2> QED
    BY <2>1, <2>2, <2>3, <2>4, <2>5, <2>6 DEF VerifyStep
<1>4. ASSUME NEW p \in Participants PROVE ReasonMoves(p)
  <2>1. CASE UNCHANGED participant
    BY <2>1 DEF ReasonMoves
  <2>2. CASE VerifyUpdate(w)
    <3>1. verify'[w] = [verify[w] EXCEPT !.pc = "judged"] /\ verify[w].pc = "deleted"
      BY <2>2 DEF VerifyUpdate
    <3>2. \/ participant'[p] = participant[p]
          \/ Subject(w) = p /\ participant'[p].reason = verify[w].verdict.reason
      <4>1. Subject(w) \in Participants
        BY <2>2 DEF VerifyUpdate, Subject, References, VerifyRefs, ChallengeData
      <4> QED
        BY <2>2, <4>1, ReasonIsSet DEF VerifyUpdate, Subject
    <3> QED
      BY <3>1, <3>2 DEF ReasonMoves
  <2> QED
    BY <2>1, <2>2 DEF VerifyStep, VerifyGet, VerifyFindDevice, VerifyDelete, VerifyLog,
                      VerifyAbort
<1> QED
  BY <1>1, <1>2, <1>3, <1>4 DEF Moves

\* A step that leaves rows, contents and calls alone and writes nothing but events.
LEMMA MovesElsewhere ==
  ASSUME UNCHANGED <<participant, challenge, token, issue, verify>>, audit \subseteq audit'
  PROVE  Moves
  BY DEF Moves, RecordsStay, JudgingMoves, FailingMoves, ReasonMoves

LEMMA MeetingMoves ==
  ASSUME Typed, Meeting
  PROVE  Moves
<1> USE DEF Typed, TypeOK, StoreTypeOK, ParticipantRow
<1>1. UNCHANGED <<challenge, issue, verify>>
  BY DEF Meeting, MeetingServiceNext, BindStep, Create, AddParticipant, IssueJoinToken,
         BindGet, BindFindDevice, BindDelete, BindUpdate, BindLog, BindAbort
<1>2. RecordsStay
  BY <1>1 DEF Meeting, MeetingServiceNext, BindStep, Create, AddParticipant, IssueJoinToken,
         BindGet, BindFindDevice, BindDelete, BindUpdate, BindLog, BindAbort, Log,
         LogOrFail, RecordsStay
<1>3. ASSUME NEW p \in Participants PROVE ReasonMoves(p)
  <2>1. CASE UNCHANGED participant
    BY <2>1 DEF ReasonMoves
  <2>2. ASSUME NEW q \in Participants, AddParticipant(q) PROVE ReasonMoves(p)
    BY <2>2 DEF AddParticipant, ReasonMoves
  <2>3. ASSUME NEW b \in BindCalls, BindUpdate(b) PROVE ReasonMoves(p)
    BY <2>3 DEF BindUpdate, ReasonMoves
  <2>4. ASSUME NEW b \in BindCalls, BindStep(b) \/ BindAbort(b) PROVE ReasonMoves(p)
    BY <2>1, <2>3, <2>4 DEF BindStep, BindGet, BindFindDevice, BindDelete, BindLog, BindAbort
  <2> QED
    BY <2>1, <2>2, <2>4 DEF Meeting, MeetingServiceNext, Create, IssueJoinToken
<1> QED
  BY <1>1, <1>2, <1>3 DEF Moves, JudgingMoves, FailingMoves

LEMMA RestartMoves ==
  ASSUME Typed, HubRestart
  PROVE  Moves
<1>1. UNCHANGED <<participant, challenge, token, audit>>
  BY DEF HubRestart
<1>2. ASSUME NEW v \in VerifyCalls PROVE JudgingMoves(v)
  <2>1. verify[v].pc \in VerifyPc
    BY DEF Typed, TypeOK, ChallengeServiceTypeOK, VerifyRecord
  <2>2. CASE verify[v].pc \in {"idle", "done", "rejected"}
    BY <2>2 DEF HubRestart, JudgingMoves
  <2>3. CASE verify[v].pc = "aborted"
    <3>1. verify'[v] = [verify[v] EXCEPT !.pc = "aborted"]
      BY <2>3 DEF HubRestart
    <3>2. verify'[v] = verify[v]
      BY <2>3, <3>1 DEF Typed, TypeOK, ChallengeServiceTypeOK, VerifyRecord
    <3> QED
      BY <3>2 DEF JudgingMoves
  <2>4. CASE verify[v].pc \in {"fetched", "checked", "deleted", "judged"}
    BY <2>4 DEF HubRestart, JudgingMoves
  <2> QED
    BY <2>1, <2>2, <2>3, <2>4 DEF VerifyPc
<1>3. ASSUME NEW i \in IssueCalls PROVE FailingMoves(i)
  BY DEF HubRestart, FailingMoves
<1> QED
  BY <1>1, <1>2, <1>3 DEF Moves, RecordsStay, ReasonMoves

LEMMA CallsMove ==
  ASSUME Typed, [Next]_vars
  PROVE  Moves
<1>1. CASE Clock
  BY <1>1, MovesElsewhere DEF Clock, Tick
<1>2. CASE Challenging
  BY <1>2, IssueMoves, VerifyingMoves DEF Challenging, ChallengeServiceNext
<1>3. CASE Meeting
  BY <1>3, MeetingMoves
<1>4. CASE Enrolling
  BY <1>4, MovesElsewhere
  DEF Enrolling, DeviceServiceNext, EnrollStep, EnrollFind, EnrollWrite, EnrollLog,
      EnrollAbort, Revoke, Log
<1>5. CASE Agents
  BY <1>5, MovesElsewhere
  DEF Agents, CompanionNext, CompanionStep, AgentStart, AgentAnswer, AgentSignBinding,
      AgentEnrolled, AgentConnect, AgentDisconnect, AgentStop, AgentHeartbeat, Heartbeat
<1>6. CASE HubRestart
  BY <1>6, RestartMoves
<1>7. CASE UNCHANGED vars
  BY <1>7, MovesElsewhere DEF vars
<1>8. \/ Clock \/ Challenging \/ Meeting \/ Enrolling \/ Agents
      \/ HubRestart \/ UNCHANGED vars
  BY Zenon DEF Next
<1> QED
  BY <1>1, <1>2, <1>3, <1>4, <1>5, <1>6, <1>7, <1>8

-----------------------------------------------------------------------------
(* What a stored verdict rests on *)

\* Everything a call saw on which a VERIFIED verdict of the policy rests.
Grounds(v) ==
  LET r == verify[v].response
      row == verify[v].row IN
  /\ AgentIdentity[r.device] = IdentityOf[challenge[r.challenge].participant]
  /\ r.key = row.key
  /\ row.status = "ACTIVE"
  /\ verify[v].at <= row.heartbeat + StaleAfter
  /\ verify[v].at <= ExpiresAt(r.challenge)

(***************************************************************************)
(* A call keeps what it saw for as long as it lives, and rows, keys and    *)
(* time move on.  Founded is about the call's own record: until the policy *)
(* engine is asked it has no verdict, and from then on the verdict has its *)
(* grounds.                                                                *)
(***************************************************************************)
Founded(v) ==
  /\ verify[v].at <= now
  /\ verify[v].pc \notin {"idle", "rejected"} =>
       verify[v].response.device = challenge[verify[v].response.challenge].device
  /\ verify[v].pc \in {"idle", "fetched", "checked", "rejected"} =>
       verify[v].verdict.status # "VERIFIED"
  /\ verify[v].verdict.status = "VERIFIED" <=> verify[v].verdict.reason = "verified"
  /\ verify[v].verdict.reason # "no_device"
  /\ verify[v].verdict.status = "VERIFIED" => Grounds(v)

AllFounded == \A v \in VerifyCalls : Founded(v)

LEMMA FoundedNext ==
  ASSUME Typed, [Next]_vars, NEW v \in VerifyCalls, Founded(v)
  PROVE  Founded(v)'
<1>1. Typed' /\ Moves /\ now <= now' /\ now \in Nat /\ now' \in Nat
  BY TypedNext, CallsMove, TimeGoesOn
<1>2. JudgingMoves(v)
  BY <1>1 DEF Moves
<1>3. /\ verify[v] \in VerifyRecord /\ verify'[v] \in VerifyRecord
      /\ verify[v].at \in Nat
  BY <1>1 DEF Typed, TypeOK, ChallengeServiceTypeOK, VerifyRecord
<1>4. ASSUME verify[v].pc # "idle"
      PROVE  /\ verify[v].response \in Response
             /\ challenge[verify[v].response.challenge] \in ChallengeData
             /\ challenge'[verify[v].response.challenge] = challenge[verify[v].response.challenge]
  BY <1>1, <1>4, UnissuedIsNoRecord DEF Typed, References, VerifyRefs, Moves, RecordsStay, Response
<1>5. ASSUME verify'[v].response = verify[v].response, verify'[v].row = verify[v].row,
             verify'[v].at = verify[v].at, verify[v].pc # "idle", Grounds(v)
      PROVE  Grounds(v)'
  BY <1>4, <1>5 DEF Grounds, ExpiresAt
\* The call goes on, or not, with its verdict and all it is founded on.
<1>6. ASSUME verify'[v].response = verify[v].response, verify'[v].at = verify[v].at,
             verify'[v].row = verify[v].row, verify'[v].verdict = verify[v].verdict,
             \/ verify'[v].pc = verify[v].pc
             \/ verify[v].pc # "idle" /\ verify'[v].pc \in {"judged", "done", "aborted"}
                  /\ verify[v].pc # "rejected"
      PROVE  Founded(v)'
  <2>1. verify'[v].at <= now'
    BY <1>1, <1>3, <1>6 DEF Founded
  <2>2. verify'[v].pc \notin {"idle", "rejected"} =>
          verify'[v].response.device = challenge'[verify'[v].response.challenge].device
    BY <1>4, <1>6 DEF Founded
  <2>3. ASSUME verify'[v].verdict.status = "VERIFIED" PROVE Grounds(v)'
    BY <1>5, <1>6, <2>3 DEF Founded
  <2> QED
    BY <1>6, <2>1, <2>2, <2>3 DEF Founded
<1>7. CASE /\ verify[v].pc = "idle" /\ verify'[v].pc \in {"fetched", "rejected"}
           /\ verify'[v].at = now /\ verify'[v].verdict = verify[v].verdict
           /\ verify'[v].response \in responses
           /\ verify'[v].pc = "fetched" =>
                challenge[verify'[v].response.challenge].device = verify'[v].response.device
  <2>1. challenge'[verify'[v].response.challenge] = challenge[verify'[v].response.challenge]
    BY <1>1, <1>7, UnissuedIsNoRecord
    DEF Typed, TypeOK, GatewayTypeOK, Response, References, MessageRefs, Moves, RecordsStay
  <2> QED
    BY <1>1, <1>7, <2>1 DEF Founded
<1>8. CASE /\ verify[v].pc = "fetched" /\ verify'[v].pc \in {"checked", "rejected"}
           /\ verify'[v].response = verify[v].response /\ verify'[v].at = verify[v].at
           /\ verify'[v].verdict = verify[v].verdict
  <2>1. verify'[v].at <= now'
    BY <1>1, <1>3, <1>8 DEF Founded
  <2> QED
    BY <1>4, <1>8, <2>1 DEF Founded
<1>9. CASE /\ verify[v].pc = "checked"
           /\ verify'[v] = [verify[v] EXCEPT !.pc = "deleted", !.verdict = Judgement(verify[v])]
  <2> DEFINE r == verify[v].response
             row == verify[v].row
             j == Judgement(verify[v])
  <2>1. /\ verify'[v].response = r /\ verify'[v].row = row /\ verify'[v].at = verify[v].at
        /\ verify'[v].pc = "deleted" /\ verify'[v].verdict = j
    BY <1>3, <1>9 DEF VerifyRecord
  <2>2. /\ row.heartbeat \in Nat
        /\ ExpiresAt(r.challenge) \in Nat
    BY <1>3, <1>4, <1>9, TimesAreNaturals
    DEF VerifyRecord, DeviceRow, ExpiresAt, ChallengeData
  <2>3. SignatureValid(r, row) \in BOOLEAN /\ ExpiredAt(r.challenge, verify[v].at) \in BOOLEAN
    BY DEF SignatureValid, ExpiredAt
  <2>4. /\ j.status = "VERIFIED" <=> j.reason = "verified"
        /\ j.reason # "no_device"
        /\ j.status = "VERIFIED" =>
             /\ row.status = "ACTIVE" /\ SignatureValid(r, row)
             /\ ~ExpiredAt(r.challenge, verify[v].at) /\ now <= row.heartbeat + StaleAfter
    <3> DEFINE valid == SignatureValid(r, row)
               expired == ExpiredAt(r.challenge, verify[v].at)
    <3>1. j = Evaluate(row.status, row.heartbeat, valid, expired, TRUE, now)
      BY DEF Judgement
    <3>2. valid \in BOOLEAN /\ expired \in BOOLEAN
      BY <2>3
    <3> HIDE DEF valid, expired, j
    <3>3. /\ j.status = "VERIFIED" <=> j.reason = "verified"
          /\ j.reason # "no_device"
          /\ j.status = "VERIFIED" =>
               row.status = "ACTIVE" /\ valid /\ ~expired /\ now <= row.heartbeat + StaleAfter
      BY <1>1, <2>2, <3>1, <3>2, StaleAfterIsATime DEF Evaluate, Verdict, IsStale
    <3> QED
      BY <3>3 DEF valid, expired
  <2> HIDE DEF j
  <2>5. verify'[v].at <= now'
    BY <1>1, <1>3, <2>1 DEF Founded
  <2>6. ASSUME j.status = "VERIFIED" PROVE Grounds(v)
    <3>1. verify[v].at <= now /\ now <= row.heartbeat + StaleAfter
      BY <2>4, <2>6 DEF Founded
    <3>2. verify[v].at <= row.heartbeat + StaleAfter
      BY <1>1, <1>3, <2>2, <3>1, StaleAfterIsATime
    <3>3. verify[v].at <= ExpiresAt(r.challenge)
      BY <1>3, <2>2, <2>4, <2>6 DEF ExpiredAt
    <3> QED
      BY <2>4, <2>6, <3>2, <3>3 DEF Grounds, SignatureValid
  <2>7. ASSUME verify'[v].verdict.status = "VERIFIED" PROVE Grounds(v)'
    BY <1>5, <1>9, <2>1, <2>6, <2>7
  <2>8. verify'[v].response.device = challenge'[verify'[v].response.challenge].device
    BY <1>4, <1>9, <2>1 DEF Founded
  <2> QED
    BY <2>1, <2>4, <2>5, <2>7, <2>8 DEF Founded
<1>10. ASSUME NEW pc \in {"aborted", "judged", "done"},
              verify[v].pc \in {"fetched", "checked", "deleted", "judged"},
              verify'[v] = [verify[v] EXCEPT !.pc = pc]
       PROVE  Founded(v)'
  <2>1. /\ verify'[v].response = verify[v].response /\ verify'[v].row = verify[v].row
        /\ verify'[v].at = verify[v].at /\ verify'[v].verdict = verify[v].verdict
        /\ verify'[v].pc = pc
    BY <1>3, <1>10 DEF VerifyRecord
  <2> QED
    BY <1>6, <1>10, <2>1
<1> QED
  BY <1>2, <1>6, <1>7, <1>8, <1>9, <1>10 DEF JudgingMoves
LEMMA FoundedAlways == Spec => [](Typed /\ AllFounded)
<1>1. Init => Typed /\ AllFounded
  <2>1. Init => AllFounded
    BY DEF Init, ChallengeServiceInit, IdleVerify, Verdict, AllFounded, Founded
  <2> QED
    BY <2>1, TypedInit
<1>2. Typed /\ AllFounded /\ [Next]_vars => (Typed /\ AllFounded)'
  BY TypedNext, FoundedNext DEF AllFounded
<1> QED
  BY <1>1, <1>2, PTL DEF Spec

\* The rows and the calls together: who is shown as verified by a challenge was
\* judged so by a call, which has all it found on record for ever.
LEMMA EarnedNext ==
  ASSUME Typed, AllFounded, ChallengeVerdictIsEarned, [Next]_vars
  PROVE  ChallengeVerdictIsEarned'
<1>1. Typed' /\ AllFounded' /\ Moves
  BY TypedNext, FoundedNext, CallsMove DEF AllFounded
<1>2. ASSUME NEW v \in VerifyCalls, verify[v].pc # "idle"
      PROVE  /\ verify[v].response.challenge \in Challenges
             /\ challenge'[verify[v].response.challenge] = challenge[verify[v].response.challenge]
  BY <1>1, <1>2, UnissuedIsNoRecord DEF Typed, References, VerifyRefs, Moves, RecordsStay, Response
<1>3. ASSUME NEW p \in Participants, NEW v \in VerifyCalls, Passing(v, p)
      PROVE  Passing(v, p)'
  <2>1. verify[v].pc \in {"judged", "done", "aborted"}
    BY <1>3 DEF Passing
  <2>2. /\ verify'[v].response = verify[v].response /\ verify'[v].row = verify[v].row
        /\ verify'[v].at = verify[v].at /\ verify'[v].verdict = verify[v].verdict
        /\ verify'[v].pc \in {"judged", "done", "aborted"}
    BY <1>1, <2>1 DEF Moves, JudgingMoves, Typed, TypeOK, ChallengeServiceTypeOK, VerifyRecord
  <2> QED
    BY <1>2, <1>3, <2>1, <2>2 DEF Passing, Subject, ExpiresAt
<1>4. ASSUME NEW p \in Participants, NEW v \in VerifyCalls,
             verify[v].pc = "deleted", verify'[v] = [verify[v] EXCEPT !.pc = "judged"],
             Subject(v) = p, verify[v].verdict.reason = "verified"
      PROVE  Passing(v, p)'
  <2>1. /\ verify'[v].response = verify[v].response /\ verify'[v].row = verify[v].row
        /\ verify'[v].at = verify[v].at /\ verify'[v].verdict = verify[v].verdict
        /\ verify'[v].pc = "judged"
    BY <1>4 DEF Typed, TypeOK, ChallengeServiceTypeOK, VerifyRecord
  <2>2. Founded(v)
    BY DEF AllFounded
  <2>3. Grounds(v) /\ verify[v].verdict.status = "VERIFIED"
    BY <1>4, <2>2 DEF Founded
  <2>4. verify[v].response.device = challenge[verify[v].response.challenge].device
    BY <1>4, <2>2 DEF Founded
  <2> QED
    BY <1>2, <1>4, <2>1, <2>3, <2>4 DEF Passing, Grounds, Subject, ExpiresAt
<1>5. ASSUME NEW p \in Participants, participant'[p].reason = "verified"
      PROVE  \E v \in VerifyCalls : Passing(v, p)'
  <2>1. ReasonMoves(p)
    BY <1>1 DEF Moves
  <2>2. CASE participant[p].reason = "verified"
    BY <1>3, <2>2 DEF ChallengeVerdictIsEarned
  <2> QED
    BY <1>4, <1>5, <2>1, <2>2 DEF ReasonMoves
<1> QED
  BY <1>5 DEF ChallengeVerdictIsEarned

\* Whoever is shown as verified by a challenge earned it: a call of
\* verifyResponse fetched that participant's challenge before it expired, found
\* the answer signed by an agent of the participant's own user, on the device
\* challenged and with the key on record, and the device active and heard of
\* recently enough, although rows, keys and time move between its awaits.
THEOREM VerifiedIsEarned == Spec => []ChallengeVerdictIsEarned
<1>1. Init => ChallengeVerdictIsEarned
  <2> SUFFICES ASSUME Init, NEW p \in Participants PROVE participant[p].reason # "verified"
    BY DEF ChallengeVerdictIsEarned
  <2>1. participant[p] = Row0(p)
    BY DEF Init
  <2> QED
    BY <2>1 DEF Row0
<1>2. Typed /\ AllFounded /\ ChallengeVerdictIsEarned /\ [Next]_vars => ChallengeVerdictIsEarned'
  BY EarnedNext
<1> QED
  BY <1>1, <1>2, FoundedAlways, PTL DEF Spec
(***************************************************************************)
(* VerdictIsAudited is not inductive: it lets the log be pending for any   *)
(* verdict, while only the event of the very reason in the row keeps it    *)
(* true once written.  AccountedFor says which call stored the reason.     *)
(***************************************************************************)
OwedByVerify(p) == \E v \in VerifyCalls :
  /\ verify[v].pc = "judged" /\ Subject(v) = p
  /\ verify[v].verdict.reason = participant[p].reason

OwedByIssue(p) == \E i \in IssueCalls :
  /\ issue[i].pc = "failing" /\ issue[i].current = p
  /\ participant[p].reason = "no_device"

Logged(p) == \E e \in audit : e.type = AuditTypeOf(participant[p].reason) /\ e.subject = p

AccountedFor == \A p \in Participants :
  participant[p].reason \notin {"none", "bound"} =>
    OwedByVerify(p) \/ OwedByIssue(p) \/ CutOff(p) \/ Logged(p)

LEMMA AccountedNext ==
  ASSUME Typed, AllFounded, AccountedFor, [Next]_vars
  PROVE  AccountedFor'
<1>1. Typed' /\ Moves
  BY TypedNext, CallsMove
<1>2. ASSUME NEW v \in VerifyCalls, verify[v].pc # "idle",
             verify'[v].response = verify[v].response
      PROVE  Subject(v)' = Subject(v)
  BY <1>1, <1>2, UnissuedIsNoRecord
  DEF Typed, References, VerifyRefs, Moves, RecordsStay, Response, Subject
<1>3. SUFFICES ASSUME NEW p \in Participants, participant'[p].reason \notin {"none", "bound"}
               PROVE  (OwedByVerify(p) \/ OwedByIssue(p) \/ CutOff(p) \/ Logged(p))'
  BY DEF AccountedFor
<1>4. ASSUME CutOff(p) PROVE CutOff(p)'
  <2>1. ASSUME NEW v \in VerifyCalls, verify[v].pc = "aborted", Subject(v) = p
        PROVE  verify'[v].pc = "aborted" /\ Subject(v)' = p
    BY <1>1, <1>2, <2>1 DEF Moves, JudgingMoves
  <2>2. ASSUME NEW i \in IssueCalls, issue[i].pc = "aborted"
        PROVE  issue'[i].pc = "aborted" /\ issue'[i].current = issue[i].current
    BY <1>1, <2>2 DEF Moves, FailingMoves, Typed, TypeOK, ChallengeServiceTypeOK, IssueRecord
  <2> QED
    BY <1>4, <2>1, <2>2 DEF CutOff
<1>5. CASE participant'[p].reason = participant[p].reason
  <2>1. CASE Logged(p)
    BY <1>1, <1>5, <2>1 DEF Logged, Moves, RecordsStay
  <2>2. ASSUME NEW v \in VerifyCalls, verify[v].pc = "judged", Subject(v) = p,
               verify[v].verdict.reason = participant[p].reason
        PROVE  (OwedByVerify(p) \/ CutOff(p) \/ Logged(p))'
    <3>1. CASE verify'[v] = verify[v]
      BY <1>2, <1>5, <2>2, <3>1 DEF OwedByVerify
    <3>2. CASE verify'[v] = [verify[v] EXCEPT !.pc = "aborted"]
      <4>1. verify'[v].pc = "aborted" /\ verify'[v].response = verify[v].response
        BY <3>2 DEF Typed, TypeOK, ChallengeServiceTypeOK, VerifyRecord
      <4> QED
        BY <1>2, <2>2, <4>1 DEF CutOff
    <3>3. CASE VerdictEvent(v) \in audit'
      <4>1. Founded(v)
        BY DEF AllFounded
      <4>2. VerdictEvent(v).type = AuditTypeOf(participant'[p].reason)
        BY <1>5, <2>2, <4>1 DEF VerdictEvent, Event, AuditTypeOf, Founded
      <4>3. VerdictEvent(v).subject = p
        BY <2>2 DEF VerdictEvent, Event
      <4> QED
        BY <3>3, <4>2, <4>3 DEF Logged
    <3> QED
      BY <1>1, <2>2, <3>1, <3>2, <3>3 DEF Moves, JudgingMoves
  <2>3. ASSUME NEW i \in IssueCalls, issue[i].pc = "failing", issue[i].current = p,
               participant[p].reason = "no_device"
        PROVE  (OwedByIssue(p) \/ CutOff(p) \/ Logged(p))'
    <3>1. CASE issue'[i] = issue[i]
      BY <1>5, <2>3, <3>1 DEF OwedByIssue
    <3>2. CASE issue'[i] = [issue[i] EXCEPT !.pc = "aborted"]
      <4>1. issue'[i].pc = "aborted" /\ issue'[i].current = p
        BY <2>3, <3>2 DEF Typed, TypeOK, ChallengeServiceTypeOK, IssueRecord
      <4> QED
        BY <4>1 DEF CutOff
    <3>3. CASE Event("CHALLENGE_NO_DEVICE", p, NoDevice) \in audit'
      BY <1>5, <2>3, <3>3 DEF Event, AuditTypeOf, Logged
    <3> QED
      BY <1>1, <2>3, <3>1, <3>2, <3>3 DEF Moves, FailingMoves
  <2> QED
    BY <1>3, <1>4, <1>5, <2>1, <2>2, <2>3 DEF AccountedFor, OwedByVerify, OwedByIssue
<1>6. ASSUME participant'[p].reason = "no_device",
             \E i \in IssueCalls : issue'[i].pc = "failing" /\ issue'[i].current = p
      PROVE  OwedByIssue(p)'
  BY <1>6 DEF OwedByIssue
<1>7. ASSUME NEW v \in VerifyCalls,
             verify[v].pc = "deleted", verify'[v] = [verify[v] EXCEPT !.pc = "judged"],
             Subject(v) = p, participant'[p].reason = verify[v].verdict.reason
      PROVE  OwedByVerify(p)'
  <2>1. /\ verify'[v].pc = "judged" /\ verify'[v].response = verify[v].response
        /\ verify'[v].verdict = verify[v].verdict
    BY <1>7 DEF Typed, TypeOK, ChallengeServiceTypeOK, VerifyRecord
  <2> QED
    BY <1>2, <1>7, <2>1 DEF OwedByVerify
<1> QED
  BY <1>1, <1>3, <1>5, <1>6, <1>7 DEF Moves, ReasonMoves

\* The status a round leaves behind is in the audit log or about to be,
\* whichever handlers wrote the row last and however their writes and events
\* interleave, unless one that may have written it was cut off.
THEOREM StatusIsAudited == Spec => []VerdictIsAudited
<1>1. Init => AccountedFor
  <2> SUFFICES ASSUME Init, NEW p \in Participants
               PROVE  participant[p].reason \in {"none", "bound"}
    BY DEF AccountedFor
  <2>1. participant[p] = Row0(p)
    BY DEF Init
  <2> QED
    BY <2>1 DEF Row0
<1>2. Typed /\ AllFounded /\ AccountedFor /\ [Next]_vars => AccountedFor'
  BY AccountedNext
<1>3. AccountedFor => VerdictIsAudited
  BY DEF AccountedFor, VerdictIsAudited, OwedByVerify, OwedByIssue, Logged, LogPending
<1> QED
  BY <1>1, <1>2, <1>3, FoundedAlways, PTL DEF Spec
=============================================================================
