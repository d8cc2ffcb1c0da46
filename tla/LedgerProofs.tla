---------------------------- MODULE LedgerProofs ----------------------------
(***************************************************************************)
(* The Hub implements TrustLedger, for every value of the constants: each  *)
(* step of a handler is a step of the ledger or leaves it alone.  The      *)
(* invariants of VerdictProofs make two steps fit: a challenge is issued   *)
(* to a bound participant, and an outcome is for one.                      *)
(***************************************************************************)
EXTENDS VerdictProofs

USE DEF storeVars, gatewayVars, meetingServiceVars, deviceServiceVars, challengeServiceVars

LedgerNext == [Ledger!Next]_(Ledger!ledgerVars)

-----------------------------------------------------------------------------
(* What the ledger sees of the state *)

LEMMA RowsSeen ==
  ASSUME UNCHANGED participant
  PROVE  UNCHANGED <<BoundParticipants, Shown>>
  BY DEF BoundParticipants, Shown, Bound

\* A status is stored for p, a bound participant or not.
LEMMA StatusSeen ==
  ASSUME Typed, NEW p \in Participants, NEW verdict, SetStatus(p, verdict)
  PROVE  /\ UNCHANGED BoundParticipants
         /\ Shown' = [Shown EXCEPT ![p] = verdict.status]
<1>1. participant \in [Participants -> ParticipantRow]
  BY DEF Typed, TypeOK, StoreTypeOK
<1>2. \A q \in Participants :
        /\ participant'[q].device = participant[q].device
        /\ participant'[q].status = IF q = p THEN verdict.status ELSE participant[q].status
  BY <1>1 DEF SetStatus, ParticipantRow
<1> QED
  BY <1>2 DEF BoundParticipants, Bound, Shown

LEMMA KeysSeen ==
  ASSUME UNCHANGED challenge, \A c \in Challenges : c \in redis <=> c \in redis'
  PROVE  UNCHANGED <<Phase, ChallengedParticipant>>
<1>1. UNCHANGED Phase
  BY DEF Phase
<1>2. UNCHANGED ChallengedParticipant
  BY DEF ChallengedParticipant
<1> QED
  BY <1>1, <1>2

\* Keys go: challenges are closed.
LEMMA ClosingSeen ==
  ASSUME UNCHANGED challenge, redis' \subseteq redis,
         UNCHANGED <<BoundParticipants, Shown, Begun, Trying>>
  PROVE  Ledger!Close
<1>1. UNCHANGED ChallengedParticipant
  BY DEF ChallengedParticipant
<1>2. Phase' \in [Challenges -> {"unissued", "open", "closed"}]
  BY DEF Phase
<1>3. ASSUME NEW c \in Challenges, Phase'[c] # Phase[c]
      PROVE  Phase[c] = "open" /\ Phase'[c] = "closed"
  BY <1>3 DEF Phase
<1> QED
  BY <1>1, <1>2, <1>3 DEF Ledger!Close

LEMMA CallsSeen ==
  ASSUME UNCHANGED verify
  PROVE  UNCHANGED <<Begun, Trying>>
<1>1. UNCHANGED Begun
  BY DEF Begun
<1>2. UNCHANGED Trying
  BY DEF Trying
<1> QED
  BY <1>1, <1>2

LEMMA TryingPairs ==
  /\ \A u \in VerifyCalls, c \in Challenges :
       <<u, c>> \in Trying <=> verify[u].pc \in InProgress /\ verify[u].response.challenge = c
  /\ \A u \in VerifyCalls, c \in Challenges :
       <<u, c>> \in Trying' <=> verify'[u].pc \in InProgress /\ verify'[u].response.challenge = c
  /\ \A x \in Trying : x = <<x[1], x[2]>> /\ x[1] \in VerifyCalls /\ x[2] \in Challenges
  /\ \A x \in Trying' : x = <<x[1], x[2]>> /\ x[1] \in VerifyCalls /\ x[2] \in Challenges
  BY DEF Trying

\* A call goes on without an outcome.
LEMMA CallGoesOn ==
  ASSUME Typed, NEW v \in VerifyCalls, verify[v].pc # "idle", verify'[v].pc # "idle",
         verify'[v].response = verify[v].response,
         \A u \in VerifyCalls \ {v} : verify'[u] = verify[u],
         verify'[v].pc \in InProgress => verify[v].pc \in InProgress
  PROVE  /\ UNCHANGED Begun
         /\ Trying' = IF verify'[v].pc \in InProgress THEN Trying
                      ELSE Trying \ {<<v, verify[v].response.challenge>>}
<1>1. UNCHANGED Begun
  BY DEF Begun
<1>2. Trying' = IF verify'[v].pc \in InProgress THEN Trying
                ELSE Trying \ {<<v, verify[v].response.challenge>>}
  BY TryingPairs
<1> QED
  BY <1>1, <1>2

\* A step of the handlers the ledger does not see.
LEMMA Unseen ==
  ASSUME UNCHANGED <<participant, challenge, verify>>,
         \A c \in Challenges : c \in redis <=> c \in redis'
  PROVE  LedgerNext
  BY RowsSeen, KeysSeen, CallsSeen DEF LedgerNext, Ledger!ledgerVars

LEMMA LedgerInit == Init => Ledger!Init
  BY StartIsReachable
  DEF Init, Row0, ChallengeServiceInit, IdleVerify, InProgress, TrustStatus, BoundParticipants,
      Shown, Phase, ChallengedParticipant, Begun, Trying, Ledger!Init
-----------------------------------------------------------------------------
(* Steps *)

LEMMA LedgerIssuing ==
  ASSUME Typed, Backed, NEW i \in IssueCalls,
         (\E m \in Meetings : IssueRead(i, m)) \/ IssueStep(i) \/ IssueAbort(i)
  PROVE  LedgerNext
<1>1. ASSUME NEW p \in Participants, IssueNoDevice(i, p) PROVE LedgerNext
  <2>1. UNCHANGED BoundParticipants /\ Shown' = [Shown EXCEPT ![p] = "FAILED"]
    <3>1. SetStatus(p, Verdict("FAILED", "no_device"))
      BY <1>1 DEF IssueNoDevice
    <3>2. Verdict("FAILED", "no_device").status = "FAILED"
      BY DEF Verdict
    <3> QED
      BY <3>1, <3>2, StatusSeen
  <2>2. UNCHANGED <<Phase, ChallengedParticipant, Begun, Trying>>
    BY <1>1, KeysSeen, CallsSeen DEF IssueNoDevice
  <2>3. Ledger!FailUnbound(p)
    BY <2>1, <2>2 DEF Ledger!FailUnbound
  <2> QED
    BY <2>3 DEF LedgerNext, Ledger!Next
<1>2. ASSUME NEW p \in Participants, NEW d \in Devices, NEW c \in Challenges,
             IssueStore(i, p, d, c)
      PROVE  LedgerNext
  <2> DEFINE data == [participant |-> p, device |-> d, issuedAt |-> now]
  <2>1. data # Unissued /\ data.participant = p
    BY UnissuedIsNoRecord DEF Typed, TypeOK, StoreTypeOK, ChallengeData
  <2>2. /\ challenge \in [Challenges -> ChallengeData \union {Unissued}]
        /\ challenge[c] = Unissued /\ challenge' = [challenge EXCEPT ![c] = data]
        /\ redis' = redis \union {c}
    BY <1>2 DEF IssueStore, Typed, TypeOK, StoreTypeOK
  <2> HIDE DEF data
  <2>3. Phase[c] = "unissued" /\ Phase' = [Phase EXCEPT ![c] = "open"]
    BY <2>1, <2>2 DEF Phase
  <2>4. ChallengedParticipant' = [ChallengedParticipant EXCEPT ![c] = p]
    BY <2>1, <2>2 DEF ChallengedParticipant
  <2>5. p \in BoundParticipants
    <3>1. <<p, d>> \in issue[i].todo /\ <<p, d>>[1] = p /\ <<p, d>>[2] # NoDevice
      BY <1>2, IdsAreDistinct DEF IssueStore
    <3> QED
      BY <3>1 DEF Backed, SnapshotsAreOfBound, BoundParticipants
  <2>6. UNCHANGED <<BoundParticipants, Shown, Begun, Trying>>
    BY <1>2, RowsSeen, CallsSeen DEF IssueStore
  <2>7. Ledger!Issue(c, p)
    BY <2>3, <2>4, <2>5, <2>6 DEF Ledger!Issue
  <2> QED
    BY <2>7 DEF LedgerNext, Ledger!Next
<1>3. ASSUME NEW m \in Meetings, IssueRead(i, m) PROVE LedgerNext
  BY <1>3, Unseen DEF IssueRead
<1>4. CASE IssueNoDeviceLog(i) \/ IssueEmit(i) \/ IssueLog(i) \/ IssueAbort(i)
  BY <1>4, Unseen DEF IssueNoDeviceLog, IssueEmit, IssueLog, IssueAbort
<1> QED
  BY <1>1, <1>2, <1>3, <1>4 DEF IssueStep

\* Attempts that come to nothing.
LEMMA GivingUp ==
  ASSUME UNCHANGED <<participant, challenge, redis>>, Begun \subseteq Begun',
         Trying' \subseteq Trying
  PROVE  LedgerNext
<1>1. Begun' \subseteq VerifyCalls
  BY DEF Begun
<1>2. UNCHANGED <<BoundParticipants, Shown, Phase, ChallengedParticipant>>
  BY RowsSeen, KeysSeen
<1>3. Ledger!GiveUp
  BY <1>1, <1>2 DEF Ledger!GiveUp
<1> QED
  BY <1>3 DEF LedgerNext, Ledger!Next

LEMMA LedgerGet ==
  ASSUME Typed, NEW v \in VerifyCalls, NEW r \in responses, VerifyGet(v, r)
  PROVE  LedgerNext
<1> DEFINE c == r.challenge
<1>1. c \in Challenges /\ challenge[c] \in ChallengeData
  BY DEF Typed, TypeOK, GatewayTypeOK, Response, References, MessageRefs
<1>2. /\ verify[v].pc = "idle" /\ verify'[v].response.challenge = c
      /\ \A u \in VerifyCalls \ {v} : verify'[u] = verify[u]
      /\ \/ verify'[v].pc = "fetched" /\ c \in redis
         \/ verify'[v].pc = "rejected"
      /\ UNCHANGED <<participant, challenge, redis>>
  BY DEF VerifyGet, Typed, TypeOK, ChallengeServiceTypeOK, VerifyRecord
<1> HIDE DEF c
<1>3. Begun' = Begun \union {v} /\ v \notin Begun
  BY <1>2 DEF Begun
<1>4. CASE verify'[v].pc = "fetched" /\ c \in redis
  <2>1. Trying' = Trying \union {<<v, c>>}
    BY <1>1, <1>2, <1>4, TryingPairs DEF InProgress
  <2>2. Phase[c] = "open"
    BY <1>1, <1>4, UnissuedIsNoRecord DEF Phase
  <2>3. UNCHANGED <<BoundParticipants, Shown, Phase, ChallengedParticipant>>
    BY <1>2, RowsSeen, KeysSeen
  <2>4. Ledger!Begin(v, c)
    BY <1>3, <2>1, <2>2, <2>3 DEF Ledger!Begin
  <2> QED
    BY <1>1, <2>4 DEF LedgerNext, Ledger!Next
<1>5. CASE verify'[v].pc = "rejected"
  <2>1. Trying' \subseteq Trying
    BY <1>2, <1>5, TryingPairs DEF InProgress
  <2> QED
    BY <1>2, <1>3, <2>1, GivingUp
<1> QED
  BY <1>2, <1>4, <1>5

LEMMA LedgerUpdate ==
  ASSUME Typed, Backed, NEW v \in VerifyCalls, VerifyUpdate(v)
  PROVE  LedgerNext
<1> DEFINE c == verify[v].response.challenge
           p == challenge[c].participant
           status == verify[v].verdict.status
<1>1. /\ c \in Challenges /\ challenge[c] \in ChallengeData /\ p \in Participants
      /\ challenge[c] # Unissued
  BY UnissuedIsNoRecord
  DEF VerifyUpdate, Typed, References, VerifyRefs, Response, ChallengeData
<1>2. status \in TrustStatus
  BY DEF Typed, TypeOK, ChallengeServiceTypeOK, VerifyRecord
<1>3. /\ verify[v].pc = "deleted" /\ verify'[v].pc = "judged"
      /\ verify'[v].response = verify[v].response
      /\ \A u \in VerifyCalls \ {v} : verify'[u] = verify[u]
  BY DEF VerifyUpdate, Typed, TypeOK, ChallengeServiceTypeOK, VerifyRecord
<1>4. UNCHANGED BoundParticipants /\ Shown' = [Shown EXCEPT ![p] = status]
  BY <1>1, StatusSeen DEF VerifyUpdate
<1>5. UNCHANGED <<Phase, ChallengedParticipant>>
  BY KeysSeen DEF VerifyUpdate
<1>6. ChallengedParticipant[c] = p /\ p \in BoundParticipants
  BY <1>1 DEF ChallengedParticipant, BoundParticipants, Backed, ChallengesAreForBound
<1>7. <<v, c>> \in Trying
  BY <1>1, <1>3, TryingPairs DEF InProgress
<1>8. UNCHANGED Begun /\ Trying' = Trying \ {<<v, c>>}
  BY <1>3, CallGoesOn DEF InProgress
<1> HIDE DEF c, p, status
<1>9. Ledger!Judge(v, c, status)
  BY <1>4, <1>5, <1>6, <1>7, <1>8 DEF Ledger!Judge
<1> QED
  BY <1>1, <1>2, <1>9 DEF LedgerNext, Ledger!Next

LEMMA LedgerVerifying ==
  ASSUME Typed, Backed, NEW v \in VerifyCalls, VerifyStep(v) \/ VerifyAbort(v)
  PROVE  LedgerNext
<1> USE DEF Typed, TypeOK, ChallengeServiceTypeOK, VerifyRecord
<1>1. CASE VerifyFindDevice(v) \/ VerifyLog(v) \/ VerifyAbort(v)
  <2>1. /\ verify[v].pc # "idle" /\ verify'[v].pc # "idle"
        /\ verify'[v].response = verify[v].response
        /\ \A u \in VerifyCalls \ {v} : verify'[u] = verify[u]
        /\ verify'[v].pc \in InProgress => verify[v].pc \in InProgress
    BY <1>1 DEF VerifyFindDevice, VerifyLog, VerifyAbort, InProgress
  <2>2. Begun' = Begun /\ Trying' \subseteq Trying
    BY <2>1, CallGoesOn
  <2> QED
    BY <1>1, <2>2, GivingUp DEF VerifyFindDevice, VerifyLog, VerifyAbort
<1>2. CASE VerifyDelete(v)
  <2>1. /\ verify[v].pc = "checked" /\ verify'[v].pc = "deleted"
        /\ verify'[v].response = verify[v].response
        /\ \A u \in VerifyCalls \ {v} : verify'[u] = verify[u]
    BY <1>2 DEF VerifyDelete
  <2>2. UNCHANGED <<Begun, Trying>>
    BY <2>1, CallGoesOn DEF InProgress
  <2>3. Ledger!Close
    BY <1>2, <2>2, RowsSeen, ClosingSeen DEF VerifyDelete
  <2> QED
    BY <2>3 DEF LedgerNext, Ledger!Next
<1> QED
  BY <1>1, <1>2, LedgerGet, LedgerUpdate DEF VerifyStep

LEMMA LedgerMeeting ==
  ASSUME Typed, Backed, Meeting
  PROVE  LedgerNext
<1>1. ASSUME NEW p \in Participants, AddParticipant(p) PROVE LedgerNext
  <2>1. ~Bound(p)
    BY <1>1 DEF AddParticipant, Backed, BoundHaveJoined
  <2>2. /\ participant \in [Participants -> ParticipantRow]
        /\ participant' = [participant EXCEPT ![p] =
             [joined |-> TRUE, device |-> NoDevice, status |-> "UNKNOWN", reason |-> "none"]]
    BY <1>1 DEF AddParticipant, Typed, TypeOK, StoreTypeOK
  <2>3. Shown' = [Shown EXCEPT ![p] = "UNKNOWN"]
    BY <2>2 DEF Shown
  <2>4. p \notin BoundParticipants /\ UNCHANGED BoundParticipants
    BY <2>1, <2>2 DEF BoundParticipants, Bound
  <2>5. UNCHANGED <<Phase, ChallengedParticipant, Begun, Trying>>
    BY <1>1, KeysSeen, CallsSeen DEF AddParticipant, Meeting
  <2>6. Ledger!Join(p)
    BY <2>3, <2>4, <2>5 DEF Ledger!Join
  <2> QED
    BY <2>6 DEF LedgerNext, Ledger!Next
<1>2. ASSUME NEW b \in BindCalls, BindUpdate(b) PROVE LedgerNext
  <2> DEFINE p == token[bind[b].request.token].participant
             d == bind[b].request.device
  <2>1. p \in Participants /\ d \in Devices /\ d # NoDevice
    BY <1>2, IdsAreDistinct DEF BindUpdate, Typed, References, BindRefs, BindRequest, TokenData
  <2>2. /\ participant \in [Participants -> ParticipantRow]
        /\ participant' = [participant EXCEPT ![p].device = d, ![p].status = "VERIFIED",
                                              ![p].reason = "bound"]
    BY <1>2 DEF BindUpdate, Typed, TypeOK, StoreTypeOK
  <2> HIDE DEF p, d
  <2>3. \A q \in Participants :
          /\ participant'[q].device = IF q = p THEN d ELSE participant[q].device
          /\ participant'[q].status = IF q = p THEN "VERIFIED" ELSE participant[q].status
    BY <2>1, <2>2 DEF ParticipantRow
  <2>4. BoundParticipants' = BoundParticipants \union {p}
    BY <2>1, <2>3 DEF BoundParticipants, Bound
  <2>5. Shown' = [Shown EXCEPT ![p] = "VERIFIED"]
    BY <2>3 DEF Shown
  <2>6. UNCHANGED <<Phase, ChallengedParticipant, Begun, Trying>>
    BY <1>2, KeysSeen, CallsSeen DEF BindUpdate, Meeting
  <2>7. Ledger!Bind(p)
    BY <2>4, <2>5, <2>6 DEF Ledger!Bind
  <2> QED
    BY <2>1, <2>7 DEF LedgerNext, Ledger!Next
<1>3. ASSUME NEW b \in BindCalls, BindDelete(b) PROVE LedgerNext
  <2>1. bind[b].request.token \notin Challenges
    BY <1>3, IdsAreDistinct DEF BindDelete, Typed, References, BindRefs, BindRequest
  <2> QED
    BY <1>3, <2>1, Unseen DEF BindDelete, Meeting
<1>4. ASSUME NEW t \in Tokens, NEW m \in Meetings, NEW p \in Participants,
             IssueJoinToken(t, m, p)
      PROVE  LedgerNext
  BY <1>4, IdsAreDistinct, Unseen DEF IssueJoinToken, Meeting
<1>5. ASSUME NEW m \in Meetings, Create(m) PROVE LedgerNext
  BY <1>5, Unseen DEF Create, Meeting
<1>6. ASSUME NEW b \in BindCalls, BindStep(b) \/ BindAbort(b) PROVE LedgerNext
  BY <1>2, <1>3, <1>6, Unseen
  DEF BindStep, BindGet, BindFindDevice, BindLog, BindAbort, Meeting
<1> QED
  BY <1>1, <1>4, <1>5, <1>6 DEF Meeting, MeetingServiceNext

LEMMA LedgerElsewhere ==
  ASSUME Typed, Enrolling \/ Agents \/ UNCHANGED vars
  PROVE  LedgerNext
<1>1. CASE Enrolling
  BY <1>1, Unseen
  DEF Enrolling, DeviceServiceNext, EnrollStep, EnrollFind, EnrollWrite, EnrollLog,
      EnrollAbort, Revoke
<1>2. CASE Agents
  BY <1>2, Unseen
  DEF Agents, CompanionNext, CompanionStep, AgentStart, AgentAnswer, AgentSignBinding,
      AgentEnrolled, AgentConnect, AgentDisconnect, AgentStop, AgentHeartbeat, Heartbeat
<1>3. CASE UNCHANGED vars
  BY <1>3, Unseen DEF vars
<1> QED
  BY <1>1, <1>2, <1>3

LEMMA LedgerRestart ==
  ASSUME Typed, HubRestart
  PROVE  LedgerNext
<1>1. \A v \in VerifyCalls :
        /\ verify'[v].pc = "idle" <=> verify[v].pc = "idle"
        /\ verify'[v].response = verify[v].response
        /\ verify'[v].pc \notin InProgress
  BY DEF HubRestart, Typed, TypeOK, ChallengeServiceTypeOK, VerifyRecord, VerifyPc, InProgress
<1>2. Begun' = Begun
  BY <1>1 DEF Begun
<1>3. Trying' \subseteq Trying
  BY <1>1, TryingPairs
<1> QED
  BY <1>2, <1>3, GivingUp DEF HubRestart

LEMMA LedgerStep ==
  ASSUME Typed, Backed, [Next]_vars
  PROVE  LedgerNext
<1>1. CASE Clock
  <2>1. redis' \subseteq redis
    BY <1>1 DEF Clock, Tick
  <2>2. Ledger!Close
    BY <1>1, <2>1, RowsSeen, CallsSeen, ClosingSeen DEF Clock, Tick
  <2> QED
    BY <2>2 DEF LedgerNext, Ledger!Next
<1>2. CASE Challenging
  BY <1>2, LedgerIssuing, LedgerVerifying DEF Challenging, ChallengeServiceNext
<1>3. \/ Clock \/ Challenging \/ Meeting \/ Enrolling \/ Agents
      \/ HubRestart \/ UNCHANGED vars
  BY Zenon DEF Next
<1> QED
  BY <1>1, <1>2, <1>3, LedgerMeeting, LedgerElsewhere, LedgerRestart

\* Interleaved as they are, with messages, clocks, faults and restarts, the
\* Hub's handlers show what the ledger promises: a status is the outcome of a
\* binding, of a missing binding or of one attempt at one challenge, an attempt
\* begins while its challenge is open and has at most one outcome, and a closed
\* challenge is never opened again.
THEOREM HubImplementsLedger == Spec => ImplementsLedger
<1>1. Init => Typed /\ Backed /\ Ledger!Init
  BY TypedInit, BackedInit, LedgerInit
<1>2. Typed /\ Backed /\ [Next]_vars => (Typed /\ Backed)' /\ [Ledger!Next]_(Ledger!ledgerVars)
  BY TypedNext, BackedNext, LedgerStep DEF LedgerNext
<1> QED
  BY <1>1, <1>2, PTL DEF Spec, ImplementsLedger, Ledger!Spec
=============================================================================
