------------------------------ MODULE TrustHub ------------------------------
(***************************************************************************)
(* The Hub with its agents: the composition of the services that share the *)
(* store, and what the composition promises about the trust status shown   *)
(* for a participant.                                                      *)
(***************************************************************************)
EXTENDS Companion, ChallengeService

CONSTANTS
  Joined0,    \* participants whose row exists at the start
  Bound0,     \* the device each participant is bound to at the start
  Enrolled0   \* devices enrolled at the start, with a connected agent

ASSUME StartIsReachable ==
  /\ Joined0 \subseteq Participants
  /\ Enrolled0 \subseteq Devices
  /\ Bound0 \in [Participants -> Enrolled0 \union {NoDevice}]
  /\ \A p \in Participants : Bound0[p] # NoDevice => p \in Joined0

storeVars == <<now, meeting, participant, device, challenge, token, redis, audit, faults>>

vars == <<storeVars, gatewayVars, meetingServiceVars, deviceServiceVars,
          challengeServiceVars, agent>>

TypeOK ==
  /\ StoreTypeOK
  /\ GatewayTypeOK
  /\ MeetingServiceTypeOK
  /\ DeviceServiceTypeOK
  /\ ChallengeServiceTypeOK
  /\ CompanionTypeOK

Row0(p) == [joined |-> p \in Joined0, device |-> Bound0[p],
            status |-> IF Bound0[p] = NoDevice THEN "UNKNOWN" ELSE "VERIFIED",
            reason |-> IF Bound0[p] = NoDevice THEN "none" ELSE "bound"]

Init ==
  /\ now = 0
  /\ meeting = {MeetingOf[p] : p \in Joined0}
  /\ participant = [p \in Participants |-> Row0(p)]
  /\ device = [d \in Devices |->
       [key |-> IF d \in Enrolled0 THEN 1 ELSE 0, status |-> "ACTIVE", heartbeat |-> 0]]
  /\ challenge = [c \in Challenges |-> Unissued]
  /\ token = [t \in Tokens |-> Unissued]
  /\ redis = {}
  /\ audit = {Event("DEVICE_BOUND", p, Bound0[p]) :
                p \in {q \in Participants : Bound0[q] # NoDevice}}
  /\ faults = 0
  /\ deviceSockets = Enrolled0
  /\ inbox = {}
  /\ responses = {}
  /\ agent = [d \in Devices |->
       IF d \in Enrolled0 THEN [pc |-> "up", key |-> 1, call |-> Unissued]
                          ELSE [pc |-> "off", key |-> 0, call |-> Unissued]]
  /\ MeetingServiceInit
  /\ DeviceServiceInit
  /\ ChallengeServiceInit

-----------------------------------------------------------------------------
Clock == Tick /\ UNCHANGED <<gatewayVars, meetingServiceVars, deviceServiceVars,
                             challengeServiceVars, agent>>

Challenging == ChallengeServiceNext /\ UNCHANGED <<meetingServiceVars, deviceServiceVars, agent>>

Meeting == MeetingServiceNext /\ UNCHANGED <<gatewayVars, deviceServiceVars,
                                             challengeServiceVars, agent>>

Enrolling == DeviceServiceNext /\ UNCHANGED <<gatewayVars, meetingServiceVars,
                                               challengeServiceVars, agent>>

Agents == CompanionNext /\ UNCHANGED challengeServiceVars

\* The Hub process ends and is started again: Postgres and Redis stay, the
\* calls in progress and the sockets do not.
HubRestart ==
  /\ Fault
  /\ issue' = [i \in IssueCalls |-> IF issue[i].pc = "idle" THEN issue[i]
                                    ELSE [issue[i] EXCEPT !.pc = "aborted"]]
  /\ verify' = [v \in VerifyCalls |->
       IF verify[v].pc \in {"idle", "done", "rejected"} THEN verify[v]
       ELSE [verify[v] EXCEPT !.pc = "aborted"]]
  /\ bind' = [b \in BindCalls |->
       IF bind[b].pc \in {"idle", "done", "rejected"} THEN bind[b]
       ELSE [bind[b] EXCEPT !.pc = "aborted"]]
  /\ enroll' = [e \in EnrollCalls |->
       IF enroll[e].pc \in {"idle", "done"} THEN enroll[e]
       ELSE [enroll[e] EXCEPT !.pc = "aborted"]]
  /\ deviceSockets' = {} /\ inbox' = {} /\ responses' = {}
  /\ UNCHANGED <<now, meeting, participant, device, challenge, token, redis,
                 audit, bindRequests, agent>>

Next ==
  \/ Clock
  \/ Challenging
  \/ Meeting
  \/ Enrolling
  \/ Agents
  \/ HubRestart

Spec == Init /\ [][Next]_vars

(***************************************************************************)
(* Fairness.  The event loop runs every handler whose awaited call has     *)
(* returned, a live socket delivers, the agent answers what it receives,   *)
(* its client reconnects for ever, and the clock goes on.  Nothing makes   *)
(* anyone start a round, ask for a binding, start an agent or beat.        *)
(***************************************************************************)
HandlerProgress ==
  /\ \A i \in IssueCalls : WF_vars(Challenging /\ IssueStep(i))
  /\ \A v \in VerifyCalls : WF_vars(Challenging /\ VerifyStep(v))
  /\ \A b \in BindCalls : WF_vars(Meeting /\ BindStep(b))
  /\ \A e \in EnrollCalls : WF_vars(Enrolling /\ EnrollStep(e))

AgentProgress == \A d \in Devices :
  /\ WF_vars(Agents /\ AgentConnect(d))
  /\ WF_vars(Agents /\ AgentEnrolled(d))
  /\ WF_vars(Agents /\ \E c \in Challenges : AgentAnswer(d, c))

FairSpec == Spec /\ WF_vars(Clock) /\ HandlerProgress /\ AgentProgress

-----------------------------------------------------------------------------
(* Safety *)

\* Call v was handed an answer to c, respectively has stored a verdict for it.
Answers(v, c) == verify[v].response # Unissued /\ verify[v].response.challenge = c
Judges(v, c) == verify[v].pc \in {"judged", "done"} /\ Answers(v, c)

Subject(v) == challenge[verify[v].response.challenge].participant

\* A call of verifyResponse that saw everything a VERIFIED verdict for p needs.
Passing(v, p) ==
  LET r == verify[v].response
      row == verify[v].row IN
  /\ verify[v].pc \in {"judged", "done", "aborted"}
  /\ verify[v].verdict.status = "VERIFIED"
  /\ Subject(v) = p
  /\ r.device = challenge[r.challenge].device
  /\ AgentIdentity[r.device] = IdentityOf[p]
  /\ r.key = row.key
  /\ row.status = "ACTIVE"
  /\ verify[v].at <= row.heartbeat + StaleAfter
  /\ verify[v].at <= ExpiresAt(r.challenge)

\* Whoever is shown as verified by a challenge was: some call fetched that
\* participant's challenge no later than it expired, found the answer signed by the
\* agent of the participant's own user on the challenged device with the key
\* on record, and the device active and recently heard of.  Rows, keys and
\* time move between the awaits of verifyResponse.  (Up to the instant of
\* expiry, as the code has it: see VerifiedBeforeExpiry.)
ChallengeVerdictIsEarned ==
  \A p \in Participants :
    participant[p].reason = "verified" => \E v \in VerifyCalls : Passing(v, p)

\* verifyResponse passes hasMeetingBinding: true without looking.  It is true:
\* the participant of every challenge, and of every snapshot entry from which
\* issueChallenge has yet to make one, is still bound.
VerdictNeedsBinding ==
  /\ \A v \in VerifyCalls :
       verify[v].pc \in {"fetched", "checked", "deleted", "judged"} => Bound(Subject(v))
  /\ \A i \in IssueCalls : \A x \in issue[i].todo : x[2] # NoDevice => Bound(x[1])

\* One-time use of a challenge: once a call has deleted it, no call that
\* begins later gets past the fetch, however often the answer is delivered.
\* Calls that overlap the deletion may (see ChallengeIsJudgedOnce).
SpentChallengeStaysSpent ==
  [][\A v, u \in VerifyCalls :
       /\ verify[v].pc = "idle" /\ verify'[v].pc = "fetched"
       /\ verify[u].pc \in {"deleted", "judged", "done"}
       => verify'[v].response.challenge # verify[u].response.challenge]_vars

\* The same for join tokens and bindDevice.
SpentTokenStaysSpent ==
  [][\A b, u \in BindCalls :
       /\ bind[b].pc = "idle" /\ bind'[b].pc = "fetched"
       /\ bind[u].pc \in {"deleted", "bound", "done"}
       => bind'[b].request.token # bind[u].request.token]_vars

\* The device a participant is bound to is enrolled and, unless it was bound
\* from the start, got there by a bindDevice call for a token of that very
\* participant and meeting.
BindingIsEarned ==
  \A p \in Participants : Bound(p) =>
    /\ participant[p].joined
    /\ Enrolled(participant[p].device)
    /\ \/ participant[p].device = Bound0[p]
       \/ \E b \in BindCalls :
            /\ bind[b].pc \in {"bound", "done", "aborted"}
            /\ bind[b].request.device = participant[p].device
            /\ token[bind[b].request.token].participant = p
            /\ token[bind[b].request.token].meeting = bind[b].request.meeting

\* The event type that accounts for a stored reason.
AuditTypeOf(reason) ==
  CASE reason = "verified" -> "CHALLENGE_PASSED"
    [] reason = "no_device" -> "CHALLENGE_NO_DEVICE"
    [] OTHER -> "CHALLENGE_FAILED"

\* A handler has stored this status of p and its audit event is still to come.
LogPending(p) ==
  \/ \E v \in VerifyCalls : verify[v].pc = "judged" /\ Subject(v) = p
  \/ \E i \in IssueCalls : issue[i].pc = "failing" /\ issue[i].current = p

\* A handler that may have stored a status of p was cut off.
CutOff(p) ==
  \/ \E v \in VerifyCalls : verify[v].pc = "aborted" /\ Subject(v) = p
  \/ \E i \in IssueCalls : issue[i].pc = "aborted" /\ issue[i].current = p

\* The status a round leaves behind is in the audit log or about to be,
\* whichever handlers wrote the row last, unless one of them was cut off.
VerdictIsAudited ==
  \A p \in Participants :
    participant[p].reason \in Reason \ {"none", "bound"} =>
      \/ LogPending(p) \/ CutOff(p)
      \/ \E e \in audit : e.type = AuditTypeOf(participant[p].reason) /\ e.subject = p

\* A running agent with a TPM key signs with the key on record for its device,
\* whatever enrolment calls of earlier starts are still in progress, aborted
\* or overtaken.
TpmKeyIsOnRecord ==
  \A d \in TpmDevices : agent[d].pc = "up" => device[d].key = agent[d].key

-----------------------------------------------------------------------------
(* The abstract specification *)

BoundParticipants == {p \in Participants : Bound(p)}
Shown == [p \in Participants |-> participant[p].status]

Phase == [c \in Challenges |-> IF challenge[c] = Unissued THEN "unissued"
                               ELSE IF c \in redis THEN "open" ELSE "closed"]
ChallengedParticipant == [c \in Challenges |-> IF challenge[c] = Unissued THEN NoDevice
                                               ELSE challenge[c].participant]

InProgress == {"fetched", "checked", "deleted"}
Begun == {v \in VerifyCalls : verify[v].pc # "idle"}
Trying == {x \in VerifyCalls \X Challenges : /\ verify[x[1]].pc \in InProgress
                                             /\ verify[x[1]].response.challenge = x[2]}

Ledger == INSTANCE TrustLedger WITH
  Attempts <- VerifyCalls, Statuses <- TrustStatus, Nobody <- NoDevice,
  bound <- BoundParticipants, shown <- Shown, phase <- Phase,
  subject <- ChallengedParticipant, begun <- Begun, trying <- Trying

\* The Hub's handlers, interleaved with everything else, implement the ledger:
\* a fetch of the challenge is the beginning of an attempt, a deletion or an
\* expiry in Redis closes the challenge, the update of the row is the outcome.
ImplementsLedger == Ledger!Spec

-----------------------------------------------------------------------------
(* Liveness, under FairSpec and without faults *)

\* A challenge that was sent to its device is settled: its answer gets a
\* verdict, or is refused because Redis had let the challenge go by then.
DeliveredIsSettled ==
  \A c \in Challenges, d \in Devices :
    <<d, c>> \in inbox ~>
      \E v \in VerifyCalls :
        /\ Answers(v, c)
        /\ \/ verify[v].pc = "done"
           \/ verify[v].pc = "rejected" /\ RedisExpired(c, verify[v].at)

\* An agent that starts is up and connected in the end, unless it exited
\* because the Hub refused its enrolment.
StartIsSettled ==
  \A d \in Devices :
    agent[d].pc = "enrolling" ~> d \in deviceSockets \/ agent[d].pc = "off"

-----------------------------------------------------------------------------
(* What documents and comments say and the code does not keep *)

\* "Participants without a device binding immediately fail": and the others
\* do not, so a row that is failed for want of a device has none.
OnlyUnboundFail ==
  [][\A p \in Participants :
       participant'[p].reason = "no_device" /\ participant[p].reason # "no_device"
       => ~Bound(p)]_vars

\* "One-time use" of a challenge: two calls do not both judge it.
ChallengeIsJudgedOnce ==
  \A c \in Challenges, v, u \in VerifyCalls : Judges(v, c) /\ Judges(u, c) => v = u

\* An answer verifies its participant only while `expires_at > now()`: not at
\* the instant of expiry.
VerifiedBeforeExpiry ==
  \A v \in VerifyCalls :
    verify[v].pc \in {"judged", "done"} /\ verify[v].verdict.status = "VERIFIED"
    => verify[v].at < ExpiresAt(verify[v].response.challenge)

\* A participant who cannot prove to be on an enrolled device is flagged: once
\* a challenge has expired without a verdict, the participant is not VERIFIED
\* for ever.
UnansweredIsFlagged ==
  \A c \in Challenges :
    challenge[c] # Unissued ~>
      \/ \E v \in VerifyCalls : Judges(v, c)
      \/ challenge[c] # Unissued /\ participant[challenge[c].participant].status # "VERIFIED"

\* VERIFIED by a challenge means that the device bound to the participant
\* answered one.
VerifiedDeviceIsBound ==
  \A p \in Participants :
    participant[p].reason = "verified" =>
      \E v \in VerifyCalls :
        Passing(v, p) /\ verify[v].response.device = participant[p].device
=============================================================================
