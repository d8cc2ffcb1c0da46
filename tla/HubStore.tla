------------------------------ MODULE HubStore ------------------------------
(***************************************************************************)
(* What the handlers of the Hub share: the rows in Postgres, the keys in   *)
(* Redis, the audit log and the clock.                                     *)
(*                                                                         *)
(* Node runs one handler at a time and switches at an await, so an action  *)
(* of the service modules is one awaited database or Redis call together   *)
(* with the code that runs on its reply.  Rows are never deleted.          *)
(*                                                                         *)
(* Identifiers are the members of the constant sets: randomUUID is the     *)
(* choice of a challenge or token nobody has used.                         *)
(***************************************************************************)
EXTENDS Policy, FiniteSets

CONSTANTS
  Meetings, Participants, Devices, Challenges, Tokens,
  MeetingOf,       \* the meeting a participant row is created for
  IdentityOf,      \* <<tenant of the meeting, user_id>> of a participant
  AgentIdentity,   \* <<tenant, user>> the agent of a device puts in its answers
  ChallengeTTL,    \* expires_at - issued_at of a challenge (10 s)
  ChallengeRedisTTL, \* seconds Redis keeps a challenge (15 s)
  TokenTTL,        \* seconds Redis keeps a join token (30 s)
  MaxTime,         \* bound on the clock
  MaxFaults,       \* bound on faults: aborted handlers, lost connections, redeliveries
  NoDevice, Unissued

ASSUME IdsAreDistinct ==
  /\ Challenges \cap Tokens = {}        \* the "challenge:" and "join_token:" prefixes
  /\ NoDevice \notin Devices
ASSUME ParticipantsHaveMeetings == MeetingOf \in [Participants -> Meetings]
ASSUME TimesAreNaturals ==
  /\ ChallengeTTL \in Nat
  /\ ChallengeRedisTTL \in Nat
  /\ TokenTTL \in Nat
  /\ MaxTime \in Nat
  /\ MaxFaults \in Nat

VARIABLES
  now,          \* the clock every new Date() reads
  meeting,      \* the meetings that have a row
  participant,  \* rows of meeting_participants
  device,       \* rows of devices
  challenge,    \* contents written under challenge:<id>; kept after the key is gone
  token,        \* contents written under join_token:<id>; kept likewise
  redis,        \* the keys Redis holds
  audit,        \* the audit_events written so far
  faults        \* faults so far

DeviceOrNone == Devices \union {NoDevice}

\* The key of a device row is the generation of its agent's key pair; 0 is no
\* row.  Only deviceId, trustStatus and statusReason of a participant matter.
ParticipantRow == [joined: BOOLEAN, device: DeviceOrNone,
                   status: TrustStatus, reason: Reason]
DeviceRow == [key: Nat, status: DeviceStatus, heartbeat: Nat]
ChallengeData == [participant: Participants, device: Devices, issuedAt: Nat]
TokenData == [meeting: Meetings, participant: Participants, issuedAt: Nat]

AuditType == {"MEETING_CREATED", "PARTICIPANT_JOINED", "DEVICE_BOUND",
              "CHALLENGE_NO_DEVICE", "CHALLENGE_ISSUED", "CHALLENGE_PASSED",
              "CHALLENGE_FAILED", "DEVICE_ENROLLED", "DEVICE_RE_ENROLLED"}
AuditEvent == [type: AuditType,
               subject: Meetings \union Participants \union Devices,
               device: DeviceOrNone]
Event(type, subject, d) == [type |-> type, subject |-> subject, device |-> d]

ASSUME UnissuedIsNoRecord == Unissued \notin ChallengeData \union TokenData

StoreTypeOK ==
  /\ now \in Nat
  /\ meeting \subseteq Meetings
  /\ participant \in [Participants -> ParticipantRow]
  /\ device \in [Devices -> DeviceRow]
  /\ challenge \in [Challenges -> ChallengeData \union {Unissued}]
  /\ token \in [Tokens -> TokenData \union {Unissued}]
  /\ redis \subseteq Challenges \union Tokens
  /\ audit \subseteq AuditEvent
  /\ faults \in Nat

Enrolled(d) == device[d].key # 0
Bound(p) == participant[p].device # NoDevice

\* A challenge's expires_at, and the test `new Date() > expires_at`.
ExpiresAt(c) == challenge[c].issuedAt + ChallengeTTL

\* Mutant: in time as long as Redis has it.
ExpiredAtWithGrace(c, t) == t > challenge[c].issuedAt + ChallengeRedisTTL
ExpiredAt(c, t) == t > ExpiresAt(c)

\* Mutant: the two columns swapped.
SetStatusSwapped(p, verdict) ==
  participant' = [participant EXCEPT ![p].status = verdict.reason,
                                     ![p].reason = verdict.status]

\* prisma.meetingParticipant.update of the two status columns.
SetStatus(p, verdict) ==
  participant' = [participant EXCEPT ![p].status = verdict.status,
                                     ![p].reason = verdict.reason]

\* AuditService.log.
Log(type, subject, d) == audit' = audit \union {Event(type, subject, d)}

Fault == faults < MaxFaults /\ faults' = faults + 1

\* AuditService.log after a write nobody undoes: the event is lost if it throws.
LogOrFail(type, subject, d) ==
  \/ Log(type, subject, d) /\ UNCHANGED faults
  \/ Fault /\ UNCHANGED audit

(***************************************************************************)
(* Time passes.  Redis drops the keys whose time to live has run out; the  *)
(* key of a challenge or token was set when it was issued.                 *)
(***************************************************************************)
RedisExpired(k, t) ==
  IF k \in Challenges THEN t >= challenge[k].issuedAt + ChallengeRedisTTL
                      ELSE t >= token[k].issuedAt + TokenTTL

Tick ==
  /\ now < MaxTime
  /\ now' = now + 1
  /\ redis' = {k \in redis : ~RedisExpired(k, now + 1)}
  /\ UNCHANGED <<meeting, participant, device, challenge, token, audit, faults>>
=============================================================================
