--------------------------- MODULE MeetingService ---------------------------
(***************************************************************************)
(* meeting/meeting.service.ts: meetings, participants, join tokens and the *)
(* binding of a device to a participant.                                   *)
(***************************************************************************)
EXTENDS HubStore

CONSTANTS BindCalls   \* bound: calls of bindDevice

VARIABLES
  bindRequests,  \* requests a page holds: a token signed by the local agent
  bind           \* calls of bindDevice

BindPc == {"idle", "fetched", "checked", "deleted", "bound", "done", "rejected", "aborted"}

\* meeting is the one in the URL, which the agent signed as well; key is the
\* generation of the key pair that signed.
BindRequest == [token: Tokens, meeting: Meetings, device: Devices, key: Nat]
BindRecord == [pc: BindPc, request: BindRequest \union {Unissued}]

meetingServiceVars == <<bindRequests, bind>>

MeetingServiceTypeOK ==
  /\ bindRequests \subseteq BindRequest
  /\ bind \in [BindCalls -> BindRecord]

MeetingServiceInit ==
  /\ bindRequests = {}
  /\ bind = [b \in BindCalls |-> [pc |-> "idle", request |-> Unissued]]

-----------------------------------------------------------------------------
\* create: the row and its audit event, in one action like addParticipant: no
\* request can name the id before the call returns, and a round that reads a
\* participant's row before its event is written does nothing with the event.
Create(m) ==
  /\ m \notin meeting
  /\ meeting' = meeting \union {m}
  /\ LogOrFail("MEETING_CREATED", m, NoDevice)
  /\ UNCHANGED <<now, participant, device, challenge, token, redis, meetingServiceVars>>

\* Mutant: who joins again gets a new row in the place of the old one.
AddParticipantAgain(p) ==
  /\ MeetingOf[p] \in meeting
  /\ participant' = [participant EXCEPT ![p] =
       [joined |-> TRUE, device |-> NoDevice, status |-> "UNKNOWN", reason |-> "none"]]
  /\ LogOrFail("PARTICIPANT_JOINED", p, NoDevice)
  /\ UNCHANGED <<now, meeting, device, challenge, token, redis, meetingServiceVars>>

AddParticipant(p) ==
  /\ MeetingOf[p] \in meeting
  /\ ~participant[p].joined
  /\ participant' = [participant EXCEPT ![p] =
       [joined |-> TRUE, device |-> NoDevice, status |-> "UNKNOWN", reason |-> "none"]]
  /\ LogOrFail("PARTICIPANT_JOINED", p, NoDevice)
  /\ UNCHANGED <<now, meeting, device, challenge, token, redis, meetingServiceVars>>

\* issueJoinToken looks the participant up but not the meeting: the token may
\* name a meeting the participant is not in, or one that does not exist.
IssueJoinToken(t, m, p) ==
  /\ token[t] = Unissued
  /\ participant[p].joined
  /\ token' = [token EXCEPT ![t] = [meeting |-> m, participant |-> p, issuedAt |-> now]]
  /\ redis' = redis \union {t}
  /\ UNCHANGED <<now, meeting, participant, device, challenge, audit, faults,
                 meetingServiceVars>>

-----------------------------------------------------------------------------
(* bindDevice(meetingId, joinToken, deviceId, signature) *)

\* Mutant: the meeting of the token is not compared.
BindGetAnyMeeting(b, r) ==
  /\ bind[b].pc = "idle"
  /\ r \in bindRequests
  /\ bindRequests' = bindRequests \ {r}
  /\ bind' = [bind EXCEPT ![b].pc = IF r.token \in redis THEN "fetched" ELSE "rejected",
                          ![b].request = r]
  /\ UNCHANGED <<now, meeting, participant, device, challenge, token, redis, audit, faults>>

\* Fetch the token; refuse if Redis has lost it or it names another meeting.
BindGet(b, r) ==
  /\ bind[b].pc = "idle"
  /\ r \in bindRequests
  /\ \/ bindRequests' = bindRequests \ {r} /\ UNCHANGED faults
     \/ bindRequests' = bindRequests /\ Fault
  /\ LET accepted == r.token \in redis /\ token[r.token].meeting = r.meeting
     IN bind' = [bind EXCEPT ![b].pc = IF accepted THEN "fetched" ELSE "rejected",
                             ![b].request = r]
  /\ UNCHANGED <<now, meeting, participant, device, challenge, token, redis, audit>>

\* Fetch the device and check the signature against its stored key.
BindFindDevice(b) ==
  LET r == bind[b].request
      valid == Enrolled(r.device) /\ r.key = device[r.device].key IN
  /\ bind[b].pc = "fetched"
  /\ bind' = [bind EXCEPT ![b].pc = IF valid THEN "checked" ELSE "rejected"]
  /\ UNCHANGED <<now, meeting, participant, device, challenge, token, redis,
                 audit, faults, bindRequests>>

\* Mutant: the token is left to expire.
BindKeepToken(b) ==
  /\ bind[b].pc = "checked"
  /\ bind' = [bind EXCEPT ![b].pc = "deleted"]
  /\ UNCHANGED <<now, meeting, participant, device, challenge, token, redis, audit,
                 faults, bindRequests>>

\* Delete the token (one-time use).
BindDelete(b) ==
  /\ bind[b].pc = "checked"
  /\ redis' = redis \ {bind[b].request.token}
  /\ bind' = [bind EXCEPT ![b].pc = "deleted"]
  /\ UNCHANGED <<now, meeting, participant, device, challenge, token, audit,
                 faults, bindRequests>>

\* Bind participant <-> device; the row becomes VERIFIED without the policy.
BindUpdate(b) ==
  LET r == bind[b].request
      p == token[r.token].participant IN
  /\ bind[b].pc = "deleted"
  /\ participant' = [participant EXCEPT ![p].device = r.device,
                                        ![p].status = "VERIFIED", ![p].reason = "bound"]
  /\ bind' = [bind EXCEPT ![b].pc = "bound"]
  /\ UNCHANGED <<now, meeting, device, challenge, token, redis, audit, faults,
                 bindRequests>>

\* The audit event takes its tenant from the meeting, looked up only now: with
\* no such meeting the call throws, after the binding was stored.
BindLog(b) ==
  LET r == bind[b].request IN
  /\ bind[b].pc = "bound"
  /\ IF r.meeting \in meeting
       THEN /\ Log("DEVICE_BOUND", token[r.token].participant, r.device)
            /\ bind' = [bind EXCEPT ![b].pc = "done"]
       ELSE /\ bind' = [bind EXCEPT ![b].pc = "aborted"]
            /\ UNCHANGED audit
  /\ UNCHANGED <<now, meeting, participant, device, challenge, token, redis,
                 faults, bindRequests>>

\* A database or Redis call throws.
BindAbort(b) ==
  /\ bind[b].pc \in {"fetched", "checked", "deleted", "bound"}
  /\ Fault
  /\ bind' = [bind EXCEPT ![b].pc = "aborted"]
  /\ UNCHANGED <<now, meeting, participant, device, challenge, token, redis,
                 audit, bindRequests>>

BindStep(b) ==
  \/ \E r \in bindRequests : BindGet(b, r)
  \/ BindFindDevice(b) \/ BindDelete(b) \/ BindUpdate(b) \/ BindLog(b)

MeetingServiceNext ==
  \/ \E m \in Meetings : Create(m)
  \/ \E p \in Participants : AddParticipant(p)
  \/ \E t \in Tokens, m \in Meetings, p \in Participants : IssueJoinToken(t, m, p)
  \/ \E b \in BindCalls : BindStep(b) \/ BindAbort(b)
=============================================================================
