-------------------------- MODULE ChallengeService --------------------------
(***************************************************************************)
(* challenge/challenge.service.ts: issueChallenge and verifyResponse.      *)
(*                                                                         *)
(* A call is a record with a pc.  Each action is one awaited database or   *)
(* Redis call with the code that runs on its reply; calls of every service *)
(* interleave between their actions.  A call slot is used once, so it      *)
(* keeps what the call did.                                                *)
(***************************************************************************)
EXTENDS Gateway

CONSTANTS IssueCalls, VerifyCalls   \* bounds: calls of either handler

VARIABLES
  issue,    \* calls of issueChallenge
  verify    \* calls of verifyResponse

challengeServiceVars == <<issue, verify>>

IssuePc == {"idle", "loop", "failing", "stored", "emitted", "aborted"}
VerifyPc == {"idle", "fetched", "checked", "deleted", "judged", "done",
             "rejected", "aborted"}

\* todo is the rest of the snapshot read by findMany: <<participant, device>>.
\* current is the participant the loop is at and challenge the one it issued.
IssueRecord == [pc: IssuePc, todo: SUBSET (Participants \X DeviceOrNone),
                current: Participants \union {NoDevice},
                challenge: Challenges \union {Unissued}]

\* at is when the challenge was fetched, row the device row read after it and
\* verdict what the policy engine returned.
VerifyRecord == [pc: VerifyPc, response: Response \union {Unissued}, at: Nat,
                 row: DeviceRow, verdict: [status: TrustStatus, reason: Reason]]

NoRow == [key |-> 0, status |-> "ACTIVE", heartbeat |-> 0]
IdleIssue == [pc |-> "idle", todo |-> {}, current |-> NoDevice, challenge |-> Unissued]
IdleVerify == [pc |-> "idle", response |-> Unissued, at |-> 0, row |-> NoRow,
               verdict |-> Verdict("UNKNOWN", "none")]

ChallengeServiceTypeOK ==
  /\ issue \in [IssueCalls -> IssueRecord]
  /\ verify \in [VerifyCalls -> VerifyRecord]

ChallengeServiceInit ==
  /\ issue = [i \in IssueCalls |-> IdleIssue]
  /\ verify = [v \in VerifyCalls |-> IdleVerify]

-----------------------------------------------------------------------------
(* issueChallenge(meetingId) *)

\* findUnique, then findMany include device: the snapshot the loop works on.
\* An unknown meeting has no participants and the call does nothing.
IssueRead(i, m) ==
  /\ issue[i].pc = "idle"
  /\ issue' = [issue EXCEPT
       ![i].pc = "loop",
       ![i].todo = {<<p, participant[p].device>> :
                      p \in {q \in Participants : participant[q].joined /\ MeetingOf[q] = m}}]
  /\ UNCHANGED <<now, meeting, participant, device, challenge, token, redis,
                 audit, faults, gatewayVars, verify>>

\* No device in the snapshot: the row becomes FAILED.
IssueNoDevice(i, p) ==
  /\ issue[i].pc = "loop"
  /\ <<p, NoDevice>> \in issue[i].todo
  /\ SetStatus(p, Verdict("FAILED", "no_device"))
  /\ issue' = [issue EXCEPT ![i].pc = "failing", ![i].current = p,
                            ![i].todo = @ \ {<<p, NoDevice>>}]
  /\ UNCHANGED <<now, meeting, device, challenge, token, redis, audit, faults,
                 gatewayVars, verify>>

IssueNoDeviceLog(i) ==
  /\ issue[i].pc = "failing"
  /\ Log("CHALLENGE_NO_DEVICE", issue[i].current, NoDevice)
  /\ issue' = [issue EXCEPT ![i].pc = "loop"]
  /\ UNCHANGED <<now, meeting, participant, device, challenge, token, redis,
                 faults, gatewayVars, verify>>

\* A fresh challenge for the device of the snapshot, stored in Redis.
IssueStore(i, p, d, c) ==
  /\ issue[i].pc = "loop"
  /\ <<p, d>> \in issue[i].todo
  /\ challenge[c] = Unissued
  /\ challenge' = [challenge EXCEPT ![c] = [participant |-> p, device |-> d, issuedAt |-> now]]
  /\ redis' = redis \union {c}
  /\ issue' = [issue EXCEPT ![i].pc = "stored", ![i].current = p,
                            ![i].challenge = c, ![i].todo = @ \ {<<p, d>>}]
  /\ UNCHANGED <<now, meeting, participant, device, token, audit, faults,
                 gatewayVars, verify>>

\* emitChallengeToDevice, the synchronous step between the two awaits.
IssueEmit(i) ==
  LET c == issue[i].challenge IN
  /\ issue[i].pc = "stored"
  /\ EmitChallengeToDevice(challenge[c].device, c)
  /\ issue' = [issue EXCEPT ![i].pc = "emitted"]
  /\ UNCHANGED <<now, meeting, participant, device, challenge, token, redis,
                 audit, faults, deviceSockets, responses, verify>>

IssueLog(i) ==
  LET c == issue[i].challenge IN
  /\ issue[i].pc = "emitted"
  /\ Log("CHALLENGE_ISSUED", challenge[c].participant, challenge[c].device)
  /\ issue' = [issue EXCEPT ![i].pc = "loop"]
  /\ UNCHANGED <<now, meeting, participant, device, challenge, token, redis,
                 faults, gatewayVars, verify>>

-----------------------------------------------------------------------------
(* verifyResponse(challengeId, deviceId, signature) *)

\* Mutant: a challenge Redis no longer has is taken from a cache.
VerifyGetCached(v, r) ==
  /\ verify[v].pc = "idle"
  /\ r \in responses
  /\ responses' = responses \ {r}
  /\ verify' = [verify EXCEPT ![v].pc = "fetched", ![v].response = r, ![v].at = now]
  /\ UNCHANGED <<now, meeting, participant, device, challenge, token, redis,
                 audit, faults, deviceSockets, inbox, issue>>

\* Step 1 to 3: fetch the challenge, refuse if Redis has lost it or if it was
\* issued to another device.  The message is consumed, or is redelivered later.
VerifyGet(v, r) ==
  /\ verify[v].pc = "idle"
  /\ r \in responses
  /\ \/ responses' = responses \ {r} /\ UNCHANGED faults
     \/ responses' = responses /\ Fault
  /\ LET accepted == r.challenge \in redis /\ challenge[r.challenge].device = r.device
     IN verify' = [verify EXCEPT ![v].pc = IF accepted THEN "fetched" ELSE "rejected",
                                 ![v].response = r, ![v].at = now]
  /\ UNCHANGED <<now, meeting, participant, device, challenge, token, redis,
                 audit, deviceSockets, inbox, issue>>

\* Mutant: revoked devices are not found.
VerifyFindActiveDevice(v) ==
  LET d == verify[v].response.device IN
  /\ verify[v].pc = "fetched"
  /\ verify' = [verify EXCEPT
       ![v].pc = IF Enrolled(d) /\ device[d].status = "ACTIVE" THEN "checked" ELSE "rejected",
       ![v].row = device[d]]
  /\ UNCHANGED <<now, meeting, participant, device, challenge, token, redis,
                 audit, faults, gatewayVars, issue>>

\* Step 4: the device row as it is now.
VerifyFindDevice(v) ==
  LET d == verify[v].response.device IN
  /\ verify[v].pc = "fetched"
  /\ verify' = [verify EXCEPT ![v].pc = IF Enrolled(d) THEN "checked" ELSE "rejected",
                              ![v].row = device[d]]
  /\ UNCHANGED <<now, meeting, participant, device, challenge, token, redis,
                 audit, faults, gatewayVars, issue>>

\* Step 5 and 6: the signature matches the stored key over the stored fields.
\* The agent signs its own tenant and user, the Hub checks the participant's.
SignatureValid(r, row) ==
  /\ r.key = row.key
  /\ AgentIdentity[r.device] = IdentityOf[challenge[r.challenge].participant]

\* Step 8: the policy engine, on the row read in step 4, the expiry found in
\* step 2 and the clock now, with the hard-coded hasMeetingBinding: true.
Judgement(call) ==
  Evaluate(call.row.status, call.row.heartbeat,
           SignatureValid(call.response, call.row),
           ExpiredAt(call.response.challenge, call.at), TRUE, now)

\* Mutant: the challenge is deleted only when it was passed.
VerifyDeletePassed(v) ==
  LET verdict == Judgement(verify[v]) IN
  /\ verify[v].pc = "checked"
  /\ redis' = IF verdict.status = "VERIFIED" THEN redis \ {verify[v].response.challenge}
                                              ELSE redis
  /\ verify' = [verify EXCEPT ![v].pc = "deleted", ![v].verdict = verdict]
  /\ UNCHANGED <<now, meeting, participant, device, challenge, token, audit,
                 faults, gatewayVars, issue>>

\* Step 7: delete the challenge, whatever the verdict; then step 8.
VerifyDelete(v) ==
  /\ verify[v].pc = "checked"
  /\ redis' = redis \ {verify[v].response.challenge}
  /\ verify' = [verify EXCEPT ![v].pc = "deleted", ![v].verdict = Judgement(verify[v])]
  /\ UNCHANGED <<now, meeting, participant, device, challenge, token, audit,
                 faults, gatewayVars, issue>>

\* Step 9: store the verdict in the participant's row.
VerifyUpdate(v) ==
  /\ verify[v].pc = "deleted"
  /\ SetStatus(challenge[verify[v].response.challenge].participant, verify[v].verdict)
  /\ verify' = [verify EXCEPT ![v].pc = "judged"]
  /\ UNCHANGED <<now, meeting, device, challenge, token, redis, audit, faults,
                 gatewayVars, issue>>

\* Mutant: the event type follows the signature, not the verdict.
VerifyLogSignature(v) ==
  LET r == verify[v].response IN
  /\ verify[v].pc = "judged"
  /\ Log(IF SignatureValid(r, verify[v].row) THEN "CHALLENGE_PASSED" ELSE "CHALLENGE_FAILED",
         challenge[r.challenge].participant, r.device)
  /\ verify' = [verify EXCEPT ![v].pc = "done"]
  /\ UNCHANGED <<now, meeting, participant, device, challenge, token, redis,
                 faults, gatewayVars, issue>>

\* Step 10.
VerifyLog(v) ==
  LET r == verify[v].response IN
  /\ verify[v].pc = "judged"
  /\ Log(IF verify[v].verdict.status = "VERIFIED" THEN "CHALLENGE_PASSED"
                                                  ELSE "CHALLENGE_FAILED",
         challenge[r.challenge].participant, r.device)
  /\ verify' = [verify EXCEPT ![v].pc = "done"]
  /\ UNCHANGED <<now, meeting, participant, device, challenge, token, redis,
                 faults, gatewayVars, issue>>

-----------------------------------------------------------------------------
\* A database or Redis call throws: nothing in the handlers catches it and the
\* rest of the call never happens.
IssueAbort(i) ==
  /\ \/ issue[i].pc \in {"failing", "stored", "emitted"}
     \/ issue[i].pc = "loop" /\ issue[i].todo # {}
  /\ Fault
  /\ issue' = [issue EXCEPT ![i].pc = "aborted"]
  /\ UNCHANGED <<now, meeting, participant, device, challenge, token, redis,
                 audit, gatewayVars, verify>>

VerifyAbort(v) ==
  /\ verify[v].pc \in {"fetched", "checked", "deleted", "judged"}
  /\ Fault
  /\ verify' = [verify EXCEPT ![v].pc = "aborted"]
  /\ UNCHANGED <<now, meeting, participant, device, challenge, token, redis,
                 audit, gatewayVars, issue>>

IssueStep(i) ==
  \/ \E p \in Participants : IssueNoDevice(i, p)
  \/ \E p \in Participants, d \in Devices, c \in Challenges : IssueStore(i, p, d, c)
  \/ IssueNoDeviceLog(i) \/ IssueEmit(i) \/ IssueLog(i)

VerifyStep(v) ==
  \/ \E r \in responses : VerifyGet(v, r)
  \/ VerifyFindDevice(v) \/ VerifyDelete(v) \/ VerifyUpdate(v) \/ VerifyLog(v)

ChallengeServiceNext ==
  \/ \E i \in IssueCalls, m \in Meetings : IssueRead(i, m)
  \/ \E i \in IssueCalls : IssueStep(i) \/ IssueAbort(i)
  \/ \E v \in VerifyCalls : VerifyStep(v) \/ VerifyAbort(v)
=============================================================================
