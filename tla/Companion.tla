----------------------------- MODULE Companion -----------------------------
(***************************************************************************)
(* The companion agent on a user's machine (TroofAI.Companion): it starts, *)
(* has a key, enrols, listens for bind requests of the local page, holds a *)
(* socket to the Hub and answers challenges on it.                         *)
(*                                                                         *)
(* A key pair is the number of times one was generated for the device.     *)
(***************************************************************************)
EXTENDS Gateway, MeetingService, DeviceService

CONSTANTS
  TpmDevices   \* devices whose key is a named key kept by the TPM

ASSUME TpmDevicesAreDevices == TpmDevices \subseteq Devices

VARIABLES agent   \* the agent of each device

\* key stays when the process ends: for a TPM device it is the stored key,
\* for the others only the number of the last key generated.
AgentRecord == [pc: {"off", "enrolling", "up"}, key: Nat, call: EnrollCalls \union {Unissued}]

CompanionTypeOK == agent \in [Devices -> AgentRecord]

\* Mutant: the named key is not looked up.
NextKeyAlways(d) == agent[d].key + 1

\* Initialize opens the named key if there is one; the software fallback
\* RSA.Create is not stored, so each start makes a new key.
NextKey(d) == IF d \in TpmDevices /\ agent[d].key # 0 THEN agent[d].key
              ELSE agent[d].key + 1

\* Main up to EnrollAsync, which posts the key to the Hub.
AgentStart(d, e) ==
  /\ agent[d].pc = "off"
  /\ enroll[e].pc = "idle"
  /\ agent' = [agent EXCEPT ![d] = [pc |-> "enrolling", key |-> NextKey(d), call |-> e]]
  /\ enroll' = [enroll EXCEPT ![e] = [pc |-> "called", device |-> d, key |-> NextKey(d)]]
  /\ UNCHANGED <<now, meeting, participant, device, challenge, token, redis,
                 audit, faults, gatewayVars, meetingServiceVars>>

\* Mutant: a refused enrolment is not noticed.
AgentEnrolledOnly(d) ==
  /\ agent[d].pc = "enrolling"
  /\ enroll[agent[d].call].pc = "done"
  /\ agent' = [agent EXCEPT ![d].pc = "up"]
  /\ UNCHANGED <<now, meeting, participant, device, challenge, token, redis,
                 audit, faults, gatewayVars, meetingServiceVars, enroll>>

\* The reply to the enrolment: go on with the binding listener, or exit.
AgentEnrolled(d) ==
  /\ agent[d].pc = "enrolling"
  /\ enroll[agent[d].call].pc \in {"done", "aborted"}
  /\ agent' = [agent EXCEPT ![d].pc =
       IF enroll[agent[d].call].pc = "done" THEN "up" ELSE "off"]
  /\ UNCHANGED <<now, meeting, participant, device, challenge, token, redis,
                 audit, faults, gatewayVars, meetingServiceVars, enroll>>

\* OnConnected: the socket is up and device:connect was handled.
AgentConnect(d) ==
  /\ agent[d].pc = "up"
  /\ d \notin deviceSockets
  /\ HandleDeviceConnect(d)
  /\ UNCHANGED <<now, meeting, participant, device, challenge, token, redis,
                 audit, faults, inbox, responses, meetingServiceVars, enroll, agent>>

\* The connection drops; the client will reconnect.
AgentDisconnect(d) ==
  /\ d \in deviceSockets
  /\ Fault
  /\ HandleDisconnect(d)
  /\ UNCHANGED <<now, meeting, participant, device, challenge, token, redis,
                 audit, meetingServiceVars, enroll, agent>>

\* The process ends, at Ctrl+C or at any other point.
AgentStop(d) ==
  /\ agent[d].pc # "off"
  /\ Fault
  /\ agent' = [agent EXCEPT ![d].pc = "off"]
  /\ HandleDisconnect(d)
  /\ UNCHANGED <<now, meeting, participant, device, challenge, token, redis,
                 audit, meetingServiceVars, enroll>>

\* The heartbeat timer of a connected agent fires.
AgentHeartbeat(d) ==
  /\ d \in deviceSockets
  /\ Heartbeat(d)
  /\ UNCHANGED <<gatewayVars, meetingServiceVars, agent>>

\* What a signature over a challenge attests: the device and challenge in the
\* signed lines, with whatever else the challenge says, and the key.  Tenant
\* and user are those of the agent, AgentIdentity.
SignChallenge(d, c) == [challenge |-> c, device |-> d, key |-> agent[d].key]

\* The same for a join token: token, meeting, device and key.
SignBinding(d, t, m) == [token |-> t, meeting |-> m, device |-> d, key |-> agent[d].key]

\* challenge:issue arrives and is answered by challenge:response.
AgentAnswer(d, c) ==
  /\ <<d, c>> \in inbox
  /\ inbox' = inbox \ {<<d, c>>}
  /\ responses' = responses \union {SignChallenge(d, c)}
  /\ UNCHANGED <<now, meeting, participant, device, challenge, token, redis,
                 audit, faults, deviceSockets, meetingServiceVars, enroll, agent>>

\* POST /bind from the page next to the agent; the page then has the request
\* it posts to the Hub.
AgentSignBinding(d, t, m) ==
  /\ agent[d].pc = "up"
  /\ token[t] # Unissued
  /\ bindRequests' = bindRequests \union {SignBinding(d, t, m)}
  /\ UNCHANGED <<now, meeting, participant, device, challenge, token, redis,
                 audit, faults, gatewayVars, bind, enroll, agent>>

CompanionStep(d) ==
  \/ \E e \in EnrollCalls : AgentStart(d, e)
  \/ \E c \in Challenges : AgentAnswer(d, c)
  \/ \E t \in Tokens, m \in Meetings : AgentSignBinding(d, t, m)
  \/ AgentEnrolled(d) \/ AgentConnect(d) \/ AgentDisconnect(d) \/ AgentStop(d)
  \/ AgentHeartbeat(d)

CompanionNext == \E d \in Devices : CompanionStep(d)
=============================================================================
