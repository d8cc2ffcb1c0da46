--------------------------- MODULE BindingProofs ---------------------------
(***************************************************************************)
(* What a binding and the keys on record rest on, and that the device a    *)
(* participant was bound to comes back after a restart.  Proved for every  *)
(* value of the constants.                                                 *)
(***************************************************************************)
EXTENDS VerdictProofs, AgentMachine

USE DEF storeVars, gatewayVars, meetingServiceVars, deviceServiceVars, challengeServiceVars

-----------------------------------------------------------------------------
(* Steps of the calls, the agents and the rows *)

\* What is written under a token's key is never rewritten.
TokensStay == \A t \in Tokens : token[t] # Unissued => token'[t] = token[t]

\* The agent of a device signs requests only while it is up.
RequestsMove == \A r \in bindRequests' : r \in bindRequests \/ agent[r.device].pc = "up"

\* A call of bindDevice: nothing, the fetch of the token, the check against the
\* device row, or what comes after it.
BindingMoves(b) ==
  \/ bind'[b] = bind[b]
  \/ /\ bind[b].pc = "idle" /\ bind'[b].pc \in {"fetched", "rejected"}
     /\ bind'[b].request \in bindRequests
     /\ bind'[b].pc = "fetched" =>
          token[bind'[b].request.token].meeting = bind'[b].request.meeting
  \/ /\ bind[b].pc = "fetched" /\ bind'[b].request = bind[b].request
     /\ \/ bind'[b].pc = "rejected"
        \/ bind'[b].pc = "checked" /\ Enrolled(bind[b].request.device)
  \/ /\ bind'[b].request = bind[b].request
     /\ \/ bind[b].pc = "checked" /\ bind'[b].pc = "deleted"
        \/ bind[b].pc = "deleted" /\ bind'[b].pc = "bound"
        \/ bind[b].pc = "bound" /\ bind'[b].pc = "done"
        \/ bind[b].pc \notin {"idle", "rejected"} /\ bind'[b].pc = "aborted"

\* The device in a participant's row.
RowMoves(p) ==
  \/ participant'[p].device \in {participant[p].device, NoDevice}
  \/ \E b \in BindCalls :
       /\ bind[b].pc = "deleted" /\ bind'[b].pc = "bound" /\ bind'[b].request = bind[b].request
       /\ token[bind[b].request.token].participant = p
       /\ participant'[p].device = bind[b].request.device

\* The start of an agent, with its call of enroll.
Starts(d, e) ==
  /\ agent[d].pc = "off" /\ enroll[e].pc = "idle"
  /\ agent'[d] = [pc |-> "enrolling", key |-> NextKey(d), call |-> e]
  /\ enroll'[e] = [pc |-> "called", device |-> d, key |-> NextKey(d)]

\* A call of enroll.
EnrollMoves(e) ==
  \/ enroll'[e] = enroll[e]
  \/ \E d \in Devices : Starts(d, e)
  \/ /\ enroll[e].pc # "idle" /\ enroll'[e].pc # "idle"
     /\ enroll'[e].device = enroll[e].device /\ enroll'[e].key = enroll[e].key
     /\ enroll'[e].pc \in {"created", "updated"} =>
          device'[enroll[e].device].key = enroll[e].key
     /\ enroll'[e].pc = "done" => enroll[e].pc \in {"created", "updated"}

\* The agent of a device.
AgentMoves(d) ==
  \/ agent'[d] = agent[d]
  \/ \E e \in EnrollCalls : Starts(d, e)
  \/ /\ agent'[d].key = agent[d].key /\ agent'[d].call = agent[d].call
     /\ \/ agent'[d].pc = "off"
        \/ /\ agent[d].pc = "enrolling" /\ agent'[d].pc = "up"
           /\ enroll[agent[d].call].pc = "done"

\* The key in a device's row.
KeyMoves(d) ==
  \/ device'[d].key = device[d].key
  \/ \E e \in EnrollCalls : /\ enroll[e].pc # "idle" /\ enroll[e].device = d
                            /\ device'[d].key = enroll[e].key

BindMoves == /\ TokensStay
             /\ RequestsMove
             /\ \A b \in BindCalls : BindingMoves(b)
             /\ \A p \in Participants : RowMoves(p)

EnrolMoves == /\ \A e \in EnrollCalls : EnrollMoves(e)
              /\ \A d \in Devices : AgentMoves(d) /\ KeyMoves(d)

Moves == BindMoves /\ EnrolMoves

LEMMA NoBindMoves ==
  ASSUME UNCHANGED <<token, bindRequests, bind>>,
         \A p \in Participants : participant'[p].device = participant[p].device
  PROVE  BindMoves
  BY DEF BindMoves, TokensStay, RequestsMove, BindingMoves, RowMoves

LEMMA NoEnrolMoves ==
  ASSUME UNCHANGED <<enroll, agent, device>>
  PROVE  EnrolMoves
  BY DEF EnrolMoves, EnrollMoves, AgentMoves, KeyMoves

LEMMA StatusKeepsDevices ==
  ASSUME Typed, NEW p \in Participants, NEW verdict, SetStatus(p, verdict)
  PROVE  \A q \in Participants : participant'[q].device = participant[q].device
  BY DEF SetStatus, Typed, TypeOK, StoreTypeOK, ParticipantRow

LEMMA ChallengingMoves ==
  ASSUME Typed, Challenging
  PROVE  Moves
<1>1. ASSUME NEW i \in IssueCalls,
             (\E m \in Meetings : IssueRead(i, m)) \/ IssueStep(i) \/ IssueAbort(i)
      PROVE  /\ UNCHANGED <<token, device>>
             /\ \A p \in Participants : participant'[p].device = participant[p].device
  BY <1>1, StatusKeepsDevices
  DEF IssueStep, IssueRead, IssueNoDevice, IssueNoDeviceLog, IssueStore, IssueEmit,
      IssueLog, IssueAbort
<1>2. ASSUME NEW v \in VerifyCalls, VerifyStep(v) \/ VerifyAbort(v)
      PROVE  /\ UNCHANGED <<token, device>>
             /\ \A p \in Participants : participant'[p].device = participant[p].device
  <2>1. CASE VerifyUpdate(v)
    <3>1. challenge[verify[v].response.challenge].participant \in Participants
      BY <2>1 DEF VerifyUpdate, Typed, References, VerifyRefs, ChallengeData
    <3> QED
      BY <2>1, <3>1, StatusKeepsDevices DEF VerifyUpdate
  <2> QED
    BY <1>2, <2>1 DEF VerifyStep, VerifyGet, VerifyFindDevice, VerifyDelete, VerifyLog,
                      VerifyAbort
<1>3. UNCHANGED <<bindRequests, bind, enroll, agent>>
  BY DEF Challenging
<1> QED
  BY <1>1, <1>2, <1>3, NoBindMoves, NoEnrolMoves
  DEF Challenging, ChallengeServiceNext, Moves

LEMMA MeetingMoves ==
  ASSUME Typed, Meeting
  PROVE  Moves
<1> USE DEF Typed, TypeOK, StoreTypeOK, MeetingServiceTypeOK, BindRecord, ParticipantRow
<1>1. EnrolMoves
  BY NoEnrolMoves
  DEF Meeting, MeetingServiceNext, BindStep, Create, AddParticipant, IssueJoinToken,
      BindGet, BindFindDevice, BindDelete, BindUpdate, BindLog, BindAbort
<1>2. ASSUME NEW m \in Meetings, Create(m) PROVE BindMoves
  BY <1>2, NoBindMoves DEF Create
<1>3. ASSUME NEW p \in Participants, AddParticipant(p) PROVE BindMoves
  BY <1>3 DEF AddParticipant, BindMoves, TokensStay, RequestsMove, BindingMoves, RowMoves
<1>4. ASSUME NEW t \in Tokens, NEW m \in Meetings, NEW p \in Participants,
             IssueJoinToken(t, m, p)
      PROVE  BindMoves
  BY <1>4 DEF IssueJoinToken, BindMoves, TokensStay, RequestsMove, BindingMoves, RowMoves
<1>5. ASSUME NEW w \in BindCalls, BindStep(w) \/ BindAbort(w) PROVE BindMoves
  <2>1. TokensStay /\ RequestsMove
    BY <1>5 DEF BindStep, BindGet, BindFindDevice, BindDelete, BindUpdate, BindLog,
                BindAbort, TokensStay, RequestsMove
  <2>2. ASSUME NEW b \in BindCalls PROVE BindingMoves(b)
    <3>1. ASSUME NEW r \in bindRequests, BindGet(w, r) PROVE BindingMoves(b)
      BY <3>1 DEF BindGet, BindingMoves
    <3>2. CASE BindFindDevice(w)
      BY <3>2 DEF BindFindDevice, BindingMoves
    <3>3. CASE BindDelete(w)
      BY <3>3 DEF BindDelete, BindingMoves
    <3>4. CASE BindUpdate(w)
      BY <3>4 DEF BindUpdate, BindingMoves
    <3>5. CASE BindLog(w)
      BY <3>5 DEF BindLog, BindingMoves
    <3>6. CASE BindAbort(w)
      BY <3>6 DEF BindAbort, BindingMoves
    <3> QED
      BY <1>5, <3>1, <3>2, <3>3, <3>4, <3>5, <3>6 DEF BindStep
  <2>3. ASSUME NEW p \in Participants PROVE RowMoves(p)
    <3>1. CASE UNCHANGED participant
      BY <3>1 DEF RowMoves
    <3>2. CASE BindUpdate(w)
      <4>1. /\ bind[w].pc = "deleted" /\ bind'[w].pc = "bound"
            /\ bind'[w].request = bind[w].request
        BY <3>2 DEF BindUpdate
      <4>2. \/ participant'[p] = participant[p]
            \/ /\ token[bind[w].request.token].participant = p
               /\ participant'[p].device = bind[w].request.device
        BY <3>2 DEF BindUpdate
      <4> QED
        BY <4>1, <4>2 DEF RowMoves
    <3> QED
      BY <1>5, <3>1, <3>2 DEF BindStep, BindGet, BindFindDevice, BindDelete, BindLog, BindAbort
  <2> QED
    BY <2>1, <2>2, <2>3 DEF BindMoves
<1> QED
  BY <1>1, <1>2, <1>3, <1>4, <1>5 DEF Meeting, MeetingServiceNext, Moves

LEMMA EnrollingMoves ==
  ASSUME Typed, Enrolling
  PROVE  Moves
<1> USE DEF Typed, TypeOK, StoreTypeOK, DeviceServiceTypeOK, EnrollRecord, DeviceRow
<1>1. BindMoves
  BY NoBindMoves
  DEF Enrolling, DeviceServiceNext, EnrollStep, EnrollFind, EnrollWrite, EnrollLog,
      EnrollAbort, Revoke
<1>2. UNCHANGED agent
  BY DEF Enrolling
<1>3. ASSUME NEW d \in Devices, Revoke(d) PROVE EnrolMoves
  BY <1>2, <1>3 DEF Revoke, EnrolMoves, EnrollMoves, AgentMoves, KeyMoves
<1>4. ASSUME NEW w \in EnrollCalls, EnrollFind(w) \/ EnrollLog(w) \/ EnrollAbort(w)
      PROVE  EnrolMoves
  BY <1>2, <1>4
  DEF EnrollFind, EnrollLog, EnrollAbort, EnrolMoves, EnrollMoves, AgentMoves, KeyMoves
<1>5. ASSUME NEW w \in EnrollCalls, EnrollWrite(w) PROVE EnrolMoves
  <2> DEFINE x == enroll[w].device
  <2>1. x \in Devices /\ enroll[w].pc # "idle"
    BY <1>5 DEF EnrollWrite, References, EnrollRefs
  <2>2. /\ enroll'[w].pc \in {"created", "updated", "aborted"}
        /\ enroll'[w].device = x /\ enroll'[w].key = enroll[w].key
        /\ \A e \in EnrollCalls \ {w} : enroll'[e] = enroll[e]
    BY <1>5 DEF EnrollWrite
  <2>3. \/ enroll'[w].pc = "aborted" /\ device' = device
        \/ device' = [device EXCEPT ![x] =
             [key |-> enroll[w].key, status |-> "ACTIVE", heartbeat |-> now]]
    BY <1>5 DEF EnrollWrite
  <2>4. \/ enroll'[w].pc = "aborted" /\ device' = device
        \/ /\ device'[x].key = enroll[w].key
           /\ \A d \in Devices \ {x} : device'[d] = device[d]
    BY <2>1, <2>3
  <2> HIDE DEF x
  <2>5. ASSUME NEW d \in Devices PROVE KeyMoves(d)
    BY <2>1, <2>4 DEF KeyMoves, x
  <2>6. ASSUME NEW e \in EnrollCalls PROVE EnrollMoves(e)
    BY <2>1, <2>2, <2>4 DEF EnrollMoves, x
  <2> QED
    BY <1>2, <2>5, <2>6 DEF EnrolMoves, AgentMoves
<1> QED
  BY <1>1, <1>3, <1>4, <1>5 DEF Enrolling, DeviceServiceNext, EnrollStep, Moves

LEMMA AgentsMove ==
  ASSUME Typed, Agents
  PROVE  Moves
<1> USE DEF Typed, TypeOK, StoreTypeOK, DeviceServiceTypeOK, CompanionTypeOK, EnrollRecord,
            AgentRecord, DeviceRow
<1>1. PICK x \in Devices : CompanionStep(x)
  BY DEF Agents, CompanionNext
<1>2. BindMoves
  <2>1. ASSUME NEW t \in Tokens, NEW m \in Meetings, AgentSignBinding(x, t, m)
        PROVE  BindMoves
    BY <2>1 DEF AgentSignBinding, SignBinding, BindMoves, TokensStay, RequestsMove,
                BindingMoves, RowMoves
  <2> QED
    BY <1>1, <2>1, NoBindMoves
    DEF CompanionStep, AgentStart, AgentAnswer, AgentEnrolled, AgentConnect, AgentDisconnect,
        AgentStop, AgentHeartbeat, Heartbeat
<1>3. EnrolMoves
  <2>1. ASSUME NEW w \in EnrollCalls, AgentStart(x, w) PROVE EnrolMoves
    <3>1. /\ Starts(x, w) /\ UNCHANGED device
          /\ \A d \in Devices \ {x} : agent'[d] = agent[d]
          /\ \A e \in EnrollCalls \ {w} : enroll'[e] = enroll[e]
      BY <2>1 DEF AgentStart, Starts
    <3> QED
      BY <3>1 DEF EnrolMoves, EnrollMoves, AgentMoves, KeyMoves
  <2>2. CASE AgentEnrolled(x) \/ AgentStop(x)
    <3>1. /\ UNCHANGED <<enroll, device>>
          /\ \A d \in Devices \ {x} : agent'[d] = agent[d]
          /\ agent'[x].key = agent[x].key /\ agent'[x].call = agent[x].call
          /\ \/ agent'[x].pc = "off"
             \/ /\ agent[x].pc = "enrolling" /\ agent'[x].pc = "up"
                /\ enroll[agent[x].call].pc = "done"
      BY <2>2 DEF AgentEnrolled, AgentStop
    <3> QED
      BY <3>1 DEF EnrolMoves, EnrollMoves, AgentMoves, KeyMoves
  <2>3. CASE AgentHeartbeat(x)
    <3>1. /\ UNCHANGED <<enroll, agent>>
          /\ \A d \in Devices : device'[d].key = device[d].key
      BY <2>3 DEF AgentHeartbeat, Heartbeat
    <3> QED
      BY <3>1 DEF EnrolMoves, EnrollMoves, AgentMoves, KeyMoves
  <2> QED
    BY <1>1, <2>1, <2>2, <2>3, NoEnrolMoves
    DEF CompanionStep, AgentAnswer, AgentSignBinding, AgentConnect, AgentDisconnect
<1> QED
  BY <1>2, <1>3 DEF Moves

LEMMA RestartMoves ==
  ASSUME Typed, HubRestart
  PROVE  Moves
<1>1. \A b \in BindCalls : BindingMoves(b)
  BY DEF HubRestart, BindingMoves, Typed, TypeOK, MeetingServiceTypeOK, BindRecord
<1>2. \A e \in EnrollCalls : EnrollMoves(e)
  BY DEF HubRestart, EnrollMoves, Typed, TypeOK, DeviceServiceTypeOK, EnrollRecord
<1> QED
  BY <1>1, <1>2
  DEF HubRestart, Moves, BindMoves, EnrolMoves, TokensStay, RequestsMove, RowMoves,
      AgentMoves, KeyMoves

LEMMA AllMove ==
  ASSUME Typed, [Next]_vars
  PROVE  Moves
<1>1. CASE Clock \/ UNCHANGED vars
  BY <1>1, NoBindMoves, NoEnrolMoves DEF Clock, Tick, vars, Moves
<1>2. \/ Clock \/ Challenging \/ Meeting \/ Enrolling \/ Agents
      \/ HubRestart \/ UNCHANGED vars
  BY Zenon DEF Next
<1> QED
  BY <1>1, <1>2, ChallengingMoves, MeetingMoves, EnrollingMoves, AgentsMove, RestartMoves
-----------------------------------------------------------------------------
(***************************************************************************)
(* The keys.  A row has the key of some call of enroll, and a call the key *)
(* of the agent that made it.  A TPM generates one key for its device, so  *)
(* that every call of that device ever made carries the same one.          *)
(***************************************************************************)
CallsHaveKeys == \A e \in EnrollCalls : enroll[e].pc # "idle" => enroll[e].key # 0

CallsWroteRows == \A e \in EnrollCalls :
  enroll[e].pc \in {"created", "updated", "done"} => Enrolled(enroll[e].device)

AgentsHaveCalls == \A d \in Devices :
  /\ agent[d].pc # "off" => agent[d].key # 0
  /\ agent[d].pc = "enrolling" =>
       /\ agent[d].call \in EnrollCalls
       /\ enroll[agent[d].call].pc # "idle" /\ enroll[agent[d].call].device = d
  /\ agent[d].pc = "up" => Enrolled(d)

TpmHasOneKey == \A d \in TpmDevices :
  /\ agent[d].key \in {0, 1} /\ device[d].key \in {0, 1}
  /\ \A e \in EnrollCalls :
       enroll[e].pc # "idle" /\ enroll[e].device = d => enroll[e].key = 1

KeysInOrder == CallsHaveKeys /\ CallsWroteRows /\ AgentsHaveCalls /\ TpmHasOneKey

LEMMA KeysInit == Init => KeysInOrder
  BY StartIsReachable, TpmDevicesAreDevices
  DEF Init, DeviceServiceInit, KeysInOrder, CallsHaveKeys, CallsWroteRows,
      AgentsHaveCalls, TpmHasOneKey, Enrolled

LEMMA KeysNext ==
  ASSUME Typed, KeysInOrder, [Next]_vars
  PROVE  KeysInOrder' /\ \A d \in Devices : Enrolled(d) => Enrolled(d)'
<1>1. Typed' /\ EnrolMoves
  BY TypedNext, AllMove DEF Moves
<1>2. ASSUME NEW d \in Devices
      PROVE  agent[d].key \in Nat /\ agent'[d].key \in Nat /\ NextKey(d) \in Nat \ {0}
  BY <1>1 DEF Typed, TypeOK, CompanionTypeOK, AgentRecord, NextKey
<1>3. ASSUME NEW d \in Devices, NEW e \in EnrollCalls, Starts(d, e)
      PROVE  /\ agent'[d].pc = "enrolling" /\ agent'[d].key = NextKey(d) /\ agent'[d].call = e
             /\ enroll'[e].pc = "called" /\ enroll'[e].device = d
             /\ enroll'[e].key = NextKey(d)
  BY <1>3 DEF Starts
<1>4. ASSUME NEW d \in Devices, Enrolled(d) PROVE Enrolled(d)'
  BY <1>1, <1>4 DEF EnrolMoves, KeyMoves, KeysInOrder, CallsHaveKeys, Enrolled
<1>5. ASSUME NEW e \in EnrollCalls, enroll'[e].pc # "idle" PROVE enroll'[e].key # 0
  BY <1>1, <1>2, <1>5, <1>3 DEF EnrolMoves, EnrollMoves, KeysInOrder, CallsHaveKeys
<1>6. ASSUME NEW e \in EnrollCalls, enroll'[e].pc \in {"created", "updated", "done"}
      PROVE  Enrolled(enroll[e].device)' /\ enroll'[e].device = enroll[e].device
  <2>1. CASE enroll[e].pc \in {"created", "updated", "done"} /\ enroll'[e].device = enroll[e].device
    <3>1. enroll[e].device \in Devices
      BY <2>1 DEF Typed, References, EnrollRefs
    <3> QED
      BY <1>4, <2>1, <3>1 DEF KeysInOrder, CallsWroteRows
  <2>2. CASE /\ enroll[e].pc # "idle" /\ enroll'[e].device = enroll[e].device
             /\ device'[enroll[e].device].key = enroll[e].key
    BY <2>2 DEF KeysInOrder, CallsHaveKeys, Enrolled
  <2> QED
    BY <1>1, <1>6, <1>3, <2>1, <2>2 DEF EnrolMoves, EnrollMoves
<1>7. ASSUME NEW d \in Devices
      PROVE  /\ agent'[d].pc # "off" => agent'[d].key # 0
             /\ agent'[d].pc = "enrolling" =>
                  /\ agent'[d].call \in EnrollCalls
                  /\ enroll'[agent'[d].call].pc # "idle" /\ enroll'[agent'[d].call].device = d
             /\ agent'[d].pc = "up" => Enrolled(d)'
  <2>1. CASE agent'[d] = agent[d]
    <3>1. ASSUME NEW e \in EnrollCalls, enroll[e].pc # "idle"
          PROVE  enroll'[e].pc # "idle" /\ enroll'[e].device = enroll[e].device
      BY <1>1, <3>1 DEF EnrolMoves, EnrollMoves, Starts
    <3> QED
      BY <1>4, <2>1, <3>1 DEF KeysInOrder, AgentsHaveCalls
  <2>2. ASSUME NEW e \in EnrollCalls, Starts(d, e)
        PROVE  /\ agent'[d].pc = "enrolling" /\ agent'[d].key # 0 /\ agent'[d].call = e
               /\ enroll'[e].pc # "idle" /\ enroll'[e].device = d
    BY <1>2, <2>2 DEF Starts
  <2>3. CASE /\ agent'[d].key = agent[d].key
             /\ agent[d].pc = "enrolling" /\ agent'[d].pc = "up"
             /\ enroll[agent[d].call].pc = "done"
    BY <1>4, <2>3 DEF KeysInOrder, AgentsHaveCalls, CallsWroteRows
  <2> QED
    BY <1>1, <2>1, <2>2, <2>3 DEF EnrolMoves, AgentMoves
<1>8. ASSUME NEW d \in TpmDevices
      PROVE  /\ agent'[d].key \in {0, 1} /\ device'[d].key \in {0, 1}
             /\ \A e \in EnrollCalls :
                  enroll'[e].pc # "idle" /\ enroll'[e].device = d => enroll'[e].key = 1
  <2>1. d \in Devices /\ NextKey(d) = 1
    BY TpmDevicesAreDevices DEF NextKey, KeysInOrder, TpmHasOneKey
  <2>2. agent'[d].key \in {0, 1}
    BY <1>1, <1>3, <2>1 DEF EnrolMoves, AgentMoves, KeysInOrder, TpmHasOneKey
  <2>3. device'[d].key \in {0, 1}
    BY <1>1, <2>1 DEF EnrolMoves, KeyMoves, KeysInOrder, TpmHasOneKey
  <2>4. ASSUME NEW e \in EnrollCalls, enroll'[e].pc # "idle", enroll'[e].device = d
        PROVE  enroll'[e].key = 1
    BY <1>1, <1>3, <2>1, <2>4 DEF EnrolMoves, EnrollMoves, KeysInOrder, TpmHasOneKey
  <2> QED
    BY <2>2, <2>3, <2>4
<1>9. CallsWroteRows'
  BY <1>6 DEF CallsWroteRows, Enrolled
<1> QED
  BY <1>4, <1>5, <1>7, <1>8, <1>9 DEF KeysInOrder, CallsHaveKeys, AgentsHaveCalls, TpmHasOneKey

LEMMA KeysAlways == Spec => [](Typed /\ KeysInOrder)
<1>1. Init => Typed /\ KeysInOrder
  BY TypedInit, KeysInit
<1>2. Typed /\ KeysInOrder /\ [Next]_vars => (Typed /\ KeysInOrder)'
  BY TypedNext, KeysNext
<1> QED
  BY <1>1, <1>2, PTL DEF Spec

\* A running agent with a TPM key signs with the key on record for its device,
\* whatever calls of enroll from earlier starts are still in progress, aborted
\* or overtaken: the answers of such an agent cannot fail for the key.
THEOREM TpmAgentIsRecognised == Spec => []TpmKeyIsOnRecord
<1>1. Typed /\ KeysInOrder => TpmKeyIsOnRecord
  BY TpmDevicesAreDevices
  DEF KeysInOrder, AgentsHaveCalls, TpmHasOneKey, TpmKeyIsOnRecord, Enrolled
<1> QED
  BY <1>1, KeysAlways, PTL
-----------------------------------------------------------------------------
(***************************************************************************)
(* The bindings.  What a call of bindDevice has checked stays true: devices *)
(* stay enrolled, and the token it fetched keeps naming the same meeting    *)
(* and participant.                                                         *)
(***************************************************************************)
BindsAreChecked == \A b \in BindCalls :
  /\ bind[b].pc \in {"checked", "deleted", "bound", "done"} => Enrolled(bind[b].request.device)
  /\ bind[b].pc \notin {"idle", "rejected"} =>
       token[bind[b].request.token].meeting = bind[b].request.meeting

\* The call that bound p to its device, if it was not bound from the start.
BoundBy(b, p) ==
  /\ bind[b].pc \in {"bound", "done", "aborted"}
  /\ bind[b].request.device = participant[p].device
  /\ token[bind[b].request.token].participant = p
  /\ token[bind[b].request.token].meeting = bind[b].request.meeting

Bindings == BindsAreChecked /\ BindingIsEarned

LEMMA BindingsInit == Init => Bindings
<1> SUFFICES ASSUME Init PROVE Bindings
  OBVIOUS
<1>1. BindsAreChecked
  BY DEF Init, MeetingServiceInit, BindsAreChecked
<1>2. ASSUME NEW p \in Participants, Bound(p)
      PROVE  participant[p].joined /\ Enrolled(participant[p].device)
             /\ participant[p].device = Bound0[p]
  <2>1. participant[p].device = Bound0[p]
    BY DEF Init, Row0
  <2>2. Bound0[p] \in Enrolled0 /\ Bound0[p] \in Devices
    BY <1>2, <2>1, StartIsReachable DEF Bound
  <2>3. Enrolled(Bound0[p])
    BY <2>2 DEF Init, Enrolled
  <2> QED
    BY <1>2, <2>1, <2>3, BackedInit DEF Backed, BoundHaveJoined
<1> QED
  BY <1>1, <1>2 DEF Bindings, BindingIsEarned

LEMMA BindingsNext ==
  ASSUME Typed, KeysInOrder, Backed, Bindings, [Next]_vars
  PROVE  Bindings'
<1>1. Typed' /\ Backed' /\ BindMoves /\ \A d \in Devices : Enrolled(d) => Enrolled(d)'
  BY TypedNext, BackedNext, KeysNext, AllMove DEF Moves
<1>2. ASSUME NEW b \in BindCalls, bind[b].pc # "idle"
      PROVE  /\ bind[b].request.token \in Tokens /\ bind[b].request.device \in Devices
             /\ token'[bind[b].request.token] = token[bind[b].request.token]
  BY <1>1, <1>2, UnissuedIsNoRecord
  DEF Typed, References, BindRefs, BindRequest, BindMoves, TokensStay
<1>3. ASSUME NEW b \in BindCalls
      PROVE  /\ bind'[b].pc \in {"checked", "deleted", "bound", "done"} =>
                  Enrolled(bind[b].request.device)'
             /\ bind'[b].pc \notin {"idle", "rejected"} =>
                  token'[bind'[b].request.token].meeting = bind'[b].request.meeting
  <2>1. CASE bind'[b] = bind[b]
    BY <1>1, <1>2, <2>1 DEF Bindings, BindsAreChecked, Enrolled
  <2>2. CASE /\ bind[b].pc = "idle" /\ bind'[b].pc \in {"fetched", "rejected"}
             /\ bind'[b].request \in bindRequests
             /\ bind'[b].pc = "fetched" =>
                  token[bind'[b].request.token].meeting = bind'[b].request.meeting
    <3>1. token'[bind'[b].request.token] = token[bind'[b].request.token]
      BY <1>1, <2>2, UnissuedIsNoRecord
      DEF Typed, TypeOK, MeetingServiceTypeOK, BindRequest, References, MessageRefs,
          BindMoves, TokensStay
    <3> QED
      BY <2>2, <3>1
  <2>3. CASE /\ bind[b].pc = "fetched" /\ bind'[b].request = bind[b].request
             /\ \/ bind'[b].pc = "rejected"
                \/ bind'[b].pc = "checked" /\ Enrolled(bind[b].request.device)
    BY <1>1, <1>2, <2>3 DEF Bindings, BindsAreChecked, Enrolled
  <2>4. CASE /\ bind'[b].request = bind[b].request
             /\ \/ bind[b].pc = "checked" /\ bind'[b].pc = "deleted"
                \/ bind[b].pc = "deleted" /\ bind'[b].pc = "bound"
                \/ bind[b].pc = "bound" /\ bind'[b].pc = "done"
                \/ bind[b].pc \notin {"idle", "rejected"} /\ bind'[b].pc = "aborted"
    BY <1>1, <1>2, <2>4 DEF Bindings, BindsAreChecked, Enrolled
  <2> QED
    BY <1>1, <2>1, <2>2, <2>3, <2>4 DEF BindMoves, BindingMoves
<1>4. BindsAreChecked'
  BY <1>3 DEF BindsAreChecked, Enrolled
<1>5. ASSUME NEW p \in Participants, Bound(p)'
      PROVE  /\ participant'[p].joined
             /\ Enrolled(participant[p].device)'
             /\ \/ participant'[p].device = Bound0[p]
                \/ \E b \in BindCalls : BoundBy(b, p)'
  <2>1. participant'[p].joined
    BY <1>1, <1>5 DEF Backed, BoundHaveJoined
  <2>2. CASE participant'[p].device = participant[p].device
    <3>1. Bound(p) /\ participant[p].device \in Devices
      BY <1>5, <2>2 DEF Bound, Typed, TypeOK, StoreTypeOK, ParticipantRow, DeviceOrNone
    <3>2. Enrolled(participant[p].device)'
      BY <1>1, <2>2, <3>1 DEF Bindings, BindingIsEarned, Enrolled
    <3>3. ASSUME NEW b \in BindCalls, BoundBy(b, p) PROVE BoundBy(b, p)'
      <4>1. /\ bind[b].pc \in {"bound", "done", "aborted"}
            /\ bind'[b].request = bind[b].request
            /\ bind'[b].pc \in {"bound", "done", "aborted"}
        BY <1>1, <3>3 DEF BoundBy, BindMoves, BindingMoves
      <4> QED
        BY <1>2, <2>2, <3>3, <4>1 DEF BoundBy
    <3> QED
      BY <2>1, <2>2, <3>1, <3>2, <3>3 DEF Bindings, BindingIsEarned, BoundBy
  <2>3. ASSUME NEW b \in BindCalls,
               bind[b].pc = "deleted", bind'[b].pc = "bound", bind'[b].request = bind[b].request,
               token[bind[b].request.token].participant = p,
               participant'[p].device = bind[b].request.device
        PROVE  Enrolled(participant[p].device)' /\ BoundBy(b, p)'
    BY <1>2, <1>3, <2>3 DEF BoundBy, Enrolled
  <2> QED
    BY <1>1, <1>5, <2>1, <2>2, <2>3 DEF BindMoves, RowMoves, Bound
<1>6. BindingIsEarned'
  BY <1>5 DEF BindingIsEarned, BoundBy, Enrolled
<1> QED
  BY <1>4, <1>6 DEF Bindings

\* The device a participant is bound to is enrolled, and it was bound by a call
\* of bindDevice for a token of that very participant and meeting, whatever is
\* enrolled, joined and bound between the awaits of that call.
THEOREM EveryBindingIsEarned == Spec => []BindingIsEarned
<1>1. Init => Backed /\ Bindings
  BY BackedInit, BindingsInit
<1>2. Typed /\ KeysInOrder /\ Backed /\ Bindings /\ [Next]_vars => (Backed /\ Bindings)'
  BY TypedNext, BackedNext, BindingsNext
<1>3. Backed /\ Bindings => BindingIsEarned
  BY DEF Bindings
<1> QED
  BY <1>1, <1>2, <1>3, KeysAlways, PTL DEF Spec
-----------------------------------------------------------------------------
(* The machines *)

\* Beside its file, every step of a machine is a step of the Hub or its agents.
LEMMA MachineStep ==
  ASSUME [MachineNext]_machineVars
  PROVE  [Next]_vars
<1>1. ASSUME NEW d \in Devices, NEW e \in EnrollCalls, MachineStart(d, e) PROVE Agents
  BY <1>1 DEF MachineStart, Agents, CompanionNext, CompanionStep
<1>2. ASSUME NEW d \in Devices, MachineEnrolled(d) \/ MachineStop(d) \/ AgentGoesOn(d)
      PROVE  Agents
  BY <1>2 DEF MachineEnrolled, MachineStop, AgentGoesOn, Agents, CompanionNext, CompanionStep
<1>3. CASE UNCHANGED machineVars
  BY <1>3 DEF machineVars
<1>4. MachineNext => Next
  BY <1>1, <1>2, Zenon DEF MachineNext, Next
<1> QED
  BY <1>3, <1>4

(***************************************************************************)
(* A machine runs one agent at a time, and a running agent is the device   *)
(* in the machine's file.  Whoever may still be bound is Known: its        *)
(* machine's file names it for ever, unless a crash tore the file and no   *)
(* agent starts there again.                                               *)
(***************************************************************************)
ConfigTypeOK == config \in [Machines -> Devices \union {Unissued, Torn}]

OneAgent == \A d, x \in Devices :
  MachineOf[d] = MachineOf[x] /\ agent[d].pc # "off" /\ agent[x].pc # "off" => d = x

FilesFit == \A d \in Devices :
  /\ agent[d].pc = "up" => config[MachineOf[d]] = d
  /\ agent[d].pc = "enrolling" => config[MachineOf[d]] \in {d, Unissued}

Known(d) == config[MachineOf[d]] \in {d, Torn}

BoundAreKnown ==
  /\ \A r \in bindRequests : Known(r.device)
  /\ \A b \in BindCalls : bind[b].pc # "idle" => Known(bind[b].request.device)
  /\ \A p \in Participants : Bound(p) => Known(participant[p].device)

FilesInOrder == ConfigTypeOK /\ OneAgent /\ FilesFit /\ BoundAreKnown

LEMMA FilesInit == MachineInit => FilesInOrder
<1> SUFFICES ASSUME MachineInit PROVE FilesInOrder
  OBVIOUS
<1> USE MachinesAreDistinct, StartIsReachable DEF MachineInit
<1>1. ConfigTypeOK
  BY DEF ConfigTypeOK
<1>2. \A d \in Devices : agent[d].pc = (IF d \in Enrolled0 THEN "up" ELSE "off")
  BY DEF Init
<1>3. ASSUME NEW d \in Enrolled0 PROVE config[MachineOf[d]] = d
  <2>1. /\ config[MachineOf[d]] \in Enrolled0
        /\ MachineOf[config[MachineOf[d]]] = MachineOf[d]
    OBVIOUS
  <2> QED
    BY <2>1
<1>4. BoundAreKnown
  <2>1. bindRequests = {} /\ \A b \in BindCalls : bind[b].pc = "idle"
    BY DEF Init, MeetingServiceInit
  <2>2. ASSUME NEW p \in Participants, Bound(p) PROVE participant[p].device \in Enrolled0
    <3>1. participant[p].device = Bound0[p]
      BY DEF Init, Row0
    <3> QED
      BY <2>2, <3>1 DEF Bound
  <2> QED
    BY <1>3, <2>1, <2>2 DEF BoundAreKnown, Known
<1> QED
  BY <1>1, <1>2, <1>3, <1>4 DEF FilesInOrder, OneAgent, FilesFit

\* What a step does to the agents and the files of the machines: no agent comes
\* or goes, one starts where none runs, is told the reply, or ends.
MachineMoves ==
  \/ config' = config /\ \A d \in Devices : agent'[d].pc = agent[d].pc
  \/ \E x \in Devices :
       /\ \A d \in Devices \ {x} : agent'[d] = agent[d]
       /\ \/ /\ config' = config /\ config[MachineOf[x]] \in {x, Unissued}
             /\ \A d \in Neighbours(x) : agent[d].pc = "off"
             /\ agent'[x].pc = "enrolling"
          \/ /\ agent[x].pc = "enrolling" /\ agent'[x].pc = "up"
             /\ config' = [config EXCEPT ![MachineOf[x]] = x]
          \/ agent'[x].pc = "off" /\ config' = config
          \/ /\ agent'[x].pc = "off" /\ agent[x].pc = "enrolling"
             /\ \E file \in {x, Torn} : config' = [config EXCEPT ![MachineOf[x]] = file]

LEMMA MachinesMove ==
  ASSUME Typed, ConfigTypeOK, [MachineNext]_machineVars
  PROVE  MachineMoves
<1> USE DEF Typed, TypeOK, CompanionTypeOK
<1>1. ASSUME NEW x \in Devices, NEW e \in EnrollCalls, MachineStart(x, e) PROVE MachineMoves
  BY <1>1 DEF MachineStart, AgentStart, DeviceIdIs, MachineMoves
<1>2. ASSUME NEW x \in Devices, MachineEnrolled(x) PROVE MachineMoves
  BY <1>2 DEF MachineEnrolled, AgentEnrolled, MayBeSaving, MachineMoves, AgentRecord
<1>3. ASSUME NEW x \in Devices, MachineStop(x) PROVE MachineMoves
  <2>1. /\ agent'[x].pc = "off" /\ \A d \in Devices \ {x} : agent'[d] = agent[d]
    BY <1>3 DEF MachineStop, AgentStop, AgentRecord
  <2>2. \/ config' = config
        \/ /\ agent[x].pc = "enrolling"
           /\ \E file \in {x, Torn} : config' = [config EXCEPT ![MachineOf[x]] = file]
    <3>1. [config EXCEPT ![MachineOf[x]] = config[MachineOf[x]]] = config
      BY DEF ConfigTypeOK
    <3>2. CASE MayBeSaving(x)
      BY <1>3, <3>1, <3>2 DEF MachineStop, MayBeSaving
    <3>3. CASE ~MayBeSaving(x)
      BY <1>3, <3>1, <3>3 DEF MachineStop
    <3> QED
      BY <3>2, <3>3
  <2> QED
    BY <2>1, <2>2 DEF MachineMoves
<1>4. ASSUME NEW x \in Devices, AgentGoesOn(x) PROVE MachineMoves
  BY <1>4 DEF AgentGoesOn, AgentAnswer, AgentSignBinding, AgentConnect, AgentDisconnect,
              AgentHeartbeat, MachineMoves
<1>5. CASE (Clock \/ Challenging \/ Meeting \/ Enrolling \/ HubRestart) /\ UNCHANGED config
  BY <1>5 DEF Clock, Challenging, Meeting, Enrolling, HubRestart, MachineMoves
<1>6. CASE UNCHANGED machineVars
  BY <1>6 DEF machineVars, vars, MachineMoves
<1> QED
  BY <1>1, <1>2, <1>3, <1>4, <1>5, <1>6 DEF MachineNext

LEMMA FilesNext ==
  ASSUME Typed, FilesInOrder, [MachineNext]_machineVars
  PROVE  FilesInOrder'
<1> USE MachinesAreDistinct
<1>1. [Next]_vars /\ Typed' /\ MachineMoves /\ BindMoves
  BY MachineStep, MachinesMove, TypedNext, AllMove DEF FilesInOrder, Moves
<1>2. ASSUME NEW d \in Devices PROVE MachineOf[d] \in Machines
  OBVIOUS
<1>3. ConfigTypeOK'
  BY <1>1, <1>2 DEF MachineMoves, FilesInOrder, ConfigTypeOK
<1>4. OneAgent'
  BY <1>1 DEF MachineMoves, FilesInOrder, OneAgent, Neighbours
<1>5. FilesFit'
  BY <1>1, <1>2 DEF MachineMoves, FilesInOrder, OneAgent, FilesFit, ConfigTypeOK
<1>6. ASSUME NEW d \in Devices, Known(d) PROVE Known(d)'
  BY <1>1, <1>2, <1>6 DEF MachineMoves, FilesInOrder, FilesFit, ConfigTypeOK, Known
<1>7. ASSUME NEW d \in Devices, agent[d].pc = "up" PROVE Known(d)'
  BY <1>6, <1>7 DEF FilesInOrder, FilesFit, Known
<1>8. BoundAreKnown'
  <2>1. ASSUME NEW r \in bindRequests' PROVE Known(r.device)'
    <3>1. r.device \in Devices
      BY <1>1 DEF Typed, TypeOK, MeetingServiceTypeOK, BindRequest
    <3>2. Known(r.device) \/ agent[r.device].pc = "up"
      BY <1>1 DEF BindMoves, RequestsMove, FilesInOrder, BoundAreKnown
    <3> QED
      BY <1>6, <1>7, <3>1, <3>2 DEF Known
  <2>2. ASSUME NEW b \in BindCalls, bind'[b].pc # "idle"
        PROVE  config'[MachineOf[bind'[b].request.device]] \in {bind'[b].request.device, Torn}
    <3>1. bind'[b].request.device \in Devices
      BY <1>1, <2>2 DEF Typed, References, BindRefs, BindRequest
    <3>2. \/ Known(bind[b].request.device) /\ bind'[b].request = bind[b].request
          \/ bind'[b].request \in bindRequests
      BY <1>1, <2>2 DEF BindMoves, BindingMoves, FilesInOrder, BoundAreKnown
    <3> QED
      BY <1>6, <3>1, <3>2 DEF Known, FilesInOrder, BoundAreKnown
  <2>3. ASSUME NEW p \in Participants, participant'[p].device # NoDevice
        PROVE  config'[MachineOf[participant'[p].device]] \in {participant'[p].device, Torn}
    <3>1. participant'[p].device \in Devices
      BY <1>1, <2>3 DEF Typed, TypeOK, StoreTypeOK, ParticipantRow, DeviceOrNone
    <3>2. \/ participant'[p].device = participant[p].device
          \/ \E b \in BindCalls : /\ bind[b].pc # "idle"
                                  /\ participant'[p].device = bind[b].request.device
      BY <1>1, <2>3 DEF BindMoves, RowMoves
    <3> QED
      BY <1>6, <2>3, <3>1, <3>2 DEF Known, FilesInOrder, BoundAreKnown, Bound
  <2> QED
    BY <2>1, <2>2, <2>3 DEF BoundAreKnown, Known, Bound
<1> QED
  BY <1>3, <1>4, <1>5, <1>8 DEF FilesInOrder

\* Beside the machines and their files the Hub and the agents do nothing that
\* TrustHub does not allow: every theorem about Spec holds of that system.
THEOREM MachinesUseTheHub == MachineSpec => Spec
<1>1. MachineInit => Init
  BY DEF MachineInit
<1>2. [MachineNext]_machineVars => [Next]_vars
  BY MachineStep
<1> QED
  BY <1>1, <1>2, PTL DEF MachineSpec, Spec

\* Starts that crash before, while and after the file is written, and calls of
\* enroll that are aborted or overtaken, may leave rows nobody answers for; but
\* while a participant is bound to a device of a machine, no other device's
\* agent runs on that machine.
THEOREM BoundDeviceIsBack == MachineSpec => []BoundDeviceReturns
<1>1. MachineInit => Typed /\ FilesInOrder
  BY TypedInit, FilesInit DEF MachineInit
<1>2. Typed /\ FilesInOrder /\ [MachineNext]_machineVars => (Typed /\ FilesInOrder)'
  BY MachineStep, TypedNext, FilesNext
<1>3. Typed /\ FilesInOrder => BoundDeviceReturns
  <2> SUFFICES ASSUME Typed, FilesInOrder, NEW p \in Participants, Bound(p),
                      NEW d \in Neighbours(participant[p].device), agent[d].pc = "up"
               PROVE  d = participant[p].device
    BY DEF BoundDeviceReturns
  <2>1. d \in Devices /\ MachineOf[d] = MachineOf[participant[p].device]
    BY DEF Neighbours
  <2>2. config[MachineOf[d]] = d /\ Known(participant[p].device)
    BY <2>1 DEF FilesInOrder, FilesFit, BoundAreKnown
  <2> QED
    BY <2>1, <2>2, MachinesAreDistinct DEF Known
<1> QED
  BY <1>1, <1>2, <1>3, PTL DEF MachineSpec
==================================================
