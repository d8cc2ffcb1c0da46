---------------------------- MODULE AgentMachine ----------------------------
(***************************************************************************)
(* The machines the agents run on (Program.cs, EnrollmentService.cs): the  *)
(* file troofai-device.json, which makes an agent the same device after a  *)
(* restart, beside the Hub and its agents of TrustHub.                     *)
(*                                                                         *)
(* A machine runs one agent at a time.  The file is written after the Hub  *)
(* has enrolled the device, so the two can part: what the agent was about  *)
(* to save, and the row the Hub has, survive different faults.             *)
(***************************************************************************)
EXTENDS TrustHub

CONSTANTS
  Machines,
  MachineOf,   \* where each device id is, or would be, generated
  Torn         \* a file whose writing was interrupted

ASSUME MachinesAreDistinct ==
  /\ MachineOf \in [Devices -> Machines]
  /\ \A d, x \in Enrolled0 : MachineOf[d] = MachineOf[x] => d = x
  /\ Torn # Unissued /\ Devices \cap {Torn, Unissued} = {}

VARIABLES config   \* DeviceId in each machine's file, or Unissued for no file

machineVars == <<vars, config>>

MachineTypeOK == TypeOK /\ config \in [Machines -> Devices \union {Unissued, Torn}]

MachineInit ==
  /\ Init
  /\ config \in [Machines -> Enrolled0 \union {Unissued}]
  /\ \A m \in Machines :
       IF \E d \in Enrolled0 : MachineOf[d] = m
         THEN config[m] # Unissued /\ MachineOf[config[m]] = m
         ELSE config[m] = Unissued

Neighbours(d) == {x \in Devices : MachineOf[x] = MachineOf[d]}

\* LoadConfig, or Guid.NewGuid when there is no file.  A torn file throws and
\* ends the process, as often as it is started.
DeviceIdIs(d) ==
  \/ config[MachineOf[d]] = d
  \/ config[MachineOf[d]] = Unissued /\ agent[d].key = 0

MachineStart(d, e) ==
  /\ \A x \in Neighbours(d) : agent[x].pc = "off"
  /\ DeviceIdIs(d)
  /\ AgentStart(d, e)
  /\ UNCHANGED <<challengeServiceVars, config>>

\* The reply to the enrolment is there and is a success.
MayBeSaving(d) == agent[d].pc = "enrolling" /\ enroll[agent[d].call].pc = "done"

\* Mutant: the file is not written.
MachineEnrolledUnsaved(d) ==
  /\ AgentEnrolled(d)
  /\ UNCHANGED <<challengeServiceVars, config>>

\* SaveConfig of an agent the Hub has enrolled.
MachineEnrolled(d) ==
  /\ AgentEnrolled(d)
  /\ config' = IF MayBeSaving(d) THEN [config EXCEPT ![MachineOf[d]] = d] ELSE config
  /\ UNCHANGED challengeServiceVars

\* The process ends.  WriteAllText may not have begun, may have truncated the
\* file or may have finished; that it throws is caught and ends the agent too.
MachineStop(d) ==
  /\ AgentStop(d)
  /\ \E file \in IF MayBeSaving(d) THEN {config[MachineOf[d]], d, Torn}
                                   ELSE {config[MachineOf[d]]} :
       config' = [config EXCEPT ![MachineOf[d]] = file]
  /\ UNCHANGED challengeServiceVars

AgentGoesOn(d) ==
  /\ \/ \E c \in Challenges : AgentAnswer(d, c)
     \/ \E t \in Tokens, m \in Meetings : AgentSignBinding(d, t, m)
     \/ AgentConnect(d) \/ AgentDisconnect(d) \/ AgentHeartbeat(d)
  /\ UNCHANGED <<challengeServiceVars, config>>

MachineNext ==
  \/ (Clock \/ Challenging \/ Meeting \/ Enrolling \/ HubRestart) /\ UNCHANGED config
  \/ \E d \in Devices :
       \/ \E e \in EnrollCalls : MachineStart(d, e)
       \/ MachineEnrolled(d) \/ MachineStop(d) \/ AgentGoesOn(d)

MachineSpec == MachineInit /\ [][MachineNext]_machineVars

\* The fairness of the Hub and its agents; nobody has to start an agent.
FairMachineSpec == MachineSpec /\ WF_vars(Clock) /\ HandlerProgress /\ AgentProgress

-----------------------------------------------------------------------------
\* Starts that crash before, while and after the file is written, and calls of
\* enroll that are aborted or overtaken, leave rows nobody answers for; but the
\* device a participant was bound to by an agent of this machine is the one
\* the machine's agent is whenever it runs.
BoundDeviceReturns ==
  \A p \in Participants : Bound(p) =>
    \A d \in Neighbours(participant[p].device) :
      agent[d].pc = "up" => d = participant[p].device
=============================================================================
