--------------------------- MODULE DeviceService ---------------------------
(***************************************************************************)
(* device/device.service.ts: enrolment and heartbeats of devices.          *)
(***************************************************************************)
EXTENDS HubStore

CONSTANTS EnrollCalls   \* bound: calls of enroll

VARIABLES enroll   \* calls of enroll

deviceServiceVars == <<enroll>>

EnrollPc == {"idle", "called", "creating", "updating", "created", "updated",
             "done", "aborted"}
EnrollRecord == [pc: EnrollPc, device: DeviceOrNone, key: Nat]

DeviceServiceTypeOK == enroll \in [EnrollCalls -> EnrollRecord]

DeviceServiceInit ==
  enroll = [e \in EnrollCalls |-> [pc |-> "idle", device |-> NoDevice, key |-> 0]]

\* Does the device have a row?  The branch taken is decided by this reply.
EnrollFind(e) ==
  /\ enroll[e].pc = "called"
  /\ enroll' = [enroll EXCEPT ![e].pc =
       IF Enrolled(enroll[e].device) THEN "updating" ELSE "creating"]
  /\ UNCHANGED <<now, meeting, participant, device, challenge, token, redis,
                 audit, faults>>

\* Create the row, or overwrite key, status and heartbeat of the one there is.
\* A create of an id another call created first breaks the primary key.
EnrollWrite(e) ==
  LET d == enroll[e].device
      written == [device EXCEPT ![d] =
                   [key |-> enroll[e].key, status |-> "ACTIVE", heartbeat |-> now]] IN
  /\ \/ /\ enroll[e].pc = "updating"
        /\ device' = written
        /\ enroll' = [enroll EXCEPT ![e].pc = "updated"]
     \/ /\ enroll[e].pc = "creating"
        /\ device' = IF Enrolled(d) THEN device ELSE written
        /\ enroll' = [enroll EXCEPT ![e].pc = IF Enrolled(d) THEN "aborted" ELSE "created"]
  /\ UNCHANGED <<now, meeting, participant, challenge, token, redis, audit, faults>>

EnrollLog(e) ==
  /\ enroll[e].pc \in {"created", "updated"}
  /\ Log(IF enroll[e].pc = "created" THEN "DEVICE_ENROLLED" ELSE "DEVICE_RE_ENROLLED",
         enroll[e].device, enroll[e].device)
  /\ enroll' = [enroll EXCEPT ![e].pc = "done"]
  /\ UNCHANGED <<now, meeting, participant, device, challenge, token, redis, faults>>

\* A database call throws.
EnrollAbort(e) ==
  /\ enroll[e].pc \in {"called", "creating", "updating", "created", "updated"}
  /\ Fault
  /\ enroll' = [enroll EXCEPT ![e].pc = "aborted"]
  /\ UNCHANGED <<now, meeting, participant, device, challenge, token, redis, audit>>

\* heartbeat(deviceId): the gateway swallows the error of an unknown device.
Heartbeat(d) ==
  /\ Enrolled(d)
  /\ device' = [device EXCEPT ![d].heartbeat = now]
  /\ UNCHANGED <<now, meeting, participant, challenge, token, redis, audit, faults,
                 deviceServiceVars>>

\* An operator revokes the device in the database: no code of the Hub does.
Revoke(d) ==
  /\ Enrolled(d)
  /\ device[d].status = "ACTIVE"
  /\ device' = [device EXCEPT ![d].status = "REVOKED"]
  /\ UNCHANGED <<now, meeting, participant, challenge, token, redis, audit, faults,
                 deviceServiceVars>>

EnrollStep(e) == EnrollFind(e) \/ EnrollWrite(e) \/ EnrollLog(e)

DeviceServiceNext ==
  \/ \E e \in EnrollCalls : EnrollStep(e) \/ EnrollAbort(e)
  \/ \E d \in Devices : Revoke(d)
=============================================================================
