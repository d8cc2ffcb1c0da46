------------------------------ MODULE Gateway ------------------------------
(***************************************************************************)
(* The Socket.IO link between the Hub and the agents, as the services see  *)
(* it: which devices have a registered socket and which messages are on    *)
(* their way (gateway/events.gateway.ts).  Delivery is unordered; what is  *)
(* in flight on a socket is lost with the socket.                          *)
(***************************************************************************)
EXTENDS HubStore

VARIABLES
  deviceSockets,  \* the devices that have a socket in the map of that name
  inbox,          \* challenge:issue messages on their way: <<device, challenge>>
  responses       \* challenge:response messages on their way to the Hub

gatewayVars == <<deviceSockets, inbox, responses>>

\* The signature of an answer, reduced to what the Hub checks: the device and
\* challenge it names and the generation of the key that made it.
Response == [challenge: Challenges, device: Devices, key: Nat]

GatewayTypeOK ==
  /\ deviceSockets \subseteq Devices
  /\ inbox \subseteq Devices \X Challenges
  /\ responses \subseteq Response

\* device:connect registers the socket under the device's id.
HandleDeviceConnect(d) == deviceSockets' = deviceSockets \union {d}

\* The socket of a device closes.
HandleDisconnect(d) ==
  /\ deviceSockets' = deviceSockets \ {d}
  /\ inbox' = {m \in inbox : m[1] # d}
  /\ responses' = {r \in responses : r.device # d}

\* Sent if the device is registered, dropped with a warning if it is not.
EmitChallengeToDevice(d, c) ==
  inbox' = IF d \in deviceSockets THEN inbox \union {<<d, c>>} ELSE inbox
=============================================================================
