--------------------------- MODULE GatewaySockets ---------------------------
(***************************************************************************)
(* The Socket.IO gateway of the Hub (gateway/events.gateway.ts) with the   *)
(* sockets Gateway leaves out: each connection is a socket of its own, its *)
(* two ends notice that it is gone at different times, and the gateway's   *)
(* two maps hold sockets.                                                  *)
(*                                                                         *)
(* What is on its way on a socket is lost when the connection breaks; what *)
(* a client has sent on one connection is not handled after what it sent   *)
(* on the next.                                                            *)
(***************************************************************************)
EXTENDS DeviceService

CONSTANTS
  Sockets,   \* bound: connections ever made
  Pages      \* clients that subscribe to a meeting

ASSUME ClientsAreDistinct ==
  /\ Pages \cap Devices = {}
  /\ Unissued \notin Pages \union Devices \union Sockets
ASSUME EventsAreNoIds ==
  {"device:connect", "device:heartbeat", "meeting:status-update"}
    \cap (Meetings \union Challenges) = {}

Clients == Devices \union Pages

VARIABLES
  wire,            \* sockets whose connection works
  hubSide,         \* sockets the Hub has not seen disconnect
  owner,           \* the client that opened each socket
  deviceSockets,   \* the socket registered for each device
  meetingSockets,  \* the sockets subscribed to each meeting
  toHub, toClient  \* messages on their way: <<socket, message>>

socketVars == <<wire, hubSide, owner, deviceSockets, meetingSockets, toHub, toClient>>

\* The meeting of a subscription and the challenge of an issue or response are
\* all that tells messages apart.
ToHub == {"device:connect", "device:heartbeat"} \union Meetings \union Challenges
ToClient == {"meeting:status-update"} \union Challenges

SocketsTypeOK ==
  /\ wire \subseteq Sockets /\ hubSide \subseteq Sockets
  /\ owner \in [Sockets -> Clients \union {Unissued}]
  /\ deviceSockets \in [Devices -> Sockets \union {Unissued}]
  /\ meetingSockets \in [Meetings -> SUBSET Sockets]
  /\ toHub \subseteq Sockets \X ToHub /\ toClient \subseteq Sockets \X ToClient

\* A key of meetingSockets that was deleted and one that never was are {}.
SocketsInit ==
  /\ wire = {} /\ hubSide = {}
  /\ owner = [s \in Sockets |-> Unissued]
  /\ deviceSockets = [d \in Devices |-> Unissued]
  /\ meetingSockets = [m \in Meetings |-> {}]
  /\ toHub = {} /\ toClient = {}

\* socket.emit, at either end: nothing arrives on a connection that is broken.
Sent(s, msg) == IF s \in wire THEN {<<s, msg>>} ELSE {}

\* The connection breaks; neither end knows yet.
Break(s) ==
  /\ s \in wire
  /\ Fault
  /\ wire' = wire \ {s}
  /\ toHub' = {x \in toHub : x[1] # s}
  /\ toClient' = {x \in toClient : x[1] # s}
  /\ UNCHANGED <<hubSide, owner, deviceSockets, meetingSockets>>

\* The Hub dies and comes back with empty maps; its clients notice later.
HubRestarts ==
  /\ hubSide # {}
  /\ Fault
  /\ wire' = {} /\ hubSide' = {}
  /\ deviceSockets' = [d \in Devices |-> Unissued]
  /\ meetingSockets' = [m \in Meetings |-> {}]
  /\ toHub' = {} /\ toClient' = {}
  /\ UNCHANGED owner

-----------------------------------------------------------------------------
(* What the Hub does *)

\* Mutant: the entry of the socket's device is removed.
HandleDisconnectOfDevice(s) ==
  /\ s \in hubSide \ wire
  /\ hubSide' = hubSide \ {s}
  /\ deviceSockets' = [d \in Devices |-> IF owner[s] = d THEN Unissued ELSE deviceSockets[d]]
  /\ meetingSockets' = [m \in Meetings |-> meetingSockets[m] \ {s}]
  /\ UNCHANGED <<wire, owner, toHub, toClient>>

\* Mutant: only the devices are looked through.
HandleDisconnectDevicesOnly(s) ==
  /\ s \in hubSide \ wire
  /\ hubSide' = hubSide \ {s}
  /\ deviceSockets' = [d \in Devices |-> IF deviceSockets[d] = s THEN Unissued ELSE deviceSockets[d]]
  /\ UNCHANGED <<wire, owner, meetingSockets, toHub, toClient>>

\* The first entry of this very socket goes, if there is one: a socket has one
\* device.  It leaves every meeting.
HandleDisconnect(s) ==
  /\ s \in hubSide \ wire
  /\ hubSide' = hubSide \ {s}
  /\ \/ \E d \in Devices : /\ deviceSockets[d] = s
                           /\ deviceSockets' = [deviceSockets EXCEPT ![d] = Unissued]
     \/ (\A d \in Devices : deviceSockets[d] # s) /\ UNCHANGED deviceSockets
  /\ meetingSockets' = [m \in Meetings |-> meetingSockets[m] \ {s}]
  /\ UNCHANGED <<wire, owner, toHub, toClient>>

Handled(s, msg) == <<s, msg>> \in toHub /\ toHub' = toHub \ {<<s, msg>>}

HandleDeviceConnect(s) ==
  /\ Handled(s, "device:connect")
  /\ deviceSockets' = [deviceSockets EXCEPT ![owner[s]] = s]
  /\ UNCHANGED <<wire, hubSide, owner, meetingSockets, toClient>>

HandleHeartbeat(s) ==
  /\ Handled(s, "device:heartbeat")
  /\ Heartbeat(owner[s])
  /\ UNCHANGED <<wire, hubSide, owner, deviceSockets, meetingSockets, toClient>>

\* The update throws, for a device without a row or because the database call
\* fails: the error is logged, and acknowledged like a heartbeat that is stored.
SwallowHeartbeat(s) ==
  /\ Handled(s, "device:heartbeat")
  /\ IF Enrolled(owner[s]) THEN Fault ELSE UNCHANGED faults
  /\ UNCHANGED <<now, meeting, participant, device, challenge, token, redis, audit,
                 deviceServiceVars, wire, hubSide, owner, deviceSockets, meetingSockets,
                 toClient>>

HandleMeetingSubscribe(s, m) ==
  /\ Handled(s, m)
  /\ meetingSockets' = [meetingSockets EXCEPT ![m] = @ \union {s}]
  /\ UNCHANGED <<wire, hubSide, owner, deviceSockets, toClient>>

\* The answer goes to verifyResponse.
HandleChallengeResponse(s, c) ==
  /\ Handled(s, c)
  /\ UNCHANGED <<wire, hubSide, owner, deviceSockets, meetingSockets, toClient>>

\* Mutant: to the device's latest connection, registered or not.
EmitChallengeToLatest(d, c) ==
  /\ toClient' = toClient \union UNION {Sent(s, c) : s \in {u \in hubSide : owner[u] = d}}
  /\ UNCHANGED <<wire, hubSide, owner, deviceSockets, meetingSockets, toHub>>

EmitChallengeToDevice(d, c) ==
  /\ toClient' = toClient \union Sent(deviceSockets[d], c)
  /\ UNCHANGED <<wire, hubSide, owner, deviceSockets, meetingSockets, toHub>>

\* To the subscribers of the meeting, then to everyone: agents have no handler.
EmitMeetingUpdate(m) ==
  /\ toClient' = toClient \union
       UNION {Sent(s, "meeting:status-update") :
                s \in meetingSockets[m] \union {u \in hubSide : owner[u] \in Pages}}
  /\ UNCHANGED <<wire, hubSide, owner, deviceSockets, meetingSockets, toHub>>

-----------------------------------------------------------------------------
\* Neither map keeps a socket the Hub has seen disconnect, however late the
\* close of a connection is noticed and whatever replaced it.
ClosedSocketsAreForgotten ==
  /\ \A d \in Devices : deviceSockets[d] \in hubSide \union {Unissued}
  /\ \A m \in Meetings : meetingSockets[m] \subseteq hubSide
=============================================================================
