---------------------------- MODULE SocketProofs ----------------------------
(***************************************************************************)
(* What the gateway's maps hold, for any number of agents, pages, sockets, *)
(* broken connections and restarts of the Hub.                             *)
(*                                                                         *)
(* Neither property is inductive.  The close of an old socket must not     *)
(* take the entry of a new one, which needs that an entry is of a socket   *)
(* of its own device; a registration that is handled must be of the        *)
(* present connection, which needs that a client has no other that works.  *)
(***************************************************************************)
EXTENDS AgentSession, TLAPS

LinkTyped ==
  /\ wire \subseteq Sockets
  /\ owner \in [Sockets -> Clients \union {Unissued}]
  /\ deviceSockets \in [Devices -> Sockets \union {Unissued}]
  /\ meetingSockets \in [Meetings -> SUBSET Sockets]
  /\ current \in [Clients -> Sockets \union {Unissued}]

\* The Hub has not seen a working connection close, and only these deliver.
WiresAreOpen ==
  /\ wire \subseteq hubSide
  /\ \A s, msg : <<s, msg>> \in toHub => s \in wire

\* An entry is a socket that its own device opened.
EntriesAreOwned == \A d \in Devices :
  deviceSockets[d] # Unissued =>
    deviceSockets[d] \in hubSide /\ owner[deviceSockets[d]] = d

SubscribersAreOpen == \A m \in Meetings : meetingSockets[m] \subseteq hubSide

\* A client has at most one connection that works, and it is the current one.
WiresAreCurrent ==
  /\ \A s \in wire : owner[s] \in Clients /\ current[owner[s]] = s
  /\ \A x \in Clients : current[x] # Unissued => owner[current[x]] = x

Linked ==
  /\ LinkTyped /\ WiresAreOpen /\ EntriesAreOwned /\ SubscribersAreOpen
  /\ WiresAreCurrent /\ ConnectedIsReachable

USE DEF Clients

LEMMA LinkedInit == AgentSessionInit => Linked
  BY DEF AgentSessionInit, SocketsInit, Linked, LinkTyped, WiresAreOpen, EntriesAreOwned,
     SubscribersAreOpen, WiresAreCurrent, ConnectedIsReachable, Live

linkVars == <<wire, hubSide, owner, deviceSockets, meetingSockets, current>>

\* Messages come and go, registrations excepted.
LEMMA LinkedByTraffic ==
  ASSUME Linked, UNCHANGED linkVars,
         \A s : <<s, "device:connect">> \in toHub <=> <<s, "device:connect">> \in toHub',
         \A s, msg : <<s, msg>> \in toHub' => <<s, msg>> \in toHub \/ s \in wire
  PROVE  Linked'
  BY DEF linkVars, Linked, LinkTyped, WiresAreOpen, EntriesAreOwned, SubscribersAreOpen,
     WiresAreCurrent, ConnectedIsReachable, Live

LEMMA BeatIsTraffic ==
  ASSUME NEW d \in Devices, Linked, Beat(d), UNCHANGED linkVars
  PROVE  Linked'
  <1>1. \A s : <<s, "device:connect">> \in toHub <=> <<s, "device:connect">> \in toHub'
    BY DEF Beat, Sent
  <1>2. \A s, msg : <<s, msg>> \in toHub' => <<s, msg>> \in toHub \/ s \in wire
    BY DEF Beat, Sent
  <1> QED BY <1>1, <1>2, LinkedByTraffic

LEMMA HandledIsTraffic ==
  ASSUME NEW s, NEW msg, msg # "device:connect", Linked, Handled(s, msg), UNCHANGED linkVars
  PROVE  Linked'
  BY LinkedByTraffic DEF Handled

LEMMA LinkedDisconnect ==
  ASSUME NEW s \in Sockets, Linked, HandleDisconnect(s), UNCHANGED current
  PROVE  Linked'
  <1> USE ClientsAreDistinct DEF HandleDisconnect
  <1>1. \A d \in Devices : deviceSockets'[d] =
          IF deviceSockets[d] = s THEN Unissued ELSE deviceSockets[d]
    BY DEF Linked, LinkTyped, EntriesAreOwned
  <1>2. LinkTyped'
    BY DEF Linked, LinkTyped
  <1>3. WiresAreOpen'
    BY DEF Linked, WiresAreOpen
  <1>4. EntriesAreOwned'
    BY <1>1 DEF Linked, EntriesAreOwned
  <1>5. SubscribersAreOpen'
    BY DEF Linked, SubscribersAreOpen
  <1>6. WiresAreCurrent'
    BY DEF Linked, WiresAreCurrent
  <1>7. ConnectedIsReachable'
    BY <1>1 DEF Linked, ConnectedIsReachable, Live
  <1> QED BY <1>2, <1>3, <1>4, <1>5, <1>6, <1>7 DEF Linked

LEMMA LinkedDeviceConnect ==
  ASSUME NEW s \in Sockets, Linked, HandleDeviceConnect(s), UNCHANGED current
  PROVE  Linked'
  <1> USE ClientsAreDistinct DEF HandleDeviceConnect, Handled
  <1>1. s \in wire /\ s \in hubSide /\ current[owner[s]] = s
    BY DEF Linked, WiresAreOpen, WiresAreCurrent
  <1>2. \A d \in Devices : deviceSockets'[d] = IF d = owner[s] THEN s ELSE deviceSockets[d]
    BY DEF Linked, LinkTyped
  <1>3. LinkTyped'
    BY DEF Linked, LinkTyped
  <1>4. WiresAreOpen'
    BY DEF Linked, WiresAreOpen
  <1>5. EntriesAreOwned'
    BY <1>1, <1>2 DEF Linked, EntriesAreOwned
  <1>6. SubscribersAreOpen' /\ WiresAreCurrent'
    BY DEF Linked, SubscribersAreOpen, WiresAreCurrent
  <1>7. ConnectedIsReachable'
    BY <1>1, <1>2 DEF Linked, ConnectedIsReachable, Live, WiresAreCurrent
  <1> QED BY <1>3, <1>4, <1>5, <1>6, <1>7 DEF Linked

LEMMA LinkedBreak ==
  ASSUME NEW s \in Sockets, Linked, Break(s), UNCHANGED current
  PROVE  Linked'
  <1>1. \A u, msg : <<u, msg>> \in toHub' <=> <<u, msg>> \in toHub /\ u # s
    BY DEF Break
  <1> QED BY <1>1 DEF Break, Linked, LinkTyped, WiresAreOpen, EntriesAreOwned,
     SubscribersAreOpen, WiresAreCurrent, ConnectedIsReachable, Live

LEMMA LinkedRestart ==
  ASSUME Linked, HubRestarts, UNCHANGED current
  PROVE  Linked'
  BY DEF HubRestarts, Linked, LinkTyped, WiresAreOpen, EntriesAreOwned,
     SubscribersAreOpen, WiresAreCurrent, ConnectedIsReachable, Live

LEMMA LinkedNoticeLoss ==
  ASSUME NEW x \in Clients, Linked, NoticeLoss(x)
  PROVE  Linked'
  BY ClientsAreDistinct
  DEF NoticeLoss, socketVars, Linked, LinkTyped, WiresAreOpen, EntriesAreOwned,
     SubscribersAreOpen, WiresAreCurrent, ConnectedIsReachable, Live

LEMMA LinkedConnect ==
  ASSUME NEW x \in Clients, Linked, Connect(x)
  PROVE  Linked'
  <1> DEFINE s == FreshSocket
  <1> USE ClientsAreDistinct
  <1>1. s \in Sockets /\ owner[s] = Unissued
    BY DEF Connect, SocketsAreLeft, FreshSocket
  <1> HIDE DEF s
  <1>2. /\ owner' = [owner EXCEPT ![s] = x]
        /\ wire' = wire \union {s} /\ hubSide' = hubSide \union {s}
        /\ current' = [current EXCEPT ![x] = s] /\ current[x] = Unissued
        /\ UNCHANGED <<deviceSockets, meetingSockets>>
    BY DEF Connect, s
  <1>3. /\ \A u, msg : u # s => (<<u, msg>> \in toHub' <=> <<u, msg>> \in toHub)
        /\ x \in Devices => <<s, "device:connect">> \in toHub'
    BY DEF Connect, s
  <1>4. s \notin wire /\ \A d \in Devices : deviceSockets[d] # s
    BY <1>1 DEF Linked, LinkTyped, WiresAreCurrent, EntriesAreOwned
  <1>5. \A y \in Clients : current[y] # s
    BY <1>1 DEF Linked, LinkTyped, WiresAreCurrent
  <1>6. LinkTyped'
    BY <1>1, <1>2 DEF Linked, LinkTyped
  <1>7. WiresAreOpen'
    BY <1>2, <1>3 DEF Linked, WiresAreOpen
  <1>8. EntriesAreOwned' /\ SubscribersAreOpen'
    BY <1>2, <1>4 DEF Linked, LinkTyped, EntriesAreOwned, SubscribersAreOpen
  <1>9. WiresAreCurrent'
    BY <1>1, <1>2, <1>4, <1>5 DEF Linked, LinkTyped, WiresAreCurrent
  <1>10. ConnectedIsReachable'
    BY <1>1, <1>2, <1>3, <1>5 DEF Linked, LinkTyped, ConnectedIsReachable, Live
  <1> QED BY <1>6, <1>7, <1>8, <1>9, <1>10 DEF Linked

LEMMA LinkedReceive ==
  ASSUME NEW x \in Clients, NEW msg \in ToClient, Linked, Receive(x, msg)
  PROVE  Linked'
  <1>1. UNCHANGED linkVars
    BY DEF Receive, sessionVars, linkVars
  <1>2. \A s : <<s, "device:connect">> \in toHub <=> <<s, "device:connect">> \in toHub'
    BY EventsAreNoIds DEF Receive, Sent
  <1>3. \A s, ans : <<s, ans>> \in toHub' => <<s, ans>> \in toHub \/ s \in wire
    BY DEF Receive, Sent
  <1> QED BY <1>1, <1>2, <1>3, LinkedByTraffic

LEMMA LinkedGateway == Linked /\ GatewayStep => Linked'
  <1> SUFFICES ASSUME Linked, GatewayStep PROVE Linked'
    OBVIOUS
  <1>0. UNCHANGED current
    BY DEF GatewayStep, sessionVars
  <1>1. ASSUME NEW s \in Sockets, HandleDisconnect(s) \/ HandleDeviceConnect(s) PROVE Linked'
    BY <1>0, <1>1, LinkedDisconnect, LinkedDeviceConnect
  <1>2. ASSUME NEW s \in Sockets, NEW m \in Meetings, HandleMeetingSubscribe(s, m)
        PROVE  Linked'
    <2>1. s \in hubSide
      BY <1>2 DEF HandleMeetingSubscribe, Handled, Linked, WiresAreOpen
    <2>2. \A u : <<u, "device:connect">> \in toHub <=> <<u, "device:connect">> \in toHub'
      BY <1>2, EventsAreNoIds DEF HandleMeetingSubscribe, Handled
    <2>3. meetingSockets' \in [Meetings -> SUBSET Sockets]
      BY <1>2 DEF HandleMeetingSubscribe, Linked, LinkTyped
    <2>4. SubscribersAreOpen'
      BY <1>2, <2>1 DEF HandleMeetingSubscribe, Linked, LinkTyped, SubscribersAreOpen
    <2>5. WiresAreOpen'
      BY <1>2 DEF HandleMeetingSubscribe, Handled, Linked, WiresAreOpen
    <2> QED BY <1>0, <1>2, <2>2, <2>3, <2>4, <2>5
      DEF HandleMeetingSubscribe, Linked, LinkTyped, EntriesAreOwned, WiresAreCurrent,
          ConnectedIsReachable, Live
  <1>3. ASSUME NEW s \in Sockets, NEW c \in Challenges, HandleChallengeResponse(s, c)
        PROVE  Linked'
    BY <1>0, <1>3, HandledIsTraffic, EventsAreNoIds DEF HandleChallengeResponse, linkVars
  <1>4. ASSUME NEW d \in Devices, NEW c \in Challenges, EmitChallengeToDevice(d, c)
        PROVE  Linked'
    BY <1>0, <1>4, LinkedByTraffic DEF EmitChallengeToDevice, linkVars
  <1>5. ASSUME NEW m \in Meetings, EmitMeetingUpdate(m) PROVE Linked'
    BY <1>0, <1>5, LinkedByTraffic DEF EmitMeetingUpdate, linkVars
  <1>6. ASSUME NEW s \in Sockets, HandleHeartbeat(s) \/ SwallowHeartbeat(s) PROVE Linked'
    BY <1>0, <1>6, HandledIsTraffic DEF HandleHeartbeat, SwallowHeartbeat, linkVars
  <1>7. CASE HubRestarts
    BY <1>0, <1>7, LinkedRestart
  <1>8. ASSUME NEW s \in Sockets, Break(s) PROVE Linked'
    BY <1>0, <1>8, LinkedBreak
  <1> QED BY <1>1, <1>2, <1>3, <1>4, <1>5, <1>6, <1>7, <1>8 DEF GatewayStep

LEMMA LinkedNext == Linked /\ [AgentSessionNext]_allVars => Linked'
  <1> SUFFICES ASSUME Linked, [AgentSessionNext]_allVars PROVE Linked'
    OBVIOUS
  <1>1. CASE GatewayStep
    BY <1>1, LinkedGateway
  <1>2. ASSUME NEW x \in Clients, ClientStep(x) PROVE Linked'
    BY <1>2, LinkedConnect, LinkedNoticeLoss, LinkedReceive DEF ClientStep
  <1>3. ASSUME NEW d \in Devices, StartHeartbeat(d) PROVE Linked'
    BY <1>3, LinkedByTraffic DEF StartHeartbeat, socketVars, linkVars
  <1>4. ASSUME NEW d \in Devices, TimerFires(d) \/ OrphanFires(d) PROVE Linked'
    BY <1>4, BeatIsTraffic DEF TimerFires, OrphanFires, linkVars
  <1>5. CASE TimePasses
    BY <1>5, LinkedByTraffic DEF TimePasses, socketVars, sessionVars, linkVars
  <1>6. CASE UNCHANGED allVars
    BY <1>6, LinkedByTraffic DEF allVars, socketVars, sessionVars, linkVars
  <1> QED BY <1>1, <1>2, <1>3, <1>4, <1>5, <1>6 DEF AgentSessionNext

LEMMA LinkedAlways == AgentSessionSpec => []Linked
  BY LinkedInit, LinkedNext, PTL DEF AgentSessionSpec

-----------------------------------------------------------------------------
\* deviceSockets and meetingSockets hold no socket whose disconnect
\* handleDisconnect has handled, though it stops at the first device it finds.
THEOREM ClosedSocketsStayForgotten == AgentSessionSpec => []ClosedSocketsAreForgotten
  <1>1. Linked => ClosedSocketsAreForgotten
    BY DEF Linked, LinkTyped, EntriesAreOwned, SubscribersAreOpen, ClosedSocketsAreForgotten
  <1> QED BY <1>1, LinkedAlways, PTL

\* The entry of a device whose registration was handled is its agent's present
\* socket: emitChallengeToDevice reaches it.
THEOREM ConnectedStaysReachable == AgentSessionSpec => []ConnectedIsReachable
  <1>1. Linked => ConnectedIsReachable
    BY DEF Linked
  <1> QED BY <1>1, LinkedAlways, PTL

-----------------------------------------------------------------------------
(***************************************************************************)
(* ConnectedIsFresh.  Once every OnConnected of an agent has resumed, its  *)
(* timer is set, to the first beat of the present connection or within a   *)
(* period of a beat that was stored or is on its way; until then the       *)
(* connection is of this very moment.  The timer of a connection that is   *)
(* gone may be set too, and is overwritten by the one to come.  A beat     *)
(* that is swallowed leaves the timer within a period of now, and now      *)
(* within the bound there was: the bound moves by one period.  One that is *)
(* stored needs no excuse, for the timer was never further than that.      *)
(***************************************************************************)
BeatsTyped ==
  /\ now \in Nat
  /\ device \in [Devices -> DeviceRow]
  /\ since \in [Sockets -> Nat]
  /\ resuming \in [Devices -> Nat]
  /\ timer \in [Devices -> Nat \union {Unissued}]
  /\ excused \in [Devices -> Nat]

\* The row is there, its agent is heard of in the past, its timer will fire.
BeatsAreTimely == \A d \in Devices :
  /\ device[d].key = 1
  /\ device[d].heartbeat <= now
  /\ timer[d] # Unissued => now <= timer[d]

ResumesAtOnce == \A d \in Devices :
  resuming[d] > 0 /\ current[d] \in wire => since[current[d]] = now

TimerIsSet(d) ==
  /\ timer[d] # Unissued
  /\ \/ timer[d] <= since[current[d]] + FirstBeat
     \/ /\ timer[d] <= now + Period
        /\ \/ timer[d] <= since[current[d]] + FirstBeat + excused[d]
           \/ timer[d] <= device[d].heartbeat + Period + excused[d]
           \/ <<current[d], "device:heartbeat">> \in toHub

ConnectedBeats == \A d \in Devices :
  resuming[d] = 0 /\ current[d] \in wire => TimerIsSet(d)

HeardOf == \A d \in Devices : current[d] \in wire =>
  \/ now <= since[current[d]] + FirstBeat + excused[d]
  \/ now <= device[d].heartbeat + Period + excused[d]

Beating == BeatsTyped /\ BeatsAreTimely /\ ResumesAtOnce /\ ConnectedBeats /\ HeardOf

LEMMA BeatingInit == AgentSessionInit => Beating
  BY DEF AgentSessionInit, SocketsInit, Beating, BeatsTyped, BeatsAreTimely, ResumesAtOnce,
     ConnectedBeats, HeardOf, DeviceRow, DeviceStatus

\* Nothing happens to the clock, the rows and the timers, no connection is
\* made, and no heartbeat is handled.
LEMMA BeatingByTraffic ==
  ASSUME Beating, UNCHANGED <<now, device, since, resuming, timer, excused>>,
         wire' \subseteq wire,
         \A d \in Devices : current'[d] \in wire' => current'[d] = current[d],
         \A s \in wire' : <<s, "device:heartbeat">> \in toHub =>
                            <<s, "device:heartbeat">> \in toHub'
  PROVE  Beating'
  BY DEF Beating, BeatsTyped, BeatsAreTimely, ResumesAtOnce, ConnectedBeats, HeardOf, TimerIsSet

LEMMA BeatingConnect ==
  ASSUME NEW x \in Clients, Linked, Beating, Connect(x)
  PROVE  Beating'
  <1> DEFINE s == FreshSocket
  <1> USE ClientsAreDistinct
  <1>1. s \in Sockets /\ owner[s] = Unissued
    BY DEF Connect, SocketsAreLeft, FreshSocket
  <1> HIDE DEF s
  <1>2. /\ wire' = wire \union {s}
        /\ current' = [current EXCEPT ![x] = s]
        /\ since' = [since EXCEPT ![s] = now]
        /\ excused' = [d \in Devices |-> IF d = x THEN 0 ELSE excused[d]]
        /\ x \in Devices => resuming' = [resuming EXCEPT ![x] = @ + 1]
        /\ x \notin Devices => resuming' = resuming
        /\ UNCHANGED <<now, device, timer>>
        /\ toHub \subseteq toHub'
    BY DEF Connect, s
  <1>3. \A y \in Clients : current[y] # s
    BY <1>1 DEF Linked, LinkTyped, WiresAreCurrent
  <1>4. BeatsTyped'
    BY <1>1, <1>2 DEF Beating, BeatsTyped
  <1>5. BeatsAreTimely'
    BY <1>2 DEF Beating, BeatsAreTimely
  <1>6. ASSUME NEW d \in Devices, d # x
        PROVE  /\ current'[d] = current[d] /\ resuming'[d] = resuming[d]
               /\ excused'[d] = excused[d]
               /\ current'[d] \in wire' => /\ current[d] \in wire
                                           /\ since'[current[d]] = since[current[d]]
    BY <1>1, <1>2, <1>3, <1>6 DEF Linked, LinkTyped, Beating, BeatsTyped
  <1>7. ASSUME x \in Devices
        PROVE  current'[x] = s /\ since'[s] = now /\ resuming'[x] > 0
    BY <1>1, <1>2, <1>7 DEF Linked, LinkTyped, Beating, BeatsTyped
  <1>8. ResumesAtOnce'
    BY <1>2, <1>6, <1>7 DEF Beating, ResumesAtOnce
  <1>9. ConnectedBeats'
    BY <1>2, <1>6, <1>7 DEF Beating, ConnectedBeats, TimerIsSet
  <1>10. HeardOf'
    BY <1>2, <1>6, <1>7, BeatsAreTimes DEF Beating, BeatsTyped, HeardOf
  <1> QED BY <1>4, <1>5, <1>8, <1>9, <1>10 DEF Beating

LEMMA BeatingStart ==
  ASSUME NEW d \in Devices, Linked, Beating, StartHeartbeat(d)
  PROVE  Beating'
  <1> USE BeatsAreTimes DEF StartHeartbeat, socketVars
  <1>1. BeatsTyped'
    BY DEF Beating, BeatsTyped
  <1>2. BeatsAreTimely'
    BY DEF Beating, BeatsTyped, BeatsAreTimely
  <1>3. ResumesAtOnce'
    BY DEF Beating, BeatsTyped, ResumesAtOnce
  <1>4. ConnectedBeats'
    <2> SUFFICES ASSUME NEW e \in Devices, resuming'[e] = 0, current'[e] \in wire'
                 PROVE  TimerIsSet(e)'
      BY DEF ConnectedBeats
    <2>1. CASE e = d
      <3>1. timer'[d] = now + FirstBeat /\ since[current[d]] = now
        BY <2>1 DEF Beating, BeatsTyped, ResumesAtOnce
      <3>2. timer'[d] # Unissued
        BY <3>1 DEF Beating, BeatsTyped
      <3> QED BY <2>1, <3>1, <3>2 DEF TimerIsSet, Beating, BeatsTyped
    <2>2. CASE e # d
      BY <2>2 DEF Beating, BeatsTyped, ConnectedBeats, TimerIsSet
    <2> QED BY <2>1, <2>2
  <1>5. HeardOf'
    BY DEF Beating, HeardOf
  <1> QED BY <1>1, <1>2, <1>3, <1>4, <1>5 DEF Beating

LEMMA BeatingTimer ==
  ASSUME NEW d \in Devices, Linked, Beating, TimerFires(d)
  PROVE  Beating'
  <1> USE BeatsAreTimes DEF TimerFires
  <1>1. BeatsTyped'
    BY DEF Beating, BeatsTyped
  <1>2. BeatsAreTimely'
    BY DEF Beating, BeatsTyped, BeatsAreTimely
  <1>3. ResumesAtOnce' /\ HeardOf'
    BY DEF Beating, ResumesAtOnce, HeardOf
  <1>4. ConnectedBeats'
    <2> SUFFICES ASSUME NEW e \in Devices, resuming'[e] = 0, current'[e] \in wire'
                 PROVE  TimerIsSet(e)'
      BY DEF ConnectedBeats
    <2>1. toHub \subseteq toHub'
      BY DEF Beat
    <2>2. CASE e = d
      <3>1. current[d] # Unissued /\ current[d] \in wire
        BY <2>2, ClientsAreDistinct DEF Linked, LinkTyped
      <3>2. <<current'[d], "device:heartbeat">> \in toHub'
        BY <3>1 DEF Beat, Sent
      <3>3. timer'[d] = now' + Period /\ timer'[d] # Unissued
        BY DEF Beating, BeatsTyped
      <3>4. timer'[d] <= now' + Period
        BY <3>3 DEF Beating, BeatsTyped
      <3> QED BY <2>2, <3>2, <3>3, <3>4 DEF TimerIsSet
    <2>3. CASE e # d
      BY <2>1, <2>3 DEF Beating, BeatsTyped, ConnectedBeats, TimerIsSet
    <2> QED BY <2>2, <2>3
  <1> QED BY <1>1, <1>2, <1>3, <1>4 DEF Beating

\* A heartbeat is of the present connection of its device.
LEMMA HeartbeatIsCurrent ==
  ASSUME NEW s \in Sockets, Linked, Handled(s, "device:heartbeat")
  PROVE  /\ owner[s] \in Clients /\ current[owner[s]] = s /\ s \in wire
         /\ \A e \in Devices : e # owner[s] => current[e] # s
         /\ \A u : u # s /\ <<u, "device:heartbeat">> \in toHub
                     => <<u, "device:heartbeat">> \in toHub'
  BY ClientsAreDistinct DEF Handled, Linked, LinkTyped, WiresAreOpen, WiresAreCurrent

LEMMA BeatingHeard ==
  ASSUME NEW s \in Sockets, Linked, Beating, HandleHeartbeat(s),
         excused' = [excused EXCEPT ![owner[s]] = 0],
         UNCHANGED <<current, since, resuming, timer>>
  PROVE  Beating'
  <1> DEFINE d == owner[s]
  <1>1. Handled(s, "device:heartbeat")
    BY DEF HandleHeartbeat
  <1>2. /\ UNCHANGED <<now, wire>>
        /\ \A e \in Devices : device'[e].key = device[e].key
        /\ \A e \in Devices : e # d => /\ device'[e].heartbeat = device[e].heartbeat
                                       /\ excused'[e] = excused[e]
        /\ d \in Devices => device'[d].heartbeat = now /\ excused'[d] = 0
        /\ device' \in [Devices -> DeviceRow] /\ excused' \in [Devices -> Nat]
    BY DEF HandleHeartbeat, Heartbeat, Enrolled, Beating, BeatsTyped, BeatsAreTimely, DeviceRow
  <1> HIDE DEF d
  <1>3. BeatsTyped' /\ BeatsAreTimely' /\ ResumesAtOnce'
    BY <1>2 DEF Beating, BeatsTyped, BeatsAreTimely, ResumesAtOnce
  <1>4. ConnectedBeats'
    <2> SUFFICES ASSUME NEW e \in Devices, resuming[e] = 0, current[e] \in wire
                 PROVE  TimerIsSet(e)'
      BY <1>2 DEF ConnectedBeats
    <2>1. TimerIsSet(e)
      BY DEF Beating, ConnectedBeats
    <2>2. CASE e = d
      <3>1. timer[e] \in Nat /\ device'[e].heartbeat = now /\ excused'[e] = 0 /\ now \in Nat
        BY <1>2, <2>1, <2>2 DEF TimerIsSet, Beating, BeatsTyped
      <3>2. \/ timer[e] <= since[current[e]] + FirstBeat
            \/ timer[e] <= now + Period
        BY <2>1 DEF TimerIsSet
      <3> QED BY <1>2, <2>1, <3>1, <3>2, BeatsAreTimes DEF TimerIsSet
    <2>3. CASE e # d
      BY <1>1, <1>2, <2>1, <2>3, HeartbeatIsCurrent DEF TimerIsSet, d
    <2> QED BY <2>2, <2>3
  <1>5. HeardOf'
    BY <1>2, BeatsAreTimes DEF Beating, BeatsTyped, HeardOf
  <1> QED BY <1>3, <1>4, <1>5 DEF Beating

LEMMA PeriodAdded ==
  ASSUME NEW f \in [Devices -> Nat], NEW d, NEW g, g = [f EXCEPT ![d] = @ + Period]
  PROVE  /\ \A e \in Devices : g[e] = IF e = d THEN f[e] + Period ELSE f[e]
         /\ g \in [Devices -> Nat]
  <1>1. \A e \in Devices : g[e] = IF e = d THEN f[d] + Period ELSE f[e]
    OBVIOUS
  <1>2. \A e \in Devices : f[e] \in Nat /\ f[e] + Period \in Nat
    BY BeatsAreTimes
  <1>3. \A e \in Devices : g[e] \in Nat
    BY <1>1, <1>2
  <1>4. g = [e \in Devices |-> g[e]]
    OBVIOUS
  <1> QED BY <1>1, <1>3, <1>4

LEMMA BeatingSwallowed ==
  ASSUME NEW s \in Sockets, Linked, Beating, SwallowHeartbeat(s),
         excused' = [excused EXCEPT ![owner[s]] = @ + Period],
         UNCHANGED <<current, since, resuming, timer>>
  PROVE  Beating'
  <1> USE BeatsAreTimes
  <1> DEFINE d == owner[s]
  <1>1. Handled(s, "device:heartbeat") /\ UNCHANGED <<now, device, wire>>
    BY DEF SwallowHeartbeat
  <1>2. /\ \A e \in Devices : excused'[e] = IF e = d THEN excused[e] + Period ELSE excused[e]
        /\ excused' \in [Devices -> Nat]
    BY PeriodAdded DEF Beating, BeatsTyped
  <1> HIDE DEF d
  <1>3. BeatsTyped' /\ BeatsAreTimely' /\ ResumesAtOnce'
    BY <1>1, <1>2 DEF Beating, BeatsTyped, BeatsAreTimely, ResumesAtOnce
  <1>4. ASSUME NEW e \in Devices, current[e] \in wire
        PROVE  /\ since[current[e]] \in Nat /\ device[e].heartbeat \in Nat
               /\ now \in Nat /\ excused[e] \in Nat
               /\ \/ now <= since[current[e]] + FirstBeat + excused[e]
                  \/ now <= device[e].heartbeat + Period + excused[e]
    BY <1>4 DEF Linked, LinkTyped, Beating, BeatsTyped, HeardOf, DeviceRow
  <1>5. ConnectedBeats'
    <2> SUFFICES ASSUME NEW e \in Devices, resuming[e] = 0, current[e] \in wire
                 PROVE  TimerIsSet(e)'
      BY <1>1 DEF ConnectedBeats
    <2>1. TimerIsSet(e)
      BY DEF Beating, ConnectedBeats
    <2>2. CASE e = d
      <3>1. timer[e] \in Nat /\ excused'[e] = excused[e] + Period
        BY <1>2, <2>1, <2>2 DEF TimerIsSet, Beating, BeatsTyped
      <3>2. timer[e] <= now + Period =>
              \/ timer[e] <= since[current[e]] + FirstBeat + (excused[e] + Period)
              \/ timer[e] <= device[e].heartbeat + Period + (excused[e] + Period)
        BY <1>4, <3>1
      <3> QED BY <1>1, <2>1, <3>1, <3>2 DEF TimerIsSet
    <2>3. CASE e # d
      BY <1>1, <1>2, <2>1, <2>3, HeartbeatIsCurrent DEF TimerIsSet, d
    <2> QED BY <2>2, <2>3
  <1>6. HeardOf'
    BY <1>1, <1>2, <1>4 DEF HeardOf
  <1> QED BY <1>3, <1>5, <1>6 DEF Beating

LEMMA BeatingTick ==
  ASSUME Linked, Beating, TimePasses
  PROVE  Beating'
  <1> USE BeatsAreTimes DEF TimePasses, Tick, socketVars, sessionVars
  <1>1. BeatsTyped'
    BY DEF Beating, BeatsTyped
  <1>2. BeatsAreTimely'
    <2>1. /\ now \in Nat /\ now' = now + 1 /\ UNCHANGED <<device, timer>>
          /\ \A d \in Devices : timer[d] # now /\ device[d].heartbeat \in Nat
          /\ \A d \in Devices : timer[d] # Unissued => timer[d] \in Nat
      BY DEF Beating, BeatsTyped, DeviceRow
    <2> QED BY <2>1 DEF Beating, BeatsAreTimely
  <1>3. ResumesAtOnce'
    BY DEF ResumesAtOnce
  <1>4. ConnectedBeats' /\ HeardOf'
    <2> SUFFICES ASSUME NEW d \in Devices, current[d] \in wire
                 PROVE  /\ TimerIsSet(d)'
                        /\ \/ now' <= since[current[d]] + FirstBeat + excused[d]
                           \/ now' <= device[d].heartbeat + Period + excused[d]
      BY DEF ConnectedBeats, HeardOf
    <2>1. TimerIsSet(d) /\ toHub = {}
      BY DEF Beating, ConnectedBeats
    <2>2. \/ timer[d] <= since[current[d]] + FirstBeat
          \/ /\ timer[d] <= now + Period
             /\ \/ timer[d] <= since[current[d]] + FirstBeat + excused[d]
                \/ timer[d] <= device[d].heartbeat + Period + excused[d]
      BY <2>1 DEF TimerIsSet
    <2>3. timer[d] \in Nat /\ now' <= timer[d]
      BY <1>2, <2>1 DEF TimerIsSet, Beating, BeatsTyped, BeatsAreTimely
    <2>4. /\ now \in Nat /\ now' = now + 1 /\ since[current[d]] \in Nat
          /\ device[d].heartbeat \in Nat /\ excused[d] \in Nat
      BY <1>1 DEF Beating, BeatsTyped, Linked, LinkTyped, DeviceRow
    <2> QED BY <2>1, <2>2, <2>3, <2>4 DEF TimerIsSet
  <1> QED BY <1>1, <1>2, <1>3, <1>4 DEF Beating

LEMMA BeatingNext == Linked /\ Beating /\ [AgentSessionNext]_allVars => Beating'
  <1> SUFFICES ASSUME Linked, Beating, [AgentSessionNext]_allVars PROVE Beating'
    OBVIOUS
  <1> USE DEF sessionVars, socketVars
  <1>1. CASE GatewayStep
    <2>1. ASSUME NEW s \in Sockets, NEW msg, msg # "device:heartbeat", Handled(s, msg),
                 UNCHANGED <<now, device, wire, sessionVars>>
          PROVE  Beating'
      BY <2>1, BeatingByTraffic DEF Handled
    <2>2. ASSUME NEW s \in Sockets, UNCHANGED <<now, device, sessionVars>>,
                 \/ HandleDeviceConnect(s)
                 \/ \E m \in Meetings : HandleMeetingSubscribe(s, m)
                 \/ \E c \in Challenges : HandleChallengeResponse(s, c)
          PROVE  Beating'
      <3>1. PICK msg : msg # "device:heartbeat" /\ Handled(s, msg) /\ UNCHANGED wire
        BY <2>2, EventsAreNoIds
        DEF HandleDeviceConnect, HandleMeetingSubscribe, HandleChallengeResponse
      <3> QED BY <2>1, <2>2, <3>1
    <2>3. ASSUME UNCHANGED <<now, device, sessionVars>>,
                 \/ \E s \in Sockets : HandleDisconnect(s)
                 \/ \E d \in Devices, c \in Challenges : EmitChallengeToDevice(d, c)
                 \/ \E m \in Meetings : EmitMeetingUpdate(m)
          PROVE  Beating'
      BY <2>3, BeatingByTraffic DEF HandleDisconnect, EmitChallengeToDevice, EmitMeetingUpdate
    <2>4. ASSUME NEW s \in Sockets, UNCHANGED <<current, since, resuming, timer>>,
                 \/ HandleHeartbeat(s) /\ excused' = [excused EXCEPT ![owner[s]] = 0]
                 \/ /\ SwallowHeartbeat(s)
                    /\ excused' = [excused EXCEPT ![owner[s]] = @ + Period]
          PROVE  Beating'
      BY <2>4, BeatingHeard, BeatingSwallowed
    <2>5. ASSUME HubRestarts, UNCHANGED <<now, device, sessionVars>> PROVE Beating'
      BY <2>5, BeatingByTraffic DEF HubRestarts
    <2>6. ASSUME NEW s \in Sockets, Break(s), UNCHANGED <<now, device, sessionVars>>
          PROVE  Beating'
      <3>1. \A u, msg : u # s /\ <<u, msg>> \in toHub => <<u, msg>> \in toHub'
        BY <2>6 DEF Break
      <3> QED BY <2>6, <3>1, BeatingByTraffic DEF Break
    <2> QED BY <1>1, <2>2, <2>3, <2>4, <2>5, <2>6 DEF GatewayStep
  <1>2. ASSUME NEW x \in Clients, NoticeLoss(x) PROVE Beating'
    <2>1. \A e \in Devices : current'[e] \in wire' =>
            current'[e] = current[e] /\ timer'[e] = timer[e]
      BY <1>2, ClientsAreDistinct DEF NoticeLoss, Linked, LinkTyped
    <2>2. \A e \in Devices : timer'[e] # Unissued => timer'[e] = timer[e]
      BY <1>2 DEF NoticeLoss
    <2>3. timer' \in [Devices -> Nat \union {Unissued}]
      BY <1>2 DEF NoticeLoss, Beating, BeatsTyped
    <2>4. UNCHANGED <<now, device, wire, toHub, since, resuming, excused>>
      BY <1>2 DEF NoticeLoss
    <2> QED BY <2>1, <2>2, <2>3, <2>4
      DEF Beating, BeatsTyped, BeatsAreTimely, ResumesAtOnce, ConnectedBeats, HeardOf, TimerIsSet
  <1>3. ASSUME NEW x \in Clients, NEW msg \in ToClient, Receive(x, msg) PROVE Beating'
    BY <1>3, BeatingByTraffic DEF Receive
  <1>4. ASSUME NEW d \in Devices, OrphanFires(d) PROVE Beating'
    BY <1>4, BeatingByTraffic DEF OrphanFires, Beat
  <1>5. CASE UNCHANGED allVars
    BY <1>5, BeatingByTraffic DEF allVars
  <1> QED
    BY <1>1, <1>2, <1>3, <1>4, <1>5, BeatingConnect, BeatingStart, BeatingTimer, BeatingTick
    DEF AgentSessionNext, ClientStep

\* An agent that stays connected beyond its first beat was heard of within a
\* period and one more for each update that handleHeartbeat let fail since,
\* whatever its earlier connections left behind: pending OnConnected handlers,
\* an overwritten timer, a timer set for no connection at all.
THEOREM ConnectedStaysFresh == AgentSessionSpec => []ConnectedIsFresh
  <1>1. Linked /\ Beating => ConnectedIsFresh
    <2> SUFFICES ASSUME Linked, Beating, NEW d \in Devices, current[d] \in wire,
                        now > since[current[d]] + FirstBeat + excused[d]
                 PROVE  now <= device[d].heartbeat + Period + excused[d]
      BY DEF ConnectedIsFresh, Live
    <2>1. now \in Nat /\ since[current[d]] \in Nat /\ excused[d] \in Nat
      BY DEF Linked, LinkTyped, Beating, BeatsTyped
    <2> QED BY <2>1, BeatsAreTimes DEF Beating, HeardOf
  <1> QED BY <1>1, LinkedAlways, BeatingInit, BeatingNext, PTL DEF AgentSessionSpec

-----------------------------------------------------------------------------
(***************************************************************************)
(* The refinement of Gateway.  Beside Linked it needs that what is on its  *)
(* way to a client is on a connection that works: what was in flight on    *)
(* another was lost with it.                                               *)
(***************************************************************************)
DeliveredOnWires == \A s, msg : <<s, msg>> \in toClient => s \in wire

LEMMA DeliveredNext ==
  ASSUME Linked, DeliveredOnWires, [AgentSessionNext]_allVars
  PROVE  DeliveredOnWires'
  <1> USE DEF DeliveredOnWires, socketVars, sessionVars
  <1>1. CASE GatewayStep
    <2>1. ASSUME \/ \E s \in Sockets : \/ HandleDisconnect(s) \/ HandleDeviceConnect(s)
                                       \/ HandleHeartbeat(s) \/ SwallowHeartbeat(s)
                 \/ \E s \in Sockets, m \in Meetings : HandleMeetingSubscribe(s, m)
                 \/ \E s \in Sockets, c \in Challenges : HandleChallengeResponse(s, c)
          PROVE  DeliveredOnWires'
      BY <2>1 DEF HandleDisconnect, HandleDeviceConnect, HandleHeartbeat,
                  SwallowHeartbeat, HandleMeetingSubscribe, HandleChallengeResponse
    <2>2. ASSUME \/ \E d \in Devices, c \in Challenges : EmitChallengeToDevice(d, c)
                 \/ \E m \in Meetings : EmitMeetingUpdate(m)
          PROVE  DeliveredOnWires'
      BY <2>2 DEF EmitChallengeToDevice, EmitMeetingUpdate, Sent
    <2>3. CASE HubRestarts
      BY <2>3 DEF HubRestarts
    <2>4. ASSUME NEW s \in Sockets, Break(s) PROVE DeliveredOnWires'
      BY <2>4 DEF Break
    <2> QED BY <1>1, <2>1, <2>2, <2>3, <2>4 DEF GatewayStep
  <1>2. ASSUME NEW x \in Clients, ClientStep(x) PROVE DeliveredOnWires'
    BY <1>2 DEF ClientStep, Connect, NoticeLoss, Receive
  <1>3. ASSUME NEW d \in Devices, StartHeartbeat(d) \/ TimerFires(d) \/ OrphanFires(d)
        PROVE  DeliveredOnWires'
    BY <1>3 DEF StartHeartbeat, TimerFires, OrphanFires
  <1>4. CASE TimePasses \/ UNCHANGED allVars
    BY <1>4 DEF TimePasses, allVars
  <1> QED BY <1>1, <1>2, <1>3, <1>4 DEF AgentSessionNext

LEMMA DeliveredAlways == AgentSessionSpec => [](Linked /\ DeliveredOnWires)
  <1>1. AgentSessionInit => DeliveredOnWires
    BY DEF AgentSessionInit, SocketsInit, DeliveredOnWires
  <1> QED BY <1>1, LinkedInit, LinkedNext, DeliveredNext, PTL DEF AgentSessionSpec

(* What the three mapped variables show of a step *)

LEMMA SameReachable ==
  ASSUME \A d \in Devices : (deviceSockets'[d] \in wire' /\ deviceSockets'[d] = current'[d])
                        <=> (deviceSockets[d] \in wire /\ deviceSockets[d] = current[d])
  PROVE  UNCHANGED Reachable
  BY DEF Reachable

LEMMA SameInbox ==
  ASSUME \A d \in Devices, c \in Challenges :
           <<current'[d], c>> \in toClient' <=> <<current[d], c>> \in toClient
  PROVE  UNCHANGED Inbox
  BY DEF Inbox

LEMMA SameResponses ==
  ASSUME \A d \in Devices, c \in Challenges :
           <<current'[d], c>> \in toHub' <=> <<current[d], c>> \in toHub
  PROVE  UNCHANGED Responses
  <1>1. UNCHANGED Outbox
    BY DEF Outbox
  <1> QED BY <1>1, Zenon DEF Responses

LEMMA AnswerSeen ==
  ASSUME NEW d \in Devices, NEW c \in Challenges, Outbox' = Outbox \union {<<d, c>>}
  PROVE  Responses' = Responses \union {[challenge |-> c, device |-> d, key |-> 1]}
  <1>1. \A y \in {<<d, c>>} : y[1] = d /\ y[2] = c
    OBVIOUS
  <1> QED BY <1>1, Zenon DEF Responses

\* Devices have connections of their own.
LEMMA OwnConnections ==
  ASSUME Linked, NEW d \in Devices, NEW e \in Clients, current[d] = current[e],
         current[d] # Unissued
  PROVE  d = e
  BY DEF Linked, WiresAreCurrent

\* A message of socket s was handled: an answer of its device, or nothing that
\* the services see.
LEMMA HandledSeen ==
  ASSUME NEW s \in Sockets, NEW msg, Linked, Handled(s, msg),
         UNCHANGED <<wire, deviceSockets, current, toClient>>
  PROVE  LinkStep \/ UNCHANGED <<Reachable, Inbox, Responses>>
  <1>1. UNCHANGED Reachable
    BY SameReachable
  <1>2. UNCHANGED Inbox
    BY SameInbox
  <1>3. owner[s] \in Clients /\ current[owner[s]] = s /\ s # Unissued
    BY ClientsAreDistinct DEF Handled, Linked, WiresAreOpen, WiresAreCurrent
  <1>4. CASE owner[s] \in Devices /\ msg \in Challenges
    <2> DEFINE r == [challenge |-> msg, device |-> owner[s], key |-> 1]
    <2>1. Outbox' = Outbox \ {<<owner[s], msg>>}
      BY <1>3, OwnConnections DEF Handled, Outbox
    <2>2. Outbox \subseteq Devices \X Challenges
      BY DEF Outbox
    <2>3. Responses' = Responses \ {r}
      BY <2>1, <2>2 DEF Responses
    <2> QED BY <1>1, <1>2, <1>4, <2>3 DEF LinkStep
  <1>5. CASE ~(owner[s] \in Devices /\ msg \in Challenges)
    <2>1. \A d \in Devices, c \in Challenges :
            <<current'[d], c>> \in toHub' <=> <<current[d], c>> \in toHub
      BY <1>3, <1>5, OwnConnections DEF Handled
    <2> QED BY <1>1, <1>2, <2>1, SameResponses
  <1> QED BY <1>4, <1>5

LEMMA DeviceConnectSeen ==
  ASSUME NEW s \in Sockets, Linked, HandleDeviceConnect(s), UNCHANGED current
  PROVE  LinkStep \/ UNCHANGED <<Reachable, Inbox, Responses>>
  <1> USE DEF HandleDeviceConnect, Handled
  <1>1. s \in wire /\ owner[s] \in Clients /\ current[owner[s]] = s /\ s # Unissued
    BY ClientsAreDistinct DEF Linked, WiresAreOpen, WiresAreCurrent
  <1>2. UNCHANGED Inbox
    BY SameInbox
  <1>3. UNCHANGED Responses
    BY SameResponses, EventsAreNoIds
  <1>4. CASE owner[s] \in Devices
    <2>1. Reachable' = Reachable \union {owner[s]}
      BY <1>1, <1>4 DEF Reachable, Linked, LinkTyped
    <2> QED BY <1>2, <1>3, <1>4, <2>1 DEF LinkStep, Link!HandleDeviceConnect
  <1>5. CASE owner[s] \notin Devices
    <2>1. UNCHANGED Reachable
      BY <1>5, SameReachable DEF Linked, LinkTyped
    <2> QED BY <1>2, <1>3, <2>1
  <1> QED BY <1>4, <1>5

LEMMA BreakSeen ==
  ASSUME NEW s \in Sockets, Linked, DeliveredOnWires, Break(s), UNCHANGED current
  PROVE  LinkStep \/ UNCHANGED <<Reachable, Inbox, Responses>>
  <1>1. s \in wire /\ owner[s] \in Clients /\ current[owner[s]] = s /\ s # Unissued
    BY ClientsAreDistinct DEF Break, Linked, WiresAreOpen, WiresAreCurrent
  <1>2. /\ \A u, msg : <<u, msg>> \in toHub' <=> <<u, msg>> \in toHub /\ u # s
        /\ \A u, msg : <<u, msg>> \in toClient' <=> <<u, msg>> \in toClient /\ u # s
        /\ wire' = wire \ {s} /\ UNCHANGED deviceSockets
    BY DEF Break
  <1>3. \A d \in Devices : current[d] = s <=> d = owner[s]
    BY <1>1, OwnConnections
  <1>4. CASE owner[s] \in Devices
    <2> DEFINE d == owner[s]
    <2>1. Reachable' = Reachable \ {d}
      BY <1>2, <1>3 DEF Reachable
    <2>2. Inbox' = {m \in Inbox : m[1] # d}
      BY <1>2, <1>3 DEF Inbox
    <2>3. Outbox' = {m \in Outbox : m[1] # d} /\ Outbox \subseteq Devices \X Challenges
      BY <1>2, <1>3 DEF Outbox
    <2>4. Responses' = {r \in Responses : r.device # d}
      BY <2>3 DEF Responses
    <2> QED BY <1>4, <2>1, <2>2, <2>4 DEF LinkStep, Link!HandleDisconnect
  <1>5. CASE owner[s] \notin Devices
    <2>1. UNCHANGED Reachable
      BY <1>2, <1>3, <1>5, SameReachable
    <2>2. UNCHANGED Inbox
      BY <1>2, <1>3, <1>5, SameInbox
    <2>3. UNCHANGED Responses
      BY <1>2, <1>3, <1>5, SameResponses
    <2> QED BY <2>1, <2>2, <2>3
  <1> QED BY <1>4, <1>5

LEMMA EmitSeen ==
  ASSUME NEW d \in Devices, NEW c \in Challenges, Linked, EmitChallengeToDevice(d, c),
         UNCHANGED current
  PROVE  LinkStep
  <1> USE DEF EmitChallengeToDevice, Sent
  <1>1. UNCHANGED Reachable
    BY SameReachable
  <1>2. UNCHANGED Responses
    BY SameResponses
  <1>3. Inbox' = IF d \in Reachable THEN Inbox \union {<<d, c>>} ELSE Inbox
    <2>1. CASE deviceSockets[d] \in wire
      <3>1. current[d] = deviceSockets[d] /\ current[d] # Unissued
        BY <2>1, ClientsAreDistinct DEF Linked, EntriesAreOwned, WiresAreCurrent, LinkTyped
      <3>2. Inbox' = Inbox \union {<<d, c>>}
        BY <2>1, <3>1, OwnConnections DEF Inbox
      <3> QED BY <2>1, <3>1, <3>2 DEF Reachable
    <2>2. CASE deviceSockets[d] \notin wire
      <3>1. toClient' = toClient
        BY <2>2
      <3> QED BY <2>2, <3>1, SameInbox DEF Reachable
    <2> QED BY <2>1, <2>2
  <1> QED BY <1>1, <1>2, <1>3 DEF LinkStep, Link!EmitChallengeToDevice

LEMMA ReceiveSeen ==
  ASSUME NEW x \in Clients, NEW msg \in ToClient, Linked, DeliveredOnWires, Receive(x, msg)
  PROVE  LinkStep \/ UNCHANGED <<Reachable, Inbox, Responses>>
  <1> DEFINE s == current[x]
  <1>1. /\ <<s, msg>> \in toClient
        /\ toClient' = toClient \ {<<s, msg>>}
        /\ toHub' = IF msg \in Challenges THEN toHub \union Sent(s, msg) ELSE toHub
        /\ UNCHANGED <<wire, deviceSockets, current>>
    BY DEF Receive, sessionVars
  <1>2. s \in wire /\ s # Unissued
    BY <1>1, ClientsAreDistinct DEF DeliveredOnWires, Linked, LinkTyped
  <1>3. UNCHANGED Reachable
    BY <1>1, SameReachable
  <1>4. CASE x \in Devices /\ msg \in Challenges
    <2> DEFINE r == [challenge |-> msg, device |-> x, key |-> 1]
    <2>1. Inbox' = Inbox \ {<<x, msg>>} /\ <<x, msg>> \in Inbox
      BY <1>1, <1>2, <1>4, OwnConnections DEF Inbox
    <2>2. Outbox' = Outbox \union {<<x, msg>>} /\ Outbox \subseteq Devices \X Challenges
      BY <1>1, <1>2, <1>4, OwnConnections DEF Outbox, Sent
    <2>3. Responses' = Responses \union {r}
      BY <1>4, <2>2, AnswerSeen
    <2> QED BY <1>3, <1>4, <2>1, <2>3 DEF LinkStep
  <1>5. CASE ~(x \in Devices /\ msg \in Challenges)
    <2>1. \A d \in Devices, c \in Challenges : <<current[d], c>> # <<s, msg>>
      BY <1>2, <1>5, OwnConnections
    <2>2. UNCHANGED Inbox
      BY <1>1, <2>1, SameInbox
    <2>3. UNCHANGED Responses
      BY <1>1, <2>1, SameResponses DEF Sent
    <2> QED BY <1>3, <2>2, <2>3
  <1> QED BY <1>4, <1>5

LEMMA ConnectSeen ==
  ASSUME NEW x \in Clients, Linked, DeliveredOnWires, Connect(x)
  PROVE  UNCHANGED <<Reachable, Inbox, Responses>>
  <1> DEFINE s == FreshSocket
  <1> USE ClientsAreDistinct
  <1>1. s \in Sockets /\ owner[s] = Unissued
    BY DEF Connect, SocketsAreLeft, FreshSocket
  <1> HIDE DEF s
  <1>2. /\ wire' = wire \union {s} /\ current' = [current EXCEPT ![x] = s]
        /\ current[x] = Unissued /\ UNCHANGED <<deviceSockets, toClient>>
    BY DEF Connect, s
  <1>3. \A u, msg : <<u, msg>> \in toHub' =>
          <<u, msg>> \in toHub \/ (u = s /\ (x \in Devices => msg = "device:connect"))
    BY DEF Connect, s
  <1>4. \A u, msg : <<u, msg>> \in toHub => <<u, msg>> \in toHub'
    BY DEF Connect, s
  <1>5. /\ s \notin wire /\ Unissued \notin wire
        /\ \A d \in Devices : deviceSockets[d] # s /\ current[d] # s
    BY <1>1 DEF Linked, LinkTyped, WiresAreCurrent, EntriesAreOwned
  <1>6. \A d \in Devices : current'[d] = IF d = x THEN s ELSE current[d]
    BY <1>2 DEF Linked, LinkTyped
  <1>7. \A msg : /\ <<s, msg>> \notin toHub /\ <<Unissued, msg>> \notin toHub
                 /\ <<s, msg>> \notin toClient /\ <<Unissued, msg>> \notin toClient
    BY <1>5 DEF Linked, WiresAreOpen, DeliveredOnWires
  <1>8. UNCHANGED Reachable
    BY <1>2, <1>5, <1>6, SameReachable
  <1>9. UNCHANGED Inbox
    BY <1>2, <1>6, <1>7, SameInbox
  <1>10. UNCHANGED Responses
    BY <1>2, <1>3, <1>4, <1>5, <1>6, <1>7, EventsAreNoIds, SameResponses
  <1> QED BY <1>8, <1>9, <1>10

LEMMA NoticeLossSeen ==
  ASSUME NEW x \in Clients, Linked, DeliveredOnWires, NoticeLoss(x)
  PROVE  UNCHANGED <<Reachable, Inbox, Responses>>
  <1> USE ClientsAreDistinct DEF NoticeLoss, socketVars
  <1>1. \A d \in Devices : current'[d] = IF d = x THEN Unissued ELSE current[d]
    BY DEF Linked, LinkTyped
  <1>2. Unissued \notin wire /\ current[x] \notin wire
    BY DEF Linked, LinkTyped
  <1>3. UNCHANGED Reachable
    BY <1>1, <1>2, SameReachable
  <1>4. UNCHANGED Inbox
    BY <1>1, <1>2, SameInbox DEF DeliveredOnWires
  <1>5. UNCHANGED Responses
    BY <1>1, <1>2, SameResponses DEF Linked, WiresAreOpen
  <1> QED BY <1>3, <1>4, <1>5

\* No answer, registration or connection is involved.
LEMMA Unseen ==
  ASSUME UNCHANGED <<wire, deviceSockets, current>>,
         \A s : \A c \in Challenges : <<s, c>> \in toClient' <=> <<s, c>> \in toClient,
         \A s : \A c \in Challenges : <<s, c>> \in toHub' <=> <<s, c>> \in toHub
  PROVE  UNCHANGED <<Reachable, Inbox, Responses>>
  BY SameReachable, SameInbox, SameResponses

LEMMA LinkIsSeen ==
  ASSUME Linked, DeliveredOnWires, [AgentSessionNext]_allVars
  PROVE  LinkStep \/ UNCHANGED <<Reachable, Inbox, Responses>>
  <1> DEFINE Seen == LinkStep \/ UNCHANGED <<Reachable, Inbox, Responses>>
  <1> USE DEF sessionVars
  <1>1. CASE GatewayStep
    <2>0. UNCHANGED current
      BY <1>1 DEF GatewayStep
    <2>1. ASSUME NEW s \in Sockets, HandleDisconnect(s) PROVE Seen
      <3>1. \A d \in Devices : deviceSockets'[d] = deviceSockets[d] \/
                               (deviceSockets'[d] = Unissued /\ deviceSockets[d] = s)
        BY <2>1 DEF HandleDisconnect, Linked, LinkTyped
      <3>2. s \notin wire /\ Unissued \notin wire
        BY <2>1, ClientsAreDistinct DEF HandleDisconnect, Linked, LinkTyped
      <3>3. UNCHANGED Reachable
        BY <2>0, <2>1, <3>1, <3>2, SameReachable DEF HandleDisconnect
      <3>4. UNCHANGED <<Inbox, Responses>>
        BY <2>0, <2>1, SameInbox, SameResponses DEF HandleDisconnect
      <3> QED BY <3>3, <3>4
    <2>2. ASSUME NEW s \in Sockets, HandleDeviceConnect(s) PROVE Seen
      BY <2>0, <2>2, DeviceConnectSeen
    <2>3. ASSUME NEW s \in Sockets, NEW m \in Meetings, HandleMeetingSubscribe(s, m)
          PROVE  Seen
      BY <2>0, <2>3, HandledSeen DEF HandleMeetingSubscribe
    <2>4. ASSUME NEW s \in Sockets, NEW c \in Challenges, HandleChallengeResponse(s, c)
          PROVE  Seen
      BY <2>0, <2>4, HandledSeen DEF HandleChallengeResponse
    <2>5. ASSUME NEW s \in Sockets, HandleHeartbeat(s) \/ SwallowHeartbeat(s) PROVE Seen
      BY <2>0, <2>5, HandledSeen DEF HandleHeartbeat, SwallowHeartbeat
    <2>6. ASSUME NEW d \in Devices, NEW c \in Challenges, EmitChallengeToDevice(d, c)
          PROVE  Seen
      BY <2>0, <2>6, EmitSeen
    <2>7. ASSUME NEW m \in Meetings, EmitMeetingUpdate(m) PROVE Seen
      <3> DEFINE Updated == meetingSockets[m] \union {u \in hubSide : owner[u] \in Pages}
                 Updates == UNION {Sent(u, "meeting:status-update") : u \in Updated}
      <3>0. toClient' = toClient \union Updates
        BY <2>7 DEF EmitMeetingUpdate
      <3>2. \A y \in Updates : y[2] = "meeting:status-update"
        BY DEF Sent
      <3> HIDE DEF Updates
      <3>1. \A s : \A c \in Challenges : <<s, c>> \in toClient' <=> <<s, c>> \in toClient
        BY <3>0, <3>2, EventsAreNoIds
      <3> QED BY <2>0, <2>7, <3>1, Unseen DEF EmitMeetingUpdate
    <2>8. CASE HubRestarts
      <3>1. Reachable' = {} /\ Inbox' = {} /\ Outbox' = {}
        BY <2>8 DEF HubRestarts, Reachable, Inbox, Outbox
      <3>2. Responses' = {}
        BY <3>1 DEF Responses
      <3> QED BY <3>1, <3>2 DEF LinkStep
    <2>9. ASSUME NEW s \in Sockets, Break(s) PROVE Seen
      BY <2>0, <2>9, BreakSeen
    <2> QED BY <1>1, <2>1, <2>2, <2>3, <2>4, <2>5, <2>6, <2>7, <2>8, <2>9 DEF GatewayStep
  <1>2. ASSUME NEW x \in Clients, ClientStep(x) PROVE Seen
    BY <1>2, ConnectSeen, NoticeLossSeen, ReceiveSeen DEF ClientStep
  <1>3. ASSUME NEW d \in Devices, StartHeartbeat(d) PROVE Seen
    BY <1>3, Unseen DEF StartHeartbeat, socketVars
  <1>4. ASSUME NEW d \in Devices, TimerFires(d) \/ OrphanFires(d) PROVE Seen
    <2>1. \A s : \A c \in Challenges : <<s, c>> \in toHub' <=> <<s, c>> \in toHub
      BY <1>4, EventsAreNoIds DEF TimerFires, OrphanFires, Beat, Sent
    <2> QED BY <1>4, <2>1, Unseen DEF TimerFires, OrphanFires
  <1>5. CASE TimePasses \/ UNCHANGED allVars
    BY <1>5, Unseen DEF TimePasses, allVars, socketVars
  <1> QED BY <1>1, <1>2, <1>3, <1>4, <1>5 DEF AgentSessionNext

\* Sockets that die at one end first, late closes, re-registrations and the
\* messages between them are, to the services, a link that is up or down for a
\* device and carries challenges one way and answers the other: the Gateway
\* and Companion of TrustHub are sound abstractions of the sockets.
THEOREM SocketsImplementGateway == AgentSessionSpec => ImplementsGateway
  <1>1. Linked /\ DeliveredOnWires /\ [AgentSessionNext]_allVars
          => [LinkStep]_<<Reachable, Inbox, Responses>>
    BY LinkIsSeen
  <1> QED BY <1>1, DeliveredAlways, PTL DEF AgentSessionSpec, ImplementsGateway
=============================================================================
