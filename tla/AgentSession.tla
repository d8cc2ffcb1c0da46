---------------------------- MODULE AgentSession ----------------------------
(***************************************************************************)
(* Running agents (Services/WebSocketService.cs) and open meeting pages at *)
(* the other end of the gateway's sockets: they connect, register, beat,   *)
(* answer, notice that a connection is gone and connect again for ever.    *)
(*                                                                         *)
(* A tick of the clock is longer than it takes to deliver a message and to *)
(* run what waits for it, and at least as short as the agent's timers.     *)
(***************************************************************************)
EXTENDS GatewaySockets

CONSTANTS
  FirstBeat, Period   \* due time and period of the heartbeat timer (30 s, 60 s)

ASSUME BeatsAreTimes == FirstBeat \in Nat \ {0} /\ Period \in Nat \ {0} /\ Unissued \notin Nat

VARIABLES
  current,    \* the socket of each client while it believes to be connected
  since,      \* when each socket was opened
  resuming,   \* handlers of OnConnected that wait for the emit to return
  timer,      \* when _heartbeatTimer fires next, or Unissued for null
  orphans,    \* timers that were overwritten and not disposed
  excused     \* history: a period for each heartbeat of this connection that
              \* was swallowed since one was stored

sessionVars == <<current, since, resuming, timer, orphans, excused>>
storeRest == <<meeting, participant, challenge, token, redis, audit, deviceServiceVars>>
allVars == <<now, device, faults, storeRest, socketVars, sessionVars>>

AgentSessionTypeOK ==
  /\ SocketsTypeOK
  /\ current \in [Clients -> Sockets \union {Unissued}]
  /\ since \in [Sockets -> Nat]
  /\ resuming \in [Devices -> Nat]
  /\ timer \in [Devices -> Nat \union {Unissued}]
  /\ orphans \in [Devices -> SUBSET Nat]
  /\ excused \in [Devices -> Nat]

\* The agents have enrolled at time 0 and are about to call ConnectAsync.
AgentSessionInit ==
  /\ now = 0 /\ faults = 0
  /\ meeting = Meetings
  /\ participant = [p \in Participants |->
       [joined |-> FALSE, device |-> NoDevice, status |-> "UNKNOWN", reason |-> "none"]]
  /\ device = [d \in Devices |-> [key |-> 1, status |-> "ACTIVE", heartbeat |-> 0]]
  /\ challenge = [c \in Challenges |-> Unissued]
  /\ token = [t \in Tokens |-> Unissued]
  /\ redis = {} /\ audit = {}
  /\ DeviceServiceInit
  /\ SocketsInit
  /\ current = [x \in Clients |-> Unissued]
  /\ since = [s \in Sockets |-> 0]
  /\ resuming = [d \in Devices |-> 0]
  /\ timer = [d \in Devices |-> Unissued]
  /\ orphans = [d \in Devices |-> {}]
  /\ excused = [d \in Devices |-> 0]

-----------------------------------------------------------------------------
\* client.id of a new connection: which of the unused ones is all the same.
SocketsAreLeft == \E s \in Sockets : owner[s] = Unissued
FreshSocket == CHOOSE s \in Sockets : owner[s] = Unissued

\* Mutant: no reconnection.
ConnectOnce(x) ==
  LET s == FreshSocket IN
  /\ current[x] = Unissued
  /\ \A u \in Sockets : owner[u] # x
  /\ SocketsAreLeft
  /\ owner' = [owner EXCEPT ![s] = x]
  /\ wire' = wire \union {s} /\ hubSide' = hubSide \union {s}
  /\ current' = [current EXCEPT ![x] = s]
  /\ since' = [since EXCEPT ![s] = now]
  /\ excused' = [d \in Devices |-> IF d = x THEN 0 ELSE excused[d]]
  /\ IF x \in Devices
       THEN /\ toHub' = toHub \union {<<s, "device:connect">>}
            /\ resuming' = [resuming EXCEPT ![x] = @ + 1]
       ELSE /\ toHub' = toHub \union {<<s, m>> : m \in Meetings}
            /\ UNCHANGED resuming
  /\ UNCHANGED <<now, device, faults, storeRest, deviceSockets, meetingSockets,
                 toClient, timer, orphans>>

\* The client connects, or connects again.  OnConnected of an agent registers
\* it and waits for that to be sent; a page subscribes to its meeting.
Connect(x) ==
  LET s == FreshSocket IN
  /\ current[x] = Unissued
  /\ SocketsAreLeft
  /\ owner' = [owner EXCEPT ![s] = x]
  /\ wire' = wire \union {s} /\ hubSide' = hubSide \union {s}
  /\ current' = [current EXCEPT ![x] = s]
  /\ since' = [since EXCEPT ![s] = now]
  /\ excused' = [d \in Devices |-> IF d = x THEN 0 ELSE excused[d]]
  /\ IF x \in Devices
       THEN /\ toHub' = toHub \union {<<s, "device:connect">>}
            /\ resuming' = [resuming EXCEPT ![x] = @ + 1]
       ELSE /\ toHub' = toHub \union {<<s, m>> : m \in Meetings}
            /\ UNCHANGED resuming
  /\ UNCHANGED <<now, device, faults, storeRest, deviceSockets, meetingSockets,
                 toClient, timer, orphans>>

\* The rest of OnConnected, by then of a connection that may be gone: a new
\* timer takes the place of the one there is, which nothing disposes.
StartHeartbeat(d) ==
  /\ resuming[d] > 0
  /\ resuming' = [resuming EXCEPT ![d] = @ - 1]
  /\ timer' = [timer EXCEPT ![d] = now + FirstBeat]
  /\ orphans' = [orphans EXCEPT ![d] = @ \union ({timer[d]} \ {Unissued})]
  /\ UNCHANGED <<now, device, faults, storeRest, socketVars, current, since, excused>>

\* OnDisconnected, which disposes the timer.
NoticeLoss(x) ==
  /\ current[x] # Unissued
  /\ current[x] \notin wire
  /\ current' = [current EXCEPT ![x] = Unissued]
  /\ timer' = [d \in Devices |-> IF d = x THEN Unissued ELSE timer[d]]
  /\ UNCHANGED <<now, device, faults, storeRest, socketVars, since, resuming, orphans,
                 excused>>

\* The callback of a timer.
Beat(d) == toHub' = toHub \union
             IF current[d] = Unissued THEN {} ELSE Sent(current[d], "device:heartbeat")

\* Mutant: the timer has no period.
TimerFiresOnce(d) ==
  /\ timer[d] = now
  /\ timer' = [timer EXCEPT ![d] = Unissued]
  /\ Beat(d)
  /\ UNCHANGED <<now, device, faults, storeRest, wire, hubSide, owner, deviceSockets,
                 meetingSockets, toClient, current, since, resuming, orphans, excused>>

TimerFires(d) ==
  /\ timer[d] = now
  /\ timer' = [timer EXCEPT ![d] = now + Period]
  /\ Beat(d)
  /\ UNCHANGED <<now, device, faults, storeRest, wire, hubSide, owner, deviceSockets,
                 meetingSockets, toClient, current, since, resuming, orphans, excused>>

\* An overwritten timer goes on firing until the garbage collector stops it.
OrphanFires(d) ==
  /\ now \in orphans[d]
  /\ \E next \in {{now + Period}, {}} :
       orphans' = [orphans EXCEPT ![d] = (@ \ {now}) \union next]
  /\ Beat(d)
  /\ UNCHANGED <<now, device, faults, storeRest, wire, hubSide, owner, deviceSockets,
                 meetingSockets, toClient, current, since, resuming, timer, excused>>

\* challenge:issue is signed and answered; a status update makes a page fetch.
Receive(x, msg) ==
  LET s == current[x] IN
  /\ <<s, msg>> \in toClient
  /\ toClient' = toClient \ {<<s, msg>>}
  /\ toHub' = IF msg \in Challenges THEN toHub \union Sent(s, msg) ELSE toHub
  /\ UNCHANGED <<now, device, faults, storeRest, wire, hubSide, owner, deviceSockets,
                 meetingSockets, sessionVars>>

\* Time passes when nothing that is due is left to do.
TimePasses ==
  /\ toHub = {} /\ toClient = {}
  /\ \A d \in Devices : resuming[d] = 0 /\ timer[d] # now /\ now \notin orphans[d]
  /\ Tick
  /\ UNCHANGED <<enroll, socketVars, sessionVars>>

-----------------------------------------------------------------------------
GatewayStep ==
  \/ /\ \/ \E s \in Sockets : HandleDisconnect(s) \/ HandleDeviceConnect(s)
        \/ \E s \in Sockets, m \in Meetings : HandleMeetingSubscribe(s, m)
        \/ \E s \in Sockets, c \in Challenges : HandleChallengeResponse(s, c)
        \/ \E d \in Devices, c \in Challenges : EmitChallengeToDevice(d, c)
        \/ \E m \in Meetings : EmitMeetingUpdate(m)
     /\ UNCHANGED <<now, device, faults, storeRest, sessionVars>>
  \/ \E s \in Sockets :
       /\ \/ HandleHeartbeat(s) /\ excused' = [excused EXCEPT ![owner[s]] = 0]
          \/ SwallowHeartbeat(s) /\ excused' = [excused EXCEPT ![owner[s]] = @ + Period]
       /\ UNCHANGED <<current, since, resuming, timer, orphans>>
  \/ /\ HubRestarts \/ \E s \in Sockets : Break(s)
     /\ UNCHANGED <<now, device, storeRest, sessionVars>>

ClientStep(x) ==
  \/ Connect(x)
  \/ NoticeLoss(x)
  \/ \E msg \in ToClient : Receive(x, msg)

AgentSessionNext ==
  \/ GatewayStep
  \/ \E x \in Clients : ClientStep(x)
  \/ \E d \in Devices : StartHeartbeat(d) \/ TimerFires(d) \/ OrphanFires(d)
  \/ TimePasses

AgentSessionSpec == AgentSessionInit /\ [][AgentSessionNext]_allVars

(***************************************************************************)
(* Fairness: the Hub handles what arrives and notices lost connections     *)
(* (ping timeout), and so do the clients, which reconnect for ever.        *)
(***************************************************************************)
FairAgentSessionSpec ==
  /\ AgentSessionSpec
  /\ \A s \in Sockets :
       WF_allVars((HandleDisconnect(s) \/ HandleDeviceConnect(s))
                  /\ UNCHANGED <<now, device, faults, storeRest, sessionVars>>)
  /\ \A x \in Clients : WF_allVars(NoticeLoss(x)) /\ WF_allVars(Connect(x))

-----------------------------------------------------------------------------
\* The device is registered by a connection that works and is its agent's.
Live(d) == current[d] \in wire /\ <<current[d], "device:connect">> \notin toHub

\* An agent whose registration was handled on the connection it still has is
\* in the map with that very socket: no late disconnect of an earlier one has
\* removed it.
ConnectedIsReachable == \A d \in Devices : Live(d) => deviceSockets[d] = current[d]

\* An agent that stays connected beyond its first beat was heard of by the Hub
\* within a period, whatever timers its earlier connections left behind; each
\* update that handleHeartbeat lets fail in silence costs it one more period,
\* and the next that does not fail makes up for all of them.
ConnectedIsFresh ==
  \A d \in Devices :
    Live(d) /\ now > since[current[d]] + FirstBeat + excused[d]
      => now <= device[d].heartbeat + Period + excused[d]

(***************************************************************************)
(* The gateway as the services see it: a device is registered while the    *)
(* socket in the map is its agent's and works.                             *)
(***************************************************************************)
Reachable == {d \in Devices : deviceSockets[d] \in wire /\ deviceSockets[d] = current[d]}
Inbox == {y \in Devices \X Challenges : <<current[y[1]], y[2]>> \in toClient}
Outbox == {y \in Devices \X Challenges : <<current[y[1]], y[2]>> \in toHub}
Responses == {[challenge |-> y[2], device |-> y[1], key |-> 1] : y \in Outbox}

Link == INSTANCE Gateway WITH
  deviceSockets <- Reachable, inbox <- Inbox, responses <- Responses

LinkStep ==
  \/ Reachable' = {} /\ Inbox' = {} /\ Responses' = {}   \* TrustHub's HubRestart
  \/ \E d \in Devices :
       \/ Link!HandleDeviceConnect(d) /\ UNCHANGED <<Inbox, Responses>>
       \/ Link!HandleDisconnect(d)
       \/ \E c \in Challenges :
            \/ Link!EmitChallengeToDevice(d, c) /\ UNCHANGED <<Reachable, Responses>>
            \/ LET r == [challenge |-> c, device |-> d, key |-> 1] IN
               \/ Inbox' = Inbox \ {<<d, c>>} /\ Responses' = Responses \union {r}
                  /\ <<d, c>> \in Inbox /\ UNCHANGED Reachable
               \/ Responses' = Responses \ {r} /\ UNCHANGED <<Reachable, Inbox>>

\* Seen through that mapping, sockets that die at one end first, late closes
\* and re-registrations are what Gateway and Companion say of the link.
ImplementsGateway == [][LinkStep]_<<Reachable, Inbox, Responses>>

\* An agent is registered again, on a connection that works, after every loss:
\* broken connections, restarts of the Hub and closes it notices late.
LostAgentReturns == \A d \in Devices : []<>(d \in Reachable)
=============================================================================
