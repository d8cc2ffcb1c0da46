----------------------------- MODULE Dashboard -----------------------------
(***************************************************************************)
(* The dashboard page (apps/web/src/app/dashboard/page.tsx) and what it    *)
(* asks of the Hub: the demo tenant, the statistics and the two lists.     *)
(*                                                                         *)
(* The page polls; its calls of fetchAll overlap, are cancelled and fail,  *)
(* and put demo data in the place of what they could not get.  Each of the *)
(* ten queries behind a reply is answered at a moment of its own, so a     *)
(* call remembers every state of the rows it may be answered from.         *)
(***************************************************************************)
EXTENDS TrustHub

CONSTANTS
  TenantRows,   \* the meetings and devices of the demo tenant
  Calls,        \* bound: calls of fetchAll in progress
  MaxLost,      \* bound: requests of the page that fail
  Mock,         \* the demo data: MOCK_TENANT_ID, MOCK_STATS, ...
  ErrorReply    \* the JSON body of an error

ASSUME DashboardAssumption == MaxLost \in Nat

VARIABLES
  dash,   \* what the page shows
  call    \* calls of fetchAll

dashVars == <<dash, call>>
allVars == <<vars, dashVars>>

\* Of the demo tenant, whose audit events name its meetings and devices.
OfTenant(x) == IF x \in Participants THEN MeetingOf[x] \in TenantRows ELSE x \in TenantRows

-----------------------------------------------------------------------------
(* What the Hub answers *)

TenantDevices == {d \in Devices : Enrolled(d) /\ OfTenant(d)}
Joined == {p \in Participants : participant[p].joined}

\* listByTenant, reduced to what the page shows of a meeting, and findByTenant.
MeetingList == [m \in meeting \cap TenantRows |->
                  {<<p, participant[p].status>> : p \in {q \in Joined : MeetingOf[q] = m}}]
DeviceList == {<<d, device[d].status>> : d \in TenantDevices}

\* The participants are counted in every tenant, everything else in one.
Rows == [
  devices      |-> Cardinality(TenantDevices),
  active       |-> Cardinality({d \in TenantDevices : device[d].status = "ACTIVE"}),
  hardware     |-> Cardinality(TenantDevices \cap TpmDevices),
  meetings     |-> Cardinality(meeting \cap TenantRows),
  participants |-> Cardinality(Joined),
  verified     |-> Cardinality({p \in Joined : participant[p].status = "VERIFIED"}),
  failed       |-> Cardinality({p \in Joined : participant[p].status = "FAILED"}),
  events       |-> Cardinality({e \in audit : OfTenant(e.subject)}),
  meetingList  |-> MeetingList,
  deviceList   |-> DeviceList]

\* Math.round(a / b * 100)
Percent(a, b) == (200 * a + b) \div (2 * b)

Stats(n) == [count |-> n,
             rate |-> IF n.participants > 0 THEN Percent(n.verified, n.participants) ELSE 0]

\* getStats of rows that change between its eight queries.
StatsOf(seen) ==
  LET Seen(q) == {r[q] : r \in seen} IN
  {Stats(n) : n \in [devices: Seen("devices"), active: Seen("active"),
                     hardware: Seen("hardware"), meetings: Seen("meetings"),
                     participants: Seen("participants"), verified: Seen("verified"),
                     failed: Seen("failed"), events: Seen("events")]}

-----------------------------------------------------------------------------
Idle == [pc |-> "idle", live |-> FALSE, seen |-> {}]

\* What no reply, or an error reply, leaves in the place of a list.
NoMeetings == [m \in {} |-> {}]

\* effect is the usingMock of the effect that runs.
DashboardInit ==
  /\ Init
  /\ dash = [tenant |-> Unissued, stats |-> Unissued, meetings |-> NoMeetings,
             devices |-> {}, usingMock |-> FALSE, effect |-> FALSE,
             crashed |-> FALSE, lost |-> 0]
  /\ call = [f \in Calls |-> Idle]

\* A step of a call, which then is at pc.
At(f, pc) == call' = [call EXCEPT ![f].pc = pc]
Return(f) == call' = [call EXCEPT ![f] = Idle]

\* The page shows d, respectively shows d because a request failed.
Showing(d) == dash' = d /\ UNCHANGED vars
Losing(d) == dash.lost < MaxLost /\ Showing([d EXCEPT !.lost = @ + 1])

\* Mutant: as the comment has it, only when the real API is available.
PollWithoutMock(f) ==
  /\ ~dash.crashed /\ ~dash.effect
  /\ call[f].pc = "idle"
  /\ call' = [call EXCEPT ![f] = [pc |-> "tenant", live |-> TRUE, seen |-> {}]]
  /\ UNCHANGED <<vars, dash>>

\* At the start of the effect and every 5 s, or 30 s, however long calls take.
Poll(f) ==
  /\ ~dash.crashed
  /\ call[f].pc = "idle"
  /\ call' = [call EXCEPT ![f] = [pc |-> "tenant", live |-> TRUE, seen |-> {}]]
  /\ UNCHANGED <<vars, dash>>

\* GET /tenants/demo: there is one since the Hub started.
GetDemoTenant(f) ==
  /\ call[f].pc = "tenant" /\ call[f].live
  /\ Showing([dash EXCEPT !.tenant = "demo"])
  /\ call' = [call EXCEPT ![f].pc = "asked", ![f].seen = {Rows}]

\* The three replies are there: the rows as they are from now on are not in them.
Replied(f) ==
  /\ call[f].pc = "asked" /\ call[f].live
  /\ At(f, "replied")
  /\ Showing(dash)

\* `if (cancelled) return`, after the first and after the other requests.
Cancelled(f) ==
  /\ call[f].pc \in {"tenant", "asked"} /\ ~call[f].live
  /\ Return(f)
  /\ Showing(dash)

\* The bodies are read one after the other; nobody looks at cancelled any more.
\* An error reply shows as it is, or as an empty list.
ShowStats(f) ==
  /\ call[f].pc = "replied"
  /\ At(f, "stats")
  /\ \/ \E s \in StatsOf(call[f].seen) : Showing([dash EXCEPT !.stats = s])
     \/ Losing([dash EXCEPT !.stats = ErrorReply])

ShowMeetings(f) ==
  /\ call[f].pc = "stats"
  /\ At(f, "meetings")
  /\ \/ \E r \in call[f].seen : Showing([dash EXCEPT !.meetings = r.meetingList])
     \/ Losing([dash EXCEPT !.meetings = NoMeetings])

ShowDevices(f) ==
  /\ call[f].pc = "meetings"
  /\ Return(f)
  /\ LET real == [dash EXCEPT !.usingMock = FALSE] IN
     \/ \E r \in call[f].seen : Showing([real EXCEPT !.devices = r.deviceList])
     \/ Losing([real EXCEPT !.devices = {}])

\* A request or a body fails, or the tenant's reply is an error: demo data,
\* unless the call is cancelled.
FetchFails(f) ==
  /\ call[f].pc # "idle"
  /\ Return(f)
  /\ Losing(IF call[f].live
              THEN [dash EXCEPT !.tenant = Mock, !.stats = Mock, !.meetings = Mock,
                                !.devices = Mock, !.usingMock = TRUE]
              ELSE dash)

\* Another usingMock: the effect is cleaned up and runs again.
RunEffect ==
  /\ ~dash.crashed
  /\ dash.effect # dash.usingMock
  /\ Showing([dash EXCEPT !.effect = dash.usingMock])
  /\ call' = [f \in Calls |-> [call[f] EXCEPT !.live = FALSE]]

\* There is no stats.participants in an error, and no boundary catches it.
Render ==
  /\ ~dash.crashed
  /\ dash.stats = ErrorReply
  /\ Showing([dash EXCEPT !.crashed = TRUE])
  /\ call' = [f \in Calls |-> [call[f] EXCEPT !.live = FALSE]]

FetchStep(f) == \/ GetDemoTenant(f) \/ Replied(f) \/ Cancelled(f)
                \/ ShowStats(f) \/ ShowMeetings(f) \/ ShowDevices(f)

\* The rows change while calls wait for their replies; no agent changes what is
\* counted but by an enrolment.
HubChanges ==
  /\ Meeting \/ Enrolling \/ Challenging
  /\ call' = [f \in Calls |->
       IF call[f].pc = "asked" THEN [call[f] EXCEPT !.seen = @ \union {Rows'}] ELSE call[f]]
  /\ UNCHANGED dash

DashboardNext ==
  \/ \E f \in Calls : Poll(f) \/ FetchStep(f) \/ FetchFails(f)
  \/ RunEffect \/ Render
  \/ HubChanges

DashboardSpec == DashboardInit /\ [][DashboardNext]_allVars

(***************************************************************************)
(* Fairness: requests are answered or fail, their replies are handled, the *)
(* timer of the effect fires, React renders and runs effects.              *)
(***************************************************************************)
FairDashboardSpec ==
  /\ DashboardSpec
  /\ \A f \in Calls : WF_allVars(Poll(f)) /\ WF_allVars(FetchStep(f))
  /\ WF_allVars(RunEffect)

-----------------------------------------------------------------------------
\* Whatever failed on the way, whichever calls overlapped or were cancelled
\* half-way, once the rows are at rest the page comes to show them and no demo
\* data, unless an error in the place of the statistics has brought it down.
DashboardCatchesUp ==
  <>[](dash.crashed \/ /\ dash.tenant = "demo" /\ ~dash.usingMock
                       /\ dash.stats \in StatsOf({Rows})
                       /\ dash.meetings = MeetingList
                       /\ dash.devices = DeviceList)
=============================================================================
