---------------------------- MODULE ZoomMeeting ----------------------------
(***************************************************************************)
(* The live meeting page (apps/web/src/app/zoom-meeting/page.tsx) beside   *)
(* the Hub and the agent on its machine.                                   *)
(*                                                                         *)
(* The page sets a meeting up, one awaited request after the other, then   *)
(* polls what it shows and has a button for challenge rounds.  A request   *)
(* and what the Hub or the agent does on it are one action; the requests   *)
(* that are more than one step there are awaited here.  Everything else    *)
(* the Hub does goes on meanwhile.  The audit trail, fetched and replaced  *)
(* with the participants, is left out, and so is closing the page.         *)
(***************************************************************************)
EXTENDS TrustHub, Sequences

CONSTANTS
  PageMeeting, PageDevice,   \* the page's meeting and the agent of its machine
  Seats,          \* DEMO_PARTICIPANTS, in order
  EnrolledSeats,  \* those with isEnrolled
  Fetches,        \* bound: overlapping calls of fetchData
  MaxLost         \* bound: requests of the page that fail

ASSUME SeatsAreParticipants ==
  /\ Seats \in Seq(Participants) /\ Seats # <<>>
  /\ EnrolledSeats \subseteq {Seats[n] : n \in DOMAIN Seats}
  /\ \A n \in DOMAIN Seats : MeetingOf[Seats[n]] = PageMeeting
  /\ PageDevice \in Devices
  /\ MaxLost \in Nat

VARIABLES
  page,    \* the state of the component and of the calls in progress
  fetch    \* the replies on their way to calls of fetchData

pageVars == <<page, fetch>>
allVars == <<vars, pageVars>>

\* seat counts the participants added, ids are the enrolled ones yet to bind.
\* "stuck" is a setup ended by an exception: setupDone forbids another.
PageRecord == [step: {"meeting", "join", "token", "sign", "bind", "ready", "live", "stuck"},
               seat: Nat, ids: Seq(Participants), token: Tokens \union {Unissued},
               button: {"idle", "posting", "cooling"},
               round: IssueCalls \union {Unissued},
               shown: [Participants -> TrustStatus \union {"absent"}], lost: Nat]

\* The participants of the reply of GET /meetings/:id.
View == [p \in Participants |->
           IF participant[p].joined THEN participant[p].status ELSE "absent"]
EmptyList == [p \in Participants |-> "absent"]

PageTypeOK ==
  /\ TypeOK
  /\ page \in PageRecord
  /\ fetch \in [Fetches -> {Unissued} \union [Participants -> TrustStatus \union {"absent"}]]

PageInit ==
  /\ Init
  /\ page = [step |-> "meeting", seat |-> 0, ids |-> <<>>, token |-> Unissued,
             button |-> "idle", round |-> Unissued, shown |-> EmptyList, lost |-> 0]
  /\ fetch = [f \in Fetches |-> Unissued]

Lost(pg) == page.lost < MaxLost /\ page' = [pg EXCEPT !.lost = @ + 1]

-----------------------------------------------------------------------------
(* Setup *)

\* The next enrolled participant to bind, or the meeting is ready.
ToBinding(pg) == [pg EXCEPT !.step = IF pg.ids = <<>> THEN "ready" ELSE "token"]
NextBinding == ToBinding([page EXCEPT !.ids = Tail(@), !.token = Unissued])

\* The demo tenant, then POST /meetings.
PageCreate ==
  /\ page.step = "meeting"
  /\ Create(PageMeeting)
  /\ page' = [page EXCEPT !.step = IF faults' = faults THEN "join" ELSE "stuck"]
  /\ UNCHANGED <<gatewayVars, deviceServiceVars, challengeServiceVars, agent, fetch>>

\* Mutant: a participant missing in the reply is passed over.
SeatedIfAnswered(p, ok) ==
  LET pg == [page EXCEPT !.seat = @ + 1,
                         !.ids = IF p \in EnrolledSeats /\ ok THEN Append(@, p) ELSE @]
  IN IF pg.seat = Len(Seats) THEN ToBinding(pg) ELSE pg

\* The reply of the POST for participant p.  An error reply has no participant:
\* reading its id throws for an enrolled one and is not done for the others.
Seated(p, ok) ==
  LET pg == [page EXCEPT !.seat = @ + 1,
                         !.ids = IF p \in EnrolledSeats THEN Append(@, p) ELSE @]
  IN IF p \in EnrolledSeats /\ ~ok THEN [page EXCEPT !.step = "stuck"]
     ELSE IF pg.seat = Len(Seats) THEN ToBinding(pg) ELSE pg

PageJoin ==
  LET p == Seats[page.seat + 1] IN
  /\ page.step = "join"
  /\ AddParticipant(p)
  /\ page' = Seated(p, faults' = faults)
  /\ UNCHANGED <<gatewayVars, deviceServiceVars, challengeServiceVars, agent, fetch>>

\* The Hub answers with an error and has stored nothing.
PageJoinRefused ==
  /\ page.step = "join"
  /\ Lost(Seated(Seats[page.seat + 1], FALSE))
  /\ UNCHANGED <<vars, fetch>>

\* A fetch throws: the outer catch ends the setup.
PageUnreachable ==
  /\ page.step \in {"meeting", "join"}
  /\ Lost([page EXCEPT !.step = "stuck"])
  /\ UNCHANGED <<vars, fetch>>

PageToken(t) ==
  /\ page.step = "token"
  /\ IssueJoinToken(t, PageMeeting, Head(page.ids))
  /\ page' = [page EXCEPT !.step = "sign", !.token = t]
  /\ UNCHANGED <<gatewayVars, deviceServiceVars, challengeServiceVars, agent, fetch>>

\* POST /bind to the agent.
PageSign ==
  /\ page.step = "sign"
  /\ AgentSignBinding(PageDevice, page.token, PageMeeting)
  /\ page' = [page EXCEPT !.step = "bind"]
  /\ UNCHANGED <<challengeServiceVars, fetch>>

\* No agent listens: the inner catch goes on with the next participant.
PageNoAgent ==
  /\ page.step = "sign"
  /\ agent[PageDevice].pc # "up"
  /\ page' = NextBinding
  /\ UNCHANGED <<vars, fetch>>

\* The reply to the request the agent signed, a refusal too, is not looked at.
PageBound ==
  /\ page.step = "bind"
  /\ \E b \in BindCalls : /\ bind[b].pc \in {"done", "rejected", "aborted"}
                          /\ bind[b].request.token = page.token
  /\ page' = NextBinding
  /\ UNCHANGED <<vars, fetch>>

\* A fetch of the three throws, or the token request is refused: the agent then
\* refuses to sign and the Hub to bind, which is not looked at either.
PageSkipBinding ==
  /\ page.step \in {"token", "sign", "bind"}
  /\ Lost(NextBinding)
  /\ UNCHANGED <<vars, fetch>>

GoLive ==
  /\ page.step = "ready"
  /\ page' = [page EXCEPT !.step = "live"]
  /\ UNCHANGED <<vars, fetch>>

-----------------------------------------------------------------------------
(* fetchData: on the meeting's id, every 3 s, on every status update and two
   seconds after a round.  Only the moment the Hub reads the rows matters. *)

Polling == page.step \in {"ready", "live"}

PageFetch(f) ==
  /\ Polling
  /\ fetch[f] = Unissued
  /\ fetch' = [fetch EXCEPT ![f] = View]
  /\ UNCHANGED <<vars, page>>

\* An error reply has no participants and shows as an empty list; a fetch that
\* throws changes nothing.
PageFetchFails(f) ==
  /\ Polling
  /\ fetch[f] = Unissued
  /\ Lost(page)
  /\ fetch' = [fetch EXCEPT ![f] = EmptyList]
  /\ UNCHANGED vars

\* Replies are shown as they come, whichever was asked for first.
PageShow(f) ==
  /\ fetch[f] # Unissued
  /\ page' = [page EXCEPT !.shown = fetch[f]]
  /\ fetch' = [fetch EXCEPT ![f] = Unissued]
  /\ UNCHANGED vars

-----------------------------------------------------------------------------
(* triggerChallenge *)

\* The button is disabled while challenging and before the page is live.
PageChallenge(i) ==
  /\ page.step = "live"
  /\ page.button = "idle"
  /\ IssueRead(i, PageMeeting)
  /\ page' = [page EXCEPT !.button = "posting", !.round = i]
  /\ UNCHANGED <<meetingServiceVars, deviceServiceVars, agent, fetch>>

RoundIsOver(i) == \/ issue[i].pc = "aborted"
                  \/ issue[i].pc = "loop" /\ issue[i].todo = {}

\* The reply, of whatever status.
PageChallenged ==
  /\ page.button = "posting"
  /\ RoundIsOver(page.round)
  /\ page' = [page EXCEPT !.button = "cooling"]
  /\ UNCHANGED <<vars, fetch>>


\* The fetch throws; the round goes on in the Hub.
PageChallengeLost ==
  /\ page.button = "posting"
  /\ Lost([page EXCEPT !.button = "idle"])
  /\ UNCHANGED <<vars, fetch>>

\* Two seconds after the reply.
PageCooledDown ==
  /\ page.button = "cooling"
  /\ page' = [page EXCEPT !.button = "idle"]
  /\ UNCHANGED <<vars, fetch>>

-----------------------------------------------------------------------------
Setup == \/ PageCreate \/ PageJoin \/ PageJoinRefused \/ PageUnreachable
         \/ \E t \in Tokens : PageToken(t)
         \/ PageSign \/ PageNoAgent \/ PageBound \/ PageSkipBinding

PageStep ==
  \/ Setup
  \/ GoLive
  \/ \E f \in Fetches : PageFetch(f) \/ PageFetchFails(f) \/ PageShow(f)
  \/ \E i \in IssueCalls : PageChallenge(i)
  \/ PageChallenged \/ PageChallengeLost \/ PageCooledDown

\* What the Hub and the agents do without the page's asking.
HubWork ==
  \/ Clock \/ Enrolling \/ HubRestart
  \/ /\ \/ \E i \in IssueCalls : IssueStep(i) \/ IssueAbort(i)
        \/ \E v \in VerifyCalls : VerifyStep(v) \/ VerifyAbort(v)
     /\ UNCHANGED <<meetingServiceVars, deviceServiceVars, agent>>
  \/ /\ \E b \in BindCalls : BindStep(b) \/ BindAbort(b)
     /\ UNCHANGED <<gatewayVars, deviceServiceVars, challengeServiceVars, agent>>
  \/ /\ \E d \in Devices :
          \/ \E e \in EnrollCalls : AgentStart(d, e)
          \/ \E c \in Challenges : AgentAnswer(d, c)
          \/ AgentEnrolled(d) \/ AgentConnect(d) \/ AgentDisconnect(d) \/ AgentStop(d)
          \/ AgentHeartbeat(d)
     /\ UNCHANGED challengeServiceVars

PageNext == PageStep \/ (HubWork /\ UNCHANGED pageVars)

PageSpec == PageInit /\ [][PageNext]_allVars

(***************************************************************************)
(* Fairness: beside that of the Hub and the agents, a request is answered  *)
(* or fails, its reply is handled and the page's timers fire.  Nobody has  *)
(* to press a button.                                                      *)
(***************************************************************************)
PageProgress ==
  /\ WF_allVars(Setup)
  /\ WF_allVars(\E f \in Fetches : PageFetch(f))
  /\ \A f \in Fetches : WF_allVars(PageShow(f))
  /\ WF_allVars(PageChallenged)
  /\ WF_allVars(PageCooledDown)

FairPageSpec == PageSpec /\ WF_vars(Clock) /\ HandlerProgress /\ AgentProgress /\ PageProgress

-----------------------------------------------------------------------------
\* A page that got through its setup has a row for every enrolled participant,
\* whichever requests failed on the way; the others may be missing.
ReadyIsSeated == Polling => \A p \in EnrolledSeats : participant[p].joined


=============================================================================
