----------------------------- MODULE PageProofs -----------------------------
(***************************************************************************)
(* The live meeting page, proved for every value of the constants: beside  *)
(* the page the Hub behaves as it does without it, so that all that is     *)
(* proved of the Hub holds there, and a page that is ready has a row for   *)
(* each enrolled participant.                                              *)
(***************************************************************************)
EXTENDS ZoomMeeting, VerdictProofs

USE DEF storeVars, gatewayVars, meetingServiceVars, deviceServiceVars, challengeServiceVars

(***************************************************************************)
(* ReadyIsSeated speaks of the end of the setup.  What leads there: while  *)
(* participants are added there is one more to add, and whoever was, if    *)
(* enrolled, has a row or the setup has ended; once all were added there   *)
(* are no more requests that add one, so nothing but the rows' staying is  *)
(* needed.  The rest keeps the page's requests meaningful: it binds a      *)
(* participant it has, with a token it got.                                *)
(***************************************************************************)
AddedAreSeated ==
  page.step \in {"meeting", "join"} =>
    /\ page.seat < Len(Seats)
    /\ \A n \in 1..page.seat :
         Seats[n] \in EnrolledSeats => participant[Seats[n]].joined
AllAreSeated ==
  page.step \in {"token", "sign", "bind", "ready", "live"} =>
    \A p \in EnrolledSeats : participant[p].joined
SomeoneToBind == page.step \in {"token", "sign", "bind"} => page.ids # <<>>
TokenInHand == page.step = "sign" => page.token \in Tokens

PageInOrder ==
  /\ page \in PageRecord
  /\ fetch \in [Fetches -> {Unissued} \union [Participants -> TrustStatus \union {"absent"}]]
  /\ AddedAreSeated
  /\ AllAreSeated
  /\ SomeoneToBind
  /\ TokenInHand

-----------------------------------------------------------------------------
(* The page only makes requests *)

\* What a page step does beside its own state is a step of a service, of the
\* agent, or none.
LEMMA RequestIsAStep ==
  ASSUME PageInOrder, PageNext
  PROVE  [Next]_vars
<1> USE DEF PageInOrder
<1>1. PageMeeting \in Meetings /\ Len(Seats) > 0
  BY SeatsAreParticipants, ParticipantsHaveMeetings
<1>2. CASE PageCreate
  <2>1. Meeting
    BY <1>1, <1>2 DEF PageCreate, Meeting, MeetingServiceNext
  <2> QED
    BY <2>1 DEF Next
<1>3. CASE PageJoin
  <2>1. Seats[page.seat + 1] \in Participants
    BY <1>3, SeatsAreParticipants DEF PageJoin, PageRecord, AddedAreSeated
  <2>2. Meeting
    BY <2>1, <1>3 DEF PageJoin, Meeting, MeetingServiceNext
  <2> QED
    BY <2>2 DEF Next
<1>4. ASSUME NEW t \in Tokens, PageToken(t) PROVE [Next]_vars
  <2>1. Head(page.ids) \in Participants
    BY <1>4 DEF PageToken, PageRecord, SomeoneToBind
  <2>2. Meeting
    BY <1>1, <2>1, <1>4 DEF PageToken, Meeting, MeetingServiceNext
  <2> QED
    BY <2>2 DEF Next
<1>5. CASE PageSign
  <2>1. page.token \in Tokens
    BY <1>5 DEF PageSign, TokenInHand
  <2>2. Agents
    BY <1>1, <2>1, <1>5, SeatsAreParticipants
    DEF PageSign, Agents, CompanionNext, CompanionStep
  <2> QED
    BY <2>2 DEF Next
<1>6. ASSUME NEW i \in IssueCalls, PageChallenge(i) PROVE [Next]_vars
  <2>1. Challenging
    BY <1>1, <1>6 DEF PageChallenge, Challenging, ChallengeServiceNext
  <2> QED
    BY <2>1 DEF Next
<1>7. CASE HubWork
  <2>1. ASSUME \/ \E i \in IssueCalls : IssueStep(i) \/ IssueAbort(i)
               \/ \E v \in VerifyCalls : VerifyStep(v) \/ VerifyAbort(v),
               UNCHANGED <<meetingServiceVars, deviceServiceVars, agent>>
        PROVE  Challenging
    BY <2>1 DEF Challenging, ChallengeServiceNext
  <2>2. ASSUME \E b \in BindCalls : BindStep(b) \/ BindAbort(b),
               UNCHANGED <<gatewayVars, deviceServiceVars, challengeServiceVars, agent>>
        PROVE  Meeting
    BY <2>2 DEF Meeting, MeetingServiceNext
  <2>3. ASSUME NEW d \in Devices, UNCHANGED challengeServiceVars,
               \/ \E e \in EnrollCalls : AgentStart(d, e)
               \/ \E c \in Challenges : AgentAnswer(d, c)
               \/ AgentEnrolled(d) \/ AgentConnect(d) \/ AgentDisconnect(d) \/ AgentStop(d)
               \/ AgentHeartbeat(d)
        PROVE  Agents
    BY <2>3 DEF Agents, CompanionNext, CompanionStep
  <2> QED
    BY <1>7, <2>1, <2>2, <2>3 DEF HubWork, Next
<1>8. ASSUME \/ PageJoinRefused \/ PageUnreachable \/ PageNoAgent \/ PageBound
             \/ PageSkipBinding \/ GoLive
             \/ \E f \in Fetches : PageFetch(f) \/ PageFetchFails(f) \/ PageShow(f)
             \/ PageChallenged \/ PageChallengeLost \/ PageCooledDown
      PROVE  UNCHANGED vars
  BY <1>8 DEF PageJoinRefused, PageUnreachable, PageNoAgent, PageBound, PageSkipBinding,
              GoLive, PageFetch, PageFetchFails, PageShow, PageChallenged,
              PageChallengeLost, PageCooledDown
<1> QED
  BY <1>2, <1>3, <1>4, <1>5, <1>6, <1>7, <1>8 DEF PageNext, PageStep, Setup

-----------------------------------------------------------------------------
(* Nobody leaves: a row, once there, stays *)

Staying == \A p \in Participants : participant[p].joined => participant'[p].joined

LEMMA StatusKeepsRow ==
  ASSUME Typed, NEW p \in Participants, NEW verdict, SetStatus(p, verdict)
  PROVE  Staying
  BY DEF SetStatus, Staying, Typed, TypeOK, StoreTypeOK, ParticipantRow

LEMMA RowsStay ==
  ASSUME Typed, [Next]_vars
  PROVE  Staying
<1>1. CASE Challenging
  <2>1. ASSUME NEW i \in IssueCalls, IssueStep(i) PROVE Staying
    <3>1. ASSUME NEW p \in Participants, IssueNoDevice(i, p) PROVE Staying
      BY <3>1, StatusKeepsRow DEF IssueNoDevice
    <3>2. ASSUME \/ \E p \in Participants, d \in Devices, c \in Challenges :
                      IssueStore(i, p, d, c)
                 \/ IssueNoDeviceLog(i) \/ IssueEmit(i) \/ IssueLog(i)
          PROVE  Staying
      BY <3>2 DEF IssueStore, IssueNoDeviceLog, IssueEmit, IssueLog, Staying
    <3> QED
      BY <2>1, <3>1, <3>2 DEF IssueStep
  <2>2. ASSUME NEW v \in VerifyCalls, VerifyStep(v) PROVE Staying
    <3>1. CASE VerifyUpdate(v)
      <4>1. \A q \in Participants : participant'[q].joined = participant[q].joined
        BY <3>1 DEF VerifyUpdate, SetStatus, Typed, TypeOK, StoreTypeOK, ParticipantRow
      <4> QED
        BY <4>1, Zenon DEF Staying
    <3>2. ASSUME \/ \E r \in responses : VerifyGet(v, r)
                 \/ VerifyFindDevice(v) \/ VerifyDelete(v) \/ VerifyLog(v)
          PROVE  Staying
      BY <3>2 DEF VerifyGet, VerifyFindDevice, VerifyDelete, VerifyLog, Staying
    <3> QED
      BY <2>2, <3>1, <3>2 DEF VerifyStep
  <2>3. ASSUME \/ \E i \in IssueCalls, m \in Meetings : IssueRead(i, m)
               \/ \E i \in IssueCalls : IssueAbort(i)
               \/ \E v \in VerifyCalls : VerifyAbort(v)
        PROVE  Staying
    BY <2>3 DEF IssueRead, IssueAbort, VerifyAbort, Staying
  <2> QED
    BY <1>1, <2>1, <2>2, <2>3 DEF Challenging, ChallengeServiceNext
<1>2. CASE Meeting
  <2>1. ASSUME NEW p \in Participants, AddParticipant(p) PROVE Staying
    <3>1. \A q \in Participants : q # p => participant'[q] = participant[q]
      BY <2>1 DEF AddParticipant, Typed, TypeOK, StoreTypeOK
    <3>2. ~participant[p].joined
      BY <2>1 DEF AddParticipant
    <3> QED
      BY <3>1, <3>2, Zenon DEF Staying
  <2>2. ASSUME NEW b \in BindCalls, BindUpdate(b) PROVE Staying
    <3>1. \A q \in Participants : participant'[q].joined = participant[q].joined
      BY <2>2 DEF BindUpdate, Typed, TypeOK, StoreTypeOK, ParticipantRow
    <3> QED
      BY <3>1, Zenon DEF Staying
  <2>3. ASSUME \/ \E m \in Meetings : Create(m)
               \/ \E t \in Tokens, m \in Meetings, p \in Participants :
                    IssueJoinToken(t, m, p)
        PROVE  Staying
    BY <2>3 DEF Create, IssueJoinToken, Staying
  <2>4. ASSUME NEW b \in BindCalls,
               \/ \E r \in bindRequests : BindGet(b, r)
               \/ BindFindDevice(b) \/ BindDelete(b) \/ BindLog(b) \/ BindAbort(b)
        PROVE  Staying
    BY <2>4 DEF BindGet, BindFindDevice, BindDelete, BindLog, BindAbort, Staying
  <2> QED
    BY <1>2, <2>1, <2>2, <2>3, <2>4 DEF Meeting, MeetingServiceNext, BindStep
<1>3. ASSUME Clock \/ Enrolling \/ Agents \/ HubRestart \/ UNCHANGED vars
      PROVE  UNCHANGED participant
  <2>1. CASE Clock
    BY <2>1 DEF Clock, Tick
  <2>2. CASE Enrolling
    BY <2>2 DEF Enrolling, DeviceServiceNext, EnrollStep, EnrollFind, EnrollWrite,
                EnrollLog, EnrollAbort, Revoke
  <2>3. CASE Agents
    BY <2>3 DEF Agents, CompanionNext, CompanionStep, AgentStart, AgentEnrolled,
                AgentConnect, AgentDisconnect, AgentStop, AgentHeartbeat, Heartbeat,
                AgentAnswer, AgentSignBinding
  <2> QED
    BY <1>3, <2>1, <2>2, <2>3 DEF HubRestart, vars
<1> QED
  BY <1>1, <1>2, <1>3 DEF Next, Staying

-----------------------------------------------------------------------------
(* The page *)

LEMMA SeatsAndIdsTyped ==
  ASSUME NEW pg \in PageRecord, NEW n \in Nat, NEW s \in Seq(Participants)
  PROVE  LET new == [pg EXCEPT !.seat = n, !.ids = s] IN
         /\ new \in PageRecord
         /\ new.seat = n /\ new.ids = s /\ new.step = pg.step /\ new.token = pg.token
  BY DEF PageRecord

LEMMA IdsAndTokenTyped ==
  ASSUME NEW pg \in PageRecord, NEW s \in Seq(Participants)
  PROVE  LET new == [pg EXCEPT !.ids = s, !.token = Unissued] IN
         new \in PageRecord /\ new.ids = s
  BY DEF PageRecord

LEMMA LossTyped ==
  ASSUME NEW pg \in PageRecord, NEW n \in Nat
  PROVE  LET new == [pg EXCEPT !.lost = n] IN
         /\ new \in PageRecord
         /\ new.seat = pg.seat /\ new.ids = pg.ids /\ new.step = pg.step /\ new.token = pg.token
  BY DEF PageRecord

LEMMA PageInitInOrder == PageInit => PageInOrder
<1> SUFFICES ASSUME PageInit PROVE PageInOrder
  OBVIOUS
<1>1. page = [step |-> "meeting", seat |-> 0, ids |-> <<>>, token |-> Unissued,
              button |-> "idle", round |-> Unissued, shown |-> EmptyList, lost |-> 0]
  BY DEF PageInit
<1>2. page \in PageRecord
  <2>1. EmptyList \in [Participants -> TrustStatus \union {"absent"}]
    BY DEF EmptyList
  <2> QED
    BY <1>1, <2>1 DEF PageRecord
<1>3. Len(Seats) > 0
  BY SeatsAreParticipants
<1> QED
  BY <1>1, <1>2, <1>3 DEF PageInit, PageInOrder, AddedAreSeated, AllAreSeated,
                          SomeoneToBind, TokenInHand

\* A step of the page that goes neither forward nor back in the setup.
LEMMA SetupUnchanged ==
  ASSUME Typed, PageInOrder, Staying, page' \in PageRecord,
         fetch' \in [Fetches -> {Unissued} \union [Participants -> TrustStatus \union {"absent"}]],
         \/ /\ page'.step = page.step /\ page'.seat = page.seat
            /\ page'.ids = page.ids /\ page'.token = page.token
         \/ page'.step = "stuck"
  PROVE  PageInOrder'
<1> USE DEF PageInOrder
<1>1. AddedAreSeated'
  BY SeatsAreParticipants DEF AddedAreSeated, Staying, PageRecord
<1>2. AllAreSeated'
  BY SeatsAreParticipants DEF AllAreSeated, Staying
<1> QED
  BY <1>1, <1>2 DEF SomeoneToBind, TokenInHand

LEMMA TypedToBinding ==
  ASSUME NEW pg \in PageRecord
  PROVE  /\ ToBinding(pg) \in PageRecord
         /\ ToBinding(pg).ids = pg.ids
         /\ IF pg.ids = <<>> THEN ToBinding(pg).step = "ready"
                             ELSE ToBinding(pg).step = "token"
  BY DEF ToBinding, PageRecord

\* Participant p's turn is over: the one with the next seat is to be added, or
\* all were.
LEMMA SeatTaken ==
  ASSUME Typed, PageInOrder, Staying, page.step = "join", NEW ok \in BOOLEAN,
         ok => participant'[Seats[page.seat + 1]].joined,
         page'.step = Seated(Seats[page.seat + 1], ok).step,
         page'.seat = Seated(Seats[page.seat + 1], ok).seat,
         page'.ids = Seated(Seats[page.seat + 1], ok).ids,
         page' \in PageRecord, UNCHANGED fetch
  PROVE  PageInOrder'
<1> DEFINE p == Seats[page.seat + 1]
           pg == [page EXCEPT !.seat = @ + 1,
                              !.ids = IF p \in EnrolledSeats THEN Append(@, p) ELSE @]
<1> USE DEF PageInOrder
<1>1. p \in Participants /\ page.seat \in Nat /\ page.seat < Len(Seats)
  BY SeatsAreParticipants DEF PageRecord, AddedAreSeated
<1>2. pg \in PageRecord /\ pg.seat = page.seat + 1 /\ pg.step = "join"
  <2>1. page.seat + 1 \in Nat /\ page.ids \in Seq(Participants)
    BY DEF PageRecord
  <2>2. (IF p \in EnrolledSeats THEN Append(page.ids, p) ELSE page.ids) \in Seq(Participants)
    BY <1>1, <2>1
  <2>3. page \in PageRecord
    OBVIOUS
  <2>4. pg \in PageRecord
    BY <2>1, <2>2, <2>3, SeatsAndIdsTyped
  <2>5. pg.seat = page.seat + 1
    BY <2>3 DEF PageRecord
  <2>6. pg.step = page.step
    BY <2>3 DEF PageRecord
  <2> QED
    BY <2>4, <2>5, <2>6
<1>3. CASE p \in EnrolledSeats /\ ~ok
  <2>1. page'.step = "stuck"
    BY <1>3 DEF Seated, PageRecord
  <2> QED
    BY <2>1, SetupUnchanged
<1>4. CASE ~(p \in EnrolledSeats /\ ~ok)
  <2>1. \A n \in 1..(page.seat + 1) :
          Seats[n] \in EnrolledSeats => participant'[Seats[n]].joined
    <3> SUFFICES ASSUME NEW n \in 1..(page.seat + 1), Seats[n] \in EnrolledSeats
                 PROVE  participant'[Seats[n]].joined
      OBVIOUS
    <3>1. CASE n = page.seat + 1
      BY <3>1, <1>4, Zenon
    <3>2. CASE n # page.seat + 1
      <4>1. n \in 1..page.seat /\ Seats[n] \in Participants
        BY <1>1, <3>2, SeatsAreParticipants
      <4>2. participant[Seats[n]].joined
        BY <4>1 DEF AddedAreSeated
      <4> QED
        BY <4>1, <4>2 DEF Staying
    <3> QED
      BY <3>1, <3>2
  <2>2. CASE pg.seat = Len(Seats)
    <3>1. Seated(p, ok) = ToBinding(pg)
      BY <1>4, <2>2 DEF Seated
    <3>2. /\ page'.ids = pg.ids
          /\ IF pg.ids = <<>> THEN page'.step = "ready" ELSE page'.step = "token"
      BY <3>1, <1>2, TypedToBinding
    <3>3. \A q \in EnrolledSeats : \E n \in 1..Len(Seats) : q = Seats[n]
      BY SeatsAreParticipants
    <3>4. AllAreSeated'
      BY <1>2, <2>1, <2>2, <3>3 DEF AllAreSeated
    <3> QED
      BY <3>2, <3>4 DEF AddedAreSeated, SomeoneToBind, TokenInHand
  <2>3. CASE pg.seat # Len(Seats)
    <3>1. Seated(p, ok) = pg
      BY <1>4, <2>3 DEF Seated
    <3>2. AddedAreSeated'
      BY <1>1, <1>2, <2>1, <2>3, <3>1, SeatsAreParticipants DEF AddedAreSeated
    <3> QED
      BY <1>2, <3>1, <3>2 DEF AllAreSeated, SomeoneToBind, TokenInHand
  <2> QED
    BY <2>2, <2>3
<1> QED
  BY <1>3, <1>4

LEMMA SeatedTyped ==
  ASSUME page \in PageRecord, NEW p \in Participants, NEW ok \in BOOLEAN
  PROVE  Seated(p, ok) \in PageRecord
<1> DEFINE pg == [page EXCEPT !.seat = @ + 1,
                              !.ids = IF p \in EnrolledSeats THEN Append(@, p) ELSE @]
<1>1. pg \in PageRecord
  <2>1. page.seat + 1 \in Nat /\ page.ids \in Seq(Participants)
    BY DEF PageRecord
  <2>2. (IF p \in EnrolledSeats THEN Append(page.ids, p) ELSE page.ids) \in Seq(Participants)
    BY <2>1
  <2> QED
    BY <2>1, <2>2, SeatsAndIdsTyped
<1>2. [page EXCEPT !.step = "stuck"] \in PageRecord
  BY DEF PageRecord
<1> QED
  BY <1>1, <1>2, TypedToBinding DEF Seated

\* A lost request counts and otherwise does what is said of it.
LEMMA LostKeeps ==
  ASSUME NEW pg \in PageRecord, Lost(pg)
  PROVE  /\ page' \in PageRecord
         /\ page'.step = pg.step /\ page'.seat = pg.seat
         /\ page'.ids = pg.ids /\ page'.token = pg.token
<1>1. pg.lost + 1 \in Nat
  BY DEF PageRecord
<1> QED
  BY <1>1, LossTyped DEF Lost

\* The page goes on with the next participant to bind.
LEMMA NextIsBound ==
  ASSUME Typed, PageInOrder, Staying, page.step \in {"token", "sign", "bind"},
         page' \in PageRecord, page'.step = NextBinding.step, page'.ids = NextBinding.ids,
         UNCHANGED fetch
  PROVE  PageInOrder'
<1> DEFINE pg == [page EXCEPT !.ids = Tail(@), !.token = Unissued]
<1>1. pg \in PageRecord
  <2>1. Tail(page.ids) \in Seq(Participants)
    BY DEF PageInOrder, SomeoneToBind, PageRecord
  <2> QED
    BY <2>1, IdsAndTokenTyped DEF PageInOrder
<1>2. NextBinding = ToBinding(pg)
  BY DEF NextBinding
<1>3. /\ page'.ids = pg.ids
      /\ IF pg.ids = <<>> THEN page'.step = "ready" ELSE page'.step = "token"
  BY <1>1, <1>2, TypedToBinding
<1>4. AllAreSeated'
  BY SeatsAreParticipants DEF PageInOrder, AllAreSeated, Staying
<1> QED
  BY <1>3, <1>4 DEF PageInOrder, AddedAreSeated, SomeoneToBind, TokenInHand

LEMMA NextBindingTyped ==
  ASSUME PageInOrder, page.step \in {"token", "sign", "bind"}
  PROVE  NextBinding \in PageRecord
<1>1. [page EXCEPT !.ids = Tail(@), !.token = Unissued] \in PageRecord
  <2>1. Tail(page.ids) \in Seq(Participants)
    BY DEF PageInOrder, SomeoneToBind, PageRecord
  <2> QED
    BY <2>1, IdsAndTokenTyped DEF PageInOrder
<1> QED
  BY <1>1, TypedToBinding DEF NextBinding

LEMMA PageMovesInOrder ==
  ASSUME Typed, Typed', Staying, PageInOrder, PageStep
  PROVE  PageInOrder'
<1> USE DEF PageInOrder
<1>1. CASE PageCreate
  <2>1. page' \in PageRecord /\ page'.seat = page.seat /\ UNCHANGED fetch
    BY <1>1 DEF PageCreate, PageRecord
  <2>2. page'.step \in {"join", "stuck"}
    BY <1>1 DEF PageCreate, PageRecord
  <2>3. AddedAreSeated'
    BY <1>1, <2>1, SeatsAreParticipants DEF PageCreate, AddedAreSeated, Staying, PageRecord
  <2> QED
    BY <2>1, <2>2, <2>3 DEF AllAreSeated, SomeoneToBind, TokenInHand
<1>2. CASE PageJoin
  <2> DEFINE p == Seats[page.seat + 1]
             ok == faults' = faults
  <2>1. p \in Participants
    BY <1>2, SeatsAreParticipants DEF PageJoin, AddedAreSeated, PageRecord
  <2>2. participant'[p].joined
    BY <1>2, <2>1 DEF PageJoin, AddParticipant, Typed, TypeOK, StoreTypeOK, ParticipantRow
  <2>3. page.step = "join" /\ page' = Seated(p, ok) /\ UNCHANGED fetch
    BY <1>2, Zenon DEF PageJoin
  <2>4. ok \in BOOLEAN
    OBVIOUS
  <2>5. page' \in PageRecord
    BY <2>1, <2>3, <2>4, SeatedTyped, Zenon
  <2> QED
    BY <2>2, <2>3, <2>4, <2>5, SeatTaken, Zenon
<1>3. CASE PageJoinRefused
  <2> DEFINE p == Seats[page.seat + 1]
  <2>1. p \in Participants
    BY <1>3, SeatsAreParticipants DEF PageJoinRefused, AddedAreSeated, PageRecord
  <2>2. page.step = "join" /\ Lost(Seated(p, FALSE)) /\ UNCHANGED fetch
    BY <1>3, Zenon DEF PageJoinRefused
  <2>3. Seated(p, FALSE) \in PageRecord
    BY <2>1, SeatedTyped
  <2>4. /\ page' \in PageRecord
        /\ page'.step = Seated(p, FALSE).step /\ page'.seat = Seated(p, FALSE).seat
        /\ page'.ids = Seated(p, FALSE).ids
    BY <2>2, <2>3, LostKeeps, Zenon
  <2> QED
    BY <2>2, <2>4, SeatTaken, Zenon
<1>4. CASE PageUnreachable
  <2>1. [page EXCEPT !.step = "stuck"] \in PageRecord
    BY DEF PageRecord
  <2>2. page' \in PageRecord /\ page'.step = "stuck"
    BY <1>4, <2>1, LostKeeps DEF PageUnreachable, PageRecord
  <2> QED
    BY <1>4, <2>2, SetupUnchanged DEF PageUnreachable
<1>5. ASSUME NEW t \in Tokens, PageToken(t) PROVE PageInOrder'
  <2>1. page' \in PageRecord /\ page'.ids = page.ids /\ page'.token = t /\ page'.step = "sign"
    BY <1>5 DEF PageToken, PageRecord
  <2>2. AllAreSeated'
    BY <1>5, SeatsAreParticipants DEF PageToken, AllAreSeated, Staying
  <2> QED
    BY <1>5, <2>1, <2>2 DEF PageToken, AddedAreSeated, SomeoneToBind, TokenInHand
<1>6. CASE PageSign
  <2>1. page' \in PageRecord /\ page'.ids = page.ids /\ page'.step = "bind"
    BY <1>6 DEF PageSign, PageRecord
  <2>2. AllAreSeated'
    BY <1>6, SeatsAreParticipants DEF PageSign, AllAreSeated, Staying
  <2> QED
    BY <1>6, <2>1, <2>2 DEF PageSign, AddedAreSeated, SomeoneToBind, TokenInHand
<1>7. CASE PageNoAgent \/ PageBound
  <2>1. page.step \in {"token", "sign", "bind"} /\ page' = NextBinding /\ UNCHANGED fetch
    BY <1>7 DEF PageNoAgent, PageBound
  <2> QED
    BY <2>1, NextBindingTyped, NextIsBound
<1>8. CASE PageSkipBinding
  <2>1. page.step \in {"token", "sign", "bind"} /\ Lost(NextBinding) /\ UNCHANGED fetch
    BY <1>8, Zenon DEF PageSkipBinding
  <2>2. /\ page' \in PageRecord
        /\ page'.step = NextBinding.step /\ page'.ids = NextBinding.ids
    BY <2>1, NextBindingTyped, LostKeeps, Zenon
  <2> QED
    BY <2>1, <2>2, NextIsBound, Zenon
<1>9. CASE GoLive
  <2>1. page' \in PageRecord /\ page'.step = "live"
    BY <1>9 DEF GoLive, PageRecord
  <2>2. AllAreSeated'
    BY <1>9, SeatsAreParticipants DEF GoLive, AllAreSeated, Staying
  <2> QED
    BY <1>9, <2>1, <2>2 DEF GoLive, AddedAreSeated, SomeoneToBind, TokenInHand
<1>10. ASSUME NEW f \in Fetches, PageFetch(f) \/ PageFetchFails(f) \/ PageShow(f)
       PROVE  PageInOrder'
  <2> DEFINE Shows == [Participants -> TrustStatus \union {"absent"}]
  <2>1. View' \in Shows /\ View \in Shows /\ EmptyList \in Shows
    BY DEF View, EmptyList, Typed, TypeOK, StoreTypeOK, ParticipantRow
  <2>2. CASE PageFetch(f)
    <3>1. fetch' \in [Fetches -> {Unissued} \union Shows] /\ page' = page
      BY <2>1, <2>2 DEF PageFetch
    <3> QED
      BY <3>1, SetupUnchanged
  <2>3. CASE PageFetchFails(f)
    <3>1. fetch' \in [Fetches -> {Unissued} \union Shows] /\ Lost(page)
      BY <2>1, <2>3, Zenon DEF PageFetchFails
    <3> QED
      BY <3>1, LostKeeps, SetupUnchanged
  <2>4. CASE PageShow(f)
    <3>1. fetch' \in [Fetches -> {Unissued} \union Shows] /\ fetch[f] \in Shows
      BY <2>4 DEF PageShow
    <3>2. /\ page' \in PageRecord
          /\ page'.step = page.step /\ page'.seat = page.seat
          /\ page'.ids = page.ids /\ page'.token = page.token
      BY <2>4, <3>1 DEF PageShow, PageRecord
    <3> QED
      BY <3>1, <3>2, SetupUnchanged
  <2> QED
    BY <1>10, <2>2, <2>3, <2>4
<1>11. ASSUME NEW i \in IssueCalls, PageChallenge(i) PROVE PageInOrder'
  <2>1. /\ page' \in PageRecord
        /\ page'.step = page.step /\ page'.seat = page.seat
        /\ page'.ids = page.ids /\ page'.token = page.token
    BY <1>11 DEF PageChallenge, PageRecord
  <2> QED
    BY <1>11, <2>1, SetupUnchanged DEF PageChallenge
<1>12. CASE PageChallenged \/ PageCooledDown
  <2>1. /\ page' \in PageRecord
        /\ page'.step = page.step /\ page'.seat = page.seat
        /\ page'.ids = page.ids /\ page'.token = page.token
    BY <1>12 DEF PageChallenged, PageCooledDown, PageRecord
  <2> QED
    BY <1>12, <2>1, SetupUnchanged DEF PageChallenged, PageCooledDown
<1>13. CASE PageChallengeLost
  <2> DEFINE pg == [page EXCEPT !.button = "idle"]
  <2>1. /\ pg \in PageRecord
        /\ pg.step = page.step /\ pg.seat = page.seat
        /\ pg.ids = page.ids /\ pg.token = page.token
    BY DEF PageRecord
  <2> HIDE DEF pg
  <2>2. Lost(pg) /\ UNCHANGED fetch
    BY <1>13, Zenon DEF PageChallengeLost, pg
  <2> QED
    BY <2>1, <2>2, LostKeeps, SetupUnchanged
<1> QED
  BY <1>1, <1>2, <1>3, <1>4, <1>5, <1>6, <1>7, <1>8, <1>9, <1>10, <1>11, <1>12, <1>13
  DEF PageStep, Setup

-----------------------------------------------------------------------------
LEMMA PageNextInOrder ==
  ASSUME Typed, Typed', PageInOrder, [PageNext]_allVars
  PROVE  [Next]_vars /\ PageInOrder'
<1>1. [Next]_vars
  BY RequestIsAStep DEF allVars
<1>2. Staying
  BY <1>1, RowsStay
<1>3. CASE UNCHANGED pageVars
  BY <1>1, <1>2, <1>3, SetupUnchanged DEF pageVars, PageInOrder
<1>4. CASE PageStep
  BY <1>1, <1>2, <1>4, PageMovesInOrder
<1> QED
  BY <1>1, <1>3, <1>4 DEF PageNext, allVars

LEMMA PageAlways == PageSpec => [](Typed /\ PageInOrder)
<1>1. PageInit => Typed /\ PageInOrder
  BY PageInitInOrder, TypedInit DEF PageInit
<1>2. Typed /\ PageInOrder /\ [PageNext]_allVars => (Typed /\ PageInOrder)'
  <2> SUFFICES ASSUME Typed, PageInOrder, [PageNext]_allVars
               PROVE  Typed' /\ PageInOrder'
    OBVIOUS
  <2>1. [Next]_vars
    BY RequestIsAStep DEF allVars
  <2>2. Typed'
    BY <2>1, TypedNext
  <2> QED
    BY <2>2, PageNextInOrder
<1> QED
  BY <1>1, <1>2, PTL DEF PageSpec

\* Whatever the page asks for, and whichever of its requests fail, the Hub and
\* the agents beside it do nothing that TrustHub does not allow: every theorem
\* about Spec holds of the system with the page.
THEOREM PageUsesTheHub == PageSpec => Spec
<1>1. PageInit => Init
  BY DEF PageInit
<1>2. Typed /\ PageInOrder /\ [PageNext]_allVars => [Next]_vars
  BY RequestIsAStep DEF allVars
<1> QED
  BY <1>1, <1>2, PageAlways, PTL DEF PageSpec, Spec

\* The page's own state is as declared: it never asks for the token of somebody
\* the list does not have or adds a seat that is not there.
THEOREM PageTypeCorrect == PageSpec => []PageTypeOK
<1>1. Typed /\ PageInOrder => PageTypeOK
  BY DEF Typed, PageInOrder, PageTypeOK
<1> QED
  BY <1>1, PageAlways, PTL

\* A page that got through its setup has a row for every enrolled participant,
\* whichever requests of the page failed on the way.
THEOREM ReadyPageIsSeated == PageSpec => []ReadyIsSeated
<1>1. PageInOrder => ReadyIsSeated
  BY DEF PageInOrder, AllAreSeated, ReadyIsSeated, Polling
<1> QED
  BY <1>1, PageAlways, PTL
=============================================================================
