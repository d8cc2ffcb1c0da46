---------------------------- MODULE TrustLedger ----------------------------
(***************************************************************************)
(* What the Hub promises about the trust status it shows: an abstract      *)
(* specification without messages, clocks, keys, rows of devices or the    *)
(* steps of a handler.                                                     *)
(*                                                                         *)
(* A status is the outcome of a binding, of a missing binding, or of one   *)
(* attempt at one challenge.  A challenge is for a bound participant, an   *)
(* attempt begins while its challenge is open, a closed challenge is never *)
(* opened again, and an attempt has at most one outcome.                   *)
(***************************************************************************)
CONSTANTS Participants, Challenges, Attempts, Statuses, Nobody

VARIABLES
  bound,     \* the participants bound to a device
  shown,     \* the trust status of each participant
  phase,     \* of a challenge: "unissued", "open" or "closed"
  subject,   \* the participant a challenge is for
  begun,     \* the attempts that have begun
  trying     \* those without an outcome yet: <<attempt, challenge>>

ledgerVars == <<bound, shown, phase, subject, begun, trying>>

Init ==
  /\ bound \subseteq Participants
  /\ shown \in [Participants -> Statuses]
  /\ phase = [c \in Challenges |-> "unissued"]
  /\ subject = [c \in Challenges |-> Nobody]
  /\ begun = {}
  /\ trying = {}

Join(p) ==
  /\ p \notin bound
  /\ shown' = [shown EXCEPT ![p] = "UNKNOWN"]
  /\ UNCHANGED <<bound, phase, subject, begun, trying>>

Bind(p) ==
  /\ bound' = bound \union {p}
  /\ shown' = [shown EXCEPT ![p] = "VERIFIED"]
  /\ UNCHANGED <<phase, subject, begun, trying>>

FailUnbound(p) ==
  /\ shown' = [shown EXCEPT ![p] = "FAILED"]
  /\ UNCHANGED <<bound, phase, subject, begun, trying>>

Issue(c, p) ==
  /\ p \in bound
  /\ phase[c] = "unissued"
  /\ phase' = [phase EXCEPT ![c] = "open"]
  /\ subject' = [subject EXCEPT ![c] = p]
  /\ UNCHANGED <<bound, shown, begun, trying>>

\* By the deletion of one challenge, or of all that expire at an instant.
Close ==
  /\ phase' \in [Challenges -> {"unissued", "open", "closed"}]
  /\ \A c \in Challenges : phase'[c] # phase[c] => phase[c] = "open" /\ phase'[c] = "closed"
  /\ UNCHANGED <<bound, shown, subject, begun, trying>>

Begin(v, c) ==
  /\ v \notin begun
  /\ phase[c] = "open"
  /\ begun' = begun \union {v}
  /\ trying' = trying \union {<<v, c>>}
  /\ UNCHANGED <<bound, shown, phase, subject>>

Judge(v, c, status) ==
  /\ <<v, c>> \in trying
  /\ subject[c] \in bound
  /\ trying' = trying \ {<<v, c>>}
  /\ shown' = [shown EXCEPT ![subject[c]] = status]
  /\ UNCHANGED <<bound, phase, subject, begun>>

\* Attempts refused at once, or cut off.
GiveUp ==
  /\ begun \subseteq begun' /\ begun' \subseteq Attempts
  /\ trying' \subseteq trying
  /\ UNCHANGED <<bound, shown, phase, subject>>

Next ==
  \/ \E p \in Participants : Join(p) \/ Bind(p) \/ FailUnbound(p)
  \/ \E c \in Challenges, p \in Participants : Issue(c, p)
  \/ \E v \in Attempts, c \in Challenges : Begin(v, c)
  \/ \E v \in Attempts, c \in Challenges, s \in Statuses : Judge(v, c, s)
  \/ Close
  \/ GiveUp

Spec == Init /\ [][Next]_ledgerVars
=============================================================================
