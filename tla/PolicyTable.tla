---------------------------- MODULE PolicyTable ----------------------------
(***************************************************************************)
(* The policy engine against the table of SPEC.md section 5, for every     *)
(* evidence of a bounded set, judged at the time of a run's clock.         *)
(***************************************************************************)
EXTENDS TrustHub

Evidence == [status: DeviceStatus, heartbeat: 0..MaxTime \union {NoHeartbeat},
             signatureValid: BOOLEAN, challengeExpired: BOOLEAN, bound: BOOLEAN]

Answer(e) == Evaluate(e.status, e.heartbeat, e.signatureValid, e.challengeExpired, e.bound, now)

\* The rows of the table: condition and result, in order.
Table(e) == <<
  [if |-> e.status # "ACTIVE", then |-> Verdict("FAILED", "revoked")],
  [if |-> e.challengeExpired, then |-> Verdict("FAILED", "expired")],
  [if |-> ~e.signatureValid, then |-> Verdict("FAILED", "bad_signature")],
  [if |-> ~e.bound, then |-> Verdict("UNKNOWN", "no_binding")],
  [if |-> e.heartbeat # NoHeartbeat /\ now > e.heartbeat + StaleAfter,
   then |-> Verdict("STALE", "stale")],
  [if |-> TRUE, then |-> Verdict("VERIFIED", "verified")] >>

\* "Rules (evaluated in order, first match wins)": evaluate returns the result
\* of a row whose condition holds and that no matching row precedes.
FirstMatchWins ==
  \A e \in Evidence :
    LET rows == Table(e) IN
    \E n \in DOMAIN rows :
      /\ rows[n].if /\ Answer(e) = rows[n].then
      /\ \A k \in 1..(n - 1) : ~rows[k].if

\* Time alone can only take trust away: judged later on the same evidence, a
\* verdict is the same or has gone from VERIFIED to STALE.
TimeOnlyStales ==
  [][now' # now =>
       \A e \in Evidence : Answer(e)' # Answer(e) =>
         Answer(e).status = "VERIFIED" /\ Answer(e)'.status = "STALE"]_vars
=============================================================================
