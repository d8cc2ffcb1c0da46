------------------------------- MODULE Policy -------------------------------
(***************************************************************************)
(* The policy engine of the Hub: policy/policy.service.ts.                 *)
(*                                                                         *)
(* A pure function from what the Hub knows when a challenge is answered to *)
(* the trust status and reason stored for the participant.  Clock readings *)
(* are natural numbers; the wording of a reason is one short constant.     *)
(***************************************************************************)
EXTENDS Naturals

CONSTANTS
  StaleAfter,   \* HEARTBEAT_STALE_MS: the age up to which a heartbeat is fresh
  NoHeartbeat   \* the null of Device.lastHeartbeat

ASSUME StaleAfterIsATime == StaleAfter \in Nat /\ NoHeartbeat \notin Nat

DeviceStatus == {"ACTIVE", "REVOKED"}

TrustStatus == {"VERIFIED", "UNVERIFIED", "STALE", "UNKNOWN", "EXTERNAL", "FAILED"}

\* The reason strings the Hub stores.  "none" is the null of a new row,
\* "bound" what bindDevice writes and "no_device" what issueChallenge writes.
Reason == {"none", "bound", "no_device", "revoked", "expired",
           "bad_signature", "no_binding", "stale", "verified"}

Verdict(status, reason) == [status |-> status, reason |-> reason]

\* Mutant: the age taken the wrong way round.
IsStaleReversed(heartbeat, now) ==
  heartbeat # NoHeartbeat /\ heartbeat + StaleAfter > now

\* A null heartbeat skips the rule: the device then counts as fresh.
IsStale(heartbeat, now) ==
  heartbeat # NoHeartbeat /\ now > heartbeat + StaleAfter

\* Mutant: the signature rule before the expiry rule.
EvaluateSwapped(status, heartbeat, signatureValid, challengeExpired, bound, now) ==
  IF status # "ACTIVE" THEN Verdict("FAILED", "revoked")
  ELSE IF ~signatureValid THEN Verdict("FAILED", "bad_signature")
  ELSE IF challengeExpired THEN Verdict("FAILED", "expired")
  ELSE IF ~bound THEN Verdict("UNKNOWN", "no_binding")
  ELSE IF IsStale(heartbeat, now) THEN Verdict("STALE", "stale")
  ELSE Verdict("VERIFIED", "verified")

\* PolicyService.evaluate: the first rule that matches decides.
Evaluate(status, heartbeat, signatureValid, challengeExpired, bound, now) ==
  IF status # "ACTIVE" THEN Verdict("FAILED", "revoked")
  ELSE IF challengeExpired THEN Verdict("FAILED", "expired")
  ELSE IF ~signatureValid THEN Verdict("FAILED", "bad_signature")
  ELSE IF ~bound THEN Verdict("UNKNOWN", "no_binding")
  ELSE IF IsStale(heartbeat, now) THEN Verdict("STALE", "stale")
  ELSE Verdict("VERIFIED", "verified")
=============================================================================
