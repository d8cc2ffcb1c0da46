---------------------------- MODULE MCDashboard ----------------------------
(***************************************************************************)
(* A small instance of Dashboard for TLC: the demo tenant's meeting m1     *)
(* with Alice, another tenant's m2, which Bob joins.                       *)
(***************************************************************************)
EXTENDS MCTrustHub, Dashboard

CONSTANTS f1, f2

TwoMeetings == [p \in Participants |-> IF p = p1 THEN m1 ELSE m2]
=============================================================================
