--------------------------- MODULE MCAgentSession ---------------------------
(***************************************************************************)
(* A small instance of AgentSession for TLC.                               *)
(***************************************************************************)
EXTENDS AgentSession, TLC

CONSTANTS m1, d1, g1, c1, s1, s2, s3, s4

NobodyJoins == [p \in Participants |-> m1]
=============================================================================
