--------------------------- MODULE MCAgentMachine ---------------------------
(***************************************************************************)
(* A small instance of AgentMachine for TLC: Alice's machine, whose agent  *)
(* can be two devices.                                                     *)
(***************************************************************************)
EXTENDS MCTrustHub, AgentMachine

CONSTANTS alicesPC

OnePC == [d \in Devices |-> alicesPC]
=============================================================================
