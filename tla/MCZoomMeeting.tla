--------------------------- MODULE MCZoomMeeting ---------------------------
(***************************************************************************)
(* A small instance of ZoomMeeting for TLC: Alice with the device of the   *)
(* page's machine.                                                         *)
(***************************************************************************)
EXTENDS MCTrustHub, ZoomMeeting

CONSTANTS f1, f2

MCSeats == <<p1>>
=============================================================================
