---------------------------- MODULE MCIsoTpLink -----------------------------
(***************************************************************************)
(* A CAN frame of 4 bytes: 3 in a Single, 2 in a First, 3 in a             *)
(* Consecutive.  Either two segmented requests, or one long enough for the *)
(* sequence number to wrap and a Single Frame that may overtake it.        *)
(***************************************************************************)
EXTENDS IsoTpLink

MCRequestPlans == {<<6, 5>>, <<9, 2>>}
=============================================================================
