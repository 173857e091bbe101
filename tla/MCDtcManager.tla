---------------------------- MODULE MCDtcManager ----------------------------
(* Codes of three bits: two that share a bit, one within another, a group  *)
(* for each of them; response buffers for none, one or two codes, some of  *)
(* them with a rest.                                                       *)
EXTENDS DtcReport

MCCodes == {{0}, {0, 1}, {1, 2}}
MCStatusMasks == {StatusBits, {"testFailedThisOpCycle"}, {"testFailed", "pendingDtc"}}
=============================================================================
