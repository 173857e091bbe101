----------------------------- MODULE MCServices -----------------------------
(* Two rates, so a tester can follow to the wrong one; a session times out *)
(* in the tick after the one it was last used in.                          *)
EXTENDS Services
=============================================================================
