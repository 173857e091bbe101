----------------------------- MODULE MCCanRing ------------------------------
(* Constants for checking CanRing: see CanRing.cfg.                        *)
EXTENDS CanRing
=============================================================================
