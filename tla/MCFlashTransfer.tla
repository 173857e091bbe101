-------------------------- MODULE MCFlashTransfer ---------------------------
(* Five blocks under a counter of three values: it wraps, and two blocks of *)
(* the image share a number.                                               *)
EXTENDS FlashTransfer
=============================================================================
