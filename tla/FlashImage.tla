----------------------------- MODULE FlashImage -----------------------------
(***************************************************************************)
(* What a flash download promises: the blocks of an image reach the flash  *)
(* memory in order and each once, and a download is reported complete only *)
(* when all of them did.  How requests, losses, retries, time-outs and     *)
(* resets bring that about is the business of FlashTransfer.               *)
(***************************************************************************)
EXTENDS Naturals, Sequences

CONSTANT Blocks     \* number of blocks of the image

VARIABLES
    flash,      \* blocks programmed since the last erase
    complete    \* the download has been reported complete

imageVars == <<flash, complete>>

Image == [b \in 1 .. Blocks |-> b]

ImageInit == flash = <<>> /\ complete = FALSE

Erase == ~complete /\ flash' = <<>> /\ UNCHANGED complete

Program ==
    /\ ~complete
    /\ Len(flash) < Blocks
    /\ flash' = Append(flash, Len(flash) + 1)
    /\ UNCHANGED complete

Complete == flash = Image /\ complete' = TRUE /\ UNCHANGED flash

StartOver == complete /\ complete' = FALSE /\ UNCHANGED flash

ImageNext == Erase \/ Program \/ Complete \/ StartOver

ImageSpec == ImageInit /\ [][ImageNext]_imageVars
=============================================================================
