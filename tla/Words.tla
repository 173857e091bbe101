-------------------------------- MODULE Words --------------------------------
(***************************************************************************)
(* Unsigned words of any width as the sets of their one bits, bit 0 the    *)
(* lowest: TLC's integers are too narrow for uint32_t.                     *)
(***************************************************************************)
EXTENDS Integers

Bits(width) == 0 .. width - 1

Xor(v, w) == (v \ w) \cup (w \ v)

\* v << n and v >> n of a uint<width>_t.
ShiftLeft(v, n, width) == { b + n : b \in v } \cap Bits(width)
ShiftRight(v, n) == { b - n : b \in { c \in v : c >= n } }

\* The word cut to its lowest bits, as by a cast or a mask of ones.
Low(v, width) == v \cap Bits(width)
=============================================================================
