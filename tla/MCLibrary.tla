------------------------------ MODULE MCLibrary ------------------------------
(* Constants for the parts of the library: a tick that wraps after 8 ms,   *)
(* the first seeds of the generators, data whose CRC-32 stays within the   *)
(* listed part of the table for some bytes and leaves it for others,       *)
(* identifiers that need both halves of a filter register, and a response  *)
(* buffer that two identifiers fill exactly.                               *)
EXTENDS Library

MCSecrets == { {}, {2, 4, 5, 9, 12, 16, 18, 19, 21, 23, 25, 26, 27, 28, 30, 31} }
MCLfsrSeeds == { {}, {0, 2, 3, 12, 14, 15, 16, 21, 22, 23, 26, 27, 29, 31} }
MCDataBytes == { Bits(8), {1, 2, 3, 4, 5, 6, 7}, {0, 1, 7}, {0, 4, 5} }
MCIds == { {}, {5, 6, 7, 8, 9, 10}, {3, 14, 28} }
MCMasks == { {}, Bits(11), {3, 14}, Bits(29) }
MCFormats == { <<>>, <<0>>, <<1>>, <<1, 0>>, <<0, 0, 1>>, <<1, 1, 1>>, <<1, 0, 0, 1>> }
MCDataLength == [short |-> 1, long |-> 2, locked |-> 1]
==============================================================================
