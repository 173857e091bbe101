-------------------------------- MODULE Crc ---------------------------------
(***************************************************************************)
(* The checksums of crc.cpp, one byte of data at a time, and what a CRC    *)
(* is: the remainder of the message, as a polynomial over GF(2), divided   *)
(* by the generator.                                                       *)
(***************************************************************************)
EXTENDS Words, Sequences

CONSTANTS
    DataBytes,  \* bytes the data are made of
    MaxData     \* bound: bytes of data

ASSUME CrcConstants ==
    /\ DataBytes \subseteq SUBSET Bits(8)
    /\ MaxData \in Nat

VARIABLES
    data,       \* history: the bytes so far
    crc16,      \* crc of crc16_ccitt()
    crc32,      \* crc of crc32(), before the final complement
    sum,        \* sum of checksum8()
    tableRight  \* history: crc32() has read only entries that are right

crcVars == <<data, crc16, crc32, sum, tableRight>>

CrcInit ==
    /\ data = <<>>
    /\ crc16 = Bits(16)
    /\ crc32 = Bits(32)
    /\ sum = 0
    /\ tableRight = TRUE

\* f applied n times, by recursion on n.
Times(f(_), w, n) ==
    LET r[i \in 0 .. n] == IF i = 0 THEN w ELSE LET v == r[i - 1] IN f(v) IN r[n]

-----------------------------------------------------------------------------
\* 0x1021
Generator16 == {0, 5, 12}

\* Mutant: the bit is tested after it has been shifted out.
Shift16Tested(crc) ==
    LET s == ShiftLeft(crc, 1, 16) IN IF 15 \in s THEN Xor(s, Generator16) ELSE s

Shift16(crc) ==
    LET s == ShiftLeft(crc, 1, 16) IN IF 15 \in crc THEN Xor(s, Generator16) ELSE s

Next16(crc, byte) == Times(Shift16, Xor(crc, ShiftLeft(byte, 8, 16)), 8)

\* 0xEDB88320: the generator of Ethernet, reflected.
Generator32 == {5, 8, 9, 15, 19, 20, 21, 23, 24, 26, 27, 29, 30, 31}

Shift32(crc) ==
    LET s == ShiftRight(crc, 1) IN IF 0 \in crc THEN Xor(s, Generator32) ELSE s

\* kCrc32Table, by index: 32 entries are listed, the others are 0, and the last
\* bits of four of those listed differ from the remainder.
Misprint ==
    [ i \in {{1, 3}, {0, 2, 3}, {1, 2, 3}, {0, 1, 2, 3}} |->
        CASE i = {1, 3}       -> {0, 2}                           \* 0xE0D5E91B
          [] i = {0, 2, 3}    -> {1}                              \* 0x7EB17CBF
          [] i = {1, 2, 3}    -> {1, 2, 3}                        \* 0xE7B82D09
          [] i = {0, 1, 2, 3} -> {0, 1, 4, 5, 7, 8, 9, 10, 11} ]  \* 0x90BF1222

EntryRight(i) == i \subseteq Bits(5) /\ i \notin DOMAIN Misprint

Kcrc32Table(i) ==
    IF EntryRight(i) THEN Times(Shift32, i, 8)
    ELSE IF i \in DOMAIN Misprint THEN Xor(Times(Shift32, i, 8), Misprint[i])
    ELSE {}

Index(crc, byte) == Low(Xor(crc, byte), 8)

Next32(crc, byte) == Xor(Kcrc32Table(Index(crc, byte)), ShiftRight(crc, 8))

\* A word as a number.
ValueOf(w, width) ==
    LET v[b \in 0 .. width] ==
            IF b = 0 THEN 0 ELSE v[b - 1] + (IF b - 1 \in w THEN 2 ^ (b - 1) ELSE 0)
    IN  v[width]

Feed(byte) ==
    /\ Len(data) < MaxData
    /\ data' = Append(data, byte)
    /\ crc16' = Next16(crc16, byte)
    /\ crc32' = Next32(crc32, byte)
    /\ sum' = (sum + ValueOf(byte, 8)) % 256
    /\ tableRight' = (tableRight /\ EntryRight(Index(crc32, byte)))

CrcNext == \E byte \in DataBytes : Feed(byte)

CrcSpec == CrcInit /\ [][CrcNext]_crcVars

-----------------------------------------------------------------------------
\* The dividend: coefficient d of x^d.  The first bit sent of the first byte has
\* the highest degree, Order(b) is the bit sent b-th from the end of a byte, and
\* the register starts with ones over the first width bits.
Dividend(bytes, width, Order(_)) ==
    LET n == Len(bytes)
    IN  Xor(UNION { { 8 * (n - i) + Order(b) + width : b \in bytes[i] } : i \in 1 .. n },
            { 8 * n + b : b \in Bits(width) })

\* The remainder modulo x^width + the generator, of the dividend of so many bytes:
\* each degree from the highest down is cancelled by a multiple of the divisor.
Remainder(dividend, bytes, divisor, width) ==
    LET top == 8 * bytes + width - 1
        r[d \in width - 1 .. top] ==
            IF d = top THEN dividend
            ELSE LET rest == r[d + 1]
                 IN  IF d + 1 \notin rest THEN rest
                     ELSE Xor(rest, { d + 1 - width + k : k \in divisor })
    IN  r[width - 1]

Reflected(w, width) == { width - 1 - b : b \in w }

SameOrder(b) == b
LastBitFirst(b) == 7 - b

\* The CRCs are what their names promise, over data of any content:
\* CRC-16/CCITT most significant bit first, CRC-32 least significant bit first
\* as long as the table is right where it was read.
CrcRight ==
    /\ crc16 = Remainder(Dividend(data, 16, SameOrder), Len(data),
                         Generator16 \cup {16}, 16)
    /\ tableRight => crc32 = Reflected(Remainder(Dividend(data, 32, LastBitFirst), Len(data),
                                         Reflected(Generator32, 32) \cup {32}, 32), 32)
=============================================================================
