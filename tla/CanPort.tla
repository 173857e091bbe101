------------------------------ MODULE CanPort -------------------------------
(***************************************************************************)
(* What the CAN drivers make of a frame on its way to the bus and from it, *)
(* and the acceptance filter they set up: Stm32Can (F4) and Stm32F1Can on  *)
(* bxCAN, Stm32H7Can on FDCAN.  A driver sends, another one receives.      *)
(*                                                                         *)
(* Outside this repository: the peripherals.  A bxCAN filter of 32 bits    *)
(* compares, where its mask has ones, the standard identifier (bits 31-21, *)
(* the upper bits of an extended one), the rest of an extended one (bits   *)
(* 20-3), IDE (bit 2) and RTR (bit 1).  An FDCAN filter element compares   *)
(* identifiers of its own type only; a frame that no element takes goes    *)
(* where the global filter says, which no driver sets, and after a reset   *)
(* that is Rx FIFO 0.                                                      *)
(***************************************************************************)
EXTENDS Words

CONSTANTS
    Ids, Masks,     \* identifiers and filter masks of up to 29 bits
    Lengths,        \* dlc of frames to send, 0 .. 8
    NoFrame

ASSUME PortConstants ==
    /\ Ids \subseteq SUBSET Bits(29) /\ Masks \subseteq SUBSET Bits(29)
    /\ Lengths \subseteq 0 .. 8
    /\ NoFrame \notin [id : SUBSET Bits(29), dlc : 0 .. 8, extended : BOOLEAN]

VARIABLES
    driver,     \* the class of the receiving driver
    fifo,       \* its m_rx_fifo, the one on_rx_irq() reads
    request,    \* what configure_filter() was called with last
    filter,     \* the filter registers
    silent,     \* m_silent_mode of a sending Stm32F1Can
    sent, got   \* history: the last frame handed to send(), and what arrived

portVars == <<driver, fifo, request, filter, silent, sent, got>>

Drivers == {"F4", "F1", "H7"}

NoRequest == [id |-> {}, mask |-> {}, extended |-> FALSE]

Frame == [id : Ids, dlc : Lengths, extended : BOOLEAN]

-----------------------------------------------------------------------------
\* A standard filter on bxCAN.  The low mask is that of the RTR bit.
StandardFilter(id, mask) ==
    [value |-> ShiftLeft(ShiftLeft(Low(id, 11), 5, 16), 16, 32),
     mask  |-> ShiftLeft(ShiftLeft(Low(mask, 11), 5, 16), 16, 32) \cup {1}]

\* Mutant: the low half of the register is forgotten.
ExtendedFilterHigh(id, mask) ==
    [value |-> ShiftLeft(Low(ShiftRight(id, 13), 16), 16, 32),
     mask  |-> ShiftLeft(Low(ShiftRight(mask, 13), 16), 16, 32)]

\* An extended filter on bxCAN, in two halves of 16 bits.
ExtendedFilter(id, mask) ==
    [value |-> ShiftLeft(Low(ShiftRight(id, 13), 16), 16, 32)
                   \cup Low(ShiftLeft(id, 3, 32) \cup {2}, 16),
     mask  |-> ShiftLeft(Low(ShiftRight(mask, 13), 16), 16, 32)
                   \cup Low(ShiftLeft(mask, 3, 32) \cup {2}, 16)]

\* FDCAN takes identifier and mask as they are.
FdFilter(id, mask, extended) == [value |-> id, mask |-> mask, extended |-> extended]

\* A new driver is given its filter.  On the F1 there are standard filters only;
\* the HAL of FDCAN wants standard identifiers of 11 bits.  The filter sends what it
\* takes to the FIFO of the driver, so on bxCAN both are alike and one is enough.
ConfigureFilter(d, n, id, mask, extended) ==
    /\ d = "F1" => ~extended
    /\ d # "H7" => n = 0
    /\ d = "H7" /\ ~extended => id \cup mask \subseteq Bits(11)
    /\ driver' = d /\ fifo' = n
    /\ request' = [id |-> id, mask |-> mask, extended |-> extended]
    /\ filter' = IF d = "H7" THEN FdFilter(id, mask, extended)
                 ELSE IF extended THEN ExtendedFilter(id, mask)
                 ELSE StandardFilter(id, mask)
    /\ sent' = NoFrame /\ got' = NoFrame
    /\ UNCHANGED silent

SetSilentMode ==
    /\ silent' = ~silent
    /\ sent' = NoFrame /\ got' = NoFrame
    /\ UNCHANGED <<driver, fifo, request, filter>>

-----------------------------------------------------------------------------
\* The frame on the bus.  bxCAN cuts a standard identifier, FDCAN both; the shifts
\* of dlc on FDCAN cancel out, as on_rx_irq() undoes that of send().
BxHeader(f) == [f EXCEPT !.id = IF f.extended THEN @ ELSE Low(@, 11)]

FdHeader(f) == [f EXCEPT !.id = Low(@, IF f.extended THEN 29 ELSE 11)]

\* The identifier as a bxCAN filter sees it; the drivers send no remote frames.
BxRegister(h) ==
    IF h.extended THEN ShiftLeft(h.id, 3, 32) \cup {2} ELSE ShiftLeft(h.id, 21, 32)

\* The FDCAN's filter element takes the frame.
Element(h) == h.extended = filter.extended /\ Xor(h.id, filter.value) \cap filter.mask = {}

\* The frame gets into the FIFO of the driver.
Accepted(h) ==
    IF driver = "H7"
    THEN Element(h) \/ fifo = 0
    ELSE Xor(BxRegister(h), filter.value) \cap filter.mask = {}

\* send() of one driver and, when the frame gets to it, on_rx_irq() of the
\* other.
Exchange(by, f) ==
    /\ sent' = [by |-> by, frame |-> f]
    /\ got' = LET header == IF by = "H7" THEN FdHeader(f) ELSE BxHeader(f)
              IN  IF (by = "F1" /\ silent) \/ ~Accepted(header) THEN NoFrame ELSE header
    /\ UNCHANGED <<driver, fifo, request, filter, silent>>

PortInit ==
    /\ driver = "F4" /\ fifo = 0
    /\ request = NoRequest
    /\ filter = StandardFilter({}, {})
    /\ silent = FALSE
    /\ sent = NoFrame /\ got = NoFrame

PortNext ==
    \/ \E d \in Drivers, n \in 0 .. 1, id \in Ids, mask \in Masks, extended \in BOOLEAN :
           ConfigureFilter(d, n, id, mask, extended)
    \/ SetSilentMode
    \/ \E by \in Drivers, f \in Frame : Exchange(by, f)

PortSpec == PortInit /\ [][PortNext]_portVars

-----------------------------------------------------------------------------
Width(extended) == IF extended THEN 29 ELSE 11

\* Whether a frame is meant by a filter: of its kind, and with an identifier
\* that differs only where the mask has zeros.
Matches(f) ==
    /\ f.extended = request.extended
    /\ Xor(Low(f.id, Width(f.extended)), Low(request.id, Width(f.extended)))
           \cap Low(request.mask, Width(f.extended)) = {}

\* Where only frames that are meant may arrive: at a bxCAN filter those of its kind,
\* and the other kind too if it is an extended one; at FDCAN all, but only in FIFO 1,
\* as what no filter takes is left in FIFO 0.
Guarded(f) ==
    IF driver = "H7" THEN fifo = 1 ELSE request.extended \/ ~f.extended

\* A frame that arrives is the one that was sent, with its identifier cut to
\* the width of its kind.  One that the filter means arrives unless the sender is
\* silent, and where the registers can keep the others out, no other does.  What
\* is said of the others elsewhere is StandardFilterOnly.
FilterRight ==
    sent # NoFrame =>
        LET f == sent.frame
        IN  /\ got # NoFrame => got = [f EXCEPT !.id = Low(@, Width(f.extended))]
            /\ Matches(f) => got # NoFrame \/ (sent.by = "F1" /\ silent)
            /\ got # NoFrame /\ Guarded(f) => Matches(f)

\* "IDE bit must be 0 (standard frame)" (stm32/src/stm32_can.cpp:112): what a
\* standard filter of bxCAN lets in is a standard frame.  The bit that the mask
\* sets is the one of RTR.
StandardFilterOnly ==
    sent # NoFrame /\ driver # "H7" /\ ~request.extended => got = NoFrame \/ ~got.extended
=============================================================================
