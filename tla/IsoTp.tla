-------------------------------- MODULE IsoTp -------------------------------
(***************************************************************************)
(* One ISO-TP endpoint (class IsoTp): reassembly of received frames,       *)
(* segmentation of a message to send, flow control and the N_Cr and N_Bs   *)
(* time-outs.  process_frame() is one action per frame type; send(),       *)
(* get_data() and update() are operators, because one pass of the server   *)
(* calls all three.                                                        *)
(*                                                                         *)
(* A frame carries its PCI nibble, the field n of its header (length,      *)
(* sequence number or flow status), its dlc and its data bytes.  A byte is *)
(* whatever the instance makes it: here only copied.                       *)
(***************************************************************************)
EXTENDS Integers, Sequences

CONSTANTS
    TickMod,        \* ticks are uint32_t: 2^32
    CanDl,          \* bytes of a classic CAN frame: 8
    SnMod,          \* sequence numbers are a nibble: 16
    LenMod,         \* lengths in a First Frame are 12 bits: 4096
    MaxPayload,     \* IsoTp::MAX_PAYLOAD: 4096
    BlockSize,      \* IsoTpConfig::block_size
    NBs, NCr,       \* IsoTpConfig::n_bs_ms, n_cr_ms
    TxMailboxes,    \* frames the CAN controller holds for transmission
    RxId, TxId      \* IsoTpConfig::rx_id, tx_id

ASSUME IsoTpConstants ==
    /\ TickMod \in Nat \ {0}
    /\ CanDl \in Nat /\ CanDl > 3
    /\ SnMod \in Nat \ {0}
    /\ LenMod \in Nat /\ LenMod > CanDl
    /\ MaxPayload = LenMod
    /\ BlockSize \in 0 .. 255
    /\ NBs \in 0 .. TickMod - 1
    /\ NCr \in 0 .. TickMod - 1
    /\ TxMailboxes \in Nat
    /\ RxId # TxId

VARIABLES
    rx,         \* receive side of the object
    tx,         \* transmit side of the object
    buffer,     \* the caller's memory that m_tx_data points to
    mailboxes   \* frames handed to the CAN controller and not yet on the bus

isotpVars == <<rx, tx, buffer, mailboxes>>

Tick == 0 .. TickMod - 1

SingleFrame == 0
FirstFrame == 1
ConsecutiveFrame == 2
FlowControl == 3

ContinueToSend == 0
Wait == 1
Overflow == 2

SfMax == CanDl - 1      \* 7: data of a Single Frame
FfData == CanDl - 2     \* 6: data of a First Frame
CfData == CanDl - 1     \* 7: data of a Consecutive Frame

Smaller(a, b) == IF a < b THEN a ELSE b

NewRx == [state |-> "Idle", buf |-> <<>>, expected |-> 0, sn |-> 0,
          deadline |-> 0, ready |-> FALSE]

NewTx == [state |-> "Idle", total |-> 0, offset |-> 0, sn |-> 0, deadline |-> 0]

\* Mutant: one frame more than the controller has mailboxes.
RoomForOneMore == TxMailboxes + 1 - Len(mailboxes)

\* ICanInterface::send() takes a frame while a mailbox is free.
Room == TxMailboxes - Len(mailboxes)

-----------------------------------------------------------------------------
(***************************************************************************)
(* process_frame(f).  rx.buf is the first m_rx_received bytes of m_rx_buf. *)
(***************************************************************************)
ForUs(f) == f.id = RxId /\ f.dlc # 0

SingleFrameOk(f) == f.pci = SingleFrame /\ f.n # 0 /\ f.n <= f.dlc - 1

FirstFrameOk(f) == f.pci = FirstFrame /\ f.dlc >= CanDl /\ f.n >= CanDl

\* A Consecutive Frame with another sequence number changes nothing.
ConsecutiveFrameOk(f) ==
    f.pci = ConsecutiveFrame /\ rx.state = "Receiving" /\ f.n = rx.sn

FlowControlOk(f) ==
    /\ f.pci = FlowControl
    /\ tx.state = "WaitFC"
    /\ f.dlc >= 3
    /\ f.n \in {ContinueToSend, Wait}

\* Mutant: a Single Frame leaves a reception under way running.
HandleSFReceiving(f) ==
    /\ SingleFrameOk(f)
    /\ rx' = [rx EXCEPT !.ready = TRUE, !.expected = f.n,
                        !.buf = SubSeq(f.data, 1, f.n)]
    /\ UNCHANGED <<tx, buffer, mailboxes>>

HandleSF(f) ==
    /\ SingleFrameOk(f)
    /\ rx' = [rx EXCEPT !.ready = TRUE, !.state = "Idle",
                        !.expected = f.n, !.buf = SubSeq(f.data, 1, f.n)]
    /\ UNCHANGED <<tx, buffer, mailboxes>>

\* send_fc() writes (kFC << 4) | fs into a byte, and kFC is already 0x30: the
\* upper nibble, the PCI type, is what is left of 0x300 in 8 bits.
FlowControlByte(fs) == (48 * 16 + fs) % 256

FlowControlFrame(fs) ==
    [id |-> TxId, pci |-> FlowControlByte(fs) \div 16,
     n |-> FlowControlByte(fs) % 16, dlc |-> 3, data |-> <<>>, bs |-> BlockSize]

\* Mutant: the message that waited stays ready.
HandleFFReady(f, now) ==
    /\ FirstFrameOk(f)
    /\ rx' = [state |-> "Receiving", buf |-> SubSeq(f.data, 1, FfData),
              expected |-> f.n, sn |-> 1 % SnMod,
              deadline |-> (now + NCr) % TickMod, ready |-> rx.ready]
    /\ mailboxes' = IF Room > 0
                    THEN Append(mailboxes, FlowControlFrame(ContinueToSend))
                    ELSE mailboxes
    /\ UNCHANGED <<tx, buffer>>

\* A First Frame always restarts reception; whether the flow control frame
\* could be sent is not looked at.  Its 12-bit length never exceeds
\* MAX_PAYLOAD, so the Overflow branch of the code is dead.
HandleFF(f, now) ==
    /\ FirstFrameOk(f)
    /\ rx' = [state |-> "Receiving", buf |-> SubSeq(f.data, 1, FfData),
              expected |-> f.n, sn |-> 1 % SnMod,
              deadline |-> (now + NCr) % TickMod, ready |-> FALSE]
    /\ mailboxes' = IF Room > 0
                    THEN Append(mailboxes, FlowControlFrame(ContinueToSend))
                    ELSE mailboxes
    /\ UNCHANGED <<tx, buffer>>

\* Mutant: the whole frame is copied.
BytesCopiedPadding(f) == f.dlc - 1

\* Padding after the last byte of the message is not copied.
BytesCopied(f) == Smaller(Smaller(rx.expected - Len(rx.buf), CfData), f.dlc - 1)

\* The overflow check on m_rx_received is dead as well (see RxInv).
HandleCF(f, now) ==
    /\ ConsecutiveFrameOk(f)
    /\ LET received == rx.buf \o SubSeq(f.data, 1, BytesCopied(f))
           complete == Len(received) >= rx.expected
       IN  rx' = [rx EXCEPT !.buf = received,
                            !.sn = (@ + 1) % SnMod,
                            !.deadline = (now + NCr) % TickMod,
                            !.state = IF complete THEN "Idle" ELSE @,
                            !.ready = @ \/ complete]
    /\ UNCHANGED <<tx, buffer, mailboxes>>

\* Mutant: one frame too many when the last one is full.
CfsLeftOneMore == (tx.total - tx.offset) \div CfData + 1

\* send_next_cf(): frames go out until the message ends, the block of bs
\* frames ends (0: no limit) or the controller takes no more.
CfsLeft == (tx.total - tx.offset + CfData - 1) \div CfData

\* Mutant: the data is read one byte early.
ConsecutiveFrameShifted(offset, sn) ==
    LET last == Smaller(offset + CfData, tx.total) IN
    [id |-> TxId, pci |-> ConsecutiveFrame, n |-> sn, dlc |-> last - offset + 1,
     data |-> SubSeq(buffer, offset, last - 1), bs |-> 0]

ConsecutiveFrameAt(offset, sn) ==
    LET last == Smaller(offset + CfData, tx.total) IN
    [id |-> TxId, pci |-> ConsecutiveFrame, n |-> sn, dlc |-> last - offset + 1,
     data |-> SubSeq(buffer, offset + 1, last), bs |-> 0]

SendNextCFs(bs, now) ==
    LET block == IF bs = 0 THEN CfsLeft ELSE Smaller(bs, CfsLeft)
        sent == Smaller(block, Room)
    IN  /\ mailboxes' = mailboxes \o
               [i \in 1 .. sent |->
                   ConsecutiveFrameAt(tx.offset + (i - 1) * CfData,
                                      (tx.sn + i - 1) % SnMod)]
        /\ tx' = [tx EXCEPT
               !.offset = Smaller(tx.offset + sent * CfData, tx.total),
               !.sn = (@ + sent) % SnMod,
               !.state = IF sent < block THEN "Sending"
                         ELSE IF block = CfsLeft THEN "Idle" ELSE "WaitFC",
               !.deadline = IF sent = block /\ block # CfsLeft
                            THEN (now + NBs) % TickMod ELSE @]

HandleFC(f, now) ==
    /\ FlowControlOk(f)
    /\ \/ /\ f.n = Wait
          /\ tx' = [tx EXCEPT !.deadline = (now + NBs) % TickMod]
          /\ UNCHANGED mailboxes
       \/ f.n = ContinueToSend /\ SendNextCFs(f.bs, now)
    /\ UNCHANGED <<rx, buffer>>

\* Everything else returns an error code the main loop does not look at.
Discard(f) ==
    /\ \/ ~ForUs(f)
       \/ ~(\/ SingleFrameOk(f) \/ FirstFrameOk(f)
            \/ ConsecutiveFrameOk(f) \/ FlowControlOk(f))
    /\ UNCHANGED isotpVars

ProcessFrame(f, now) ==
    \/ /\ ForUs(f)
       /\ HandleSF(f) \/ HandleFF(f, now) \/ HandleCF(f, now) \/ HandleFC(f, now)
    \/ Discard(f)

-----------------------------------------------------------------------------
\* Mutant: the message stays ready.
AfterGetDataReady(r) == r

\* get_data() with a buffer of MAX_PAYLOAD bytes.
AfterGetData(r) == IF r.ready THEN [r EXCEPT !.ready = FALSE, !.buf = <<>>] ELSE r

\* send(data, length): a Single Frame leaves the transmit state alone; a First
\* Frame takes it over, whatever was under way.
SingleFrameOf(data) ==
    [id |-> TxId, pci |-> SingleFrame, n |-> Len(data), dlc |-> Len(data) + 1,
     data |-> data, bs |-> 0]

FirstFrameOf(data) ==
    [id |-> TxId, pci |-> FirstFrame, n |-> Len(data) % LenMod, dlc |-> CanDl,
     data |-> SubSeq(data, 1, FfData), bs |-> 0]

Sendable(data) == Len(data) \in 1 .. MaxPayload /\ Room > 0

MailboxesAfterSend(data) ==
    IF ~Sendable(data) THEN mailboxes
    ELSE Append(mailboxes,
                IF Len(data) <= SfMax THEN SingleFrameOf(data) ELSE FirstFrameOf(data))

TxAfterSend(data, now) ==
    IF Sendable(data) /\ Len(data) > SfMax
    THEN [state |-> "WaitFC", total |-> Len(data), offset |-> FfData,
          sn |-> 1 % SnMod, deadline |-> (now + NBs) % TickMod]
    ELSE tx

\* update(): a deadline of 0 means "no timer".  Sending has no time-out.
Past(deadline, now) == deadline > 0 /\ now >= deadline

\* Mutants: the time-out disarms the timer and forgets the state.
RxUpdateStays(r, now) ==
    IF r.state = "Receiving" /\ Past(r.deadline, now)
    THEN [r EXCEPT !.buf = <<>>, !.deadline = 0]
    ELSE r

TxUpdateStays(t, now) ==
    IF t.state = "WaitFC" /\ Past(t.deadline, now) THEN [t EXCEPT !.deadline = 0] ELSE t

RxUpdate(r, now) ==
    IF r.state = "Receiving" /\ Past(r.deadline, now)
    THEN [r EXCEPT !.state = "Idle", !.buf = <<>>, !.expected = 0, !.deadline = 0]
    ELSE r

TxUpdate(t, now) ==
    IF t.state = "WaitFC" /\ Past(t.deadline, now) THEN [t EXCEPT !.state = "Idle"] ELSE t

-----------------------------------------------------------------------------
\* Types, for any set Byte the messages are made of.
Frame(Byte) == [id : {RxId, TxId}, pci : 0 .. 3, n : Nat, dlc : 0 .. CanDl,
                data : Seq(Byte), bs : 0 .. 255]

RxObject(Byte) == [state : {"Idle", "Receiving"}, buf : Seq(Byte),
                   expected : Nat, sn : 0 .. SnMod - 1,
                   deadline : Tick, ready : BOOLEAN]

TxObject == [state : {"Idle", "WaitFC", "Sending"}, total : 0 .. MaxPayload,
             offset : 0 .. MaxPayload, sn : 0 .. SnMod - 1, deadline : Tick]

\* Reassembly: a message is offered only when reception is over and every
\* declared byte is there, and a reception under way has room for what it
\* still expects (so the overflow checks of the code cannot be reached).
RxInv ==
    /\ rx.ready => /\ rx.state = "Idle"
                   /\ Len(rx.buf) = rx.expected
                   /\ rx.expected > 0
    /\ rx.state = "Receiving" => Len(rx.buf) < rx.expected
    /\ rx.expected < MaxPayload

\* Segmentation: across blocks, WAITs, time-outs and a full controller, the
\* sequence number of the next frame names the offset it is read from.
TxInv ==
    tx.state # "Idle" =>
        /\ tx.offset < tx.total
        /\ \E j \in 0 .. MaxPayload :
              /\ tx.offset = FfData + j * CfData
              /\ tx.sn = (j + 1) % SnMod
=============================================================================
