------------------------------ MODULE IsoTpLink -----------------------------
(***************************************************************************)
(* The transport of the ECU at work: the IsoTp object, the main loop that  *)
(* feeds it and answers every request out of the one response buffer of    *)
(* the server, the CAN driver's receive ring and the tester at the other   *)
(* end of a bus that loses frames.                                         *)
(*                                                                         *)
(* The tester is outside this repository: a receiver that follows          *)
(* ISO 15765-2, and a sender that follows its framing but may stream its   *)
(* Consecutive Frames, pad them, and start a new request at any time.      *)
(* A byte is named by the message it belongs to and its position in it.    *)
(***************************************************************************)
EXTENDS IsoTp

CONSTANTS
    RequestPlans,       \* bound: the lengths of the requests of one observation
    ResponseLengths,    \* lengths a service may answer with; 0: no response
    BlockSizes,         \* block sizes the tester asks for
    RingSlots,          \* frames the receive ring holds: kRxBufSize - 1
    MaxTick,            \* bound: the last tick
    QuietTick           \* bound: the tester sends nothing from this tick on

ASSUME LinkConstants ==
    /\ RequestPlans \subseteq Seq(1 .. LenMod - 1)
    /\ ResponseLengths \subseteq 0 .. MaxPayload
    /\ BlockSizes \subseteq 0 .. 255
    /\ RingSlots \in Nat
    /\ MaxTick \in Tick

VARIABLES
    lengths,    \* length of the k-th request, for each request the tester sends
    tick,
    ring,       \* frames received and not yet given to process_frame()
    sender,     \* tester: request under way and how far it is sent
    receiver,   \* tester: response being received, and the last one complete
    taken,      \* history: number of the last request the server took
    answers,    \* history: length of the response to each request, 0 before it
    broken,     \* history: requests of which a frame was lost
    deaf,       \* history: a frame to the tester was lost
    overwrote   \* history: buffer was rewritten under a transmission

linkVars == <<lengths, tick, ring, sender, receiver, taken, answers, broken, deaf,
              overwrote>>
vars == <<isotpVars, linkVars>>

Bytes(m, len) == [i \in 1 .. len |-> [msg |-> m, pos |-> i]]
Padding == [msg |-> 0, pos |-> 0]

Init ==
    /\ rx = NewRx
    /\ tx = NewTx
    /\ buffer = [i \in 1 .. MaxPayload |-> Padding]
    /\ mailboxes = <<>>
    /\ lengths \in RequestPlans
    /\ tick = 0
    /\ ring = <<>>
    /\ sender = [msg |-> 0, offset |-> 0, sn |-> 0]
    /\ receiver = [active |-> FALSE, buf |-> <<>>, expected |-> 0, sn |-> 0,
                   got |-> <<>>]
    /\ taken = 0
    /\ answers = [m \in 1 .. Len(lengths) |-> 0]
    /\ broken = {}
    /\ deaf = FALSE
    /\ overwrote = FALSE

-----------------------------------------------------------------------------
\* The bus to the ECU: the interrupt puts the frame into the ring; it is lost
\* on the wire or, when the ring is full, in on_rx_irq().
Arrives(f) == Len(ring) < RingSlots /\ ring' = Append(ring, f) /\ UNCHANGED broken
Lost(m) == UNCHANGED ring /\ broken' = broken \cup {m}

Padded(bytes, size, pad) ==
    IF pad THEN bytes \o [i \in 1 .. size - Len(bytes) |-> Padding] ELSE bytes

TesterFrame(pci, n, dlc, data) ==
    [id |-> RxId, pci |-> pci, n |-> n, dlc |-> dlc, data |-> data, bs |-> 0]

\* The next request, as a Single or a First Frame; the one under way, if any,
\* is given up and counts as broken.
SendRequest ==
    LET m == sender.msg + 1
        len == lengths[m]
        all == Bytes(m, len)
        f == IF len <= SfMax
             THEN TesterFrame(SingleFrame, len, len + 1, all)
             ELSE TesterFrame(FirstFrame, len, CanDl, SubSeq(all, 1, FfData))
        given == sender.msg # 0 /\ sender.offset < lengths[sender.msg]
        gaveUp == IF given THEN {sender.msg} ELSE {}
    IN  /\ tick < QuietTick
        /\ m <= Len(lengths)
        /\ sender' = [msg |-> m, offset |-> Len(f.data), sn |-> 1 % SnMod]
        /\ \/ /\ Len(ring) < RingSlots
              /\ ring' = Append(ring, f)
              /\ broken' = broken \cup gaveUp
           \/ /\ UNCHANGED ring
              /\ broken' = broken \cup gaveUp \cup {m}
        /\ UNCHANGED <<isotpVars, lengths, tick, receiver, taken, answers, deaf, overwrote>>

SendConsecutive ==
    LET m == sender.msg
        len == lengths[m]
        last == Smaller(sender.offset + CfData, len)
    IN  /\ tick < QuietTick
        /\ m # 0
        /\ sender.offset < len
        /\ sender' = [sender EXCEPT !.offset = last, !.sn = (@ + 1) % SnMod]
        /\ \/ Lost(m)
           \/ \E pad \in BOOLEAN :
                LET data == Padded(SubSeq(Bytes(m, len), sender.offset + 1, last),
                                   CfData, pad)
                IN  Arrives(TesterFrame(ConsecutiveFrame, sender.sn, Len(data) + 1, data))
        /\ UNCHANGED <<isotpVars, lengths, tick, receiver, taken, answers, deaf, overwrote>>

\* Flow control for the response under way: proceed, wait or give up.
SendFlowControl ==
    /\ tick < QuietTick
    /\ receiver.active
    /\ \E fs \in {ContinueToSend, Wait, Overflow}, bs \in BlockSizes :
          /\ fs # ContinueToSend => bs = 0
          /\ Arrives([TesterFrame(FlowControl, fs, 3, <<>>) EXCEPT !.bs = bs])
    /\ UNCHANGED <<isotpVars, lengths, tick, sender, receiver, taken, answers, deaf,
                   overwrote>>

-----------------------------------------------------------------------------
\* The bus from the ECU: the controller sends its oldest frame, and the tester
\* receives it.  A Single Frame of length 0 is no frame of ISO-TP: ignored.
Received(r, f) ==
    IF f.pci = SingleFrame
    THEN IF f.n = 0 THEN r
         ELSE [r EXCEPT !.active = FALSE, !.buf = <<>>, !.expected = 0, !.sn = 0,
                        !.got = f.data]
    ELSE IF f.pci = FirstFrame
    THEN [r EXCEPT !.active = TRUE, !.buf = f.data, !.expected = f.n, !.sn = 1 % SnMod]
    ELSE IF f.pci # ConsecutiveFrame \/ ~r.active THEN r
    ELSE LET buf == r.buf \o f.data
             idle == [r EXCEPT !.active = FALSE, !.buf = <<>>, !.expected = 0, !.sn = 0]
         IN  IF f.n # r.sn THEN idle
             ELSE IF Len(buf) >= r.expected THEN [idle EXCEPT !.got = buf]
             ELSE [r EXCEPT !.buf = buf, !.sn = (@ + 1) % SnMod]

Transmit ==
    /\ mailboxes # <<>>
    /\ mailboxes' = Tail(mailboxes)
    /\ \/ receiver' = Received(receiver, Head(mailboxes)) /\ UNCHANGED deaf
       \/ deaf' = TRUE /\ UNCHANGED receiver
    /\ UNCHANGED <<rx, tx, buffer, lengths, tick, ring, sender, taken, answers, broken,
                   overwrote>>

-----------------------------------------------------------------------------
\* while (can.receive(f)) isotp.process_frame(f);
FeedFrame ==
    /\ ring # <<>>
    /\ ring' = Tail(ring)
    /\ ProcessFrame(Head(ring), tick)
    /\ UNCHANGED <<lengths, tick, sender, receiver, taken, answers, broken, deaf, overwrote>>

\* server.process() with no message waiting.
IdlePass ==
    /\ ring = <<>>
    /\ ~rx.ready
    /\ rx' = RxUpdate(rx, tick)
    /\ tx' = TxUpdate(tx, tick)
    /\ UNCHANGED <<buffer, mailboxes, linkVars>>

\* server.process() with one: get_data(), the service writes `written` bytes
\* into m_resp_buf (a refused request may have written more than it answers
\* with) and answers with the first len of them, then update().  Without a
\* service, send_nrc() answers out of three bytes of its own.
NrcLength == 3

AnswerPass ==
    /\ ring = <<>>
    /\ rx.ready
    /\ \E len, written \in ResponseLengths :
          LET m == rx.buf[1].msg
              data == Bytes(m, len)
          IN  /\ len <= written \/ (len = NrcLength /\ written = 0)
              /\ buffer' = Bytes(m, written) \o SubSeq(buffer, written + 1, Len(buffer))
              /\ mailboxes' = MailboxesAfterSend(data)
              /\ tx' = TxUpdate(TxAfterSend(data, tick), tick)
              /\ rx' = RxUpdate(AfterGetData(rx), tick)
              /\ overwrote' = (overwrote \/ (/\ tx.state # "Idle"
                                             /\ TxAfterSend(data, tick) = tx
                                             /\ written > tx.offset))
              /\ taken' = m
              /\ answers' = [answers EXCEPT ![m] = len]
    /\ UNCHANGED <<lengths, tick, ring, sender, receiver, broken, deaf>>

\* Bound: what arrived before QuietTick is handled before time goes on.
Advance ==
    /\ tick < MaxTick
    /\ tick < QuietTick \/ (ring = <<>> /\ ~rx.ready)
    /\ tick' = tick + 1
    /\ UNCHANGED <<isotpVars, lengths, ring, sender, receiver, taken, answers, broken, deaf,
                   overwrote>>

Next ==
    \/ SendRequest \/ SendConsecutive \/ SendFlowControl
    \/ Transmit
    \/ FeedFrame \/ IdlePass \/ AnswerPass
    \/ Advance

Spec == Init /\ [][Next]_vars

\* The loop runs forever, the controller empties its mailboxes, time passes.
FairSpec == /\ Spec
            /\ WF_vars(FeedFrame)
            /\ WF_vars(IdlePass \/ AnswerPass)
            /\ WF_vars(Transmit)
            /\ WF_vars(Advance)

-----------------------------------------------------------------------------
AnyByte == [msg : 0 .. Len(lengths), pos : 0 .. MaxPayload]

\* Types of the whole state.
TypeOK ==
    /\ rx \in RxObject(AnyByte)
    /\ tx \in TxObject
    /\ buffer \in Seq(AnyByte)
    /\ mailboxes \in Seq(Frame(AnyByte))
    /\ ring \in Seq(Frame(AnyByte))
    /\ Len(mailboxes) <= TxMailboxes
    /\ Len(ring) <= RingSlots
    /\ tick \in Tick
    /\ taken \in 0 .. Len(lengths)

\* A request all of whose frames reached the ECU is delivered byte for byte,
\* even when frames of the requests around it were lost or overtaken it.
IntactDelivery ==
    rx.ready => LET m == rx.buf[1].msg IN
        m \notin broken => rx.buf = Bytes(m, lengths[m])

\* Whatever is lost, requests are served in the order they were sent, each at
\* most once.
ServedInOrder == [][AnswerPass => taken' > taken]_vars

\* Without loss on the way to the tester, each response it completes is one
\* response of the server, every byte of it -- unless the server rewrote its only
\* response buffer while IsoTp was still sending from it, or the length has more
\* than the 12 bits of a First Frame.
ResponseWhole ==
    ~deaf /\ ~overwrote /\ receiver.got # <<>> =>
        LET m == receiver.got[1].msg IN
        answers[m] < LenMod => receiver.got = Bytes(m, answers[m])

\* A reception and a wait for flow control both end: N_Cr and N_Bs.
ReceptionEnds == rx.state = "Receiving" ~> rx.state = "Idle"
WaitForFlowControlEnds == tx.state = "WaitFC" ~> tx.state # "WaitFC"

NoMessage == [of |-> 0, whole |-> TRUE]

\* What waits for the server, and what the tester heard last.
Waiting ==
    IF ~rx.ready THEN NoMessage
    ELSE LET m == rx.buf[1].msg IN [of |-> m, whole |-> rx.buf = Bytes(m, lengths[m])]

Heard ==
    IF receiver.got = <<>> THEN NoMessage
    ELSE LET m == receiver.got[1].msg
         IN  [of |-> m, whole |-> receiver.got = Bytes(m, answers[m])]

\* A response was lost in part, rewritten on its way, or too long for its header.
Spoiled == deaf \/ overwrote \/ \E m \in 1 .. taken : answers[m] >= LenMod

\* Whatever is lost, delayed, given up or overtaken, the transport is the ordered
\* exchange of Dialogue.
Promise == INSTANCE Dialogue WITH
    asked <- sender.msg, damaged <- broken, inbox <- Waiting, served <- taken,
    heard <- Heard, spoiled <- Spoiled
LinkImplementsDialogue == Promise!DialogueSpec
-----------------------------------------------------------------------------
(***************************************************************************)
(* What the documentation says and the code does not keep.  Each is        *)
(* refuted by a run of its own.                                            *)
(***************************************************************************)
\* docs/isotp_notes.md: PCI nibble 0x3 is flow control.  The frame that answers
\* an accepted First Frame has it.
FirstFrameAnswered ==
    [][/\ ring # <<>>
       /\ ring' = Tail(ring)
       /\ Head(ring).pci = FirstFrame
       /\ mailboxes' # mailboxes
       => mailboxes'[Len(mailboxes')].pci = FlowControl]_vars

\* isotp.hpp: calling update() and processing flow control frames is what it
\* takes "to complete the transmission".
TransmissionEnds == tx.state # "Idle" ~> tx.state = "Idle"
=============================================================================
