------------------------------- MODULE CanRing -------------------------------
(***************************************************************************)
(* The receive ring of a CAN driver (Stm32Can; Stm32F1Can and Stm32H7Can   *)
(* have the same ring).  The main loop calls receive(), the interrupt      *)
(* on_rx_irq() runs between any two of its instructions, and to the end.   *)
(*                                                                         *)
(* m_rx_head and m_rx_tail are volatile, the slots are not: the compiler   *)
(* keeps the order of the index accesses, but may move the copy out of the *)
(* slot, or a part of it, behind the store of m_rx_tail.  So the parts of  *)
(* the copy and the store happen in any order.  The copy does not move     *)
(* before the test of m_rx_head, because an indexed load may trap.         *)
(***************************************************************************)
EXTENDS Naturals, Sequences

CONSTANTS
    Size,       \* kRxBufSize: 16, or 8 on the F1
    LastFrame,  \* bound: frames the peripheral receives
    Idle, Empty, Torn

ASSUME RingConstants ==
    /\ Size \in Nat \ {0, 1}
    /\ LastFrame \in Nat
    /\ {Idle, Empty, Torn} \cap Nat = {}
    /\ Idle # Empty /\ Idle # Torn /\ Empty # Torn

VARIABLES
    buf,        \* m_rx_buf; a frame is its number, 0 an unwritten slot
    head, tail, \* m_rx_head, m_rx_tail
    arrived,    \* frames HAL_CAN_GetRxMessage() has handed over
    call        \* receive() in progress: step, local tail, parts copied, tail stored

vars == <<buf, head, tail, arrived, call>>

Slot == 0 .. Size - 1
Frame == 0 .. LastFrame
Part == {"id", "data"}      \* a CanFrame is copied word by word

Call == [at : {"Out", "Test", "Copy", "None"}, tail : Slot,
         frame : [Part -> Frame], copied : SUBSET Part, stored : BOOLEAN]

NoCall == [at |-> "Out", tail |-> 0, frame |-> [p \in Part |-> 0],
           copied |-> {}, stored |-> FALSE]

Init ==
    /\ buf = [i \in Slot |-> 0]
    /\ head = 0
    /\ tail = 0
    /\ arrived = 0
    /\ call = NoCall

\* Mutant: an index does not wrap.
FollowingNoWrap(i) == i + 1

Following(i) == (i + 1) % Size

-----------------------------------------------------------------------------
\* Mutant: the frame that fills the last slot is stored as well.
FullLate(next) == next = Following(tail)

Full(next) == next = tail

\* on_rx_irq(): store the frame, unless the ring is full.
OnRxIrq ==
    /\ arrived < LastFrame
    /\ arrived' = arrived + 1
    /\ LET next == Following(head)
       IN  IF Full(next) THEN UNCHANGED <<buf, head>>
           ELSE buf' = [buf EXCEPT ![head] = arrived + 1] /\ head' = next
    /\ UNCHANGED <<tail, call>>

-----------------------------------------------------------------------------
\* receive(): read m_rx_tail ...
Enter ==
    /\ call.at = "Out"
    /\ call' = [NoCall EXCEPT !.at = "Test", !.tail = tail]
    /\ UNCHANGED <<buf, head, tail, arrived>>

\* Mutant: the ring is taken for empty when one frame is left.
HasFrameLate == head \notin {call.tail, Following(call.tail)}

HasFrame == head # call.tail

\* ... compare m_rx_head with it ...
Test ==
    /\ call.at = "Test"
    /\ call' = [call EXCEPT !.at = IF HasFrame THEN "Copy" ELSE "None"]
    /\ UNCHANGED <<buf, head, tail, arrived>>

\* Mutant: the slot is found by the index as it is now.
CopiedFromNow == buf[tail]

CopiedFrom == buf[call.tail]

\* ... copy the slot ...
Copy(p) ==
    /\ call.at = "Copy"
    /\ p \notin call.copied
    /\ call' = [call EXCEPT !.copied = @ \cup {p}, !.frame[p] = CopiedFrom]
    /\ UNCHANGED <<buf, head, tail, arrived>>

\* Mutant: the index runs past the end of the ring.
StoredTailSkips == (call.tail + 2) % Size

StoredTail == Following(call.tail)

\* ... and store the new m_rx_tail.
Store ==
    /\ call.at = "Copy"
    /\ ~call.stored
    /\ tail' = StoredTail
    /\ call' = [call EXCEPT !.stored = TRUE]
    /\ UNCHANGED <<buf, head, arrived>>

Return ==
    /\ \/ call.at = "None"
       \/ call.at = "Copy" /\ call.stored /\ call.copied = Part
    /\ call' = NoCall
    /\ UNCHANGED <<buf, head, tail, arrived>>

Receive == Enter \/ Test \/ Store \/ Return \/ \E p \in Part : Copy(p)

Next == OnRxIrq \/ Receive

Spec == Init /\ [][Next]_vars

\* The main loop calls receive() for ever; nothing makes a frame arrive.
FairSpec == Spec /\ WF_vars(Receive)

-----------------------------------------------------------------------------
\* Types: of the indices, the slots and the call.
TypeOK ==
    /\ buf \in [Slot -> Frame]
    /\ head \in Slot /\ tail \in Slot
    /\ arrived \in Frame
    /\ call \in Call

\* The slot receive() copies from keeps its frame until it returns, even when
\* m_rx_tail has been stored before: on_rx_irq() leaves one slot free, and that
\* is the one.  What was copied is therefore what is there.
CopyIntact ==
    call.at = "Copy" =>
        /\ \A p \in call.copied : call.frame[p] = buf[call.tail]
        /\ call.stored => head # call.tail \/ Full(Following(head))

-----------------------------------------------------------------------------
\* The frames that wait, from the tail to the head.
Waiting == (head + Size - tail) % Size
Queue == [i \in 1 .. Waiting |-> buf[(tail + i - 1) % Size]]

\* The frame the call in progress hands over, as copied so far.
Seen(p) == IF p \in call.copied THEN call.frame[p] ELSE buf[call.tail]
Handed ==
    IF call.at = "None" THEN Empty
    ELSE IF call.at # "Copy" \/ ~call.stored THEN Idle
    ELSE IF Seen("id") = Seen("data") THEN Seen("id")
    ELSE Torn

Fifo == INSTANCE FrameFifo
            WITH Capacity <- Size - 1, queue <- Queue, hand <- Handed

\* The ring implements the bounded queue, whenever the interrupt comes and
\* wherever the compiler puts the copy.
RingImplementsFifo == Fifo!FifoSpec

\* A frame that got into the ring reaches the main loop.
QueuedIsReceived ==
    \A f \in 1 .. LastFrame :
        (\E i \in 1 .. Waiting : Queue[i] = f) ~> Handed = f
=============================================================================
