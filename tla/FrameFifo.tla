------------------------------ MODULE FrameFifo ------------------------------
(***************************************************************************)
(* What the driver's receive path promises: frames come out whole, each    *)
(* once and in the order they came in; a frame is lost only when Capacity  *)
(* others are waiting; receive() says "nothing there" only when nothing    *)
(* is.                                                                     *)
(***************************************************************************)
EXTENDS Naturals, Sequences

CONSTANTS Capacity, LastFrame, Idle, Empty

VARIABLES
    arrived,    \* frames the peripheral has handed over, numbered from 1
    queue,      \* those that wait
    hand        \* what receive() is about to return: Idle outside the call

fifoVars == <<arrived, queue, hand>>

FifoInit == arrived = 0 /\ queue = <<>> /\ hand = Idle

Arrive ==
    /\ arrived < LastFrame
    /\ arrived' = arrived + 1
    /\ queue' = IF Len(queue) < Capacity THEN Append(queue, arrived + 1) ELSE queue
    /\ UNCHANGED hand

Take ==
    /\ hand = Idle
    /\ queue # <<>>
    /\ hand' = Head(queue)
    /\ queue' = Tail(queue)
    /\ UNCHANGED arrived

FindNone == hand = Idle /\ queue = <<>> /\ hand' = Empty /\ UNCHANGED <<arrived, queue>>

HandOver == hand # Idle /\ hand' = Idle /\ UNCHANGED <<arrived, queue>>

FifoNext == Arrive \/ Take \/ FindNone \/ HandOver

FifoSpec == FifoInit /\ [][FifoNext]_fifoVars
=============================================================================
