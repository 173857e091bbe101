------------------------------ MODULE Library -------------------------------
(***************************************************************************)
(* The parts of the library that share no state with any other: the        *)
(* software timers, the seed generators, the CRCs, what the CAN drivers    *)
(* do to a frame, and the services for data and memory.                    *)
(*                                                                         *)
(* Because they share nothing, a step of one says nothing about another:   *)
(* all are here side by side, and a behaviour is one of a single part.     *)
(***************************************************************************)
EXTENDS HalTimer, SeedKey, Crc, CanPort, DataServices

libraryVars == <<timerVars, seedVars, crcVars, portVars, dataVars>>

LibraryInit == TimerInit /\ SeedInit /\ CrcInit /\ PortInit /\ DataInit

\* The parts that have not moved since the start.
TimerFresh == ms = 0 /\ ~soft.running /\ ~periodic.started
SeedFresh == issued = <<>> /\ drawn = 0
CrcFresh == data = <<>>
PortFresh == PortInit
DataFresh == DataInit

LibraryNext ==
    \/ SeedFresh /\ CrcFresh /\ PortFresh /\ DataFresh /\ TimerNext
       /\ UNCHANGED <<seedVars, crcVars, portVars, dataVars>>
    \/ TimerFresh /\ CrcFresh /\ PortFresh /\ DataFresh /\ SeedNext
       /\ UNCHANGED <<timerVars, crcVars, portVars, dataVars>>
    \/ TimerFresh /\ SeedFresh /\ PortFresh /\ DataFresh /\ CrcNext
       /\ UNCHANGED <<timerVars, seedVars, portVars, dataVars>>
    \/ TimerFresh /\ SeedFresh /\ CrcFresh /\ DataFresh /\ PortNext
       /\ UNCHANGED <<timerVars, seedVars, crcVars, dataVars>>
    \/ TimerFresh /\ SeedFresh /\ CrcFresh /\ PortFresh /\ DataNext
       /\ UNCHANGED <<timerVars, seedVars, crcVars, portVars>>

LibrarySpec == LibraryInit /\ [][LibraryNext]_libraryVars
=============================================================================
