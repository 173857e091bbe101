------------------------------ MODULE MCParts --------------------------------
(* The parts that can be observed on their own, side by side: the library, *)
(* the table of trouble codes and the security levels, two of them that    *)
(* need different sessions.  A behaviour is one of a single part.          *)
EXTENDS MCLibrary, MCDtcManager, SecurityAccess

MCRequiredSession == (1 :> "Extended" @@ 3 :> "Programming")

LibraryFresh == TimerFresh /\ SeedFresh /\ CrcFresh /\ PortFresh /\ DataFresh

PartsInit == LibraryInit /\ DtcInit /\ SecInit

PartsNext ==
    \/ DtcInit /\ SecInit /\ LibraryNext /\ UNCHANGED <<dtcVars, secVars>>
    \/ LibraryFresh /\ SecInit /\ DtcNext /\ UNCHANGED <<libraryVars, secVars>>
    \/ LibraryFresh /\ DtcInit /\ SecNext /\ UNCHANGED <<libraryVars, dtcVars>>

PartsSpec == PartsInit /\ [][PartsNext]_<<libraryVars, dtcVars, secVars>>
=============================================================================
