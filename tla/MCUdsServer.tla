---------------------------- MODULE MCUdsServer -----------------------------
(* Model values for the server: a tester with every service registered. *)
EXTENDS UdsServer

Req(sid, sub) ==
    [sid |-> sid, long |-> TRUE, sub |-> sub, suppress |-> FALSE, key |-> 0]

MCServices == {"SessionControl", "TesterPresent", "EcuReset", "SecurityAccess"}

MCRequiredSession == [l \in Levels |-> "Extended"]

SessionRequests ==
    {Req("SessionControl", s) : s \in 0 .. 3}
        \cup {Req("TesterPresent", s) : s \in 0 .. 1}
        \cup {[Req("TesterPresent", 0) EXCEPT !.suppress = TRUE]}
        \cup {Req("EcuReset", s) : s \in 0 .. 1}
        \cup {[Req("SessionControl", 1) EXCEPT !.long = FALSE]}
        \cup {Req("ReadDTCInformation", 1)}

SecurityRequests ==
    {Req("SecurityAccess", s) : s \in {1, 3}}
        \cup {[Req("SecurityAccess", 2) EXCEPT !.key = k] : k \in Seeds \cup {0}}
        \cup {[Req("SecurityAccess", 1) EXCEPT !.suppress = TRUE]}

MCRequests == SessionRequests \cup SecurityRequests
=============================================================================
