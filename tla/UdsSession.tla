----------------------------- MODULE UdsSession -----------------------------
(***************************************************************************)
(* The diagnostic session of the ECU (class UdsSession): the current       *)
(* session type and the S3 timer that ends it.  The class is passive: its  *)
(* methods are called by the server and the services, several of them in   *)
(* one pass of the server, so each method is an operator from the object   *)
(* before the call to the object after it.                                 *)
(***************************************************************************)
EXTENDS Integers

CONSTANTS
    TickMod,    \* ticks are uint32_t milliseconds: 2^32 in the code
    S3,         \* TimingConfig::s3_ms
    MaxTick     \* bound: the last tick observed

ASSUME SessionConstants == /\ TickMod \in Nat \ {0}
                           /\ S3 \in 0 .. TickMod - 1
                           /\ MaxTick \in 0 .. TickMod - 1

Tick == 0 .. TickMod - 1

SessionType == {"Default", "Programming", "Extended"}

SessionObject == [current : SessionType, deadline : Tick, timedOut : BOOLEAN]

NewSession == [current |-> "Default", deadline |-> 0, timedOut |-> FALSE]

\* reset(): also what transition() does on the way to Default.
Reset(s) == [s EXCEPT !.current = "Default", !.timedOut = FALSE, !.deadline = 0]

\* Mutant: any session may be entered from any other.
TransitionUnchecked(s, new) == TRUE

\* transition() refuses Programming from any session but Default ...
TransitionAllowed(s, new) == new = "Programming" => s.current = "Default"

\* ... and leaves the S3 deadline as it finds it.
Transition(s, new) ==
    IF new = "Default" THEN Reset(s)
    ELSE [s EXCEPT !.current = new, !.timedOut = FALSE]

\* Mutant: keep_alive() starts the timer but does not restart it.
KeepAliveOnce(s, now) ==
    [s EXCEPT !.timedOut = FALSE,
              !.deadline = IF s.current = "Default" \/ @ # 0 THEN @
                           ELSE (now + S3) % TickMod]

\* A deadline of 0 means "no timer"; the sum wraps like uint32_t.
KeepAlive(s, now) ==
    [s EXCEPT !.timedOut = FALSE,
              !.deadline = IF s.current = "Default" THEN @ ELSE (now + S3) % TickMod]

\* Mutant: only the extended session times out.
S3ExpiredExtended(s, now) ==
    s.current = "Extended" /\ s.deadline # 0 /\ now >= s.deadline

S3Expired(s, now) ==
    s.current # "Default" /\ s.deadline # 0 /\ now >= s.deadline

\* Mutant: the time-out leaves the deadline behind.
UpdateKeepsDeadline(s, now) ==
    IF S3Expired(s, now) THEN [s EXCEPT !.current = "Default", !.timedOut = TRUE]
    ELSE IF s.current = "Default" THEN [s EXCEPT !.deadline = 0, !.timedOut = FALSE]
    ELSE s

Update(s, now) ==
    IF S3Expired(s, now)
    THEN [current |-> "Default", deadline |-> 0, timedOut |-> TRUE]
    ELSE IF s.current = "Default" THEN [s EXCEPT !.deadline = 0, !.timedOut = FALSE]
    ELSE s
=============================================================================
