----------------------------- MODULE UdsServer ------------------------------
(***************************************************************************)
(* The main loop of the ECU around UdsServer::process(): take the request  *)
(* the transport holds, keep the session alive, dispatch to a service,     *)
(* answer, then let the S3 timer act.  The session (UdsSession) and        *)
(* security access (SecurityAccess) are modelled in full; session control, *)
(* tester present and ECU reset are the services defined here.             *)
(*                                                                         *)
(* The transport is reduced to what process() sees of it, the one complete *)
(* message IsoTp holds between two calls; module IsoTp models the rest.    *)
(***************************************************************************)
EXTENDS Integers, Sequences, UdsSession, SecurityAccess

CONSTANTS
    Services,           \* SIDs registered with register_service()
    Requests,           \* the requests the tester can send
    StartTick,          \* the tick at which the ECU is observed first
    LastRequestTick     \* bound: the tester is silent from this tick on

ASSUME ServerConstants ==
    /\ StartTick \in Tick
    /\ \A r \in Requests : /\ r.long \in BOOLEAN
                           /\ r.sub \in 0 .. 127
                           /\ r.suppress \in BOOLEAN

VARIABLES
    session,    \* m_session
    tick,       \* the millisecond counter behind get_tick_ms() and the tick provider
    pc,         \* where the loop is: "receive" frames or "process"
    request,    \* the complete message held by the transport, or NoRequest
    response,   \* what this pass gave the transport to send, or NoResponse
    heard       \* history: tick and SID of the last request handled

serverVars == <<tick, pc, request, response, heard>>
vars == <<session, secVars, serverVars>>

NoRequest == [sid |-> "none", long |-> FALSE, sub |-> 0, suppress |-> FALSE, key |-> 0]
NoResponse == "none"

Init ==
    /\ session = NewSession
    /\ SecInit
    /\ tick = StartTick
    /\ pc = "receive"
    /\ request = NoRequest
    /\ response = NoResponse
    /\ heard = [at |-> StartTick, sid |-> "none"]

-----------------------------------------------------------------------------
\* SysTick.  The tick wraps at TickMod; MaxTick ends the observation, and once
\* the tester is silent its last request is handled before time goes on.
Advance ==
    /\ tick # MaxTick
    /\ tick < LastRequestTick \/ request = NoRequest
    /\ tick' = (tick + 1) % TickMod
    /\ UNCHANGED <<session, secVars, pc, request, response, heard>>

\* process_frame() completes a message.  One that process() has not read yet
\* is overwritten.
Receive(r) ==
    /\ pc = "receive"
    /\ tick < LastRequestTick
    /\ request' = r
    /\ UNCHANGED <<session, secVars, tick, pc, response, heard>>

\* A First Frame clears m_data_ready: an unread message is lost.
DropUnread ==
    /\ pc = "receive"
    /\ request # NoRequest
    /\ tick < LastRequestTick
    /\ request' = NoRequest
    /\ UNCHANGED <<session, secVars, tick, pc, response, heard>>

\* sec.update(can.get_tick_ms()), between the frames and process().
UpdateSecurity ==
    /\ pc = "receive"
    /\ pc' = "process"
    /\ SecUpdate(tick)
    /\ response' = NoResponse
    /\ UNCHANGED <<session, tick, request, heard>>

-----------------------------------------------------------------------------
(***************************************************************************)
(* process() reads the tick once.  With a request it calls keep_alive(),   *)
(* which gives the session Alive, then the service, which leaves the       *)
(* session s; either way update() has the last word.                       *)
(***************************************************************************)
Alive == KeepAlive(session, tick)

EndOfPass(s) ==
    /\ session' = Update(s, tick)
    /\ pc' = "receive"
    /\ request' = NoRequest
    /\ UNCHANGED tick

Answer(s, reply) ==
    /\ EndOfPass(s)
    /\ response' = reply
    /\ heard' = [at |-> tick, sid |-> request.sid]

AnswerOnly(s, reply) == Answer(s, reply) /\ UNCHANGED secVars

\* Suppressed positive responses are not sent: handle() returns false.
Positive(reply) == IF request.suppress THEN NoResponse ELSE reply

IdlePass ==
    /\ pc = "process"
    /\ request = NoRequest
    /\ EndOfPass(session)
    /\ UNCHANGED <<secVars, response, heard>>

\* handle_request() finds no service, or the service finds no sub-function byte.
Refuse ==
    /\ pc = "process"
    /\ request # NoRequest
    /\ \/ request.sid \notin Services /\ AnswerOnly(Alive, "ServiceNotSupported")
       \/ /\ request.sid \in Services
          /\ ~request.long
          /\ AnswerOnly(Alive, "IncorrectMessageLength")

Dispatched(sid) ==
    /\ pc = "process"
    /\ request.sid = sid
    /\ sid \in Services
    /\ request.long

SessionOf(sub) == <<"Default", "Programming", "Extended">>[sub]

DiagnosticSessionControl ==
    /\ Dispatched("SessionControl")
    /\ \/ /\ request.sub \notin 1 .. 3
          /\ AnswerOnly(Alive, "SubFunctionNotSupported")
       \/ /\ request.sub \in 1 .. 3
          /\ ~TransitionAllowed(Alive, SessionOf(request.sub))
          /\ AnswerOnly(Alive, "ConditionsNotCorrect")
       \/ /\ request.sub \in 1 .. 3
          /\ TransitionAllowed(Alive, SessionOf(request.sub))
          /\ AnswerOnly(Transition(Alive, SessionOf(request.sub)), Positive("Session"))

\* handle() passes tick 0 to keep_alive().
TesterPresent ==
    /\ Dispatched("TesterPresent")
    /\ \/ /\ request.sub # 0
          /\ AnswerOnly(Alive, "SubFunctionNotSupported")
       \/ /\ request.sub = 0
          /\ AnswerOnly(KeepAlive(Alive, 0), Positive("TesterPresent"))

\* The callback runs inside handle(), before the response is sent.  One that
\* only notes the reset returns and the pass goes on ...
EcuReset ==
    /\ Dispatched("EcuReset")
    /\ \/ /\ request.sub \notin 1 .. 3
          /\ AnswerOnly(Alive, "SubFunctionNotSupported")
       \/ /\ request.sub \in 1 .. 3
          /\ AnswerOnly(Alive, Positive("Reset"))

\* ... one that resets the processor does not: everything is in RAM.
Restart ==
    /\ session' = NewSession
    /\ SecRestart
    /\ tick' = StartTick
    /\ pc' = "receive"
    /\ request' = NoRequest
    /\ response' = NoResponse
    /\ heard' = [at |-> StartTick, sid |-> "none"]

ResetInCallback ==
    /\ Dispatched("EcuReset")
    /\ request.sub \in 1 .. 3
    /\ Restart

\* SecurityAccess does not know the suppress bit: it is part of the level.
RawSub == IF request.suppress THEN request.sub + 128 ELSE request.sub

SecurityAccessRequest ==
    /\ Dispatched("SecurityAccess")
    /\ \E reply \in SecReplies :
          /\ SecHandle(RawSub, request.key, Alive.current, reply)
          /\ Answer(Alive, reply)

Process == \/ IdlePass
           \/ Refuse
           \/ DiagnosticSessionControl
           \/ TesterPresent
           \/ EcuReset
           \/ ResetInCallback
           \/ SecurityAccessRequest

Next == \/ Advance
        \/ \E r \in Requests : Receive(r)
        \/ DropUnread
        \/ UpdateSecurity
        \/ Process

Spec == Init /\ [][Next]_vars

\* while (true) runs the loop, and SysTick counts whatever the loop does.
FairSpec == Spec /\ WF_vars(UpdateSecurity) /\ WF_vars(Process) /\ WF_vars(Advance)

-----------------------------------------------------------------------------
(***************************************************************************)
(* Properties.  NoWrap says the observation ends before any deadline       *)
(* reaches 2^32: the code compares ticks with >= and is wrong beyond.      *)
(***************************************************************************)
NoWrap == /\ S3 > 0
          /\ StartTick <= MaxTick
          /\ MaxTick + S3 < TickMod
          /\ SecNoWrap

\* Types of the whole state.
TypeOK == /\ session \in SessionObject
          /\ SecTypeOK
          /\ tick \in Tick
          /\ pc \in {"receive", "process"}
          /\ request \in Requests \cup {NoRequest}

\* The S3 timer and the session agree: the Default session has no timer, a
\* timer never runs longer than S3 past the last request, and a session
\* other than Default runs without one only right after the request that
\* entered it (transition() does not start the timer, the next request does).
SessionTimerInv ==
    /\ session.current = "Default" => session.deadline = 0
    /\ session.timedOut => session.current = "Default"
    /\ session.deadline <= heard.at + S3
    /\ session.current # "Default" /\ session.deadline = 0
           => heard.sid = "SessionControl"

\* process() times a session out only after S3 without a request, unless the
\* last request was a TesterPresent (which sets the deadline from tick 0).
NoEarlyExpiry ==
    [][session'.timedOut /\ ~session.timedOut
          => \/ tick - heard'.at >= S3
             \/ heard'.sid = "TesterPresent"]_vars

\* The programming session is entered from Default and from nowhere else,
\* whatever order requests and time-outs come in.
ProgrammingFromDefault ==
    [][session'.current = "Programming"
          => session.current \in {"Programming", "Default"}]_vars

\* A tester that falls silent loses its session once a timer is running.
SilenceEndsSession ==
    session.deadline # 0 ~> session.current = "Default"
-----------------------------------------------------------------------------
(***************************************************************************)
(* What the documentation says and the code does not keep.  Each is        *)
(* refuted by a run of its own.                                            *)
(***************************************************************************)
\* docs/s3_server_timer.md: TesterPresent "exists specifically to keep the
\* session alive": only S3 without a request ends a session.
RequestsKeepSession ==
    [][session'.timedOut /\ ~session.timedOut => tick - heard'.at >= S3]_vars

\* docs/s3_server_timer.md: "Timer STARTS when ECU transitions to a
\* non-default session": no session outlives a silent tester.
EnteredSessionEnds == session.current # "Default" ~> session.current = "Default"
=============================================================================
