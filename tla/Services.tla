------------------------------ MODULE Services ------------------------------
(***************************************************************************)
(* The services with a little state of their own, or with a setting of the *)
(* application behind them: LinkControl (0x87), ResponseOnEvent (0x86),    *)
(* CommunicationControl (0x28), ControlDTCSetting (0x85), InputOutput-     *)
(* ControlByIdentifier (0x2F), RequestUpload (0x35) and the stop and       *)
(* result requests of RoutineControl (0x31), all under the diagnostic      *)
(* session.  A request is one pass of UdsServer::process().                *)
(*                                                                         *)
(* Outside this repository: the application, whose callbacks may refuse    *)
(* and whose LinkControl callback switches the bit rate before it returns; *)
(* a bus that loses requests and answers; and a tester.  It hears nothing  *)
(* at another rate than its own, takes silence for a yes where it has      *)
(* asked for no answer, and does not ask for the transition while a        *)
(* verification it wants answered is not.                                  *)
(***************************************************************************)
EXTENDS UdsSession

CONSTANTS
    Rates,          \* the rates kBaudrates lists
    FirstRate,      \* the one after a reset
    NoRate,         \* an identifier it does not list; 0, and "none"
    EventTypes,     \* of ResponseOnEvent
    CommunicationSubs,  \* sub-functions asked for, 4 among them or above
    StartTick       \* the tick at which the ECU is observed first

ASSUME ServicesConstants ==
    /\ FirstRate \in Rates
    /\ NoRate \notin Rates
    /\ 0 \in EventTypes
    /\ CommunicationSubs \subseteq Nat
    /\ StartTick \in 0 .. MaxTick

VARIABLES
    session,    \* m_session of the server
    tick,       \* the tick provider
    link,       \* LinkControlService: m_verified, m_pending_baudrate
    rate,       \* the rate the application drives the bus at
    roe,        \* ResponseOnEventService: m_active, m_event_type
    upload,     \* RequestUploadService::m_active
    erased,     \* EraseRoutineCtx::done
    told,       \* what the application was told to do last
    answer,     \* the answer to the last request
    tester,     \* its rate, the rate it had verified, and whether it waits to hear
    trouble     \* history: what may have put tester and ECU apart

services == <<link, rate, roe, upload, erased, told>>
vars == <<session, tick, services, answer, tester, trouble>>

LinkObject == [verified : BOOLEAN, pending : Rates \cup {NoRate}]
RoeObject == [active : BOOLEAN, type : EventTypes]
ToldObject == [communication : 0 .. 3, dtcSetting : 1 .. 2, output : {"ECU", "Tester"}]
TesterObject == [rate : Rates, wanted : Rates \cup {NoRate}, unsure : BOOLEAN]

\* No trouble; the ECU has been reset and not been asked for a rate since; or an
\* event that the tester cannot notice.
Troubles == {"None", "Reset", "Lost"}

\* What a request and its answer meet on the bus.
Fates == {"Heard", "RequestLost", "AnswerLost"}

NewLink == [verified |-> FALSE, pending |-> NoRate]
NewRoe == [active |-> FALSE, type |-> 0]
NewTold == [communication |-> 0, dtcSetting |-> 1, output |-> "ECU"]
NewTester == [rate |-> FirstRate, wanted |-> NoRate, unsure |-> FALSE]

Init ==
    /\ session = NewSession
    /\ tick = StartTick
    /\ link = NewLink
    /\ rate = FirstRate
    /\ roe = NewRoe
    /\ upload = FALSE
    /\ erased = FALSE
    /\ told = NewTold
    /\ answer = "None"
    /\ tester = NewTester
    /\ trouble = "None"

-----------------------------------------------------------------------------
(***************************************************************************)
(* The handlers.                                                           *)
(***************************************************************************)
Alive == KeepAlive(session, tick)
InSession == Alive.current # "Default"

Refuse(nrc) == answer' = nrc /\ UNCHANGED services

Positive(suppress) == answer' = IF suppress THEN "None" ELSE "Positive"

Yes == answer' \in {"None", "Positive"}

\* Mutant: what is to be verified is taken over before it is looked up.
VerifyEarly(id, suppress) ==
    \/ ~InSession /\ Refuse("ServiceNotSupportedInActiveSession")
    \/ /\ InSession
       /\ link' = [verified |-> TRUE, pending |-> id]
       /\ IF id = NoRate THEN answer' = "RequestOutOfRange" ELSE Positive(suppress)
       /\ UNCHANGED <<rate, roe, upload, erased, told>>

Verify(id, suppress) ==
    \/ ~InSession /\ Refuse("ServiceNotSupportedInActiveSession")
    \/ InSession /\ id = NoRate /\ Refuse("RequestOutOfRange")
    \/ /\ InSession
       /\ id \in Rates
       /\ link' = [verified |-> TRUE, pending |-> id]
       /\ Positive(suppress)
       /\ UNCHANGED <<rate, roe, upload, erased, told>>

\* Mutant: a verified rate can be applied again and again.
UsedKept == link

Used == [link EXCEPT !.verified = FALSE]

\* What the callback returns is not looked at.
TransitionBaudrate(ok, suppress) ==
    \/ ~InSession /\ Refuse("ServiceNotSupportedInActiveSession")
    \/ InSession /\ ~link.verified /\ Refuse("RequestSequenceError")
    \/ /\ InSession
       /\ link.verified
       /\ rate' = IF ok THEN link.pending ELSE rate
       /\ link' = Used
       /\ Positive(suppress)
       /\ UNCHANGED <<roe, upload, erased, told>>

\* handle() asks for no session; the event window is stored and never used.
ResponseOnEvent(sub, type, suppress) ==
    /\ roe' = CASE sub = "Stop"  -> [roe EXCEPT !.active = FALSE]
                [] sub = "Start" -> [active |-> TRUE, type |-> type]
                [] sub = "Clear" -> NewRoe
    /\ Positive(suppress)
    /\ UNCHANGED <<link, rate, upload, erased, told>>

CommunicationControl(sub, suppress) ==
    \/ sub > 3 /\ Refuse("SubFunctionNotSupported")
    \/ sub <= 3 /\ ~InSession /\ Refuse("ServiceNotSupportedInActiveSession")
    \/ /\ sub <= 3
       /\ InSession
       /\ told' = [told EXCEPT !.communication = sub]
       /\ Positive(suppress)
       /\ UNCHANGED <<link, rate, roe, upload, erased>>

ControlDtcSetting(sub, suppress) ==
    \/ sub \notin 1 .. 2 /\ Refuse("SubFunctionNotSupported")
    \/ sub \in 1 .. 2 /\ ~InSession /\ Refuse("ServiceNotSupportedInActiveSession")
    \/ /\ sub \in 1 .. 2
       /\ InSession
       /\ told' = [told EXCEPT !.dtcSetting = sub]
       /\ Positive(suppress)
       /\ UNCHANGED <<link, rate, roe, upload, erased>>

\* Mutant: any session but the default one will do.
InputSessionAny == InSession

\* The entry requires the extended session, as docs/io_control_modes.md has it.
InputSession == Alive.current = "Extended"

InputOutputControl(holder, ok) ==
    \/ ~InputSession /\ Refuse("ServiceNotSupportedInActiveSession")
    \/ InputSession /\ ~ok /\ Refuse("ConditionsNotCorrect")
    \/ /\ InputSession
       /\ ok
       /\ told' = [told EXCEPT !.output = holder]
       /\ answer' = "Positive"
       /\ UNCHANGED <<link, rate, roe, upload, erased>>

\* Nothing but the application's reset() takes m_active back.
RequestUpload(ok) ==
    \/ upload /\ Refuse("RequestSequenceError")
    \/ ~upload /\ ~ok /\ Refuse("UploadDownloadNotAccepted")
    \/ /\ ~upload
       /\ ok
       /\ upload' = TRUE
       /\ answer' = "Positive"
       /\ UNCHANGED <<link, rate, roe, erased, told>>

\* erase_results(); done is never reset.
EraseResults == IF erased THEN "Completed" ELSE "NotCompleted"

\* The erase routine: it has no stop function.
EraseRoutine(sub, ok) ==
    \/ Alive.current # "Programming" /\ Refuse("ServiceNotSupportedInActiveSession")
    \/ /\ Alive.current = "Programming"
       /\ \/ sub = "Start" /\ ~ok /\ Refuse("FailurePreventsExecution")
          \/ sub = "Stop" /\ Refuse("SubFunctionNotSupported")
          \/ sub = "Results" /\ Refuse(EraseResults)
          \/ /\ sub = "Start"
             /\ ok
             /\ erased' = TRUE
             /\ answer' = "Positive"
             /\ UNCHANGED <<link, rate, roe, upload, told>>

-----------------------------------------------------------------------------
(***************************************************************************)
(* The passes.                                                             *)
(***************************************************************************)
\* A request that is too short, or asks for a sub-function nobody has.
Malformed == answer' \in {"IncorrectLength", "SubFunctionNotSupported"} /\ UNCHANGED services

Setting ==
    \/ \E suppress \in BOOLEAN :
          \/ \E type \in EventTypes : ResponseOnEvent("Start", type, suppress)
          \/ \E sub \in {"Stop", "Clear"} : ResponseOnEvent(sub, 0, suppress)
          \/ \E sub \in CommunicationSubs : CommunicationControl(sub, suppress)
          \/ \E sub \in 0 .. 2 : ControlDtcSetting(sub, suppress)
    \/ \E ok \in BOOLEAN :
          \/ \E holder \in {"ECU", "Tester"} : InputOutputControl(holder, ok)
          \/ RequestUpload(ok)
          \/ EraseRoutine("Start", ok)
    \/ \E sub \in {"Stop", "Results"} : EraseRoutine(sub, TRUE)
    \/ Malformed

\* A frame sent at another rate is none.
Heard == tester.rate = rate

Pass(s) == session' = Update(s, tick) /\ UNCHANGED tick

\* Nothing of the ECU moves when a request is lost.
Unheard == UNCHANGED <<session, tick, services, answer>>

AskSetting ==
    /\ Heard
    /\ Setting
    /\ Pass(Alive)
    /\ UNCHANGED <<tester, trouble>>

AskSession(new) ==
    /\ Heard
    /\ IF TransitionAllowed(Alive, new)
       THEN answer' = "Positive" /\ Pass(Transition(Alive, new))
       ELSE answer' = "ConditionsNotCorrect" /\ Pass(Alive)
    /\ UNCHANGED <<services, tester, trouble>>

\* A tester that has asked for no answer hears a negative one only, so it takes what
\* is lost for a yes.  One that has asked for an answer and hears none waits for
\* another; the ECU may have the new rate verified or the old one.
AskVerify(id, suppress, fate) ==
    /\ Heard
    /\ IF fate = "RequestLost" THEN Unheard ELSE Verify(id, suppress) /\ Pass(Alive)
    /\ fate = "AnswerLost" => answer' # "None"
    /\ tester' = IF fate # "Heard" /\ ~suppress THEN [tester EXCEPT !.unsure = TRUE]
                 ELSE IF fate # "Heard" \/ Yes
                 THEN [tester EXCEPT !.wanted = id, !.unsure = FALSE]
                 ELSE tester
    /\ trouble' = IF (fate # "Heard" /\ suppress) \/ (trouble = "Reset" /\ link' # link)
                  THEN "Lost" ELSE trouble

\* With a yes the tester follows, and when it hears nothing though it has asked for
\* an answer it may.  It cannot see that the callback has failed, nor hear an answer
\* it asked for: that is sent after the callback, at the new rate.
AskTransition(ok, suppress, fate) ==
    /\ Heard
    /\ ~tester.unsure
    /\ IF fate = "RequestLost" THEN Unheard
       ELSE TransitionBaudrate(ok, suppress) /\ Pass(Alive)
    /\ fate = "AnswerLost" => answer' # "None"
    /\ \/ /\ fate = "Heard" => Yes
          /\ tester.wanted # NoRate
          /\ tester' = [tester EXCEPT !.rate = tester.wanted, !.wanted = NoRate]
       \/ /\ tester.wanted # NoRate => IF fate = "Heard" THEN ~Yes ELSE ~suppress
          /\ UNCHANGED tester
    /\ trouble' = IF fate # "Heard" \/ (Yes /\ ~(ok /\ suppress)) THEN "Lost" ELSE trouble

\* A tester that gets no further takes itself back to where it began.  Only of an
\* ECU that was reset before does it then know what it expects.
StartOver ==
    /\ tester' = NewTester
    /\ trouble' = IF trouble = "Reset" THEN "None" ELSE "Lost"
    /\ Unheard

IdlePass ==
    /\ Pass(session)
    /\ session' # session
    /\ UNCHANGED <<services, answer, tester, trouble>>

Advance ==
    /\ tick < MaxTick
    /\ tick' = tick + 1
    /\ UNCHANGED <<session, services, answer, tester, trouble>>

\* A reset, also at another rate than the tester's, which does not see it.
Restart ==
    /\ session' = NewSession
    /\ link' = NewLink
    /\ rate' = FirstRate
    /\ roe' = NewRoe
    /\ upload' = FALSE
    /\ erased' = FALSE
    /\ told' = NewTold
    /\ answer' = "None"
    /\ trouble' = "Reset"
    /\ UNCHANGED <<tick, tester>>

Next ==
    \/ AskSetting
    \/ \E new \in SessionType : AskSession(new)
    \/ \E id \in Rates \cup {NoRate}, suppress \in BOOLEAN, fate \in Fates :
           AskVerify(id, suppress, fate)
    \/ \E ok, suppress \in BOOLEAN, fate \in Fates : AskTransition(ok, suppress, fate)
    \/ StartOver
    \/ IdlePass
    \/ Advance
    \/ Restart

Spec == Init /\ [][Next]_vars

-----------------------------------------------------------------------------
Answers == {"None", "Positive", "IncorrectLength", "SubFunctionNotSupported",
            "ServiceNotSupportedInActiveSession", "RequestOutOfRange",
            "RequestSequenceError", "ConditionsNotCorrect", "UploadDownloadNotAccepted",
            "FailurePreventsExecution", "Completed", "NotCompleted"}

\* Types, and no rate outside the table is ever verified or applied.
TypeOK ==
    /\ session \in SessionObject
    /\ tick \in StartTick .. MaxTick
    /\ link \in LinkObject
    /\ link.verified => link.pending # NoRate
    /\ rate \in Rates
    /\ roe \in RoeObject
    /\ upload \in BOOLEAN /\ erased \in BOOLEAN
    /\ told \in ToldObject
    /\ answer \in Answers
    /\ tester \in TesterObject
    /\ trouble \in Troubles

\* Tester and ECU stay on the same rate over verifications, transitions, refusals,
\* session time-outs, and requests and answers lost where the tester asked for an
\* answer to its verification; and what the ECU would switch to is what the tester,
\* when it has its answer, would follow it to.  A loss that it takes for a yes, a
\* failing callback, or an answer sent at the new rate puts them apart, and a reset
\* does until the tester has started over.
RatesAgree ==
    trouble = "None" =>
        /\ tester.rate = rate
        /\ link.verified /\ ~tester.unsure => tester.wanted = link.pending

\* A refused request changes nothing, in whatever service.
RefusedHasNoEffect ==
    [][ answer' \notin {"None", "Positive"} => UNCHANGED services ]_vars

\* What the services control changes only in a session for it: link,
\* communication and trouble codes in any but the default one, outputs in the
\* extended one, flash in the programming one; a reset aside.
ControlInSession ==
    [][ \/ Restart
        \/ /\ (rate' # rate \/ told' # told) => Alive.current # "Default"
           /\ told'.output # told.output => Alive.current = "Extended"
           /\ erased' # erased => Alive.current = "Programming" ]_vars
=============================================================================
