--------------------------- MODULE ServicesProofs ----------------------------
(***************************************************************************)
(* Proofs about Services, for any bit rates, sub-functions and times.      *)
(***************************************************************************)
EXTENDS Services, TLAPS

-----------------------------------------------------------------------------
(* The session: what its methods return.                                   *)

\* Sums of ticks are ticks, as words wrap.
LEMMA SumIsTick ==
    ASSUME NEW t \in Nat, NEW d \in Nat
    PROVE  (t + d) % TickMod \in Tick
<1>1. TickMod \in Nat /\ TickMod > 0
  BY SessionConstants
<1>2. (t + d) % TickMod \in 0 .. TickMod - 1
  BY <1>1
<1>3. QED
  BY <1>2 DEF Tick

\* The methods of the session return sessions.
LEMMA SessionTypes ==
    ASSUME NEW s \in SessionObject, NEW now \in Tick
    PROVE  /\ KeepAlive(s, now) \in SessionObject
           /\ Update(s, now) \in SessionObject
           /\ \A new \in SessionType : Transition(s, new) \in SessionObject
           /\ NewSession \in SessionObject
<1>1. 0 \in Tick /\ now \in Nat /\ S3 \in Nat
  BY SessionConstants DEF Tick
<1>2. (now + S3) % TickMod \in Tick
  BY <1>1, SumIsTick
<1>3. KeepAlive(s, now) \in SessionObject
  BY <1>2 DEF KeepAlive, SessionObject
<1>4. Update(s, now) \in SessionObject
  BY <1>1 DEF Update, SessionObject, SessionType
<1>5. ASSUME NEW new \in SessionType PROVE Transition(s, new) \in SessionObject
  BY <1>1 DEF Transition, Reset, SessionObject, SessionType
<1>6. NewSession \in SessionObject
  BY <1>1 DEF NewSession, SessionObject, SessionType
<1>7. QED
  BY <1>3, <1>4, <1>5, <1>6

-----------------------------------------------------------------------------
(* The handlers: what each can change, and in which session.               *)

\* What is true of every handler but those of LinkControl.
Obeys ==
    /\ link' = link /\ rate' = rate
    /\ roe' \in RoeObject /\ upload' \in BOOLEAN /\ erased' \in BOOLEAN
    /\ told' \in ToldObject /\ answer' \in Answers
    /\ ~Yes => UNCHANGED services
    /\ told' # told => InSession
    /\ told'.output # told.output => Alive.current = "Extended"
    /\ erased' # erased => Alive.current = "Programming"

LEMMA RefuseObeys ==
    ASSUME TypeOK, NEW nrc \in Answers, Refuse(nrc)
    PROVE  Obeys
BY DEF Refuse, Obeys, services, TypeOK

LEMMA PositiveAnswers ==
    ASSUME NEW suppress \in BOOLEAN, Positive(suppress)
    PROVE  Yes /\ answer' \in Answers
BY DEF Positive, Yes, Answers

LEMMA EventObeys ==
    ASSUME TypeOK, NEW sub \in {"Start", "Stop", "Clear"}, NEW type \in EventTypes,
           NEW suppress \in BOOLEAN, ResponseOnEvent(sub, type, suppress)
    PROVE  Obeys
<1>1. roe' \in RoeObject
  BY ServicesConstants DEF ResponseOnEvent, TypeOK, RoeObject, NewRoe
<1>2. Yes /\ answer' \in Answers
  BY PositiveAnswers DEF ResponseOnEvent
<1>3. QED
  BY <1>1, <1>2 DEF ResponseOnEvent, Obeys, TypeOK

LEMMA CommunicationObeys ==
    ASSUME TypeOK, NEW sub \in Nat, NEW suppress \in BOOLEAN,
           CommunicationControl(sub, suppress)
    PROVE  Obeys
<1>1. CASE Refuse("SubFunctionNotSupported") \/ Refuse("ServiceNotSupportedInActiveSession")
  BY <1>1, RefuseObeys DEF Answers
<1>2. CASE /\ sub <= 3
           /\ InSession
           /\ told' = [told EXCEPT !.communication = sub]
           /\ Positive(suppress)
           /\ UNCHANGED <<link, rate, roe, upload, erased>>
  <2>1. told' \in ToldObject /\ told'.output = told.output
    BY <1>2 DEF TypeOK, ToldObject
  <2>2. Yes /\ answer' \in Answers
    BY <1>2, PositiveAnswers
  <2>3. QED
    BY <1>2, <2>1, <2>2 DEF Obeys, TypeOK
<1>3. QED
  BY <1>1, <1>2 DEF CommunicationControl

LEMMA DtcSettingObeys ==
    ASSUME TypeOK, NEW sub \in 0 .. 2, NEW suppress \in BOOLEAN,
           ControlDtcSetting(sub, suppress)
    PROVE  Obeys
<1>1. CASE Refuse("SubFunctionNotSupported") \/ Refuse("ServiceNotSupportedInActiveSession")
  BY <1>1, RefuseObeys DEF Answers
<1>2. CASE /\ sub \in 1 .. 2
           /\ InSession
           /\ told' = [told EXCEPT !.dtcSetting = sub]
           /\ Positive(suppress)
           /\ UNCHANGED <<link, rate, roe, upload, erased>>
  <2>1. told' \in ToldObject /\ told'.output = told.output
    BY <1>2 DEF TypeOK, ToldObject
  <2>2. Yes /\ answer' \in Answers
    BY <1>2, PositiveAnswers
  <2>3. QED
    BY <1>2, <2>1, <2>2 DEF Obeys, TypeOK
<1>3. QED
  BY <1>1, <1>2 DEF ControlDtcSetting

LEMMA OutputObeys ==
    ASSUME TypeOK, NEW holder \in {"ECU", "Tester"}, NEW ok \in BOOLEAN,
           InputOutputControl(holder, ok)
    PROVE  Obeys
<1>1. CASE Refuse("ServiceNotSupportedInActiveSession") \/ Refuse("ConditionsNotCorrect")
  BY <1>1, RefuseObeys DEF Answers
<1>2. CASE /\ InputSession
           /\ told' = [told EXCEPT !.output = holder]
           /\ answer' = "Positive"
           /\ UNCHANGED <<link, rate, roe, upload, erased>>
  <2>1. told' \in ToldObject
    BY <1>2 DEF TypeOK, ToldObject
  <2>2. QED
    BY <1>2, <2>1 DEF Obeys, Yes, Answers, InputSession, InSession, TypeOK
<1>3. QED
  BY <1>1, <1>2 DEF InputOutputControl

LEMMA UploadObeys ==
    ASSUME TypeOK, NEW ok \in BOOLEAN, RequestUpload(ok)
    PROVE  Obeys
<1>1. CASE Refuse("RequestSequenceError") \/ Refuse("UploadDownloadNotAccepted")
  BY <1>1, RefuseObeys DEF Answers
<1>2. CASE /\ upload' = TRUE
           /\ answer' = "Positive"
           /\ UNCHANGED <<link, rate, roe, erased, told>>
  BY <1>2 DEF Obeys, Yes, Answers, TypeOK
<1>3. QED
  BY <1>1, <1>2 DEF RequestUpload

LEMMA EraseObeys ==
    ASSUME TypeOK, NEW sub \in {"Start", "Stop", "Results"}, NEW ok \in BOOLEAN,
           EraseRoutine(sub, ok)
    PROVE  Obeys
<1>1. CASE \E nrc \in Answers : Refuse(nrc)
  BY <1>1, RefuseObeys
<1>2. CASE /\ Alive.current = "Programming"
           /\ erased' = TRUE
           /\ answer' = "Positive"
           /\ UNCHANGED <<link, rate, roe, upload, told>>
  BY <1>2 DEF Obeys, Yes, Answers, TypeOK
<1>3. EraseResults \in Answers
  BY DEF EraseResults, Answers
<1>4. QED
  BY <1>1, <1>2, <1>3 DEF EraseRoutine, Answers

LEMMA SettingObeys ==
    ASSUME TypeOK, Setting
    PROVE  Obeys
<1>1. CASE Malformed
  BY <1>1 DEF Malformed, Obeys, services, TypeOK, Answers
<1>2. ASSUME NEW suppress \in BOOLEAN, NEW type \in EventTypes,
             ResponseOnEvent("Start", type, suppress)
      PROVE  Obeys
  BY <1>2, EventObeys
<1>3. ASSUME NEW suppress \in BOOLEAN, NEW sub \in {"Stop", "Clear"},
             ResponseOnEvent(sub, 0, suppress)
      PROVE  Obeys
  BY <1>3, EventObeys, ServicesConstants
<1>4. ASSUME NEW suppress \in BOOLEAN, NEW sub \in CommunicationSubs,
             CommunicationControl(sub, suppress)
      PROVE  Obeys
  BY <1>4, CommunicationObeys, ServicesConstants
<1>5. ASSUME NEW suppress \in BOOLEAN, NEW sub \in 0 .. 2, ControlDtcSetting(sub, suppress)
      PROVE  Obeys
  BY <1>5, DtcSettingObeys
<1>6. ASSUME NEW ok \in BOOLEAN, NEW holder \in {"ECU", "Tester"},
             InputOutputControl(holder, ok)
      PROVE  Obeys
  BY <1>6, OutputObeys
<1>7. ASSUME NEW ok \in BOOLEAN, RequestUpload(ok) PROVE Obeys
  BY <1>7, UploadObeys
<1>8. ASSUME NEW ok \in BOOLEAN, NEW sub \in {"Start", "Stop", "Results"},
             EraseRoutine(sub, ok)
      PROVE  Obeys
  BY <1>8, EraseObeys
<1>9. QED
  BY <1>1, <1>2, <1>3, <1>4, <1>5, <1>6, <1>7, <1>8 DEF Setting

-----------------------------------------------------------------------------
(* LinkControl.                                                            *)

LEMMA VerifyCases ==
    ASSUME NEW id \in Rates \cup {NoRate}, NEW suppress \in BOOLEAN, Verify(id, suppress)
    PROVE  \/ answer' \in Answers /\ ~Yes /\ UNCHANGED services
           \/ /\ InSession /\ id \in Rates
              /\ answer' \in Answers /\ Yes
              /\ link' = [verified |-> TRUE, pending |-> id]
              /\ UNCHANGED <<rate, roe, upload, erased, told>>
<1>1. CASE Refuse("ServiceNotSupportedInActiveSession") \/ Refuse("RequestOutOfRange")
  BY <1>1 DEF Refuse, Yes, Answers
<1>2. CASE Positive(suppress)
  BY <1>1, <1>2, PositiveAnswers DEF Verify
<1>3. QED
  BY <1>1, <1>2 DEF Verify

LEMMA TransitionCases ==
    ASSUME NEW ok \in BOOLEAN, NEW suppress \in BOOLEAN, TransitionBaudrate(ok, suppress)
    PROVE  \/ answer' \in Answers /\ ~Yes /\ UNCHANGED services
           \/ /\ InSession /\ link.verified
              /\ answer' \in Answers /\ Yes
              /\ rate' = IF ok THEN link.pending ELSE rate
              /\ link' = [link EXCEPT !.verified = FALSE]
              /\ UNCHANGED <<roe, upload, erased, told>>
<1>1. CASE Refuse("ServiceNotSupportedInActiveSession") \/ Refuse("RequestSequenceError")
  BY <1>1 DEF Refuse, Yes, Answers
<1>2. CASE Positive(suppress)
  BY <1>1, <1>2, PositiveAnswers DEF TransitionBaudrate, Used
<1>3. QED
  BY <1>1, <1>2 DEF TransitionBaudrate

-----------------------------------------------------------------------------
(* The steps.                                                              *)

\* An ECU that has been reset and not been asked for a rate since.
ResetKnown == trouble = "Reset" => rate = FirstRate /\ ~link.verified

ServicesInd == TypeOK /\ RatesAgree /\ ResetKnown

\* What RefusedHasNoEffect and ControlInSession say of one step.
RefusedStep == answer' \notin {"None", "Positive"} => UNCHANGED services

ControlStep ==
    \/ Restart
    \/ /\ (rate' # rate \/ told' # told) => Alive.current # "Default"
       /\ told'.output # told.output => Alive.current = "Extended"
       /\ erased' # erased => Alive.current = "Programming"

StepRules == ServicesInd' /\ RefusedStep /\ ControlStep

LEMMA TickFacts ==
    ASSUME TypeOK
    PROVE  tick \in Tick /\ StartTick \in Tick
BY SessionConstants, ServicesConstants DEF TypeOK, Tick

LEMMA PassType ==
    ASSUME TypeOK
    PROVE  /\ Alive \in SessionObject
           /\ \A s \in SessionObject : Pass(s) => session' \in SessionObject /\ tick' = tick
<1>1. tick \in Tick /\ session \in SessionObject
  BY TickFacts DEF TypeOK
<1>2. QED
  BY <1>1, SessionTypes DEF Alive, Pass

LEMMA AskSettingRules == ASSUME ServicesInd, AskSetting PROVE StepRules
<1>1. Obeys
  BY SettingObeys DEF AskSetting, ServicesInd
<1>2. session' \in SessionObject /\ tick' = tick /\ UNCHANGED <<tester, trouble>>
  BY PassType DEF AskSetting, ServicesInd
<1>3. ServicesInd'
  BY <1>1, <1>2 DEF Obeys, ServicesInd, TypeOK, RatesAgree, ResetKnown
<1>4. RefusedStep /\ ControlStep
  BY <1>1 DEF Obeys, Yes, InSession, RefusedStep, ControlStep
<1>5. QED
  BY <1>3, <1>4 DEF StepRules

LEMMA AskSessionRules ==
    ASSUME ServicesInd, NEW new \in SessionType, AskSession(new)
    PROVE  StepRules
<1>1. Transition(Alive, new) \in SessionObject
  BY PassType, TickFacts, SessionTypes DEF ServicesInd
<1>2. session' \in SessionObject /\ tick' = tick /\ answer' \in Answers
  BY <1>1, PassType DEF AskSession, ServicesInd, Answers
<1>3. UNCHANGED <<services, tester, trouble>>
  BY DEF AskSession
<1>4. QED
  BY <1>2, <1>3 DEF services, ServicesInd, TypeOK, RatesAgree, ResetKnown, StepRules, RefusedStep,
     ControlStep

\* What a request leaves when the ECU has not changed, and the tester has changed
\* only what it may.
TesterStep ==
    /\ tester' \in TesterObject /\ trouble' \in Troubles
    /\ trouble' = "None" =>
          /\ trouble = "None" /\ tester'.rate = tester.rate
          /\ ~tester'.unsure => ~tester.unsure /\ tester'.wanted = tester.wanted
    /\ trouble' = "Reset" => trouble = "Reset"

LEMMA TesterRules ==
    ASSUME ServicesInd, TesterStep, UNCHANGED services,
           session' \in SessionObject, tick' = tick, answer' \in Answers
    PROVE  StepRules
<1>1. TypeOK'
  BY DEF services, TesterStep, ServicesInd, TypeOK
<1>2. RatesAgree' /\ ResetKnown'
  BY DEF services, TesterStep, ServicesInd, RatesAgree, ResetKnown
<1>3. RefusedStep /\ ControlStep
  BY DEF services, RefusedStep, ControlStep
<1>4. QED
  BY <1>1, <1>2, <1>3 DEF ServicesInd, StepRules

\* A request that is lost moves nothing of the ECU.
LEMMA UnheardFacts ==
    ASSUME ServicesInd, Unheard
    PROVE  /\ UNCHANGED services /\ session' \in SessionObject /\ tick' = tick
           /\ answer' \in Answers
BY DEF Unheard, ServicesInd, TypeOK

\* A verification that is answered, or silent when asked to be, is one of what the tester
\* then wants; one that is not leaves it waiting.
LEMMA AskVerifyRules ==
    ASSUME ServicesInd, NEW id \in Rates \cup {NoRate}, NEW suppress \in BOOLEAN,
           NEW fate \in Fates, AskVerify(id, suppress, fate)
    PROVE  StepRules
<1>1. /\ tester' = IF fate # "Heard" /\ ~suppress THEN [tester EXCEPT !.unsure = TRUE]
                   ELSE IF fate # "Heard" \/ Yes
                   THEN [tester EXCEPT !.wanted = id, !.unsure = FALSE]
                   ELSE tester
      /\ trouble' = IF (fate # "Heard" /\ suppress) \/ (trouble = "Reset" /\ link' # link)
                    THEN "Lost" ELSE trouble
  BY DEF AskVerify
<1>2. tester \in TesterObject /\ trouble \in Troubles
  BY DEF ServicesInd, TypeOK
<1>3. tester' \in TesterObject /\ tester'.rate = tester.rate /\ trouble' \in Troubles
  BY <1>1, <1>2 DEF TesterObject, Troubles
<1>4. ASSUME UNCHANGED services, fate = "Heard" => ~Yes PROVE TesterStep
  <2>1. CASE fate # "Heard" /\ ~suppress
    BY <1>1, <1>2, <1>3, <2>1 DEF TesterStep, TesterObject
  <2>2. CASE fate # "Heard" /\ suppress
    BY <1>1, <1>3, <2>2 DEF TesterStep
  <2>3. CASE fate = "Heard"
    BY <1>1, <1>3, <1>4, <2>3 DEF TesterStep
  <2>4. QED
    BY <2>1, <2>2, <2>3
<1>5. CASE fate = "RequestLost"
  <2>1. Unheard
    BY <1>5 DEF AskVerify
  <2>2. UNCHANGED services
    BY <2>1, UnheardFacts
  <2>3. QED
    BY <1>4, <1>5, <2>1, <2>2, UnheardFacts, TesterRules
<1>6. CASE fate # "RequestLost"
  <2>1. Verify(id, suppress) /\ session' \in SessionObject /\ tick' = tick
    BY <1>6, PassType DEF AskVerify, ServicesInd
  <2>2. CASE answer' \in Answers /\ ~Yes /\ UNCHANGED services
    BY <1>4, <2>1, <2>2, TesterRules
  <2>3. CASE /\ InSession /\ id \in Rates
             /\ answer' \in Answers /\ Yes
             /\ link' = [verified |-> TRUE, pending |-> id]
             /\ UNCHANGED <<rate, roe, upload, erased, told>>
    <3>1. link' \in LinkObject /\ link'.pending = id /\ id # NoRate
      BY <2>3, ServicesConstants DEF LinkObject
    <3>2. TypeOK'
      BY <1>3, <2>1, <2>3, <3>1 DEF ServicesInd, TypeOK
    <3>3. ~tester'.unsure => tester'.wanted = id
      BY <1>1, <1>2, <2>3 DEF TesterObject
    <3>4. trouble' = "None" => trouble = "None"
      BY <1>1
    <3>5. RatesAgree'
      BY <1>3, <2>3, <3>1, <3>3, <3>4 DEF ServicesInd, RatesAgree
    <3>6. ResetKnown'
      <4>1. trouble = "Reset" => link' # link
        BY <2>3 DEF ServicesInd, ResetKnown
      <4>2. QED
        BY <1>1, <4>1 DEF ResetKnown
    <3>7. RefusedStep /\ ControlStep
      BY <2>3 DEF Yes, RefusedStep, ControlStep
    <3>8. QED
      BY <3>2, <3>5, <3>6, <3>7 DEF ServicesInd, StepRules
  <2>4. QED
    BY <2>1, <2>2, <2>3, VerifyCases
<1>7. QED
  BY <1>5, <1>6

\* The rate is switched to the one verified last, and that is the one the
\* tester follows to, unless the history says why it does not.
LEMMA AskTransitionRules ==
    ASSUME ServicesInd, NEW ok \in BOOLEAN, NEW suppress \in BOOLEAN,
           NEW fate \in Fates, AskTransition(ok, suppress, fate)
    PROVE  StepRules
<1>1. /\ trouble' = IF fate # "Heard" \/ (Yes /\ ~(ok /\ suppress)) THEN "Lost" ELSE trouble
      /\ ~tester.unsure
      /\ \/ /\ fate = "Heard" => Yes
            /\ tester.wanted # NoRate
            /\ tester' = [tester EXCEPT !.rate = tester.wanted, !.wanted = NoRate]
         \/ /\ tester.wanted # NoRate => IF fate = "Heard" THEN ~Yes ELSE ~suppress
            /\ UNCHANGED tester
  BY DEF AskTransition
<1>2. tester \in TesterObject /\ trouble \in Troubles
  BY DEF ServicesInd, TypeOK
<1>3. tester' \in TesterObject /\ trouble' \in Troubles
  BY <1>1, <1>2 DEF TesterObject, Troubles
<1>4. ASSUME fate = "Heard" => ~Yes PROVE TesterStep
  BY <1>1, <1>3, <1>4 DEF TesterStep
<1>5. CASE fate = "RequestLost"
  <2>1. Unheard
    BY <1>5 DEF AskTransition
  <2>2. QED
    BY <1>4, <1>5, <2>1, UnheardFacts, TesterRules
<1>6. CASE fate # "RequestLost"
  <2>1. TransitionBaudrate(ok, suppress) /\ session' \in SessionObject /\ tick' = tick
    BY <1>6, PassType DEF AskTransition, ServicesInd
  <2>2. CASE answer' \in Answers /\ ~Yes /\ UNCHANGED services
    BY <1>4, <2>1, <2>2, TesterRules
  <2>3. CASE /\ InSession /\ link.verified
             /\ answer' \in Answers /\ Yes
             /\ rate' = IF ok THEN link.pending ELSE rate
             /\ link' = [link EXCEPT !.verified = FALSE]
             /\ UNCHANGED <<roe, upload, erased, told>>
    <3>1. link.pending \in Rates /\ link \in LinkObject
      BY <2>3 DEF ServicesInd, TypeOK, LinkObject
    <3>2. link' \in LinkObject /\ ~link'.verified
      BY <2>3, <3>1 DEF LinkObject
    <3>3. rate' \in Rates
      BY <2>3, <3>1 DEF ServicesInd, TypeOK
    <3>4. TypeOK'
      BY <1>3, <2>1, <2>3, <3>2, <3>3 DEF ServicesInd, TypeOK
    <3>5. trouble' = "None" => tester'.rate = rate'
      <4> SUFFICES ASSUME trouble' = "None" PROVE tester'.rate = rate'
        OBVIOUS
      <4>1. trouble = "None" /\ ok /\ fate = "Heard"
        BY <1>1, <2>3
      <4>2. tester.wanted = link.pending
        BY <1>1, <2>3, <4>1 DEF ServicesInd, RatesAgree
      <4>3. tester.wanted # NoRate
        BY <3>1, <4>2, ServicesConstants
      <4>4. tester'.rate = link.pending
        BY <1>1, <1>2, <2>3, <4>1, <4>2, <4>3 DEF TesterObject
      <4>5. QED
        BY <2>3, <4>1, <4>4
    <3>6. trouble' # "Reset"
      BY <1>1, <2>3 DEF ServicesInd, ResetKnown
    <3>7. RefusedStep /\ ControlStep
      BY <2>3 DEF Yes, InSession, RefusedStep, ControlStep
    <3>8. QED
      BY <3>2, <3>4, <3>5, <3>6, <3>7 DEF ServicesInd, RatesAgree, ResetKnown, StepRules
  <2>4. QED
    BY <2>1, <2>2, <2>3, TransitionCases
<1>7. QED
  BY <1>5, <1>6

LEMMA QuietRules ==
    ASSUME ServicesInd, IdlePass \/ Advance \/ UNCHANGED vars
    PROVE  StepRules
<1>1. UNCHANGED <<services, answer, tester, trouble>>
  BY DEF IdlePass, Advance, vars
<1>2. session' \in SessionObject /\ tick' \in StartTick .. MaxTick
  <2>1. CASE IdlePass
    BY <2>1, PassType DEF IdlePass, ServicesInd, TypeOK
  <2>2. CASE Advance
    BY <2>2, SessionConstants, ServicesConstants DEF Advance, ServicesInd, TypeOK
  <2>3. CASE UNCHANGED vars
    BY <2>3 DEF vars, ServicesInd, TypeOK
  <2>4. QED
    BY <2>1, <2>2, <2>3
<1>3. ServicesInd'
  BY <1>1, <1>2 DEF services, ServicesInd, TypeOK, RatesAgree, ResetKnown
<1>4. RefusedStep /\ ControlStep
  BY <1>1 DEF services, RefusedStep, ControlStep
<1>5. QED
  BY <1>3, <1>4 DEF StepRules

\* A tester that starts over meets an ECU that has been reset, or nothing is said.
LEMMA StartOverRules == ASSUME ServicesInd, StartOver PROVE StepRules
<1>1. /\ UNCHANGED services /\ session' \in SessionObject /\ tick' = tick
      /\ answer' \in Answers /\ answer' = answer
  BY UnheardFacts DEF StartOver, Unheard
<1>2. /\ tester' \in TesterObject /\ tester'.rate = FirstRate
      /\ trouble' \in Troubles /\ trouble' # "Reset"
      /\ trouble' = "None" => trouble = "Reset"
  BY ServicesConstants DEF StartOver, NewTester, TesterObject, Troubles
<1>3. TypeOK'
  BY <1>1, <1>2 DEF services, ServicesInd, TypeOK
<1>4. RatesAgree' /\ ResetKnown'
  BY <1>1, <1>2 DEF services, ServicesInd, RatesAgree, ResetKnown
<1>5. RefusedStep /\ ControlStep
  BY <1>1 DEF services, RefusedStep, ControlStep
<1>6. QED
  BY <1>3, <1>4, <1>5 DEF ServicesInd, StepRules

\* The state a reset starts from.
LEMMA FreshTypes ==
    /\ NewSession \in SessionObject /\ NewLink \in LinkObject /\ ~NewLink.verified
    /\ NewRoe \in RoeObject /\ NewTold \in ToldObject /\ FirstRate \in Rates
<1>1. 0 \in Tick
  BY SessionConstants DEF Tick
<1>2. NewSession \in SessionObject
  BY <1>1 DEF NewSession, SessionObject, SessionType
<1>3. QED
  BY <1>2, ServicesConstants DEF NewLink, LinkObject, NewRoe, RoeObject, NewTold, ToldObject

LEMMA RestartRules == ASSUME ServicesInd, Restart PROVE StepRules
<1>1. TypeOK'
  BY FreshTypes DEF Restart, ServicesInd, TypeOK, Answers, Troubles
<1>2. ServicesInd'
  BY <1>1, FreshTypes DEF Restart, ServicesInd, RatesAgree, ResetKnown
<1>3. RefusedStep /\ ControlStep
  BY DEF Restart, RefusedStep, ControlStep
<1>4. QED
  BY <1>2, <1>3 DEF StepRules

LEMMA ServicesInit == Init => ServicesInd
<1> SUFFICES ASSUME Init PROVE ServicesInd
  OBVIOUS
<1>1. tester \in TesterObject /\ tester.rate = FirstRate
  BY ServicesConstants DEF Init, NewTester, TesterObject
<1>2. tick \in StartTick .. MaxTick
  BY ServicesConstants, SessionConstants DEF Init
<1>3. QED
  BY <1>1, <1>2, FreshTypes DEF Init, ServicesInd, TypeOK, RatesAgree, ResetKnown, Answers, Troubles

LEMMA ServicesStep == ASSUME ServicesInd, [Next]_vars PROVE StepRules
<1>1. CASE AskSetting
  BY <1>1, AskSettingRules
<1>2. ASSUME NEW new \in SessionType, AskSession(new) PROVE StepRules
  BY <1>2, AskSessionRules
<1>3. ASSUME NEW id \in Rates \cup {NoRate}, NEW suppress \in BOOLEAN, NEW fate \in Fates,
             AskVerify(id, suppress, fate)
      PROVE  StepRules
  BY <1>3, AskVerifyRules
<1>4. ASSUME NEW ok \in BOOLEAN, NEW suppress \in BOOLEAN, NEW fate \in Fates,
             AskTransition(ok, suppress, fate)
      PROVE  StepRules
  BY <1>4, AskTransitionRules
<1>5. CASE IdlePass \/ Advance \/ UNCHANGED vars
  BY <1>5, QuietRules
<1>6. CASE StartOver
  BY <1>6, StartOverRules
<1>7. CASE Restart
  BY <1>7, RestartRules
<1>8. QED
  BY <1>1, <1>2, <1>3, <1>4, <1>5, <1>6, <1>7 DEF Next

LEMMA ServicesInvariant == Spec => []ServicesInd
<1>1. ServicesInd /\ [Next]_vars => ServicesInd'
  BY ServicesStep DEF StepRules
<1>2. QED
  BY <1>1, ServicesInit, PTL DEF Spec

\* The services keep their types, and no rate outside the table is applied.
THEOREM ServicesTypeCorrect == Spec => []TypeOK
<1>1. ServicesInd => TypeOK
  BY DEF ServicesInd
<1>2. QED
  BY <1>1, ServicesInvariant, PTL

\* Tester and ECU keep to one rate, through losses too that the tester can tell from
\* a yes, until it cannot tell, a callback fails, or an answer goes out at the new
\* rate; and again from where both started over.
THEOREM RatesAgreeCorrect == Spec => []RatesAgree
<1>1. ServicesInd => RatesAgree
  BY DEF ServicesInd
<1>2. QED
  BY <1>1, ServicesInvariant, PTL

\* A refused request changes nothing, in whatever service.
THEOREM RefusedHasNoEffectCorrect == Spec => RefusedHasNoEffect
<1>1. ServicesInd /\ [Next]_vars => [RefusedStep]_vars
  BY ServicesStep DEF StepRules
<1>2. QED
  BY <1>1, ServicesInvariant, PTL DEF Spec, RefusedHasNoEffect, RefusedStep

\* What the services control changes only in a session for it.
THEOREM ControlInSessionCorrect == Spec => ControlInSession
<1>1. ServicesInd /\ [Next]_vars => [ControlStep]_vars
  BY ServicesStep DEF StepRules
<1>2. QED
  BY <1>1, ServicesInvariant, PTL DEF Spec, ControlInSession, ControlStep
=============================================================================
