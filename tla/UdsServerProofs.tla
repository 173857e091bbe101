--------------------------- MODULE UdsServerProofs ---------------------------
(***************************************************************************)
(* Proofs about UdsServer, for any services, requests, levels and times.   *)
(* What a pass does is put together from what the session does in it and   *)
(* what SecurityAccess does (see SecurityAccessProofs).                    *)
(***************************************************************************)
EXTENDS UdsServer, SecurityAccessProofs

-----------------------------------------------------------------------------
(* The session: what its methods return.                                   *)

\* Sums of ticks are ticks, as words wrap.
LEMMA SumIsTick ==
    ASSUME NEW t \in Nat, NEW d \in Nat
    PROVE  (t + d) % TickMod \in Tick
<1>1. TickMod \in Nat /\ TickMod > 0
  BY SessionConstants
<1>2. (t + d) % TickMod \in 0 .. TickMod - 1
  BY <1>1
<1>3. QED
  BY <1>2 DEF Tick

\* The methods of the session return sessions.
LEMMA SessionTypes ==
    ASSUME NEW s \in SessionObject, NEW now \in Tick
    PROVE  /\ KeepAlive(s, now) \in SessionObject
           /\ Update(s, now) \in SessionObject
           /\ \A new \in SessionType : Transition(s, new) \in SessionObject
           /\ NewSession \in SessionObject
<1>1. 0 \in Tick /\ now \in Nat /\ S3 \in Nat
  BY SessionConstants DEF Tick
<1>2. (now + S3) % TickMod \in Tick
  BY <1>1, SumIsTick
<1>3. KeepAlive(s, now) \in SessionObject
  BY <1>2 DEF KeepAlive, SessionObject
<1>4. Update(s, now) \in SessionObject
  BY <1>1 DEF Update, SessionObject, SessionType
<1>5. ASSUME NEW new \in SessionType PROVE Transition(s, new) \in SessionObject
  BY <1>1 DEF Transition, Reset, SessionObject, SessionType
<1>6. NewSession \in SessionObject
  BY <1>1 DEF NewSession, SessionObject, SessionType
<1>7. QED
  BY <1>3, <1>4, <1>5, <1>6

\* What update() does to a session that is not timed out, and to one that is.
LEMMA UpdateCases ==
    ASSUME NEW s \in SessionObject, NEW now
    PROVE  \/ /\ S3Expired(s, now)
              /\ Update(s, now).current = "Default"
              /\ Update(s, now).deadline = 0
           \/ /\ ~S3Expired(s, now)
              /\ s.current = "Default"
              /\ Update(s, now).current = "Default"
              /\ Update(s, now).deadline = 0
              /\ ~Update(s, now).timedOut
           \/ /\ ~S3Expired(s, now)
              /\ s.current # "Default"
              /\ Update(s, now) = s
BY DEF Update, SessionObject

\* update() leads nowhere but to the default session.
LEMMA UpdateKeepsCurrent ==
    ASSUME NEW s \in SessionObject, NEW now, Update(s, now).current = "Programming"
    PROVE  s.current = "Programming"
BY DEF Update, SessionObject

-----------------------------------------------------------------------------
(* The passes of process().                                                *)

\* The session a service can leave behind, given the one keep_alive() left it.
LeftBy(s) ==
    \/ s = Alive
    \/ /\ request.sid = "SessionControl"
       /\ \E new \in SessionType : TransitionAllowed(Alive, new) /\ s = Transition(Alive, new)
    \/ request.sid = "TesterPresent" /\ s = KeepAlive(Alive, 0)

\* A pass that handles a request.
Handled(s) ==
    /\ LeftBy(s)
    /\ session' = Update(s, tick)
    /\ heard' = [at |-> tick, sid |-> request.sid]
    /\ tick' = tick
    /\ pc' = "receive"
    /\ request' = NoRequest

\* What SecurityAccess does in a pass.
SecurityHandled ==
    /\ request # NoRequest
    /\ \E reply \in SecReplies : SecHandle(RawSub, request.key, Alive.current, reply)

LEMMA PassCases ==
    ASSUME Process
    PROVE  \/ IdlePass
           \/ Restart
           \/ \E s : Handled(s) /\ UNCHANGED secVars
           \/ Handled(Alive) /\ SecurityHandled
<1> USE DEF Answer, AnswerOnly, EndOfPass, Handled, LeftBy
<1>1. CASE IdlePass
  BY <1>1
<1>2. CASE Refuse
  BY <1>2 DEF Refuse
<1>3. CASE DiagnosticSessionControl
  <2>1. \A sub \in 1 .. 3 : SessionOf(sub) \in SessionType
    BY DEF SessionOf, SessionType
  <2>2. CASE AnswerOnly(Alive, "SubFunctionNotSupported")
    BY <2>2
  <2>3. CASE AnswerOnly(Alive, "ConditionsNotCorrect")
    BY <2>3
  <2>4. CASE /\ request.sub \in 1 .. 3
             /\ TransitionAllowed(Alive, SessionOf(request.sub))
             /\ AnswerOnly(Transition(Alive, SessionOf(request.sub)), Positive("Session"))
    BY <1>3, <2>1, <2>4 DEF DiagnosticSessionControl, Dispatched
  <2>5. QED
    BY <1>3, <2>2, <2>3, <2>4 DEF DiagnosticSessionControl
<1>4. CASE TesterPresent
  BY <1>4 DEF TesterPresent, Dispatched
<1>5. CASE EcuReset
  BY <1>5 DEF EcuReset
<1>6. CASE ResetInCallback
  BY <1>6 DEF ResetInCallback
<1>7. CASE SecurityAccessRequest
  <2>1. request # NoRequest
    BY <1>7 DEF SecurityAccessRequest, Dispatched, NoRequest
  <2>2. QED
    BY <1>7, <2>1 DEF SecurityAccessRequest, SecurityHandled
<1>8. QED
  BY <1>1, <1>2, <1>3, <1>4, <1>5, <1>6, <1>7 DEF Process

-----------------------------------------------------------------------------
(* Types, and whose seed is outstanding.                                   *)

ServerInd == TypeOK /\ FreshRule

LEMMA ServerStart ==
    /\ Init => ServerInd
    /\ ServerInd /\ Restart => ServerInd'
<1>1. 0 \in Tick /\ StartTick \in Tick
  BY SessionConstants, ServerConstants DEF Tick
<1>2. NewSession \in SessionObject
  BY <1>1 DEF NewSession, SessionObject, SessionType
<1>3. Init => ServerInd
  BY <1>1, <1>2, FreshInit DEF Init, ServerInd, TypeOK, FreshInd
<1>4. ServerInd /\ Restart => ServerInd'
  BY <1>1, <1>2, FreshInit DEF Restart, ServerInd, TypeOK, FreshInd
<1>5. QED
  BY <1>3, <1>4

LEMMA RawSubByte ==
    ASSUME TypeOK, request # NoRequest
    PROVE  RawSub \in Byte
<1>1. request.sub \in 0 .. 127
  BY ServerConstants DEF TypeOK
<1>2. QED
  BY <1>1 DEF RawSub, Byte

LEMMA SecurityHandledFresh ==
    ASSUME ServerInd, SecurityHandled
    PROVE  FreshInd'
<1>1. PICK reply \in SecReplies : SecHandle(RawSub, request.key, Alive.current, reply)
  BY DEF SecurityHandled
<1>2. RawSub \in Byte
  BY RawSubByte DEF ServerInd, SecurityHandled
<1>3. FreshInd
  BY DEF ServerInd, TypeOK, FreshInd
<1>4. QED
  BY <1>1, <1>2, <1>3, HandleKeepsFresh

LEMMA SecKeptFresh ==
    ASSUME ServerInd, UNCHANGED secVars
    PROVE  FreshInd'
BY DEF ServerInd, TypeOK, FreshInd, FreshRule, SecTypeOK, secVars

\* What the service leaves, and update() after it, is a session.
LEMMA LeftByType ==
    ASSUME TypeOK, NEW s, LeftBy(s)
    PROVE  s \in SessionObject /\ Update(s, tick) \in SessionObject
<1>1. tick \in Tick /\ 0 \in Tick
  BY SessionConstants DEF TypeOK, Tick
<1>2. Alive \in SessionObject
  BY <1>1, SessionTypes DEF TypeOK, Alive
<1>3. s \in SessionObject
  BY <1>1, <1>2, SessionTypes DEF LeftBy
<1>4. QED
  BY <1>1, <1>3, SessionTypes

LEMMA HandledType ==
    ASSUME ServerInd, NEW s, Handled(s), FreshInd'
    PROVE  ServerInd'
<1>1. session' \in SessionObject
  BY LeftByType DEF ServerInd, Handled
<1>2. QED
  BY <1>1 DEF ServerInd, TypeOK, FreshInd, Handled

LEMMA ServerStep == ServerInd /\ [Next]_vars => ServerInd'
<1> SUFFICES ASSUME ServerInd, [Next]_vars PROVE ServerInd'
  OBVIOUS
<1>1. CASE Advance
  <2>1. tick \in Nat /\ 1 \in Nat
    BY DEF ServerInd, TypeOK, Tick
  <2>2. tick' \in Tick
    BY <1>1, <2>1, SumIsTick DEF Advance
  <2>3. FreshInd'
    BY <1>1, SecKeptFresh DEF Advance
  <2>4. QED
    BY <1>1, <2>2, <2>3 DEF Advance, ServerInd, TypeOK, FreshInd
<1>2. ASSUME NEW r \in Requests, Receive(r) PROVE ServerInd'
  <2>1. FreshInd'
    BY <1>2, SecKeptFresh DEF Receive
  <2>2. QED
    BY <1>2, <2>1 DEF Receive, ServerInd, TypeOK, FreshInd
<1>3. CASE DropUnread
  <2>1. FreshInd'
    BY <1>3, SecKeptFresh DEF DropUnread
  <2>2. QED
    BY <1>3, <2>1 DEF DropUnread, ServerInd, TypeOK, FreshInd
<1>4. CASE UpdateSecurity
  <2>1. FreshInd'
    BY <1>4, UpdateKeepsFresh DEF UpdateSecurity, ServerInd, TypeOK, FreshInd
  <2>2. QED
    BY <1>4, <2>1 DEF UpdateSecurity, ServerInd, TypeOK, FreshInd
<1>5. CASE IdlePass
  <2>1. FreshInd'
    BY <1>5, SecKeptFresh DEF IdlePass
  <2>2. session' \in SessionObject
    BY <1>5, SessionTypes DEF IdlePass, EndOfPass, ServerInd, TypeOK
  <2>3. QED
    BY <1>5, <2>1, <2>2 DEF IdlePass, EndOfPass, ServerInd, TypeOK, FreshInd
<1>6. CASE Restart
  BY <1>6, ServerStart
<1>7. ASSUME NEW s, Handled(s), UNCHANGED secVars PROVE ServerInd'
  BY <1>7, SecKeptFresh, HandledType
<1>8. CASE Handled(Alive) /\ SecurityHandled
  BY <1>8, SecurityHandledFresh, HandledType
<1>9. CASE Process
  BY <1>5, <1>6, <1>7, <1>8, <1>9, PassCases
<1>10. CASE UNCHANGED vars
  <2>1. FreshInd'
    BY <1>10, SecKeptFresh DEF vars
  <2>2. QED
    BY <1>10, <2>1 DEF vars, serverVars, ServerInd, TypeOK, FreshInd
<1>11. QED
  BY <1>1, <1>2, <1>3, <1>4, <1>9, <1>10 DEF Next

LEMMA ServerInvariant == Spec => []ServerInd
BY ServerStart, ServerStep, PTL DEF Spec

\* Whatever the tester sends, session, service, tick and request keep their types.
THEOREM ServerTypeCorrect == Spec => []TypeOK
<1>1. ServerInd => TypeOK
  BY DEF ServerInd
<1>2. QED
  BY <1>1, ServerInvariant, PTL

-----------------------------------------------------------------------------
(* Action properties that need no bound on the tick.                       *)

\* Of the steps, only passes of process() touch the session, and only
\* SecurityAccess or a reset a level's lock.
LEMMA StepCases ==
    ASSUME [Next]_vars
    PROVE  \/ UNCHANGED <<session, heard>>
           \/ session' = Update(session, tick) /\ heard' = heard
           \/ \E s : Handled(s)
           \/ Restart
<1>1. CASE Process
  BY <1>1, PassCases DEF IdlePass, EndOfPass
<1>2. CASE Advance \/ DropUnread \/ UpdateSecurity \/ (\E r \in Requests : Receive(r))
  BY <1>2 DEF Advance, DropUnread, UpdateSecurity, Receive
<1>3. QED
  BY <1>1, <1>2 DEF Next, vars, serverVars

LEMMA LockCases ==
    ASSUME ServerInd, [Next]_vars
    PROVE  \/ UNCHANGED secVars
           \/ \E now \in Tick : SecUpdate(now)
           \/ SecurityHandled
           \/ SecRestart
<1>1. CASE Process
  BY <1>1, PassCases DEF IdlePass, Restart
<1>2. CASE UpdateSecurity
  BY <1>2 DEF UpdateSecurity, ServerInd, TypeOK
<1>3. CASE Advance \/ DropUnread \/ (\E r \in Requests : Receive(r))
  BY <1>3 DEF Advance, DropUnread, Receive
<1>4. QED
  BY <1>1, <1>2, <1>3 DEF Next, vars

\* No pass enters Programming but from Default.
ProgrammingStep ==
    session'.current = "Programming" => session.current \in {"Programming", "Default"}

LEMMA ProgrammingStepHolds ==
    ASSUME ServerInd, [Next]_vars
    PROVE  ProgrammingStep
<1>1. session \in SessionObject
  BY DEF ServerInd, TypeOK
<1>2. CASE UNCHANGED <<session, heard>>
  BY <1>2 DEF ProgrammingStep
<1>3. CASE session' = Update(session, tick)
  BY <1>1, <1>3, UpdateKeepsCurrent DEF ProgrammingStep
<1>4. ASSUME NEW s, Handled(s) PROVE ProgrammingStep
  <2>1. s \in SessionObject /\ LeftBy(s) /\ session' = Update(s, tick)
    BY <1>4, LeftByType DEF Handled, ServerInd
  <2>2. tick \in Tick /\ 0 \in Tick
    BY SessionConstants DEF ServerInd, TypeOK, Tick
  <2>3. Alive.current = session.current /\ Alive \in SessionObject
    BY <1>1, <2>2, SessionTypes DEF Alive, KeepAlive, SessionObject
  <2>4. KeepAlive(Alive, 0).current = Alive.current
    BY <2>3 DEF KeepAlive, SessionObject
  <2>5. ASSUME NEW new \in SessionType, TransitionAllowed(Alive, new),
               Transition(Alive, new).current = "Programming"
        PROVE  session.current = "Default"
    BY <2>3, <2>5 DEF TransitionAllowed, Transition, Reset, SessionObject
  <2>6. s.current = "Programming" => session.current \in {"Programming", "Default"}
    BY <2>1, <2>3, <2>4, <2>5 DEF LeftBy
  <2>7. QED
    BY <2>1, <2>6, UpdateKeepsCurrent DEF ProgrammingStep
<1>5. CASE Restart
  BY <1>5 DEF Restart, NewSession, ProgrammingStep
<1>6. QED
  BY <1>2, <1>3, <1>4, <1>5, StepCases

\* The programming session is entered from Default only, whatever requests,
\* time-outs and resets come in whatever order.
THEOREM ProgrammingFromDefaultCorrect == Spec => ProgrammingFromDefault
<1>1. ServerInd /\ [Next]_vars => [ProgrammingStep]_vars
  BY ProgrammingStepHolds
<1>2. QED
  BY <1>1, ServerInvariant, PTL DEF Spec, ProgrammingFromDefault, ProgrammingStep

LEMMA ServerUsesSeed ==
    ASSUME ServerInd, [Next]_vars
    PROVE  GuessUsesSeed
<1>1. FreshInd
  BY DEF ServerInd, TypeOK, FreshInd
<1>2. CASE UNCHANGED secVars
  BY <1>1, <1>2, NothingUsesNoSeed
<1>3. ASSUME NEW now \in Tick, SecUpdate(now) PROVE GuessUsesSeed
  BY <1>1, <1>3, UpdateUsesNoSeed
<1>4. CASE SecurityHandled
  <2>1. PICK reply \in SecReplies : SecHandle(RawSub, request.key, Alive.current, reply)
    BY <1>4 DEF SecurityHandled
  <2>2. RawSub \in Byte
    BY <1>4, RawSubByte DEF ServerInd, SecurityHandled
  <2>3. QED
    BY <1>1, <2>1, <2>2, HandleUsesSeed
<1>5. CASE SecRestart
  BY <1>1, <1>5, RestartUsesNoSeed
<1>6. QED
  BY <1>2, <1>3, <1>4, <1>5, LockCases

\* What SecurityAccess promises on its own it keeps in the main loop: whatever
\* passes, time-outs and resets come between, a seed is good for one key.
THEOREM ServerOneGuessPerSeed == Spec => OneGuessPerSeed
<1>1. ServerInd /\ [Next]_vars => [GuessUsesSeed]_secVars
  BY ServerUsesSeed
<1>2. QED
  BY <1>1, ServerInvariant, PTL DEF Spec, OneGuessPerSeed, GuessUsesSeed

-----------------------------------------------------------------------------
(***************************************************************************)
(* The S3 timer, while no deadline reaches 2^32.                           *)
(***************************************************************************)
\* A running timer ends S3 after the last request, unless that was a TesterPresent.
DeadlineRule ==
    session.deadline # 0 => \/ session.deadline = heard.at + S3
                            \/ heard.sid = "TesterPresent"

HeardRule == tick \in Nat /\ tick <= MaxTick /\ heard.at \in Nat /\ heard.at <= tick

TimerInd == ServerInd /\ SessionTimerInv /\ DeadlineRule /\ HeardRule

LEMMA BoundFacts ==
    ASSUME NoWrap
    PROVE  /\ S3 \in Nat /\ S3 > 0 /\ TickMod \in Nat /\ MaxTick \in Nat /\ StartTick \in Nat
           /\ StartTick <= MaxTick
           /\ \A t \in 0 .. MaxTick : (t + S3) % TickMod = t + S3
           /\ (MaxTick + 1) <= TickMod
<1>1. /\ S3 \in Nat /\ S3 > 0 /\ TickMod \in Nat /\ MaxTick \in Nat /\ StartTick \in Nat
      /\ StartTick <= MaxTick /\ MaxTick + S3 < TickMod
  BY SessionConstants, ServerConstants DEF NoWrap, Tick
<1>2. ASSUME NEW t \in 0 .. MaxTick PROVE (t + S3) % TickMod = t + S3
  <2>1. PICK x : x = t + S3
    OBVIOUS
  <2>2. x \in Nat /\ x < TickMod
    BY <1>1, <2>1
  <2>3. x % TickMod = x
    BY <1>1, <2>2
  <2>4. QED
    BY <2>1, <2>3
<1>3. QED
  BY <1>1, <1>2

LEMMA TimerStart ==
    ASSUME NoWrap
    PROVE  /\ Init => TimerInd
           /\ ServerInd /\ Restart => TimerInd'
<1>1. StartTick \in Nat /\ StartTick <= MaxTick /\ S3 \in Nat
  BY BoundFacts
<1>2. ASSUME Init PROVE TimerInd
  BY <1>1, <1>2, ServerStart DEF Init, NewSession, TimerInd, SessionTimerInv, DeadlineRule, HeardRule
<1>3. ASSUME ServerInd, Restart PROVE TimerInd'
  BY <1>1, <1>3, ServerStart DEF Restart, NewSession, TimerInd, SessionTimerInv, DeadlineRule, HeardRule
<1>4. QED
  BY <1>2, <1>3

\* The session a service leaves: its timer runs S3 from now, or from 0 after
\* a TesterPresent, or not at all right after a session request.
LEMMA LeftByTimer ==
    ASSUME NoWrap, TimerInd, NEW s, LeftBy(s)
    PROVE  /\ s \in SessionObject
           /\ ~s.timedOut
           /\ s.current # "Default" =>
                 \/ s.deadline = tick + S3
                 \/ s.deadline = 0 /\ request.sid = "SessionControl"
                 \/ s.deadline = S3 /\ request.sid = "TesterPresent"
<1>1. tick \in 0 .. MaxTick /\ 0 \in 0 .. MaxTick /\ tick \in Tick /\ 0 \in Tick
  BY BoundFacts, SessionConstants DEF TimerInd, HeardRule, ServerInd, TypeOK, Tick
<1>2. (tick + S3) % TickMod = tick + S3 /\ (0 + S3) % TickMod = S3 /\ S3 \in Nat
  BY <1>1, BoundFacts
<1>3. session \in SessionObject /\ (session.current = "Default" => session.deadline = 0)
  BY DEF TimerInd, ServerInd, TypeOK, SessionTimerInv
<1>4. s \in SessionObject
  BY LeftByType DEF TimerInd, ServerInd
<1>5. /\ Alive \in SessionObject /\ Alive.current = session.current /\ ~Alive.timedOut
      /\ Alive.deadline = IF session.current = "Default" THEN 0 ELSE tick + S3
  BY <1>1, <1>2, <1>3, SessionTypes DEF Alive, KeepAlive, SessionObject
<1>6. CASE s = Alive
  BY <1>4, <1>5, <1>6
<1>7. ASSUME NEW new \in SessionType, s = Transition(Alive, new),
             request.sid = "SessionControl"
      PROVE  /\ ~s.timedOut
             /\ s.current # "Default" => s.deadline = tick + S3 \/ s.deadline = 0
  <2>1. CASE new = "Default"
    BY <1>5, <1>7, <2>1 DEF Transition, Reset, SessionObject
  <2>2. CASE new # "Default"
    BY <1>5, <1>7, <2>2 DEF Transition, SessionObject
  <2>3. QED
    BY <2>1, <2>2
<1>8. CASE s = KeepAlive(Alive, 0) /\ request.sid = "TesterPresent"
  <2>1. /\ s.current = Alive.current /\ ~s.timedOut
        /\ s.deadline = IF Alive.current = "Default" THEN Alive.deadline ELSE S3
    BY <1>2, <1>5, <1>8 DEF KeepAlive, SessionObject
  <2>2. QED
    BY <1>4, <1>8, <2>1
<1>9. QED
  BY <1>4, <1>6, <1>7, <1>8 DEF LeftBy

LEMMA HandledTimer ==
    ASSUME NoWrap, TimerInd, NEW s, Handled(s)
    PROVE  SessionTimerInv' /\ DeadlineRule' /\ HeardRule'
<1>1. /\ session' = Update(s, tick) /\ tick' = tick
      /\ heard'.at = tick /\ heard'.sid = request.sid
  BY DEF Handled
<1>2. /\ s \in SessionObject /\ ~s.timedOut
      /\ s.current # "Default" =>
            \/ s.deadline = tick + S3
            \/ s.deadline = 0 /\ request.sid = "SessionControl"
            \/ s.deadline = S3 /\ request.sid = "TesterPresent"
  BY LeftByTimer DEF Handled
<1>3. S3 \in Nat /\ S3 > 0 /\ tick \in Nat
  BY BoundFacts DEF TimerInd, HeardRule
<1>4. HeardRule'
  BY <1>1, <1>3 DEF TimerInd, HeardRule
<1>5. CASE session'.current = "Default" /\ session'.deadline = 0
  BY <1>1, <1>3, <1>4, <1>5 DEF SessionTimerInv, DeadlineRule
<1>6. CASE s.current # "Default" /\ session' = s
  BY <1>1, <1>2, <1>3, <1>4, <1>6 DEF SessionTimerInv, DeadlineRule
<1>7. QED
  BY <1>1, <1>2, <1>4, <1>5, <1>6, UpdateCases

LEMMA IdleTimer ==
    ASSUME NoWrap, TimerInd, session' = Update(session, tick), heard' = heard, tick' = tick
    PROVE  SessionTimerInv' /\ DeadlineRule' /\ HeardRule'
<1>1. session \in SessionObject /\ S3 \in Nat /\ heard.at \in Nat
  BY BoundFacts DEF TimerInd, ServerInd, TypeOK, HeardRule
<1>2. CASE session'.current = "Default" /\ session'.deadline = 0
  BY <1>1, <1>2 DEF SessionTimerInv, DeadlineRule, TimerInd, HeardRule
<1>3. CASE session' = session
  BY <1>1, <1>3 DEF SessionTimerInv, DeadlineRule, TimerInd, HeardRule
<1>4. QED
  BY <1>1, <1>2, <1>3, UpdateCases

LEMMA TimerStep ==
    ASSUME NoWrap, TimerInd, [Next]_vars
    PROVE  TimerInd'
<1>1. ServerInd'
  BY ServerStep DEF TimerInd
<1>2. CASE Advance
  <2>1. /\ tick \in Nat /\ tick < MaxTick /\ MaxTick \in Nat /\ TickMod \in Nat
        /\ MaxTick + 1 <= TickMod
    BY <1>2, BoundFacts DEF Advance, TimerInd, HeardRule
  <2>2. tick' = tick + 1
    BY <1>2, <2>1 DEF Advance
  <2>3. session' = session /\ heard' = heard
    BY <1>2 DEF Advance
  <2>4. QED
    BY <1>1, <2>1, <2>2, <2>3 DEF TimerInd, SessionTimerInv, DeadlineRule, HeardRule
<1>3. CASE UNCHANGED <<session, heard, tick>>
  BY <1>1, <1>3 DEF TimerInd, SessionTimerInv, DeadlineRule, HeardRule
<1>4. CASE Process
  <2>1. CASE IdlePass
    BY <1>1, <2>1, IdleTimer DEF IdlePass, EndOfPass, TimerInd
  <2>2. CASE Restart
    BY <2>2, TimerStart DEF TimerInd
  <2>3. ASSUME NEW s, Handled(s) PROVE TimerInd'
    BY <1>1, <2>3, HandledTimer DEF TimerInd
  <2>4. QED
    BY <1>4, <2>1, <2>2, <2>3, PassCases
<1>5. CASE DropUnread \/ UpdateSecurity \/ (\E r \in Requests : Receive(r))
  BY <1>3, <1>5 DEF DropUnread, UpdateSecurity, Receive
<1>6. QED
  BY <1>2, <1>3, <1>4, <1>5 DEF Next, vars, serverVars

LEMMA TimerInvariant == NoWrap => (Spec => []TimerInd)
<1> SUFFICES ASSUME NoWrap PROVE Spec => []TimerInd
  OBVIOUS
<1>1. Init => TimerInd
  BY TimerStart
<1>2. TimerInd /\ [Next]_vars => TimerInd'
  BY TimerStep
<1>3. QED
  BY <1>1, <1>2, PTL DEF Spec

\* Timer and session agree, as long as no deadline reaches 2^32.
THEOREM SessionTimerCorrect == NoWrap => (Spec => []SessionTimerInv)
<1> SUFFICES ASSUME NoWrap PROVE Spec => []SessionTimerInv
  OBVIOUS
<1>1. Spec => []TimerInd
  BY TimerInvariant
<1>2. TimerInd => SessionTimerInv
  BY DEF TimerInd
<1>3. QED
  BY <1>1, <1>2, PTL

\* What NoEarlyExpiry says of one step.
ExpiryStep ==
    session'.timedOut /\ ~session.timedOut
        => tick - heard'.at >= S3 \/ heard'.sid = "TesterPresent"

LEMMA ExpiryStepHolds ==
    ASSUME NoWrap, TimerInd, [Next]_vars
    PROVE  ExpiryStep
<1>1. S3 \in Nat /\ S3 > 0 /\ tick \in Nat /\ heard.at \in Nat /\ session \in SessionObject
  BY BoundFacts DEF TimerInd, ServerInd, TypeOK, HeardRule
<1>2. CASE UNCHANGED <<session, heard>>
  BY <1>2 DEF ExpiryStep
<1>3. CASE session' = Update(session, tick) /\ heard' = heard
  <2>1. S3Expired(session, tick) => tick - heard'.at >= S3 \/ heard'.sid = "TesterPresent"
    BY <1>1, <1>3 DEF S3Expired, TimerInd, DeadlineRule
  <2>2. QED
    BY <1>1, <1>3, <2>1, UpdateCases DEF ExpiryStep
<1>4. ASSUME NEW s, Handled(s) PROVE ExpiryStep
  <2>1. /\ session' = Update(s, tick) /\ heard'.sid = request.sid /\ LeftBy(s)
    BY <1>4 DEF Handled
  <2>2. /\ s \in SessionObject /\ ~s.timedOut
        /\ s.current # "Default" =>
              \/ s.deadline = tick + S3
              \/ s.deadline = 0 /\ request.sid = "SessionControl"
              \/ s.deadline = S3 /\ request.sid = "TesterPresent"
    BY <2>1, LeftByTimer
  <2>3. S3Expired(s, tick) => heard'.sid = "TesterPresent"
    BY <1>1, <2>1, <2>2 DEF S3Expired
  <2>4. QED
    BY <2>1, <2>2, <2>3, UpdateCases DEF ExpiryStep
<1>5. CASE Restart
  BY <1>5 DEF Restart, NewSession, ExpiryStep
<1>6. QED
  BY <1>2, <1>3, <1>4, <1>5, StepCases

\* process() ends a session only after S3 without a request, or after a TesterPresent.
THEOREM NoEarlyExpiryCorrect == NoWrap => (Spec => NoEarlyExpiry)
<1> SUFFICES ASSUME NoWrap PROVE Spec => NoEarlyExpiry
  OBVIOUS
<1>1. Spec => []TimerInd
  BY TimerInvariant
<1>2. TimerInd /\ [Next]_vars => [ExpiryStep]_vars
  BY ExpiryStepHolds
<1>3. QED
  BY <1>1, <1>2, PTL DEF Spec, NoEarlyExpiry, ExpiryStep
=============================================================================
