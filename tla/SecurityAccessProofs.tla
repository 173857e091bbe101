------------------------ MODULE SecurityAccessProofs ------------------------
(***************************************************************************)
(* Proofs about SecurityAccess: its types, the lockout and what a seed is  *)
(* good for, for any levels, delays, seeds and numbers of attempts.  The   *)
(* step lemmas are stated per operation so that UdsServer can cite them.   *)
(***************************************************************************)
EXTENDS SecurityAccess, SequenceTheorems, TLAPS

\* A registered level is a byte, and the level of a seed request is itself.
LEMMA LevelFacts ==
    ASSUME NEW sub \in Byte
    PROVE  /\ Levels \subseteq 1 .. 255
           /\ 0 \notin Levels
           /\ IsSeed(sub) => LevelOf(sub) = sub
BY SecurityConstants DEF IsSeed, LevelOf, Byte

\* The constants are numbers.
LEMMA ConstantFacts ==
    /\ TickMod \in Nat /\ TickMod > 0
    /\ MaxTick \in Nat
    /\ MaxAttempts \in Nat /\ MaxAttempts > 0 /\ MaxAttempts <= 255
    /\ DelayAfterFail \in Nat /\ DelayAfterFail > 0
    /\ Tick \subseteq Nat
    /\ Byte \subseteq Nat
<1>1. TickMod \in Nat /\ TickMod > 0 /\ MaxTick \in Nat
  BY SessionConstants
<1>2. MaxAttempts \in Nat /\ MaxAttempts > 0 /\ MaxAttempts <= 255
  BY SecurityConstants
<1>3. DelayAfterFail \in Nat /\ DelayAfterFail > 0
  BY <1>1, SecurityConstants DEF Tick
<1>4. Tick \subseteq Nat /\ Byte \subseteq Nat
  BY DEF Tick, Byte
<1>5. QED
  BY <1>1, <1>2, <1>3, <1>4

\* Ticks and counters stay in their width.
LEMMA WidthFacts ==
    /\ 0 \in Tick
    /\ 0 \in Byte
    /\ Levels \subseteq Byte
    /\ \A t \in Tick : (t + DelayAfterFail) % TickMod \in Tick
    /\ \A n \in Byte : (n + 1) % 256 \in Byte
<1>1. 0 \in Tick /\ 0 \in Byte /\ Levels \subseteq Byte
  BY SessionConstants, SecurityConstants DEF Tick, Byte
<1>2. DelayAfterFail \in Nat /\ TickMod \in Nat \ {0}
  BY SessionConstants, SecurityConstants DEF Tick
<1>3. ASSUME NEW t \in Tick PROVE (t + DelayAfterFail) % TickMod \in Tick
  <2>1. t + DelayAfterFail \in Int /\ TickMod \in Int /\ 0 < TickMod
    BY <1>2 DEF Tick
  <2>2. (t + DelayAfterFail) % TickMod \in 0 .. TickMod - 1
    BY <2>1
  <2>3. QED
    BY <2>2 DEF Tick
<1>4. ASSUME NEW n \in Byte PROVE (n + 1) % 256 \in Byte
  BY DEF Byte
<1>5. QED
  BY <1>1, <1>3, <1>4

\* update() keeps the types.
LEMMA SecUpdateType ==
    ASSUME SecTypeOK, NEW now \in Tick, SecUpdate(now)
    PROVE  SecTypeOK'
<1>1. ASSUME NEW l \in Levels PROVE Released(sec.levels[l], now) \in LevelState
  <2>1. sec.levels[l] \in LevelState
    BY DEF SecTypeOK, SecurityObject
  <2>2. 0 \in Tick /\ 0 \in Byte
    BY WidthFacts
  <2>3. QED
    BY <2>1, <2>2 DEF LevelState, Released
<1>2. QED
  BY <1>1 DEF SecTypeOK, SecurityObject, SecUpdate

\* One more bad key leaves a history of bad keys, and so does a reset.
LEMMA NotedType ==
    ASSUME NEW past \in Guesses, NEW now \in Tick
    PROVE  Noted(past, now) \in Guesses
<1> DEFINE at == Append(past.at, now)
<1>1. past.at \in Seq(Tick) /\ past.erased \in Nat
  BY DEF Guesses
<1>2. at \in Seq(Tick) /\ Len(at) > 0
  BY <1>1
<1>3. Tail(at) \in Seq(Tick)
  BY <1>2
<1>4. Noted(past, now) =
        IF Len(at) > MaxAttempts + 1
        THEN [at |-> Tail(at), erased |-> IF past.erased = 0 THEN 0 ELSE past.erased - 1]
        ELSE [at |-> at, erased |-> past.erased]
  BY DEF Noted
<1> HIDE DEF at
<1>5. (IF past.erased = 0 THEN 0 ELSE past.erased - 1) \in Nat
  BY <1>1
<1>6. QED
  BY <1>1, <1>2, <1>3, <1>4, <1>5 DEF Guesses

LEMMA ErasedType ==
    ASSUME NEW past \in Guesses
    PROVE  Erased(past) \in Guesses
<1>1. past.at \in Seq(Tick) /\ Len(past.at) \in Nat /\ DOMAIN past.at = 1 .. Len(past.at)
  BY LenProperties DEF Guesses
<1>2. 0 \in Tick
  BY WidthFacts
<1>3. [i \in 1 .. Len(past.at) |-> 0] \in Seq(Tick)
  BY <1>1, <1>2, IsASeq
<1>4. QED
  BY <1>1, <1>3 DEF Erased, Guesses

LEMMA NoteGuessType ==
    ASSUME SecTypeOK, NEW l \in Levels, NoteGuess(l)
    PROVE  guesses' \in [Levels -> Guesses]
<1>1. Noted(guesses[l], sec.currentTick) \in Guesses
  BY NotedType DEF SecTypeOK, SecurityObject
<1>2. QED
  BY <1>1 DEF NoteGuess, SecTypeOK

\* What an operation makes of a level is a level.
LEMMA LevelTypes ==
    ASSUME SecTypeOK, NEW lv \in LevelState
    PROVE  /\ \A s \in Seeds : WithSeed(lv, s) \in LevelState
           /\ AfterInvalidKey(lv) \in LevelState
           /\ AfterValidKey(lv) \in LevelState
<1>1. \A s \in Seeds : WithSeed(lv, s) \in LevelState
  BY DEF WithSeed, LevelState
<1>2. AfterInvalidKey(lv) \in LevelState
  <2>1. Fails(lv) \in Byte
    BY WidthFacts DEF Fails, LevelState
  <2>2. (sec.currentTick + DelayAfterFail) % TickMod \in Tick
    BY WidthFacts DEF SecTypeOK, SecurityObject
  <2>3. QED
    BY <2>1, <2>2 DEF AfterInvalidKey, LevelState
<1>3. AfterValidKey(lv) \in LevelState
  BY WidthFacts DEF AfterValidKey, LevelState
<1>4. QED
  BY <1>1, <1>2, <1>3

(***************************************************************************)
(* The four ways a request can end: no change, a new seed, an invalid key, *)
(* a valid key.                                                            *)
(***************************************************************************)
NewSeed(l, sub) ==
    /\ ~sec.levels[l].unlocked
    /\ \E s \in Seeds :
         sec' = [sec EXCEPT !.levels[l] = WithSeed(@, s), !.activeLevel = sub]
    /\ freshSeed' = l
    /\ guesses' = guesses

BadKey(l) ==
    /\ sec.levels[l].seedSent
    /\ sec.activeLevel = l
    /\ sec' = [sec EXCEPT !.levels[l] = AfterInvalidKey(@)]
    /\ NoteGuess(l)
    /\ freshSeed' = 0

GoodKey(l) ==
    /\ sec.levels[l].seedSent
    /\ sec.activeLevel = l
    /\ sec' = [sec EXCEPT !.levels[l] = AfterValidKey(@)]
    /\ guesses' = guesses
    /\ freshSeed' = 0

LEMMA RequestCases ==
    ASSUME NEW sub \in Byte, NEW key, NEW current, NEW reply,
           SecHandle(sub, key, current, reply)
    PROVE  \/ UNCHANGED secVars
           \/ \E l \in Levels : /\ ~Locked(l)
                                /\ (NewSeed(l, sub) /\ sub = l) \/ BadKey(l) \/ GoodKey(l)
<1> DEFINE l == LevelOf(sub)
<1>1. CASE RefusedWith(sub, current, reply) /\ UNCHANGED secVars
  BY <1>1
<1>2. CASE Admitted(sub, current) /\ IsSeed(sub) /\ RequestSeed(sub, reply)
  <2>1. l \in Levels /\ ~Locked(l) /\ sub = l
    BY <1>2, LevelFacts DEF Admitted
  <2>2. UNCHANGED secVars \/ NewSeed(l, sub)
    BY <1>2 DEF RequestSeed, NewSeed
  <2>3. QED
    BY <2>1, <2>2
<1>3. CASE Admitted(sub, current) /\ ~IsSeed(sub) /\ SendKey(sub, key, reply)
  <2>1. l \in Levels /\ ~Locked(l)
    BY <1>3 DEF Admitted
  <2>2. UNCHANGED secVars \/ BadKey(l) \/ GoodKey(l)
    BY <1>3 DEF SendKey, KeyExpected, InvalidKey, ValidKey, BadKey, GoodKey
  <2>3. QED
    BY <2>1, <2>2
<1>4. QED
  BY <1>1, <1>2, <1>3 DEF SecHandle

\* One request keeps the types.
LEMMA SecHandleType ==
    ASSUME SecTypeOK, NEW sub \in Byte, NEW key, NEW current, NEW reply,
           SecHandle(sub, key, current, reply)
    PROVE  SecTypeOK'
<1>1. CASE UNCHANGED secVars
  BY <1>1 DEF SecTypeOK, secVars
<1>2. ASSUME NEW l \in Levels, NewSeed(l, sub) PROVE SecTypeOK'
  <2>1. PICK s \in Seeds : sec' = [sec EXCEPT !.levels[l] = WithSeed(@, s),
                                              !.activeLevel = sub]
    BY <1>2 DEF NewSeed
  <2>2. WithSeed(sec.levels[l], s) \in LevelState
    BY LevelTypes DEF SecTypeOK, SecurityObject
  <2>3. sec' \in SecurityObject
    BY <2>1, <2>2 DEF SecTypeOK, SecurityObject
  <2>4. QED
    BY <1>2, <2>3 DEF NewSeed, SecTypeOK
<1>3. ASSUME NEW l \in Levels, BadKey(l) PROVE SecTypeOK'
  BY <1>3, LevelTypes, NoteGuessType DEF BadKey, SecTypeOK, SecurityObject
<1>4. ASSUME NEW l \in Levels, GoodKey(l) PROVE SecTypeOK'
  BY <1>4, LevelTypes DEF GoodKey, SecTypeOK, SecurityObject
<1>5. QED
  BY <1>1, <1>2, <1>3, <1>4, RequestCases

-----------------------------------------------------------------------------
(***************************************************************************)
(* The lockout, operation by operation on one level.                       *)
(***************************************************************************)
LEMMA ReleasedKeepsRule ==
    ASSUME NEW lv \in LevelState, NEW t \in Tick, NEW now \in Tick, t <= now,
           LockoutRule(lv, t)
    PROVE  LockoutRule(Released(lv, now), now)
<1>1. /\ lv.failCount \in Nat /\ lv.lockedUntil \in Nat /\ t \in Nat /\ now \in Nat
      /\ DelayAfterFail \in Nat /\ MaxAttempts \in Nat /\ MaxAttempts > 0
  BY SessionConstants, SecurityConstants DEF LevelState, Byte, Tick
<1>2. CASE lv.lockedUntil > 0 /\ now >= lv.lockedUntil
  <2>1. Released(lv, now) = [lv EXCEPT !.lockedUntil = 0, !.failCount = 0]
    BY <1>2 DEF Released
  <2>2. /\ Released(lv, now).lockedUntil = 0
        /\ Released(lv, now).failCount = 0
        /\ Released(lv, now).seedSent = lv.seedSent
        /\ Released(lv, now).unlocked = lv.unlocked
    BY <2>1 DEF LevelState
  <2>3. QED
    BY <1>1, <1>2, <2>2 DEF LockoutRule
<1>3. CASE ~(lv.lockedUntil > 0 /\ now >= lv.lockedUntil)
  BY <1>1, <1>3 DEF Released, LockoutRule
<1>4. QED
  BY <1>2, <1>3

\* A level that is not locked has no lockout pending.
LEMMA NotLocked ==
    ASSUME SecTypeOK, LockoutInv, NEW l \in Levels, ~Locked(l)
    PROVE  sec.levels[l].lockedUntil = 0
BY DEF LockoutInv, LockoutRule, Locked

LEMMA SeedKeepsRule ==
    ASSUME NEW lv \in LevelState, NEW t \in Tick, LockoutRule(lv, t),
           lv.lockedUntil = 0, ~lv.unlocked, NEW s \in Seeds
    PROVE  LockoutRule(WithSeed(lv, s), t)
BY DEF WithSeed, LockoutRule, LevelState

LEMMA ValidKeyKeepsRule ==
    ASSUME NEW lv \in LevelState, NEW t \in Tick, LockoutRule(lv, t),
           lv.lockedUntil = 0
    PROVE  LockoutRule(AfterValidKey(lv), t)
<1>1. /\ AfterValidKey(lv).failCount = 0
      /\ AfterValidKey(lv).lockedUntil = 0
      /\ AfterValidKey(lv).seedSent = FALSE
  BY DEF AfterValidKey, LevelState
<1>2. QED
  BY <1>1, SecurityConstants DEF LockoutRule

\* Without wrap, the delay starts exactly at the attempt that uses up the last.
LEMMA InvalidKeyKeepsRule ==
    ASSUME SecTypeOK, SecNoWrap, sec.currentTick <= MaxTick, NEW lv \in LevelState,
           LockoutRule(lv, sec.currentTick), lv.lockedUntil = 0, lv.seedSent
    PROVE  /\ LockoutRule(AfterInvalidKey(lv), sec.currentTick)
           /\ AfterInvalidKey(lv).failCount = lv.failCount + 1
           /\ AfterInvalidKey(lv).lockedUntil \in {0, sec.currentTick + DelayAfterFail}
           /\ ~AfterInvalidKey(lv).unlocked /\ ~lv.unlocked
           /\ ~AfterInvalidKey(lv).seedSent
<1> DEFINE new == AfterInvalidKey(lv)
<1>1. lv.failCount \in Nat /\ sec.currentTick \in Nat
  BY ConstantFacts DEF SecTypeOK, SecurityObject, LevelState
<1>2. lv.failCount < MaxAttempts /\ ~lv.unlocked
  BY <1>1, ConstantFacts DEF LockoutRule
<1>3. Fails(lv) = lv.failCount + 1
  BY <1>1, <1>2, ConstantFacts DEF Fails
<1>4. (sec.currentTick + DelayAfterFail) % TickMod = sec.currentTick + DelayAfterFail
  BY <1>1, ConstantFacts DEF SecNoWrap
<1>5. /\ new.failCount = lv.failCount + 1
      /\ new.seedSent = FALSE
      /\ new.unlocked = lv.unlocked
      /\ new.lockedUntil = IF lv.failCount + 1 >= MaxAttempts
                           THEN sec.currentTick + DelayAfterFail ELSE 0
  BY <1>3, <1>4 DEF AfterInvalidKey, LevelState
<1> HIDE DEF new
<1>6. LockoutRule(new, sec.currentTick)
  BY <1>1, <1>2, <1>5, ConstantFacts DEF LockoutRule
<1>7. QED
  <2>1. new.lockedUntil \in {0, sec.currentTick + DelayAfterFail}
    BY <1>5
  <2>2. ~new.unlocked /\ ~new.seedSent
    BY <1>2, <1>5
  <2>3. QED
    BY <1>2, <1>5, <1>6, <2>1, <2>2 DEF new

\* A level other than the one an operation is about keeps its state.
LEMMA UpdateKeepsLockout ==
    ASSUME SecTypeOK, LockoutInv, NEW now \in Tick, sec.currentTick <= now,
           SecUpdate(now)
    PROVE  LockoutInv'
<1>1. SUFFICES ASSUME NEW l \in Levels
               PROVE  LockoutRule(sec'.levels[l], sec'.currentTick)
  BY DEF LockoutInv
<1>2. sec'.levels[l] = Released(sec.levels[l], now) /\ sec'.currentTick = now
  BY DEF SecUpdate, SecTypeOK, SecurityObject
<1>3. sec.levels[l] \in LevelState /\ sec.currentTick \in Tick
  BY DEF SecTypeOK, SecurityObject
<1>4. LockoutRule(sec.levels[l], sec.currentTick)
  BY DEF LockoutInv
<1>5. QED
  BY <1>2, <1>3, <1>4, ReleasedKeepsRule

LEMMA HandleKeepsLockout ==
    ASSUME SecTypeOK, LockoutInv, SecNoWrap, sec.currentTick <= MaxTick,
           NEW sub \in Byte, NEW key, NEW current, NEW reply,
           SecHandle(sub, key, current, reply)
    PROVE  LockoutInv' /\ sec'.currentTick = sec.currentTick
<1>1. CASE UNCHANGED secVars
  BY <1>1 DEF secVars, LockoutInv
<1>2. SUFFICES ASSUME NEW l \in Levels, ~Locked(l),
                      (NewSeed(l, sub) /\ sub = l) \/ BadKey(l) \/ GoodKey(l)
               PROVE  LockoutInv' /\ sec'.currentTick = sec.currentTick
  BY <1>1, RequestCases
<1> DEFINE lv == sec.levels[l]
<1>3. /\ lv \in LevelState
      /\ sec.currentTick \in Tick
      /\ LockoutRule(lv, sec.currentTick)
      /\ lv.lockedUntil = 0
  BY <1>2, NotLocked DEF SecTypeOK, SecurityObject, LockoutInv
<1>4. ASSUME NEW new, LockoutRule(new, sec.currentTick),
             sec'.levels = [sec.levels EXCEPT ![l] = new],
             sec'.currentTick = sec.currentTick
      PROVE  LockoutInv'
  BY <1>4 DEF LockoutInv, SecTypeOK, SecurityObject
<1>5. CASE NewSeed(l, sub)
  <2>1. PICK s \in Seeds : sec' = [sec EXCEPT !.levels[l] = WithSeed(@, s),
                                              !.activeLevel = sub]
    BY <1>5 DEF NewSeed
  <2>2. LockoutRule(WithSeed(lv, s), sec.currentTick)
    BY <1>3, <1>5, SeedKeepsRule DEF NewSeed
  <2>3. /\ sec'.levels = [sec.levels EXCEPT ![l] = WithSeed(lv, s)]
        /\ sec'.currentTick = sec.currentTick
    BY <2>1 DEF SecTypeOK, SecurityObject
  <2>4. QED
    BY <1>4, <2>2, <2>3
<1>6. CASE BadKey(l)
  <2>1. LockoutRule(AfterInvalidKey(lv), sec.currentTick)
    BY <1>3, <1>6, InvalidKeyKeepsRule DEF BadKey
  <2>2. /\ sec'.levels = [sec.levels EXCEPT ![l] = AfterInvalidKey(lv)]
        /\ sec'.currentTick = sec.currentTick
    BY <1>6 DEF BadKey, SecTypeOK, SecurityObject
  <2>3. QED
    BY <1>4, <2>1, <2>2
<1>7. CASE GoodKey(l)
  <2>1. LockoutRule(AfterValidKey(lv), sec.currentTick)
    BY <1>3, ValidKeyKeepsRule
  <2>2. /\ sec'.levels = [sec.levels EXCEPT ![l] = AfterValidKey(lv)]
        /\ sec'.currentTick = sec.currentTick
    BY <1>7 DEF GoodKey, SecTypeOK, SecurityObject
  <2>3. QED
    BY <1>4, <2>1, <2>2
<1>8. QED
  BY <1>2, <1>5, <1>6, <1>7

\* A service just constructed satisfies it all.
LEMMA NewSecurityFacts ==
    /\ NewSecurity \in SecurityObject
    /\ NewSecurity.currentTick = 0
    /\ \A l \in Levels : LockoutRule(NewSecurity.levels[l], 0)
    /\ NoGuesses \in [Levels -> Guesses]
<1>1. NewLevel \in LevelState
  BY WidthFacts DEF NewLevel, LevelState
<1>2. LockoutRule(NewLevel, 0)
  BY ConstantFacts DEF NewLevel, LockoutRule
<1>3. NewSecurity \in SecurityObject
  BY <1>1, WidthFacts DEF NewSecurity, SecurityObject
<1>4. NoGuesses \in [Levels -> Guesses]
  BY DEF NoGuesses, Guesses
<1>5. QED
  BY <1>2, <1>3, <1>4 DEF NewSecurity

(***************************************************************************)
(* The service on its own.  The inductive invariant adds to the lockout    *)
(* only that the tick stays within the observation.                        *)
(***************************************************************************)
SecTickInv == sec.currentTick <= MaxTick

SecInd == SecTypeOK /\ SecTickInv /\ LockoutInv

LEMMA SecInitInd == SecInit => SecInd
<1>1. SUFFICES ASSUME SecInit PROVE SecInd
  OBVIOUS
<1>2. SecTypeOK
  BY <1>1, NewSecurityFacts DEF SecInit, SecTypeOK
<1>3. SecTickInv
  BY <1>1, NewSecurityFacts, ConstantFacts DEF SecInit, SecTickInv
<1>4. LockoutInv
  BY <1>1, NewSecurityFacts DEF SecInit, LockoutInv
<1>5. QED
  BY <1>2, <1>3, <1>4 DEF SecInd

LEMMA SecRestartInd == SecTypeOK /\ SecRestart => SecInd'
<1>1. SUFFICES ASSUME SecTypeOK, SecRestart PROVE SecInd'
  OBVIOUS
<1>2. SecTypeOK'
  BY <1>1, NewSecurityFacts, ErasedType DEF SecRestart, SecTypeOK
<1>3. SecTickInv'
  BY <1>1, NewSecurityFacts, ConstantFacts DEF SecRestart, SecTickInv
<1>4. LockoutInv'
  BY <1>1, NewSecurityFacts DEF SecRestart, LockoutInv
<1>5. QED
  BY <1>2, <1>3, <1>4 DEF SecInd

LEMMA SecNextInd ==
    ASSUME SecNoWrap, SecInd, [SecNext]_secVars
    PROVE  SecInd'
<1>1. CASE AnyUpdate
  <2>1. PICK now \in sec.currentTick .. MaxTick : SecUpdate(now)
    BY <1>1 DEF AnyUpdate
  <2>2. now \in Tick /\ sec.currentTick <= now /\ now <= MaxTick
    BY <2>1, SessionConstants DEF SecInd, SecTypeOK, SecurityObject, Tick
  <2>3. SecTypeOK'
    BY <2>1, <2>2, SecUpdateType DEF SecInd
  <2>4. LockoutInv'
    BY <2>1, <2>2, UpdateKeepsLockout DEF SecInd
  <2>5. SecTickInv'
    BY <2>1, <2>2 DEF SecUpdate, SecTickInv, SecInd, SecTypeOK, SecurityObject
  <2>6. QED
    BY <2>3, <2>4, <2>5 DEF SecInd
<1>2. CASE AnyRequest
  <2>1. PICK sub \in SubFunctions, key \in Keys, current \in SessionType,
             reply \in SecReplies : SecHandle(sub, key, current, reply)
    BY <1>2 DEF AnyRequest
  <2>2. sub \in Byte
    BY <2>1, RequestConstants
  <2>3. SecTypeOK'
    BY <2>1, <2>2, SecHandleType DEF SecInd
  <2>4. LockoutInv' /\ SecTickInv'
    BY <2>1, <2>2, HandleKeepsLockout DEF SecInd, SecTickInv
  <2>5. QED
    BY <2>3, <2>4 DEF SecInd
<1>3. CASE SecRestart
  BY <1>3, SecRestartInd DEF SecInd
<1>4. CASE UNCHANGED secVars
  BY <1>4 DEF secVars, SecInd, SecTypeOK, SecTickInv, LockoutInv
<1>5. QED
  BY <1>1, <1>2, <1>3, <1>4 DEF SecNext

\* The lockout of handle() and update(): so many bad keys, then the delay, for
\* any number of attempts, any delay and any set of levels.
THEOREM LockoutCorrect ==
    ASSUME SecNoWrap
    PROVE  SecSpec => []LockoutInv
<1>1. SecInd /\ [SecNext]_secVars => SecInd'
  BY SecNextInd
<1>2. SecInd => LockoutInv
  BY DEF SecInd
<1>3. QED
  BY <1>1, <1>2, SecInitInd, PTL DEF SecSpec

-----------------------------------------------------------------------------
(***************************************************************************)
(* What a seed is good for.  This and the types need no bound on the tick. *)
(***************************************************************************)
\* A seed that a key could still answer is the last one that was generated.
FreshRule ==
    \A l \in Levels : sec.levels[l].seedSent /\ sec.activeLevel = l => freshSeed = l

FreshInd == SecTypeOK /\ FreshRule

LEMMA UpdateKeepsFresh ==
    ASSUME FreshInd, NEW now \in Tick, SecUpdate(now)
    PROVE  /\ FreshInd'
           /\ \A l \in Levels : /\ sec'.levels[l].unlocked = sec.levels[l].unlocked
                               /\ sec'.levels[l].failCount <= sec.levels[l].failCount
<1>1. SecTypeOK'
  BY SecUpdateType DEF FreshInd
<1>2. ASSUME NEW l \in Levels
      PROVE  /\ sec'.levels[l].seedSent = sec.levels[l].seedSent
             /\ sec'.levels[l].unlocked = sec.levels[l].unlocked
             /\ sec'.levels[l].failCount <= sec.levels[l].failCount
  <2>1. sec'.levels[l] = Released(sec.levels[l], now) /\ sec.levels[l] \in LevelState
    BY DEF SecUpdate, FreshInd, SecTypeOK, SecurityObject
  <2>2. QED
    BY <2>1 DEF Released, LevelState, Byte
<1>3. sec'.activeLevel = sec.activeLevel /\ freshSeed' = freshSeed
  BY DEF SecUpdate, FreshInd, SecTypeOK, SecurityObject
<1>4. QED
  BY <1>1, <1>2, <1>3 DEF FreshInd, FreshRule

\* A key that is checked uses up the seed of its level.
LEMMA KeyUsesSeed ==
    ASSUME FreshInd, NEW l \in Levels, BadKey(l) \/ GoodKey(l)
    PROVE  FreshRule' /\ freshSeed = l
<1>1. freshSeed = l /\ sec.activeLevel = l
  BY DEF FreshInd, FreshRule, BadKey, GoodKey
<1>2. sec.levels[l] \in LevelState
  BY DEF FreshInd, SecTypeOK, SecurityObject
<1>3. sec'.levels[l].seedSent = FALSE /\ sec'.activeLevel = l
  <2>1. CASE BadKey(l)
    <3>1. AfterInvalidKey(sec.levels[l]).seedSent = FALSE
      BY <1>2 DEF AfterInvalidKey, LevelState
    <3>2. QED
      BY <1>1, <2>1, <3>1 DEF BadKey, FreshInd, SecTypeOK, SecurityObject
  <2>2. CASE GoodKey(l)
    <3>1. AfterValidKey(sec.levels[l]).seedSent = FALSE
      BY <1>2 DEF AfterValidKey, LevelState
    <3>2. QED
      BY <1>1, <2>2, <3>1 DEF GoodKey, FreshInd, SecTypeOK, SecurityObject
  <2>3. QED
    BY <2>1, <2>2
<1>4. QED
  BY <1>1, <1>3 DEF FreshRule

LEMMA SeedIsFresh ==
    ASSUME FreshInd, NEW l \in Levels, NewSeed(l, l)
    PROVE  FreshRule'
<1>1. sec'.activeLevel = l /\ freshSeed' = l
  BY DEF NewSeed, FreshInd, SecTypeOK, SecurityObject
<1>2. QED
  BY <1>1 DEF FreshRule

LEMMA HandleKeepsFresh ==
    ASSUME FreshInd, NEW sub \in Byte, NEW key, NEW current, NEW reply,
           SecHandle(sub, key, current, reply)
    PROVE  FreshInd'
<1>1. SecTypeOK'
  BY SecHandleType DEF FreshInd
<1>2. CASE UNCHANGED secVars
  BY <1>1, <1>2 DEF FreshInd, FreshRule, secVars
<1>3. ASSUME NEW l \in Levels, NewSeed(l, sub) /\ sub = l PROVE FreshRule'
  BY <1>3, SeedIsFresh
<1>4. ASSUME NEW l \in Levels, BadKey(l) \/ GoodKey(l) PROVE FreshRule'
  BY <1>4, KeyUsesSeed
<1>5. QED
  BY <1>1, <1>2, <1>3, <1>4, RequestCases DEF FreshInd

LEMMA FreshInit == (SecInit => FreshInd) /\ (SecTypeOK /\ SecRestart => FreshInd')
<1>1. \A l \in Levels : ~NewSecurity.levels[l].seedSent
  BY DEF NewSecurity, NewLevel
<1>2. SecInit => FreshInd
  BY <1>1, NewSecurityFacts DEF SecInit, FreshInd, FreshRule, SecTypeOK
<1>3. ASSUME SecTypeOK, SecRestart PROVE FreshInd'
  <2>1. SecTypeOK'
    BY <1>3, SecRestartInd DEF SecInd
  <2>2. QED
    BY <1>1, <1>3, <2>1 DEF SecRestart, FreshInd, FreshRule
<1>4. QED
  BY <1>2, <1>3

\* The ticks an update can come with.
LEMMA AnyUpdateTick ==
    ASSUME SecTypeOK, AnyUpdate
    PROVE  \E now \in Tick : SecUpdate(now)
<1>1. PICK now \in sec.currentTick .. MaxTick : SecUpdate(now)
  BY DEF AnyUpdate
<1>2. now \in Tick
  BY <1>1, SessionConstants DEF SecTypeOK, SecurityObject, Tick
<1>3. QED
  BY <1>1, <1>2

LEMMA AnyRequestByte ==
    ASSUME AnyRequest
    PROVE  \E sub \in Byte, key \in Keys, current \in SessionType, reply \in SecReplies :
               SecHandle(sub, key, current, reply)
BY RequestConstants DEF AnyRequest

LEMMA FreshNext ==
    ASSUME FreshInd, [SecNext]_secVars
    PROVE  FreshInd'
<1>1. CASE AnyUpdate
  <2>1. PICK now \in Tick : SecUpdate(now)
    BY <1>1, AnyUpdateTick DEF FreshInd
  <2>2. QED
    BY <2>1, UpdateKeepsFresh
<1>2. CASE AnyRequest
  <2>1. PICK sub \in Byte, key \in Keys, current \in SessionType, reply \in SecReplies :
          SecHandle(sub, key, current, reply)
    BY <1>2, AnyRequestByte
  <2>2. QED
    BY <2>1, HandleKeepsFresh
<1>3. CASE SecRestart
  BY <1>3, FreshInit DEF FreshInd
<1>4. CASE UNCHANGED secVars
  BY <1>4 DEF FreshInd, FreshRule, SecTypeOK, secVars
<1>5. QED
  BY <1>1, <1>2, <1>3, <1>4 DEF SecNext

LEMMA FreshInvariant == SecSpec => []FreshInd
<1>1. FreshInd /\ [SecNext]_secVars => FreshInd'
  BY FreshNext
<1>2. QED
  BY <1>1, FreshInit, PTL DEF SecSpec

\* Whatever requests arrive in whatever session, the counters, ticks and
\* seeds of SecurityAccessService keep their types.
THEOREM SecTypeCorrect == SecSpec => []SecTypeOK
<1>1. FreshInd => SecTypeOK
  BY DEF FreshInd
<1>2. QED
  BY <1>1, FreshInvariant, PTL

\* What OneGuessPerSeed says of one step.
GuessUsesSeed ==
    \A l \in Levels :
        \/ sec'.levels[l].failCount > sec.levels[l].failCount
        \/ sec'.levels[l].unlocked /\ ~sec.levels[l].unlocked
        => freshSeed = l

LEMMA RequestUsesSeed ==
    ASSUME FreshInd, NEW k \in Levels, NewSeed(k, k) \/ BadKey(k) \/ GoodKey(k)
    PROVE  GuessUsesSeed
<1>1. SUFFICES ASSUME NEW l \in Levels,
                      \/ sec'.levels[l].failCount > sec.levels[l].failCount
                      \/ sec'.levels[l].unlocked /\ ~sec.levels[l].unlocked
               PROVE  freshSeed = l
  BY DEF GuessUsesSeed
<1>2. sec \in SecurityObject /\ sec.levels[l] \in LevelState
  BY DEF FreshInd, SecTypeOK, SecurityObject
<1>a. sec.levels[l].failCount \in Nat
  BY <1>2 DEF LevelState, Byte
<1>3. CASE NewSeed(k, k)
  <2>1. PICK s \in Seeds : sec' = [sec EXCEPT !.levels[k] = WithSeed(@, s),
                                              !.activeLevel = k]
    BY <1>3 DEF NewSeed
  <2>2. sec'.levels[l] \in {sec.levels[l], WithSeed(sec.levels[l], s)}
    BY <1>2, <2>1 DEF SecurityObject
  <2>3. /\ sec'.levels[l].unlocked = sec.levels[l].unlocked
        /\ sec'.levels[l].failCount = sec.levels[l].failCount
    BY <1>2, <2>2 DEF WithSeed, LevelState
  <2>4. QED
    BY <1>1, <1>a, <2>3
<1>4. CASE (BadKey(k) \/ GoodKey(k)) /\ l = k
  BY <1>4, KeyUsesSeed
<1>5. CASE (BadKey(k) \/ GoodKey(k)) /\ l # k
  <2>1. sec'.levels[l] = sec.levels[l]
    BY <1>2, <1>5 DEF BadKey, GoodKey, SecurityObject
  <2>2. QED
    BY <1>1, <1>a, <2>1
<1>6. QED
  BY <1>3, <1>4, <1>5

\* A step that leaves every level's counter and lock, or takes them back.
Quiet(l) == /\ sec'.levels[l].unlocked => sec.levels[l].unlocked
            /\ sec'.levels[l].failCount \in Nat
            /\ sec'.levels[l].failCount <= sec.levels[l].failCount

LEMMA QuietUsesNoSeed ==
    ASSUME FreshInd, \A l \in Levels : Quiet(l)
    PROVE  GuessUsesSeed
<1> USE DEF Quiet
<1>1. \A l \in Levels : sec.levels[l].failCount \in Nat
  BY DEF FreshInd, SecTypeOK, SecurityObject, LevelState, Byte
<1>2. \A l \in Levels : ~(sec'.levels[l].failCount > sec.levels[l].failCount)
  BY <1>1
<1>3. \A l \in Levels : ~(sec'.levels[l].unlocked /\ ~sec.levels[l].unlocked)
  OBVIOUS
<1>4. QED
  BY <1>2, <1>3, Zenon DEF GuessUsesSeed

LEMMA UpdateUsesNoSeed ==
    ASSUME FreshInd, NEW now \in Tick, SecUpdate(now)
    PROVE  GuessUsesSeed
<1>1. FreshInd'
  BY UpdateKeepsFresh
<1>a. sec' \in SecurityObject
  BY <1>1 DEF FreshInd, SecTypeOK
<1>2. \A l \in Levels : sec'.levels[l].failCount \in Nat
  BY <1>a DEF SecurityObject, LevelState, Byte
<1>3. ASSUME NEW l \in Levels PROVE Quiet(l)
  <2>1. /\ sec'.levels[l].unlocked = sec.levels[l].unlocked
        /\ sec'.levels[l].failCount <= sec.levels[l].failCount
    BY UpdateKeepsFresh
  <2>2. QED
    BY <1>2, <2>1 DEF Quiet
<1>4. QED
  BY <1>3, QuietUsesNoSeed

LEMMA RestartUsesNoSeed ==
    ASSUME FreshInd, SecRestart
    PROVE  GuessUsesSeed
<1>1. \A l \in Levels : ~sec'.levels[l].unlocked /\ sec'.levels[l].failCount = 0
  BY DEF SecRestart, NewSecurity, NewLevel
<1>2. \A l \in Levels : sec.levels[l].failCount \in Nat
  BY DEF FreshInd, SecTypeOK, SecurityObject, LevelState, Byte
<1>3. \A l \in Levels : Quiet(l)
  BY <1>1, <1>2 DEF Quiet
<1>4. QED
  BY <1>3, QuietUsesNoSeed

LEMMA NothingUsesNoSeed ==
    ASSUME FreshInd, UNCHANGED secVars
    PROVE  GuessUsesSeed
<1>1. \A l \in Levels : sec.levels[l].failCount \in Nat
  BY DEF FreshInd, SecTypeOK, SecurityObject, LevelState, Byte
<1>2. sec' = sec
  BY DEF secVars
<1>3. \A l \in Levels : Quiet(l)
  BY <1>1, <1>2 DEF Quiet
<1>4. QED
  BY <1>3, QuietUsesNoSeed

LEMMA HandleUsesSeed ==
    ASSUME FreshInd, NEW sub \in Byte, NEW key, NEW current, NEW reply,
           SecHandle(sub, key, current, reply)
    PROVE  GuessUsesSeed
<1>1. CASE UNCHANGED secVars
  BY <1>1, NothingUsesNoSeed
<1>2. CASE ~UNCHANGED secVars
  BY <1>2, RequestCases, RequestUsesSeed
<1>3. QED
  BY <1>1, <1>2

LEMMA StepUsesSeed ==
    ASSUME FreshInd, [SecNext]_secVars
    PROVE  GuessUsesSeed
<1>1. CASE AnyUpdate
  BY <1>1, AnyUpdateTick, UpdateUsesNoSeed DEF FreshInd
<1>2. CASE AnyRequest
  BY <1>2, AnyRequestByte, HandleUsesSeed
<1>3. CASE SecRestart
  BY <1>3, RestartUsesNoSeed
<1>4. CASE UNCHANGED secVars
  BY <1>4, NothingUsesNoSeed
<1>5. QED
  BY <1>1, <1>2, <1>3, <1>4 DEF SecNext

\* A key is checked, good or bad, only against the last seed that was
\* generated, at its own level, and only once.
THEOREM OneGuessPerSeedCorrect == SecSpec => OneGuessPerSeed
<1>1. FreshInd /\ [SecNext]_secVars => [GuessUsesSeed]_secVars
  BY StepUsesSeed
<1>2. QED
  BY <1>1, FreshInvariant, PTL DEF SecSpec, OneGuessPerSeed, GuessUsesSeed
-----------------------------------------------------------------------------
(***************************************************************************)
(* The rate of guesses.  Behind the failures counted since the last        *)
(* lockout, the history holds the attempt that started that lockout, at    *)
(* least DelayAfterFail before the next attempt, unless a reset has erased *)
(* it.                                                                     *)
(***************************************************************************)
RateRule(g, lv, t) ==
    LET n == Len(g.at)
        e == g.erased
        f == lv.failCount
    IN  /\ n <= MaxAttempts + 1
        /\ e + f <= n
        /\ \A i \in e + 1 .. n : g.at[i] <= t
        /\ \A i, j \in e + 1 .. n : i <= j => g.at[i] <= g.at[j]
        /\ lv.lockedUntil # 0 => lv.lockedUntil = g.at[n] + DelayAfterFail
        /\ ~lv.unlocked /\ e + f < n =>
              /\ f > 0 => g.at[n - f] + DelayAfterFail <= g.at[n - f + 1]
              /\ f = 0 => g.at[n] + DelayAfterFail <= t
        /\ n > MaxAttempts /\ e = 0 => g.at[n] - g.at[1] >= DelayAfterFail

RateInv == \A l \in Levels : RateRule(guesses[l], sec.levels[l], sec.currentTick)

LEMMA ReleasedKeepsRate ==
    ASSUME NEW g \in Guesses, NEW lv \in LevelState, NEW t \in Tick, NEW now \in Tick,
           t <= now, LockoutRule(lv, t), RateRule(g, lv, t)
    PROVE  RateRule(g, Released(lv, now), now)
<1> DEFINE n == Len(g.at)
           e == g.erased
<1>0. g.at \in Seq(Tick) /\ e \in Nat /\ n \in Nat
  BY LenProperties DEF Guesses
<1>1. /\ lv.failCount \in Nat /\ lv.lockedUntil \in Nat /\ t \in Nat /\ now \in Nat
      /\ \A i \in 1 .. n : g.at[i] \in Nat
  BY <1>0, ConstantFacts, ElementOfSeq DEF LevelState
<1>a. \A i \in e + 1 .. n : i \in 1 .. n
  BY <1>0
<1>2. CASE lv.lockedUntil > 0 /\ now >= lv.lockedUntil
  <2>1. /\ Released(lv, now).lockedUntil = 0
        /\ Released(lv, now).failCount = 0
    BY <1>2 DEF Released, LevelState
  <2>2. lv.failCount = MaxAttempts /\ lv.lockedUntil = g.at[n] + DelayAfterFail
    BY <1>1, <1>2 DEF LockoutRule, RateRule
  <2>3. e < n /\ n <= MaxAttempts + 1
    BY <1>0, <2>2, ConstantFacts DEF RateRule
  <2>4. \A i \in e + 1 .. n : g.at[i] <= now
    BY <1>1, <1>a DEF RateRule
  <2>5. g.at[n] + DelayAfterFail <= now
    BY <1>2, <2>2
  <2>6. QED
    BY <1>0, <2>1, <2>3, <2>4, <2>5 DEF RateRule
<1>3. CASE ~(lv.lockedUntil > 0 /\ now >= lv.lockedUntil)
  <2>1. Released(lv, now) = lv
    BY <1>3 DEF Released
  <2>2. \A i \in e + 1 .. n : g.at[i] <= now
    BY <1>1, <1>a DEF RateRule
  <2>3. ~lv.unlocked /\ e + lv.failCount < n /\ lv.failCount = 0
           => g.at[n] + DelayAfterFail <= now
    <3>1. SUFFICES ASSUME ~lv.unlocked, e + lv.failCount < n, lv.failCount = 0
                   PROVE  g.at[n] + DelayAfterFail <= now
      OBVIOUS
    <3>2. g.at[n] + DelayAfterFail <= t /\ n \in 1 .. n
      BY <1>0, <3>1 DEF RateRule
    <3>3. QED
      BY <1>1, <3>2, ConstantFacts
  <2>4. QED
    BY <2>1, <2>2, <2>3 DEF RateRule
<1>4. QED
  BY <1>2, <1>3

\* A history g of n attempts by time t, the first e of them erased by a reset
\* and the last f of them since the last lockout.
Attempts(g, n, e, f, t) ==
    /\ n <= MaxAttempts + 1
    /\ e + f <= n
    /\ \A i \in e + 1 .. n : g[i] <= t
    /\ \A i, j \in e + 1 .. n : i <= j => g[i] <= g[j]
    /\ e + f < n => /\ f > 0 => g[n - f] + DelayAfterFail <= g[n - f + 1]
                    /\ f = 0 => g[n] + DelayAfterFail <= t

\* new is g with one more attempt at time t, and without its first, if off is 1;
\* d of its attempts are erased.
OneMore(new, m, d, g, n, e, t, off) ==
    /\ m = n + 1 - off
    /\ m <= MaxAttempts + 1
    /\ off = 1 => n = MaxAttempts + 1
    /\ d = IF off = 1 /\ e > 0 THEN e - 1 ELSE e
    /\ \A i \in 1 .. m : new[i] = IF i + off <= n THEN g[i + off] ELSE t

\* What NoteGuess makes of a history, position by position.
LEMMA NotedGuess ==
    ASSUME NEW g \in Guesses, NEW t \in Tick, Len(g.at) <= MaxAttempts + 1
    PROVE  \E off \in {0, 1} :
               OneMore(Noted(g, t).at, Len(Noted(g, t).at), Noted(g, t).erased,
                       g.at, Len(g.at), g.erased, t, off)
<1> DEFINE a == Append(g.at, t)
           past == g.at
           new == Noted(g, t).at
           d == Noted(g, t).erased
           e == g.erased
<1>0. past \in Seq(Tick) /\ e \in Nat
  BY DEF Guesses
<1> HIDE DEF past
<1>1. /\ Append(past, t) \in Seq(Tick) /\ Len(Append(past, t)) = Len(past) + 1
      /\ Len(past) \in Nat
      /\ \A i \in 1 .. Len(past) + 1 :
             Append(past, t)[i] = IF i <= Len(past) THEN past[i] ELSE t
  BY <1>0
<1>b. a = Append(past, t)
  BY DEF past
<1>2. /\ new = IF Len(a) > MaxAttempts + 1 THEN Tail(a) ELSE a
      /\ d = IF Len(a) > MaxAttempts + 1 THEN (IF e = 0 THEN 0 ELSE e - 1) ELSE e
  BY DEF Noted
<1> HIDE DEF a, new, d, e
<1>c. Len(past) <= MaxAttempts + 1
  BY DEF past
<1>3. CASE Len(a) > MaxAttempts + 1
  <2>1. Len(past) = MaxAttempts + 1 /\ new = Tail(a)
    BY <1>1, <1>b, <1>c, <1>2, <1>3, ConstantFacts
  <2>2. Len(new) = Len(past) /\ \A i \in 1 .. Len(past) : new[i] = a[i + 1]
    BY <1>1, <1>b, <2>1, HeadTailProperties
  <2>3. \A i \in 1 .. Len(new) : new[i] = IF i + 1 <= Len(past) THEN past[i + 1] ELSE t
    BY <1>1, <1>b, <2>2
  <2>4. d = IF e > 0 THEN e - 1 ELSE e
    BY <1>0, <1>2, <1>3 DEF e
  <2>5. OneMore(new, Len(new), d, past, Len(past), e, t, 1)
    BY <1>1, <2>1, <2>2, <2>3, <2>4 DEF OneMore
  <2>6. QED
    BY <2>5 DEF new, past, d, e
<1>4. CASE ~(Len(a) > MaxAttempts + 1)
  <2>1. new = a /\ d = e
    BY <1>2, <1>4
  <2>2. Len(new) = Len(past) + 1 - 0 /\ Len(new) <= MaxAttempts + 1
    BY <1>1, <1>b, <1>4, <2>1, ConstantFacts
  <2>3. \A i \in 1 .. Len(new) : new[i] = IF i + 0 <= Len(past) THEN past[i + 0] ELSE t
    BY <1>1, <1>b, <2>1
  <2>4. OneMore(new, Len(new), d, past, Len(past), e, t, 0)
    BY <2>1, <2>2, <2>3 DEF OneMore
  <2>5. QED
    BY <2>4 DEF new, past, d, e
<1>5. QED
  BY <1>3, <1>4

\* The history g grows to new with f invalid keys already counted.
Grows(new, m, d, g, n, e, t, off, f) ==
    /\ t \in Nat /\ n \in Nat /\ f \in Nat /\ m \in Nat /\ off \in {0, 1} /\ e \in Nat
    /\ g \in [1 .. n -> Nat] /\ new \in [1 .. m -> Nat]
    /\ f < MaxAttempts
    /\ Attempts(g, n, e, f, t)
    /\ OneMore(new, m, d, g, n, e, t, off)

\* One more attempt at a time the level is not locked: it comes after the delay
\* of the last lockout, and a full history without a reset spans that delay.
LEMMA OneMoreGuess ==
    ASSUME NEW t, NEW n, NEW e, NEW f, NEW m, NEW d, NEW off, NEW g, NEW new,
           Grows(new, m, d, g, n, e, t, off, f)
    PROVE  /\ Attempts(new, m, d, f + 1, t)
           /\ new[m] = t
           /\ m > MaxAttempts /\ d = 0 => new[m] - new[1] >= DelayAfterFail
<1> USE DEF Grows
<1>0. MaxAttempts \in Nat /\ DelayAfterFail \in Nat
  BY ConstantFacts
<1>a. /\ n <= MaxAttempts + 1 /\ e + f <= n
      /\ \A i \in e + 1 .. n : g[i] <= t
      /\ \A i, j \in e + 1 .. n : i <= j => g[i] <= g[j]
      /\ e + f < n => /\ f > 0 => g[n - f] + DelayAfterFail <= g[n - f + 1]
                      /\ f = 0 => g[n] + DelayAfterFail <= t
  BY DEF Attempts
<1>b. /\ m = n + 1 - off /\ m <= MaxAttempts + 1 /\ (off = 1 => n = MaxAttempts + 1)
      /\ d = IF off = 1 /\ e > 0 THEN e - 1 ELSE e
      /\ \A i \in 1 .. m : new[i] = IF i + off <= n THEN g[i + off] ELSE t
  BY DEF OneMore
<1>c. d \in Nat /\ e <= d + off
  BY <1>b
<1>d. \A i \in d + 1 .. m : i \in 1 .. m /\ e + 1 <= i + off
  BY <1>c
<1>1. d + (f + 1) <= m /\ m \in d + 1 .. m /\ m \in 1 .. m
  BY <1>0, <1>a, <1>b, <1>c
<1>2. new[m] = t
  BY <1>1, <1>b
<1>3. ASSUME NEW i \in d + 1 .. m PROVE new[i] <= t
  <2>0. i \in 1 .. m /\ e + 1 <= i + off
    BY <1>d
  <2>1. CASE i + off <= n
    <3>1. i + off \in e + 1 .. n /\ new[i] = g[i + off]
      BY <1>b, <2>0, <2>1
    <3>2. QED
      BY <1>a, <3>1
  <2>2. CASE ~(i + off <= n)
    BY <1>b, <2>0, <2>2
  <2>3. QED
    BY <2>1, <2>2
<1>4. ASSUME NEW i \in d + 1 .. m, NEW j \in d + 1 .. m, i <= j PROVE new[i] <= new[j]
  <2>0. i \in 1 .. m /\ j \in 1 .. m /\ e + 1 <= i + off /\ e + 1 <= j + off
    BY <1>d
  <2>1. CASE j + off <= n
    <3>0. i + off <= n
      BY <1>4, <2>1
    <3>a. i + off \in e + 1 .. n /\ j + off \in e + 1 .. n /\ i + off <= j + off
      BY <1>4, <2>0, <2>1, <3>0
    <3>b. new[i] = g[i + off]
      BY <1>b, <2>0, <3>0
    <3>c. new[j] = g[j + off]
      BY <1>b, <2>0, <2>1
    <3>1. g[i + off] <= g[j + off]
      BY <1>a, <3>a
    <3>2. QED
      BY <3>1, <3>b, <3>c
  <2>2. CASE ~(j + off <= n)
    <3>1. new[j] = t
      BY <1>b, <2>0, <2>2
    <3>2. QED
      BY <1>3, <3>1
  <2>3. QED
    BY <2>1, <2>2
<1>5. ASSUME d + (f + 1) < m PROVE new[m - (f + 1)] + DelayAfterFail <= new[m - (f + 1) + 1]
  <2>1. /\ m - (f + 1) \in 1 .. m /\ m - (f + 1) + off = n - f
        /\ n - f \in 1 .. n /\ e + f < n
    BY <1>0, <1>5, <1>a, <1>b, <1>c
  <2>2. new[m - (f + 1)] = g[n - f]
    <3>1. m - (f + 1) + off <= n
      BY <2>1
    <3>2. QED
      BY <1>b, <2>1, <3>1
  <2>3. CASE f = 0
    <3>1. m - (f + 1) + 1 = m /\ n - f = n
      BY <2>3
    <3>2. QED
      BY <1>0, <1>2, <1>a, <2>1, <2>2, <2>3, <3>1
  <2>4. CASE f > 0
    <3>1. /\ m - (f + 1) + 1 \in 1 .. m
          /\ m - (f + 1) + 1 + off = n - f + 1
          /\ n - f + 1 <= n
      BY <1>0, <1>5, <1>b, <1>c, <2>4
    <3>2. new[m - (f + 1) + 1] = g[n - f + 1]
      <4>1. m - (f + 1) + 1 + off <= n
        BY <3>1
      <4>2. QED
        BY <1>b, <3>1, <4>1
    <3>3. QED
      BY <1>0, <1>a, <2>1, <2>2, <2>4, <3>2
  <2>5. QED
    BY <2>3, <2>4
<1>6. ASSUME m > MaxAttempts, d = 0 PROVE new[m] - new[1] >= DelayAfterFail
  <2>1. /\ m - (f + 1) \in d + 1 .. m /\ m - (f + 1) + 1 \in d + 1 .. m
        /\ d + (f + 1) < m /\ 1 \in d + 1 .. m /\ 1 <= m - (f + 1)
        /\ m - (f + 1) + 1 <= m
    BY <1>0, <1>6, <1>b
  <2>2. new[1] <= new[m - (f + 1)]
    BY <1>4, <2>1
  <2>3. new[m - (f + 1) + 1] <= new[m]
    BY <1>1, <1>4, <2>1
  <2>4. new[m - (f + 1)] + DelayAfterFail <= new[m - (f + 1) + 1]
    BY <1>5, <2>1
  <2>a. 1 \in 1 .. m /\ m - (f + 1) \in 1 .. m /\ m - (f + 1) + 1 \in 1 .. m
    BY <1>d, <2>1
  <2>5. /\ new[1] \in Nat /\ new[m] \in Nat
        /\ new[m - (f + 1)] \in Nat /\ new[m - (f + 1) + 1] \in Nat
    BY <1>1, <2>a
  <2>6. QED
    BY <1>0, <2>2, <2>3, <2>4, <2>5
<1>7. Attempts(new, m, d, f + 1, t)
  <2>1. m <= MaxAttempts + 1
    BY <1>b
  <2>2. f + 1 > 0
    OBVIOUS
  <2>3. QED
    BY <1>1, <1>3, <1>4, <1>5, <2>1, <2>2 DEF Attempts
<1>8. QED
  BY <1>2, <1>6, <1>7

LEMMA InvalidKeyKeepsRate ==
    ASSUME SecTypeOK, SecNoWrap, sec.currentTick <= MaxTick,
           NEW lv \in LevelState, NEW g \in Guesses,
           LockoutRule(lv, sec.currentTick), lv.lockedUntil = 0, lv.seedSent,
           RateRule(g, lv, sec.currentTick)
    PROVE  RateRule(Noted(g, sec.currentTick), AfterInvalidKey(lv), sec.currentTick)
<1>0. PICK t \in Tick : t = sec.currentTick
  BY DEF SecTypeOK, SecurityObject
<1>1. PICK now \in Guesses : now = Noted(g, t)
  BY NotedType
<1>a. PICK new \in Seq(Tick), d \in Nat : new = now.at /\ d = now.erased
  BY DEF Guesses
<1>b. PICK past \in Seq(Tick), e \in Nat : past = g.at /\ e = g.erased
  BY DEF Guesses
<1>2. PICK n \in Nat, m \in Nat, f \in Nat :
          n = Len(past) /\ m = Len(new) /\ f = lv.failCount
  BY LenProperties, ConstantFacts DEF LevelState
<1>3. past \in [1 .. n -> Nat] /\ new \in [1 .. m -> Nat] /\ t \in Nat
  <2>1. past \in [1 .. n -> Tick] /\ new \in [1 .. m -> Tick]
    BY <1>2, LenProperties
  <2>2. QED
    BY <2>1, ConstantFacts
<1>4. /\ lv.failCount < MaxAttempts
      /\ ~lv.unlocked
      /\ AfterInvalidKey(lv).failCount = lv.failCount + 1
      /\ AfterInvalidKey(lv).lockedUntil \in {0, t + DelayAfterFail}
  BY <1>0, <1>2, InvalidKeyKeepsRule, ConstantFacts DEF LockoutRule
<1>5. Attempts(past, n, e, f, t)
  BY <1>0, <1>2, <1>4, <1>b DEF RateRule, Attempts
<1>6. PICK off \in {0, 1} : OneMore(new, m, d, past, n, e, t, off)
  <2>1. Len(g.at) <= MaxAttempts + 1
    BY <1>2, <1>5, <1>b DEF Attempts
  <2>2. QED
    BY <1>1, <1>2, <1>a, <1>b, <2>1, NotedGuess
<1>7. /\ Attempts(new, m, d, f + 1, t)
      /\ new[m] = t
      /\ m > MaxAttempts /\ d = 0 => new[m] - new[1] >= DelayAfterFail
  <2>1. f < MaxAttempts
    BY <1>2, <1>4
  <2>2. Grows(new, m, d, past, n, e, t, off, f)
    BY <1>3, <1>5, <1>6, <2>1 DEF Grows
  <2>3. QED
    BY <2>2, OneMoreGuess
<1>8. RateRule(now, AfterInvalidKey(lv), t)
  <2>1. /\ Attempts(now.at, Len(now.at), now.erased, AfterInvalidKey(lv).failCount, t)
        /\ AfterInvalidKey(lv).failCount \in Nat /\ AfterInvalidKey(lv).failCount > 0
    BY <1>2, <1>4, <1>7, <1>a
  <2>2. /\ AfterInvalidKey(lv).lockedUntil # 0 =>
             AfterInvalidKey(lv).lockedUntil = now.at[Len(now.at)] + DelayAfterFail
        /\ Len(now.at) > MaxAttempts /\ now.erased = 0 =>
             now.at[Len(now.at)] - now.at[1] >= DelayAfterFail
    BY <1>2, <1>4, <1>7, <1>a
  <2>3. QED
    BY <2>1, <2>2 DEF Attempts, RateRule
<1>9. QED
  BY <1>0, <1>1, <1>8

-----------------------------------------------------------------------------
\* The rest of a level does not matter.
LEMMA SameKeepsRate ==
    ASSUME NEW g, NEW lv, NEW new, NEW t, RateRule(g, lv, t),
           new.failCount = lv.failCount,
           new.lockedUntil = lv.lockedUntil,
           new.unlocked = lv.unlocked
    PROVE  RateRule(g, new, t)
BY DEF RateRule

LEMMA ValidKeyKeepsRate ==
    ASSUME NEW g \in Guesses, NEW lv \in LevelState, NEW t, RateRule(g, lv, t),
           lv.lockedUntil = 0
    PROVE  RateRule(g, AfterValidKey(lv), t)
<1>1. /\ AfterValidKey(lv).failCount = 0
      /\ AfterValidKey(lv).lockedUntil = 0
      /\ AfterValidKey(lv).unlocked = TRUE
  BY DEF AfterValidKey, LevelState
<1>2. Len(g.at) \in Nat /\ g.erased \in Nat /\ lv.failCount \in Nat
  BY LenProperties, ConstantFacts DEF Guesses, LevelState
<1>3. g.erased + 0 <= Len(g.at)
  BY <1>2 DEF RateRule
<1>4. QED
  BY <1>1, <1>3 DEF RateRule

RateInd == SecInd /\ RateInv

LEMMA UpdateKeepsRate ==
    ASSUME RateInd, NEW now \in Tick, sec.currentTick <= now, SecUpdate(now)
    PROVE  RateInv'
<1>1. SUFFICES ASSUME NEW l \in Levels
               PROVE  RateRule(guesses'[l], sec'.levels[l], sec'.currentTick)
  BY DEF RateInv
<1>2. /\ sec'.levels[l] = Released(sec.levels[l], now) /\ sec'.currentTick = now
      /\ guesses'[l] = guesses[l]
      /\ sec.levels[l] \in LevelState /\ sec.currentTick \in Tick
      /\ guesses[l] \in Guesses
  BY DEF SecUpdate, RateInd, SecInd, SecTypeOK, SecurityObject
<1>3. /\ LockoutRule(sec.levels[l], sec.currentTick)
      /\ RateRule(guesses[l], sec.levels[l], sec.currentTick)
  BY DEF RateInd, SecInd, LockoutInv, RateInv
<1>4. QED
  BY <1>2, <1>3, ReleasedKeepsRate

LEMMA HandleKeepsRate ==
    ASSUME SecNoWrap, RateInd, NEW sub \in Byte, NEW key, NEW current, NEW reply,
           SecHandle(sub, key, current, reply)
    PROVE  RateInv'
<1>1. CASE UNCHANGED secVars
  BY <1>1 DEF RateInd, RateInv, secVars
<1>2. SUFFICES ASSUME NEW k \in Levels, ~Locked(k),
                      (NewSeed(k, sub) /\ sub = k) \/ BadKey(k) \/ GoodKey(k)
               PROVE  RateInv'
  BY <1>1, RequestCases
<1> DEFINE lv == sec.levels[k]
           g == guesses[k]
           t == sec.currentTick
<1>3. /\ lv \in LevelState /\ g \in Guesses /\ t \in Tick /\ t <= MaxTick
      /\ LockoutRule(lv, t) /\ RateRule(g, lv, t) /\ lv.lockedUntil = 0
  BY <1>2, NotLocked DEF RateInd, SecInd, SecTypeOK, SecurityObject, SecTickInv,
     LockoutInv, RateInv
<1>4. ASSUME NEW lvNew, NEW gNew, RateRule(gNew, lvNew, t),
             sec'.levels = [sec.levels EXCEPT ![k] = lvNew],
             sec'.currentTick = t,
             guesses' = [guesses EXCEPT ![k] = gNew]
      PROVE  RateInv'
  BY <1>4 DEF RateInd, RateInv, SecInd, SecTypeOK, SecurityObject
<1>5. guesses = [guesses EXCEPT ![k] = g]
  BY DEF RateInd, SecInd, SecTypeOK
<1>6. CASE NewSeed(k, sub)
  <2>1. PICK s \in Seeds : sec' = [sec EXCEPT !.levels[k] = WithSeed(@, s),
                                              !.activeLevel = sub]
    BY <1>6 DEF NewSeed
  <2>2. RateRule(g, WithSeed(lv, s), t)
    <3>1. /\ WithSeed(lv, s).failCount = lv.failCount
          /\ WithSeed(lv, s).lockedUntil = lv.lockedUntil
          /\ WithSeed(lv, s).unlocked = lv.unlocked
      BY <1>3 DEF WithSeed, LevelState
    <3>2. QED
      BY <1>3, <3>1, SameKeepsRate
  <2>3. /\ sec'.levels = [sec.levels EXCEPT ![k] = WithSeed(lv, s)]
        /\ sec'.currentTick = t
    BY <2>1 DEF RateInd, SecInd, SecTypeOK, SecurityObject
  <2>4. guesses' = [guesses EXCEPT ![k] = g]
    BY <1>5, <1>6 DEF NewSeed
  <2>5. QED
    BY <1>4, <2>2, <2>3, <2>4
<1>7. CASE BadKey(k)
  <2>1. guesses' = [guesses EXCEPT ![k] = Noted(g, t)]
    BY <1>7 DEF BadKey, NoteGuess
  <2>2. RateRule(Noted(g, t), AfterInvalidKey(lv), t)
    BY <1>3, <1>7, InvalidKeyKeepsRate DEF BadKey, RateInd, SecInd
  <2>3. /\ sec'.levels = [sec.levels EXCEPT ![k] = AfterInvalidKey(lv)]
        /\ sec'.currentTick = t
    BY <1>7 DEF BadKey, RateInd, SecInd, SecTypeOK, SecurityObject
  <2>4. QED
    BY <1>4, <2>1, <2>2, <2>3
<1>8. CASE GoodKey(k)
  <2>1. RateRule(g, AfterValidKey(lv), t)
    BY <1>3, ValidKeyKeepsRate
  <2>2. /\ sec'.levels = [sec.levels EXCEPT ![k] = AfterValidKey(lv)]
        /\ sec'.currentTick = t
    BY <1>8 DEF GoodKey, RateInd, SecInd, SecTypeOK, SecurityObject
  <2>3. guesses' = [guesses EXCEPT ![k] = g]
    BY <1>5, <1>8 DEF GoodKey
  <2>4. QED
    BY <1>4, <2>1, <2>2, <2>3
<1>9. QED
  BY <1>2, <1>6, <1>7, <1>8

LEMMA NewSecurityRate == \A l \in Levels : RateRule(NoGuesses[l], NewSecurity.levels[l], 0)
<1>1. RateRule([at |-> <<>>, erased |-> 0], NewLevel, 0)
  <2>1. Len(<<>>) = 0
    BY EmptySeq
  <2>2. NewLevel.failCount = 0 /\ NewLevel.lockedUntil = 0
    BY DEF NewLevel
  <2>3. QED
    BY <2>1, <2>2, ConstantFacts DEF RateRule
<1>2. QED
  BY <1>1 DEF NoGuesses, NewSecurity

\* A reset erases whatever there was.
LEMMA ErasedRate ==
    ASSUME NEW g \in Guesses, Len(g.at) <= MaxAttempts + 1
    PROVE  RateRule(Erased(g), NewLevel, 0)
<1>1. PICK n \in Nat : n = Len(g.at) /\ DOMAIN g.at = 1 .. n
  BY LenProperties DEF Guesses
<1>2. Len(Erased(g).at) = n /\ Erased(g).erased = n
  <2>1. Erased(g).at = [i \in 1 .. n |-> 0]
    BY <1>1 DEF Erased
  <2>2. [i \in 1 .. n |-> 0] \in Seq(Nat)
    BY IsASeq
  <2>3. DOMAIN [i \in 1 .. n |-> 0] = 1 .. n
    OBVIOUS
  <2>4. Len([i \in 1 .. n |-> 0]) = n
    BY <2>2, <2>3, LenProperties
  <2>5. QED
    BY <1>1, <2>1, <2>4 DEF Erased
<1>3. NewLevel.failCount = 0 /\ NewLevel.lockedUntil = 0
  BY DEF NewLevel
<1>4. n + 1 .. n = {} /\ n + 0 <= n /\ ~(n + 0 < n)
  OBVIOUS
<1>5. n > MaxAttempts => n # 0
  BY ConstantFacts
<1>6. QED
  BY <1>1, <1>2, <1>3, <1>4, <1>5 DEF RateRule

LEMMA RestartKeepsRate ==
    ASSUME RateInd, SecRestart
    PROVE  RateInv'
<1>1. SUFFICES ASSUME NEW l \in Levels
               PROVE  RateRule(guesses'[l], sec'.levels[l], sec'.currentTick)
  BY DEF RateInv
<1>2. guesses[l] \in Guesses /\ Len(guesses[l].at) <= MaxAttempts + 1
  BY DEF RateInd, SecInd, SecTypeOK, RateInv, RateRule
<1>3. guesses'[l] = Erased(guesses[l]) /\ sec'.levels[l] = NewLevel /\ sec'.currentTick = 0
  BY DEF SecRestart, NewSecurity
<1>4. QED
  BY <1>2, <1>3, ErasedRate

LEMMA RateNext ==
    ASSUME SecNoWrap, RateInd, [SecNext]_secVars
    PROVE  RateInd'
<1>1. SecInd'
  BY SecNextInd DEF RateInd
<1>2. CASE AnyUpdate
  <2>1. PICK now \in sec.currentTick .. MaxTick : SecUpdate(now)
    BY <1>2 DEF AnyUpdate
  <2>2. now \in Tick /\ sec.currentTick <= now
    BY <2>1, SessionConstants DEF RateInd, SecInd, SecTypeOK, SecurityObject, Tick
  <2>3. QED
    BY <1>1, <2>1, <2>2, UpdateKeepsRate DEF RateInd
<1>3. CASE AnyRequest
  <2>1. PICK sub \in Byte, key \in Keys, current \in SessionType, reply \in SecReplies :
          SecHandle(sub, key, current, reply)
    BY <1>3, AnyRequestByte
  <2>2. QED
    BY <1>1, <2>1, HandleKeepsRate DEF RateInd
<1>4. CASE SecRestart
  BY <1>1, <1>4, RestartKeepsRate DEF RateInd
<1>5. CASE UNCHANGED secVars
  BY <1>1, <1>5 DEF RateInd, RateInv, secVars
<1>6. QED
  BY <1>2, <1>3, <1>4, <1>5 DEF SecNext

LEMMA RateInit == SecInit => RateInd
BY SecInitInd, NewSecurityRate, NewSecurityFacts DEF SecInit, RateInd, RateInv

\* However requests, levels, sessions and updates interleave, any
\* MaxAttempts + 1 bad keys of a level without a reset between them span at least
\* DelayAfterFail.
THEOREM GuessRateCorrect ==
    ASSUME SecNoWrap
    PROVE  SecSpec => []GuessRate
<1>1. RateInd /\ [SecNext]_secVars => RateInd'
  BY RateNext
<1>2. RateInd => GuessRate
  BY DEF RateInd, RateInv, RateRule, GuessRate
<1>3. QED
  BY <1>1, <1>2, RateInit, PTL DEF SecSpec
=============================================================================
