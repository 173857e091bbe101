--------------------------- MODULE SecurityAccess ---------------------------
(***************************************************************************)
(* Service 0x27 (class SecurityAccessService): per level, a seed, a key    *)
(* check, a failure counter and a lockout.  The action SecHandle is one    *)
(* request, SecUpdate the periodic call of the main loop.                  *)
(*                                                                         *)
(* generate_seed and verify_key are callbacks of the application.  A key   *)
(* is named by the seed it answers: verify_key accepts the key of the      *)
(* seed it is given and no other.                                          *)
(***************************************************************************)
EXTENDS Integers, Sequences, UdsSession

CONSTANTS
    Levels,             \* the registered levels, odd requestSeed sub-functions
    RequiredSession,    \* level -> SessionType, SecurityLevel::required_session
    MaxAttempts,        \* kMaxAttempts, 3
    DelayAfterFail,     \* kDelayAfterFail, 10000 ms
    Seeds               \* the seeds generate_seed can return

ASSUME SecurityConstants ==
    /\ Levels \subseteq {l \in 1 .. 255 : l % 2 = 1}
    /\ RequiredSession \in [Levels -> SessionType]
    /\ MaxAttempts \in 1 .. 255
    /\ DelayAfterFail \in Tick \ {0}
    /\ Seeds # {}
    /\ Seeds \subseteq Nat \ {0}

VARIABLES
    sec,        \* the service object
    guesses,    \* history: per level, its last MaxAttempts + 1 bad keys
    freshSeed   \* history: the level a seed was last generated for, 0 once a key used it

secVars == <<sec, guesses, freshSeed>>

Byte == 0 .. 255

LevelState == [seed : Seeds \cup {0}, seedSent : BOOLEAN, unlocked : BOOLEAN,
               failCount : Byte, lockedUntil : Tick]

SecurityObject == [levels : [Levels -> LevelState],
                   activeLevel : Byte,
                   currentTick : Tick]

NewLevel == [seed |-> 0, seedSent |-> FALSE, unlocked |-> FALSE,
             failCount |-> 0, lockedUntil |-> 0]

NewSecurity == [levels |-> [l \in Levels |-> NewLevel],
                activeLevel |-> 0, currentTick |-> 0]

\* The ticks of bad keys, oldest first; the first `erased` of them came before
\* the last reset, at 0 of the clock that started again then.
Guesses == [at : Seq(Tick), erased : Nat]

NoGuesses == [l \in Levels |-> [at |-> <<>>, erased |-> 0]]

SecInit == sec = NewSecurity /\ guesses = NoGuesses /\ freshSeed = 0

Erased(past) == [at |-> [i \in DOMAIN past.at |-> 0], erased |-> Len(past.at)]

\* A reset of the processor: everything is in RAM, the failure counters and the
\* lockouts too.  The bad keys are still bad keys.
SecRestart ==
    /\ sec' = NewSecurity
    /\ guesses' = [l \in Levels |-> Erased(guesses[l])]
    /\ freshSeed' = 0

\* Mutant: a level is released by the first update after the lockout.
ReleasedEarly(lv, now) ==
    IF lv.lockedUntil > 0 THEN [lv EXCEPT !.lockedUntil = 0, !.failCount = 0] ELSE lv

\* Mutant: every update forgives one failure, the lockout or not.
ReleasedStepwise(lv, now) ==
    IF now >= lv.lockedUntil
    THEN [lv EXCEPT !.lockedUntil = 0, !.failCount = @ - 1]
    ELSE lv

\* update(): remember the tick, release the levels whose delay has passed.
Released(lv, now) ==
    IF lv.lockedUntil > 0 /\ now >= lv.lockedUntil
    THEN [lv EXCEPT !.lockedUntil = 0, !.failCount = 0]
    ELSE lv

SecUpdate(now) ==
    /\ sec' = [sec EXCEPT !.currentTick = now,
                          !.levels = [l \in Levels |-> Released(@[l], now)]]
    /\ UNCHANGED <<guesses, freshSeed>>

-----------------------------------------------------------------------------
(***************************************************************************)
(* handle().  A request is a sub-function and, for sendKey, a key.  The    *)
(* even sub-function belongs to the level just below it; 0 to level 255.   *)
(***************************************************************************)
IsSeed(sub) == sub % 2 = 1

LevelOf(sub) == IF IsSeed(sub) THEN sub ELSE (sub - 1) % 256

Locked(l) == LET lv == sec.levels[l] IN
             lv.lockedUntil # 0 /\ sec.currentTick < lv.lockedUntil

\* The checks every request passes through, in the order of the code.
RefusedWith(sub, current, nrc) ==
    LET l == LevelOf(sub) IN
    \/ l \notin Levels /\ nrc = "SubFunctionNotSupported"
    \/ l \in Levels /\ Locked(l) /\ nrc = "RequiredTimeDelayNotExpired"
    \/ /\ l \in Levels
       /\ ~Locked(l)
       /\ RequiredSession[l] # current
       /\ nrc = "ServiceNotSupportedInActiveSession"

Admitted(sub, current) ==
    /\ LevelOf(sub) \in Levels
    /\ ~Locked(LevelOf(sub))
    /\ RequiredSession[LevelOf(sub)] = current

\* Mutant: the level of the last seed is not compared.
KeyExpectedAnyLevel(sub) == sec.levels[LevelOf(sub)].seedSent

\* verify_key is reached only with this level's seed outstanding and this
\* level the last one a seed was generated for.
KeyExpected(sub) ==
    /\ sec.levels[LevelOf(sub)].seedSent
    /\ sec.activeLevel = LevelOf(sub)

WithSeed(lv, s) == [lv EXCEPT !.seed = s, !.seedSent = TRUE]

RequestSeed(sub, reply) ==
    LET l == LevelOf(sub) IN
    \/ /\ sec.levels[l].unlocked
       /\ reply = "ZeroSeed"
       /\ UNCHANGED secVars
    \/ /\ ~sec.levels[l].unlocked
       /\ reply = "Seed"
       /\ \E s \in Seeds :
            sec' = [sec EXCEPT !.levels[l] = WithSeed(@, s), !.activeLevel = sub]
       /\ freshSeed' = l
       /\ UNCHANGED guesses

Fails(lv) == (lv.failCount + 1) % 256

\* Mutant: the seed survives a bad key.
AfterInvalidKeySeedKept(lv) ==
    [lv EXCEPT !.failCount = Fails(lv),
               !.lockedUntil = IF Fails(lv) >= MaxAttempts
                               THEN (sec.currentTick + DelayAfterFail) % TickMod
                               ELSE @]

\* The attempt that reaches MaxAttempts starts the delay.
AfterInvalidKey(lv) ==
    [lv EXCEPT !.failCount = Fails(lv),
               !.seedSent = FALSE,
               !.lockedUntil = IF Fails(lv) >= MaxAttempts
                               THEN (sec.currentTick + DelayAfterFail) % TickMod
                               ELSE @]

InvalidKey(l, reply) ==
    /\ sec' = [sec EXCEPT !.levels[l] = AfterInvalidKey(@)]
    /\ reply = IF Fails(sec.levels[l]) >= MaxAttempts
               THEN "ExceededNumberOfAttempts" ELSE "InvalidKey"

AfterValidKey(lv) ==
    [lv EXCEPT !.unlocked = TRUE, !.failCount = 0, !.seedSent = FALSE]

ValidKey(l, reply) ==
    /\ sec' = [sec EXCEPT !.levels[l] = AfterValidKey(@)]
    /\ reply = "Unlocked"

\* History: one more bad key; the oldest of too many goes.
Noted(past, now) ==
    LET at == Append(past.at, now) IN
    IF Len(at) > MaxAttempts + 1
    THEN [at |-> Tail(at), erased |-> IF past.erased = 0 THEN 0 ELSE past.erased - 1]
    ELSE [at |-> at, erased |-> past.erased]

NoteGuess(l) == guesses' = [guesses EXCEPT ![l] = Noted(@, sec.currentTick)]

SendKey(sub, key, reply) ==
    LET l == LevelOf(sub) IN
    \/ /\ ~KeyExpected(sub)
       /\ reply = "RequestSequenceError"
       /\ UNCHANGED secVars
    \/ /\ KeyExpected(sub)
       /\ key # sec.levels[l].seed
       /\ InvalidKey(l, reply)
       /\ NoteGuess(l)
       /\ freshSeed' = 0
    \/ /\ KeyExpected(sub)
       /\ key = sec.levels[l].seed
       /\ ValidKey(l, reply)
       /\ freshSeed' = 0
       /\ UNCHANGED guesses

SecHandle(sub, key, current, reply) ==
    \/ RefusedWith(sub, current, reply) /\ UNCHANGED secVars
    \/ Admitted(sub, current) /\ IsSeed(sub) /\ RequestSeed(sub, reply)
    \/ Admitted(sub, current) /\ ~IsSeed(sub) /\ SendKey(sub, key, reply)

SecReplies ==
    {"SubFunctionNotSupported", "RequiredTimeDelayNotExpired",
     "ServiceNotSupportedInActiveSession", "RequestSequenceError",
     "ExceededNumberOfAttempts", "InvalidKey", "Seed", "ZeroSeed", "Unlocked"}

(***************************************************************************)
(* The service on its own: requests of any sub-function and key in any     *)
(* session, between calls of update() with a tick that does not go back.   *)
(***************************************************************************)
CONSTANTS SubFunctions, Keys    \* the requests explored

ASSUME RequestConstants == SubFunctions \subseteq Byte

AnyUpdate == \E now \in sec.currentTick .. MaxTick : SecUpdate(now)

AnyRequest ==
    \E sub \in SubFunctions, key \in Keys, current \in SessionType, reply \in SecReplies :
        SecHandle(sub, key, current, reply)

SecNext == AnyUpdate \/ AnyRequest \/ SecRestart

SecSpec == SecInit /\ [][SecNext]_secVars

-----------------------------------------------------------------------------
\* The ticks observed end before a lockout would reach 2^32.
SecNoWrap == MaxTick + DelayAfterFail < TickMod

\* Types of the service and its history.
SecTypeOK == /\ sec \in SecurityObject
             /\ guesses \in [Levels -> Guesses]
             /\ freshSeed \in Levels \cup {0}

LockoutRule(lv, now) ==
    /\ lv.failCount <= MaxAttempts
    /\ lv.failCount = MaxAttempts <=> lv.lockedUntil # 0
    /\ lv.lockedUntil # 0 => /\ ~lv.seedSent
                             /\ now < lv.lockedUntil
                             /\ lv.lockedUntil <= now + DelayAfterFail
    /\ lv.unlocked => lv.failCount = 0 /\ ~lv.seedSent

\* The lockout: a level has used up its attempts exactly while it is locked,
\* a locked level holds no seed that a key could still answer, its delay is
\* not over and not longer than DelayAfterFail; an unlocked level is at rest.
LockoutInv == \A l \in Levels : LockoutRule(sec.levels[l], sec.currentTick)

\* However requests, seeds and sessions interleave, of any MaxAttempts + 1
\* successive bad keys of a level between which the ECU was not reset, the last
\* comes DelayAfterFail after the first.  A reset erases counter and lockout, so
\* it gives every level MaxAttempts new attempts at once.
GuessRate ==
    \A l \in Levels :
        LET at == guesses[l].at IN
        Len(at) > MaxAttempts /\ guesses[l].erased = 0
            => at[Len(at)] - at[1] >= DelayAfterFail

\* A generated seed lets one key be checked, at its own level, and a seed
\* generated later for any level replaces it.
OneGuessPerSeed ==
    [][\A l \in Levels :
          \/ sec'.levels[l].failCount > sec.levels[l].failCount
          \/ sec'.levels[l].unlocked /\ ~sec.levels[l].unlocked
          => freshSeed = l]_secVars
=============================================================================
