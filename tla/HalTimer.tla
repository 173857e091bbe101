------------------------------ MODULE HalTimer ------------------------------
(***************************************************************************)
(* The software timers of hal_timer.hpp: a SoftTimer that is asked whether *)
(* a time-out has passed, and a PeriodicTimer that is polled.  The tick    *)
(* they read is the time in milliseconds, modulo 2^32.                     *)
(***************************************************************************)
EXTENDS Naturals

CONSTANTS
    Wrap,       \* get_tick_ms() is a uint32_t: 2^32
    Timeouts,   \* time-outs a SoftTimer is asked about
    Period,     \* m_period of the PeriodicTimer
    LastMs      \* bound: the time observed

ASSUME TimerConstants ==
    /\ Wrap \in Nat \ {0}
    /\ Timeouts \subseteq 0 .. Wrap - 1
    /\ Period \in 0 .. Wrap - 1
    /\ LastMs \in Nat

VARIABLES
    ms,         \* the time since the reset, which does not wrap
    soft,       \* SoftTimer: m_start, m_running
    periodic,   \* PeriodicTimer: m_next, m_started
    began,      \* history: the time at which the SoftTimer was started last
    armed,      \* history: the time at which the PeriodicTimer was armed last
    fired       \* what the last call of PeriodicTimer::tick() returned

timerVars == <<ms, soft, periodic, began, armed, fired>>

GetTickMs == ms % Wrap

TimerInit ==
    /\ ms = 0
    /\ soft = [start |-> 0, running |-> FALSE]
    /\ periodic = [next |-> 0, started |-> FALSE]
    /\ began = 0 /\ armed = 0
    /\ fired = FALSE

TimePasses ==
    /\ ms < LastMs
    /\ ms' = ms + 1
    /\ UNCHANGED <<soft, periodic, began, armed, fired>>

-----------------------------------------------------------------------------
SoftStart ==
    /\ soft' = [start |-> GetTickMs, running |-> TRUE]
    /\ began' = ms
    /\ UNCHANGED <<ms, periodic, armed, fired>>

SoftStop ==
    /\ soft' = [soft EXCEPT !.running = FALSE]
    /\ UNCHANGED <<ms, periodic, began, armed, fired>>

\* restart() sets the start and leaves m_running as it is.
SoftRestart ==
    /\ soft' = [soft EXCEPT !.start = GetTickMs]
    /\ began' = ms
    /\ UNCHANGED <<ms, periodic, armed, fired>>

\* Mutant: the end is computed and compared with the tick.
IsElapsedAbsolute(start, current, timeout) == current >= (start + timeout) % Wrap

IsElapsed(start, current, timeout) == (current + Wrap - start) % Wrap >= timeout

IsExpired(timeout) == soft.running /\ IsElapsed(soft.start, GetTickMs, timeout)

ElapsedMs == IF soft.running THEN (GetTickMs + Wrap - soft.start) % Wrap ELSE 0

-----------------------------------------------------------------------------
After(tick) == (tick + Period) % Wrap

PeriodicStart ==
    /\ periodic' = [next |-> After(GetTickMs), started |-> TRUE]
    /\ armed' = ms
    /\ UNCHANGED <<ms, soft, began, fired>>

\* Mutant: the timer fires a tick late.
DueLate == periodic.started /\ GetTickMs > periodic.next

Due == periodic.started /\ GetTickMs >= periodic.next

PeriodicTick ==
    /\ fired' = Due
    /\ periodic' = IF Due THEN [periodic EXCEPT !.next = After(GetTickMs)] ELSE periodic
    /\ armed' = IF Due THEN ms ELSE armed
    /\ UNCHANGED <<ms, soft, began>>

TimerNext ==
    \/ TimePasses
    \/ SoftStart \/ SoftStop \/ SoftRestart
    \/ PeriodicStart \/ PeriodicTick

TimerSpec == TimerInit /\ [][TimerNext]_timerVars

-----------------------------------------------------------------------------
\* A SoftTimer is right across the wrap of the tick, until a whole turn of the
\* counter has gone by since it was started.
SoftExact ==
    soft.running /\ ms - began < Wrap =>
        /\ ElapsedMs = ms - began
        /\ \A t \in Timeouts : IsExpired(t) <=> ms - began >= t

\* A PeriodicTimer is due exactly Period after it was armed, as long as the due
\* time and now are in the same turn of the counter (>= on the tick itself is
\* wrong in the others), and it drifts by no more than the delay of the poll:
\* it is armed again when it fires.
PeriodicExact ==
    periodic.started /\ (armed + Period) \div Wrap = ms \div Wrap =>
        (Due <=> ms >= armed + Period)
=============================================================================
