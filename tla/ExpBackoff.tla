----------------------------- MODULE ExpBackoff -----------------------------
(***************************************************************************)
(* The jittered exponential backoff (linkerd/exp-backoff) and its stream.  *)
(* Durations are whole units up to DurationMax, the largest Duration;      *)
(* powers of two saturate at PowMax, u32::MAX in the code. The random      *)
(* jitter is any duration up to the configured ratio of the base.          *)
(***************************************************************************)
EXTENDS Integers

CONSTANTS DurationMax, PowMax,
          Jitter,        \* the jitter ratio, in whole multiples of the base
          IterationMax   \* u32::MAX, the iteration at which the stream ends

VARIABLES min, max,   \* the configuration, fixed
          iterations, sleeping, duration,
          slept,      \* how long the current sleep has lasted
          yields      \* items the stream has produced

backoffVars == <<min, max, iterations, sleeping, duration, slept, yields>>

BackoffTypeOK ==
    /\ min \in 0..DurationMax /\ max \in 0..DurationMax
    /\ iterations \in 0..IterationMax /\ yields \in 0..IterationMax
    /\ sleeping \in BOOLEAN
    /\ duration \in 0..DurationMax /\ slept \in 0..DurationMax

\* ExponentialBackoff::try_new accepts the configuration; stream starts it.
BackoffInit ==
    /\ min \in 0..DurationMax /\ max \in 0..DurationMax
    /\ min <= max /\ max # 0
    /\ iterations = 0 /\ sleeping = FALSE /\ duration = 0 /\ slept = 0 /\ yields = 0

Lesser(a, b) == IF a < b THEN a ELSE b


\* 2_u32.saturating_pow
SaturatingPow(n) == IF 2^n > PowMax THEN PowMax ELSE 2^n

\* base: min * 2^n, or max when that overflows or is larger.
Base(n) ==
    LET product == min * SaturatingPow(n)
    IN  IF product > DurationMax THEN max ELSE Lesser(product, max)

\* jitter: what may be added to a base.
Jitters(base) == 0..Lesser(base * Jitter, max - base)

\* poll_next without an active delay: start one.
StartSleep ==
    /\ ~sleeping
    /\ iterations # IterationMax
    /\ \E jitter \in Jitters(Base(iterations)) : duration' = Base(iterations) + jitter
    /\ slept' = 0
    /\ sleeping' = TRUE
    /\ UNCHANGED <<min, max, iterations, yields>>

\* Time passes.
Tick ==
    /\ sleeping /\ slept < duration
    /\ slept' = slept + 1
    /\ UNCHANGED <<min, max, iterations, sleeping, duration, yields>>

\* poll_next with a delay that has elapsed: yield.
Yield ==
    /\ sleeping /\ slept = duration
    /\ sleeping' = FALSE
    /\ iterations' = iterations + 1
    /\ yields' = yields + 1
    /\ UNCHANGED <<min, max, duration, slept>>

BackoffNext == StartSleep \/ Tick \/ Yield

BackoffSpec == BackoffInit /\ [][BackoffNext]_backoffVars
-----------------------------------------------------------------------------
(* Properties *)

\* Every delay lies in the configured window, jitter included, whatever
\* saturates on the way.
DelayInBounds == sleeping => min <= duration /\ duration <= max

\* Failures back off: a later base delay is never shorter than an earlier one,
\* and it doubles until it reaches the maximum.
BacksOff ==
    \A n \in 0..(IterationMax - 1) :
        /\ Base(n) <= Base(n + 1)
        /\ Base(n + 1) = Lesser(2 * Base(n), max) \/ SaturatingPow(n + 1) = PowMax

\* The stream always yields again until its iterations are used up.
Yields == \A n \in 1..IterationMax : <>(yields >= n)
=============================================================================
