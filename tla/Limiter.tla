------------------------------- MODULE Limiter -------------------------------
(***************************************************************************)
(* The token bucket of packages/resilience/src/limiter.ts.  It owns no      *)
(* timer: every call first applies the whole refill intervals that passed   *)
(* since the last boundary it knows.                                        *)
(*                                                                          *)
(* performance.now() has a finer grain than the options' milliseconds, so   *)
(* the clock runs in ticks, TicksPerMs of them a millisecond, from the      *)
(* limiter's creation.  Validation of options and Context is left out, and  *)
(* so is the rounding of a sum of floating-point milliseconds.              *)
(***************************************************************************)
EXTENDS Integers

CONSTANTS Capacity,      \* options.capacity
          Refill,        \* options.refillTokens
          IntervalMs,    \* options.refillIntervalMs
          TicksPerMs,
          MaxClock       \* bound: ticks of the clock

ASSUME LimiterConstants ==
    /\ Capacity \in Nat \ {0}
    /\ Refill \in Nat \ {0}
    /\ IntervalMs \in Nat \ {0}
    /\ TicksPerMs \in Nat \ {0}
    /\ MaxClock \in Nat

VARIABLES availableTokens, lastRefillAt,
          clock,         \* monotonicNow()
          answer         \* what the last call returned

limiterVars == <<availableTokens, lastRefillAt, clock, answer>>

Interval == IntervalMs * TicksPerMs

Capped(n) == IF n < Capacity THEN n ELSE Capacity

\* The whole intervals refill() finds at the clock's time.
Intervals == (clock - lastRefillAt) \div Interval

\* Mutant: an idle bucket is filled by one interval, whatever time passed.
RefillOnce ==
    IF Intervals < 1 THEN availableTokens ELSE Capped(availableTokens + Refill)

\* refill(): the tokens, and the boundary they were brought up to.
Refilled == Capped(availableTokens + Intervals * Refill)
Boundary == lastRefillAt + Intervals * Interval

\* nextRefillIn, after refill(): rounded up to whole milliseconds.
NextRefillIn == (Interval - (clock - Boundary) + TicksPerMs - 1) \div TicksPerMs

LimiterInit ==
    /\ availableTokens \in 0 .. Capacity
    /\ lastRefillAt = 0 /\ clock = 0
    /\ answer = [kind |-> "none", tokens |-> 0, wait |-> 0]

Allow ==
    /\ lastRefillAt' = Boundary
    /\ IF Refilled > 0
       THEN /\ availableTokens' = Refilled - 1
            /\ answer' = [kind |-> "allowed", tokens |-> 0, wait |-> 0]
       ELSE /\ availableTokens' = Refilled
            /\ answer' = [kind |-> "denied", tokens |-> 0, wait |-> NextRefillIn]
    /\ UNCHANGED clock

LimiterSnapshot ==
    /\ lastRefillAt' = Boundary
    /\ availableTokens' = Refilled
    /\ answer' = [kind |-> "snapshot", tokens |-> Refilled, wait |-> NextRefillIn]
    /\ UNCHANGED clock

Advance ==
    /\ clock < MaxClock
    /\ clock' = clock + 1
    /\ UNCHANGED <<availableTokens, lastRefillAt, answer>>

LimiterNext == Allow \/ LimiterSnapshot \/ Advance

LimiterSpec == LimiterInit /\ [][LimiterNext]_limiterVars

-----------------------------------------------------------------------------
\* The bucket that the lazy limiter stands for: what a call would find now.
Bucket == INSTANCE TokenBucket
    WITH tokens <- Capped(availableTokens + Intervals * Refill)

\* The lazy limiter gives the answers of a bucket that is filled at every boundary: no
\* interval is lost or counted twice however long nobody calls and wherever between two
\* boundaries a call comes, and retryAfterMs reaches the next boundary and no further.
ImplementsTokenBucket == Bucket!Spec
===============================================================================
