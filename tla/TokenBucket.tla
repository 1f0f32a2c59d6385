----------------------------- MODULE TokenBucket -----------------------------
(***************************************************************************)
(* What a token bucket promises: Refill tokens arrive at every boundary of  *)
(* the clock, up to Capacity; a call takes one or is told the least number  *)
(* of whole milliseconds after which the next boundary has passed.          *)
(***************************************************************************)
EXTENDS Integers

CONSTANTS Capacity, Refill, Interval, TicksPerMs, MaxClock

VARIABLES tokens, clock, answer

vars == <<tokens, clock, answer>>

\* The ticks from now to the next boundary, which is never now.
ToBoundary == Interval - (clock % Interval)

\* Waiting ms milliseconds is enough, and one less is not.
Enough(ms) == ms * TicksPerMs >= ToBoundary /\ (ms - 1) * TicksPerMs < ToBoundary

Init ==
    /\ tokens \in 0 .. Capacity
    /\ clock = 0
    /\ answer = [kind |-> "none", tokens |-> 0, wait |-> 0]

Tick ==
    /\ clock < MaxClock
    /\ clock' = clock + 1
    /\ tokens' = IF clock' % Interval # 0 THEN tokens
                 ELSE IF tokens + Refill < Capacity THEN tokens + Refill ELSE Capacity
    /\ UNCHANGED answer

Allowed ==
    /\ tokens > 0
    /\ tokens' = tokens - 1
    /\ answer' = [kind |-> "allowed", tokens |-> 0, wait |-> 0]
    /\ UNCHANGED clock

Denied(ms) ==
    /\ tokens = 0 /\ Enough(ms)
    /\ answer' = [kind |-> "denied", tokens |-> 0, wait |-> ms]
    /\ UNCHANGED <<tokens, clock>>

Snapshot(ms) ==
    /\ Enough(ms)
    /\ answer' = [kind |-> "snapshot", tokens |-> tokens, wait |-> ms]
    /\ UNCHANGED <<tokens, clock>>

Next == Tick \/ Allowed \/ \E ms \in 1 .. Interval : Denied(ms) \/ Snapshot(ms)

Spec == Init /\ [][Next]_vars
===============================================================================
