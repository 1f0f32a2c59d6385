-------------------------- MODULE ResilienceProofs --------------------------
(***************************************************************************)
(* Proofs about the circuit breaker and the limiter.                       *)
(*                                                                         *)
(* Circuit, for any set of callers, any threshold and any reset timeout.   *)
(* ProbeExclusive is not inductive: that an outcome with a current ticket  *)
(* finds the circuit in the state it was admitted in, and that no ticket   *)
(* is from a later generation, are needed as well.                         *)
(*                                                                         *)
(* Limiter, for any capacity, refill, interval and grain of the clock: it  *)
(* implements TokenBucket.  The argument is that the boundary it remembers *)
(* is a multiple of the interval, so that counting whole intervals from it *)
(* is counting the multiples that the clock has passed.                    *)
(***************************************************************************)
EXTENDS Circuit, Limiter, TLAPS

\* No ticket is newer than the circuit, and a current one carries its state.
TicketsSound ==
    \A c \in Call : InFlight(c) =>
        /\ ticket[c].generation <= generation
        /\ Current(c) => ticket[c].state = state

\* A half-open circuit was open for the reset timeout, and its probes came later.
ProbesFresh ==
    /\ openedAt <= now
    /\ state = "half-open" => now >= openedAt + ResetTimeout
    /\ \A c \in Probes : admittedAt[c] >= openedAt + ResetTimeout

IInv ==
    /\ TypeOK
    /\ TicketsSound
    /\ ProbeExclusive
    /\ CountMatchesState
    /\ ProbesFresh

\* The initial state of newCircuitBreaker satisfies the invariant.
LEMMA InitIInv == Init => IInv
  <1> SUFFICES ASSUME Init PROVE IInv
    OBVIOUS
  <1> USE CircuitAssumption
  <1>1. TypeOK
    BY DEF Init, TypeOK, CircuitState, Ticket
  <1>2. Probes = {}
    BY DEF Init, Probes, InFlight
  <1>3. TicketsSound /\ ProbeExclusive /\ CountMatchesState /\ ProbesFresh
    BY <1>2 DEF Init, TicketsSound, InFlight, ProbeExclusive, CountMatchesState, ProbesFresh
  <1> QED
    BY <1>1, <1>3 DEF IInv

\* Admission: the caller of a closed circuit, the sole probe of a half-open one.
LEMMA AdmitIInv ==
    ASSUME IInv, NEW c \in Call, AdmitClosed(c) \/ AdmitProbe(c)
    PROVE  IInv'
  <1> USE CircuitAssumption
  <1>a. TypeOK /\ TicketsSound /\ ProbeExclusive /\ CountMatchesState /\ ProbesFresh
    BY DEF IInv
  <1>1. CASE AdmitClosed(c)
    <2>1. TypeOK'
      BY <1>1, <1>a DEF AdmitClosed, Admitted, TypeOK, Ticket
    <2>2. TicketsSound'
      BY <1>1, <1>a DEF AdmitClosed, Admitted, TypeOK, TicketsSound, InFlight, Current, Ticket
    <2>3. Probes = {}
      BY <1>1, <1>a DEF AdmitClosed, Probes, TicketsSound, IsProbe, TypeOK, Ticket
    <2>4. Probes' = {}
      BY <1>1, <1>a, <2>3 DEF AdmitClosed, Admitted, Probes, InFlight, Current, IsProbe, TypeOK, Ticket
    <2> QED
      BY <1>1, <1>a, <2>1, <2>2, <2>3, <2>4
      DEF AdmitClosed, Admitted, IInv, ProbeExclusive, CountMatchesState, ProbesFresh
  <1>2. CASE AdmitProbe(c)
    <2>1. TypeOK'
      BY <1>2, <1>a DEF AdmitProbe, Admitted, TypeOK, Ticket, CircuitState
    <2>2. state' = "half-open" /\ state # "closed" /\ now >= openedAt + ResetTimeout
      BY <1>2, <1>a DEF AdmitProbe, Elapsed, ProbesFresh, TypeOK
    <2>3. TicketsSound'
      BY <1>2, <1>a, <2>2
      DEF AdmitProbe, Admitted, TypeOK, TicketsSound, InFlight, Current, Ticket, Elapsed
    <2>4. Probes' = {c}
      BY <1>2, <1>a
      DEF AdmitProbe, Admitted, Probes, InFlight, Current, IsProbe, TypeOK, Ticket, TicketsSound,
          ProbeExclusive, Elapsed
    <2>5. ProbesFresh'
      BY <1>2, <1>a, <2>2, <2>4 DEF AdmitProbe, Admitted, ProbesFresh, TypeOK
    <2> QED
      BY <1>2, <1>a, <2>1, <2>2, <2>3, <2>4, <2>5
      DEF AdmitProbe, IInv, ProbeExclusive, CountMatchesState
  <1> QED
    BY <1>1, <1>2

\* An outcome is recorded and its call is no longer in flight.
LEMMA RecordIInv ==
    ASSUME IInv, NEW c \in Call, NEW o \in Outcome, InFlight(c), Record(c, o), Return(c)
    PROVE  IInv'
  <1> USE CircuitAssumption
  <1>a. TypeOK /\ TicketsSound /\ ProbeExclusive /\ CountMatchesState /\ ProbesFresh
    BY DEF IInv
  <1>b. /\ \A d \in Call : InFlight(d)' <=> (InFlight(d) /\ d # c)
        /\ UNCHANGED <<ticket, admittedAt, now, hasClassifier>>
        /\ pc' \in [Call -> {"idle", "running", "classifying"}]
    BY <1>a DEF Return, InFlight, TypeOK
  <1>d. RecordSuccess(c) \/ RecordFailure(c) \/ RecordNeutral(c)
    BY DEF Record
  <1>c. TypeOK'
    <2>1. probeActive' = FALSE \/ probeActive' = probeActive
      BY <1>d DEF RecordSuccess, RecordFailure, RecordNeutral, OpenCircuit, breaker
    <2>2. probeActive' \in BOOLEAN
      BY <2>1, <1>a, Zenon DEF TypeOK
    <2>3. CASE RecordSuccess(c)
      BY <2>2, <2>3, <1>a, <1>b DEF RecordSuccess, TypeOK, CircuitState, breaker
    <2>4. CASE RecordFailure(c)
      BY <2>2, <2>4, <1>a, <1>b DEF RecordFailure, OpenCircuit, TypeOK, CircuitState, breaker
    <2>5. CASE RecordNeutral(c)
      BY <2>2, <2>5, <1>a, <1>b DEF RecordNeutral, TypeOK
    <2> QED
      BY <1>d, <2>3, <2>4, <2>5
  <1>1. CASE UNCHANGED breaker /\ ~(Current(c) /\ IsProbe(c))
    <2>1. Probes' = Probes
      BY <1>1, <1>b DEF Probes, Current, IsProbe, breaker
    <2>2. TicketsSound'
      BY <1>1, <1>a, <1>b DEF TicketsSound, Current, breaker
    <2> QED
      BY <1>1, <1>a, <1>b, <1>c, <2>1, <2>2
      DEF IInv, ProbeExclusive, CountMatchesState, ProbesFresh, breaker
  <1>2. CASE Current(c) /\ IsProbe(c)
    <2>1. c \in Probes /\ state = "half-open"
      BY <1>2, <1>a DEF Probes, TicketsSound, IsProbe
    <2>2. \A d \in Call : d # c => ~(InFlight(d) /\ Current(d) /\ IsProbe(d))
      BY <2>1, <1>a DEF ProbeExclusive, Probes
    <2>3. /\ probeActive' = FALSE
          /\ \/ /\ state' = "closed" /\ consecutiveFailures' = 0
                /\ openedAt' = openedAt /\ generation' = generation + 1
             \/ /\ state' = "open" /\ consecutiveFailures' = consecutiveFailures
                /\ openedAt' = now /\ generation' = generation + 1
             \/ UNCHANGED <<state, consecutiveFailures, openedAt, generation>>
      BY <1>d, <1>2 DEF RecordSuccess, RecordFailure, RecordNeutral, OpenCircuit
    <2>4. Probes' = {}
      BY <1>a, <1>b, <2>2, <2>3 DEF Probes, Current, IsProbe, TicketsSound, TypeOK, Ticket
    <2>5. TicketsSound'
      BY <1>a, <1>b, <2>3 DEF TicketsSound, Current, TypeOK, Ticket
    <2>6. CountMatchesState'
      BY <1>a, <2>1, <2>3 DEF CountMatchesState, TypeOK
    <2>7. ProbesFresh'
      BY <1>a, <1>b, <2>1, <2>3, <2>4 DEF ProbesFresh, TypeOK
    <2> QED
      BY <1>c, <2>3, <2>4, <2>5, <2>6, <2>7 DEF IInv, ProbeExclusive
  <1>3. CASE Current(c) /\ ~IsProbe(c)
    <2>1. state = "closed"
      BY <1>3, <1>a DEF TicketsSound, IsProbe, TypeOK, Ticket
    <2>2. Probes = {}
      BY <2>1, <1>a DEF Probes, TicketsSound, IsProbe
    <2>3. probeActive = FALSE /\ probeActive' = FALSE
      BY <1>3, <1>a, <2>2
      DEF ProbeExclusive, TypeOK, Record, RecordSuccess, RecordFailure, RecordNeutral, OpenCircuit
    <2>4. generation' = generation + 1 \/ UNCHANGED <<state, generation>>
      BY <1>3 DEF Record, RecordSuccess, RecordFailure, RecordNeutral, OpenCircuit
    <2>5. TicketsSound'
      BY <1>a, <1>b, <2>4 DEF TicketsSound, Current, TypeOK, Ticket
    <2>6. Probes' = {}
      BY <1>a, <1>b, <2>2, <2>4 DEF Probes, Current, IsProbe, TicketsSound, TypeOK, Ticket
    <2>7. CountMatchesState'
      BY <1>3, <1>a, <2>1
      DEF Record, RecordSuccess, RecordFailure, RecordNeutral, OpenCircuit, CountMatchesState, TypeOK
    <2>8. ProbesFresh'
      BY <1>3, <1>a, <1>b, <2>1, <2>6
      DEF Record, RecordSuccess, RecordFailure, RecordNeutral, OpenCircuit, ProbesFresh, TypeOK
    <2> QED
      BY <1>c, <2>3, <2>5, <2>6, <2>7, <2>8 DEF IInv, ProbeExclusive
  <1>4. ~Current(c) => UNCHANGED breaker
    BY DEF Record, RecordSuccess, RecordFailure, RecordNeutral, breaker
  <1> QED
    BY <1>1, <1>2, <1>3, <1>4

\* Every step of the breaker preserves the invariant.
LEMMA NextIInv == IInv /\ [Next]_vars => IInv'
  <1> SUFFICES ASSUME IInv, [Next]_vars PROVE IInv'
    OBVIOUS
  <1> USE CircuitAssumption
  <1>a. TypeOK /\ TicketsSound /\ ProbeExclusive /\ CountMatchesState /\ ProbesFresh
    BY DEF IInv
  <1>1. ASSUME NEW c \in Call, AdmitClosed(c) \/ AdmitProbe(c) PROVE IInv'
    BY <1>1, AdmitIInv
  <1>2. ASSUME NEW c \in Call, Classify(c) PROVE IInv'
    <2>1. UNCHANGED <<breaker, hasClassifier, ticket, admittedAt, now>>
          /\ (\A d \in Call : InFlight(d)' = InFlight(d))
      BY <1>2, <1>a DEF Classify, InFlight, TypeOK
    <2>2. TypeOK'
      BY <1>2, <1>a DEF Classify, TypeOK, breaker
    <2>3. Probes' = Probes
      BY <2>1 DEF Probes, Current, IsProbe, breaker
    <2> QED
      BY <1>a, <2>1, <2>2, <2>3
      DEF IInv, TicketsSound, Current, ProbeExclusive, CountMatchesState, ProbesFresh, breaker
  <1>3. ASSUME NEW c \in Call, NEW o \in Outcome, OperationEnds(c, o) \/ Classified(c, o)
        PROVE  IInv'
    BY <1>3, RecordIInv DEF OperationEnds, Classified, InFlight
  <1>4. CASE Snapshot
    <2>0. probeActive' \in BOOLEAN
      BY <1>4 DEF Snapshot, Refresh
    <2>1. TypeOK'
      BY <2>0, <1>4, <1>a DEF Snapshot, Refresh, TypeOK, CircuitState, calls
    <2>2. Probes' = {}
      BY <1>4, <1>a
      DEF Snapshot, Refresh, calls, Probes, InFlight, Current, TicketsSound, TypeOK, Ticket
    <2>3. TicketsSound'
      BY <1>4, <1>a
      DEF Snapshot, Refresh, calls, InFlight, Current, TicketsSound, TypeOK, Ticket
    <2> QED
      BY <1>4, <1>a, <2>1, <2>2, <2>3
      DEF Snapshot, Refresh, Elapsed, calls, IInv, ProbeExclusive, CountMatchesState, ProbesFresh, TypeOK
  <1>5. CASE Tick
    <2>1. Probes' = Probes
      BY <1>5 DEF Tick, breaker, calls, Probes, InFlight, Current, IsProbe
    <2> QED
      BY <1>5, <1>a, <2>1
      DEF Tick, breaker, calls, IInv, TypeOK, TicketsSound, InFlight, Current, ProbeExclusive,
          CountMatchesState, ProbesFresh
  <1>6. CASE UNCHANGED vars
    <2>1. Probes' = Probes
      BY <1>6 DEF vars, breaker, calls, Probes, InFlight, Current, IsProbe
    <2> QED
      BY <1>6, <1>a, <2>1
      DEF vars, breaker, calls, IInv, TypeOK, TicketsSound, InFlight, Current, ProbeExclusive,
          CountMatchesState, ProbesFresh
  <1> QED
    BY <1>1, <1>2, <1>3, <1>4, <1>5, <1>6 DEF Next, Ends

\* The breaker admits one half-open probe at a time and knows whether one is in flight,
\* whatever the number of callers and the order of their outcomes.
THEOREM ProbeExclusiveTheorem == Spec => []ProbeExclusive
  <1>1. IInv => ProbeExclusive
    BY DEF IInv
  <1> QED
    BY <1>1, InitIInv, NextIInv, PTL DEF Spec

\* The failure count of the breaker is below the threshold exactly in the closed state.
THEOREM CountMatchesStateTheorem == Spec => []CountMatchesState
  <1>1. IInv => CountMatchesState
    BY DEF IInv
  <1> QED
    BY <1>1, InitIInv, NextIInv, PTL DEF Spec

\* Only an outcome of a probe admitted after the reset timeout closes the circuit.
THEOREM OnlyFreshProbeClosesTheorem == Spec => OnlyFreshProbeCloses
  <1> DEFINE Fresh == (state # "closed" /\ state' = "closed")
                      => \E c \in Call : /\ InFlight(c) /\ pc'[c] = "idle"
                                         /\ admittedAt[c] >= openedAt + ResetTimeout
  <1>1. ASSUME IInv, Next PROVE Fresh
    <2> SUFFICES ASSUME state # "closed", state' = "closed"
                 PROVE \E c \in Call : /\ InFlight(c) /\ pc'[c] = "idle"
                                       /\ admittedAt[c] >= openedAt + ResetTimeout
      OBVIOUS
    <2>1. PICK c \in Call, o \in Outcome : OperationEnds(c, o) \/ Classified(c, o)
      BY <1>1 DEF Next, Ends, AdmitClosed, AdmitProbe, Classify, Snapshot, Refresh, Tick, breaker,
                  CircuitState
    <2>2. InFlight(c) /\ Record(c, o) /\ Return(c)
      BY <2>1 DEF OperationEnds, Classified, InFlight
    <2>3. Current(c) /\ IsProbe(c)
      BY <2>2 DEF Record, RecordSuccess, RecordFailure, RecordNeutral, OpenCircuit, breaker
    <2>4. c \in Probes
      BY <2>2, <2>3 DEF Probes
    <2> QED
      BY <1>1, <2>2, <2>4 DEF IInv, ProbesFresh, Return, TypeOK
  <1>2. IInv /\ [Next]_vars => [Fresh]_vars
    BY <1>1 DEF vars, breaker
  <1> QED
    BY <1>2, InitIInv, NextIInv, PTL DEF Spec, OnlyFreshProbeCloses

-----------------------------------------------------------------------------
(* Arithmetic of whole intervals *)

\* Division with remainder.
LEMMA DivMod ==
    ASSUME NEW a \in Nat, NEW d \in Nat \ {0}
    PROVE  /\ a \div d \in Nat /\ (a % d) \in 0 .. d - 1
           /\ a = (a \div d) * d + (a % d)
  <1>1. a \div d \in Nat
    BY SMT
  <1>2. (a % d) \in 0 .. d - 1
    BY SMT
  <1>3. a = (a \div d) * d + (a % d)
    BY SMT
  <1> QED
    BY <1>1, <1>2, <1>3

\* A product with a positive factor is not below the other factor.
LEMMA Multiple == ASSUME NEW a \in Int, NEW d \in Nat \ {0}, a >= 1 PROVE a * d >= d /\ a * d >= a
  <1>1. a * d >= d
    BY SMT
  <1>2. a * d >= a
    BY SMT
  <1> QED
    BY <1>1, <1>2

\* Quotient and remainder are unique.
LEMMA DivUnique ==
    ASSUME NEW a \in Nat, NEW d \in Nat \ {0}, NEW q \in Int, NEW r \in 0 .. d - 1, a = q * d + r
    PROVE  a \div d = q /\ (a % d) = r
  <1> DEFINE p == a \div d
             s == a % d
  <1>1. p \in Nat /\ s \in 0 .. d - 1 /\ a = p * d + s
    BY DivMod
  <1> HIDE DEF p, s
  <1>2. (q - p) * d = s - r
    BY <1>1
  <1>3. ASSUME q - p >= 1 PROVE FALSE
    <2>1. (q - p) \in Int
      BY <1>1
    <2>2. (q - p) * d >= d
      BY <1>3, <2>1, Multiple
    <2> QED
      BY <1>1, <1>2, <2>2
  <1>4. ASSUME p - q >= 1 PROVE FALSE
    <2>1. (p - q) \in Int
      BY <1>1
    <2>2. (p - q) * d >= d
      BY <1>4, <2>1, Multiple
    <2>3. (p - q) * d = r - s
      BY <1>1, <1>2
    <2> QED
      BY <1>1, <2>2, <2>3
  <1>5. p = q
    BY <1>1, <1>3, <1>4
  <1>6. s = r
    BY <1>1, <1>5
  <1> QED
    BY <1>5, <1>6 DEF p, s

-----------------------------------------------------------------------------
(* The limiter *)

\* The boundary the limiter remembers is one of the clock's, and has passed.
LimiterInv ==
    /\ availableTokens \in 0 .. Capacity
    /\ clock \in Nat /\ lastRefillAt \in Nat
    /\ lastRefillAt <= clock
    /\ \E k \in Nat : lastRefillAt = k * Interval

LEMMA IntervalPositive == Interval \in Nat \ {0}
  <1>1. IntervalMs * TicksPerMs >= TicksPerMs
    BY LimiterConstants, Multiple
  <1> QED
    BY <1>1, LimiterConstants DEF Interval

\* Where the clock stands: Intervals whole intervals after the boundary that is
\* remembered, Boundary being the last one, and clock % Interval after that.
LEMMA Position ==
    ASSUME LimiterInv
    PROVE  /\ Intervals \in Nat
           /\ clock - Boundary = clock % Interval
           /\ (clock % Interval) \in 0 .. Interval - 1
           /\ Boundary \in Nat /\ Boundary <= clock
           /\ \E k \in Nat : Boundary = k * Interval
  <1> USE IntervalPositive
  <1>1. PICK k \in Nat : lastRefillAt = k * Interval
    BY DEF LimiterInv
  <1> DEFINE a == clock - lastRefillAt
             q == a \div Interval
             r == a % Interval
  <1>2. a \in Nat /\ clock = a + lastRefillAt /\ clock \in Nat /\ lastRefillAt \in Nat
    BY DEF LimiterInv
  <1> HIDE DEF a
  <1>3. q \in Nat /\ r \in 0 .. Interval - 1 /\ a = q * Interval + r
    BY <1>2, DivMod
  <1>4. Intervals = q
    BY DEF Intervals, a
  <1> HIDE DEF q, r
  <1>5. k + q \in Nat /\ Boundary = (k + q) * Interval
    BY <1>1, <1>3, <1>4 DEF Boundary
  <1>6. clock = (k + q) * Interval + r
    BY <1>1, <1>2, <1>3
  <1>7. clock % Interval = r
    <2>1. PICK n \in Int : clock = n * Interval + r
      BY <1>5, <1>6
    <2> QED
      BY <1>2, <1>3, <2>1, DivUnique
  <1>8. clock - Boundary = r /\ Boundary <= clock /\ Boundary \in Nat
    BY <1>2, <1>3, <1>5, <1>6
  <1> QED
    BY <1>3, <1>4, <1>5, <1>7, <1>8

\* The invariant is kept; it holds at the limiter's creation.
LEMMA LimiterInvariance ==
    /\ LimiterInit => LimiterInv
    /\ LimiterInv /\ [LimiterNext]_limiterVars => LimiterInv'
  <1> USE LimiterConstants, IntervalPositive
  <1>1. LimiterInit => LimiterInv
    <2>1. 0 = 0 * Interval
      OBVIOUS
    <2> QED
      BY <2>1 DEF LimiterInit, LimiterInv
  <1>2. ASSUME LimiterInv, [LimiterNext]_limiterVars PROVE LimiterInv'
    <2>0. Refilled \in 0 .. Capacity
      <3>1. Intervals * Refill \in Nat
        BY <1>2, Position
      <3> QED
        BY <1>2, <3>1 DEF Refilled, Capped, LimiterInv
    <2>i. Interval' = Interval
      BY DEF Interval
    <2>1. CASE Allow
      <3>1. availableTokens' \in 0 .. Capacity
        BY <2>0, <2>1 DEF Allow
      <3> QED
        BY <1>2, <2>i, <2>1, <3>1, Position DEF Allow, LimiterInv
    <2>2. CASE LimiterSnapshot
      BY <1>2, <2>0, <2>i, <2>2, Position DEF LimiterSnapshot, LimiterInv
    <2>3. CASE Advance
      BY <1>2, <2>i, <2>3 DEF Advance, LimiterInv
    <2>4. CASE UNCHANGED limiterVars
      BY <1>2, <2>i, <2>4 DEF limiterVars, LimiterInv
    <2> QED
      BY <1>2, <2>1, <2>2, <2>3, <2>4 DEF LimiterNext
  <1> QED
    BY <1>1, <1>2

\* nextRefillIn is the least number of milliseconds that reaches the next
\* boundary.
LEMMA WaitIsEnough ==
    ASSUME LimiterInv
    PROVE  NextRefillIn \in 1 .. Interval /\ Bucket!Enough(NextRefillIn)
  <1> USE LimiterConstants, IntervalPositive
  <1> DEFINE x == Interval - (clock % Interval)
             n == x + TicksPerMs - 1
             ms == n \div TicksPerMs
             r == n % TicksPerMs
  <1>1. x \in 1 .. Interval
    BY Position
  <1>2. NextRefillIn = ms
    <2>1. Interval - (clock - Boundary) + TicksPerMs - 1 = n
      BY Position
    <2> QED
      BY <2>1 DEF NextRefillIn
  <1>3. n \in Nat
    BY <1>1
  <1> HIDE DEF x, n
  <1>4. ms \in Nat /\ r \in 0 .. TicksPerMs - 1 /\ n = ms * TicksPerMs + r
    BY <1>3, DivMod
  <1> HIDE DEF ms, r
  <1>5. ms * TicksPerMs >= x /\ (ms - 1) * TicksPerMs < x
    BY <1>1, <1>4 DEF n
  <1>6. ms >= 1
    BY <1>1, <1>4, <1>5
  <1>7. ms <= Interval
    <2>1. CASE ms - 1 >= 1
      <3>1. (ms - 1) \in Int
        BY <1>4
      <3>2. (ms - 1) * TicksPerMs >= ms - 1
        BY <2>1, <3>1, Multiple
      <3> QED
        BY <1>1, <1>4, <1>5, <3>2
    <2>2. CASE ms = 1
      BY <1>1, <2>2
    <2> QED
      BY <1>4, <1>6, <2>1, <2>2
  <1> QED
    BY <1>2, <1>4, <1>5, <1>6, <1>7 DEF Bucket!Enough, Bucket!ToBoundary, x

\* A call finds Refilled and leaves a boundary that no interval has passed.
LEMMA AfterCall ==
    ASSUME LimiterInv, lastRefillAt' = Boundary, UNCHANGED clock, availableTokens' \in 0 .. Capacity
    PROVE  Refilled' = availableTokens'
  <1> USE LimiterConstants, IntervalPositive
  <1> DEFINE r == clock % Interval
  <1>1. r \in 0 .. Interval - 1 /\ clock - Boundary = r
    BY Position
  <1> HIDE DEF r
  <1>2. r \div Interval = 0
    <2>1. r \in Nat /\ r = 0 * Interval + r
      BY <1>1
    <2> QED
      BY <1>1, <2>1, DivUnique
  <1>3. Intervals' = 0
    BY <1>1, <1>2 DEF Intervals, Interval
  <1>4. (Intervals * Refill)' = 0
    BY <1>3
  <1>5. PICK t \in 0 .. Capacity : t = availableTokens'
    OBVIOUS
  <1>6. Refilled' = IF t + 0 < Capacity THEN t + 0 ELSE Capacity
    BY <1>4, <1>5 DEF Refilled, Capped
  <1>7. (IF t + 0 < Capacity THEN t + 0 ELSE Capacity) = t
    OBVIOUS
  <1> QED
    BY <1>5, <1>6, <1>7, Zenon

\* Time passing fills the bucket exactly at the multiples of the interval.
LEMMA AfterTick ==
    ASSUME LimiterInv, Advance
    PROVE  Refilled' = IF clock' % Interval # 0 THEN Refilled
                       ELSE IF Refilled + Refill < Capacity THEN Refilled + Refill ELSE Capacity
  <1> USE LimiterConstants, IntervalPositive
  <1>0. Interval' = Interval
    BY DEF Interval
  <1>1. PICK k \in Nat : lastRefillAt = k * Interval
    BY DEF LimiterInv
  <1> DEFINE a == clock - lastRefillAt
             q == a \div Interval
             r == a % Interval
             b == a + 1
  <1>2. a \in Nat /\ clock = a + lastRefillAt
    BY DEF LimiterInv
  <1>3. b = clock' - lastRefillAt' /\ b \in Nat /\ clock' = b + lastRefillAt /\ clock' \in Nat
    BY <1>2 DEF Advance, LimiterInv
  <1>4. Intervals = q /\ Intervals' = b \div Interval
    BY <1>0, <1>3 DEF Intervals
  <1> HIDE DEF a
  <1>5. q \in Nat /\ r \in 0 .. Interval - 1 /\ a = q * Interval + r
    BY <1>2, DivMod
  <1> HIDE DEF q, r
  <1>6. CASE r + 1 < Interval
    <2>1. b = q * Interval + (r + 1) /\ r + 1 \in 0 .. Interval - 1
      BY <1>5, <1>6, <1>2
    <2>2. b \div Interval = q
      BY <1>3, <1>5, <2>1, DivUnique
    <2>3. clock' = (k + q) * Interval + (r + 1)
      BY <1>1, <1>3, <1>5, <2>1
    <2>4. clock' % Interval = r + 1
      <3>1. PICK n \in Int : clock' = n * Interval + (r + 1)
        BY <1>5, <2>3
      <3> QED
        <4>1. PICK c \in Nat, d \in 0 .. Interval - 1 : c = clock' /\ d = r + 1 /\ c = n * Interval + d
          BY <1>3, <2>1, <3>1
        <4>2. c % Interval = d
          BY <4>1, DivUnique
        <4> QED
          BY <4>1, <4>2
    <2> QED
      BY <1>4, <1>5, <2>2, <2>4 DEF Refilled, Capped, Advance
  <1>7. CASE r + 1 = Interval
    <2>0. 0 \in 0 .. Interval - 1
      OBVIOUS
    <2>1. b = (q + 1) * Interval + 0
      BY <1>5, <1>7, <1>2
    <2>2. b \div Interval = q + 1
      <3>1. PICK n \in Int : n = q + 1 /\ b = n * Interval + 0
        BY <1>5, <2>1
      <3> QED
        BY <1>3, <2>0, <3>1, DivUnique
    <2>3. clock' = (k + q + 1) * Interval + 0
      BY <1>1, <1>3, <1>5, <2>1
    <2>4. clock' % Interval = 0
      <3>1. k + q + 1 \in Int
        BY <1>5
      <3>2. PICK n \in Int : clock' = n * Interval + 0
        BY <2>3, <3>1
      <3> QED
        BY <1>3, <2>0, <3>2, DivUnique
    <2>5. Refilled' = Capped(availableTokens + (q + 1) * Refill)
      BY <1>4, <2>2 DEF Refilled, Advance, Capped
    <2>6. (q + 1) * Refill = q * Refill + Refill /\ q * Refill \in Nat
      BY <1>5
    <2> QED
      BY <1>4, <2>4, <2>5, <2>6 DEF Refilled, Capped, LimiterInv
  <1> QED
    BY <1>5, <1>6, <1>7

\* Every step of the limiter is a step of the bucket, or changes nothing of it.
LEMMA LimiterStep ==
    ASSUME LimiterInv, LimiterInv', [LimiterNext]_limiterVars
    PROVE  [Bucket!Next]_(Bucket!vars)
  <1> USE LimiterConstants, IntervalPositive
  <1>1. CASE Allow
    <2>1. Refilled' = availableTokens'
      BY <1>1, AfterCall DEF Allow, LimiterInv
    <2>2. CASE Refilled > 0
      <3>1. Bucket!Allowed
        BY <1>1, <2>1, <2>2 DEF Allow, Bucket!Allowed, Refilled
      <3> QED
        BY <3>1 DEF Bucket!Next
    <2>3. CASE ~(Refilled > 0)
      <3>1. Refilled = 0 /\ Refilled' = Refilled
        BY <1>1, <2>1, <2>3 DEF Allow, LimiterInv
      <3>2. Bucket!Denied(NextRefillIn)
        BY <1>1, <2>3, <3>1, WaitIsEnough DEF Allow, Bucket!Denied, Refilled
      <3> QED
        BY <3>2, WaitIsEnough DEF Bucket!Next
    <2> QED
      BY <2>2, <2>3
  <1>2. CASE LimiterSnapshot
    <2>1. Refilled' = availableTokens'
      BY <1>2, AfterCall DEF LimiterSnapshot, LimiterInv
    <2>2. Bucket!Snapshot(NextRefillIn)
      BY <1>2, <2>1, WaitIsEnough DEF LimiterSnapshot, Bucket!Snapshot, Refilled
    <2> QED
      BY <2>2, WaitIsEnough DEF Bucket!Next
  <1>3. CASE Advance
    <2>1. Bucket!Tick
      BY <1>3, AfterTick DEF Advance, Bucket!Tick, Refilled
    <2> QED
      BY <2>1 DEF Bucket!Next
  <1>4. CASE UNCHANGED limiterVars
    BY <1>4 DEF limiterVars, Bucket!vars, Intervals, Capped, Interval
  <1> QED
    BY <1>1, <1>2, <1>3, <1>4 DEF LimiterNext

\* The lazily refilled limiter implements the bucket that is filled at every
\* boundary, for every capacity, refill, interval and grain of the clock.
THEOREM ImplementsTokenBucketTheorem == LimiterSpec => ImplementsTokenBucket
  <1>1. LimiterInit => Bucket!Init
    <2> SUFFICES ASSUME LimiterInit PROVE Bucket!Init
      OBVIOUS
    <2>1. LimiterInv /\ lastRefillAt = clock /\ clock = 0
      BY LimiterInvariance DEF LimiterInit
    <2>2. Intervals = 0
      <3>1. 0 = 0 * Interval + 0 /\ 0 \in 0 .. Interval - 1
        BY IntervalPositive
      <3> QED
        BY <2>1, <3>1, IntervalPositive, DivUnique DEF Intervals
    <2> QED
      BY <2>1, <2>2, LimiterConstants DEF LimiterInit, LimiterInv, Bucket!Init, Capped
  <1> QED
    BY <1>1, LimiterInvariance, LimiterStep, PTL DEF LimiterSpec, ImplementsTokenBucket, Bucket!Spec
=============================================================================
