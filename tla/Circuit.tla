------------------------------ MODULE Circuit ------------------------------
(***************************************************************************)
(* The circuit breaker of @go-like/resilience (newCircuitBreaker in        *)
(* packages/resilience/src/circuit.ts).                                    *)
(*                                                                         *)
(* execute() is asynchronous: many calls are in flight at once, each       *)
(* holding the ticket it was admitted with, and their outcomes arrive in   *)
(* any order, some of them long after the circuit has opened, half-opened  *)
(* or closed again.  An action is the code between two awaits.             *)
(***************************************************************************)
EXTENDS Integers

CONSTANTS
    Call,               \* the concurrent callers of execute()
    FailureThreshold,
    ResetTimeout,       \* resetTimeoutMs
    MaxTime             \* bound: the clock

ASSUME CircuitAssumption ==
    /\ FailureThreshold \in Nat \ {0}
    /\ ResetTimeout \in Nat
    /\ MaxTime \in Nat

VARIABLES
    hasClassifier,          \* options.isFailure is given
    state, consecutiveFailures, openedAt, probeActive, generation,
    pc,                     \* pc[c]: where the caller's execute() is suspended
    ticket,                 \* ticket[c]: the ticket it was admitted with
    admittedAt,             \* admittedAt[c]: when (observed by no code)
    now                     \* monotonicNow()

breaker == <<state, consecutiveFailures, openedAt, probeActive, generation>>
calls == <<pc, ticket, admittedAt>>
vars == <<hasClassifier, breaker, calls, now>>

CircuitState == {"closed", "open", "half-open"}
Ticket == [generation : Nat, state : {"closed", "half-open"}]

-----------------------------------------------------------------------------
\* refresh: an open circuit whose reset timeout has elapsed becomes half-open.
Elapsed == state = "open" /\ now - openedAt >= ResetTimeout

Refresh ==
    /\ Elapsed
    /\ state' = "half-open"
    /\ probeActive' = FALSE
    /\ generation' = generation + 1

Admitted(c, s) ==
    /\ pc' = [pc EXCEPT ![c] = "running"]
    /\ ticket' = [ticket EXCEPT ![c] = [generation |-> generation', state |-> s]]
    /\ admittedAt' = [admittedAt EXCEPT ![c] = now]

\* Mutant of AdmitProbe: an active probe does not keep others out.
AdmitSecondProbe(c) ==
    /\ pc[c] = "idle"
    /\ IF Elapsed THEN state' = "half-open" /\ generation' = generation + 1
                  ELSE state = "half-open" /\ UNCHANGED <<state, generation>>
    /\ probeActive' = TRUE
    /\ Admitted(c, "half-open")
    /\ UNCHANGED <<hasClassifier, consecutiveFailures, openedAt, now>>

\* execute() up to the call of the operation.  A closed circuit admits every caller, a
\* half-open one the first; a caller that is refused changes nothing.
AdmitClosed(c) ==
    /\ pc[c] = "idle" /\ state = "closed"
    /\ UNCHANGED generation
    /\ Admitted(c, "closed")
    /\ UNCHANGED <<hasClassifier, state, consecutiveFailures, openedAt, probeActive, now>>

AdmitProbe(c) ==
    /\ pc[c] = "idle"
    /\ IF Elapsed THEN state' = "half-open" /\ generation' = generation + 1
                  ELSE /\ state = "half-open" /\ ~probeActive
                       /\ UNCHANGED <<state, generation>>
    /\ probeActive' = TRUE
    /\ Admitted(c, "half-open")
    /\ UNCHANGED <<hasClassifier, consecutiveFailures, openedAt, now>>

-----------------------------------------------------------------------------
\* Recording an outcome.

Current(c) == ticket[c].generation = generation
IsProbe(c) == ticket[c].state = "half-open"

OpenCircuit ==
    /\ state' = "open"
    /\ openedAt' = now
    /\ probeActive' = FALSE
    /\ generation' = generation + 1

\* Mutant of RecordSuccess: the ticket's generation is not compared.
RecordAnySuccess(c) ==
    /\ consecutiveFailures' = 0
    /\ state' = "closed"
    /\ probeActive' = FALSE
    /\ generation' = generation + 1
    /\ UNCHANGED openedAt

RecordSuccess(c) ==
    IF ~Current(c) THEN UNCHANGED breaker
    ELSE /\ consecutiveFailures' = 0
         /\ IF IsProbe(c)
            THEN /\ state' = "closed"
                 /\ probeActive' = FALSE
                 /\ generation' = generation + 1
            ELSE UNCHANGED <<state, probeActive, generation>>
         /\ UNCHANGED openedAt

\* Mutant of RecordFailure: the circuit opens one failure too late.
RecordFailureLate(c) ==
    IF ~Current(c) THEN UNCHANGED breaker
    ELSE IF IsProbe(c) THEN OpenCircuit /\ UNCHANGED consecutiveFailures
    ELSE /\ consecutiveFailures' = consecutiveFailures + 1
         /\ IF consecutiveFailures + 1 > FailureThreshold
            THEN OpenCircuit
            ELSE UNCHANGED <<state, openedAt, probeActive, generation>>

RecordFailure(c) ==
    IF ~Current(c) THEN UNCHANGED breaker
    ELSE IF IsProbe(c) THEN OpenCircuit /\ UNCHANGED consecutiveFailures
    ELSE /\ consecutiveFailures' = consecutiveFailures + 1
         /\ IF consecutiveFailures + 1 >= FailureThreshold
            THEN OpenCircuit
            ELSE UNCHANGED <<state, openedAt, probeActive, generation>>

\* Mutant of RecordNeutral: a cancelled probe is not released.
RecordNothing(c) == UNCHANGED breaker

\* A call whose context ended counts neither way, and gives the probe back.
RecordNeutral(c) ==
    /\ probeActive' = IF Current(c) /\ IsProbe(c) THEN FALSE ELSE probeActive
    /\ UNCHANGED <<state, consecutiveFailures, openedAt, generation>>

Record(c, outcome) ==
    \/ outcome = "success" /\ RecordSuccess(c)
    \/ outcome = "failure" /\ RecordFailure(c)
    \/ outcome = "neutral" /\ RecordNeutral(c)

Return(c) ==
    /\ pc' = [pc EXCEPT ![c] = "idle"]
    /\ UNCHANGED <<hasClassifier, ticket, admittedAt, now>>

\* The operation fulfils, or it rejects: with its context ended, or as a failure
\* because there is no classifier.
OperationEnds(c, outcome) ==
    /\ pc[c] = "running"
    /\ outcome = "failure" => ~hasClassifier
    /\ Record(c, outcome)
    /\ Return(c)

\* The operation rejects and isFailure is asked, asynchronously.
Classify(c) ==
    /\ pc[c] = "running" /\ hasClassifier
    /\ pc' = [pc EXCEPT ![c] = "classifying"]
    /\ UNCHANGED <<hasClassifier, breaker, ticket, admittedAt, now>>

\* isFailure answers no (success), answers yes or fails itself (failure), or the
\* context ended meanwhile (neutral).
Classified(c, outcome) ==
    /\ pc[c] = "classifying"
    /\ Record(c, outcome)
    /\ Return(c)

\* snapshot() applies an elapsed reset timeout.
Snapshot ==
    /\ Refresh
    /\ UNCHANGED <<hasClassifier, consecutiveFailures, openedAt, calls, now>>

Tick ==
    /\ now < MaxTime
    /\ now' = now + 1
    /\ UNCHANGED <<hasClassifier, breaker, calls>>

-----------------------------------------------------------------------------
Init ==
    /\ hasClassifier \in BOOLEAN
    /\ state = "closed" /\ consecutiveFailures = 0 /\ openedAt = 0
    /\ probeActive = FALSE /\ generation = 0
    /\ pc = [c \in Call |-> "idle"]
    /\ ticket = [c \in Call |-> [generation |-> 0, state |-> "closed"]]
    /\ admittedAt = [c \in Call |-> 0]
    /\ now = 0

Outcome == {"success", "failure", "neutral"}

Ends(c) ==
    \/ Classify(c)
    \/ \E o \in Outcome : OperationEnds(c, o) \/ Classified(c, o)

Next ==
    \/ \E c \in Call : AdmitClosed(c) \/ AdmitProbe(c) \/ Ends(c)
    \/ Snapshot
    \/ Tick

\* Operations and classifiers settle: execute() itself waits for nothing else.
Spec == Init /\ [][Next]_vars /\ \A c \in Call : WF_vars(Ends(c))

-----------------------------------------------------------------------------
(* Properties. *)

\* The breaker's closure variables and the tickets keep their shape.
TypeOK ==
    /\ hasClassifier \in BOOLEAN
    /\ state \in CircuitState
    /\ consecutiveFailures \in Nat
    /\ openedAt \in Nat
    /\ probeActive \in BOOLEAN
    /\ generation \in Nat
    /\ pc \in [Call -> {"idle", "running", "classifying"}]
    /\ ticket \in [Call -> Ticket]
    /\ admittedAt \in [Call -> Nat]
    /\ now \in Nat

InFlight(c) == pc[c] # "idle"

\* The calls that hold the half-open circuit's probe.
Probes == {c \in Call : InFlight(c) /\ Current(c) /\ IsProbe(c)}

\* At most one probe is in flight, and probeActive says exactly whether one is: a late,
\* stale or cancelled outcome never frees a probe it does not hold, and never keeps one.
ProbeExclusive ==
    /\ \A c, d \in Probes : c = d
    /\ probeActive <=> Probes # {}

\* The failures counted and the circuit's state agree: below the threshold exactly when
\* the circuit is closed, however the outcomes of concurrent calls are interleaved.
CountMatchesState == state = "closed" <=> consecutiveFailures < FailureThreshold

\* Only a call admitted after the circuit's last opening, and after the reset timeout
\* had elapsed, closes the circuit; a success from before the opening never does.
OnlyFreshProbeCloses ==
    [][(state # "closed" /\ state' = "closed")
        => \E c \in Call : /\ InFlight(c) /\ pc'[c] = "idle"
                           /\ admittedAt[c] >= openedAt + ResetTimeout]_vars

\* A probe is always given back, whatever happens to its call: the circuit does not
\* stay half-open refusing everyone.
ProbeReleased == probeActive ~> ~probeActive
=============================================================================
