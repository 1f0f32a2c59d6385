------------------------------ MODULE Context ------------------------------
(***************************************************************************)
(* The cancellation tree of @go-like/context (packages/context/src).       *)
(*                                                                         *)
(* JavaScript runs one piece of code at a time, but cancelling a context   *)
(* calls abort listeners synchronously, and a listener may call back into  *)
(* the package: cancel another context, derive a child, stop an afterFunc. *)
(* The module therefore models the call stack.  `stack' holds the active   *)
(* cancellation waves, innermost last; user code runs either outside every *)
(* wave or inside one abort listener of the innermost wave.                *)
(*                                                                         *)
(* Foreign Context implementations (a custom afterFunc hook, a signal that *)
(* this package did not create) are not modelled.                          *)
(***************************************************************************)
EXTENDS Integers, Sequences

CONSTANTS
    MaxNode,      \* bound: contexts derived in one behaviour
    MaxReg,       \* bound: abort listeners and afterFunc registrations
    MaxTime,      \* bound: the clock, in ticks
    MaxDelay,     \* the longest delay one host timer accepts (2^31-1 ms)
    Causes        \* application errors given as cancellation causes

ASSUME BoundsAssumption ==
    /\ MaxNode \in Nat \ {0} /\ MaxReg \in Nat
    /\ MaxTime \in Nat /\ MaxDelay \in Nat \ {0}

Background == 0                         \* background(), the root of every chain
Node == 1 .. MaxNode
Reg  == 1 .. MaxReg
Time == 0 .. MaxTime
None == -1                              \* JavaScript's null, where a number is expected

Canceled == "canceled"
DeadlineExceeded == "deadlineExceeded"
NoErr == "null"
Err == {Canceled, DeadlineExceeded}

ASSUME CausesAssumption ==
    Causes \cap {Canceled, DeadlineExceeded, NoErr} = {}

Cause == Causes \cup Err

VARIABLES
    next,        \* number of contexts derived so far
    kind,        \* kind[n]: which constructor made n
    parent,      \* parent[n]: the context n was derived from
    done,        \* done[n]: the cancel node whose signal n.done() returns, or None
    deadline,    \* deadline[n]: the effective deadline n.deadline() reports, or None
    err, cause,  \* observedErr and observedCause of a cancel node
    dcause,      \* dcause[n]: the cause recorded if n's own deadline fires
    timerAt,     \* timerAt[n]: when n's armed timer segment elapses, or None
    listeners,   \* listeners[n]: the listeners ever added to n's signal, in order
    attached,    \* the listeners added and not removed since
    regs,        \* user registrations: raw abort listeners and afterFunc calls
    stack,       \* the cancellation waves in progress, innermost last
    micro,       \* admitted afterFunc callbacks, queued as microtasks
    now          \* the clock

treeVars == <<next, kind, parent, done, deadline, dcause>>
vars == <<next, kind, parent, done, deadline, err, cause, dcause, timerAt,
          listeners, attached, regs, stack, micro, now>>

Kind == {"unborn", "cancel", "timer", "value", "withoutCancel", "abandoned"}
RegState == {"unused", "pending", "admitted", "stopped", "ran"}
Listener == [on : {"child"}, id : Node] \cup [on : {"reg"}, id : Reg]

\* One runCancellationWave: the queued parent-to-child tasks, the nodes whose
\* cleanup frames wait, the node whose abort event is being dispatched with the
\* listeners still to call, and whether one of those listeners is running.
Wave == [caller : Node, tasks : Seq(Node), cleanups : Seq(Node),
         disp : Node \cup {None}, rest : Seq(Listener), inUser : BOOLEAN]

-----------------------------------------------------------------------------
\* Reading a context (resolveDone, resolveDeadline, resolveErr, readCause).

Born(n) == n \in 1 .. next
CancelNode(n) == kind[n] \in {"cancel", "timer"}
Settled(n) == err[n] # NoErr
Usable(c) == c # Background => Born(c) /\ kind[c] # "abandoned"

DoneOf(c) == IF c = Background THEN None ELSE done[c]
DeadlineOf(c) == IF c = Background THEN None ELSE deadline[c]

\* Mutant of FailureErr: an expired parent is reported as cancelled.
FailureErrAlwaysCanceled(p) == Canceled

\* readParentFailure: what a child records when its parent is terminal.
FailureErr(p) == IF err[done[p]] = DeadlineExceeded THEN DeadlineExceeded ELSE Canceled
FailureCause(p) == cause[done[p]]

Top == stack[Len(stack)]
Pop(s) == SubSeq(s, 1, Len(s) - 1)

\* User code runs outside every wave, or inside a listener of the innermost one.
UserCode == stack # <<>> => Top.inUser

ChildListener(n) == [on |-> "child", id |-> n]
RegListener(r) == [on |-> "reg", id |-> r]

-----------------------------------------------------------------------------
\* Deriving contexts.

\* The bookkeeping every constructor shares: n is the next context, of kind k,
\* child of p, with the signal and the effective deadline it will report.
Derive(n, k, p, d, dl) ==
    /\ UserCode
    /\ next < MaxNode
    /\ Usable(p)
    /\ n = next + 1
    /\ next' = n
    /\ kind' = [kind EXCEPT ![n] = k]
    /\ parent' = [parent EXCEPT ![n] = p]
    /\ done' = [done EXCEPT ![n] = d]
    /\ deadline' = [deadline EXCEPT ![n] = dl]

\* addEventListener("abort", l, { once: true }) on the signal of cancel node c.
Listen(c, l) ==
    /\ listeners' = [listeners EXCEPT ![c] = Append(@, l)]
    /\ attached' = attached \cup {l}

\* Mutant of InheritOrListen: a parent that is already terminal is not noticed.
ListenAlways(n, p) ==
    /\ IF DoneOf(p) = None THEN UNCHANGED <<listeners, attached>>
                          ELSE Listen(DoneOf(p), ChildListener(n))
    /\ UNCHANGED <<err, cause>>

\* newCancelContext's registration with its parent: a parent that is already
\* terminal settles the child at once, in a wave that has nobody to call, and
\* leaves no listener; otherwise the child listens on the parent's signal.
InheritOrListen(n, p) ==
    LET c == DoneOf(p)
    IN  IF c # None /\ Settled(c)
        THEN /\ err' = [err EXCEPT ![n] = FailureErr(p)]
             /\ cause' = [cause EXCEPT ![n] = FailureCause(p)]
             /\ UNCHANGED <<listeners, attached>>
        ELSE /\ IF c = None THEN UNCHANGED <<listeners, attached>>
                            ELSE Listen(c, ChildListener(n))
             /\ UNCHANGED <<err, cause>>

WithCancel(p) ==
    LET n == next + 1
    IN  /\ Derive(n, "cancel", p, n, DeadlineOf(p))
        /\ InheritOrListen(n, p)
        /\ UNCHANGED <<dcause, timerAt, regs, stack, micro, now>>

\* arm: the host accepts delays up to MaxDelay, so a far deadline takes several
\* timer segments.
NextSegment(d) == IF d - now < MaxDelay THEN d ELSE now + MaxDelay

\* Mutant of ParentExpiresFirst: the parent's deadline is not consulted.
ParentNeverExpiresFirst(p, d) == FALSE

\* newTimedContext's fast path: the parent's deadline comes before the requested one.
ParentExpiresFirst(p, d) == DeadlineOf(p) # None /\ DeadlineOf(p) < d

\* withDeadline, withTimeout and their Cause forms, deadline d.  A parent that
\* expires earlier makes it withCancel(parent); a terminal parent settles it; a
\* deadline that has passed settles it with its own cause and removes its
\* listener again; `armed' FALSE is a clock or setTimeout that throws after the
\* parent registration: the half-built context is cancelled and never returned.
WithDeadline(p, d, c, armed) ==
    LET n == next + 1
        pc == DoneOf(p)
    IN  /\ IF ParentExpiresFirst(p, d)
           THEN /\ armed /\ c = DeadlineExceeded
                /\ Derive(n, "cancel", p, n, DeadlineOf(p))
                /\ InheritOrListen(n, p)
                /\ UNCHANGED <<dcause, timerAt>>
           ELSE /\ Derive(n, IF armed THEN "timer" ELSE "abandoned", p, n, d)
                /\ dcause' = [dcause EXCEPT ![n] = c]
                /\ IF pc # None /\ Settled(pc)
                   THEN InheritOrListen(n, p) /\ UNCHANGED timerAt
                   ELSE IF ~armed \/ d <= now
                        THEN /\ err' = [err EXCEPT ![n] =
                                    IF armed THEN DeadlineExceeded ELSE Canceled]
                             /\ cause' = [cause EXCEPT ![n] =
                                    IF armed THEN c ELSE Canceled]
                             /\ UNCHANGED <<listeners, attached, timerAt>>
                        ELSE /\ InheritOrListen(n, p)
                             /\ timerAt' = [timerAt EXCEPT ![n] = NextSegment(d)]
        /\ UNCHANGED <<regs, stack, micro, now>>

WithValue(p) ==
    /\ Derive(next + 1, "value", p, DoneOf(p), DeadlineOf(p))
    /\ UNCHANGED <<err, cause, dcause, timerAt, listeners, attached, regs, stack, micro, now>>

WithoutCancel(p) ==
    /\ Derive(next + 1, "withoutCancel", p, None, None)
    /\ UNCHANGED <<err, cause, dcause, timerAt, listeners, attached, regs, stack, micro, now>>

-----------------------------------------------------------------------------
\* Cancelling.

\* runCancellationWave with its first task taken: n's abort event is dispatched.
NewWave(n) == [caller |-> n, tasks |-> <<>>, cleanups |-> <<>>,
               disp |-> n, rest |-> listeners[n], inUser |-> FALSE]

\* settle, up to and including the start of controller.abort(): the error is
\* recorded before any listener runs, and the listeners called are the ones
\* registered at this moment.
Record(n, e, c) ==
    /\ err' = [err EXCEPT ![n] = e]
    /\ cause' = [cause EXCEPT ![n] = c]

\* handle.cancel: a terminal handle returns at once; otherwise a new wave is
\* entered, whatever waves are already running.
Cancel(n, e, c) ==
    /\ ~Settled(n)
    /\ Record(n, e, c)
    /\ stack' = Append(stack, NewWave(n))

\* A CancelFunc or CancelCauseFunc is called.
CallCancel(n, c) ==
    /\ UserCode
    /\ Born(n) /\ CancelNode(n)
    /\ c = Canceled \/ (c \in Causes /\ kind[n] = "cancel")
    /\ Cancel(n, Canceled, c)
    /\ UNCHANGED <<treeVars, timerAt, listeners, attached, regs, micro, now>>

\* Mutant of WakeTimer: an intermediate segment is not followed by another.
WakeTimerOnce(n) ==
    /\ stack = <<>> /\ micro = <<>>
    /\ timerAt[n] # None /\ timerAt[n] <= now
    /\ IF now < deadline[n]
       THEN UNCHANGED <<err, cause, stack>>
       ELSE Cancel(n, DeadlineExceeded, dcause[n])
    /\ timerAt' = [timerAt EXCEPT ![n] = None]
    /\ UNCHANGED <<treeVars, listeners, attached, regs, micro, now>>

\* The deadline timer wakes: re-armed while the deadline lies ahead (a delay
\* longer than MaxDelay is cut into segments), otherwise it cancels.
WakeTimer(n) ==
    /\ stack = <<>> /\ micro = <<>>
    /\ timerAt[n] # None /\ timerAt[n] <= now
    /\ IF now < deadline[n]
       THEN /\ timerAt' = [timerAt EXCEPT ![n] = NextSegment(deadline[n])]
            /\ UNCHANGED <<err, cause, stack>>
       ELSE /\ Cancel(n, DeadlineExceeded, dcause[n])
            /\ timerAt' = [timerAt EXCEPT ![n] = None]
    /\ UNCHANGED <<treeVars, listeners, attached, regs, micro, now>>

\* Mutant of RunTask: the child records the failure and does not abort its signal.
RunTaskWithoutAbort ==
    /\ stack # <<>>
    /\ Top.disp = None /\ Top.tasks # <<>>
    /\ LET n == Head(Top.tasks)
       IN  /\ IF Settled(n) THEN UNCHANGED <<err, cause>>
              ELSE Record(n, FailureErr(parent[n]), FailureCause(parent[n]))
           /\ stack' = [stack EXCEPT ![Len(stack)].tasks = Tail(@)]
    /\ UNCHANGED <<treeVars, timerAt, listeners, attached, regs, micro, now>>

\* drainCancellationWave takes the next parent-to-child task: the child reads
\* its parent's failure now, and a child settled meanwhile is left alone.
RunTask ==
    /\ stack # <<>>
    /\ Top.disp = None /\ Top.tasks # <<>>
    /\ LET n == Head(Top.tasks)
           w == [Top EXCEPT !.tasks = Tail(@)]
       IN  IF Settled(n)
           THEN /\ stack' = [stack EXCEPT ![Len(stack)] = w]
                /\ UNCHANGED <<err, cause>>
           ELSE /\ Record(n, FailureErr(parent[n]), FailureCause(parent[n]))
                /\ stack' = [stack EXCEPT ![Len(stack)] =
                                [w EXCEPT !.disp = n, !.rest = listeners[n]]]
    /\ UNCHANGED <<treeVars, timerAt, listeners, attached, regs, micro, now>>

\* The abort event reaches its next listener.  One removed since the dispatch
\* began is skipped.  A child queues its task on the innermost wave, an afterFunc
\* queues its callback as a microtask, a raw listener runs user code.
CallListener ==
    /\ stack # <<>>
    /\ Top.disp # None /\ ~Top.inUser /\ Top.rest # <<>>
    /\ LET l == Head(Top.rest)
           w == [Top EXCEPT !.rest = Tail(@)]
       IN  IF l \notin attached
           THEN /\ stack' = [stack EXCEPT ![Len(stack)] = w]
                /\ UNCHANGED <<attached, regs, micro>>
           ELSE /\ attached' = attached \ {l}
                /\ IF l.on = "child"
                   THEN /\ stack' = [stack EXCEPT ![Len(stack)] =
                                        [w EXCEPT !.tasks = Append(@, l.id)]]
                        /\ UNCHANGED <<regs, micro>>
                   ELSE IF regs[l.id].queued
                   THEN /\ regs' = [regs EXCEPT ![l.id].state = "admitted"]
                        /\ micro' = Append(micro, l.id)
                        /\ stack' = [stack EXCEPT ![Len(stack)] = w]
                   ELSE /\ regs' = [regs EXCEPT ![l.id].state = "ran"]
                        /\ stack' = [stack EXCEPT ![Len(stack)] =
                                        [w EXCEPT !.inUser = TRUE]]
                        /\ UNCHANGED micro
    /\ UNCHANGED <<treeVars, err, cause, timerAt, listeners, now>>

\* A raw abort listener returns to the dispatch that called it.
ListenerReturns ==
    /\ stack # <<>> /\ Top.inUser
    /\ stack' = [stack EXCEPT ![Len(stack)].inUser = FALSE]
    /\ UNCHANGED <<treeVars, err, cause, timerAt, listeners, attached, regs, micro, now>>

\* controller.abort() returns; settle hands the node's cleanups to the wave.
FinishDispatch ==
    /\ stack # <<>>
    /\ Top.disp # None /\ ~Top.inUser /\ Top.rest = <<>>
    /\ stack' = [stack EXCEPT ![Len(stack)] =
                    [Top EXCEPT !.disp = None, !.cleanups = Append(@, Top.disp)]]
    /\ UNCHANGED <<treeVars, err, cause, timerAt, listeners, attached, regs, micro, now>>

\* Mutant of RunCleanup: the timer's cleanup is not registered.
RunCleanupKeepsTimer ==
    /\ stack # <<>>
    /\ Top.disp = None /\ Top.tasks = <<>> /\ Top.cleanups # <<>>
    /\ attached' = attached \ {ChildListener(Top.cleanups[Len(Top.cleanups)])}
    /\ stack' = [stack EXCEPT ![Len(stack)].cleanups = Pop(@)]
    /\ UNCHANGED <<treeVars, err, cause, timerAt, listeners, regs, micro, now>>

\* With no task left, the newest cleanup frame runs: the node stops listening to
\* its parent and its deadline timer is cleared.
RunCleanup ==
    /\ stack # <<>>
    /\ Top.disp = None /\ Top.tasks = <<>> /\ Top.cleanups # <<>>
    /\ LET n == Top.cleanups[Len(Top.cleanups)]
       IN  /\ attached' = attached \ {ChildListener(n)}
           /\ timerAt' = [timerAt EXCEPT ![n] = None]
           /\ stack' = [stack EXCEPT ![Len(stack)].cleanups = Pop(@)]
    /\ UNCHANGED <<treeVars, err, cause, listeners, regs, micro, now>>

\* The wave is drained: the CancelFunc that entered it returns to its caller.
CancelReturns ==
    /\ stack # <<>>
    /\ Top.disp = None /\ Top.tasks = <<>> /\ Top.cleanups = <<>>
    /\ stack' = Pop(stack)
    /\ UNCHANGED <<treeVars, err, cause, timerAt, listeners, attached, regs, micro, now>>

-----------------------------------------------------------------------------
\* Observing cancellation.

\* Registrations are interchangeable, so they are taken in order.
Fresh(r) == \A q \in Reg : regs[q].state = "unused" <=> q >= r

\* ctx.done().addEventListener("abort", ..., { once: true }) by user code.
AddListener(r, n) ==
    /\ UserCode
    /\ Fresh(r)
    /\ Born(n) /\ CancelNode(n) /\ ~Settled(n)
    /\ regs' = [regs EXCEPT ![r] = [state |-> "pending", ctx |-> n, queued |-> FALSE]]
    /\ Listen(n, RegListener(r))
    /\ UNCHANGED <<treeVars, err, cause, timerAt, stack, micro, now>>

\* Mutant of AfterFunc: the abort that already happened is not noticed.
AfterFuncListens(r, n) ==
    /\ UserCode
    /\ Fresh(r)
    /\ Born(n) /\ Usable(n)
    /\ regs' = [regs EXCEPT ![r] = [state |-> "pending", ctx |-> n, queued |-> TRUE]]
    /\ IF done[n] = None THEN UNCHANGED <<listeners, attached>>
                        ELSE Listen(done[n], RegListener(r))
    /\ UNCHANGED <<treeVars, err, cause, timerAt, stack, micro, now>>

\* afterFunc(ctx, fn): on a terminal context the callback is admitted at once,
\* on a context without a signal it stays pending until stopped.
AfterFunc(r, n) ==
    /\ UserCode
    /\ Fresh(r)
    /\ Born(n) /\ Usable(n)
    /\ LET c == done[n]
       IN  IF c # None /\ Settled(c)
           THEN /\ regs' = [regs EXCEPT ![r] =
                              [state |-> "admitted", ctx |-> n, queued |-> TRUE]]
                /\ micro' = Append(micro, r)
                /\ UNCHANGED <<listeners, attached>>
           ELSE /\ regs' = [regs EXCEPT ![r] =
                              [state |-> "pending", ctx |-> n, queued |-> TRUE]]
                /\ IF c = None THEN UNCHANGED <<listeners, attached>>
                               ELSE Listen(c, RegListener(r))
                /\ UNCHANGED micro
    /\ UNCHANGED <<treeVars, err, cause, timerAt, stack, now>>

\* Mutant of StopReg: a callback that was admitted is reported as stopped.
StopRegAdmitted(r) ==
    /\ UserCode
    /\ regs[r].state \in {"pending", "admitted"} /\ regs[r].queued
    /\ regs' = [regs EXCEPT ![r].state = "stopped"]
    /\ attached' = attached \ {RegListener(r)}
    /\ UNCHANGED <<treeVars, err, cause, timerAt, listeners, stack, micro, now>>

\* The StopFunc of an afterFunc: only a pending registration is stopped.
StopReg(r) ==
    /\ UserCode
    /\ regs[r].state = "pending" /\ regs[r].queued
    /\ regs' = [regs EXCEPT ![r].state = "stopped"]
    /\ attached' = attached \ {RegListener(r)}
    /\ UNCHANGED <<treeVars, err, cause, timerAt, listeners, stack, micro, now>>

\* The microtask queue runs one admitted callback.
RunMicrotask ==
    /\ stack = <<>> /\ micro # <<>>
    /\ regs' = [regs EXCEPT ![Head(micro)].state = "ran"]
    /\ micro' = Tail(micro)
    /\ UNCHANGED <<treeVars, err, cause, timerAt, listeners, attached, stack, now>>

Tick ==
    /\ now < MaxTime
    /\ now' = now + 1
    /\ UNCHANGED <<treeVars, err, cause, timerAt, listeners, attached, regs, stack, micro>>

-----------------------------------------------------------------------------
Init ==
    /\ next = 0
    /\ kind = [n \in Node |-> "unborn"]
    /\ parent = [n \in Node |-> Background]
    /\ done = [n \in Node |-> None]
    /\ deadline = [n \in Node |-> None]
    /\ err = [n \in Node |-> NoErr]
    /\ cause = [n \in Node |-> NoErr]
    /\ dcause = [n \in Node |-> DeadlineExceeded]
    /\ timerAt = [n \in Node |-> None]
    /\ listeners = [n \in Node |-> <<>>]
    /\ attached = {}
    /\ regs = [r \in Reg |-> [state |-> "unused", ctx |-> None, queued |-> FALSE]]
    /\ stack = <<>>
    /\ micro = <<>>
    /\ now = 0

\* What application code may do whenever it runs.
User ==
    \/ \E p \in 0 .. next :
          \/ WithCancel(p)
          \/ \E d \in Time, c \in Causes \cup {DeadlineExceeded}, armed \in BOOLEAN :
                WithDeadline(p, d, c, armed)
          \/ WithValue(p)
          \/ WithoutCancel(p)
    \/ \E n \in Node, c \in Causes \cup {Canceled} : CallCancel(n, c)
    \/ \E r \in Reg, n \in Node : AddListener(r, n) \/ AfterFunc(r, n)
    \/ \E r \in Reg : StopReg(r)

\* What the runtime does on its own once it has been started.
Runtime ==
    \/ RunTask \/ CallListener \/ ListenerReturns \/ FinishDispatch
    \/ RunCleanup \/ CancelReturns \/ RunMicrotask
    \/ \E n \in Node : WakeTimer(n)

Next == User \/ Runtime \/ Tick

\* The event loop never abandons running code, a due timer or a queued
\* microtask, and time passes; user code need do nothing.
Fairness == WF_vars(Runtime) /\ WF_vars(Tick)

Spec == Init /\ [][Next]_vars /\ Fairness

-----------------------------------------------------------------------------
(* Properties. *)

WaveIndex == 1 .. Len(stack)
InSeq(x, s) == \E i \in 1 .. Len(s) : s[i] = x

\* Every variable keeps the shape the constructors in packages/context/src give it.
TypeOK ==
    /\ next \in 0 .. MaxNode
    /\ kind \in [Node -> Kind]
    /\ parent \in [Node -> 0 .. MaxNode]
    /\ done \in [Node -> Node \cup {None}]
    /\ deadline \in [Node -> Time \cup {None}]
    /\ err \in [Node -> Err \cup {NoErr}]
    /\ cause \in [Node -> Cause \cup {NoErr}]
    /\ dcause \in [Node -> Causes \cup {DeadlineExceeded}]
    /\ timerAt \in [Node -> Time \cup {None}]
    /\ listeners \in [Node -> Seq(Listener)]
    /\ attached \in SUBSET Listener
    /\ regs \in [Reg -> [state : RegState, ctx : Node \cup {None}, queued : BOOLEAN]]
    /\ stack \in Seq(Wave)
    /\ micro \in Seq(Reg)
    /\ now \in Time

\* The cancel node whose signal n listens to, or None.
Carrier(n) == DoneOf(parent[n])

\* The event dispatch in progress on c's signal has yet to call listener l.
ToBeCalled(c, l) ==
    /\ l \in attached
    /\ \E i \in WaveIndex : stack[i].disp = c /\ InSeq(l, stack[i].rest)

\* A cancel node whose parent is terminal is terminal too, or its cancellation is
\* still owed by a wave that is running: its listener is yet to be called by the
\* dispatch on the parent's signal, or its task waits in some wave
\* (enqueueParentCancellation, drainCancellationWave).  No re-entrant cancel, no
\* derivation inside a listener and no late timer makes a child miss it.
PropagationOwed ==
    \A n \in 1 .. next :
        (CancelNode(n) /\ ~Settled(n) /\ Carrier(n) # None /\ Settled(Carrier(n)))
        => \/ ToBeCalled(Carrier(n), ChildListener(n))
           \/ \E i \in WaveIndex : InSeq(n, stack[i].tasks)

\* The cancel nodes above n on its chain of signals.
Ancestors(n) ==
    LET above[k \in 0 .. MaxNode] ==
            IF k = 0 \/ Carrier(k) = None THEN {}
            ELSE {Carrier(k)} \cup (IF Carrier(k) < k THEN above[Carrier(k)] ELSE {})
    IN  above[n]

Drained(w) == w.disp = None /\ w.tasks = <<>> /\ w.cleanups = <<>>

\* A CancelFunc called outside every abort listener returns only after all
\* descendants of its context have settled, whatever its listeners did.
OutermostCancelSettlesAll ==
    (Len(stack) = 1 /\ Drained(stack[1]))
    => \A n \in 1 .. next :
          (CancelNode(n) /\ stack[1].caller \in Ancestors(n)) => Settled(n)

\* The same for every CancelFunc, as the comment on handle.cancel in cancel.ts
\* says: "this CancelFunc returns only after its descendants settle".
CancelSettlesAll ==
    (stack # <<>> /\ Drained(Top))
    => \A n \in 1 .. next :
          (CancelNode(n) /\ Top.caller \in Ancestors(n)) => Settled(n)

\* The first cancellation wins: err() and cause() of a context never change again,
\* whatever explicit, inherited or timed cancellation races with it.
FirstCauseWins ==
    [][\A n \in Node : Settled(n) => err'[n] = err[n] /\ cause'[n] = cause[n]]_vars

\* A context says deadlineExceeded only when its own deadline has passed, and then
\* reports its own deadline cause; any other error with a foreign cause is exactly
\* the error and cause of the signal it derives from (readParentFailure).
CauseProvenance ==
    \A n \in Node : Settled(n) =>
        \/ err[n] = Canceled /\ cause[n] \in Causes \cup {Canceled}
        \/ /\ err[n] = DeadlineExceeded /\ kind[n] = "timer"
           /\ deadline[n] <= now /\ cause[n] = dcause[n]
        \/ /\ Carrier(n) # None
           /\ err[n] = err[Carrier(n)] /\ cause[n] = cause[Carrier(n)]

\* A terminal context holds no timer and no listener on its parent, except while
\* its wave still owes the cleanup (settle pushes the frame, drainCancellationWave
\* runs it): cancelling early never leaks a timer or a parent listener.
CleanupOwed ==
    \A n \in Node :
        (Settled(n) /\ (timerAt[n] # None \/ ChildListener(n) \in attached))
        => \E i \in WaveIndex : stack[i].disp = n \/ InSeq(n, stack[i].cleanups)

\* No derivation extends a deadline: below a context with a deadline every context
\* that is not behind withoutCancel expires no later (newTimedContext).
DeadlineNeverExtended ==
    \A n \in 1 .. next :
        (kind[n] # "withoutCancel" /\ DeadlineOf(parent[n]) # None)
        => deadline[n] # None /\ deadline[n] <= DeadlineOf(parent[n])

\* Each afterFunc callback is queued exactly once between admission and its run, a
\* stopped one is never queued, and a pending one on a terminal context is still to
\* be reached by the dispatch that will admit it: StopFunc's answer is final.
AfterFuncOnce ==
    \A r \in Reg :
        /\ regs[r].state = "admitted" <=> InSeq(r, micro)
        /\ \A i, j \in 1 .. Len(micro) : micro[i] = r /\ micro[j] = r => i = j
        /\ (regs[r].state = "pending" /\ done[regs[r].ctx] # None
                /\ Settled(done[regs[r].ctx]))
           => ToBeCalled(done[regs[r].ctx], RegListener(r))

\* Every afterFunc on a context that becomes terminal runs, unless it was stopped.
AfterFuncRuns ==
    \A r \in Reg :
        (/\ regs[r].state \in {"pending", "admitted"}
         /\ done[regs[r].ctx] # None /\ Settled(done[regs[r].ctx]))
        ~> regs[r].state \in {"stopped", "ran"}

\* Once the deadline a context reports has passed, the context becomes terminal,
\* even when the delay needed several timer segments or the deadline is inherited.
DeadlineEnforced ==
    \A n \in Node :
        (CancelNode(n) /\ deadline[n] # None /\ deadline[n] <= now) ~> Settled(n)
============================================================================
