--------------------------- MODULE ContextProofs ---------------------------
(***************************************************************************)
(* Proofs about Context, for any number of contexts, listeners and ticks   *)
(* and any nesting of cancellation waves.  TypeOK alone is not inductive:  *)
(* a wave reads the cause of the parent's signal for every task it takes,  *)
(* so every child in a task queue or in a list of listeners must have a    *)
(* parent with a signal (Wired), and a context that does not exist yet     *)
(* must have no error and no timer (Shape).                                *)
(*                                                                         *)
(* What a cancellation owes is the second half, IInv: the actions are      *)
(* reduced to a few effects first (Effect), and each part of the invariant *)
(* is then kept by every effect, whichever action had it.                  *)
(***************************************************************************)
EXTENDS Context, WellFoundedInduction, TLAPS

\* The contexts whose parent has a signal to listen to.
Linked == {n \in 1 .. next : parent[n] \in 1 .. next /\ done[parent[n]] \in Node}

LinkedListener == {l \in Listener : l.on = "child" => l.id \in Linked}

LinkedWave == [caller : Node, tasks : Seq(Linked), cleanups : Seq(Node),
               disp : Node \cup {None}, rest : Seq(LinkedListener), inUser : BOOLEAN]

\* Listeners and waves hold linked children only.
Wired ==
    /\ listeners \in [Node -> Seq(LinkedListener)]
    /\ stack \in Seq(LinkedWave)

\* The other variables, and what is true of contexts not derived yet.
Shape ==
    /\ next \in 0 .. MaxNode
    /\ kind \in [Node -> Kind]
    /\ parent \in [Node -> 0 .. MaxNode]
    /\ done \in [Node -> Node \cup {None}]
    /\ deadline \in [Node -> Time \cup {None}]
    /\ err \in [Node -> Err \cup {NoErr}]
    /\ cause \in [Node -> Cause \cup {NoErr}]
    /\ dcause \in [Node -> Causes \cup {DeadlineExceeded}]
    /\ timerAt \in [Node -> Time \cup {None}]
    /\ attached \in SUBSET Listener
    /\ regs \in [Reg -> [state : RegState, ctx : Node \cup {None}, queued : BOOLEAN]]
    /\ micro \in Seq(Reg)
    /\ now \in Time
    /\ \A n \in 1 .. next : parent[n] < n
    /\ \A n \in Node : n > next => err[n] = NoErr /\ timerAt[n] = None

Types == Shape /\ Wired

-----------------------------------------------------------------------------
(* Sequences and waves. *)

\* What the operators on a sequence return.
LEMMA SeqFacts ==
    ASSUME NEW S, NEW s \in Seq(S)
    PROVE  /\ \A x \in S : Append(s, x) \in Seq(S)
           /\ s # <<>> => /\ s[Len(s)] \in S /\ Head(s) \in S /\ Tail(s) \in Seq(S)
                          /\ SubSeq(s, 1, Len(s) - 1) \in Seq(S)
                          /\ \A x \in S : [s EXCEPT ![Len(s)] = x] \in Seq(S)
  OBVIOUS

\* A sequence over a set is one over a larger set.
LEMMA SeqMono ==
    ASSUME NEW S, NEW T, S \subseteq T
    PROVE  Seq(S) \subseteq Seq(T)
  OBVIOUS

\* runCancellationWave adds a wave to the stack.
LEMMA PushWave ==
    ASSUME Wired, NEW n \in Node
    PROVE  Append(stack, NewWave(n)) \in Seq(LinkedWave)
  <1>1. NewWave(n) \in LinkedWave
    BY DEF Wired, NewWave, LinkedWave
  <1> QED
    BY <1>1, SeqFacts DEF Wired

\* The innermost wave is read, replaced and removed.
LEMMA TopWave ==
    ASSUME Wired, stack # <<>>
    PROVE  /\ Top \in LinkedWave
           /\ Pop(stack) \in Seq(LinkedWave)
           /\ \A w \in LinkedWave : [stack EXCEPT ![Len(stack)] = w] \in Seq(LinkedWave)
  BY SeqFacts DEF Wired, Top, Pop

\* A step that leaves the tree alone keeps the listeners and waves linked.
LEMMA WiredFrame ==
    ASSUME Wired, UNCHANGED treeVars, listeners' \in [Node -> Seq(LinkedListener)],
           stack' \in Seq(LinkedWave)
    PROVE  Wired'
  BY DEF Wired, Linked, LinkedListener, LinkedWave, treeVars

-----------------------------------------------------------------------------
(* Recording an error. *)

\* Errors and causes change at most at m, which had none before.
RecordsAt(m) ==
    \/ UNCHANGED <<err, cause>>
    \/ /\ err[m] = NoErr
       /\ \E e \in Err, c \in Cause \cup {NoErr} :
             err' = [err EXCEPT ![m] = e] /\ cause' = [cause EXCEPT ![m] = c]

\* Recording the error of a context that exists keeps the types of both.
LEMMA RecordTypes ==
    ASSUME Shape, next' \in Nat, NEW m \in Node, m <= next', next <= next', RecordsAt(m)
    PROVE  /\ err' \in [Node -> Err \cup {NoErr}]
           /\ cause' \in [Node -> Cause \cup {NoErr}]
           /\ \A n \in Node : n > next' => err'[n] = NoErr
  <1> USE BoundsAssumption
  <1>1. CASE UNCHANGED <<err, cause>>
    BY <1>1 DEF Shape, Node
  <1>2. ASSUME NEW e \in Err, NEW c \in Cause \cup {NoErr},
               err' = [err EXCEPT ![m] = e], cause' = [cause EXCEPT ![m] = c]
        PROVE  /\ err' \in [Node -> Err \cup {NoErr}]
               /\ cause' \in [Node -> Cause \cup {NoErr}]
               /\ \A n \in Node : n > next' => err'[n] = NoErr
    <2>1. err' \in [Node -> Err \cup {NoErr}] /\ cause' \in [Node -> Cause \cup {NoErr}]
      BY <1>2 DEF Shape
    <2>2. ASSUME NEW n \in Node, n > next' PROVE err'[n] = NoErr
      <3>1. n # m /\ n > next
        BY <2>2 DEF Node, Shape
      <3> QED
        BY <1>2, <3>1 DEF Shape
    <2> QED
      BY <2>1, <2>2
  <1> QED
    BY <1>1, <1>2 DEF RecordsAt

\* readParentFailure returns an error, and a cause when the parent has a signal.
LEMMA FailureTypes ==
    ASSUME Shape, NEW p, p \in 1 .. next, done[p] \in Node
    PROVE  FailureErr(p) \in Err /\ FailureCause(p) \in Cause \cup {NoErr}
  BY DEF FailureErr, FailureCause, Err, Shape

-----------------------------------------------------------------------------
(* Deriving. *)

\* The part of a derivation all constructors share.
LEMMA DeriveTypes ==
    ASSUME Types, NEW n, NEW k \in Kind, NEW p \in 0 .. next, NEW d \in Node \cup {None},
           NEW dl \in Time \cup {None}, Derive(n, k, p, d, dl)
    PROVE  /\ n = next + 1 /\ n \in Node /\ next' = n /\ next' \in 0 .. MaxNode
           /\ kind' \in [Node -> Kind] /\ parent' \in [Node -> 0 .. MaxNode]
           /\ done' \in [Node -> Node \cup {None}]
           /\ deadline' \in [Node -> Time \cup {None}]
           /\ \A m \in 1 .. next' : parent'[m] < m
           /\ err[n] = NoErr /\ timerAt[n] = None
           /\ Linked \subseteq Linked'
           /\ (p # Background /\ done[p] \in Node) => n \in Linked'
  <1> USE BoundsAssumption
  <1>1. /\ n = next + 1 /\ n \in Node /\ next' = n /\ next' \in 0 .. MaxNode
        /\ err[n] = NoErr /\ timerAt[n] = None
    BY DEF Derive, Types, Shape, Node
  <1>2. /\ kind' \in [Node -> Kind] /\ parent' \in [Node -> 0 .. MaxNode]
        /\ done' \in [Node -> Node \cup {None}]
        /\ deadline' \in [Node -> Time \cup {None}]
    BY <1>1 DEF Derive, Types, Shape
  <1>3. \A m \in 1 .. next : parent'[m] = parent[m] /\ done'[m] = done[m]
    BY <1>1 DEF Derive, Types, Shape, Node
  <1>4. parent'[n] = p
    BY <1>1 DEF Derive, Types, Shape
  <1>5. \A m \in 1 .. next' : parent'[m] < m
    BY <1>1, <1>3, <1>4 DEF Types, Shape
  <1>6. Linked \subseteq Linked'
    BY <1>1, <1>3 DEF Linked, Types, Shape
  <1>7. (p # Background /\ done[p] \in Node) => n \in Linked'
    BY <1>1, <1>3, <1>4 DEF Linked, Background, Types, Shape
  <1> QED
    BY <1>1, <1>2, <1>5, <1>6, <1>7

\* Deriving keeps what is wired wired.
LEMMA WiredGrows ==
    ASSUME Wired, Linked \subseteq Linked'
    PROVE  /\ listeners \in [Node -> Seq(LinkedListener')]
           /\ stack \in Seq(LinkedWave')
           /\ LinkedListener \subseteq LinkedListener'
  <1>1. LinkedListener \subseteq LinkedListener'
    BY DEF LinkedListener
  <1>2. Seq(LinkedListener) \subseteq Seq(LinkedListener') /\ Seq(Linked) \subseteq Seq(Linked')
    BY <1>1, SeqMono
  <1>3. LinkedWave \subseteq LinkedWave'
    BY <1>2 DEF LinkedWave
  <1> QED
    BY <1>1, <1>2, <1>3, SeqMono DEF Wired

\* The registration with the parent: the new context inherits its error or listens.
LEMMA InheritTypes ==
    ASSUME Types, NEW n \in Node, NEW p \in 0 .. next, err[n] = NoErr, Linked \subseteq Linked',
           (p # Background /\ done[p] \in Node) => n \in Linked', InheritOrListen(n, p)
    PROVE  /\ RecordsAt(n)
           /\ listeners' \in [Node -> Seq(LinkedListener')]
           /\ attached' \in SUBSET Listener
  <1> DEFINE c == DoneOf(p)
  <1>0. listeners \in [Node -> Seq(LinkedListener')] /\ attached \in SUBSET Listener
    BY WiredGrows DEF Types, Shape
  <1>1. c # None => p # Background /\ p \in 1 .. next /\ c = done[p] /\ c \in Node
    BY BoundsAssumption DEF DoneOf, Types, Shape, Node, Background
  <1>2. CASE c # None /\ Settled(c)
    <2>1. FailureErr(p) \in Err /\ FailureCause(p) \in Cause \cup {NoErr}
      BY <1>1, <1>2, FailureTypes DEF Types
    <2> QED
      BY <1>0, <1>2, <2>1 DEF InheritOrListen, RecordsAt
  <1>3. CASE ~(c # None /\ Settled(c))
    <2>1. UNCHANGED <<err, cause>>
      BY <1>3 DEF InheritOrListen
    <2>2. CASE c = None
      BY <1>0, <1>3, <2>1, <2>2 DEF InheritOrListen, RecordsAt
    <2>3. CASE c # None
      <3>1. ChildListener(n) \in Listener /\ ChildListener(n) \in LinkedListener'
        BY <1>1, <2>3 DEF ChildListener, Listener, LinkedListener
      <3>2. Listen(c, ChildListener(n))
        BY <1>3, <2>3 DEF InheritOrListen
      <3>3. Append(listeners[c], ChildListener(n)) \in Seq(LinkedListener')
        BY <1>0, <1>1, <2>3, <3>1, SeqFacts
      <3> QED
        BY <1>0, <1>1, <2>1, <2>3, <3>1, <3>2, <3>3 DEF Listen, RecordsAt
    <2> QED
      BY <2>2, <2>3
  <1> QED
    BY <1>2, <1>3

\* A constructor keeps the types when what it records, arms and listens to is typed.
LEMMA ConstructorTypes ==
    ASSUME Types, NEW k \in Kind, NEW p \in 0 .. next, NEW d \in Node \cup {None},
           NEW dl \in Time \cup {None}, Derive(next + 1, k, p, d, dl),
           RecordsAt(next + 1), listeners' \in [Node -> Seq(LinkedListener')],
           attached' \in SUBSET Listener,
           dcause' \in [Node -> Causes \cup {DeadlineExceeded}],
           timerAt' \in [Node -> Time \cup {None}],
           \A m \in Node : m # next + 1 => timerAt'[m] = timerAt[m],
           UNCHANGED <<regs, stack, micro, now>>
    PROVE  Types'
  <1> DEFINE n == next + 1
  <1>2. /\ n \in Node /\ next' = n /\ next' \in 0 .. MaxNode
        /\ kind' \in [Node -> Kind] /\ parent' \in [Node -> 0 .. MaxNode]
        /\ done' \in [Node -> Node \cup {None}] /\ deadline' \in [Node -> Time \cup {None}]
        /\ \A m \in 1 .. next' : parent'[m] < m
        /\ Linked \subseteq Linked'
    BY DeriveTypes
  <1>4. /\ err' \in [Node -> Err \cup {NoErr}] /\ cause' \in [Node -> Cause \cup {NoErr}]
        /\ \A m \in Node : m > next' => err'[m] = NoErr
    <2>1. n <= next' /\ next <= next' /\ next' \in Nat /\ Shape
      BY <1>2 DEF Types, Shape
    <2> QED
      BY <1>2, <2>1, RecordTypes
  <1>5. \A m \in Node : m > next' => timerAt'[m] = None
    BY <1>2 DEF Types, Shape, Node
  <1>6. Shape'
    BY <1>2, <1>4, <1>5 DEF Types, Shape
  <1>7. stack' \in Seq(LinkedWave')
    BY <1>2, WiredGrows DEF Types
  <1> QED
    BY <1>6, <1>7 DEF Types, Wired

\* newCancelContext: withCancel, withCancelCause, and a deadline the parent precedes.
LEMMA CancelContextTypes ==
    ASSUME Types, NEW p \in 0 .. next,
           Derive(next + 1, "cancel", p, next + 1, DeadlineOf(p)),
           InheritOrListen(next + 1, p), UNCHANGED <<dcause, timerAt, regs, stack, micro, now>>
    PROVE  Types' /\ RecordsAt(next + 1)
  <1>1. DeadlineOf(p) \in Time \cup {None} /\ "cancel" \in Kind /\ next + 1 \in Node
    BY BoundsAssumption DEF DeadlineOf, Types, Shape, Node, Background, Kind, Derive
  <1>2. /\ err[next + 1] = NoErr /\ Linked \subseteq Linked'
        /\ (p # Background /\ done[p] \in Node) => next + 1 \in Linked'
    BY <1>1, DeriveTypes
  <1>3. /\ RecordsAt(next + 1) /\ attached' \in SUBSET Listener
        /\ listeners' \in [Node -> Seq(LinkedListener')]
    BY <1>1, <1>2, InheritTypes
  <1>4. /\ dcause' \in [Node -> Causes \cup {DeadlineExceeded}]
        /\ timerAt' \in [Node -> Time \cup {None}] /\ timerAt' = timerAt
    BY DEF Types, Shape
  <1> QED
    BY <1>1, <1>3, <1>4, ConstructorTypes

\* withDeadline and its relatives, for any requested deadline and failing host timers.
LEMMA WithDeadlineTypes ==
    ASSUME Types, NEW p \in 0 .. next, NEW d \in Time, NEW c \in Causes \cup {DeadlineExceeded},
           NEW armed \in BOOLEAN, WithDeadline(p, d, c, armed)
    PROVE  Types' /\ RecordsAt(next + 1)
  <1>1. CASE ParentExpiresFirst(p, d)
    BY <1>1, CancelContextTypes DEF WithDeadline
  <1>2. CASE ~ParentExpiresFirst(p, d)
    <2> DEFINE n == next + 1
               k == IF armed THEN "timer" ELSE "abandoned"
               quiet == /\ err' = [err EXCEPT ![n] = IF armed THEN DeadlineExceeded ELSE Canceled]
                        /\ cause' = [cause EXCEPT ![n] = IF armed THEN c ELSE Canceled]
                        /\ UNCHANGED <<listeners, attached, timerAt>>
    <2>1. /\ Derive(n, k, p, n, d) /\ dcause' = [dcause EXCEPT ![n] = c]
          /\ \/ quiet
             \/ InheritOrListen(n, p) /\ UNCHANGED timerAt
             \/ /\ InheritOrListen(n, p) /\ d > now
                /\ timerAt' = [timerAt EXCEPT ![n] = NextSegment(d)]
          /\ UNCHANGED <<regs, stack, micro, now>>
      BY <1>2 DEF WithDeadline, Types, Shape, Time
    <2>2. k \in Kind /\ n \in Node
      BY <2>1, BoundsAssumption DEF Derive, Types, Shape, Node, Kind
    <2>3. /\ err[n] = NoErr /\ Linked \subseteq Linked'
          /\ (p # Background /\ done[p] \in Node) => n \in Linked'
      BY <2>1, <2>2, DeriveTypes
    <2>4. dcause' \in [Node -> Causes \cup {DeadlineExceeded}]
      BY <2>1, <2>2 DEF Types, Shape
    <2>5. /\ timerAt' \in [Node -> Time \cup {None}]
          /\ \A m \in Node : m # n => timerAt'[m] = timerAt[m]
      <3>1. d > now => NextSegment(d) \in Time
        BY BoundsAssumption DEF NextSegment, Time, Types, Shape
      <3> QED
        BY <2>1, <2>2, <3>1 DEF Types, Shape
    <2>6. /\ RecordsAt(n) /\ attached' \in SUBSET Listener
          /\ listeners' \in [Node -> Seq(LinkedListener')]
      <3>1. CASE InheritOrListen(n, p)
        BY <3>1, <2>2, <2>3, InheritTypes
      <3>2. CASE quiet
        <4>1. /\ (IF armed THEN DeadlineExceeded ELSE Canceled) \in Err
              /\ (IF armed THEN c ELSE Canceled) \in Cause
          BY DEF Err, Cause
        <4>2. RecordsAt(n)
          BY <3>2, <4>1, <2>3 DEF RecordsAt
        <4> QED
          BY <3>2, <4>2, <2>3, WiredGrows DEF Types, Shape
      <3> QED
        BY <2>1, <3>1, <3>2
    <2> QED
      BY <2>1, <2>2, <2>4, <2>5, <2>6, ConstructorTypes
  <1> QED
    BY <1>1, <1>2

\* withValue and withoutCancel record nothing.
LEMMA PlainContextTypes ==
    ASSUME Types, NEW p \in 0 .. next, WithValue(p) \/ WithoutCancel(p)
    PROVE  Types' /\ RecordsAt(next + 1)
  <1>1. /\ DeadlineOf(p) \in Time \cup {None} /\ DoneOf(p) \in Node \cup {None}
        /\ {"value", "withoutCancel"} \subseteq Kind
    BY BoundsAssumption DEF DeadlineOf, DoneOf, Types, Shape, Node, Background, Kind
  <1>2. PICK k \in Kind, d \in Node \cup {None}, dl \in Time \cup {None} :
           Derive(next + 1, k, p, d, dl)
    BY <1>1 DEF WithValue, WithoutCancel
  <1>3. UNCHANGED <<err, cause, dcause, timerAt, listeners, attached, regs, stack, micro, now>>
    BY DEF WithValue, WithoutCancel
  <1>4. Linked \subseteq Linked'
    BY <1>2, DeriveTypes
  <1>5. listeners' \in [Node -> Seq(LinkedListener')]
    BY <1>3, <1>4, WiredGrows DEF Types
  <1>6. RecordsAt(next + 1) /\ attached' \in SUBSET Listener
        /\ dcause' \in [Node -> Causes \cup {DeadlineExceeded}]
        /\ timerAt' \in [Node -> Time \cup {None}] /\ timerAt' = timerAt
    BY <1>3 DEF RecordsAt, Types, Shape
  <1> QED
    BY <1>2, <1>3, <1>5, <1>6, ConstructorTypes

-----------------------------------------------------------------------------
(* Cancelling and observing: the tree stays as it is. *)

\* A step that leaves the tree alone keeps the types, part by part.
LEMMA FrameTypes ==
    ASSUME Types, UNCHANGED treeVars, NEW m \in 1 .. next, RecordsAt(m),
           timerAt' \in [Node -> Time \cup {None}],
           \A n \in Node : n > next => timerAt'[n] = None,
           attached' \in SUBSET Listener,
           regs' \in [Reg -> [state : RegState, ctx : Node \cup {None}, queued : BOOLEAN]],
           micro' \in Seq(Reg), now' \in Time,
           listeners' \in [Node -> Seq(LinkedListener)], stack' \in Seq(LinkedWave)
    PROVE  Types'
  <1>1. m \in Node /\ m <= next' /\ next <= next' /\ next' \in Nat /\ Shape /\ next' = next
    BY BoundsAssumption, SMTT(30) DEF Types, Shape, Node, treeVars
  <1>2. /\ err' \in [Node -> Err \cup {NoErr}] /\ cause' \in [Node -> Cause \cup {NoErr}]
        /\ \A n \in Node : n > next' => err'[n] = NoErr
    BY <1>1, RecordTypes
  <1>3. Shape'
    BY <1>1, <1>2 DEF Types, Shape, treeVars
  <1> QED
    BY <1>3, WiredFrame DEF Types

\* The same for a step that records no error.
LEMMA QuietTypes ==
    ASSUME Types, UNCHANGED <<treeVars, err, cause>>,
           timerAt' \in [Node -> Time \cup {None}],
           \A n \in Node : n > next => timerAt'[n] = None,
           attached' \in SUBSET Listener,
           regs' \in [Reg -> [state : RegState, ctx : Node \cup {None}, queued : BOOLEAN]],
           micro' \in Seq(Reg), now' \in Time,
           listeners' \in [Node -> Seq(LinkedListener)], stack' \in Seq(LinkedWave)
    PROVE  Types'
  <1>1. Shape'
    BY DEF Types, Shape, treeVars
  <1> QED
    BY <1>1, WiredFrame DEF Types

\* What a step that leaves a variable alone needs to know of it.
LEMMA Parts ==
    ASSUME Types
    PROVE  /\ timerAt \in [Node -> Time \cup {None}]
           /\ \A n \in Node : n > next => timerAt[n] = None
           /\ attached \in SUBSET Listener
           /\ regs \in [Reg -> [state : RegState, ctx : Node \cup {None}, queued : BOOLEAN]]
           /\ micro \in Seq(Reg) /\ now \in Time
           /\ listeners \in [Node -> Seq(LinkedListener)] /\ stack \in Seq(LinkedWave)
  BY DEF Types, Shape, Wired

\* handle.cancel of an existing context, by a CancelFunc or by its timer.
LEMMA CancelTypes ==
    ASSUME Types, NEW n \in 1 .. next, NEW e \in Err, NEW c \in Cause, Cancel(n, e, c),
           UNCHANGED <<treeVars, listeners, attached, regs, micro, now>>,
           timerAt' \in [Node -> Time \cup {None}],
           \A m \in Node : m > next => timerAt'[m] = None
    PROVE  Types' /\ RecordsAt(n)
  <1>1. n \in Node
    BY BoundsAssumption DEF Types, Shape, Node
  <1>2. RecordsAt(n)
    BY DEF Cancel, Record, Settled, RecordsAt
  <1>3. stack' \in Seq(LinkedWave)
    BY <1>1, PushWave DEF Cancel, Types
  <1> QED
    BY <1>2, <1>3, Parts, FrameTypes

\* The deadline timer of an existing context.
LEMMA WakeTimerTypes ==
    ASSUME Types, NEW n \in Node, WakeTimer(n)
    PROVE  Types' /\ RecordsAt(n)
  <1>1. /\ n \in 1 .. next /\ dcause[n] \in Cause /\ DeadlineExceeded \in Err
        /\ deadline[n] \in Time \cup {None} /\ now \in Time
    BY DEF WakeTimer, Types, Shape, Node, Cause, Err
  <1>2. CASE now < deadline[n]
    <2>1. NextSegment(deadline[n]) \in Time
      BY <1>1, <1>2, BoundsAssumption DEF NextSegment, Time, None
    <2>2. /\ timerAt' \in [Node -> Time \cup {None}]
          /\ \A m \in Node : m > next => timerAt'[m] = None
      BY <1>1, <1>2, <2>1, Parts DEF WakeTimer
    <2>3. UNCHANGED <<treeVars, err, cause, listeners, attached, regs, micro, now, stack>>
      BY <1>2 DEF WakeTimer
    <2> QED
      BY <2>2, <2>3, Parts, QuietTypes DEF RecordsAt
  <1>3. CASE ~(now < deadline[n])
    <2>1. /\ timerAt' \in [Node -> Time \cup {None}]
          /\ \A m \in Node : m > next => timerAt'[m] = None
      BY <1>3, Parts DEF WakeTimer
    <2> QED
      BY <1>1, <1>3, <2>1, CancelTypes DEF WakeTimer
  <1> QED
    BY <1>2, <1>3

\* drainCancellationWave takes a task: a linked child reads its parent's failure.
LEMMA RunTaskTypes ==
    ASSUME Types, RunTask
    PROVE  Types' /\ \E m \in 1 .. next : RecordsAt(m)
  <1> DEFINE n == Head(Top.tasks)
             w == [Top EXCEPT !.tasks = Tail(@)]
             v == [w EXCEPT !.disp = n, !.rest = listeners[n]]
  <1>1. Top \in LinkedWave /\ stack # <<>>
    BY TopWave DEF RunTask, Types
  <1>2. n \in Linked /\ Tail(Top.tasks) \in Seq(Linked)
    BY <1>1, SeqFacts DEF RunTask, LinkedWave
  <1>3. /\ n \in Node /\ n \in 1 .. next /\ listeners[n] \in Seq(LinkedListener)
        /\ parent[n] \in 1 .. next /\ done[parent[n]] \in Node
    <2>1. n \in 1 .. next /\ parent[n] \in 1 .. next /\ done[parent[n]] \in Node
      BY <1>2 DEF Linked
    <2>2. n \in Node
      BY <2>1, BoundsAssumption DEF Types, Shape, Node
    <2> QED
      BY <2>1, <2>2 DEF Types, Wired
  <1>4. w \in LinkedWave
    BY <1>1, <1>2 DEF LinkedWave
  <1>5. v \in LinkedWave
    BY <1>3, <1>4 DEF LinkedWave
  <1>6. FailureErr(parent[n]) \in Err /\ FailureCause(parent[n]) \in Cause \cup {NoErr}
    BY <1>3, FailureTypes DEF Types
  <1>7. RecordsAt(n)
    <2>1. CASE Settled(n)
      BY <2>1 DEF RunTask, RecordsAt
    <2>2. CASE ~Settled(n)
      BY <1>6, <2>2 DEF RunTask, Record, Settled, RecordsAt
    <2> QED
      BY <2>1, <2>2
  <1>8. stack' = [stack EXCEPT ![Len(stack)] = w] \/ stack' = [stack EXCEPT ![Len(stack)] = v]
    BY DEF RunTask
  <1>9. UNCHANGED <<treeVars, timerAt, listeners, attached, regs, micro, now>>
    BY DEF RunTask
  <1> HIDE DEF n, w, v
  <1>10. stack' \in Seq(LinkedWave)
    BY <1>1, <1>4, <1>5, <1>8, TopWave DEF Types
  <1>11. Types'
    BY <1>3, <1>7, <1>9, <1>10, Parts, FrameTypes
  <1> QED
    BY <1>3, <1>7, <1>11

\* The abort event reaches a listener: a child that is called is linked.
LEMMA CallListenerTypes ==
    ASSUME Types, CallListener
    PROVE  Types' /\ UNCHANGED <<err, cause>>
  <1> DEFINE l == Head(Top.rest)
             w == [Top EXCEPT !.rest = Tail(@)]
             v == [w EXCEPT !.tasks = Append(@, l.id)]
             u == [w EXCEPT !.inUser = TRUE]
  <1>1. Top \in LinkedWave /\ stack # <<>>
    BY TopWave DEF CallListener, Types
  <1>2. l \in LinkedListener /\ Tail(Top.rest) \in Seq(LinkedListener)
    BY <1>1, SeqFacts DEF CallListener, LinkedWave
  <1>3. w \in LinkedWave /\ u \in LinkedWave
    BY <1>1, <1>2 DEF LinkedWave
  <1>4. l.on = "child" => v \in LinkedWave
    BY <1>2, <1>3, SeqFacts DEF LinkedWave, LinkedListener
  <1>5. \/ stack' = [stack EXCEPT ![Len(stack)] = w]
        \/ stack' = [stack EXCEPT ![Len(stack)] = u]
        \/ l.on = "child" /\ stack' = [stack EXCEPT ![Len(stack)] = v]
    BY DEF CallListener
  <1>6. l.on # "child" => l.id \in Reg
    BY <1>2 DEF LinkedListener, Listener
  <1>7. /\ attached' \in SUBSET Listener
        /\ regs' \in [Reg -> [state : RegState, ctx : Node \cup {None}, queued : BOOLEAN]]
        /\ micro' \in Seq(Reg)
    <2>1. attached' \in SUBSET Listener
      BY Parts DEF CallListener
    <2>2. CASE UNCHANGED <<regs, micro>>
      BY <2>1, <2>2, Parts
    <2>3. CASE /\ l.on # "child" /\ regs' = [regs EXCEPT ![l.id].state = "admitted"]
               /\ micro' = Append(micro, l.id)
      <3>1. micro \in Seq(Reg)
        BY Parts
      <3>2. Append(micro, l.id) \in Seq(Reg)
        BY <1>6, <2>3, <3>1, SeqFacts
      <3> QED
        BY <1>6, <2>1, <2>3, <3>2, Parts DEF RegState
    <2>4. CASE l.on # "child" /\ regs' = [regs EXCEPT ![l.id].state = "ran"] /\ UNCHANGED micro
      BY <1>6, <2>1, <2>4, Parts DEF RegState
    <2>5. CASE l \notin attached \/ l.on = "child"
      BY <2>2, <2>5 DEF CallListener
    <2>6. CASE l \in attached /\ l.on # "child" /\ regs[l.id].queued
      BY <2>3, <2>6 DEF CallListener
    <2>7. CASE l \in attached /\ l.on # "child" /\ ~regs[l.id].queued
      BY <2>4, <2>7 DEF CallListener
    <2> QED
      BY <2>5, <2>6, <2>7
  <1>8. UNCHANGED <<treeVars, err, cause, timerAt, listeners, now>>
    BY DEF CallListener
  <1> HIDE DEF l, w, v, u
  <1>9. stack' \in Seq(LinkedWave)
    BY <1>1, <1>3, <1>4, <1>5, TopWave DEF Types
  <1> QED
    BY <1>7, <1>8, <1>9, Parts, QuietTypes

\* The other steps of a wave: a listener returns, a dispatch ends, cleanups run, the
\* CancelFunc returns.
LEMMA WaveTypes ==
    ASSUME Types, ListenerReturns \/ FinishDispatch \/ RunCleanup \/ CancelReturns
    PROVE  Types' /\ UNCHANGED <<err, cause>>
  <1>1. Top \in LinkedWave /\ stack # <<>>
    BY TopWave DEF Types, ListenerReturns, FinishDispatch, RunCleanup, CancelReturns
  <1>2. /\ UNCHANGED <<treeVars, err, cause, listeners, regs, micro, now>>
        /\ attached' \in SUBSET Listener
        /\ timerAt' \in [Node -> Time \cup {None}]
        /\ \A n \in Node : n > next => timerAt'[n] = None
    BY Parts DEF ListenerReturns, FinishDispatch, RunCleanup, CancelReturns
  <1>3. stack' \in Seq(LinkedWave)
    <2>1. CASE ListenerReturns
      <3> DEFINE w == [Top EXCEPT !.inUser = FALSE]
      <3>1. w \in LinkedWave /\ stack' = [stack EXCEPT ![Len(stack)] = w]
        BY <1>1, <2>1 DEF ListenerReturns, LinkedWave, Top
      <3> HIDE DEF w
      <3> QED
        BY <1>1, <3>1, TopWave DEF Types
    <2>2. CASE FinishDispatch
      <3> DEFINE w == [Top EXCEPT !.disp = None, !.cleanups = Append(@, Top.disp)]
      <3>1. Top.disp \in Node
        BY <1>1, <2>2 DEF FinishDispatch, LinkedWave
      <3>2. w \in LinkedWave
        BY <1>1, <3>1, SeqFacts DEF LinkedWave
      <3>3. stack' = [stack EXCEPT ![Len(stack)] = w]
        BY <2>2 DEF FinishDispatch
      <3> HIDE DEF w
      <3> QED
        BY <1>1, <3>2, <3>3, TopWave DEF Types
    <2>3. CASE RunCleanup
      <3> DEFINE w == [Top EXCEPT !.cleanups = Pop(@)]
      <3>0. Top.cleanups \in Seq(Node) /\ Top.cleanups # <<>>
        BY <1>1, <2>3 DEF RunCleanup, LinkedWave
      <3>3. Pop(Top.cleanups) \in Seq(Node)
        BY <3>0, SeqFacts DEF Pop
      <3>1. w \in LinkedWave
        BY <1>1, <3>3 DEF LinkedWave
      <3>2. stack' = [stack EXCEPT ![Len(stack)] = w]
        BY <2>3 DEF RunCleanup, Top
      <3> HIDE DEF w
      <3> QED
        BY <1>1, <3>1, <3>2, TopWave DEF Types
    <2>4. CASE CancelReturns
      BY <1>1, <2>4, TopWave DEF CancelReturns, Types
    <2> QED
      BY <2>1, <2>2, <2>3, <2>4
  <1> QED
    BY <1>2, <1>3, Parts, QuietTypes

\* Registrations, microtasks and the clock.
LEMMA ObserveTypes ==
    ASSUME Types,
           \/ \E r \in Reg : StopReg(r) \/ \E n \in Node : AddListener(r, n) \/ AfterFunc(r, n)
           \/ RunMicrotask \/ Tick
    PROVE  Types' /\ UNCHANGED <<err, cause>>
  <1>1. ASSUME NEW c \in Node, NEW r \in Reg, Listen(c, RegListener(r))
        PROVE  listeners' \in [Node -> Seq(LinkedListener)] /\ attached' \in SUBSET Listener
    <2>1. RegListener(r) \in LinkedListener /\ RegListener(r) \in Listener
      BY DEF RegListener, LinkedListener, Listener
    <2>2. Append(listeners[c], RegListener(r)) \in Seq(LinkedListener)
      BY <2>1, Parts, SeqFacts
    <2> QED
      BY <1>1, <2>1, <2>2, Parts DEF Listen
  <1>2. ASSUME NEW r \in Reg, NEW n \in Node, AddListener(r, n) PROVE Types'
    <2>1. regs' \in [Reg -> [state : RegState, ctx : Node \cup {None}, queued : BOOLEAN]]
      BY <1>2, Parts DEF AddListener, RegState
    <2> QED
      BY <1>1, <1>2, <2>1, Parts, QuietTypes DEF AddListener
  <1>3. ASSUME NEW r \in Reg, NEW n \in Node, AfterFunc(r, n) PROVE Types'
    <2>1. regs' \in [Reg -> [state : RegState, ctx : Node \cup {None}, queued : BOOLEAN]]
      <3>1. PICK st \in {"admitted", "pending"} :
               regs' = [regs EXCEPT ![r] = [state |-> st, ctx |-> n, queued |-> TRUE]]
        BY <1>3 DEF AfterFunc
      <3> QED
        BY <3>1, Parts DEF RegState
    <2>2. micro' \in Seq(Reg)
      <3>1. micro' = Append(micro, r) \/ micro' = micro
        BY <1>3 DEF AfterFunc
      <3>2. micro \in Seq(Reg)
        BY Parts
      <3>3. Append(micro, r) \in Seq(Reg)
        BY <3>2, SeqFacts
      <3> QED
        BY <3>1, <3>2, <3>3
    <2>3. done[n] \in Node \cup {None}
      BY DEF Types, Shape
    <2>4. listeners' \in [Node -> Seq(LinkedListener)] /\ attached' \in SUBSET Listener
      BY <1>1, <1>3, <2>3, Parts DEF AfterFunc
    <2>5. UNCHANGED <<treeVars, err, cause, timerAt, stack, now>>
      BY <1>3 DEF AfterFunc
    <2> QED
      BY <2>1, <2>2, <2>4, <2>5, Parts, QuietTypes
  <1>4. ASSUME NEW r \in Reg, StopReg(r) PROVE Types'
    <2>1. regs' \in [Reg -> [state : RegState, ctx : Node \cup {None}, queued : BOOLEAN]]
      BY <1>4, Parts DEF StopReg, RegState
    <2>2. attached' \in SUBSET Listener
      BY <1>4, Parts DEF StopReg
    <2> QED
      BY <1>4, <2>1, <2>2, Parts, QuietTypes DEF StopReg
  <1>5. CASE RunMicrotask
    <2>1. Head(micro) \in Reg /\ micro' \in Seq(Reg)
      BY <1>5, Parts, SeqFacts DEF RunMicrotask
    <2>2. regs' \in [Reg -> [state : RegState, ctx : Node \cup {None}, queued : BOOLEAN]]
      BY <1>5, <2>1, Parts DEF RunMicrotask, RegState
    <2> QED
      BY <1>5, <2>1, <2>2, Parts, QuietTypes DEF RunMicrotask
  <1>6. CASE Tick
    <2>1. now' \in Time
      BY <1>6, Parts, BoundsAssumption DEF Tick, Time
    <2> QED
      BY <1>6, <2>1, Parts, QuietTypes DEF Tick
  <1>7. UNCHANGED <<err, cause>>
    BY DEF StopReg, AddListener, AfterFunc, RunMicrotask, Tick
  <1> QED
    BY <1>2, <1>3, <1>4, <1>5, <1>6, <1>7

-----------------------------------------------------------------------------
(* The theorems. *)

\* A step records the error of one context that had none, and keeps the types.
LEMMA NextTypes ==
    ASSUME Types, [Next]_vars
    PROVE  Types' /\ \E m : RecordsAt(m)
  <1>1. ASSUME NEW p \in 0 .. next, WithCancel(p) PROVE Types' /\ RecordsAt(next + 1)
    BY <1>1, CancelContextTypes DEF WithCancel
  <1>2. ASSUME NEW n \in Node, NEW c \in Causes \cup {Canceled}, CallCancel(n, c)
        PROVE  Types' /\ RecordsAt(n)
    <2>1. n \in 1 .. next /\ Canceled \in Err /\ c \in Cause
      BY <1>2 DEF CallCancel, Born, Err, Cause
    <2> QED
      BY <1>2, <2>1, Parts, CancelTypes DEF CallCancel
  <1>3. ASSUME Types', UNCHANGED <<err, cause>> PROVE Types' /\ \E m : RecordsAt(m)
    BY <1>3 DEF RecordsAt
  <1>4. CASE UNCHANGED vars
    <2>1. UNCHANGED <<treeVars, err, cause, timerAt, listeners, attached, regs, stack, micro, now>>
      BY <1>4 DEF vars, treeVars
    <2> QED
      BY <1>3, <2>1, Parts, QuietTypes
  <1> QED
    BY <1>1, <1>2, <1>3, <1>4, WithDeadlineTypes, PlainContextTypes, WakeTimerTypes, RunTaskTypes,
       CallListenerTypes, WaveTypes, ObserveTypes
    DEF Next, User, Runtime

\* background() has no descendants at first.
LEMMA InitTypes == Init => Types
  <1> SUFFICES ASSUME Init PROVE Types
    OBVIOUS
  <1>1. Shape
    BY BoundsAssumption DEF Init, Shape, Kind, Err, RegState, Background, Node, Time
  <1>2. Wired
    BY DEF Init, Wired
  <1> QED
    BY <1>1, <1>2 DEF Types

\* Every variable keeps its type, for trees and waves of any size.
THEOREM TypeCorrect == Spec => []TypeOK
  <1>1. ASSUME Types PROVE TypeOK
    <2>1. Seq(LinkedListener) \subseteq Seq(Listener)
      BY SeqMono DEF LinkedListener
    <2>2. Seq(Linked) \subseteq Seq(Node)
      <3>1. Linked \subseteq Node
        BY <1>1, BoundsAssumption DEF Linked, Types, Shape, Node
      <3> QED
        BY <3>1, SeqMono
    <2>3. LinkedWave \subseteq Wave
      BY <2>1, <2>2 DEF LinkedWave, Wave
    <2>4. stack \in Seq(Wave) /\ listeners \in [Node -> Seq(Listener)]
      BY <1>1, <2>1, <2>3, SeqMono DEF Types, Wired
    <2> QED
      BY <1>1, <2>4 DEF Types, Shape, TypeOK
  <1> QED
    BY <1>1, InitTypes, NextTypes, PTL DEF Spec

\* The first cancellation of a context wins over every later one, explicit, inherited or
\* timed, from whatever wave or listener it comes.
THEOREM FirstCauseWinsTheorem == Spec => FirstCauseWins
  <1> DEFINE Kept == \A n \in Node : Settled(n) => err'[n] = err[n] /\ cause'[n] = cause[n]
  <1>1. ASSUME Types, [Next]_vars PROVE Kept
    <2>1. PICK m : RecordsAt(m)
      BY <1>1, NextTypes
    <2> QED
      BY <1>1, <2>1 DEF RecordsAt, Types, Shape, Settled
  <1>2. Types /\ [Next]_vars => [Kept]_vars
    BY <1>1
  <1> QED
    BY <1>2, InitTypes, NextTypes, PTL DEF Spec, FirstCauseWins

\* A derivation whose deadline does not exceed the parent's extends none.
LEMMA DeriveKeepsDeadlines ==
    ASSUME Types, DeadlineNeverExtended, NEW k \in Kind, NEW p \in 0 .. next,
           NEW d \in Node \cup {None}, NEW dl \in Time \cup {None},
           Derive(next + 1, k, p, d, dl),
           (k # "withoutCancel" /\ DeadlineOf(p) # None) => dl # None /\ dl <= DeadlineOf(p)
    PROVE  DeadlineNeverExtended'
  <1> USE BoundsAssumption
  <1>1. next + 1 \in Node /\ next' = next + 1
    BY DeriveTypes
  <1>2. \A m \in 1 .. next : /\ parent'[m] = parent[m] /\ kind'[m] = kind[m]
                             /\ deadline'[m] = deadline[m]
    BY <1>1 DEF Derive, Types, Shape, Node
  <1>3. /\ parent'[next + 1] = p /\ kind'[next + 1] = k /\ deadline'[next + 1] = dl
    BY <1>1 DEF Derive, Types, Shape
  <1>4. \A q \in 0 .. next : (IF q = Background THEN None ELSE deadline'[q]) = DeadlineOf(q)
    BY <1>2 DEF DeadlineOf, Background, Types, Shape
  <1>5. \A m \in 1 .. next : parent[m] \in 0 .. next
    BY DEF Types, Shape, Node
  <1>6. ASSUME NEW m \in 1 .. next', kind'[m] # "withoutCancel", (DeadlineOf(parent[m]))' # None
        PROVE  deadline'[m] # None /\ deadline'[m] <= (DeadlineOf(parent[m]))'
    <2>1. CASE m = next + 1
      <3>1. (DeadlineOf(parent[m]))' = DeadlineOf(p)
        BY <1>3, <1>4, <2>1 DEF DeadlineOf
      <3> QED
        BY <1>3, <1>6, <2>1, <3>1
    <2>2. CASE m \in 1 .. next
      <3>1. (DeadlineOf(parent[m]))' = DeadlineOf(parent[m])
        BY <1>2, <1>4, <1>5, <2>2 DEF DeadlineOf
      <3> QED
        BY <1>2, <1>6, <2>2, <3>1 DEF DeadlineNeverExtended
    <2> QED
      BY <1>1, <2>1, <2>2 DEF Types, Shape
  <1> QED
    BY <1>6 DEF DeadlineNeverExtended

\* No context outlives the deadline of the context it derives from, unless detached.
THEOREM DeadlineNeverExtendedTheorem == Spec => []DeadlineNeverExtended
  <1>1. Init => DeadlineNeverExtended
    BY DEF Init, DeadlineNeverExtended
  <1>2. ASSUME Types, DeadlineNeverExtended, [Next]_vars PROVE DeadlineNeverExtended'
    <2> USE BoundsAssumption
    <2>1. CASE UNCHANGED treeVars
      BY <1>2, <2>1 DEF DeadlineNeverExtended, DeadlineOf, treeVars
    <2>2. ASSUME NEW p \in 0 .. next PROVE DeadlineOf(p) \in Time \cup {None}
      BY <1>2 DEF DeadlineOf, Types, Shape, Node, Background
    <2>3. ASSUME NEW p \in 0 .. next, DeadlineOf(p) # None PROVE DeadlineOf(p) <= DeadlineOf(p)
      BY <2>2, <2>3 DEF Time
    <2>4. ASSUME NEW p \in 0 .. next, WithCancel(p) \/ WithValue(p) \/ WithoutCancel(p)
          PROVE  DeadlineNeverExtended'
      <3>1. /\ next + 1 \in Node /\ {"cancel", "value", "withoutCancel"} \subseteq Kind
            /\ DoneOf(p) \in Node \cup {None}
        BY <1>2, <2>4
        DEF WithCancel, WithValue, WithoutCancel, Derive, DoneOf, Types, Shape, Node, Background,
            Kind
      <3> QED
        BY <1>2, <2>2, <2>3, <2>4, <3>1, DeriveKeepsDeadlines
        DEF WithCancel, WithValue, WithoutCancel
    <2>5. ASSUME NEW p \in 0 .. next, NEW d \in Time, NEW c \in Causes \cup {DeadlineExceeded},
                 NEW armed \in BOOLEAN, WithDeadline(p, d, c, armed)
          PROVE  DeadlineNeverExtended'
      <3>1. next + 1 \in Node /\ {"cancel", "timer", "abandoned"} \subseteq Kind
        BY <1>2, <2>5 DEF WithDeadline, Derive, Types, Shape, Node, Kind
      <3>2. CASE ParentExpiresFirst(p, d)
        BY <1>2, <2>2, <2>3, <2>5, <3>1, <3>2, DeriveKeepsDeadlines DEF WithDeadline
      <3>3. CASE ~ParentExpiresFirst(p, d)
        <4>1. DeadlineOf(p) # None => d # None /\ d <= DeadlineOf(p)
          BY <2>2, <3>3 DEF ParentExpiresFirst, Time, None
        <4>2. PICK k \in Kind : Derive(next + 1, k, p, next + 1, d)
          BY <2>5, <3>1, <3>3 DEF WithDeadline
        <4> QED
          BY <1>2, <3>1, <4>1, <4>2, DeriveKeepsDeadlines
      <3> QED
        BY <3>2, <3>3
    <2>6. \/ UNCHANGED treeVars
          \/ \E p \in 0 .. next :
                \/ WithCancel(p) \/ WithValue(p) \/ WithoutCancel(p)
                \/ \E d \in Time, c \in Causes \cup {DeadlineExceeded}, armed \in BOOLEAN :
                      WithDeadline(p, d, c, armed)
      BY <1>2
      DEF Next, User, Runtime, CallCancel, AddListener, AfterFunc, StopReg, RunTask, CallListener,
          ListenerReturns, FinishDispatch, RunCleanup, CancelReturns, RunMicrotask, WakeTimer, Tick,
          vars, treeVars
    <2> QED
      BY <2>1, <2>4, <2>5, <2>6
  <1> QED
    BY <1>1, <1>2, InitTypes, NextTypes, PTL DEF Spec
-----------------------------------------------------------------------------
(***************************************************************************)
(* What is owed.  PropagationOwed and AfterFuncOnce are not inductive:     *)
(* that a dispatch reaches every listener (OwedInv) rests on which         *)
(* listeners a signal has (ListenInv), and that a child waits for its      *)
(* parent (ChildInv) and a registration for its context (RegInv) on what   *)
(* the waves hold (WaveInv).  OutermostCancelSettlesAll follows from       *)
(* PropagationOwed once the wave's caller is known to be terminal          *)
(* (CallerInv) and so is every signal no cancel node owns (SignalInv).     *)
(***************************************************************************)

\* The dispatch on c's signal has listener l in what it still has to call.
OwedCall(c, l) == \E i \in WaveIndex : stack[i].disp = c /\ InSeq(l, stack[i].rest)

\* The cancellation of n waits in a wave.
Tasked(n) == \E i \in WaveIndex : InSeq(n, stack[i].tasks)

\* A wave has yet to run the cleanups of n.
InCleanup(n) == \E i \in WaveIndex : stack[i].disp = n \/ InSeq(n, stack[i].cleanups)

\* A wave dispatches and cleans up terminal contexts, and cancels children of
\* terminal ones; what it still has to call are listeners of its dispatch.
GoodWave(w) ==
    /\ w.disp # None => Settled(w.disp)
    /\ \A n \in Node : InSeq(n, w.cleanups) => Settled(n)
    /\ \A n \in Linked : InSeq(n, w.tasks) => Settled(Carrier(n))
    /\ \A l \in Listener : InSeq(l, w.rest) => w.disp # None /\ InSeq(l, listeners[w.disp])

WaveInv == \A i \in WaveIndex : GoodWave(stack[i])

\* A signal has the listeners of existing children and of used registrations.
ListenInv ==
    \A c \in Node :
        /\ \A n \in Node : InSeq(ChildListener(n), listeners[c]) => n <= next /\ Carrier(n) = c
        /\ \A r \in Reg : InSeq(RegListener(r), listeners[c]) => regs[r].state # "unused"
        /\ c > next => \A l \in Listener : ~InSeq(l, listeners[c])

\* A listener that a terminal signal still has is yet to be called.
OwedInv ==
    \A c \in Node, l \in Listener :
        l \in attached /\ InSeq(l, listeners[c]) /\ Settled(c) => OwedCall(c, l)

\* A live context below a signal listens to it, or its cancellation waits in a wave.
ChildInv ==
    /\ \A n \in Node : ChildListener(n) \in attached => n <= next
    /\ \A n \in 1 .. next :
         (CancelNode(n) /\ ~Settled(n) /\ Carrier(n) # None)
         => \/ ChildListener(n) \in attached /\ InSeq(ChildListener(n), listeners[Carrier(n)])
            \/ Tasked(n)

\* Only a deadline context has a timer; the signal of a context exists, and a cancel
\* node has its own.
NodeInv ==
    /\ \A n \in Node : timerAt[n] # None => kind[n] = "timer"
    /\ \A n \in 1 .. next : done[n] # None => done[n] \in 1 .. next
    /\ \A n \in 1 .. next : CancelNode(n) => done[n] = n

Distinct(s) == \A i, j \in 1 .. Len(s) : s[i] = s[j] => i = j

\* A registration listens exactly while it is pending on a context with a signal, and
\* is queued exactly while it is admitted.
RegOk(r) ==
    /\ regs[r].state # "unused" => regs[r].ctx \in 1 .. next
    /\ regs[r].state = "admitted" <=> InSeq(r, micro)
    /\ RegListener(r) \in attached => regs[r].state = "pending"
    /\ (regs[r].state = "pending" /\ done[regs[r].ctx] # None)
       => /\ RegListener(r) \in attached
          /\ InSeq(RegListener(r), listeners[done[regs[r].ctx]])

RegInv == Distinct(micro) /\ \A r \in Reg : RegOk(r)

\* A signal is that of a cancel node, or of a half-built context that was cancelled.
SignalInv ==
    \A n \in 1 .. next : done[n] # None => CancelNode(done[n]) \/ Settled(done[n])

\* The context a wave was entered for is terminal from its first step.
CallerInv == \A i \in WaveIndex : Settled(stack[i].caller)

IInv ==
    /\ Types /\ NodeInv /\ SignalInv /\ WaveInv /\ CallerInv
    /\ ListenInv /\ OwedInv /\ ChildInv /\ RegInv
    /\ CleanupOwed /\ CauseProvenance
-----------------------------------------------------------------------------
(* Membership in a sequence, and the stack. *)

\* What the operators on a sequence do to its members.
LEMMA Members ==
    ASSUME NEW S, NEW s \in Seq(S)
    PROVE  /\ \A x, y : InSeq(x, Append(s, y)) <=> InSeq(x, s) \/ x = y
           /\ \A x : InSeq(x, s) => x \in S
           /\ \A x : ~InSeq(x, <<>>)
           /\ s # <<>> =>
                /\ \A x : InSeq(x, s) <=> x = Head(s) \/ InSeq(x, Tail(s))
                /\ \A x : InSeq(x, s) <=> InSeq(x, Pop(s)) \/ x = s[Len(s)]
  <1>1. \A x, y : InSeq(x, Append(s, y)) <=> InSeq(x, s) \/ x = y
    <2> TAKE x, y
    <2>1. PICK t : t = Append(s, y)
      OBVIOUS
    <2>2. Len(t) = Len(s) + 1 /\ t[Len(s) + 1] = y /\ \A i \in 1 .. Len(s) : t[i] = s[i]
      BY <2>1
    <2>3. InSeq(x, t) <=> InSeq(x, s) \/ x = y
      BY <2>2 DEF InSeq
    <2> QED
      BY <2>1, <2>3
  <1>2. \A x : InSeq(x, s) => x \in S
    BY DEF InSeq
  <1>3. \A x : ~InSeq(x, <<>>)
    BY DEF InSeq
  <1>4. ASSUME s # <<>> PROVE \A x : InSeq(x, s) <=> x = Head(s) \/ InSeq(x, Tail(s))
    <2> TAKE x
    <2>1. PICK t : t = Tail(s)
      OBVIOUS
    <2>2. Len(t) = Len(s) - 1 /\ Len(s) > 0 /\ \A i \in 1 .. Len(t) : t[i] = s[i + 1]
      BY <1>4, <2>1
    <2>3. Head(s) = s[1]
      BY <1>4
    <2>4. ASSUME InSeq(x, s) PROVE x = Head(s) \/ InSeq(x, t)
      <3>1. PICK i \in 1 .. Len(s) : s[i] = x
        BY <2>4 DEF InSeq
      <3>2. i # 1 => i - 1 \in 1 .. Len(t) /\ t[i - 1] = x
        BY <2>2, <3>1
      <3> QED
        BY <2>3, <3>1, <3>2 DEF InSeq
    <2>5. x = Head(s) \/ InSeq(x, t) => InSeq(x, s)
      BY <2>2, <2>3 DEF InSeq
    <2> QED
      BY <2>1, <2>4, <2>5
  <1>5. ASSUME s # <<>> PROVE \A x : InSeq(x, s) <=> InSeq(x, Pop(s)) \/ x = s[Len(s)]
    <2> TAKE x
    <2>1. PICK t : t = Pop(s)
      OBVIOUS
    <2>2. Len(t) = Len(s) - 1 /\ Len(s) > 0 /\ \A i \in 1 .. Len(t) : t[i] = s[i]
      <3>1. Len(s) > 0 /\ Len(s) \in Nat
        BY <1>5
      <3>2. PICK n \in Nat : n = Len(s) - 1
        BY <3>1
      <3>3. t = SubSeq(s, 1, n)
        BY <2>1, <3>2 DEF Pop
      <3>4. Len(t) = n
        BY <3>1, <3>2, <3>3
      <3>5. Len(t) = n /\ \A i \in 1 .. n : t[i] = s[i]
        BY <3>1, <3>2, <3>3, <3>4
      <3> QED
        BY <3>1, <3>2, <3>5
    <2>3. InSeq(x, s) <=> InSeq(x, t) \/ x = s[Len(s)]
      BY <2>2 DEF InSeq
    <2> QED
      BY <2>1, <2>3
  <1> QED
    BY <1>1, <1>2, <1>3, <1>4, <1>5

\* The microtask queue holds no callback twice.
LEMMA DistinctFacts ==
    ASSUME NEW S, NEW s \in Seq(S), Distinct(s)
    PROVE  /\ \A x : ~InSeq(x, s) => Distinct(Append(s, x))
           /\ s # <<>> => Distinct(Tail(s)) /\ ~InSeq(Head(s), Tail(s))
  <1>1. ASSUME NEW x, ~InSeq(x, s) PROVE Distinct(Append(s, x))
    <2>1. PICK t : t = Append(s, x)
      OBVIOUS
    <2>2. Len(t) = Len(s) + 1 /\ t[Len(s) + 1] = x /\ \A i \in 1 .. Len(s) : t[i] = s[i]
      BY <2>1
    <2>3. Distinct(t)
      BY <1>1, <2>2 DEF Distinct, InSeq
    <2> QED
      BY <2>1, <2>3
  <1>2. ASSUME s # <<>> PROVE Distinct(Tail(s)) /\ ~InSeq(Head(s), Tail(s))
    <2>1. PICK t : t = Tail(s)
      OBVIOUS
    <2>2. Len(t) = Len(s) - 1 /\ Len(s) > 0 /\ \A i \in 1 .. Len(t) : t[i] = s[i + 1]
      BY <1>2, <2>1
    <2>3. Head(s) = s[1]
      BY <1>2
    <2>4. Distinct(t)
      BY <2>2 DEF Distinct
    <2>5. ~InSeq(Head(s), t)
      BY <2>2, <2>3 DEF Distinct, InSeq
    <2> QED
      BY <2>1, <2>4, <2>5
  <1> QED
    BY <1>1, <1>2

\* The innermost wave becomes w, of the same caller.
Replaces(w) ==
    /\ stack # <<>> /\ w \in LinkedWave /\ w.caller = Top.caller
    /\ stack' = [stack EXCEPT ![Len(stack)] = w]

\* Every part of the innermost wave that stays in w is still owed, and so is all
\* that is owed by the waves around it.
LEMMA ReplaceKeeps ==
    ASSUME Wired, NEW w, Replaces(w)
    PROVE  /\ \A c, l : OwedCall(c, l) =>
                 \/ OwedCall(c, l)'
                 \/ Top.disp = c /\ InSeq(l, Top.rest) /\ ~(w.disp = c /\ InSeq(l, w.rest))
           /\ \A n : Tasked(n) => Tasked(n)' \/ (InSeq(n, Top.tasks) /\ ~InSeq(n, w.tasks))
           /\ \A n : InCleanup(n) =>
                 \/ InCleanup(n)'
                 \/ /\ Top.disp = n \/ InSeq(n, Top.cleanups)
                    /\ ~(w.disp = n \/ InSeq(n, w.cleanups))
           /\ \A c, l : w.disp = c /\ InSeq(l, w.rest) => OwedCall(c, l)'
           /\ \A n : InSeq(n, w.tasks) => Tasked(n)'
           /\ \A n : w.disp = n \/ InSeq(n, w.cleanups) => InCleanup(n)'
           /\ \A i \in WaveIndex' : stack'[i] = w \/ (i \in WaveIndex /\ stack'[i] = stack[i])
  <1>1. stack \in Seq(LinkedWave) /\ stack # <<>>
    BY DEF Wired, Replaces
  <1>2. /\ Len(stack) \in WaveIndex /\ WaveIndex' = WaveIndex /\ stack'[Len(stack)] = w
        /\ \A i \in WaveIndex : i # Len(stack) => stack'[i] = stack[i]
    BY <1>1 DEF Replaces, WaveIndex
  <1> QED
    BY <1>2 DEF OwedCall, Tasked, InCleanup, Top

\* A new wave owes its own dispatch and takes nothing from the others.
LEMMA PushKeeps ==
    ASSUME Wired, NEW n \in Node, stack' = Append(stack, NewWave(n))
    PROVE  /\ \A c, l : OwedCall(c, l) => OwedCall(c, l)'
           /\ \A m : Tasked(m) => Tasked(m)'
           /\ \A m : InCleanup(m) => InCleanup(m)'
           /\ \A l : InSeq(l, listeners[n]) => OwedCall(n, l)'
           /\ InCleanup(n)'
           /\ \A i \in WaveIndex' :
                 stack'[i] = NewWave(n) \/ (i \in WaveIndex /\ stack'[i] = stack[i])
  <1>1. stack \in Seq(LinkedWave)
    BY DEF Wired
  <1>2. PICK v : v = NewWave(n)
    OBVIOUS
  <1>3. v.disp = n /\ v.rest = listeners[n]
    BY <1>2 DEF NewWave
  <1>4. /\ WaveIndex' = WaveIndex \cup {Len(stack) + 1} /\ stack'[Len(stack) + 1] = v
        /\ \A i \in WaveIndex : stack'[i] = stack[i]
    BY <1>1, <1>2 DEF WaveIndex
  <1>5. \A i \in WaveIndex' : stack'[i] = v \/ (i \in WaveIndex /\ stack'[i] = stack[i])
    BY <1>4
  <1> QED
    BY <1>2, <1>3, <1>4, <1>5 DEF OwedCall, Tasked, InCleanup

\* A drained wave owed nothing.
LEMMA PopKeeps ==
    ASSUME Wired, CancelReturns
    PROVE  /\ \A c \in Node : \A l : OwedCall(c, l) => OwedCall(c, l)'
           /\ \A m : Tasked(m) => Tasked(m)'
           /\ \A m \in Node : InCleanup(m) => InCleanup(m)'
           /\ \A i \in WaveIndex' : i \in WaveIndex /\ stack'[i] = stack[i]
  <1>1. stack \in Seq(LinkedWave) /\ stack # <<>> /\ Top.disp = None
    BY DEF Wired, CancelReturns
  <1>2. \A x : ~InSeq(x, Top.tasks) /\ ~InSeq(x, Top.cleanups)
    BY DEF CancelReturns, InSeq
  <1>3. /\ WaveIndex = WaveIndex' \cup {Len(stack)}
        /\ \A i \in WaveIndex' : i \in WaveIndex /\ stack'[i] = stack[i]
    BY <1>1 DEF CancelReturns, Pop, WaveIndex
  <1>4. None \notin Node
    BY BoundsAssumption DEF None, Node
  <1> QED
    BY <1>1, <1>2, <1>3, <1>4 DEF OwedCall, Tasked, InCleanup, Top
-----------------------------------------------------------------------------
(* What the actions do, in the terms of the invariant. *)

\* Where the error and the cause of n come from.
Explained(n) ==
    \/ err[n] = Canceled /\ cause[n] \in Causes \cup {Canceled}
    \/ /\ err[n] = DeadlineExceeded /\ kind[n] = "timer"
       /\ deadline[n] <= now /\ cause[n] = dcause[n]
    \/ /\ Carrier(n) # None
       /\ err[n] = err[Carrier(n)] /\ cause[n] = cause[Carrier(n)]

\* A constructor makes n below p: terminal at once, listening to its parent's signal,
\* or with no signal to listen to.
Constructs(n, p) ==
    /\ n = next + 1 /\ n \in Node /\ next' = n /\ p \in 0 .. next
    /\ \A m \in Node : m # n =>
          /\ kind'[m] = kind[m] /\ parent'[m] = parent[m] /\ done'[m] = done[m]
          /\ deadline'[m] = deadline[m] /\ dcause'[m] = dcause[m] /\ timerAt'[m] = timerAt[m]
          /\ err'[m] = err[m] /\ cause'[m] = cause[m]
    /\ parent'[n] = p /\ done'[n] \in {n, DoneOf(p), None}
    /\ CancelNode(n)' => done'[n] = n
    /\ done'[n] = n => CancelNode(n)' \/ Settled(n)'
    /\ timerAt'[n] # None => kind'[n] = "timer"
    /\ UNCHANGED <<regs, stack, micro, now>>
    /\ \/ /\ Settled(n)' /\ Explained(n)' /\ timerAt'[n] = None
          /\ UNCHANGED <<listeners, attached>>
       \/ /\ ~Settled(n)' /\ DoneOf(p) \in 1 .. next /\ ~Settled(DoneOf(p))
          /\ Listen(DoneOf(p), ChildListener(n))
       \/ /\ ~Settled(n)' /\ (CancelNode(n)' => DoneOf(p) = None)
          /\ UNCHANGED <<listeners, attached>>

\* Only n, which was live, gets an error.
Settles(n) ==
    /\ n \in 1 .. next /\ Settled(n)'
    /\ \A m \in Node : m # n \/ Settled(n) => err'[m] = err[m] /\ cause'[m] = cause[m]
    /\ ~Settled(n) => Explained(n)'

\* handle.cancel of the live context n.
Cancels(n) ==
    /\ ~Settled(n) /\ Settles(n)
    /\ stack' = Append(stack, NewWave(n))
    /\ \A m \in Node : timerAt'[m] # None => timerAt[m] # None
    /\ UNCHANGED <<treeVars, listeners, attached, regs, micro, now>>

\* The innermost wave becomes w when its task n is taken.
RunsTask(n, w) ==
    /\ n \in Linked /\ Settles(n) /\ Replaces(w) /\ Top.disp = None
    /\ \A m : InSeq(m, Top.tasks) <=> m = n \/ InSeq(m, w.tasks)
    /\ w.cleanups = Top.cleanups
    /\ IF Settled(n) THEN w.disp = None /\ w.rest = Top.rest
                     ELSE w.disp = n /\ w.rest = listeners[n]
    /\ UNCHANGED <<treeVars, timerAt, listeners, attached, regs, micro, now>>

\* The innermost wave becomes w when its dispatch reaches listener l.
Calls(l, w) ==
    /\ l \in Listener /\ Replaces(w) /\ Top.disp \in Node
    /\ w.disp = Top.disp /\ w.cleanups = Top.cleanups
    /\ \A x : InSeq(x, Top.rest) <=> x = l \/ InSeq(x, w.rest)
    /\ \A m : InSeq(m, w.tasks) <=>
          InSeq(m, Top.tasks) \/ (l \in attached /\ m \in Node /\ l = ChildListener(m))
    /\ attached' = attached \ {l}
    /\ \/ (l \notin attached \/ l.on = "child") /\ UNCHANGED <<regs, micro>>
       \/ \E r \in Reg :
             /\ l \in attached /\ l = RegListener(r)
             /\ \/ regs' = [regs EXCEPT ![r].state = "admitted"] /\ micro' = Append(micro, r)
                \/ regs' = [regs EXCEPT ![r].state = "ran"] /\ UNCHANGED micro
    /\ UNCHANGED <<treeVars, err, cause, timerAt, listeners, now>>

\* The innermost wave becomes w and owes no less, but for the cleanups that have run:
\* a listener returns, a dispatch ends, a cleanup frame runs.
Shifts(w) ==
    /\ Replaces(w) /\ w.tasks = Top.tasks
    /\ w.disp # None => w.disp = Top.disp
    /\ \A c \in Node : \A l : Top.disp = c /\ InSeq(l, Top.rest) => w.disp = c /\ InSeq(l, w.rest)
    /\ \A l : InSeq(l, w.rest) => w.disp = Top.disp /\ InSeq(l, Top.rest)
    /\ \A n : InSeq(n, w.cleanups) => InSeq(n, Top.cleanups) \/ n = Top.disp
    /\ \A n \in Node : Top.disp = n \/ InSeq(n, Top.cleanups) =>
          \/ w.disp = n \/ InSeq(n, w.cleanups)
          \/ timerAt'[n] = None /\ ChildListener(n) \notin attached'
    /\ \A n \in Node : timerAt'[n] # None => timerAt[n] # None
    /\ attached' \subseteq attached
    /\ \A l \in attached :
          l \in attached' \/ \E n \in Node : InSeq(n, Top.cleanups) /\ l = ChildListener(n)
    /\ UNCHANGED <<treeVars, err, cause, listeners, regs, micro, now>>

\* Registration r is made on n: pending on its signal, pending without one, or admitted.
Registers(r, n) ==
    /\ r \in Reg /\ n \in 1 .. next /\ regs[r].state = "unused"
    /\ \A q \in Reg : q # r => regs'[q] = regs[q]
    /\ regs'[r].ctx = n
    /\ \/ /\ regs'[r].state = "pending" /\ done[n] \in 1 .. next /\ ~Settled(done[n])
          /\ Listen(done[n], RegListener(r)) /\ UNCHANGED micro
       \/ /\ regs'[r].state = "pending" /\ done[n] = None
          /\ UNCHANGED <<listeners, attached, micro>>
       \/ /\ regs'[r].state = "admitted" /\ micro' = Append(micro, r)
          /\ UNCHANGED <<listeners, attached>>
    /\ UNCHANGED <<treeVars, err, cause, timerAt, stack, now>>

\* Time passes, a timer is armed again, or nothing happens.
Idles ==
    /\ now <= now'
    /\ \A m \in Node : timerAt'[m] # None => timerAt[m] # None
    /\ UNCHANGED <<treeVars, err, cause, listeners, attached, regs, stack, micro>>

\* A context below a terminal signal records the error of that signal.
LEMMA Inherited ==
    ASSUME Types, NEW p \in 1 .. next, done[p] \in Node, Settled(done[p])
    PROVE  /\ FailureErr(p) = err[done[p]] /\ FailureCause(p) = cause[done[p]]
           /\ FailureErr(p) # NoErr
  BY DEF FailureErr, FailureCause, Types, Shape, Settled, Err, Canceled, DeadlineExceeded, NoErr

\* The new context's part of Derive and InheritOrListen.
LEMMA InheritEffect ==
    ASSUME Types, NodeInv, NEW k \in Kind, NEW p \in 0 .. next, NEW d \in Node \cup {None},
           NEW dl \in Time \cup {None}, NEW n, Derive(n, k, p, d, dl), InheritOrListen(n, p), Types'
    PROVE  /\ \A m \in Node : m # n => err'[m] = err[m] /\ cause'[m] = cause[m]
           /\ \/ /\ Settled(n)' /\ Explained(n)'
                 /\ DoneOf(p) # None /\ Settled(DoneOf(p))
                 /\ UNCHANGED <<listeners, attached>>
              \/ /\ ~Settled(n)' /\ DoneOf(p) \in 1 .. next /\ ~Settled(DoneOf(p))
                 /\ Listen(DoneOf(p), ChildListener(n))
              \/ /\ ~Settled(n)' /\ DoneOf(p) = None
                 /\ UNCHANGED <<listeners, attached>>
  <1> USE BoundsAssumption
  <1>1. n = next + 1 /\ n \in Node /\ next' = n /\ err[n] = NoErr
    BY DeriveTypes
  <1>2. DoneOf(p) # None => p \in 1 .. next /\ p \in Node /\ DoneOf(p) = done[p] /\ done[p] \in Node
    BY DEF DoneOf, Types, Shape, Node, Background
  <1>3. DoneOf(p) # None => done[p] \in 1 .. next
    BY <1>2 DEF NodeInv
  <1>4. CASE DoneOf(p) # None /\ Settled(DoneOf(p))
    <2>1. /\ err' = [err EXCEPT ![n] = FailureErr(p)]
          /\ cause' = [cause EXCEPT ![n] = FailureCause(p)]
          /\ UNCHANGED <<listeners, attached>>
      BY <1>4 DEF InheritOrListen
    <2>2. /\ FailureErr(p) = err[done[p]] /\ FailureCause(p) = cause[done[p]]
          /\ FailureErr(p) # NoErr
      BY <1>2, <1>4, Inherited
    <2>3. /\ err'[n] = err[done[p]] /\ cause'[n] = cause[done[p]]
          /\ \A m \in Node : m # n => err'[m] = err[m] /\ cause'[m] = cause[m]
      BY <1>1, <2>1, <2>2 DEF Types, Shape
    <2>4. parent'[n] = p /\ \A m \in Node : m # n => done'[m] = done[m]
      BY <1>1 DEF Derive, Types, Shape
    <2>5. n # p /\ n # done[p]
      BY <1>1, <1>2, <1>3, <1>4 DEF Types, Shape
    <2>6. (Carrier(n))' = done[p]
      BY <1>2, <1>4, <2>4, <2>5 DEF Carrier, DoneOf, Background
    <2>7. Explained(n)'
      BY <1>2, <1>4, <2>3, <2>5, <2>6 DEF Explained, None, Node
    <2>8. Settled(n)'
      BY <2>2, <2>3 DEF Settled
    <2> QED
      BY <1>4, <2>1, <2>3, <2>7, <2>8
  <1>5. CASE ~(DoneOf(p) # None /\ Settled(DoneOf(p)))
    <2>1. /\ UNCHANGED <<err, cause>>
          /\ DoneOf(p) = None => UNCHANGED <<listeners, attached>>
          /\ DoneOf(p) # None => Listen(DoneOf(p), ChildListener(n))
      BY <1>5 DEF InheritOrListen
    <2>2. ~Settled(n)'
      BY <1>1, <2>1 DEF Settled
    <2> QED
      BY <1>2, <1>3, <1>5, <2>1, <2>2
  <1> QED
    BY <1>4, <1>5

\* What Derive leaves of the tree.
LEMMA DeriveEffect ==
    ASSUME Types, NEW k \in Kind, NEW p \in 0 .. next, NEW d \in Node \cup {None},
           NEW dl \in Time \cup {None}, NEW n, Derive(n, k, p, d, dl)
    PROVE  /\ n \in Node /\ n = next + 1 /\ next' = n
           /\ \A m \in Node : m # n =>
                 /\ kind'[m] = kind[m] /\ parent'[m] = parent[m] /\ done'[m] = done[m]
                 /\ deadline'[m] = deadline[m]
           /\ kind'[n] = k /\ parent'[n] = p /\ done'[n] = d
           /\ deadline'[n] = dl
           /\ timerAt[n] = None /\ err[n] = NoErr
  <1>1. n = next + 1 /\ n \in Node /\ next' = n /\ timerAt[n] = None /\ err[n] = NoErr
    BY DeriveTypes
  <1> QED
    BY <1>1 DEF Derive, Types, Shape

\* withCancel, and a deadline that the parent's precedes.
LEMMA CancelContextEffect ==
    ASSUME Types, NodeInv, NEW p \in 0 .. next, NEW n,
           Derive(n, "cancel", p, n, DeadlineOf(p)),
           InheritOrListen(n, p), UNCHANGED <<dcause, timerAt, regs, stack, micro, now>>,
           Types'
    PROVE  Constructs(n, p)
  <1>1. DeadlineOf(p) \in Time \cup {None} /\ "cancel" \in Kind /\ n \in Node
    BY BoundsAssumption DEF DeadlineOf, Types, Shape, Node, Background, Kind, Derive
  <1>2. /\ n = next + 1 /\ next' = n
        /\ \A m \in Node : m # n =>
              /\ kind'[m] = kind[m] /\ parent'[m] = parent[m] /\ done'[m] = done[m]
              /\ deadline'[m] = deadline[m]
        /\ parent'[n] = p /\ done'[n] = n /\ timerAt[n] = None /\ kind'[n] = "cancel"
    BY <1>1, DeriveEffect
  <1>3. /\ \A m \in Node : m # n => err'[m] = err[m] /\ cause'[m] = cause[m]
        /\ \/ /\ Settled(n)' /\ Explained(n)'
              /\ UNCHANGED <<listeners, attached>>
           \/ /\ ~Settled(n)' /\ DoneOf(p) \in 1 .. next /\ ~Settled(DoneOf(p))
              /\ Listen(DoneOf(p), ChildListener(n))
           \/ /\ ~Settled(n)' /\ DoneOf(p) = None
              /\ UNCHANGED <<listeners, attached>>
    BY <1>1, InheritEffect
  <1>4. CancelNode(n)'
    BY <1>2 DEF CancelNode
  <1> QED
    BY <1>1, <1>2, <1>3, <1>4 DEF Constructs

\* withDeadline: four ways to end.
LEMMA WithDeadlineEffect ==
    ASSUME Types, NodeInv, NEW p \in 0 .. next, NEW d \in Time,
           NEW c \in Causes \cup {DeadlineExceeded}, NEW armed \in BOOLEAN,
           WithDeadline(p, d, c, armed), Types', NEW n, n = next + 1
    PROVE  Constructs(n, p)
  <1>1. CASE ParentExpiresFirst(p, d)
    BY <1>1, CancelContextEffect DEF WithDeadline
  <1>2. CASE ~ParentExpiresFirst(p, d)
    <2>1. PICK k \in {"timer", "abandoned"} :
             /\ Derive(n, k, p, n, d) /\ (k = "timer" <=> armed)
      BY <1>2 DEF WithDeadline
    <2>2. dcause' = [dcause EXCEPT ![n] = c] /\ UNCHANGED <<regs, stack, micro, now>>
      BY <1>2 DEF WithDeadline
    <2>3. n \in Node /\ k \in Kind
      BY <2>1, BoundsAssumption DEF Derive, Types, Shape, Node, Kind
    <2>4. /\ next' = n
          /\ \A m \in Node : m # n =>
                /\ kind'[m] = kind[m] /\ parent'[m] = parent[m] /\ done'[m] = done[m]
                /\ deadline'[m] = deadline[m]
          /\ parent'[n] = p /\ done'[n] = n /\ kind'[n] = k /\ deadline'[n] = d
          /\ timerAt[n] = None /\ err[n] = NoErr
      BY <2>1, <2>3, DeriveEffect
    <2>5. dcause'[n] = c /\ \A m \in Node : m # n => dcause'[m] = dcause[m]
      BY <2>2, <2>3 DEF Types, Shape
    <2>6. ASSUME InheritOrListen(n, p)
          PROVE  /\ \A m \in Node : m # n => err'[m] = err[m] /\ cause'[m] = cause[m]
                 /\ \/ /\ Settled(n)' /\ Explained(n)'
                       /\ DoneOf(p) # None /\ Settled(DoneOf(p))
                       /\ UNCHANGED <<listeners, attached>>
                    \/ /\ ~Settled(n)' /\ DoneOf(p) \in 1 .. next /\ ~Settled(DoneOf(p))
                       /\ Listen(DoneOf(p), ChildListener(n))
                    \/ /\ ~Settled(n)' /\ DoneOf(p) = None
                       /\ UNCHANGED <<listeners, attached>>
      BY <2>1, <2>3, <2>6, InheritEffect
    <2>7. CASE DoneOf(p) # None /\ Settled(DoneOf(p))
      <3>1. InheritOrListen(n, p) /\ UNCHANGED timerAt
        BY <1>2, <2>7 DEF WithDeadline
      <3> QED
        BY <2>2, <2>3, <2>4, <2>5, <2>6, <2>7, <3>1 DEF Constructs
    <2>8. CASE ~(DoneOf(p) # None /\ Settled(DoneOf(p))) /\ (~armed \/ d <= now)
      <3>1. PICK e, x : /\ e = (IF armed THEN DeadlineExceeded ELSE Canceled)
                        /\ x = (IF armed THEN c ELSE Canceled)
        OBVIOUS
      <3>2. /\ err' = [err EXCEPT ![n] = e] /\ cause' = [cause EXCEPT ![n] = x]
            /\ UNCHANGED <<listeners, attached, timerAt>>
        BY <1>2, <2>8, <3>1 DEF WithDeadline
      <3>3. /\ err'[n] = e /\ cause'[n] = x
            /\ \A m \in Node : m # n => err'[m] = err[m] /\ cause'[m] = cause[m]
        BY <2>3, <3>2 DEF Types, Shape
      <3>4. Settled(n)'
        BY <3>1, <3>3 DEF Settled, Canceled, DeadlineExceeded, NoErr
      <3>5. Explained(n)'
        BY <2>1, <2>2, <2>4, <2>5, <2>8, <3>1, <3>3 DEF Explained
      <3> QED
        BY <2>2, <2>3, <2>4, <2>5, <3>2, <3>3, <3>4, <3>5 DEF Constructs
    <2>9. CASE ~(DoneOf(p) # None /\ Settled(DoneOf(p))) /\ ~(~armed \/ d <= now)
      <3>1. InheritOrListen(n, p) /\ timerAt' = [timerAt EXCEPT ![n] = NextSegment(d)]
        BY <1>2, <2>9 DEF WithDeadline
      <3>2. k = "timer" /\ \A m \in Node : m # n => timerAt'[m] = timerAt[m]
        BY <2>1, <2>9, <3>1 DEF Types, Shape
      <3>3. CancelNode(n)'
        BY <2>4, <3>2 DEF CancelNode
      <3> QED
        BY <2>2, <2>3, <2>4, <2>5, <2>6, <2>9, <3>1, <3>2, <3>3 DEF Constructs
    <2> QED
      BY <2>7, <2>8, <2>9
  <1> QED
    BY <1>1, <1>2

\* withValue and withoutCancel.
LEMMA PlainContextEffect ==
    ASSUME Types, NodeInv, NEW p \in 0 .. next, WithValue(p) \/ WithoutCancel(p),
           NEW n, n = next + 1
    PROVE  Constructs(n, p)
  <1>1. /\ DeadlineOf(p) \in Time \cup {None} /\ DoneOf(p) \in Node \cup {None}
        /\ {"value", "withoutCancel"} \subseteq Kind
    BY BoundsAssumption DEF DeadlineOf, DoneOf, Types, Shape, Node, Background, Kind
  <1>2. PICK k \in {"value", "withoutCancel"}, d \in {DoneOf(p), None}, dl \in Time \cup {None} :
           Derive(n, k, p, d, dl)
    BY <1>1 DEF WithValue, WithoutCancel
  <1>3. UNCHANGED <<err, cause, dcause, timerAt, listeners, attached, regs, stack, micro, now>>
    BY DEF WithValue, WithoutCancel
  <1>4. k \in Kind /\ d \in Node \cup {None} /\ dl \in Time \cup {None} /\ Derive(n, k, p, d, dl)
    BY <1>1, <1>2
  <1>5. /\ n \in Node /\ next' = n
        /\ \A m \in Node : m # n =>
              /\ kind'[m] = kind[m] /\ parent'[m] = parent[m] /\ done'[m] = done[m]
              /\ deadline'[m] = deadline[m]
        /\ parent'[n] = p /\ done'[n] = d /\ kind'[n] = k
        /\ timerAt[n] = None /\ err[n] = NoErr
    BY <1>4, DeriveEffect
  <1>6. ~CancelNode(n)' /\ ~Settled(n)'
    BY <1>2, <1>3, <1>5 DEF CancelNode, Settled
  <1>7. done'[n] # n
    <2>1. n # None /\ n \notin 1 .. next
      BY BoundsAssumption DEF None, Types, Shape
    <2>2. DoneOf(p) \in (1 .. next) \cup {None}
      BY DEF DoneOf, Background, NodeInv
    <2> QED
      BY <1>2, <1>5, <2>1, <2>2
  <1> QED
    BY <1>2, <1>3, <1>5, <1>6, <1>7 DEF Constructs

\* What a step that records one error does to the others.
LEMMA RecordEffect ==
    ASSUME Types, NEW n \in Node, NEW e, NEW c, Record(n, e, c)
    PROVE  /\ err'[n] = e /\ cause'[n] = c
           /\ \A m \in Node : m # n => err'[m] = err[m] /\ cause'[m] = cause[m]
  BY DEF Record, Types, Shape

\* A CancelFunc is called.
LEMMA CallCancelEffect ==
    ASSUME Types, NEW n \in Node, NEW c \in Causes \cup {Canceled}, CallCancel(n, c)
    PROVE  Cancels(n)
  <1>1. /\ ~Settled(n) /\ Record(n, Canceled, c) /\ stack' = Append(stack, NewWave(n))
        /\ UNCHANGED <<treeVars, timerAt, listeners, attached, regs, micro, now>>
        /\ n \in 1 .. next
    BY DEF CallCancel, Cancel, Born
  <1>2. /\ err'[n] = Canceled /\ cause'[n] = c
        /\ \A m \in Node : m # n => err'[m] = err[m] /\ cause'[m] = cause[m]
    BY <1>1, RecordEffect
  <1>3. Settled(n)' /\ Explained(n)'
    BY <1>2 DEF Settled, Explained, Canceled, NoErr
  <1> QED
    BY <1>1, <1>2, <1>3 DEF Cancels, Settles

\* The deadline timer cancels, or is armed again.
LEMMA WakeTimerEffect ==
    ASSUME Types, NodeInv, NEW n \in Node, WakeTimer(n)
    PROVE  Cancels(n) \/ Idles
  <1>1. n \in 1 .. next /\ kind[n] = "timer" /\ timerAt[n] # None
    BY DEF WakeTimer, NodeInv, Types, Shape, Node
  <1>2. now \in Int /\ deadline[n] \in Int
    BY DEF Types, Shape, Time, None
  <1>3. CASE now < deadline[n]
    <2>1. /\ timerAt' = [timerAt EXCEPT ![n] = NextSegment(deadline[n])]
          /\ UNCHANGED <<treeVars, err, cause, stack, listeners, attached, regs, micro, now>>
      BY <1>3 DEF WakeTimer
    <2>2. \A m \in Node : timerAt'[m] # None => timerAt[m] # None
      BY <1>1, <2>1 DEF Types, Shape
    <2>3. now <= now'
      BY <1>2, <2>1
    <2> QED
      BY <2>1, <2>2, <2>3 DEF Idles
  <1>4. CASE ~(now < deadline[n])
    <2>1. /\ ~Settled(n) /\ Record(n, DeadlineExceeded, dcause[n])
          /\ stack' = Append(stack, NewWave(n)) /\ timerAt' = [timerAt EXCEPT ![n] = None]
          /\ UNCHANGED <<treeVars, listeners, attached, regs, micro, now>>
      BY <1>4 DEF WakeTimer, Cancel
    <2>2. /\ err'[n] = DeadlineExceeded /\ cause'[n] = dcause[n]
          /\ \A m \in Node : m # n => err'[m] = err[m] /\ cause'[m] = cause[m]
      BY <2>1, RecordEffect
    <2>3. \A m \in Node : timerAt'[m] # None => timerAt[m] # None
      BY <2>1 DEF Types, Shape
    <2>4. Settled(n)' /\ Explained(n)'
      BY <1>1, <1>2, <1>4, <2>1, <2>2 DEF Settled, Explained, DeadlineExceeded, NoErr, treeVars
    <2> QED
      BY <1>1, <2>1, <2>2, <2>3, <2>4 DEF Cancels, Settles
  <1> QED
    BY <1>3, <1>4

\* drainCancellationWave takes a task.
LEMMA RunTaskEffect ==
    ASSUME Types, WaveInv, RunTask
    PROVE  \E n, w : RunsTask(n, w)
  <1>1. Top \in LinkedWave /\ stack # <<>> /\ Top.disp = None /\ Top.tasks # <<>>
    BY TopWave DEF RunTask, Types
  <1>2. Top.tasks \in Seq(Linked)
    BY <1>1 DEF LinkedWave
  <1>3. PICK n : n = Head(Top.tasks)
    OBVIOUS
  <1>4. n \in Linked /\ Tail(Top.tasks) \in Seq(Linked)
    BY <1>1, <1>2, <1>3, SeqFacts
  <1>5. \A m : InSeq(m, Top.tasks) <=> m = n \/ InSeq(m, Tail(Top.tasks))
    BY <1>1, <1>2, <1>3, Members
  <1>6. /\ n \in Node /\ n \in 1 .. next /\ listeners[n] \in Seq(LinkedListener)
        /\ parent[n] \in 1 .. next /\ done[parent[n]] \in Node
    <2>1. n \in 1 .. next /\ parent[n] \in 1 .. next /\ done[parent[n]] \in Node
      BY <1>4 DEF Linked
    <2>2. n \in Node
      BY <2>1, BoundsAssumption DEF Types, Shape, Node
    <2> QED
      BY <2>1, <2>2 DEF Types, Wired
  <1>7. UNCHANGED <<treeVars, timerAt, listeners, attached, regs, micro, now>>
    BY DEF RunTask
  <1>8. CASE Settled(n)
    <2>1. PICK w : w = [Top EXCEPT !.tasks = Tail(Top.tasks)]
      OBVIOUS
    <2>2. /\ w \in LinkedWave /\ w.tasks = Tail(Top.tasks) /\ w.cleanups = Top.cleanups
          /\ w.caller = Top.caller
          /\ w.disp = None /\ w.rest = Top.rest
      BY <1>1, <1>4, <2>1 DEF LinkedWave
    <2>3. stack' = [stack EXCEPT ![Len(stack)] = w] /\ UNCHANGED <<err, cause>>
      BY <1>3, <1>8, <2>1 DEF RunTask
    <2>4. Settles(n)
      BY <1>6, <1>8, <2>3 DEF Settles, Settled
    <2>5. Replaces(w)
      BY <1>1, <2>2, <2>3 DEF Replaces
    <2> QED
      BY <1>1, <1>4, <1>5, <1>7, <1>8, <2>2, <2>4, <2>5 DEF RunsTask
  <1>9. CASE ~Settled(n)
    <2>1. PICK w : w = [[Top EXCEPT !.tasks = Tail(Top.tasks)] EXCEPT !.disp = n, !.rest = listeners[n]]
      OBVIOUS
    <2>2. /\ w \in LinkedWave /\ w.tasks = Tail(Top.tasks) /\ w.cleanups = Top.cleanups
          /\ w.caller = Top.caller
          /\ w.disp = n /\ w.rest = listeners[n]
      BY <1>1, <1>4, <1>6, <2>1 DEF LinkedWave
    <2>3. /\ stack' = [stack EXCEPT ![Len(stack)] = w]
          /\ Record(n, FailureErr(parent[n]), FailureCause(parent[n]))
      BY <1>3, <1>9, <2>1 DEF RunTask
    <2>4. Carrier(n) = done[parent[n]] /\ Carrier(n) # None
      BY <1>6, BoundsAssumption DEF Carrier, DoneOf, Background, None, Node
    <2>5. Settled(done[parent[n]])
      <3>1. InSeq(n, Top.tasks)
        BY <1>5
      <3>2. GoodWave(Top)
        BY <1>1 DEF WaveInv, WaveIndex, Top, Types, Wired
      <3> QED
        BY <1>4, <2>4, <3>1, <3>2 DEF GoodWave
    <2>6. /\ FailureErr(parent[n]) = err[done[parent[n]]]
          /\ FailureCause(parent[n]) = cause[done[parent[n]]]
          /\ FailureErr(parent[n]) # NoErr
      BY <1>6, <2>5, Inherited
    <2>7. /\ err'[n] = err[done[parent[n]]] /\ cause'[n] = cause[done[parent[n]]]
          /\ \A m \in Node : m # n => err'[m] = err[m] /\ cause'[m] = cause[m]
      BY <1>6, <2>3, <2>6, RecordEffect
    <2>8. (Carrier(n))' = Carrier(n)
      BY <1>7 DEF Carrier, DoneOf, treeVars
    <2>9. done[parent[n]] # n
      BY <1>9, <2>5
    <2>10. Settled(n)' /\ Explained(n)'
      BY <1>6, <2>4, <2>6, <2>7, <2>8, <2>9 DEF Settled, Explained
    <2>11. Settles(n)
      BY <1>6, <1>9, <2>7, <2>10 DEF Settles
    <2>12. Replaces(w)
      BY <1>1, <2>2, <2>3 DEF Replaces
    <2> QED
      BY <1>1, <1>4, <1>5, <1>7, <1>9, <2>2, <2>11, <2>12 DEF RunsTask
  <1> QED
    BY <1>8, <1>9

\* The abort event reaches its next listener.
LEMMA CallListenerEffect ==
    ASSUME Types, CallListener
    PROVE  \E l, w : Calls(l, w)
  <1>1. Top \in LinkedWave /\ stack # <<>> /\ Top.rest # <<>> /\ Top.disp \in Node
    <2>1. Top \in LinkedWave /\ stack # <<>> /\ Top.rest # <<>> /\ Top.disp # None
      BY TopWave DEF CallListener, Types
    <2> QED
      BY <2>1 DEF LinkedWave
  <1>2. Top.rest \in Seq(LinkedListener) /\ Top.tasks \in Seq(Linked)
    BY <1>1 DEF LinkedWave
  <1>3. PICK l : l = Head(Top.rest)
    OBVIOUS
  <1>4. PICK w : w = [Top EXCEPT !.rest = Tail(Top.rest)]
    OBVIOUS
  <1>5. l \in LinkedListener /\ Tail(Top.rest) \in Seq(LinkedListener)
    BY <1>1, <1>2, <1>3, SeqFacts
  <1>6. l \in Listener
    BY <1>5 DEF LinkedListener
  <1>7. /\ w \in LinkedWave /\ w.disp = Top.disp /\ w.cleanups = Top.cleanups
        /\ w.tasks = Top.tasks /\ w.rest = Tail(Top.rest) /\ w.caller = Top.caller
    BY <1>1, <1>4, <1>5 DEF LinkedWave
  <1>8. \A x : InSeq(x, Top.rest) <=> x = l \/ InSeq(x, w.rest)
    BY <1>1, <1>2, <1>3, <1>7, Members
  <1>9. UNCHANGED <<treeVars, err, cause, timerAt, listeners, now>>
    BY DEF CallListener
  <1>10. CASE l \notin attached
    <2>1. stack' = [stack EXCEPT ![Len(stack)] = w] /\ UNCHANGED <<attached, regs, micro>>
      BY <1>3, <1>4, <1>10 DEF CallListener
    <2>2. Replaces(w) /\ attached' = attached \ {l}
      BY <1>1, <1>7, <1>10, <2>1 DEF Replaces
    <2> QED
      BY <1>1, <1>6, <1>7, <1>8, <1>9, <1>10, <2>1, <2>2 DEF Calls
  <1>11. CASE l \in attached /\ l.on = "child"
    <2>1. PICK v : v = [w EXCEPT !.tasks = Append(w.tasks, l.id)]
      OBVIOUS
    <2>2. l.id \in Linked /\ l.id \in Node /\ l = ChildListener(l.id)
      BY <1>5, <1>11 DEF LinkedListener, Listener, ChildListener
    <2>3. Append(Top.tasks, l.id) \in Seq(Linked)
      BY <1>2, <2>2, SeqFacts
    <2>4. /\ v \in LinkedWave /\ v.disp = Top.disp /\ v.cleanups = Top.cleanups
          /\ v.tasks = Append(Top.tasks, l.id) /\ v.rest = w.rest /\ v.caller = Top.caller
      BY <1>7, <2>1, <2>3 DEF LinkedWave
    <2>5. \A m : InSeq(m, v.tasks) <=> InSeq(m, Top.tasks) \/ m = l.id
      BY <1>2, <2>4, Members
    <2>6. \A m : m \in Node /\ l = ChildListener(m) <=> m = l.id
      BY <2>2 DEF ChildListener
    <2>7. /\ stack' = [stack EXCEPT ![Len(stack)] = v] /\ UNCHANGED <<regs, micro>>
          /\ attached' = attached \ {l}
      BY <1>3, <1>4, <1>11, <2>1 DEF CallListener
    <2>8. Replaces(v)
      BY <1>1, <2>4, <2>7 DEF Replaces
    <2> QED
      BY <1>1, <1>6, <1>8, <1>9, <1>11, <2>4, <2>5, <2>6, <2>7, <2>8 DEF Calls
  <1>12. CASE l \in attached /\ l.on # "child"
    <2>1. l.id \in Reg /\ l = RegListener(l.id) /\ \A m : l # ChildListener(m)
      BY <1>6, <1>12 DEF Listener, RegListener, ChildListener
    <2>2. PICK r \in Reg : r = l.id /\ l = RegListener(r)
      BY <2>1
    <2>3. CASE regs[r].queued
      <3>1. /\ stack' = [stack EXCEPT ![Len(stack)] = w] /\ attached' = attached \ {l}
            /\ regs' = [regs EXCEPT ![r].state = "admitted"] /\ micro' = Append(micro, r)
        BY <1>3, <1>4, <1>12, <2>2, <2>3 DEF CallListener
      <3>2. Replaces(w)
        BY <1>1, <1>7, <3>1 DEF Replaces
      <3> QED
        BY <1>1, <1>6, <1>7, <1>8, <1>9, <1>12, <2>1, <2>2, <3>1, <3>2 DEF Calls
    <2>4. CASE ~regs[r].queued
      <3>0. PICK v : v = [w EXCEPT !.inUser = TRUE]
        OBVIOUS
      <3>1. /\ stack' = [stack EXCEPT ![Len(stack)] = v] /\ attached' = attached \ {l}
            /\ regs' = [regs EXCEPT ![r].state = "ran"] /\ UNCHANGED micro
        BY <1>3, <1>4, <1>12, <2>2, <2>4, <3>0 DEF CallListener
      <3>2. /\ v \in LinkedWave /\ v.disp = Top.disp /\ v.cleanups = Top.cleanups
            /\ v.tasks = Top.tasks /\ v.rest = w.rest /\ v.caller = Top.caller
        BY <1>7, <3>0 DEF LinkedWave
      <3>3. Replaces(v)
        BY <1>1, <3>1, <3>2 DEF Replaces
      <3> QED
        BY <1>1, <1>6, <1>8, <1>9, <1>12, <2>1, <2>2, <3>1, <3>2, <3>3 DEF Calls
    <2> QED
      BY <2>3, <2>4
  <1> QED
    BY <1>10, <1>11, <1>12

\* A listener returns, a dispatch ends, a cleanup frame runs.
LEMMA ShiftEffect ==
    ASSUME Types, ListenerReturns \/ FinishDispatch \/ RunCleanup
    PROVE  \E w : Shifts(w)
  <1>1. Top \in LinkedWave /\ stack # <<>>
    BY TopWave DEF Types, ListenerReturns, FinishDispatch, RunCleanup
  <1>2. UNCHANGED <<treeVars, err, cause, listeners, regs, micro, now>>
    BY DEF ListenerReturns, FinishDispatch, RunCleanup
  <1>3. CASE ListenerReturns
    <2>1. PICK w : w = [Top EXCEPT !.inUser = FALSE]
      OBVIOUS
    <2>2. /\ w \in LinkedWave /\ w.tasks = Top.tasks /\ w.disp = Top.disp
          /\ w.rest = Top.rest /\ w.cleanups = Top.cleanups /\ w.caller = Top.caller
      BY <1>1, <2>1 DEF LinkedWave
    <2>3. stack' = [stack EXCEPT ![Len(stack)] = w] /\ UNCHANGED <<timerAt, attached>>
      BY <1>3, <2>1 DEF ListenerReturns, Top
    <2>4. Replaces(w)
      BY <1>1, <2>2, <2>3 DEF Replaces
    <2> QED
      BY <1>2, <2>2, <2>3, <2>4 DEF Shifts
  <1>4. CASE FinishDispatch
    <2>1. PICK w : w = [Top EXCEPT !.disp = None, !.cleanups = Append(Top.cleanups, Top.disp)]
      OBVIOUS
    <2>2. Top.disp \in Node /\ Top.cleanups \in Seq(Node) /\ Top.rest = <<>>
      BY <1>1, <1>4 DEF FinishDispatch, LinkedWave
    <2>3. Append(Top.cleanups, Top.disp) \in Seq(Node)
      BY <2>2, SeqFacts
    <2>4. /\ w \in LinkedWave /\ w.tasks = Top.tasks /\ w.disp = None
          /\ w.rest = Top.rest /\ w.cleanups = Append(Top.cleanups, Top.disp)
          /\ w.caller = Top.caller
      BY <1>1, <2>1, <2>3 DEF LinkedWave
    <2>5. \A x : InSeq(x, w.cleanups) <=> InSeq(x, Top.cleanups) \/ x = Top.disp
      BY <2>2, <2>4, Members
    <2>6. \A x : ~InSeq(x, Top.rest) /\ ~InSeq(x, w.rest)
      BY <2>2, <2>4 DEF InSeq
    <2>7. stack' = [stack EXCEPT ![Len(stack)] = w] /\ UNCHANGED <<timerAt, attached>>
      BY <1>4, <2>1 DEF FinishDispatch
    <2>8. Replaces(w)
      BY <1>1, <2>4, <2>7 DEF Replaces
    <2> QED
      BY <1>2, <2>4, <2>5, <2>6, <2>7, <2>8 DEF Shifts
  <1>5. CASE RunCleanup
    <2>0. PICK w : w = [Top EXCEPT !.cleanups = Pop(Top.cleanups)]
      OBVIOUS
    <2>1. Top.cleanups \in Seq(Node) /\ Top.cleanups # <<>>
      BY <1>1, <1>5 DEF RunCleanup, LinkedWave
    <2>2. PICK n : n = Top.cleanups[Len(Top.cleanups)]
      OBVIOUS
    <2>3. Pop(Top.cleanups) \in Seq(Node) /\ n \in Node
      BY <2>1, <2>2, SeqFacts DEF Pop
    <2>4. \A x : InSeq(x, Top.cleanups) <=> InSeq(x, Pop(Top.cleanups)) \/ x = n
      BY <2>1, <2>2, Members
    <2>5. /\ w \in LinkedWave /\ w.tasks = Top.tasks /\ w.disp = Top.disp
          /\ w.rest = Top.rest /\ w.cleanups = Pop(Top.cleanups) /\ w.caller = Top.caller
      BY <1>1, <2>0, <2>3 DEF LinkedWave
    <2>6. /\ stack' = [stack EXCEPT ![Len(stack)] = w]
          /\ attached' = attached \ {ChildListener(n)} /\ timerAt' = [timerAt EXCEPT ![n] = None]
      BY <1>5, <2>0, <2>2 DEF RunCleanup, Top
    <2>7. timerAt'[n] = None /\ \A m \in Node : timerAt'[m] # None => timerAt[m] # None
      BY <2>3, <2>6 DEF Types, Shape
    <2>8. Replaces(w)
      BY <1>1, <2>5, <2>6 DEF Replaces
    <2> QED
      BY <1>2, <2>3, <2>4, <2>5, <2>6, <2>7, <2>8 DEF Shifts
  <1> QED
    BY <1>3, <1>4, <1>5

\* A listener or an afterFunc callback is registered.
LEMMA RegisterEffect ==
    ASSUME Types, NodeInv, NEW r \in Reg, NEW n \in Node, AddListener(r, n) \/ AfterFunc(r, n)
    PROVE  Registers(r, n)
  <1>1. regs[r].state = "unused" /\ n \in 1 .. next
    BY DEF AddListener, AfterFunc, Fresh, Born, Reg
  <1>2. done[n] \in Node \cup {None} /\ (done[n] # None => done[n] \in 1 .. next)
    BY <1>1 DEF NodeInv, Types, Shape
  <1>3. UNCHANGED <<treeVars, err, cause, timerAt, stack, now>>
    BY DEF AddListener, AfterFunc
  <1>4. ASSUME NEW x, regs' = [regs EXCEPT ![r] = x]
        PROVE  regs'[r] = x /\ \A q \in Reg : q # r => regs'[q] = regs[q]
    BY <1>4 DEF Types, Shape
  <1>5. CASE AddListener(r, n)
    <2>1. PICK x : x = [state |-> "pending", ctx |-> n, queued |-> FALSE]
      OBVIOUS
    <2>2. /\ regs' = [regs EXCEPT ![r] = x] /\ x.state = "pending" /\ x.ctx = n
          /\ Listen(n, RegListener(r)) /\ UNCHANGED micro /\ ~Settled(n) /\ done[n] = n
      BY <1>1, <1>5, <2>1 DEF AddListener, NodeInv
    <2> QED
      BY <1>1, <1>2, <1>3, <1>4, <2>2 DEF Registers
  <1>6. CASE AfterFunc(r, n) /\ done[n] # None /\ Settled(done[n])
    <2>1. PICK x : x = [state |-> "admitted", ctx |-> n, queued |-> TRUE]
      OBVIOUS
    <2>2. /\ regs' = [regs EXCEPT ![r] = x] /\ x.state = "admitted" /\ x.ctx = n
          /\ micro' = Append(micro, r) /\ UNCHANGED <<listeners, attached>>
      BY <1>6, <2>1 DEF AfterFunc
    <2> QED
      BY <1>1, <1>2, <1>3, <1>4, <2>2 DEF Registers
  <1>7. CASE AfterFunc(r, n) /\ ~(done[n] # None /\ Settled(done[n]))
    <2>1. PICK x : x = [state |-> "pending", ctx |-> n, queued |-> TRUE]
      OBVIOUS
    <2>2. /\ regs' = [regs EXCEPT ![r] = x] /\ x.state = "pending" /\ x.ctx = n
          /\ UNCHANGED micro
          /\ done[n] = None => UNCHANGED <<listeners, attached>>
          /\ done[n] # None => Listen(done[n], RegListener(r))
      BY <1>7, <2>1 DEF AfterFunc
    <2> QED
      BY <1>1, <1>2, <1>3, <1>4, <1>7, <2>2 DEF Registers
  <1> QED
    BY <1>5, <1>6, <1>7

\* A step is one of these.
Effect ==
    \/ \E n, p : Constructs(n, p)
    \/ \E n : Cancels(n)
    \/ \E n, w : RunsTask(n, w)
    \/ \E l, w : Calls(l, w)
    \/ \E w : Shifts(w)
    \/ CancelReturns
    \/ \E r, n : Registers(r, n)
    \/ \E r \in Reg : StopReg(r)
    \/ RunMicrotask
    \/ Idles

\* Every action has one of the effects.
LEMMA NextEffect ==
    ASSUME Types, NodeInv, WaveInv, [Next]_vars
    PROVE  Effect
  <1>0. Types'
    BY NextTypes
  <1>1. ASSUME NEW p \in 0 .. next, WithCancel(p) PROVE \E n : Constructs(n, p)
    <2>1. PICK n : n = next + 1
      OBVIOUS
    <2>2. /\ Derive(n, "cancel", p, n, DeadlineOf(p)) /\ InheritOrListen(n, p)
          /\ UNCHANGED <<dcause, timerAt, regs, stack, micro, now>>
      BY <1>1, <2>1 DEF WithCancel
    <2> QED
      BY <1>0, <2>2, CancelContextEffect
  <1>2. ASSUME NEW p \in 0 .. next, NEW d \in Time, NEW c \in Causes \cup {DeadlineExceeded},
               NEW armed \in BOOLEAN, WithDeadline(p, d, c, armed)
        PROVE  \E n : Constructs(n, p)
    BY <1>0, <1>2, WithDeadlineEffect
  <1>3. ASSUME NEW p \in 0 .. next, WithValue(p) \/ WithoutCancel(p)
        PROVE  \E n : Constructs(n, p)
    BY <1>0, <1>3, PlainContextEffect
  <1>4. CASE UNCHANGED vars \/ Tick
    <2>1. now <= now'
      BY <1>4 DEF vars, Tick, Types, Shape, Time
    <2>2. UNCHANGED <<treeVars, err, cause, timerAt, listeners, attached, regs, stack, micro>>
      BY <1>4 DEF vars, treeVars, Tick
    <2> QED
      BY <2>1, <2>2 DEF Idles, Effect
  <1>5. ASSUME NEW n \in Node, WakeTimer(n) PROVE Effect
    BY <1>5, WakeTimerEffect DEF Effect
  <1>6. ASSUME NEW n \in Node, NEW c \in Causes \cup {Canceled}, CallCancel(n, c) PROVE Effect
    BY <1>6, CallCancelEffect DEF Effect
  <1>7. CASE RunTask
    BY <1>7, RunTaskEffect DEF Effect
  <1>8. CASE CallListener
    BY <1>8, CallListenerEffect DEF Effect
  <1>9. CASE ListenerReturns \/ FinishDispatch \/ RunCleanup
    BY <1>9, ShiftEffect DEF Effect
  <1>10. ASSUME NEW r \in Reg, NEW n \in Node, AddListener(r, n) \/ AfterFunc(r, n) PROVE Effect
    BY <1>10, RegisterEffect DEF Effect
  <1>11. ASSUME NEW n, NEW p, Constructs(n, p) PROVE Effect
    BY <1>11 DEF Effect
  <1>12. CASE CancelReturns \/ RunMicrotask \/ \E r \in Reg : StopReg(r)
    BY <1>12 DEF Effect
  <1> QED
    BY <1>1, <1>2, <1>3, <1>4, <1>5, <1>6, <1>7, <1>8, <1>9, <1>10, <1>11, <1>12
    DEF Next, User, Runtime
-----------------------------------------------------------------------------
(* What every step keeps. *)

\* The names of listeners are distinct.
LEMMA ListenerNames ==
    /\ \A m, n : ChildListener(m) = ChildListener(n) => m = n
    /\ \A q, r : RegListener(q) = RegListener(r) => q = r
    /\ \A n, r : ChildListener(n) # RegListener(r)
    /\ \A n \in Node : ChildListener(n) \in Listener
    /\ \A r \in Reg : RegListener(r) \in Listener
  BY DEF ChildListener, RegListener, Listener

\* addEventListener on the signal of c.
LEMMA ListenEffect ==
    ASSUME Types, NEW c \in Node, NEW l, Listen(c, l)
    PROVE  /\ \A d \in Node : \A x :
                 InSeq(x, listeners'[d]) <=> InSeq(x, listeners[d]) \/ (d = c /\ x = l)
           /\ attached' = attached \cup {l}
  <1>1. listeners[c] \in Seq(LinkedListener)
    BY DEF Types, Wired
  <1>2. /\ listeners'[c] = Append(listeners[c], l)
        /\ \A d \in Node : d # c => listeners'[d] = listeners[d]
    BY DEF Listen, Types, Wired
  <1>3. \A x : InSeq(x, Append(listeners[c], l)) <=> InSeq(x, listeners[c]) \/ x = l
    BY <1>1, Members
  <1> QED
    BY <1>2, <1>3 DEF Listen

\* The signal an existing context derives from exists.
LEMMA CarrierExists ==
    ASSUME Types, NodeInv, NEW n \in 1 .. next
    PROVE  /\ n \in Node /\ Carrier(n) \in (1 .. next) \cup {None}
           /\ Carrier(n) # None => Carrier(n) \in Node /\ parent[n] \in 1 .. next
                                   /\ Carrier(n) = done[parent[n]]
  <1>1. n \in Node /\ parent[n] \in 0 .. next /\ next \in Nat /\ next <= MaxNode
    BY BoundsAssumption DEF Types, Shape, Node
  <1>2. PICK p \in 0 .. next : p = parent[n]
    BY <1>1
  <1>3. p # Background => p \in 1 .. next /\ (done[p] # None => done[p] \in 1 .. next)
    BY <1>1, <1>2 DEF Background, NodeInv
  <1>4. Carrier(n) = IF p = Background THEN None ELSE done[p]
    BY <1>2 DEF Carrier, DoneOf
  <1>5. \A m \in 1 .. next : m \in Node
    BY <1>1, BoundsAssumption DEF Node
  <1> QED
    BY <1>1, <1>2, <1>3, <1>4, <1>5

\* Contexts, errors and lists of listeners only grow.
Grows ==
    /\ next \in Nat /\ next' \in Nat /\ next <= next' /\ next' <= MaxNode /\ now <= now'
    /\ \A n \in 1 .. next :
          /\ kind'[n] = kind[n] /\ parent'[n] = parent[n] /\ done'[n] = done[n]
          /\ deadline'[n] = deadline[n] /\ dcause'[n] = dcause[n]
          /\ (Carrier(n))' = Carrier(n)
    /\ \A n \in Node : Settled(n) => err'[n] = err[n] /\ cause'[n] = cause[n]
    /\ \A c \in Node : \A l : InSeq(l, listeners[c]) => InSeq(l, listeners'[c])

\* No effect takes back a context, its place in the tree, its error or a listener.
LEMMA EffectGrows ==
    ASSUME Types, NodeInv, Effect, Types'
    PROVE  Grows
  <1>0. /\ next \in Nat /\ next' \in Nat /\ next' <= MaxNode /\ next <= MaxNode /\ MaxNode \in Nat
        /\ now \in Nat
    BY BoundsAssumption DEF Types, Shape, Time
  <1>1. ASSUME NEW n, NEW p, Constructs(n, p) PROVE Grows
    <2>1. next <= next' /\ now <= now'
      BY <1>0, <1>1 DEF Constructs
    <2>2. \A m \in Node : m # n =>
             /\ kind'[m] = kind[m] /\ parent'[m] = parent[m] /\ done'[m] = done[m]
             /\ deadline'[m] = deadline[m] /\ dcause'[m] = dcause[m]
             /\ err'[m] = err[m] /\ cause'[m] = cause[m]
      BY <1>1 DEF Constructs
    <2>3. \A m \in 1 .. next : m \in Node /\ m # n
      BY <1>0, <1>1 DEF Constructs, Node
    <2>4. ASSUME NEW m \in 1 .. next PROVE (Carrier(m))' = Carrier(m)
      <3>1. parent'[m] = parent[m] /\ parent[m] \in 0 .. next
        BY <1>0, <2>2, <2>3 DEF Types, Shape
      <3>2. parent[m] # Background => done'[parent[m]] = done[parent[m]]
        BY <2>2, <2>3, <3>1 DEF Background
      <3> QED
        BY <3>1, <3>2 DEF Carrier, DoneOf
    <2>5. \A m \in Node : Settled(m) => err'[m] = err[m] /\ cause'[m] = cause[m]
      <3>1. err[n] = NoErr
        BY <1>0, <1>1 DEF Constructs, Types, Shape
      <3> QED
        BY <2>2, <3>1 DEF Settled
    <2>6. \A c \in Node : \A l : InSeq(l, listeners[c]) => InSeq(l, listeners'[c])
      <3>1. CASE UNCHANGED listeners
        BY <3>1
      <3>2. CASE DoneOf(p) \in 1 .. next /\ Listen(DoneOf(p), ChildListener(n))
        <4>1. DoneOf(p) \in Node
          BY <2>3, <3>2
        <4> QED
          BY <3>2, <4>1, ListenEffect
      <3> QED
        BY <1>1, <3>1, <3>2 DEF Constructs
    <2> QED
      BY <1>0, <2>1, <2>2, <2>3, <2>4, <2>5, <2>6 DEF Grows
  <1>2. ASSUME UNCHANGED treeVars, now <= now',
               \A n \in Node : Settled(n) => err'[n] = err[n] /\ cause'[n] = cause[n],
               \A c \in Node : \A l : InSeq(l, listeners[c]) => InSeq(l, listeners'[c])
        PROVE  Grows
    <2>1. \A n : (Carrier(n))' = Carrier(n)
      BY <1>2 DEF treeVars, Carrier, DoneOf
    <2> QED
      BY <1>0, <1>2, <2>1 DEF Grows, treeVars
  <1>3. ASSUME NEW n, Settles(n)
        PROVE  \A m \in Node : Settled(m) => err'[m] = err[m] /\ cause'[m] = cause[m]
    BY <1>3 DEF Settles
  <1>4. ASSUME UNCHANGED now PROVE now <= now'
    BY <1>0, <1>4
  <1>5. ASSUME NEW n, Cancels(n) PROVE Grows
    BY <1>2, <1>3, <1>4, <1>5 DEF Cancels
  <1>6. ASSUME NEW n, NEW w, RunsTask(n, w) PROVE Grows
    BY <1>2, <1>3, <1>4, <1>6 DEF RunsTask
  <1>7. ASSUME NEW l, NEW w, Calls(l, w) PROVE Grows
    BY <1>2, <1>4, <1>7 DEF Calls
  <1>8. ASSUME NEW w, Shifts(w) PROVE Grows
    BY <1>2, <1>4, <1>8 DEF Shifts
  <1>9. ASSUME NEW r, NEW n, Registers(r, n) PROVE Grows
    <2>1. \A c \in Node : \A l : InSeq(l, listeners[c]) => InSeq(l, listeners'[c])
      <3>1. CASE UNCHANGED listeners
        BY <3>1
      <3>2. CASE done[n] \in 1 .. next /\ Listen(done[n], RegListener(r))
        <4>1. done[n] \in Node
          BY <1>0, <3>2 DEF Node
        <4> QED
          BY <3>2, <4>1, ListenEffect
      <3> QED
        BY <1>9, <3>1, <3>2 DEF Registers
    <2> QED
      BY <1>2, <1>4, <1>9, <2>1 DEF Registers
  <1>10. CASE CancelReturns \/ RunMicrotask \/ \E r \in Reg : StopReg(r)
    BY <1>2, <1>4, <1>10 DEF CancelReturns, RunMicrotask, StopReg
  <1>11. CASE Idles
    BY <1>2, <1>11 DEF Idles
  <1> QED
    BY <1>1, <1>5, <1>6, <1>7, <1>8, <1>9, <1>10, <1>11 DEF Effect

-----------------------------------------------------------------------------
(* The parts of the invariant, one after the other. *)

\* Only timer contexts have timers, and every signal is that of an existing context.
LEMMA NodeStep ==
    ASSUME Types, NodeInv, Effect, Grows
    PROVE  NodeInv'
  <1>1. ASSUME NEW n, NEW p, Constructs(n, p) PROVE NodeInv'
    <2>1. /\ n \in Node /\ n = next + 1 /\ next' = n /\ done'[n] \in {n, DoneOf(p), None}
          /\ CancelNode(n)' => done'[n] = n
          /\ timerAt'[n] # None => kind'[n] = "timer"
          /\ \A m \in Node : m # n => timerAt'[m] = timerAt[m] /\ kind'[m] = kind[m]
          /\ p \in 0 .. next /\ next \in Nat
      BY <1>1 DEF Constructs, Types, Shape
    <2>2. DoneOf(p) \in (1 .. next) \cup {None}
      BY <2>1 DEF DoneOf, Background, NodeInv
    <2>3. \A m \in Node : timerAt'[m] # None => kind'[m] = "timer"
      BY <2>1 DEF NodeInv
    <2>4. \A m \in 1 .. next' : done'[m] # None => done'[m] \in 1 .. next'
      BY <2>1, <2>2 DEF NodeInv, Grows
    <2>5. \A m \in 1 .. next' : CancelNode(m)' => done'[m] = m
      BY <2>1 DEF NodeInv, Grows, CancelNode
    <2> QED
      BY <2>3, <2>4, <2>5 DEF NodeInv
  <1>2. ASSUME UNCHANGED treeVars, \A m \in Node : timerAt'[m] # None => timerAt[m] # None
        PROVE  NodeInv'
    BY <1>2 DEF NodeInv, treeVars, CancelNode
  <1> QED
    BY <1>1, <1>2
    DEF Effect, Cancels, RunsTask, Calls, Shifts, CancelReturns, Registers, StopReg, RunMicrotask,
        Idles

\* A new context has its parent's signal, or one of its own that is live or aborted.
LEMMA SignalStep ==
    ASSUME Types, NodeInv, SignalInv, Effect, Grows, Types'
    PROVE  SignalInv'
  <1>1. \A m \in 1 .. next : m \in Node
    BY BoundsAssumption DEF Types, Shape, Node
  <1>2. ASSUME NEW c \in 1 .. next, CancelNode(c) \/ Settled(c)
        PROVE  CancelNode(c)' \/ Settled(c)'
    BY <1>1, <1>2 DEF Grows, CancelNode, Settled
  <1>3. ASSUME NEW m \in 1 .. next, done[m] # None
        PROVE  CancelNode(done[m])' \/ Settled(done[m])'
    <2>1. PICK c \in 1 .. next : c = done[m]
      BY <1>3 DEF NodeInv
    <2>2. CancelNode(c)' \/ Settled(c)'
      BY <1>2, <1>3, <2>1 DEF SignalInv
    <2>3. done'[m] = c
      BY <2>1 DEF Grows
    <2> QED
      BY <2>2, <2>3 DEF CancelNode, Settled
  <1>4. ASSUME UNCHANGED next PROVE SignalInv'
    BY <1>3, <1>4 DEF SignalInv, Grows
  <1>5. ASSUME NEW n, NEW p, Constructs(n, p) PROVE SignalInv'
    <2>1. /\ n = next + 1 /\ next' = n /\ p \in 0 .. next /\ done'[n] \in {n, DoneOf(p), None}
          /\ done'[n] = n => CancelNode(n)' \/ Settled(n)'
      BY <1>5 DEF Constructs
    <2>2. ASSUME done'[n] # None PROVE CancelNode(done[n])' \/ Settled(done[n])'
      <3>1. CASE done'[n] = n
        BY <2>1, <3>1 DEF CancelNode, Settled
      <3>2. CASE done'[n] = DoneOf(p)
        <4>1. p \in 1 .. next /\ done'[n] = done[p] /\ done[p] # None
          BY <2>1, <2>2, <3>2 DEF DoneOf, Background
        <4>2. CancelNode(done[p])' \/ Settled(done[p])'
          BY <1>3, <4>1
        <4>3. done'[p] = done'[n]
          BY <4>1 DEF Grows
        <4> QED
          BY <4>2, <4>3 DEF CancelNode, Settled
      <3> QED
        BY <2>1, <2>2, <3>1, <3>2
    <2>3. ASSUME NEW m \in 1 .. next', done'[m] # None
          PROVE  CancelNode(done[m])' \/ Settled(done[m])'
      <3>1. m = n \/ m \in 1 .. next
        BY <2>1 DEF Types, Shape
      <3>2. m \in 1 .. next => done'[m] = done[m]
        BY DEF Grows
      <3> QED
        BY <1>3, <2>2, <2>3, <3>1, <3>2
    <2> QED
      BY <2>3 DEF SignalInv
  <1> QED
    BY <1>4, <1>5
    DEF Effect, Cancels, RunsTask, Calls, Shifts, CancelReturns, Registers, StopReg, RunMicrotask,
        Idles, treeVars

\* What is true of a wave stays true while nothing is taken back.
LEMMA GoodWaveGrows ==
    ASSUME Types, NodeInv, Grows, NEW w \in LinkedWave, GoodWave(w)
    PROVE  GoodWave(w)'
  <1>1. /\ w.disp \in Node \cup {None} /\ w.tasks \in Seq(Linked) /\ w.cleanups \in Seq(Node)
    BY DEF LinkedWave
  <1>2. \A n \in Node : Settled(n) => Settled(n)'
    BY DEF Grows, Settled
  <1>3. \A n : InSeq(n, w.tasks) => n \in Linked /\ n \in 1 .. next
    BY <1>1, Members DEF Linked
  <1>4. ASSUME NEW n, InSeq(n, w.tasks) PROVE Settled(Carrier(n))'
    <2>1. n \in 1 .. next /\ Settled(Carrier(n)) /\ n \in Linked
      BY <1>3, <1>4 DEF GoodWave
    <2>2. (Carrier(n))' = Carrier(n)
      BY <2>1 DEF Grows
    <2>3. Carrier(n) \in Node
      BY <2>1, BoundsAssumption DEF Linked, Carrier, DoneOf, Background
    <2>4. err'[Carrier(n)] # NoErr
      BY <1>2, <2>1, <2>3 DEF Settled
    <2> QED
      BY <2>2, <2>4 DEF Settled
  <1>5. w.disp # None => Settled(w.disp)'
    BY <1>1, <1>2 DEF GoodWave
  <1>6. \A n \in Node : InSeq(n, w.cleanups) => Settled(n)'
    BY <1>2 DEF GoodWave
  <1>7. \A l \in Listener : InSeq(l, w.rest) => w.disp # None /\ InSeq(l, listeners'[w.disp])
    BY <1>1 DEF GoodWave, Grows
  <1> QED
    BY <1>4, <1>5, <1>6, <1>7 DEF GoodWave

\* The innermost wave is one of those the invariant speaks of.
LEMMA TopGood ==
    ASSUME Types, WaveInv, stack # <<>>
    PROVE  GoodWave(Top) /\ Top \in LinkedWave
  <1>1. Len(stack) \in WaveIndex
    BY DEF WaveIndex, Types, Wired
  <1> QED
    BY <1>1, TopWave DEF WaveInv, Top, Types

\* Every wave that stays is sound, and so is the one a step makes.
LEMMA WaveStep ==
    ASSUME Types, NodeInv, WaveInv, ListenInv, Effect, Grows
    PROVE  WaveInv'
  <1>1. \A i \in WaveIndex : stack[i] \in LinkedWave
    BY DEF WaveIndex, Types, Wired
  <1>2. ASSUME NEW i \in WaveIndex, NEW w, w = stack[i] PROVE GoodWave(w)'
    <2>1. w \in LinkedWave /\ GoodWave(w)
      BY <1>1, <1>2 DEF WaveInv
    <2> QED
      BY <2>1, GoodWaveGrows
  <1>3. ASSUME NEW v, GoodWave(v)',
               \A i \in WaveIndex' : stack'[i] = v \/ (i \in WaveIndex /\ stack'[i] = stack[i])
        PROVE  WaveInv'
    <2> SUFFICES ASSUME NEW i \in WaveIndex' PROVE GoodWave(stack[i])'
      BY DEF WaveInv
    <2>1. PICK w : w = stack'[i]
      OBVIOUS
    <2>2. GoodWave(w)'
      BY <1>2, <1>3, <2>1
    <2> QED
      BY <2>1, <2>2 DEF GoodWave
  <1>4. ASSUME \A i \in WaveIndex' : i \in WaveIndex /\ stack'[i] = stack[i] PROVE WaveInv'
    <2> SUFFICES ASSUME NEW i \in WaveIndex' PROVE GoodWave(stack[i])'
      BY DEF WaveInv
    <2>1. PICK w : w = stack'[i]
      OBVIOUS
    <2>2. GoodWave(w)'
      BY <1>2, <1>4, <2>1
    <2> QED
      BY <2>1, <2>2 DEF GoodWave
  <1>5. ASSUME UNCHANGED stack PROVE WaveInv'
    BY <1>4, <1>5 DEF WaveIndex
  <1>6. \A n \in Node : Settled(n) => Settled(n)'
    BY DEF Grows, Settled
  <1>7. ASSUME NEW n, Cancels(n) PROVE WaveInv'
    <2>1. n \in Node /\ Settled(n)' /\ stack' = Append(stack, NewWave(n)) /\ UNCHANGED listeners
      BY <1>7, BoundsAssumption DEF Cancels, Settles, Types, Shape, Node
    <2>2. PICK v : v = NewWave(n) /\ v.disp = n /\ v.rest = listeners'[n] /\ v.tasks = <<>>
                   /\ v.cleanups = <<>>
      BY <2>1 DEF NewWave
    <2>3. \A x : ~InSeq(x, v.tasks) /\ ~InSeq(x, v.cleanups)
      BY <2>2 DEF InSeq
    <2>4. GoodWave(v)'
      BY <2>1, <2>2, <2>3, BoundsAssumption DEF GoodWave, Node, None
    <2>5. \A i \in WaveIndex' : stack'[i] = v \/ (i \in WaveIndex /\ stack'[i] = stack[i])
      BY <2>1, <2>2, PushKeeps DEF Types
    <2> QED
      BY <1>3, <2>4, <2>5
  <1>8. ASSUME NEW w, Replaces(w), GoodWave(w)' PROVE WaveInv'
    <2>1. \A i \in WaveIndex' : stack'[i] = w \/ (i \in WaveIndex /\ stack'[i] = stack[i])
      BY <1>8, ReplaceKeeps DEF Types
    <2> QED
      BY <1>3, <1>8, <2>1
  <1>9. ASSUME NEW w, Replaces(w) PROVE GoodWave(Top) /\ Top \in LinkedWave /\ w \in LinkedWave
    BY <1>9, TopGood DEF Replaces
  <1>10. ASSUME NEW m \in Linked, Settled(Carrier(m)) PROVE Settled(Carrier(m))'
    <2>1. m \in 1 .. next /\ Carrier(m) \in Node
      BY <1>10, BoundsAssumption DEF Linked, Carrier, DoneOf, Background
    <2>2. (Carrier(m))' = Carrier(m)
      BY <2>1 DEF Grows
    <2>3. err'[Carrier(m)] # NoErr
      BY <1>6, <1>10, <2>1 DEF Settled
    <2> QED
      BY <2>2, <2>3 DEF Settled
  <1>11. ASSUME NEW n, NEW w, RunsTask(n, w) PROVE WaveInv'
    <2>1. /\ GoodWave(Top) /\ Top \in LinkedWave /\ w \in LinkedWave /\ Replaces(w)
          /\ UNCHANGED <<treeVars, listeners>>
      BY <1>9, <1>11 DEF RunsTask
    <2>2. n \in Node /\ Settled(n)' /\ w.cleanups = Top.cleanups /\ Top.disp = None
      BY <1>11, BoundsAssumption DEF RunsTask, Settles, Types, Shape, Node
    <2>3. \/ w.disp = None /\ w.rest = Top.rest
          \/ w.disp = n /\ w.rest = listeners[n]
      BY <1>11 DEF RunsTask
    <2>4. \A m : InSeq(m, w.tasks) => InSeq(m, Top.tasks)
      BY <1>11 DEF RunsTask
    <2>5. w.disp # None => Settled(w.disp)'
      BY <2>2, <2>3
    <2>6. \A m \in Node : InSeq(m, w.cleanups) => Settled(m)'
      BY <1>6, <2>1, <2>2 DEF GoodWave
    <2>7. Linked' = Linked
      BY <2>1 DEF Linked, treeVars
    <2>8. \A m \in Linked : InSeq(m, w.tasks) => Settled(Carrier(m))'
      BY <1>10, <2>1, <2>4 DEF GoodWave
    <2>9. \A l \in Listener : InSeq(l, w.rest) => w.disp # None /\ InSeq(l, listeners'[w.disp])
      BY <2>1, <2>2, <2>3, BoundsAssumption DEF GoodWave, Node, None
    <2>10. GoodWave(w)'
      BY <2>5, <2>6, <2>7, <2>8, <2>9 DEF GoodWave
    <2> QED
      BY <1>8, <2>1, <2>10
  <1>12. ASSUME NEW l, NEW w, Calls(l, w) PROVE WaveInv'
    <2>1. /\ GoodWave(Top) /\ Top \in LinkedWave /\ w \in LinkedWave /\ Replaces(w)
          /\ UNCHANGED <<treeVars, listeners, err>>
      BY <1>9, <1>12 DEF Calls
    <2>2. /\ w.disp = Top.disp /\ Top.disp \in Node /\ w.cleanups = Top.cleanups /\ l \in Listener
          /\ \A x : InSeq(x, Top.rest) <=> x = l \/ InSeq(x, w.rest)
          /\ \A m : InSeq(m, w.tasks) =>
                InSeq(m, Top.tasks) \/ (m \in Node /\ l = ChildListener(m))
      BY <1>12 DEF Calls
    <2>3. Top.disp # None
      BY <2>2, BoundsAssumption DEF Node, None
    <2>4. InSeq(l, listeners[Top.disp]) /\ Settled(Top.disp)
      BY <2>1, <2>2, <2>3 DEF GoodWave
    <2>5. \A m \in Node : l = ChildListener(m) => Settled(Carrier(m))
      BY <2>2, <2>4 DEF ListenInv
    <2>6. Linked' = Linked
      BY <2>1 DEF Linked, treeVars
    <2>7. \A m \in Linked : InSeq(m, w.tasks) => Settled(Carrier(m))'
      BY <1>10, <2>1, <2>2, <2>5 DEF GoodWave
    <2>8. /\ w.disp # None => Settled(w.disp)'
          /\ \A m \in Node : InSeq(m, w.cleanups) => Settled(m)'
      BY <1>6, <2>1, <2>2, <2>4 DEF GoodWave
    <2>9. \A x \in Listener : InSeq(x, w.rest) => w.disp # None /\ InSeq(x, listeners'[w.disp])
      BY <2>1, <2>2, <2>3 DEF GoodWave
    <2>10. GoodWave(w)'
      BY <2>6, <2>7, <2>8, <2>9 DEF GoodWave
    <2> QED
      BY <1>8, <2>1, <2>10
  <1>13. ASSUME NEW w, Shifts(w) PROVE WaveInv'
    <2>1. /\ GoodWave(Top) /\ Top \in LinkedWave /\ w \in LinkedWave /\ Replaces(w)
          /\ UNCHANGED <<treeVars, listeners, err>>
      BY <1>9, <1>13 DEF Shifts
    <2>2. /\ w.tasks = Top.tasks
          /\ w.disp # None => w.disp = Top.disp
          /\ \A l : InSeq(l, w.rest) => w.disp = Top.disp /\ InSeq(l, Top.rest)
          /\ \A n : InSeq(n, w.cleanups) => InSeq(n, Top.cleanups) \/ n = Top.disp
      BY <1>13 DEF Shifts
    <2>3. Linked' = Linked
      BY <2>1 DEF Linked, treeVars
    <2>4. \A m \in Linked : InSeq(m, w.tasks) => Settled(Carrier(m))'
      BY <1>10, <2>1, <2>2 DEF GoodWave
    <2>5. \A m \in Node : m # None
      BY BoundsAssumption DEF Node, None
    <2>6. /\ w.disp # None => Settled(w.disp)'
          /\ \A m \in Node : InSeq(m, w.cleanups) => Settled(m)'
      BY <2>1, <2>2, <2>5 DEF GoodWave, Settled
    <2>7. \A x \in Listener : InSeq(x, w.rest) => w.disp # None /\ InSeq(x, listeners'[w.disp])
      BY <2>1, <2>2 DEF GoodWave
    <2>8. GoodWave(w)'
      BY <2>3, <2>4, <2>6, <2>7 DEF GoodWave
    <2> QED
      BY <1>8, <2>1, <2>8
  <1>14. CASE CancelReturns
    BY <1>4, <1>14, PopKeeps DEF Types
  <1>15. CASE \/ \E n, p : Constructs(n, p)
              \/ \E r, n : Registers(r, n)
              \/ \E r \in Reg : StopReg(r)
              \/ RunMicrotask \/ Idles
    BY <1>5, <1>15 DEF Constructs, Registers, StopReg, RunMicrotask, Idles
  <1> QED
    BY <1>7, <1>11, <1>12, <1>13, <1>14, <1>15 DEF Effect

\* A wave keeps its caller, and a new one is of a context that just settled.
LEMMA CallerStep ==
    ASSUME Types, CallerInv, Effect, Grows
    PROVE  CallerInv'
  <1>1. \A i \in WaveIndex : stack[i] \in LinkedWave
    BY DEF WaveIndex, Types, Wired
  <1>2. \A i \in WaveIndex : stack[i].caller \in Node /\ Settled(stack[i].caller)
    BY <1>1 DEF LinkedWave, CallerInv
  <1>3. \A n \in Node : Settled(n) => Settled(n)'
    BY DEF Grows, Settled
  <1>4. ASSUME NEW i \in WaveIndex PROVE err'[stack[i].caller] # NoErr
    BY <1>2, <1>3 DEF Settled
  <1>5. ASSUME NEW c, err'[c] # NoErr,
               \A i \in WaveIndex' : \/ stack'[i].caller = c
                                     \/ i \in WaveIndex /\ stack'[i] = stack[i]
        PROVE  CallerInv'
    BY <1>4, <1>5 DEF CallerInv, Settled
  <1>6. ASSUME NEW n, Cancels(n) PROVE CallerInv'
    <2>1. n \in Node /\ Settled(n)' /\ stack' = Append(stack, NewWave(n))
      BY <1>6, BoundsAssumption DEF Cancels, Settles, Types, Shape, Node
    <2>2. PICK v : v = NewWave(n)
      OBVIOUS
    <2>3. v.caller = n
      BY <2>2 DEF NewWave
    <2>4. \A i \in WaveIndex' : stack'[i] = v \/ (i \in WaveIndex /\ stack'[i] = stack[i])
      BY <2>1, <2>2, PushKeeps DEF Types
    <2> QED
      BY <1>5, <2>1, <2>3, <2>4 DEF Settled
  <1>7. ASSUME NEW w, Replaces(w) PROVE CallerInv'
    <2>1. \A i \in WaveIndex' : stack'[i] = w \/ (i \in WaveIndex /\ stack'[i] = stack[i])
      BY <1>7, ReplaceKeeps DEF Types
    <2>2. Len(stack) \in WaveIndex /\ w.caller = stack[Len(stack)].caller
      BY <1>7 DEF Replaces, Top, WaveIndex, Types, Wired
    <2>3. err'[w.caller] # NoErr
      BY <1>4, <2>2
    <2> QED
      BY <1>5, <2>1, <2>3
  <1>8. ASSUME \A i \in WaveIndex' : i \in WaveIndex /\ stack'[i] = stack[i] PROVE CallerInv'
    BY <1>4, <1>8 DEF CallerInv, Settled
  <1>9. CASE CancelReturns
    BY <1>8, <1>9, PopKeeps DEF Types
  <1>10. ASSUME UNCHANGED stack PROVE CallerInv'
    BY <1>8, <1>10 DEF WaveIndex
  <1> QED
    BY <1>6, <1>7, <1>9, <1>10
    DEF Effect, Constructs, RunsTask, Calls, Shifts, Registers, StopReg, RunMicrotask, Idles

\* The new context derives from the signal of its parent.
LEMMA NewCarrier ==
    ASSUME Types, NEW n, NEW p, Constructs(n, p)
    PROVE  (Carrier(n))' = DoneOf(p)
  <1>1. p # Background => p \in Node /\ p # n
    BY BoundsAssumption DEF Constructs, Types, Shape, Node, Background
  <1>2. parent'[n] = p /\ (p # Background => done'[p] = done[p])
    BY <1>1 DEF Constructs
  <1> QED
    BY <1>2 DEF Carrier, DoneOf

\* No registration becomes unused again.
LEMMA RegsUsed ==
    ASSUME Types, Effect
    PROVE  \A r \in Reg : regs[r].state # "unused" => regs'[r].state # "unused"
  <1>1. CASE UNCHANGED regs
    BY <1>1
  <1>2. ASSUME NEW r, NEW s \in {"admitted", "ran", "stopped"}, regs' = [regs EXCEPT ![r].state = s]
        PROVE  \A q \in Reg : regs[q].state # "unused" => regs'[q].state # "unused"
    BY <1>2 DEF Types, Shape
  <1>3. ASSUME NEW r, NEW n, Registers(r, n)
        PROVE  \A q \in Reg : regs[q].state # "unused" => regs'[q].state # "unused"
    BY <1>3 DEF Registers
  <1>4. ASSUME NEW l, NEW w, Calls(l, w)
        PROVE  \A q \in Reg : regs[q].state # "unused" => regs'[q].state # "unused"
    BY <1>1, <1>2, <1>4 DEF Calls
  <1>5. CASE RunMicrotask \/ \E r \in Reg : StopReg(r)
    BY <1>2, <1>5 DEF RunMicrotask, StopReg
  <1> QED
    BY <1>1, <1>3, <1>4, <1>5
    DEF Effect, Constructs, Cancels, RunsTask, Shifts, CancelReturns, Idles

\* A signal gets a listener only of the new child or of the new registration.
LEMMA ListenStep ==
    ASSUME Types, NodeInv, ListenInv, Effect, Grows
    PROVE  ListenInv'
  <1>0. /\ \A r \in Reg : regs[r].state # "unused" => regs'[r].state # "unused"
        /\ \A m \in 1 .. next : (Carrier(m))' = Carrier(m)
        /\ next <= next' /\ next \in Nat /\ next' \in Nat
        /\ \A m \in Node : m <= next => m \in 1 .. next
        /\ \A m \in Node : m \in Nat
    BY RegsUsed DEF Grows, Node
  <1>1. CASE UNCHANGED listeners
    BY <1>0, <1>1 DEF ListenInv
  <1>2. ASSUME NEW n, NEW p, Constructs(n, p), DoneOf(p) \in 1 .. next,
               Listen(DoneOf(p), ChildListener(n))
        PROVE  ListenInv'
    <2>1. n \in Node /\ n <= next' /\ (Carrier(n))' = DoneOf(p)
      BY <1>2, NewCarrier DEF Constructs, Node
    <2>2. \A d \in Node : \A x : InSeq(x, listeners'[d]) <=>
             InSeq(x, listeners[d]) \/ (d = DoneOf(p) /\ x = ChildListener(n))
      <3>1. DoneOf(p) \in Node
        BY <1>2, BoundsAssumption DEF Types, Shape, Node
      <3> QED
        BY <1>2, <3>1, ListenEffect
    <2> SUFFICES ASSUME NEW c \in Node
                 PROVE  /\ \A m \in Node : InSeq(ChildListener(m), listeners'[c]) =>
                              m <= next' /\ (Carrier(m))' = c
                        /\ \A r \in Reg : InSeq(RegListener(r), listeners'[c]) =>
                              regs'[r].state # "unused"
                        /\ c > next' => \A l \in Listener : ~InSeq(l, listeners'[c])
      BY DEF ListenInv
    <2>3. ASSUME NEW m \in Node, InSeq(ChildListener(m), listeners'[c])
          PROVE  m <= next' /\ (Carrier(m))' = c
      <3>1. CASE InSeq(ChildListener(m), listeners[c])
        BY <1>0, <3>1 DEF ListenInv
      <3>2. CASE c = DoneOf(p) /\ m = n
        BY <2>1, <3>2
      <3> QED
        BY <2>2, <2>3, <3>1, <3>2, ListenerNames
    <2>4. \A r \in Reg : InSeq(RegListener(r), listeners'[c]) => regs'[r].state # "unused"
      BY <1>0, <2>2, ListenerNames DEF ListenInv
    <2>5. ASSUME c > next' PROVE \A l \in Listener : ~InSeq(l, listeners'[c])
      <3>1. c > next /\ c # DoneOf(p)
        BY <1>0, <1>2, <2>5
      <3> QED
        BY <2>2, <3>1 DEF ListenInv
    <2> QED
      BY <2>3, <2>4, <2>5
  <1>3. ASSUME NEW r, NEW n, Registers(r, n), done[n] \in 1 .. next,
               Listen(done[n], RegListener(r)), regs'[r].state = "pending"
        PROVE  ListenInv'
    <2>1. r \in Reg /\ UNCHANGED treeVars
      BY <1>3 DEF Registers
    <2>2. \A d \in Node : \A x : InSeq(x, listeners'[d]) <=>
             InSeq(x, listeners[d]) \/ (d = done[n] /\ x = RegListener(r))
      <3>1. done[n] \in Node
        BY <1>3, BoundsAssumption DEF Types, Shape, Node
      <3> QED
        BY <1>3, <3>1, ListenEffect
    <2> SUFFICES ASSUME NEW c \in Node
                 PROVE  /\ \A m \in Node : InSeq(ChildListener(m), listeners'[c]) =>
                              m <= next' /\ (Carrier(m))' = c
                        /\ \A q \in Reg : InSeq(RegListener(q), listeners'[c]) =>
                              regs'[q].state # "unused"
                        /\ c > next' => \A l \in Listener : ~InSeq(l, listeners'[c])
      BY DEF ListenInv
    <2>3. ASSUME NEW m \in Node, InSeq(ChildListener(m), listeners'[c])
          PROVE  m <= next' /\ (Carrier(m))' = c
      <3>1. InSeq(ChildListener(m), listeners[c])
        BY <2>2, <2>3, ListenerNames
      <3> QED
        BY <1>0, <3>1 DEF ListenInv
    <2>4. \A q \in Reg : InSeq(RegListener(q), listeners'[c]) => regs'[q].state # "unused"
      BY <1>0, <1>3, <2>2, ListenerNames DEF ListenInv
    <2>5. ASSUME c > next' PROVE \A l \in Listener : ~InSeq(l, listeners'[c])
      <3>1. c > next /\ c # done[n]
        BY <1>0, <1>3, <2>5
      <3> QED
        BY <2>2, <3>1 DEF ListenInv
    <2> QED
      BY <2>3, <2>4, <2>5
  <1>4. ASSUME NEW n, NEW p, Constructs(n, p) PROVE ListenInv'
    BY <1>1, <1>2, <1>4 DEF Constructs
  <1>5. ASSUME NEW r, NEW n, Registers(r, n) PROVE ListenInv'
    BY <1>1, <1>3, <1>5 DEF Registers
  <1> QED
    BY <1>1, <1>4, <1>5
    DEF Effect, Cancels, RunsTask, Calls, Shifts, CancelReturns, StopReg, RunMicrotask, Idles

\* A listener that is still attached to a terminal signal stays owed until it is called.
LEMMA OwedStep ==
    ASSUME Types, NodeInv, WaveInv, ListenInv, OwedInv, Effect, Grows
    PROVE  OwedInv'
  <1>0. \A c \in Node : c # None
    BY BoundsAssumption DEF Node, None
  <1>1. ASSUME UNCHANGED stack PROVE \A c, l : OwedCall(c, l) => OwedCall(c, l)'
    BY <1>1 DEF OwedCall, WaveIndex
  <1>2. ASSUME \A c \in Node, l \in Listener :
                  /\ l \in attached' /\ InSeq(l, listeners'[c]) /\ Settled(c)'
                  /\ ~(l \in attached /\ InSeq(l, listeners[c]) /\ Settled(c))
                  => OwedCall(c, l)',
               \A c \in Node, l \in Listener :
                  OwedCall(c, l) => OwedCall(c, l)' \/ l \notin attached'
        PROVE  OwedInv'
    BY <1>2 DEF OwedInv
  <1>3. ASSUME NEW n, NEW p, Constructs(n, p) PROVE OwedInv'
    <2>1. /\ n \in Node /\ n > next /\ next \in Nat /\ UNCHANGED stack
          /\ \A m \in Node : m # n => err'[m] = err[m]
      BY <1>3 DEF Constructs, Types, Shape
    <2>2. /\ \A l \in Listener : ~InSeq(l, listeners[n])
          /\ \A c \in Node : ~InSeq(ChildListener(n), listeners[c])
      BY <2>1 DEF ListenInv, Node
    <2>3. CASE UNCHANGED <<listeners, attached>>
      BY <1>1, <1>2, <2>1, <2>2, <2>3 DEF Settled
    <2>4. CASE /\ ~Settled(n)' /\ DoneOf(p) \in 1 .. next /\ ~Settled(DoneOf(p))
               /\ Listen(DoneOf(p), ChildListener(n))
      <3>1. DoneOf(p) \in Node /\ DoneOf(p) # n
        BY <2>1, <2>4, BoundsAssumption DEF Types, Shape, Node
      <3>2. /\ \A d \in Node : \A x : InSeq(x, listeners'[d]) <=>
                  InSeq(x, listeners[d]) \/ (d = DoneOf(p) /\ x = ChildListener(n))
            /\ attached' = attached \cup {ChildListener(n)}
        BY <2>4, <3>1, ListenEffect
      <3> QED
        BY <1>1, <1>2, <2>1, <2>2, <2>4, <3>1, <3>2 DEF Settled
    <2> QED
      BY <1>3, <2>3, <2>4 DEF Constructs
  <1>4. ASSUME NEW n, Cancels(n) PROVE OwedInv'
    <2>0. n \in 1 .. next /\ next \in 0 .. MaxNode
      BY <1>4 DEF Cancels, Settles, Types, Shape
    <2>1. /\ n \in Node /\ stack' = Append(stack, NewWave(n)) /\ UNCHANGED <<listeners, attached>>
          /\ \A m \in Node : m # n => err'[m] = err[m]
      <3>1. n \in Node
        BY <2>0, BoundsAssumption DEF Node
      <3> QED
        BY <1>4, <3>1 DEF Cancels, Settles
    <2>2. /\ \A c, l : OwedCall(c, l) => OwedCall(c, l)'
          /\ \A l : InSeq(l, listeners[n]) => OwedCall(n, l)'
      BY <2>1, PushKeeps DEF Types
    <2> QED
      BY <1>2, <2>1, <2>2 DEF Settled
  <1>5. ASSUME NEW n, NEW w, RunsTask(n, w) PROVE OwedInv'
    <2>1. /\ Replaces(w) /\ Top.disp = None /\ UNCHANGED <<listeners, attached>>
          /\ \A m \in Node : m # n \/ Settled(n) => err'[m] = err[m]
          /\ ~Settled(n) => w.disp = n /\ w.rest = listeners[n]
      BY <1>5 DEF RunsTask, Settles
    <2>2. /\ \A c, l : OwedCall(c, l) => OwedCall(c, l)' \/ Top.disp = c
          /\ \A c, l : w.disp = c /\ InSeq(l, w.rest) => OwedCall(c, l)'
      BY <2>1, ReplaceKeeps DEF Types
    <2> QED
      BY <1>0, <1>2, <2>1, <2>2 DEF Settled
  <1>6. ASSUME NEW l, NEW w, Calls(l, w) PROVE OwedInv'
    <2>1. /\ Replaces(w) /\ w.disp = Top.disp /\ attached' = attached \ {l}
          /\ UNCHANGED <<listeners, err>>
          /\ \A x : InSeq(x, Top.rest) <=> x = l \/ InSeq(x, w.rest)
      BY <1>6 DEF Calls
    <2>2. \A c, x : OwedCall(c, x) =>
             \/ OwedCall(c, x)'
             \/ Top.disp = c /\ InSeq(x, Top.rest) /\ ~(w.disp = c /\ InSeq(x, w.rest))
      BY <2>1, ReplaceKeeps DEF Types
    <2> QED
      BY <1>2, <2>1, <2>2 DEF Settled
  <1>7. ASSUME NEW w, Shifts(w) PROVE OwedInv'
    <2>1. /\ Replaces(w) /\ attached' \subseteq attached /\ UNCHANGED <<listeners, err>>
          /\ \A c \in Node : \A l : Top.disp = c /\ InSeq(l, Top.rest) => w.disp = c /\ InSeq(l, w.rest)
      BY <1>7 DEF Shifts
    <2>2. \A c, x : OwedCall(c, x) =>
             \/ OwedCall(c, x)'
             \/ Top.disp = c /\ InSeq(x, Top.rest) /\ ~(w.disp = c /\ InSeq(x, w.rest))
      BY <2>1, ReplaceKeeps DEF Types
    <2> QED
      BY <1>2, <2>1, <2>2 DEF Settled
  <1>8. CASE CancelReturns
    <2>1. UNCHANGED <<listeners, attached, err>>
      BY <1>8 DEF CancelReturns
    <2>2. \A c \in Node : \A l : OwedCall(c, l) => OwedCall(c, l)'
      BY <1>8, PopKeeps DEF Types
    <2> QED
      BY <1>2, <2>1, <2>2 DEF Settled
  <1>9. ASSUME NEW r, NEW n, Registers(r, n) PROVE OwedInv'
    <2>1. r \in Reg /\ regs[r].state = "unused" /\ UNCHANGED <<stack, err>>
      BY <1>9 DEF Registers
    <2>2. CASE UNCHANGED <<listeners, attached>>
      BY <1>1, <1>2, <2>1, <2>2 DEF Settled
    <2>3. CASE done[n] \in 1 .. next /\ ~Settled(done[n]) /\ Listen(done[n], RegListener(r))
      <3>1. done[n] \in Node
        BY <2>3, BoundsAssumption DEF Types, Shape, Node
      <3>2. /\ \A d \in Node : \A x : InSeq(x, listeners'[d]) <=>
                  InSeq(x, listeners[d]) \/ (d = done[n] /\ x = RegListener(r))
            /\ attached' = attached \cup {RegListener(r)}
        BY <2>3, <3>1, ListenEffect
      <3>3. \A c \in Node : ~InSeq(RegListener(r), listeners[c])
        BY <2>1 DEF ListenInv
      <3> QED
        BY <1>1, <1>2, <2>1, <2>3, <3>1, <3>2, <3>3 DEF Settled
    <2> QED
      BY <1>9, <2>2, <2>3 DEF Registers
  <1>10. CASE RunMicrotask \/ Idles \/ \E r \in Reg : StopReg(r)
    <2>1. attached' \subseteq attached /\ UNCHANGED <<listeners, stack, err>>
      BY <1>10 DEF RunMicrotask, Idles, StopReg
    <2> QED
      BY <1>1, <1>2, <2>1 DEF Settled
  <1> QED
    BY <1>3, <1>4, <1>5, <1>6, <1>7, <1>8, <1>9, <1>10 DEF Effect

\* A live child listens until its task is queued, and its task waits until it settles.
LEMMA ChildStep ==
    ASSUME Types, NodeInv, WaveInv, ChildInv, Effect, Grows
    PROVE  ChildInv'
  <1>0. /\ \A n \in 1 .. next : n \in Node /\ (Carrier(n) # None => Carrier(n) \in Node)
        /\ \A n \in Node : n \in Nat
    BY CarrierExists DEF Node
  <1>1. ASSUME UNCHANGED stack PROVE \A m : Tasked(m) => Tasked(m)'
    BY <1>1 DEF Tasked, WaveIndex
  <1>2. ASSUME UNCHANGED treeVars,
               \A m \in Node : ChildListener(m) \in attached' => ChildListener(m) \in attached,
               \A m \in 1 .. next : ~Settled(m)' =>
                  /\ ChildListener(m) \in attached => ChildListener(m) \in attached' \/ Tasked(m)'
                  /\ Tasked(m) => Tasked(m)'
        PROVE  ChildInv'
    <2>1. /\ next' = next
          /\ \A m \in 1 .. next : /\ (Carrier(m))' = Carrier(m)
                                  /\ CancelNode(m)' <=> CancelNode(m)
                                  /\ Settled(m) => Settled(m)'
      BY <1>0, <1>2 DEF Grows, CancelNode, Settled, treeVars
    <2>2. \A m \in Node : ChildListener(m) \in attached' => m <= next'
      BY <1>2, <2>1 DEF ChildInv
    <2>3. ASSUME NEW m \in 1 .. next', CancelNode(m)', ~Settled(m)', (Carrier(m))' # None
          PROVE  \/ /\ ChildListener(m) \in attached'
                    /\ InSeq(ChildListener(m), listeners'[(Carrier(m))'])
                 \/ Tasked(m)'
      <3>1. \/ ChildListener(m) \in attached /\ InSeq(ChildListener(m), listeners[Carrier(m)])
            \/ Tasked(m)
        BY <2>1, <2>3 DEF ChildInv
      <3>2. Carrier(m) \in Node /\ (Carrier(m))' = Carrier(m)
        BY <1>0, <2>1, <2>3
      <3>3. InSeq(ChildListener(m), listeners[Carrier(m)])
            => InSeq(ChildListener(m), listeners'[Carrier(m)])
        BY <3>2 DEF Grows
      <3> QED
        BY <1>2, <2>1, <2>3, <3>1, <3>2, <3>3
    <2> QED
      BY <2>2, <2>3 DEF ChildInv
  <1>3. ASSUME NEW n, NEW p, Constructs(n, p) PROVE ChildInv'
    <2>1. /\ n \in Node /\ n = next + 1 /\ next' = n /\ next \in Nat /\ UNCHANGED stack
          /\ \A m \in Node : m # n => err'[m] = err[m] /\ kind'[m] = kind[m]
          /\ (Carrier(n))' = DoneOf(p)
      BY <1>3, NewCarrier DEF Constructs, Types, Shape
    <2>2. \/ Settled(n)' /\ UNCHANGED attached
          \/ (CancelNode(n)' => DoneOf(p) = None) /\ UNCHANGED attached
          \/ /\ InSeq(ChildListener(n), listeners'[DoneOf(p)])
             /\ attached' = attached \cup {ChildListener(n)}
      <3>1. CASE DoneOf(p) \in 1 .. next /\ Listen(DoneOf(p), ChildListener(n))
        <4>1. DoneOf(p) \in Node
          BY <1>0, <3>1
        <4> QED
          BY <3>1, <4>1, ListenEffect
      <3> QED
        BY <1>3, <3>1 DEF Constructs
    <2>3. /\ attached \subseteq attached'
          /\ \A m \in Node : m # n /\ ChildListener(m) \in attached' => ChildListener(m) \in attached
      BY <2>2, ListenerNames
    <2>4. \A m \in Node : ChildListener(m) \in attached' => m <= next'
      BY <1>0, <2>1, <2>3 DEF ChildInv
    <2>5. ASSUME NEW m \in 1 .. next', CancelNode(m)', ~Settled(m)', (Carrier(m))' # None
          PROVE  \/ /\ ChildListener(m) \in attached'
                    /\ InSeq(ChildListener(m), listeners'[(Carrier(m))'])
                 \/ Tasked(m)'
      <3>1. CASE m = n
        BY <2>1, <2>2, <2>5, <3>1
      <3>2. CASE m # n
        <4>1. m \in 1 .. next /\ m \in Node
          BY <1>0, <2>1, <3>2
        <4>2. CancelNode(m) /\ ~Settled(m) /\ (Carrier(m))' = Carrier(m)
          BY <2>1, <2>5, <3>2, <4>1 DEF Grows, CancelNode, Settled
        <4>3. \/ ChildListener(m) \in attached /\ InSeq(ChildListener(m), listeners[Carrier(m)])
              \/ Tasked(m)
          BY <2>5, <4>1, <4>2 DEF ChildInv
        <4>4. Carrier(m) \in Node
          BY <1>0, <2>5, <4>1, <4>2
        <4>5. InSeq(ChildListener(m), listeners[Carrier(m)])
              => InSeq(ChildListener(m), listeners'[Carrier(m)])
          BY <4>4 DEF Grows
        <4> QED
          BY <1>1, <2>1, <2>3, <4>2, <4>3, <4>5
      <3> QED
        BY <3>1, <3>2
    <2> QED
      BY <2>4, <2>5 DEF ChildInv
  <1>4. ASSUME NEW n, Cancels(n) PROVE ChildInv'
    <2>1. n \in Node /\ stack' = Append(stack, NewWave(n)) /\ UNCHANGED <<treeVars, attached>>
      BY <1>0, <1>4 DEF Cancels, Settles
    <2>2. \A m : Tasked(m) => Tasked(m)'
      BY <2>1, PushKeeps DEF Types
    <2> QED
      BY <1>2, <2>1, <2>2
  <1>5. ASSUME NEW n, NEW w, RunsTask(n, w) PROVE ChildInv'
    <2>1. /\ Replaces(w) /\ Settled(n)' /\ UNCHANGED <<treeVars, attached>>
          /\ \A m : InSeq(m, Top.tasks) <=> m = n \/ InSeq(m, w.tasks)
      BY <1>5 DEF RunsTask, Settles
    <2>2. \A m : Tasked(m) => Tasked(m)' \/ (InSeq(m, Top.tasks) /\ ~InSeq(m, w.tasks))
      BY <2>1, ReplaceKeeps DEF Types
    <2> QED
      BY <1>2, <2>1, <2>2
  <1>6. ASSUME NEW l, NEW w, Calls(l, w) PROVE ChildInv'
    <2>1. /\ Replaces(w) /\ attached' = attached \ {l} /\ UNCHANGED treeVars
          /\ \A m : InSeq(m, w.tasks) <=>
                InSeq(m, Top.tasks) \/ (l \in attached /\ m \in Node /\ l = ChildListener(m))
      BY <1>6 DEF Calls
    <2>2. /\ \A m : Tasked(m) => Tasked(m)' \/ (InSeq(m, Top.tasks) /\ ~InSeq(m, w.tasks))
          /\ \A m : InSeq(m, w.tasks) => Tasked(m)'
      BY <2>1, ReplaceKeeps DEF Types
    <2>3. \A m \in 1 .. next : ChildListener(m) \in attached =>
             ChildListener(m) \in attached' \/ Tasked(m)'
      BY <1>0, <2>1, <2>2
    <2> QED
      BY <1>2, <2>1, <2>2, <2>3
  <1>7. ASSUME NEW w, Shifts(w) PROVE ChildInv'
    <2>1. /\ Replaces(w) /\ w.tasks = Top.tasks /\ attached' \subseteq attached
          /\ UNCHANGED <<treeVars, err>>
          /\ \A l \in attached :
                l \in attached' \/ \E n \in Node : InSeq(n, Top.cleanups) /\ l = ChildListener(n)
      BY <1>7 DEF Shifts
    <2>2. \A m : Tasked(m) => Tasked(m)' \/ (InSeq(m, Top.tasks) /\ ~InSeq(m, w.tasks))
      BY <2>1, ReplaceKeeps DEF Types
    <2>3. GoodWave(Top)
      BY <2>1, TopGood DEF Replaces
    <2>4. \A m \in 1 .. next : ~Settled(m)' /\ ChildListener(m) \in attached
             => ChildListener(m) \in attached'
      BY <2>1, <2>3, ListenerNames DEF GoodWave, Settled
    <2> QED
      BY <1>2, <2>1, <2>2, <2>4
  <1>8. CASE CancelReturns
    <2>1. UNCHANGED <<treeVars, attached>>
      BY <1>8 DEF CancelReturns
    <2>2. \A m : Tasked(m) => Tasked(m)'
      BY <1>8, PopKeeps DEF Types
    <2> QED
      BY <1>2, <2>1, <2>2
  <1>9. ASSUME UNCHANGED <<treeVars, stack>>,
               \A m \in Node : ChildListener(m) \in attached' <=> ChildListener(m) \in attached
        PROVE  ChildInv'
    BY <1>0, <1>1, <1>2, <1>9
  <1>10. ASSUME NEW r, NEW n, Registers(r, n) PROVE ChildInv'
    <2>1. attached' = attached \/ attached' = attached \cup {RegListener(r)}
      BY <1>10 DEF Registers, Listen
    <2> QED
      BY <1>9, <1>10, <2>1, ListenerNames DEF Registers
  <1>11. CASE RunMicrotask \/ Idles \/ \E r \in Reg : StopReg(r)
    BY <1>9, <1>11, ListenerNames DEF RunMicrotask, Idles, StopReg
  <1> QED
    BY <1>3, <1>4, <1>5, <1>6, <1>7, <1>8, <1>10, <1>11 DEF Effect

\* Registrations follow their listeners and the microtask queue.
LEMMA RegStep ==
    ASSUME Types, NodeInv, RegInv, Effect, Grows
    PROVE  RegInv'
  <1>0. /\ \A c \in 1 .. next : c \in Node
        /\ \A c \in 1 .. next : done[c] # None => done[c] \in Node
    BY BoundsAssumption DEF Types, Shape, Node, NodeInv
  <1>1. ASSUME NEW q \in Reg, regs'[q] = regs[q],
               RegListener(q) \in attached' <=> RegListener(q) \in attached,
               InSeq(q, micro') <=> InSeq(q, micro)
        PROVE  RegOk(q)'
    <2>1. RegOk(q)
      BY DEF RegInv
    <2>2. PICK c : c = regs[q].ctx
      OBVIOUS
    <2>3. CASE regs[q].state = "unused"
      BY <1>1, <2>1, <2>3 DEF RegOk
    <2>4. CASE regs[q].state # "unused"
      <3>1. c \in 1 .. next /\ c \in 1 .. next' /\ done'[c] = done[c]
        BY <2>1, <2>2, <2>4 DEF RegOk, Grows
      <3>2. done[c] # None /\ InSeq(RegListener(q), listeners[done[c]])
            => InSeq(RegListener(q), listeners'[done[c]])
        BY <1>0, <3>1 DEF Grows
      <3> QED
        BY <1>1, <2>1, <2>2, <3>1, <3>2 DEF RegOk
    <2> QED
      BY <2>3, <2>4
  <1>2. ASSUME UNCHANGED <<regs, micro>>,
               \A q \in Reg : RegListener(q) \in attached' <=> RegListener(q) \in attached
        PROVE  RegInv'
    BY <1>1, <1>2 DEF RegInv
  <1>3. micro \in Seq(Reg) /\ Distinct(micro)
    BY DEF Types, Shape, RegInv
  <1>4. ASSUME NEW r \in Reg, ~InSeq(r, micro), micro' = Append(micro, r)
        PROVE  /\ Distinct(micro') /\ InSeq(r, micro')
               /\ \A q \in Reg : q # r => (InSeq(q, micro') <=> InSeq(q, micro))
    BY <1>3, <1>4, Members, DistinctFacts
  <1>5. ASSUME NEW r \in Reg, NEW s \in RegState, regs' = [regs EXCEPT ![r].state = s]
        PROVE  /\ regs'[r].state = s /\ regs'[r].ctx = regs[r].ctx
               /\ \A q \in Reg : q # r => regs'[q] = regs[q]
    BY <1>5 DEF Types, Shape
  <1>6. ASSUME NEW n, NEW p, Constructs(n, p) PROVE RegInv'
    <2>1. attached' = attached \/ attached' = attached \cup {ChildListener(n)}
      BY <1>6 DEF Constructs, Listen
    <2> QED
      BY <1>2, <1>6, <2>1, ListenerNames DEF Constructs
  <1>7. ASSUME NEW w, Shifts(w) PROVE RegInv'
    <2>1. /\ UNCHANGED <<regs, micro>> /\ attached' \subseteq attached
          /\ \A l \in attached : l \in attached' \/ \E n \in Node : l = ChildListener(n)
      BY <1>7 DEF Shifts
    <2> QED
      BY <1>2, <2>1, ListenerNames
  <1>8. ASSUME NEW l, NEW w, Calls(l, w) PROVE RegInv'
    <2>1. attached' = attached \ {l} /\ UNCHANGED treeVars
      BY <1>8 DEF Calls
    <2>2. CASE (l \notin attached \/ l.on = "child") /\ UNCHANGED <<regs, micro>>
      <3>1. \A q \in Reg : l # RegListener(q) \/ l \notin attached
        BY <2>2 DEF RegListener
      <3> QED
        BY <1>2, <2>1, <2>2, <3>1
    <2>3. ASSUME NEW r \in Reg, l \in attached, l = RegListener(r),
                 \/ regs' = [regs EXCEPT ![r].state = "admitted"] /\ micro' = Append(micro, r)
                 \/ regs' = [regs EXCEPT ![r].state = "ran"] /\ UNCHANGED micro
          PROVE  RegInv'
      <3>1. RegOk(r) /\ regs[r].state = "pending" /\ ~InSeq(r, micro)
        BY <2>3 DEF RegInv, RegOk
      <3>2. RegListener(r) \notin attached'
        BY <2>1, <2>3
      <3>3. \A q \in Reg : q # r => (RegListener(q) \in attached' <=> RegListener(q) \in attached)
        BY <2>1, <2>3, ListenerNames
      <3>4. regs[r].ctx \in 1 .. next'
        BY <2>1, <3>1 DEF RegOk, treeVars
      <3>5. CASE regs' = [regs EXCEPT ![r].state = "admitted"] /\ micro' = Append(micro, r)
        <4>1. /\ regs'[r].state = "admitted" /\ regs'[r].ctx = regs[r].ctx
              /\ \A q \in Reg : q # r => regs'[q] = regs[q]
          BY <1>5, <3>5 DEF RegState
        <4>2. /\ Distinct(micro') /\ InSeq(r, micro')
              /\ \A q \in Reg : q # r => (InSeq(q, micro') <=> InSeq(q, micro))
          BY <1>4, <3>1, <3>5
        <4>3. RegOk(r)'
          BY <3>2, <3>4, <4>1, <4>2 DEF RegOk
        <4> QED
          BY <1>1, <3>3, <4>1, <4>2, <4>3 DEF RegInv
      <3>6. CASE regs' = [regs EXCEPT ![r].state = "ran"] /\ UNCHANGED micro
        <4>1. /\ regs'[r].state = "ran" /\ regs'[r].ctx = regs[r].ctx
              /\ \A q \in Reg : q # r => regs'[q] = regs[q]
          BY <1>5, <3>6 DEF RegState
        <4>2. RegOk(r)'
          BY <3>1, <3>2, <3>4, <3>6, <4>1 DEF RegOk
        <4> QED
          BY <1>1, <1>3, <3>3, <3>6, <4>1, <4>2 DEF RegInv
      <3> QED
        BY <2>3, <3>5, <3>6
    <2> QED
      BY <1>8, <2>2, <2>3 DEF Calls
  <1>9. ASSUME NEW r, NEW n, Registers(r, n) PROVE RegInv'
    <2>1. /\ r \in Reg /\ n \in 1 .. next /\ regs'[r].ctx = n /\ UNCHANGED treeVars
          /\ \A q \in Reg : q # r => regs'[q] = regs[q]
          /\ RegOk(r) /\ regs[r].state = "unused"
      BY <1>9 DEF Registers, RegInv
    <2>2. RegListener(r) \notin attached /\ ~InSeq(r, micro) /\ n \in 1 .. next' /\ done' = done
      BY <2>1 DEF RegOk, treeVars
    <2>3. ASSUME RegOk(r)', Distinct(micro'),
                 \A q \in Reg : q # r => /\ RegListener(q) \in attached' <=> RegListener(q) \in attached
                                         /\ InSeq(q, micro') <=> InSeq(q, micro)
          PROVE  RegInv'
      BY <1>1, <2>1, <2>3 DEF RegInv
    <2>4. CASE /\ regs'[r].state = "pending" /\ done[n] \in 1 .. next
               /\ Listen(done[n], RegListener(r)) /\ UNCHANGED micro
      <3>1. /\ InSeq(RegListener(r), listeners'[done[n]])
            /\ attached' = attached \cup {RegListener(r)}
        BY <1>0, <2>4, ListenEffect
      <3>2. RegOk(r)'
        BY <2>1, <2>2, <2>4, <3>1 DEF RegOk
      <3> QED
        BY <1>3, <2>3, <2>4, <3>1, <3>2, ListenerNames
    <2>5. CASE /\ regs'[r].state = "pending" /\ done[n] = None
               /\ UNCHANGED <<listeners, attached, micro>>
      <3>1. RegOk(r)'
        BY <2>1, <2>2, <2>5 DEF RegOk
      <3> QED
        BY <1>3, <2>3, <2>5, <3>1
    <2>6. CASE /\ regs'[r].state = "admitted" /\ micro' = Append(micro, r)
               /\ UNCHANGED <<listeners, attached>>
      <3>1. /\ Distinct(micro') /\ InSeq(r, micro')
            /\ \A q \in Reg : q # r => (InSeq(q, micro') <=> InSeq(q, micro))
        BY <1>4, <2>1, <2>2, <2>6
      <3>2. RegOk(r)'
        BY <2>1, <2>2, <2>6, <3>1 DEF RegOk
      <3> QED
        BY <2>3, <2>6, <3>1, <3>2
    <2> QED
      BY <1>9, <2>4, <2>5, <2>6 DEF Registers
  <1>10. ASSUME NEW r \in Reg, StopReg(r) PROVE RegInv'
    <2>1. /\ regs[r].state = "pending" /\ regs' = [regs EXCEPT ![r].state = "stopped"]
          /\ attached' = attached \ {RegListener(r)} /\ UNCHANGED <<treeVars, micro>> /\ RegOk(r)
      BY <1>10 DEF StopReg, RegInv
    <2>2. /\ regs'[r].state = "stopped" /\ regs'[r].ctx = regs[r].ctx
          /\ \A q \in Reg : q # r => regs'[q] = regs[q]
      BY <1>5, <2>1 DEF RegState
    <2>3. RegOk(r)'
      BY <2>1, <2>2 DEF RegOk, treeVars
    <2>4. \A q \in Reg : q # r => (RegListener(q) \in attached' <=> RegListener(q) \in attached)
      BY <2>1, ListenerNames
    <2> QED
      BY <1>1, <1>3, <2>1, <2>2, <2>3, <2>4 DEF RegInv
  <1>11. CASE RunMicrotask
    <2>1. PICK r : r = Head(micro)
      OBVIOUS
    <2>2. /\ micro # <<>> /\ micro' = Tail(micro) /\ regs' = [regs EXCEPT ![r].state = "ran"]
          /\ UNCHANGED <<treeVars, attached>>
      BY <1>11, <2>1 DEF RunMicrotask
    <2>3. /\ r \in Reg /\ Distinct(micro') /\ ~InSeq(r, micro')
          /\ \A q : InSeq(q, micro) <=> q = r \/ InSeq(q, micro')
      BY <1>3, <2>1, <2>2, Members, DistinctFacts, SeqFacts
    <2>4. RegOk(r) /\ regs[r].state = "admitted"
      BY <2>3 DEF RegInv, RegOk
    <2>5. /\ regs'[r].state = "ran" /\ regs'[r].ctx = regs[r].ctx
          /\ \A q \in Reg : q # r => regs'[q] = regs[q]
      BY <1>5, <2>2, <2>3 DEF RegState
    <2>6. RegOk(r)'
      BY <2>2, <2>3, <2>4, <2>5 DEF RegOk, treeVars
    <2> QED
      BY <1>1, <2>2, <2>3, <2>5, <2>6 DEF RegInv
  <1>12. CASE \/ \E n : Cancels(n)
              \/ \E n, w : RunsTask(n, w)
              \/ CancelReturns \/ Idles
    BY <1>2, <1>12 DEF Cancels, RunsTask, CancelReturns, Idles
  <1> QED
    BY <1>6, <1>7, <1>8, <1>9, <1>10, <1>11, <1>12 DEF Effect

\* A timer or a parent listener of a terminal context has its cleanup in a wave.
LEMMA CleanupStep ==
    ASSUME Types, ChildInv, CleanupOwed, Effect, Grows
    PROVE  CleanupOwed'
  <1> DEFINE Holds(m) == timerAt[m] # None \/ ChildListener(m) \in attached
  <1>0. /\ CleanupOwed <=> \A m \in Node : Settled(m) /\ Holds(m) => InCleanup(m)
        /\ CleanupOwed' <=> \A m \in Node : Settled(m)' /\ Holds(m)' => InCleanup(m)'
    BY DEF CleanupOwed, InCleanup
  <1>1. ASSUME UNCHANGED stack PROVE \A m : InCleanup(m) => InCleanup(m)'
    BY <1>1 DEF InCleanup, WaveIndex
  <1>2. \A m \in Node : m # None
    BY BoundsAssumption DEF Node, None
  <1>3. ASSUME NEW n, NEW p, Constructs(n, p) PROVE CleanupOwed'
    <2>1. /\ n \in Node /\ n > next /\ next \in Nat /\ UNCHANGED stack
          /\ \A m \in Node : m # n => err'[m] = err[m] /\ timerAt'[m] = timerAt[m]
      BY <1>3 DEF Constructs, Types, Shape
    <2>2. ChildListener(n) \notin attached
      BY <2>1 DEF ChildInv, Node
    <2>3. /\ Settled(n)' => timerAt'[n] = None /\ UNCHANGED attached
          /\ attached' = attached \/ attached' = attached \cup {ChildListener(n)}
      BY <1>3 DEF Constructs, Listen
    <2> QED
      BY <1>0, <1>1, <2>1, <2>2, <2>3, ListenerNames DEF Settled
  <1>4. ASSUME NEW n, Cancels(n) PROVE CleanupOwed'
    <2>1. /\ n \in Node /\ stack' = Append(stack, NewWave(n)) /\ UNCHANGED attached
          /\ \A m \in Node : m # n => err'[m] = err[m]
          /\ \A m \in Node : timerAt'[m] # None => timerAt[m] # None
      BY <1>4, BoundsAssumption DEF Cancels, Settles, Types, Shape, Node
    <2>2. InCleanup(n)' /\ \A m : InCleanup(m) => InCleanup(m)'
      BY <2>1, PushKeeps DEF Types
    <2> QED
      BY <1>0, <2>1, <2>2 DEF Settled
  <1>5. ASSUME NEW n, NEW w, RunsTask(n, w) PROVE CleanupOwed'
    <2>1. /\ Replaces(w) /\ Top.disp = None /\ w.cleanups = Top.cleanups
          /\ UNCHANGED <<attached, timerAt>>
          /\ \A m \in Node : m # n \/ Settled(n) => err'[m] = err[m]
          /\ ~Settled(n) => w.disp = n
      BY <1>5 DEF RunsTask, Settles
    <2>2. /\ \A m : InCleanup(m) =>
                \/ InCleanup(m)'
                \/ /\ Top.disp = m \/ InSeq(m, Top.cleanups)
                   /\ ~(w.disp = m \/ InSeq(m, w.cleanups))
          /\ \A m : w.disp = m \/ InSeq(m, w.cleanups) => InCleanup(m)'
      BY <2>1, ReplaceKeeps DEF Types
    <2> QED
      BY <1>0, <1>2, <2>1, <2>2 DEF Settled
  <1>6. ASSUME NEW l, NEW w, Calls(l, w) PROVE CleanupOwed'
    <2>1. /\ Replaces(w) /\ w.disp = Top.disp /\ w.cleanups = Top.cleanups
          /\ attached' = attached \ {l} /\ UNCHANGED <<timerAt, err>>
      BY <1>6 DEF Calls
    <2>2. \A m : InCleanup(m) =>
             \/ InCleanup(m)'
             \/ /\ Top.disp = m \/ InSeq(m, Top.cleanups)
                /\ ~(w.disp = m \/ InSeq(m, w.cleanups))
      BY <2>1, ReplaceKeeps DEF Types
    <2> QED
      BY <1>0, <2>1, <2>2 DEF Settled
  <1>7. ASSUME NEW w, Shifts(w) PROVE CleanupOwed'
    <2>1. /\ Replaces(w) /\ attached' \subseteq attached /\ UNCHANGED err
          /\ \A n \in Node : Top.disp = n \/ InSeq(n, Top.cleanups) =>
                \/ w.disp = n \/ InSeq(n, w.cleanups)
                \/ timerAt'[n] = None /\ ChildListener(n) \notin attached'
          /\ \A n \in Node : timerAt'[n] # None => timerAt[n] # None
      BY <1>7 DEF Shifts
    <2>2. \A m : InCleanup(m) =>
             \/ InCleanup(m)'
             \/ /\ Top.disp = m \/ InSeq(m, Top.cleanups)
                /\ ~(w.disp = m \/ InSeq(m, w.cleanups))
      BY <2>1, ReplaceKeeps DEF Types
    <2> QED
      BY <1>0, <2>1, <2>2 DEF Settled
  <1>8. CASE CancelReturns
    <2>1. UNCHANGED <<timerAt, attached, err>>
      BY <1>8 DEF CancelReturns
    <2>2. \A m \in Node : InCleanup(m) => InCleanup(m)'
      BY <1>8, PopKeeps DEF Types
    <2> QED
      BY <1>0, <2>1, <2>2 DEF Settled
  <1>9. ASSUME UNCHANGED <<stack, err>>,
               \A m \in Node : timerAt'[m] # None => timerAt[m] # None,
               \A m \in Node : ChildListener(m) \in attached' => ChildListener(m) \in attached
        PROVE  CleanupOwed'
    BY <1>0, <1>1, <1>9 DEF Settled
  <1>10. ASSUME NEW r, NEW n, Registers(r, n) PROVE CleanupOwed'
    <2>1. attached' = attached \/ attached' = attached \cup {RegListener(r)}
      BY <1>10 DEF Registers, Listen
    <2> QED
      BY <1>9, <1>10, <2>1, ListenerNames DEF Registers
  <1>11. CASE RunMicrotask \/ Idles \/ \E r \in Reg : StopReg(r)
    BY <1>9, <1>11 DEF RunMicrotask, Idles, StopReg
  <1> QED
    BY <1>3, <1>4, <1>5, <1>6, <1>7, <1>8, <1>10, <1>11 DEF Effect

\* What explains an error does not change, and a new error is explained.
LEMMA CauseStep ==
    ASSUME Types, NodeInv, CauseProvenance, Effect, Grows, Types'
    PROVE  CauseProvenance'
  <1>0. /\ CauseProvenance <=> \A m \in Node : Settled(m) => Explained(m)
        /\ CauseProvenance' <=> \A m \in Node : Settled(m)' => Explained(m)'
    BY DEF CauseProvenance, Explained
  <1>1. ASSUME NEW m \in Node, Settled(m) PROVE Explained(m)'
    <2>1. m \in 1 .. next /\ Explained(m) /\ err[m] # NoErr
      BY <1>0, <1>1 DEF Types, Shape, Settled, Node
    <2>2. /\ err'[m] = err[m] /\ cause'[m] = cause[m] /\ kind'[m] = kind[m]
          /\ deadline'[m] = deadline[m] /\ dcause'[m] = dcause[m] /\ (Carrier(m))' = Carrier(m)
      BY <1>1, <2>1 DEF Grows
    <2>3. CASE Carrier(m) # None /\ err[m] = err[Carrier(m)] /\ cause[m] = cause[Carrier(m)]
      <3>1. Carrier(m) \in Node /\ Settled(Carrier(m))
        BY <2>1, <2>3, CarrierExists DEF Settled
      <3>2. err'[Carrier(m)] = err[Carrier(m)] /\ cause'[Carrier(m)] = cause[Carrier(m)]
        BY <3>1 DEF Grows
      <3> QED
        BY <2>2, <2>3, <3>2 DEF Explained
    <2>4. CASE /\ err[m] = DeadlineExceeded /\ kind[m] = "timer"
               /\ deadline[m] <= now /\ cause[m] = dcause[m]
      <3>1. deadline[m] \in Int /\ now \in Int /\ now' \in Int /\ now <= now'
        BY DEF Types, Shape, Time, None, Grows
      <3> QED
        BY <2>2, <2>4, <3>1 DEF Explained
    <2>5. CASE err[m] = Canceled /\ cause[m] \in Causes \cup {Canceled}
      BY <2>2, <2>5 DEF Explained
    <2> QED
      BY <2>1, <2>3, <2>4, <2>5 DEF Explained
  <1>2. ASSUME NEW n, Settles(n) PROVE CauseProvenance'
    <2>1. ASSUME NEW m \in Node, Settled(m)', ~Settled(m) PROVE Explained(m)'
      BY <1>2, <2>1 DEF Settles, Settled
    <2> QED
      BY <1>0, <1>1, <2>1
  <1>3. ASSUME NEW n, NEW p, Constructs(n, p) PROVE CauseProvenance'
    <2>1. ASSUME NEW m \in Node, Settled(m)', ~Settled(m) PROVE Explained(m)'
      BY <1>3, <2>1 DEF Constructs, Settled
    <2> QED
      BY <1>0, <1>1, <2>1
  <1>4. ASSUME UNCHANGED err PROVE CauseProvenance'
    BY <1>0, <1>1, <1>4 DEF Settled
  <1> QED
    BY <1>2, <1>3, <1>4
    DEF Effect, Cancels, RunsTask, Calls, Shifts, CancelReturns, Registers, StopReg, RunMicrotask,
        Idles

-----------------------------------------------------------------------------
\* Nothing is owed at first.
LEMMA InitIInv == Init => IInv
  <1> SUFFICES ASSUME Init PROVE IInv
    OBVIOUS
  <1>1. Types
    BY InitTypes
  <1>2. \A x : ~InSeq(x, <<>>)
    BY DEF InSeq
  <1>3. NodeInv /\ SignalInv /\ WaveInv /\ CallerInv
    BY DEF Init, NodeInv, SignalInv, WaveInv, CallerInv, WaveIndex
  <1>4. ListenInv /\ OwedInv /\ ChildInv
    BY <1>2 DEF Init, ListenInv, OwedInv, ChildInv
  <1>5. RegInv
    BY <1>2 DEF Init, RegInv, RegOk, Distinct
  <1>6. CleanupOwed /\ CauseProvenance
    BY DEF Init, CleanupOwed, CauseProvenance, Settled
  <1> QED
    BY <1>1, <1>3, <1>4, <1>5, <1>6 DEF IInv

\* Every step keeps all parts of the invariant.
LEMMA NextIInv ==
    ASSUME IInv, [Next]_vars
    PROVE  IInv'
  <1>1. Types' /\ Effect
    BY NextTypes, NextEffect DEF IInv
  <1>2. Grows
    BY <1>1, EffectGrows DEF IInv
  <1>3. NodeInv' /\ WaveInv' /\ ListenInv' /\ OwedInv' /\ ChildInv' /\ RegInv'
    BY <1>1, <1>2, NodeStep, WaveStep, ListenStep, OwedStep, ChildStep, RegStep DEF IInv
  <1>4. CleanupOwed' /\ CauseProvenance'
    BY <1>1, <1>2, CleanupStep, CauseStep DEF IInv
  <1>5. SignalInv' /\ CallerInv'
    BY <1>1, <1>2, SignalStep, CallerStep DEF IInv
  <1> QED
    BY <1>1, <1>3, <1>4, <1>5 DEF IInv

\* Every reachable state owes what IInv says: the listeners a dispatch has yet to call, the
\* tasks and cleanups its waves hold, the callbacks in the microtask queue.
THEOREM Invariance == Spec => []IInv
  BY InitIInv, NextIInv, PTL DEF Spec

\* A live cancel node below a terminal signal is always owed its cancellation: by the
\* dispatch that has yet to call its listener, or by a wave that holds its task
\* (enqueueParentCancellation, drainCancellationWave), however deep waves are nested.
THEOREM PropagationOwedTheorem == Spec => []PropagationOwed
  <1>1. ASSUME IInv PROVE PropagationOwed
    <2> SUFFICES ASSUME NEW n \in 1 .. next, CancelNode(n), ~Settled(n), Carrier(n) # None,
                        Settled(Carrier(n))
                 PROVE  ToBeCalled(Carrier(n), ChildListener(n)) \/ Tasked(n)
      BY DEF PropagationOwed, Tasked
    <2>1. \/ ChildListener(n) \in attached /\ InSeq(ChildListener(n), listeners[Carrier(n)])
          \/ Tasked(n)
      BY <1>1 DEF IInv, ChildInv
    <2>2. n \in Node /\ Carrier(n) \in Node
      BY <1>1, CarrierExists DEF IInv
    <2>3. ChildListener(n) \in Listener
      BY <2>2, ListenerNames
    <2>4. ChildListener(n) \in attached /\ InSeq(ChildListener(n), listeners[Carrier(n)])
          => OwedCall(Carrier(n), ChildListener(n))
      BY <1>1, <2>2, <2>3 DEF IInv, OwedInv
    <2> QED
      BY <2>1, <2>4 DEF ToBeCalled, OwedCall
  <1> QED
    BY <1>1, Invariance, PTL

\* A terminal context keeps its timer or its parent listener only while its wave still
\* owes the cleanup (settle, drainCancellationWave).
THEOREM CleanupOwedTheorem == Spec => []CleanupOwed
  <1>1. IInv => CleanupOwed
    BY DEF IInv
  <1> QED
    BY <1>1, Invariance, PTL

\* Every error is explained by a CancelFunc, by the context's own passed deadline, or by
\* the signal it derives from, with the cause that belongs to it (readParentFailure).
THEOREM CauseProvenanceTheorem == Spec => []CauseProvenance
  <1>1. IInv => CauseProvenance
    BY DEF IInv
  <1> QED
    BY <1>1, Invariance, PTL

\* An afterFunc callback is queued exactly while it is admitted and only once, and one
\* that is pending on a terminal context is yet to be reached (afterFunc, its StopFunc).
THEOREM AfterFuncOnceTheorem == Spec => []AfterFuncOnce
  <1>1. ASSUME IInv PROVE AfterFuncOnce
    <2> SUFFICES ASSUME NEW r \in Reg
                 PROVE  /\ regs[r].state = "admitted" <=> InSeq(r, micro)
                        /\ \A i, j \in 1 .. Len(micro) : micro[i] = r /\ micro[j] = r => i = j
                        /\ (regs[r].state = "pending" /\ done[regs[r].ctx] # None
                                /\ Settled(done[regs[r].ctx]))
                           => ToBeCalled(done[regs[r].ctx], RegListener(r))
      BY DEF AfterFuncOnce
    <2>1. RegOk(r) /\ Distinct(micro)
      BY <1>1 DEF IInv, RegInv
    <2>2. \A i, j \in 1 .. Len(micro) : micro[i] = r /\ micro[j] = r => i = j
      BY <2>1 DEF Distinct
    <2>3. ASSUME regs[r].state = "pending", done[regs[r].ctx] # None, Settled(done[regs[r].ctx])
          PROVE  ToBeCalled(done[regs[r].ctx], RegListener(r))
      <3>1. PICK c : c = done[regs[r].ctx]
        OBVIOUS
      <3>2. RegListener(r) \in attached /\ InSeq(RegListener(r), listeners[c])
        BY <2>1, <2>3, <3>1 DEF RegOk
      <3>3. c \in Node
        <4>1. regs[r].ctx \in 1 .. next
          BY <2>1, <2>3 DEF RegOk
        <4> QED
          BY <1>1, <2>3, <3>1, <4>1, BoundsAssumption DEF IInv, NodeInv, Types, Shape, Node
      <3>4. OwedCall(c, RegListener(r))
        BY <1>1, <2>3, <3>1, <3>2, <3>3, ListenerNames DEF IInv, OwedInv
      <3> QED
        BY <3>1, <3>2, <3>4 DEF ToBeCalled, OwedCall
    <2> QED
      BY <2>1, <2>2, <2>3 DEF RegOk
  <1> QED
    BY <1>1, Invariance, PTL
-----------------------------------------------------------------------------
(* The ancestors of a context, and the wave of the outermost CancelFunc. *)

\* A non-empty set of numbers has a least one.
LEMMA Least ==
    ASSUME NEW T, T \subseteq Nat, T # {}
    PROVE  \E m \in T : \A k \in T : m <= k
  <1>1. PICK R : R = OpToRel(<, Nat)
    OBVIOUS
  <1>2. IsWellFoundedOn(R, Nat)
    BY <1>1, NatLessThanWellFounded
  <1>3. \A k, m \in Nat : <<k, m>> \in R <=> k < m
    BY <1>1 DEF OpToRel
  <1>4. PICK m \in T : \A k \in T : ~(<<k, m>> \in R)
    BY <1>2, WFMin
  <1>5. ASSUME NEW k \in T PROVE m <= k
    <2>1. k \in Nat /\ m \in Nat
      BY <1>4
    <2>2. ~(k < m)
      BY <1>3, <1>4, <2>1
    <2> QED
      BY <2>1, <2>2
  <1> QED
    BY <1>4, <1>5

\* f is the recursive function of Ancestors up to m, C standing for Carrier.
Chain(C, f, m) ==
    f = [k \in 0 .. m |->
            IF k = 0 \/ C[k] = None THEN {}
            ELSE {C[k]} \cup (IF C[k] < k THEN f[C[k]] ELSE {})]

\* Such a function exists: the least m without one would extend the one below it.
LEMMA ChainExists ==
    ASSUME NEW N \in Nat, NEW C \in [0 .. N -> Nat \cup {None}]
    PROVE  \E f : Chain(C, f, N)
  <1>1. SUFFICES ASSUME ~\E f : Chain(C, f, N) PROVE FALSE
    OBVIOUS
  <1>2. PICK T : T = {m \in 0 .. N : ~\E f : Chain(C, f, m)}
    OBVIOUS
  <1>3. T \subseteq Nat /\ N \in T
    BY <1>1, <1>2
  <1>4. PICK m \in T : \A k \in T : m <= k
    BY <1>3, Least
  <1>5. m \in 0 .. N /\ ~\E f : Chain(C, f, m)
    BY <1>2, <1>4
  <1>6. CASE m = 0
    <2>1. PICK f : f = [k \in 0 .. 0 |-> {}]
      OBVIOUS
    <2>2. Chain(C, f, 0)
      BY <2>1 DEF Chain
    <2> QED
      BY <1>5, <1>6, <2>2
  <1>7. CASE m # 0
    <2>1. m - 1 \in 0 .. N /\ m - 1 \notin T
      BY <1>4, <1>5, <1>7
    <2>2. PICK g : Chain(C, g, m - 1)
      BY <1>2, <2>1
    <2>3. PICK f : f = [k \in 0 .. m |->
                           IF k < m THEN g[k]
                           ELSE IF C[k] = None THEN {}
                           ELSE {C[k]} \cup (IF C[k] < k THEN g[C[k]] ELSE {})]
      OBVIOUS
    <2>4. \A k \in 0 .. m - 1 : f[k] = g[k] /\ k \in 0 .. m /\ k < m
      BY <1>5, <1>7, <2>3
    <2>5. \A k \in 0 .. m - 1 :
             g[k] = IF k = 0 \/ C[k] = None THEN {}
                    ELSE {C[k]} \cup (IF C[k] < k THEN g[C[k]] ELSE {})
      BY <2>2 DEF Chain
    <2>6. ASSUME NEW k \in 0 .. m
          PROVE  f[k] = IF k = 0 \/ C[k] = None THEN {}
                        ELSE {C[k]} \cup (IF C[k] < k THEN f[C[k]] ELSE {})
      <3>1. k \in 0 .. N /\ C[k] \in Nat \cup {None}
        BY <1>5
      <3>2. C[k] # None /\ C[k] < k => C[k] \in 0 .. m - 1 /\ f[C[k]] = g[C[k]]
        BY <1>5, <1>7, <2>4, <3>1 DEF None
      <3>3. CASE k = m
        <4>1. f[k] = IF C[k] = None THEN {}
                     ELSE {C[k]} \cup (IF C[k] < k THEN g[C[k]] ELSE {})
          BY <1>5, <2>3, <3>3
        <4> QED
          BY <1>7, <3>2, <3>3, <4>1
      <3>4. CASE k # m
        <4>1. k \in 0 .. m - 1 /\ f[k] = g[k]
          BY <1>5, <2>4, <3>4
        <4>2. g[k] = IF k = 0 \/ C[k] = None THEN {}
                     ELSE {C[k]} \cup (IF C[k] < k THEN g[C[k]] ELSE {})
          BY <2>5, <4>1
        <4> QED
          BY <3>2, <4>1, <4>2
      <3> QED
        BY <3>3, <3>4
    <2>7. Chain(C, f, m)
      <3>1. PICK h : h = [k \in 0 .. m |->
                             IF k = 0 \/ C[k] = None THEN {}
                             ELSE {C[k]} \cup (IF C[k] < k THEN f[C[k]] ELSE {})]
        OBVIOUS
      <3>2. \A k \in 0 .. m : h[k] = f[k]
        BY <2>6, <3>1
      <3>3. f = h
        BY <2>3, <3>1, <3>2
      <3> QED
        BY <3>1, <3>3 DEF Chain
    <2> QED
      BY <1>5, <2>7
  <1> QED
    BY <1>6, <1>7

\* What Ancestors computes, one link at a time.
LEMMA AncestorsUnfold ==
    ASSUME Types, NEW n \in Node
    PROVE  Ancestors(n) = IF Carrier(n) = None THEN {}
                          ELSE {Carrier(n)} \cup (IF Carrier(n) < n THEN Ancestors(Carrier(n)) ELSE {})
  <1> USE BoundsAssumption
  <1>1. PICK C : C = [k \in 0 .. MaxNode |-> IF k = 0 THEN None ELSE Carrier(k)]
    OBVIOUS
  <1>2. \A k \in Node : Carrier(k) \in Node \cup {None}
    BY DEF Types, Shape, Carrier, DoneOf, Node, Background
  <1>3. C \in [0 .. MaxNode -> Nat \cup {None}]
    BY <1>1, <1>2 DEF Node
  <1>4. PICK f : Chain(C, f, MaxNode)
    BY <1>3, ChainExists
  <1>5. PICK g : g = CHOOSE h : h = [k \in 0 .. MaxNode |->
            IF k = 0 \/ Carrier(k) = None THEN {}
            ELSE {Carrier(k)} \cup (IF Carrier(k) < k THEN h[Carrier(k)] ELSE {})]
    OBVIOUS
  <1>6. f = [k \in 0 .. MaxNode |->
            IF k = 0 \/ Carrier(k) = None THEN {}
            ELSE {Carrier(k)} \cup (IF Carrier(k) < k THEN f[Carrier(k)] ELSE {})]
    BY <1>1, <1>4 DEF Chain
  <1>7. g = [k \in 0 .. MaxNode |->
            IF k = 0 \/ Carrier(k) = None THEN {}
            ELSE {Carrier(k)} \cup (IF Carrier(k) < k THEN g[Carrier(k)] ELSE {})]
    BY <1>5, <1>6
  <1>8. \A k : Ancestors(k) = g[k]
    BY <1>5 DEF Ancestors
  <1>9. n \in 0 .. MaxNode /\ n # 0
    BY DEF Node
  <1>10. g[n] = IF Carrier(n) = None THEN {}
                ELSE {Carrier(n)} \cup (IF Carrier(n) < n THEN g[Carrier(n)] ELSE {})
    BY <1>7, <1>9
  <1> QED
    BY <1>8, <1>10

\* A CancelFunc that was called outside every listener returns with all descendants of its
\* context terminal: nothing is owed any more, so a nearest live descendant would have a
\* terminal signal above it that nobody has to pass on (handle.cancel, runCancellationWave).
THEOREM OutermostCancelTheorem == Spec => []OutermostCancelSettlesAll
  <1>1. ASSUME IInv, PropagationOwed PROVE OutermostCancelSettlesAll
    <2> SUFFICES ASSUME Len(stack) = 1, Drained(stack[1]), NEW T,
                        T = {n \in 1 .. next : /\ CancelNode(n) /\ stack[1].caller \in Ancestors(n)
                                               /\ ~Settled(n)},
                        T # {}
                 PROVE  FALSE
      BY DEF OutermostCancelSettlesAll
    <2>1. T \subseteq Nat
      BY <1>1
    <2>2. PICK n \in T : \A k \in T : n <= k
      BY <2>1, Least
    <2>3. /\ n \in 1 .. next /\ CancelNode(n) /\ ~Settled(n) /\ stack[1].caller \in Ancestors(n)
      BY <2>2
    <2>4. /\ n \in Node /\ Carrier(n) \in (1 .. next) \cup {None}
          /\ Carrier(n) # None => parent[n] \in 1 .. next /\ Carrier(n) = done[parent[n]]
      BY <1>1, <2>3, CarrierExists DEF IInv
    <2>5. Ancestors(n) = IF Carrier(n) = None THEN {}
                         ELSE {Carrier(n)} \cup
                              (IF Carrier(n) < n THEN Ancestors(Carrier(n)) ELSE {})
      BY <1>1, <2>4, AncestorsUnfold DEF IInv
    <2>6. PICK c \in 1 .. next : c = Carrier(n) /\ c # None
      BY <2>3, <2>4, <2>5
    <2>7. stack[1].caller = c \/ (c < n /\ stack[1].caller \in Ancestors(c))
      BY <2>3, <2>5, <2>6
    <2>8. Settled(c)
      <3>1. CASE stack[1].caller = c
        BY <1>1, <3>1 DEF IInv, CallerInv, WaveIndex
      <3>2. CASE c < n /\ stack[1].caller \in Ancestors(c) /\ CancelNode(c)
        <4>1. c \notin T
          BY <2>1, <2>2, <2>6, <3>2
        <4> QED
          BY <2>6, <3>2, <4>1
      <3>3. CASE ~CancelNode(c)
        BY <1>1, <2>4, <2>6, <3>3 DEF IInv, SignalInv
      <3> QED
        BY <2>7, <3>1, <3>2, <3>3
    <2>9. \/ ToBeCalled(Carrier(n), ChildListener(n))
          \/ \E i \in WaveIndex : InSeq(n, stack[i].tasks)
      BY <1>1, <2>3, <2>6, <2>8 DEF PropagationOwed
    <2>10. \A i \in WaveIndex : i = 1
      BY DEF WaveIndex
    <2>11. stack[1].disp = None /\ stack[1].tasks = <<>>
      BY DEF Drained
    <2>12. ~ToBeCalled(Carrier(n), ChildListener(n))
      BY <2>6, <2>10, <2>11 DEF ToBeCalled
    <2>13. ~\E i \in WaveIndex : InSeq(n, stack[i].tasks)
      BY <2>10, <2>11 DEF InSeq
    <2> QED
      BY <2>9, <2>12, <2>13
  <1> QED
    BY <1>1, Invariance, PropagationOwedTheorem, PTL
=============================================================================
