-------------------------------- MODULE Client --------------------------------
(***************************************************************************)
(* The calling side (packages/client/src/index.ts): a call and its retries, *)
(* the pool of transport clients they borrow, the feedback to the selector, *)
(* and the client's close.                                                  *)
(*                                                                          *)
(* A transport client ("owner") is dialled by an attempt and is that        *)
(* attempt's alone until it is pooled, handed to a response body or closed. *)
(* Owner <<c, n>> is the one attempt n of call c dials.                     *)
(*                                                                          *)
(* Left out: headers, metadata, codecs and middleware; the text and the     *)
(* order of the errors in an aggregate; how the resolver finds the offered  *)
(* endpoints: each attempt is offered some set of them.  Feedback callbacks *)
(* do not throw.                                                            *)
(***************************************************************************)
EXTENDS Selector, SequencesExt

CONSTANTS Calls,
          None,
          MaxAttempts,  \* the retry option's maxAttempts
          MaxIdle,      \* the poolSize option
          MaxTime       \* bound: ticks of the selector's clock

Owners == Calls \X (1 .. MaxAttempts)

ASSUME ClientConstants ==
    /\ IsFiniteSet(Calls)
    /\ None \notin Owners
    /\ MaxAttempts \in Nat \ {0}
    /\ MaxIdle \in Nat
    /\ MaxTime \in Nat

Kinds == {"typed", "raw", "stream"}
Replies == {"rejected", "unavailable", "service", "invalid", "reply"}

VARIABLES
    call,      \* per call: its phase, context, attempt, selection, owner and error
    owner,     \* per transport client: its address and state
    idle,      \* the pooled owners, the longest idle first
    bodies,    \* the owners held by a response body that has not ended
    ep,        \* the selector's state per endpoint
    now,       \* the selector's clock
    closed,    \* close was called
    drain      \* the shared drain and what it waits for

vars == <<call, owner, idle, bodies, ep, now, closed, drain>>

FreshCall == [phase |-> "new", canceled |-> FALSE, kind |-> "typed", attempt |-> 0,
              at |-> None, attached |-> FALSE, owner |-> None, received |-> FALSE,
              ok |-> FALSE, completed |-> FALSE, committed |-> FALSE]

\* A call that returned or threw; nothing of it is used again.
Ended == [FreshCall EXCEPT !.phase = "done"]

\* A transport client that was not dialled, or was closed and forgotten.
NoClient == [at |-> None, state |-> "none"]

Init ==
    /\ call = [c \in Calls |-> FreshCall]
    /\ owner = [o \in Owners |-> NoClient]
    /\ idle = <<>>
    /\ bodies = {}
    /\ ep = [e \in Endpoints |-> Fresh]
    /\ now = 0
    /\ closed = FALSE
    /\ drain = [state |-> "none", owners |-> {}, calls |-> {}]

\* closeResident on the owners in os: those already closing keep the close
\* they have.
CloseResident(os) ==
    [o \in Owners |-> IF o \in os /\ owner[o].state = "open"
                      THEN [owner[o] EXCEPT !.state = "closing"] ELSE owner[o]]

\* release: pooled when the exchange is reusable, else closed.  Pooling past
\* the limit closes the owner that has been idle longest.
Reusable(o, reusable) ==
    reusable /\ ~closed /\ MaxIdle > 0 /\ owner[o].state = "open"
\* Mutant: the evicted owner is dropped from the pool and not closed.
ReleaseEvictsOnly(o, reusable) ==
    IF Reusable(o, reusable)
    THEN /\ idle' = IF Len(idle) = MaxIdle THEN Append(Tail(idle), o) ELSE Append(idle, o)
         /\ UNCHANGED owner
    ELSE /\ owner' = CloseResident({o})
         /\ UNCHANGED idle
Release(o, reusable) ==
    LET pool == Append(idle, o)
        full == Len(pool) > MaxIdle
    IN  IF Reusable(o, reusable)
        THEN /\ idle' = IF full THEN Tail(pool) ELSE pool
             /\ owner' = IF full THEN CloseResident({Head(pool)}) ELSE owner
        ELSE /\ owner' = CloseResident({o})
             /\ UNCHANGED idle

\* publishSelectionFeedback with what selectionError makes of the outcome: a
\* service's own error, or any error of a call whose context is done, says
\* nothing against the endpoint.
FailsEndpoint(c, outcome) ==
    \/ outcome = "unavailable"
    \/ outcome \in {"rejected", "invalid"} /\ ~call[c].canceled
\* Mutant: the callback looks its endpoint's state up again.
FeedbackByEndpoint(c, outcome) ==
    ep' = IF call[c].at # None
          THEN [ep EXCEPT ![call[c].at] = Settled(@, FailsEndpoint(c, outcome), now)]
          ELSE ep
Feedback(c, outcome) ==
    ep' = IF call[c].attached
          THEN [ep EXCEPT ![call[c].at] = Settled(@, FailsEndpoint(c, outcome), now)]
          ELSE ep

\* commitExchange: an error of a stream that had its response headers is never
\* replayed, whether it is thrown alone or with cleanup errors.
\* Mutant: only the error itself is marked, not the aggregate thrown for it.
CommitsPrimary(r, aggregate) == r.kind = "stream" /\ r.received /\ ~aggregate
Commits(r, aggregate) == r.kind = "stream" /\ r.received

\* baseCall up to its first attempt.
Begin(c, kind) ==
    /\ call[c].phase = "new"
    /\ call' = [call EXCEPT ![c] =
                  IF closed \/ call[c].canceled THEN Ended
                  ELSE [@ EXCEPT !.phase = "resolving", !.kind = kind, !.attempt = 1]]
    /\ UNCHANGED <<owner, idle, bodies, ep, now, closed, drain>>

\* The attempt ends before an endpoint is selected: the client is closed, the
\* context is done, discovery fails, or discovery and filters leave nothing.
ResolveFails(c) ==
    /\ call[c].phase = "resolving"
    /\ call' = [call EXCEPT ![c].phase = "failed"]
    /\ UNCHANGED <<owner, idle, bodies, ep, now, closed, drain>>

\* The places in the pool of an endpoint's owners; acquire pops the last one.
PooledAt(e) == {i \in 1 .. Len(idle) : owner[idle[i]].at = e}
LastPooledAt(e) == {i \in PooledAt(e) : \A j \in PooledAt(e) : j <= i}

\* The endpoint is selected.  Calls that selected an endpoint that is no longer
\* offered report to state nobody reads.
Select(c, offered, e, phase, o) ==
    /\ call[c].phase = "resolving"
    /\ ~call[c].canceled
    /\ e \in Picks(ep, offered, now)
    /\ ep' = Selected(ep, offered, e)
    /\ call' = [d \in Calls |->
                  IF d = c
                  THEN [call[c] EXCEPT !.phase = phase, !.at = e, !.attached = TRUE, !.owner = o]
                  ELSE [call[d] EXCEPT !.attached = @ /\ call[d].at \in offered]]
    /\ UNCHANGED <<owner, bodies, now, closed, drain>>

\* acquire borrows a pooled owner of the selected endpoint, or dials.  On a
\* closed client it throws.
SelectPooled(c, offered, e) ==
    /\ ~closed
    /\ \E i \in LastPooledAt(e) :
         /\ Select(c, offered, e, "fetching", idle[i])
         /\ idle' = RemoveAt(idle, i)

SelectDials(c, offered, e) ==
    /\ closed \/ PooledAt(e) = {}
    /\ Select(c, offered, e, IF closed THEN "refused" ELSE "dialing", None)
    /\ UNCHANGED idle

\* The attempt failed and holds no owner: feedback, and the error is thrown.
AttemptFails(c, outcome) ==
    /\ Feedback(c, outcome)
    /\ call' = [call EXCEPT ![c].phase = "failed", ![c].at = None, ![c].attached = FALSE,
                            ![c].owner = None, ![c].committed = Commits(call[c], FALSE)]
    /\ UNCHANGED <<owner, idle, bodies, now, closed, drain>>

AcquireFails(c) ==
    /\ call[c].phase \in {"dialing", "refused"}
    /\ AttemptFails(c, "rejected")

\* The dial ends with a transport client: it is this attempt's, unless it is
\* not usable or the client was closed meanwhile; then it is closed first.
\* Mutant: the client is not found closed after the dial.
DialSettlesLate(c, usable) ==
    LET o == <<c, call[c].attempt>>
    IN  /\ call[c].phase = "dialing"
        /\ owner' = [owner EXCEPT ![o] = [at |-> call[c].at,
                                          state |-> IF usable THEN "open" ELSE "closing"]]
        /\ call' = [call EXCEPT ![c].phase = IF usable THEN "fetching" ELSE "rejecting",
                                ![c].owner = o]
        /\ UNCHANGED <<idle, bodies, ep, now, closed, drain>>
DialSettles(c, usable) ==
    LET o == <<c, call[c].attempt>>
        keep == usable /\ ~closed
    IN  /\ call[c].phase = "dialing"
        /\ owner' = [owner EXCEPT ![o] = [at |-> call[c].at,
                                          state |-> IF keep THEN "open" ELSE "closing"]]
        /\ call' = [call EXCEPT ![c].phase = IF keep THEN "fetching" ELSE "rejecting",
                                ![c].owner = o]
        /\ UNCHANGED <<idle, bodies, ep, now, closed, drain>>

ClosedOwner(o) == owner[o].state \notin {"open", "closing"}

RejectSettles(c) ==
    /\ call[c].phase = "rejecting"
    /\ ClosedOwner(call[c].owner)
    /\ AttemptFails(c, "rejected")

\* The fetch ends.  A typed reply is read before the owner is released; a raw
\* or streamed one takes the owner with its body.  A failed exchange closes
\* its owner.
FetchSettles(c, reply) ==
    LET o == call[c].owner
        ok == reply = "reply"
        held == ok /\ call[c].kind # "typed"
    IN  /\ call[c].phase = "fetching"
        /\ Feedback(c, reply)
        /\ IF held THEN /\ bodies' = bodies \cup {o}
                        /\ UNCHANGED <<owner, idle>>
                   ELSE /\ Release(o, ok)
                        /\ UNCHANGED bodies
        /\ call' = [call EXCEPT ![c] =
                      IF held \/ Reusable(o, ok) THEN Ended
                      ELSE [@ EXCEPT !.phase = "releasing", !.received = reply # "rejected",
                                     !.ok = ok, !.at = None, !.attached = FALSE]]
        /\ UNCHANGED <<now, closed, drain>>

\* The close the attempt waited for has ended.  With a reply in hand a failed
\* close is a completed-call failure; otherwise the call's own error is thrown,
\* with the close's if that failed too.
ReleaseSettles(c) ==
    LET closeFailed == owner[call[c].owner].state = "closeFailed"
    IN  /\ call[c].phase = "releasing"
        /\ ClosedOwner(call[c].owner)
        /\ call' = [call EXCEPT ![c] =
                      IF call[c].ok /\ ~closeFailed THEN Ended
                      ELSE [@ EXCEPT !.phase = "failed", !.owner = None, !.completed = call[c].ok,
                                     !.committed = ~call[c].ok /\ Commits(call[c], closeFailed)]]
        /\ owner' = [owner EXCEPT ![call[c].owner] = NoClient]
        /\ UNCHANGED <<idle, bodies, ep, now, closed, drain>>

\* retry with guardedCallRetry.
MayRetry(r) == r.attempt < MaxAttempts /\ ~r.completed /\ ~r.committed
Retry(c) ==
    /\ call[c].phase = "failed"
    /\ MayRetry(call[c])
    /\ ~call[c].canceled
    /\ call' = [call EXCEPT ![c].phase = "backoff"]
    /\ UNCHANGED <<owner, idle, bodies, ep, now, closed, drain>>

\* No retry was authorized, the predicate refuses it, or it may not be made.
GiveUp(c) ==
    /\ call[c].phase = "failed"
    /\ call' = [call EXCEPT ![c] = Ended]
    /\ UNCHANGED <<owner, idle, bodies, ep, now, closed, drain>>

\* The delay has passed or the context is done.
BackoffEnds(c) ==
    /\ call[c].phase = "backoff"
    /\ call' = [call EXCEPT ![c] =
                  IF call[c].canceled THEN Ended
                  ELSE [FreshCall EXCEPT !.phase = "resolving", !.kind = call[c].kind,
                                         !.attempt = call[c].attempt + 1]]
    /\ UNCHANGED <<owner, idle, bodies, ep, now, closed, drain>>

\* The consumer read, cancelled or lost the body: its owner is released as
\* reusable, whichever it was.
BodyEnds(o) ==
    /\ o \in bodies
    /\ bodies' = bodies \ {o}
    /\ Release(o, TRUE)
    /\ UNCHANGED <<call, ep, now, closed, drain>>

\* poolTtl has passed for a pooled owner.
IdleExpires(o) ==
    /\ \E i \in 1 .. Len(idle) :
         /\ idle[i] = o
         /\ idle' = RemoveAt(idle, i)
    /\ owner' = CloseResident({o})
    /\ UNCHANGED <<call, bodies, ep, now, closed, drain>>

\* closeWithTimeout: the close ended, or it failed or exceeded its time, which
\* is told apart for an attempt that waits for it, or that will join the close
\* begun by the client's own when it releases the owner.
OwnerCloses(o, failed) ==
    /\ owner[o].state = "closing"
    /\ failed => \E c \in Calls : /\ call[c].phase \in {"fetching", "releasing"}
                                  /\ call[c].owner = o
    /\ owner' = [owner EXCEPT ![o] = IF failed THEN [@ EXCEPT !.state = "closeFailed"] ELSE NoClient]
    /\ UNCHANGED <<call, idle, bodies, ep, now, closed, drain>>

Admissions == {c \in Calls : call[c].phase \in {"dialing", "rejecting"}}
Connections == {o \in Owners : owner[o].state \in {"open", "closing"}}

\* beginTransportClose: every connection is closed, and the drain waits for
\* those closes and for the dials that are under way.
Close ==
    /\ ~closed
    /\ closed' = TRUE
    /\ drain' = [state |-> "draining", owners |-> Connections, calls |-> Admissions]
    /\ owner' = CloseResident(Connections)
    /\ idle' = <<>>
    /\ UNCHANGED <<call, bodies, ep, now>>

DrainSettles ==
    /\ drain.state = "draining"
    /\ \A o \in drain.owners : ClosedOwner(o)
    /\ drain.calls \cap Admissions = {}
    /\ drain' = [drain EXCEPT !.state = "drained"]
    /\ UNCHANGED <<call, owner, idle, bodies, ep, now, closed>>

Cancel(c) ==
    /\ ~call[c].canceled
    /\ call[c].phase # "done"
    /\ call' = [call EXCEPT ![c].canceled = TRUE]
    /\ UNCHANGED <<owner, idle, bodies, ep, now, closed, drain>>

Tick ==
    /\ now < MaxTime
    /\ now' = now + 1
    /\ UNCHANGED <<call, owner, idle, bodies, ep, closed, drain>>

Next ==
    \/ \E c \in Calls :
         \/ \E kind \in Kinds : Begin(c, kind)
         \/ ResolveFails(c)
         \/ \E offered \in SUBSET Endpoints \ {{}} : \E e \in offered :
              SelectPooled(c, offered, e) \/ SelectDials(c, offered, e)
         \/ AcquireFails(c)
         \/ \E usable \in BOOLEAN : DialSettles(c, usable)
         \/ RejectSettles(c)
         \/ \E reply \in Replies : FetchSettles(c, reply)
         \/ ReleaseSettles(c)
         \/ Retry(c)
         \/ GiveUp(c)
         \/ BackoffEnds(c)
         \/ Cancel(c)
    \/ \E o \in Owners :
         \/ BodyEnds(o)
         \/ IdleExpires(o)
         \/ \E failed \in BOOLEAN : OwnerCloses(o, failed)
    \/ Close
    \/ DrainSettles
    \/ Tick

Spec == Init /\ [][Next]_vars
-------------------------------------------------------------------------------
\* The calls that hold a transport client, and the places an owner is kept in.
Holders(o) == {c \in Calls : call[c].owner = o}
InPool(o) == {i \in 1 .. Len(idle) : idle[i] = o}

\* Every open transport client has exactly one keeper: one place in the pool,
\* one attempt, or one response body.  None is shared by two exchanges, none is
\* lost with nobody left to close it, and the pool lends no closing one and
\* keeps at most poolSize of them.
OneKeeper ==
    /\ Len(idle) <= MaxIdle
    /\ \A o \in Owners :
         LET keepers == Cardinality(InPool(o)) + Cardinality(Holders(o))
                          + (IF o \in bodies THEN 1 ELSE 0)
         IN  /\ owner[o].state = "open" => keepers = 1
             /\ keepers <= 1
             /\ InPool(o) # {} => owner[o].state = "open"

\* Once close has settled nothing the client dialled is open or still closing,
\* and no dial is under way: the drain misses neither a dial that was late nor
\* an owner that a body or an attempt held when close began.
DrainLeavesNothing ==
    drain.state = "drained" => Connections = {} /\ Admissions = {}

\* The selector counts in flight at an endpoint exactly the attempts that
\* selected it and have not reported: no way an attempt ends loses its feedback
\* or gives it twice, and none is charged to state made for a later selection.
LeaseBalance ==
    \A e \in Endpoints :
        ep[e].inFlight =
            Cardinality({c \in Calls : /\ call[c].phase \in {"dialing", "refused", "rejecting", "fetching"}
                                       /\ call[c].at = e /\ call[c].attached})

\* An exchange that gave the caller its reply, and a stream that had its
\* response headers, is never sent again, whatever its cleanup does.
NoReplay ==
    [][\A c \in Calls : call'[c].attempt > call[c].attempt =>
          ~(call[c].ok \/ (call[c].kind = "stream" /\ call[c].received))]_vars
===============================================================================
