------------------------------- MODULE Config -------------------------------
(***************************************************************************)
(* The configuration manager of @go-like/config (newConfig in              *)
(* packages/config/src/config.ts): a one-shot load, watchers that mark the *)
(* configuration dirty, background reload rounds with a retry timer, and   *)
(* the drain that close() or a failed watcher begins.                      *)
(*                                                                         *)
(* Everything runs on one event loop; an action is the code between two    *)
(* awaits.  Mutation rounds are serialised by a promise queue (enqueue):   *)
(* the load comes first and reloadActive admits one reload at a time, so   *)
(* the queue holds at most one round, described by job, pc and at.         *)
(*                                                                         *)
(* A source document is its version number.  Merging, resolving and        *)
(* validating a candidate either succeed or fail the round.                *)
(***************************************************************************)
EXTENDS Integers

CONSTANTS
    NumSources,    \* sources 1 .. NumSources, in declaration order
    Watched,       \* the sources with a watch capability
    MaxVersion,    \* bound: changes of one source
    MaxFailures    \* bound: load, watch and validation failures of one behaviour

Sources == 1 .. NumSources

ASSUME ConfigAssumption ==
    /\ NumSources \in Nat \ {0} /\ Watched \in SUBSET Sources
    /\ MaxVersion \in Nat /\ MaxFailures \in Nat

Version == 0 .. MaxVersion
Unread == -1

VARIABLES
    version,       \* version[s]: the source's document now (external)
    failures,      \* failures so far, capped by MaxFailures
    state,         \* LifecycleState
    current,       \* the last publication: version of each source, Unread before
    job, pc, at,   \* the round in the queue, where it is, and its source cursor
    snap,          \* the candidate of the round: what it has read so far
    startupCtx, runtimeCtx,
    dirty, reloadActive, retry,
    watcher,       \* watcher[s]: the accepted watcher and its loop
    seen,          \* seen[s]: the version the watcher has reported
    stopOp,        \* stopOp[s]: the watcher's stop call
    abnormal, cleanupErr,   \* abnormalPrimary # null, cleanupFailures # []
    drain,         \* performDrain, once drainStarted
    done           \* donePromise

srcVars == <<version, failures>>
jobVars == <<job, pc, at, snap>>
ctxVars == <<startupCtx, runtimeCtx>>
reloadVars == <<dirty, reloadActive, retry>>
watchVars == <<watcher, seen, stopOp>>
endVars == <<abnormal, cleanupErr, drain, done>>
vars == <<srcVars, state, current, jobVars, ctxVars, reloadVars, watchVars, endVars>>

JobPc == {"queued", "read", "reply", "resolve", "open", "launched", "publish",
          "rollback", "abort"}

-----------------------------------------------------------------------------
\* The context of the round in progress has been cancelled.
Canceled == IF job = "load" THEN startupCtx # "live" ELSE runtimeCtx # "live"

Accepted == {s \in Sources : watcher[s] # "none"}
DrainStarted == drain # "none"

Fail == failures < MaxFailures /\ failures' = failures + 1

\* Mutant of StopAccepted: the first watcher is forgotten.
StopAllButFirst ==
    stopOp' = [s \in Sources |-> IF s \in Accepted \ {1} /\ stopOp[s] = "no"
                                 THEN "called" ELSE stopOp[s]]

\* drainAcceptedWatchers: stop each accepted watcher whose stop has not begun.
StopAccepted ==
    stopOp' = [s \in Sources |-> IF s \in Accepted /\ stopOp[s] = "no"
                                 THEN "called" ELSE stopOp[s]]
StopsSettled == \A s \in Sources : stopOp[s] # "called"

Settle(d) == done' = IF done = "pending" THEN d ELSE done

\* Mutant of BeginDrain: the runtime context stays alive.
BeginDrainKeepsRuntime ==
    /\ drain' = "queue"
    /\ state' = "closing"
    /\ dirty' = FALSE
    /\ retry' = "off"
    /\ startupCtx' = IF startupCtx = "live" THEN "stopped" ELSE startupCtx
    /\ UNCHANGED runtimeCtx

\* beginDrain, for its first call: the load is cut off, the retry cancelled, both
\* contexts cancelled with the intentional stop.
BeginDrain ==
    /\ drain' = "queue"
    /\ state' = "closing"
    /\ dirty' = FALSE
    /\ retry' = "off"
    /\ startupCtx' = IF startupCtx = "live" THEN "stopped" ELSE startupCtx
    /\ runtimeCtx' = IF runtimeCtx = "live" THEN "stopped" ELSE runtimeCtx

\* pumpDirty with the given values of state, dirty and reloadActive.  A caller that
\* passes ~active while a round is in the queue has just ended that round.
Pump(st, d, active) ==
    IF st = "loaded" /\ d /\ ~active
    THEN /\ dirty' = FALSE /\ reloadActive' = TRUE
         /\ job' = "reload" /\ pc' = "queued"
    ELSE /\ dirty' = d /\ reloadActive' = active
         /\ IF active THEN UNCHANGED <<job, pc>> ELSE job' = "none" /\ pc' = "queued"

-----------------------------------------------------------------------------
\* Loading.

\* load(ctx); `pre' is a context that is cancelled already.
Load(pre) ==
    /\ state = "idle"
    /\ IF pre THEN /\ state' = "failed" /\ Settle("rejected")
                   /\ UNCHANGED <<job, pc>>
              ELSE /\ state' = "loading" /\ job' = "load" /\ pc' = "queued"
                   /\ UNCHANGED done
    /\ UNCHANGED <<srcVars, current, at, snap, ctxVars, reloadVars, watchVars, abnormal,
                   cleanupErr, drain>>

\* The queue starts the round: prepare reads the sources in order.  A load creates
\* its startup context only now.
BeginRound ==
    /\ job # "none" /\ pc = "queued"
    /\ startupCtx' = IF job = "load" THEN "live" ELSE startupCtx
    /\ pc' = "read" /\ at' = 1
    /\ snap' = [s \in Sources |-> Unread]
    /\ UNCHANGED <<srcVars, state, current, job, runtimeCtx, reloadVars, watchVars, endVars>>

\* The caller's context is cancelled during the load.
CallerCancels ==
    /\ job = "load" /\ startupCtx = "live"
    /\ startupCtx' = "cancelled"
    /\ UNCHANGED <<srcVars, state, current, jobVars, runtimeCtx, reloadVars, watchVars, endVars>>

\* source.load reads the document and, later, answers.
SourceReads ==
    /\ pc = "read" /\ job # "none" /\ ~Canceled
    /\ snap' = [snap EXCEPT ![at] = version[at]]
    /\ pc' = "reply"
    /\ UNCHANGED <<srcVars, state, current, job, at, ctxVars, reloadVars, watchVars, endVars>>

SourceReplies ==
    /\ pc = "reply" /\ ~Canceled
    /\ IF at < NumSources THEN pc' = "read" /\ at' = at + 1
                          ELSE pc' = "resolve" /\ at' = 1
    /\ UNCHANGED <<srcVars, state, current, job, snap, ctxVars, reloadVars, watchVars, endVars>>

\* Resolvers and schema accept the candidate.
Validates ==
    /\ pc = "resolve" /\ ~Canceled
    /\ pc' = IF job = "load" THEN "open" ELSE "publish"
    /\ UNCHANGED <<srcVars, state, current, job, at, snap, ctxVars, reloadVars, watchVars,
                   endVars>>

\* openWatcher for the next source, from the revision the candidate has.  A watcher
\* that arrives after the startup was cancelled is owned, and the load fails.
OpenWatcher ==
    /\ pc = "open" /\ at <= NumSources /\ ~Canceled
    /\ at' = at + 1
    /\ IF at \in Watched
       THEN /\ watcher' = [watcher EXCEPT ![at] = "open"]
            /\ seen' = [seen EXCEPT ![at] = snap[at]]
       ELSE UNCHANGED <<watcher, seen>>
    /\ UNCHANGED <<srcVars, state, current, job, pc, snap, ctxVars, reloadVars, stopOp, endVars>>

OpenWatcherLate ==
    /\ pc = "open" /\ at \in Watched /\ Canceled /\ watcher[at] = "none"
    /\ watcher' = [watcher EXCEPT ![at] = "open"]
    /\ UNCHANGED <<srcVars, state, current, jobVars, ctxVars, reloadVars, seen, stopOp, endVars>>

\* The watchers are the runtime's from here on; each loop runs at once, and returns
\* at once when a close came first.
LaunchWatchers ==
    /\ pc = "open" /\ at > NumSources /\ ~Canceled
    /\ startupCtx' = "none" /\ runtimeCtx' = "live"
    /\ watcher' = [s \in Sources |->
                     IF watcher[s] # "open" THEN watcher[s]
                     ELSE IF state = "loading" THEN "looping" ELSE "ended"]
    /\ pc' = "launched"
    /\ UNCHANGED <<srcVars, state, current, job, at, snap, reloadVars, seen, stopOp, endVars>>

\* runLoad's catch: an intentional stop only drains the watchers, anything else rolls
\* the startup back.
LoadFails(intentional) ==
    /\ startupCtx' = "none"
    /\ runtimeCtx' = IF runtimeCtx = "live" THEN "stopped" ELSE runtimeCtx
    /\ StopAccepted
    /\ IF DrainStarted /\ intentional
       THEN pc' = "abort" /\ UNCHANGED <<state, abnormal>>
       ELSE pc' = "rollback" /\ state' = "closing" /\ abnormal' = TRUE

\* The first publication; changes seen meanwhile start a reload.
Ready ==
    /\ pc = "launched" /\ ~abnormal
    /\ current' = snap
    /\ IF DrainStarted
       THEN /\ state' = "closing" /\ runtimeCtx' = "stopped"
            /\ job' = "none" /\ pc' = "queued" /\ UNCHANGED <<dirty, reloadActive>>
       ELSE /\ state' = "loaded" /\ Pump("loaded", dirty, FALSE) /\ UNCHANGED runtimeCtx
    /\ UNCHANGED <<srcVars, at, snap, startupCtx, retry, watchVars, endVars>>

NotReady ==
    /\ pc = "launched" /\ abnormal
    /\ LoadFails(FALSE)
    /\ UNCHANGED <<srcVars, current, job, at, snap, reloadVars, watcher, seen, cleanupErr,
                   drain, done>>

\* rollbackStartup, or the intentional abort, once the watchers have stopped.
LoadEnds ==
    /\ pc \in {"rollback", "abort"} /\ StopsSettled
    /\ IF pc = "rollback" THEN state' = "failed" /\ Settle("rejected")
                          ELSE UNCHANGED <<state, done>>
    /\ job' = "none" /\ pc' = "queued"
    /\ UNCHANGED <<srcVars, current, at, snap, ctxVars, reloadVars, watchVars, abnormal,
                   cleanupErr, drain>>

-----------------------------------------------------------------------------
\* Reloading.

\* Mutant of ReloadFails: a change reported during the failed round is forgotten, and
\* so is the one that caused it.
ReloadGivesUp(intentional) ==
    /\ job' = "none" /\ pc' = "queued" /\ reloadActive' = FALSE
    /\ UNCHANGED <<dirty, retry>>

\* Mutant of ReloadFails: the work stays dirty and no timer is armed.
ReloadFailsUntimed(intentional) ==
    /\ job' = "none" /\ pc' = "queued" /\ reloadActive' = FALSE
    /\ dirty' = (dirty \/ (~intentional /\ state = "loaded"))
    /\ UNCHANGED retry

\* backgroundFailed: the work stays dirty; it is retried at once when a newer change
\* came, and by the backoff timer otherwise.
ReloadFails(intentional) ==
    IF intentional \/ state # "loaded"
    THEN /\ job' = "none" /\ pc' = "queued" /\ reloadActive' = FALSE
         /\ UNCHANGED <<dirty, retry>>
    ELSE IF dirty
    THEN Pump(state, TRUE, FALSE) /\ retry' = "off"
    ELSE /\ job' = "none" /\ pc' = "queued" /\ reloadActive' = FALSE
         /\ dirty' = TRUE /\ retry' = "armed"

\* The round's publication, then backgroundSucceeded.  A close between prepare's last
\* check and the publication does not prevent it.
ReloadPublishes ==
    /\ pc = "publish"
    /\ current' = snap
    /\ retry' = "off"
    /\ Pump(state, dirty, FALSE)
    /\ UNCHANGED <<srcVars, state, at, snap, ctxVars, watchVars, endVars>>

\* A round fails: a source, a watch call or the validation rejects.
RoundFails ==
    /\ job # "none" /\ pc \in {"reply", "resolve", "open"} /\ ~Canceled
    /\ pc = "open" => at <= NumSources
    /\ Fail
    /\ IF job = "load"
       THEN LoadFails(FALSE) /\ UNCHANGED <<job, reloadVars>>
       ELSE ReloadFails(FALSE) /\ UNCHANGED <<state, ctxVars, stopOp, abnormal>>
    /\ UNCHANGED <<version, current, at, snap, watcher, seen, cleanupErr, drain, done>>

\* A round notices the cancellation of its context.
RoundCanceled ==
    /\ job # "none" /\ pc \in {"read", "reply", "resolve", "open"} /\ Canceled
    /\ IF job = "load"
       THEN LoadFails(startupCtx = "stopped") /\ UNCHANGED <<job, reloadVars>>
       ELSE ReloadFails(TRUE) /\ UNCHANGED <<state, ctxVars, stopOp, abnormal>>
    /\ UNCHANGED <<srcVars, current, at, snap, watcher, seen, cleanupErr, drain, done>>

RetryFires ==
    /\ retry = "armed"
    /\ retry' = "off"
    /\ Pump(state, dirty, reloadActive)
    /\ UNCHANGED <<srcVars, state, current, at, snap, ctxVars, watchVars, endVars>>

-----------------------------------------------------------------------------
\* Watching.

\* A source changes.
SourceChanges(s) ==
    /\ version[s] < MaxVersion
    /\ version' = [version EXCEPT ![s] = @ + 1]
    /\ UNCHANGED <<failures, state, current, jobVars, ctxVars, reloadVars, watchVars, endVars>>

\* Mutant of MarkDirty: a change during a reload is not remembered.
MarkDirtyUnlessActive ==
    /\ retry' = "off"
    /\ IF reloadActive THEN UNCHANGED <<dirty, reloadActive, job, pc>>
       ELSE IF state = "loaded" THEN Pump(state, TRUE, FALSE)
       ELSE dirty' = TRUE /\ UNCHANGED <<reloadActive, job, pc>>

\* markDirty: the retry is cancelled, because the change pumps a round itself.
MarkDirty ==
    /\ retry' = "off"
    /\ IF state = "loaded" THEN Pump(state, TRUE, reloadActive)
       ELSE dirty' = TRUE /\ UNCHANGED <<reloadActive, job, pc>>

\* watcher.next fulfils: something newer than what the watcher reported.
WatcherNext(s) ==
    /\ watcher[s] = "looping" /\ version[s] > seen[s]
    /\ seen' = [seen EXCEPT ![s] = version[s]]
    /\ IF state \in {"loading", "loaded"}
       THEN MarkDirty /\ UNCHANGED watcher
       ELSE /\ watcher' = [watcher EXCEPT ![s] = "ended"]
            /\ UNCHANGED <<reloadVars, job, pc>>
    /\ UNCHANGED <<srcVars, state, current, at, snap, ctxVars, stopOp, endVars>>

\* watcher.next rejects because the runtime stopped, and the loop returns.
WatcherStops(s) ==
    /\ watcher[s] = "looping" /\ runtimeCtx = "stopped"
    /\ watcher' = [watcher EXCEPT ![s] = "ended"]
    /\ UNCHANGED <<srcVars, state, current, jobVars, ctxVars, reloadVars, seen, stopOp, endVars>>

\* watcher.next rejects for another reason: a cleanup failure while closing,
\* otherwise the failure that ends a loaded configuration (recordAbnormal).
WatcherFails(s) ==
    /\ watcher[s] = "looping"
    /\ Fail
    /\ watcher' = [watcher EXCEPT ![s] = "ended"]
    /\ cleanupErr' = (cleanupErr \/ state = "closing" \/ abnormal)
    /\ abnormal' = (abnormal \/ state # "closing")
    /\ IF state = "loaded" THEN BeginDrain
       ELSE UNCHANGED <<state, ctxVars, dirty, retry, drain>>
    /\ UNCHANGED <<version, current, jobVars, reloadActive, seen, stopOp, done>>

\* A watcher's stop call settles.
StopSettles(s, ok) ==
    /\ stopOp[s] = "called"
    /\ IF ok THEN UNCHANGED failures ELSE Fail
    /\ stopOp' = [stopOp EXCEPT ![s] = "settled"]
    /\ cleanupErr' = (cleanupErr \/ ~ok)
    /\ UNCHANGED <<version, state, current, jobVars, ctxVars, reloadVars, watcher, seen,
                   abnormal, drain, done>>

-----------------------------------------------------------------------------
\* Closing.

Close ==
    /\ ~DrainStarted
    /\ BeginDrain
    /\ UNCHANGED <<srcVars, current, jobVars, reloadActive, watchVars, abnormal, cleanupErr,
                   done>>

\* Mutant of DrainQueue: the drain does not wait for the round in the queue.
DrainAtOnce ==
    /\ drain = "queue"
    /\ drain' = "stopping"
    /\ StopAccepted
    /\ UNCHANGED <<srcVars, state, current, jobVars, ctxVars, reloadVars, watcher, seen,
                   abnormal, cleanupErr, done>>

\* drainRuntime: after the queued round, the watchers are stopped, ...
DrainQueue ==
    /\ drain = "queue" /\ job = "none"
    /\ drain' = "stopping"
    /\ StopAccepted
    /\ UNCHANGED <<srcVars, state, current, jobVars, ctxVars, reloadVars, watcher, seen,
                   abnormal, cleanupErr, done>>

\* ... and after their stops and their loops, the outcome is published.
DrainEnds ==
    /\ drain = "stopping" /\ StopsSettled
    /\ \A s \in Sources : watcher[s] # "looping"
    /\ drain' = "ended"
    /\ state' = IF abnormal \/ cleanupErr THEN "failed" ELSE "closed"
    /\ Settle(IF abnormal \/ cleanupErr THEN "rejected" ELSE "resolved")
    /\ UNCHANGED <<srcVars, current, jobVars, ctxVars, reloadVars, watchVars, abnormal,
                   cleanupErr>>

-----------------------------------------------------------------------------
Init ==
    /\ version = [s \in Sources |-> 0] /\ failures = 0
    /\ state = "idle" /\ current = [s \in Sources |-> Unread]
    /\ job = "none" /\ pc = "queued" /\ at = 1 /\ snap = [s \in Sources |-> Unread]
    /\ startupCtx = "none" /\ runtimeCtx = "none"
    /\ dirty = FALSE /\ reloadActive = FALSE /\ retry = "off"
    /\ watcher = [s \in Sources |-> "none"] /\ seen = [s \in Sources |-> Unread]
    /\ stopOp = [s \in Sources |-> "no"]
    /\ abnormal = FALSE /\ cleanupErr = FALSE /\ drain = "none" /\ done = "pending"

\* Sources and watchers answer, settled promises continue, due timers fire.
Progress ==
    \/ BeginRound \/ SourceReads \/ SourceReplies \/ Validates \/ OpenWatcher
    \/ LaunchWatchers \/ Ready \/ NotReady \/ LoadEnds
    \/ ReloadPublishes \/ RoundCanceled \/ RetryFires
    \/ \E s \in Sources : WatcherNext(s) \/ WatcherStops(s) \/ StopSettles(s, TRUE)
    \/ DrainQueue \/ DrainEnds

Environment ==
    \/ \E pre \in BOOLEAN : Load(pre)
    \/ CallerCancels \/ Close \/ RoundFails \/ OpenWatcherLate
    \/ \E s \in Sources : SourceChanges(s) \/ WatcherFails(s) \/ StopSettles(s, FALSE)

Next == Progress \/ Environment

Spec == Init /\ [][Next]_vars /\ WF_vars(Progress)

-----------------------------------------------------------------------------
(* Properties. *)

\* The closure variables of newConfig keep the values its functions assign.
TypeOK ==
    /\ version \in [Sources -> Version] /\ failures \in 0 .. MaxFailures
    /\ state \in {"idle", "loading", "loaded", "closing", "closed", "failed"}
    /\ current \in [Sources -> Version \cup {Unread}]
    /\ job \in {"none", "load", "reload"} /\ pc \in JobPc /\ at \in 1 .. NumSources + 1
    /\ snap \in [Sources -> Version \cup {Unread}]
    /\ startupCtx \in {"none", "live", "stopped", "cancelled"}
    /\ runtimeCtx \in {"none", "live", "stopped"}
    /\ dirty \in BOOLEAN /\ reloadActive \in BOOLEAN /\ retry \in {"off", "armed"}
    /\ watcher \in [Sources -> {"none", "open", "looping", "ended"}]
    /\ seen \in [Sources -> Version \cup {Unread}]
    /\ stopOp \in [Sources -> {"no", "called", "settled"}]
    /\ abnormal \in BOOLEAN /\ cleanupErr \in BOOLEAN
    /\ drain \in {"none", "queue", "stopping", "ended"}
    /\ done \in {"pending", "resolved", "rejected"}

\* No reported change is lost: while the configuration is loaded, a change a watcher
\* has reported is published, or marked dirty, or the running round has yet to read
\* the source or has read at least that version.
ChangeAccountedFor ==
    state = "loaded" =>
        \A s \in Watched :
            \/ current[s] >= seen[s]
            \/ dirty
            \/ reloadActive /\ (pc = "queued" \/ snap[s] = Unread \/ snap[s] >= seen[s])

\* Dirty work always has an owner: a running round or the retry timer; and a round
\* runs exactly when reloadActive says so.
DirtyHasOwner ==
    /\ (state = "loaded" /\ dirty) => reloadActive \/ retry = "armed"
    /\ reloadActive <=> job = "reload"

\* When the terminal barrier settles, every accepted watcher has been stopped, and no
\* retry is pending; when it fulfils, no watcher loop and no round is left either.
WatchersReleased ==
    done # "pending" =>
        /\ \A s \in Accepted : stopOp[s] = "settled"
        /\ retry = "off"
        /\ done = "resolved" => job = "none" /\ \A s \in Sources : watcher[s] # "looping"

\* Nothing is published once the terminal barrier has settled, and a publication is
\* complete and never replaces a source's version by an older one (last-good).
PublicationsOnlyAdvance ==
    [][current' # current =>
          /\ done = "pending"
          /\ \A s \in Sources : current'[s] >= current[s] /\ current'[s] # Unread]_vars

\* While it stays loaded, the publication catches up with every watched source, also
\* when reload rounds fail in between.
Converges == (state = "loaded") ~> (state # "loaded" \/ \A s \in Watched : current[s] = version[s])

\* A drain, however begun, settles the terminal barrier.
CloseSettles == DrainStarted ~> done # "pending"
=============================================================================
