# A TLA+ model of go-like

go-like (`src/packages`) is a TypeScript toolkit for services: contexts with
cancellation and deadlines, an application lifecycle, configuration with
hot reload, resilience, clients and servers over several transports, service
registries, brokers and stores. Everything runs on JavaScript event loops: no
two pieces of code run at once, but every `await`, timer, abort event and
microtask is a point where another activity may run first. That is what these
modules model and check.

Paths below are relative to `src/packages/`.

## 1. Inventory

| Part | State it keeps | Operations | What is hard |
|---|---|---|---|
| `context` | a tree of contexts: error, cause, deadline, timer; abort listeners; waves of cancellation in progress; afterFunc registrations | `withCancel(Cause)`, `withDeadline/Timeout(Cause)`, `withValue`, `withoutCancel`, `afterFunc` | cancelling calls listeners synchronously and a listener may cancel, derive or stop again; three sources of cancellation race; long delays are cut into timer segments |
| `core` (`app.ts`, `lifecycle.ts`) | where `executeRun`, `executeStart` and `executeStop` are suspended; servers and their promises; the registration; three timers | `run`, `stop`, hooks, `server.start/stop/endpoint`, `register/deregister` | stop during startup, late answers after a timeout, failures from three sides |
| `config` (`config.ts`) | the last publication, a mutation queue, dirty flag, retry timer, watchers, the terminal barrier | `load`, watcher reports, reload rounds, `close`, `done` | changes reported while a round reads, failed rounds, watchers that arrive after a close |
| `resilience` | circuit state, failure count, probe, generation; token bucket; retry attempts | `execute`, `snapshot`; `limiter`, `retry` | outcomes arriving long after the state has changed |
| `client`, `registry` (selector) | calls and attempts, pooled and lent transport clients, open bodies; per endpoint the requests in flight, failures and cooldown | `call`, `fetch`, stream, `close`; select, report | a transport client changes hands between attempt, body and pool while close drains; feedback exactly once |
| `server`, `transport/*` | routes, the shared bind and close; listeners, exchanges, the address map | register, `endpoint`, `start`, `stop`; `listen`, `serve`, `dial`, `fetch`, `close` | close against handlers that still run; a stop during the bind |
| `registry/*` registrations | leases and keep-alives of etcd, Consul, ZooKeeper, Kubernetes, mDNS | register, deregister, watch | lost sessions, re-registration |
| `broker/*`, `nats` | subscriptions, deliveries, acknowledgements | publish, subscribe, ack, drain | redelivery, reconnect, drain |
| `cache/*`, `store/*` | entries, files | get, set, delete | file store: two queues (store and host), a cancelled wait leaves the native call running, a kill between write and rename |
| `health`, `event`, `metadata` | small registries | register, check, emit | check timeouts |
| `struct`, `web`, `otel`, `pino`, `winston`, `prometheus`, `protoc-gen-like`, `bullmq`, `croner` | codecs, bridges and adapters | | data transformation, host I/O |

How they interact. `context` is under everything: core derives the start, stop
and server contexts from it, config its startup and runtime contexts, client and
server one per call. `core` drives servers (transports, brokers, schedulers) and
a Registrar through promises and calls application hooks. `config` is driven by
sources and their watchers. `client` uses the selector, the transport and, as
middleware, the circuit breaker and the retry loop.

What makes each part correct:

- context: a cancelled parent always reaches its descendants; the first cause
  stays; deadlines are enforced and never extended; nothing leaks; an afterFunc
  callback runs once unless stopped.
- core: a fulfilled registration is withdrawn exactly once and before the
  servers stop; every server that was touched is stopped; run() fulfils only
  when all is clean; a stop always ends.
- config: no reported change is lost; a failed reload keeps the last good
  publication and is retried; every accepted watcher is stopped; close ends.
- circuit breaker: one probe at a time, always given back; stale outcomes count
  for nothing. Limiter: the answers of a bucket that is filled at every interval.
- memory transport and server: an exchange is in its owners' sets until one of
  six ways ends it, and no longer; serve waits for its handlers; a stop that
  reports success has stopped the server, and it ends start.
- client and selector: every open transport client has one keeper; close misses
  none; feedback balances selection; nothing answered is sent again.
- file store: it is a durable map whatever is killed, fails or is cancelled; one
  owner of the directory; a revision names one record.
- RabbitMQ broker: one consumer per subscription, none left behind; a listed
  subscription consumes again; the end of one is reported.

`PROJECT.json` lists every component (`components`), the line-by-line
correspondence (`map`) and everything in this code that is hard to test
(`hazards`), each with the properties that cover it.

## 2. Modules

One component module per part, one `MC` module with the values its runs need,
one `Proofs` module with its theorems. An action is the code between two points
at which other code may run (two awaits; two listener calls in `Context`).

### Context (`context/src/*.ts`)

`stack` is the JavaScript call stack as far as it matters: the active
`runCancellationWave` calls. A wave holds its queued parent-to-child tasks, the
cleanup frames, and the abort event being dispatched with the listeners still to
call. `inUser` says that an application listener is running; the `User` actions
(derive, cancel, add a listener, afterFunc, stop) are enabled there as well as
outside every wave, which is how re-entrance is explored to any depth.

| Actions | Code |
|---|---|
| `WithCancel`, `WithDeadline`, `WithValue`, `WithoutCancel` | the constructors, including a parent that is already terminal, an overdue deadline, a parent that expires first, and a timer set-up that throws |
| `CallCancel`, `WakeTimer` | `handle.cancel`; the timer callback, which re-arms or cancels |
| `RunTask`, `CallListener`, `ListenerReturns`, `FinishDispatch`, `RunCleanup`, `CancelReturns` | `drainCancellationWave`, `settle`, the abort event, the cleanup frames, the return of the CancelFunc |
| `AddListener`, `AfterFunc`, `StopReg`, `RunMicrotask` | raw abort listeners; `afterFunc`, its StopFunc and its microtask |

### App (`core/src/app.ts`, `lifecycle.ts`)

`run`, `start` and `stop` are the awaits at which `executeRun`, `executeStart`
and `executeStop` are suspended. Promises of hooks, servers and the Registrar
are settled by the environment at any time or never. A timeout may fire whenever
it is armed. `boundedStart` and `boundedStop` (a start or stop timeout of 0 is
no timeout) are chosen in the initial state.

Application code that is called synchronously may call stop() before it returns,
and the model follows it wherever the lifecycle's own state is still unfinished at
that moment:

- `Run(installs, inHook)`: a runtime installer that fails, and a first beforeStart
  hook that calls stop() while `startupPromise` is not assigned yet.
- `Launch(caller, throws)`: the loop of 745-762 tests `stopRequested` once, before
  it begins. A server's start may throw, and one of them (`caller`) may call stop();
  the loop starts the servers behind it nevertheless. Which failure or stop settles
  executeRun's race follows from the order within the loop.
- `StopApp(starting, held)`: `stopPromise` is assigned when executeStop returns its
  promise. Before that, `cancelApp()` dispatches to abort listeners, and without a
  startup to join the first beforeStop hook runs; a stop() called there begins
  another executeStop. `Stops` numbers them from the outermost: `stop`, `hookT`,
  `stopErr`, `stopExpired` and `stopOp` are the locals of each, everything else is
  the closure they share. `stop[1]` is the one whose promise is kept and that
  executeRun awaits. A listener starts at most one (the next finds a promise), and
  only if somebody holds a context that is not cancelled yet (`HoldsContext`);
  beforeStop hooks may nest any number (`last \in Stops`).

Later calls find `stopPromise` and change nothing. The stop timers of nested
executeStop fire independently of each other, an over-approximation. A beforeStop
hook that calls run() is not modelled.

### Config (`config/src/config.ts`)

A document is its version number; merge, resolve and validation succeed or fail
the round. The mutation queue holds at most one round (`job`, `pc`, `at`):
`reloadActive` admits one reload, and the load comes first. The two steps
`SourceReads` and `SourceReplies` separate the moment a source looks at its
document from the moment the answer arrives, so that a change may fall in
between. `drain` is `performDrain`; `done` the terminal barrier.

### Circuit (`resilience/src/circuit.ts`)

Every caller holds the ticket it was admitted with; outcomes are recorded in any
order, with or without an asynchronous classifier. `admittedAt` is the only
history variable.

### Limiter and TokenBucket (`resilience/src/limiter.ts`)

`Limiter` is the code: tokens and the last boundary change only when somebody
calls `allow` or `snapshot`. `TokenBucket` is what it promises: a bucket that a tick of the
clock fills at every boundary. The refinement mapping is what a call would find
now, `tokens <- Capped(availableTokens + Intervals * Refill)`. The clock has
several ticks to the millisecond, because the code reads a fractional clock and
rounds `retryAfterMs` up. `MCResilience` puts the breaker and the limiter in one
run, one of the two per behaviour: they share no state.

### MemoryTransport and Server (`transport/memory/src/transport.ts`, `server/src/index.ts`)

`Server` extends `MemoryTransport`: server s binds listener s, and the listeners
of `Raw` are used by the application directly, on the same address. An exchange
record follows one request through its handler (`run`), its response, its body
and the caller's `fetch`; `live` is the listener's set and `owned` the client's.
`StartCleanup(l, primary, again)` is the listener's `startCleanup`; `again` is
the re-entrant one, started by an abort listener that runs inside the first. A
server's start and its stops share one bind (`binding`) and one close
(`closing`); a stop before any bind is a no-op, as in the code. A caller's
context ends only that caller's wait (`StartGivesUp`, the `gaveUp` of a stop).

| Actions | Code |
|---|---|
| `Dial`, `Fetch`, `FetchSettles`, `CloseClient` | `connect`, `fetch` up to and after its await, `close` |
| `Invoke`, `HandlerSettles`, `BodyEnds`, `CallerAborts` | `invokeHandler`, `handlerResolved/Rejected`, `bodyEnded`, both abort registrations |
| `Listen`, `Serve`, `ServeContextDone`, `CloseListener`, `FailMemoryListener`, `CleanupSettles` | the listener and its cleanup |
| the actions of `Server` | registration, the shared bind, `start`, `stop` and the shared close |

### FileStore and DurableMap (`store/file/src/store.ts`, `node-host.ts`)

Several instances may be started on one directory; the files (`lock`, `temp`,
`snap`) outlive them. The store has one queue of operations, the host another
one of native calls: cancelling a mutation ends the store's wait and not the
native call, so the store's next mutation may run beside it. A kill may fall
between any two system calls and inside a write (`torn`); completed system calls
stay. A record is the mutation that wrote it. `DurableMap` is the promise: a
mutation takes effect on the durable content and then in the view, atomically
or not at all, in the order of the mutations, and an acknowledged one is in the
durable content. The mapping is `durable <- Visible(snap.records)`, `view <-` the
records of the loaded instance, `last <- snap.by`, `acked <-` the mutations that
returned.

### Selector and Client (`registry/src/selector.ts`, `client/src/index.ts`)

`Selector` holds the operators of the P2C policy: eligibility, sampling,
cooldown, feedback. `Client` extends it. A transport client is named by the
attempt that dialled it, `<<call, attempt>>`; it is kept by that attempt, by a
response body (`bodies`) or by the pool (`idle`), or it is being closed. The
actions are the code between two awaits of an attempt (select, dial, fetch,
reply, cleanup, back-off), the end or cancellation of a body, the idle timer,
and `close` with its drain. Each attempt is offered some set of endpoints, which
is how discovery appears here. Middleware and codecs are part of the attempt's
outcome.

### RabbitMqConsumer and RabbitMqBroker (`broker/rabbitmq/src/index.ts`)

`RabbitMqConsumer` is one native consumer on one channel: acquisition, the
recovery after a cancel notice, the delivery tail, and `beginStop`. `"resolved"`
is the moment between the server's consume-ok and the continuation that stores
the tag, in which a cancel notice may be dispatched. `RabbitMqBroker` extends it
with the recovering broker: generations, the setup that replays the listed
subscriptions on a new channel, `attach`, and the stop of a subscription.
amqplib is external and modelled from its use: a closed channel rejects its
pending calls before the disconnect event, and two setups never overlap.
Continuations are separate actions that may run late, after events that a
microtask would in fact precede: an over-approximation, so the safety results
cover more orders than the engine can produce.

## 3. Runs

| Run | Bounds | Shows |
|---|---|---|
| `context_tree` | 3 contexts, 2 listeners or callbacks, 1 cause | `PropagationOwed`, `OutermostCancelSettlesAll`, `AfterFuncOnce` |
| `context_timers` | 2 contexts, 1 registration, 4 clock values, segments of 2 | `CauseProvenance`, `CleanupOwed`, `DeadlineNeverExtended`; live: `AfterFuncRuns`, `DeadlineEnforced` |
| `context_reentry` | 3 contexts, 1 listener | finding 1 |
| `app` | 2 servers (one an Endpointer), 2 beforeStart hooks and 1 of the others, all timeout configurations, `MaxStops` 2, `EnvironmentBound` | `NoOrphanInstance`, `WithdrawnBeforeStop`, `EveryServerStopped`, `RunOkMeansClean`; action: `NoStartBehindStop`; live: `StopSettles`, `RegistrationWithdrawn` |
| `app_join` | 1 server | finding 2 |
| `config` | 2 watched sources, 2 changes each, 2 failures | `ChangeAccountedFor`, `DirtyHasOwner`, `WatchersReleased`, `PublicationsOnlyAdvance`; live: `Converges`, `CloseSettles` |
| `resilience` | 3 callers, threshold 2, reset timeout 2, clock to 5; bucket of 3, refill 1 per 2 ms, 2 ticks per ms, clock to 18 | `ProbeExclusive`, `CountMatchesState`, `OnlyFreshProbeCloses`; live: `ProbeReleased`; refinement: `ImplementsTokenBucket` |
| `rpc` | 1 server and 1 raw listener on one address, 1 client, 2 fetches, 1 stop | `NoExchangeLeaks`, `ServeJoinsHandlers`, `StopMeansStopped`; live: `StopEndsStart` |
| `file_store` | 2 instances, 2 keys, 2 mutations, largest revision 2 | `RevisionIdentifiesRecord`, `SingleOwner`; refinement: `ImplementsDurableMap`; live: `StopSettles` |
| `client` | 2 calls of up to 2 attempts, 2 endpoints, threshold 1, cooldown 1, pool of 1, clock to 1, `CallBound` | `OneKeeper`, `DrainLeavesNothing`, `LeaseBalance`, `NoReplay` |
| `rabbitmq` | up to 2 subscriptions, 2 recovery attempts, a budget of 5 of which a subscription costs 2 and a fault 1 | `NoZombieConsumer`; live: `Resumes` |
| `rabbitmq_report` | 1 subscription, a budget of 3 | finding 3 |

Why the bounds are enough to be interesting. A re-entrant cancel matters from a
chain of three contexts on (the middle one is cancelled first), and two
registrations let one listener stop or race another. A segment of 2 in a clock
of 3 makes a deadline need two segments. Two servers suffice for one to fail
while the other runs, or to be started behind one that calls stop(), and two hooks
for a stop between them. Two executeStop are enough for one to take the registration
while the other goes on, and for one's failure to be missed by the other.
`EnvironmentBound` keeps that run small: only the second server's stop fails, and only
in an application without timeouts either the first server's start fails or a stop()
is nested in another. No fairness is assumed of the steps it excludes, or they have an
alternative without nesting, so the behaviours that remain are checked under the full
fairness; that a nested stop with a stop timeout settles is therefore not checked,
while the proofs of the safety properties need no such bound.

Two changes per
source let one change fall before and one after the read of a round; two
failures let a retry fail again, or a load fail while a watcher's stop fails.
Three callers let two stale outcomes surround a probe, and a clock of 5 reaches
two open periods. A clock of 18 passes four boundaries of the bucket, with and
without calls between them, and fills it to its capacity. Two fetches of one
client let one be in its handler and one in its body when a close, an abort or a
stop comes, and the raw listener can take the address when the server has
released it. Two mutations are what it takes for a cancelled one's native call to
run beside the next, and two instances for a restart after a kill and for a
second start beside a live owner; a largest revision of 2 exhausts the counter.
Two calls with a pool of one make one call evict or reuse what the other gave
back, and a second attempt meets the cooldown the first one caused; the symmetry
on calls is sound because no liveness is checked there. `CallBound` lets one caller
cancel at a time and one of the calls under way be raw or a stream; a body outlives
its call, so two of them may still be open. The budget of `rabbitmq`
allows one subscription with three faults (a loss during the recovery from a
cancel notice during a replay) or two subscriptions with one (a loss between the
replays of the two). For all components but RabbitMQ the proofs also lift the
bounds of the safety properties (section 5).

Deadlock checking is off everywhere because every one of these systems may
stop: contexts and calls may simply not be used any more, an application ends,
a configuration is closed, and the bounded clocks and counters run out.

Fairness, and why the code justifies it:

- Context: weak fairness of `Runtime` (the JavaScript engine continues running
  code, empties the microtask queue and fires due timers; a listener returns)
  and of `Tick` (time passes). Nothing is assumed of `User`.
- App: weak fairness of `Loop` (continuations of settled promises) and `Timers`.
  Hooks and servers are assumed to answer only when there is no stop timeout
  (`~boundedStop`), because only then does the code wait for them for ever. The
  Registrar is never assumed to answer: `registrarTimeout` always bounds it.
- Config: weak fairness of `Progress`: sources and watchers answer, stops settle,
  timers fire. The code has no timeout of its own for them, so without this
  assumption a drain really may not end. Changes, failures, load and close are
  not fair; failures are bounded by `MaxFailures`, which stands for "the sources
  do not fail for ever".
- Circuit: each admitted call ends (`Ends`); `execute` waits for nothing else.
- Server: the engine runs queued continuations and microtasks (`CaptureListener`,
  `StartResumes` or `StartGivesUp`, `StartSettles`, `CloseBegins`, `CloseSettles`,
  `CleanupSettles`, `Invoke`). A handler is assumed to settle only once its
  exchange is finished, that is, when its context was cancelled: the code has no
  other way to end it, and a close really waits for it.
- FileStore: each live owner's start, drain and host steps and each mutation's
  steps; that is, native calls answer and continuations run. Kills, errors,
  cancellations and new mutations are not fair.
- RabbitMq: weak fairness of `SetupStep`, `BrokerStep(s)` and `Consume(s)`:
  callbacks run, handlers return, the server answers and the connection is made
  again sooner or later. Application calls, deliveries and faults are not fair,
  and faults are bounded by the budget.
- Limiter: none; its refinement is a safety property. `Client` states no
  liveness: an attempt waits for the transport, and a drain for bodies that the
  application may never read.

## 4. Findings

1. `context_reentry` / `CancelSettlesAll`. The comment in `context/src/cancel.ts`
   line 123 says that a CancelFunc "returns only after its descendants settle".
   A CancelFunc called from an abort listener of a running wave may return
   earlier, because a descendant's task can be queued on the outer wave.
   `OutermostCancelSettlesAll` is what does hold.
2. `app_join` / `StopJoinsStartup`. The README of `core` (lines 76-77) says that
   stop waits for the startup hook already entered. When the first beforeStart
   hook calls stop() synchronously, `startupPromise` is not assigned yet and the
   stop does not join: it cleans up beside the hook.
3. `rabbitmq_report` / `EndIsReported`. The README of `broker/rabbitmq` (lines
   37-39) says that a failed handler ends the subscription and is reported
   through the runtime promise. When a handler fails in the current generation,
   its wrapper marks the subscription stopped and delists it; if the connection is
   lost while `channel.cancel` is pending, the generation moves on and
   `terminal.catch` (`index.ts` 769-776) returns early. The terminal is never
   settled and no later setup replays the subscription: it is silently gone until
   somebody unsubscribes. `NoZombieConsumer` and `Resumes` hold nevertheless.

Seen while modelling, without a run of their own (the models do what the code
does):

- `core`, a stop() called by an abort listener while `cancelApp()` (`app.ts` 625)
  dispatches to it: `stopPromise` is not assigned yet (701), so a second executeStop
  begins beside the first. A Server.stop that rejects there is not reported by run(),
  which awaits the outer promise, although `doc/guide/architecture.md` (line 97)
  speaks of "one stable, shared Promise"; and the one that finds `registeredInstance`
  taken cancels the servers (648) while the other still awaits the deregistration,
  although the README of `core` (lines 77-78) keeps their Context valid until then.
  `RunOkMeansClean` and `WithdrawnBeforeStop` state what does hold.
- `transport/memory`: a handler of a raw listener that returns a Response with a
  locked body marks the exchange settled and throws before the response is
  resolved; the caller waits until its context ends or the listener closes
  (outcome `lockedBody`, not among the `Outcomes` of the `rpc` run).
- `client`: a body that failed or was cancelled still returns its transport client
  to the pool, although `client/README.md` line 133 keeps it for a body that ended
  well; several idle transport clients may be pooled for one address, although
  the top-level README (line 319) says at most one; a close while a dial is under
  way counts as a failure of the endpoint.
- `registry` selector: selecting with a narrower label filter drops the P2C state
  of the endpoints that are not offered.
- `store/file`: a mutation that is cancelled between its write and its rename
  leaves the temporary file, and later mutations fail with EEXIST until the next
  start removes it; revisions of cancelled and crashed mutations are used again,
  which `RevisionIdentifiesRecord` shows to be harmless to callers.

## 5. Proofs

TLAPS proves the following for every value of the constants, under the named
assumptions of the component modules only (`BoundsAssumption` and
`CausesAssumption`, `AppAssumption`, `ConfigAssumption`, `CircuitAssumption`,
`LimiterConstants`, `TransportConstants`, `ServerConstants`, `StoreConstants`,
`SelectorConstants`, `ClientConstants`, `RabbitMqConstants`): bounds are natural numbers, intervals
and capacities are not 0, watched sources are sources, routes served by HTTP are routes,
the set of calls is finite, and a value that stands for "none" names nothing
else. TLC evaluates each of them on the instances of the runs.

| Module | Theorems | Inductive invariant |
|---|---|---|
| `ContextProofs` | `TypeCorrect`, `FirstCauseWinsTheorem`, `DeadlineNeverExtendedTheorem` | `Types = Shape /\ Wired`. A wave reads the failure of the parent's signal for each task, so every child in a task queue or a listener list must have a parent with a signal; and a context that is not derived yet must have no error and no timer |
| `ContextProofs` | `Invariance`, `PropagationOwedTheorem`, `CleanupOwedTheorem`, `CauseProvenanceTheorem`, `AfterFuncOnceTheorem`, `OutermostCancelTheorem` | `IInv = Types /\ NodeInv /\ SignalInv /\ WaveInv /\ CallerInv /\ ListenInv /\ OwedInv /\ ChildInv /\ RegInv /\ CleanupOwed /\ CauseProvenance`. A wave dispatches and cleans up terminal contexts and cancels children of terminal signals only (`WaveInv`); a signal has the listeners of existing children and used registrations (`ListenInv`), and one that is still attached when the signal is terminal is in the rest of a dispatch (`OwedInv`). So a live child below a terminal signal is called or has its task queued (`ChildInv`), and a registration is pending, queued or over (`RegInv`). The seventeen actions are reduced to ten effects first (`Effect`), what no effect takes back is one lemma (`EffectGrows`), and each part has one step per effect. The outermost CancelFunc settles every descendant because its own context is terminal (`CallerInv`), a signal without a live cancel node is terminal (`SignalInv`) and a drained stack owes nothing: the least live descendant would be owed a cancellation. That the recursive function of `Ancestors` exists is proved from the least number without one (`Least`, `ChainExists`) |
| `AppProofs` | `TypeCorrect`, `NoOrphanInstanceTheorem`, `WithdrawnBeforeStopTheorem`, `EveryServerStoppedTheorem`, `RunOkMeansCleanTheorem`, `NoStartBehindStopTheorem` | `Types /\ PhaseInv /\ RegInv /\ ServerInv`. Who owns the registration depends on which phases of start and stop can coincide: until a stop has given up on it, a startup that is registering holds every executeStop at its join (`PhaseInv`). What one executeStop knows of its own Server.stop calls and of the start promises stays true whatever another does to `serverResults` and `serversCancelled` (`StopInv(i)`, one for each, in `ServerInv`). A stop requested by a server's start has called no Server.stop when the launch loop ends, so no server is started behind one |
| `ConfigProofs` | `TypeCorrect`, `ChangeAccountedForTheorem`, `DirtyHasOwnerTheorem`, `WatchersReleasedTheorem`, `PublicationsOnlyAdvanceTheorem` | `Types /\ PhaseInv /\ ReadInv /\ ReleaseInv /\ SeenInv /\ DirtyHasOwner`. Publications move forward because a round starts from nothing, reads what the source has now, and nothing published is newer than its source; the barrier is safe because a rollback and the drain past the queue have called every accepted watcher's stop |
| `ResilienceProofs` | `ProbeExclusiveTheorem`, `CountMatchesStateTheorem`, `OnlyFreshProbeClosesTheorem` | `TypeOK /\ TicketsSound /\ ProbeExclusive /\ CountMatchesState /\ ProbesFresh`. A ticket of the current generation was issued in the current state, and none is newer than the circuit |
| `ResilienceProofs` | `ImplementsTokenBucketTheorem` | `LimiterInv`: the last boundary is a multiple of the interval and not after the clock. Whole intervals since that boundary are a quotient, so a tick adds one exactly when the clock meets a multiple (lemmas on `\div` and `%`); capping after each interval or once for all of them is the same |
| `ServerProofs` | `NoExchangeLeaksTheorem`, `ServeJoinsHandlersTheorem`, `StopMeansStoppedTheorem` | `TypeOK /\ ExchangeInv /\ ClientInv /\ NoExchangeLeaks /\ ListenerInv /\ ServerInv /\ StopInv`. A cleanup that has settled found no handler and a closed listener admits none (`ListenerInv`); bind, start and close of a server move together (`ServerInv`), and a successful stop has seen the shared close succeed (`StopInv`) |
| `FileStoreProofs` | `SingleOwnerTheorem`, `RevisionIdentifiesRecordTheorem`, `ImplementsDurableMapTheorem` | `TypeOK /\ OwnerInv /\ SingleOwner /\ QuietInv /\ OpInv /\ HostInv /\ PhaseInv /\ DataInv /\ RevisionIdentifiesRecord`. Only the owner has operations and native calls (`QuietInv`); the host's queue holds the calls that the operations' phases say (`OpInv`, `HostInv`, `PhaseInv`), also those whose operation was cancelled; what callers have seen is below the revision counter or is in the snapshot (`DataInv`). The refinement maps a rename to the durable write, the continuation after it to the change of the view, and everything else to a stutter |
| `ClientProofs` | `OneKeeperTheorem`, `DrainLeavesNothingTheorem`, `LeaseBalanceTheorem`, `NoReplayTheorem` | `TypeOK /\ CallInv /\ KeeperInv /\ DrainInv /\ DrainLeavesNothing /\ LeaseInv`. What a call's record holds follows from the await it is suspended at (`CallInv`); pool, attempts and bodies exclude each other, and a transport client that was ever kept belongs to an attempt past its dial, which is why a new attempt's name is fresh (`KeeperInv`); a drain that has settled found nobody that could still dial (`DrainInv`); the counter of an endpoint is the cardinality of its attached leases, which changes by one element at a time (`LeaseInv`) |
| `RabbitMqProofs` | `TypeCorrect`, `NoZombieConsumerTheorem` | `TypeOK /\ ConInv /\ ServedInv /\ PairInv /\ GenInv`. The server has at most the newest acquisition of the newest consumer, on the open channel, and only while that consumer has the tag, is about to store it or is about to cancel it (`ServedInv`, over what a consumer's phase says, `ConInv`). A replay replaces a consumer only when it has none on the open channel: there, the subscription either attaches it, stops it or has its handle in the current generation (`PairInv`), because no generation changes under an open channel and between two channels nobody has or gets a handle of the current one (`GenInv`). Every step of one subscription is first shown to be `Local`, and one lemma shows that a local step keeps all parts |

Each proof has one lemma per part of the invariant and in it one step per action.
Where an action rewrites one record of a function, a lemma first states its effect
on that record, and the parts of the invariant rest on that lemma. The theorems
carry the properties beyond the bounds of the runs: any number of contexts and
nested waves, of servers, hooks and nested stops, of sources and changes, of callers, of
listeners, clients and exchanges, of instances, keys and mutations, of calls,
attempts and endpoints, of subscriptions and channels, and a limiter with any capacity, interval and clock.

`FirstCauseWins` and the type invariants of the proved components are stated by
theorems only.

Only model-checked: all liveness properties (fairness and ENABLED are outside
the prover's reach). Induction over a data structure with a predicate as parameter
is outside it too; where a proof needs one, it takes the least element of the set of
counterexamples instead (`Least`).

## 6. Not modelled

- In `context`: foreign Context implementations (`delegateAfterFunc` and the
  observation of a signal that this package did not create), value lookup, and
  listeners or callbacks that throw.
- In `core`: option validation, the text and nesting of errors, `node.ts` (a
  runtime installer; signals are the environment's `CallStop`).
- In `config`: the observers of `watch(key)`, `scan` and `value`, which only
  read a publication; merging and validation as data; the source implementations.
- In `resilience`: the length of the back-off and its jitter. The retry loop
  itself is part of `Client`.
- In `client`: the resolver (each attempt is offered some set of endpoints),
  codecs, middleware, and what a stream does with its frames.
- In `registry`: the random, round-robin and weighted policies, the latency
  estimate and label filters; the registrations and watch loops of etcd, Consul,
  ZooKeeper, Kubernetes and mDNS, which are bound to client libraries that are not
  in the repository or to a wire protocol.
- In `server`: decoding, typed handlers and server streams, which are the running
  time of a handler here. In `transport`: HTTP and gRPC, whose state lives in the
  host's sockets; the SSE parser.
- In `store/file`: record bytes, the encoding and its checksum, validation, and
  loss of power (a rename that the disk had not made durable). The other stores
  and caches are sequential maps or single requests to a service.
- In `broker/rabbitmq`: `handle.stop()`, publishing, acknowledgement, and the
  waits that a caller's context cuts short without changing state. The memory
  broker and NATS.
- The other packages: see `components` in `PROJECT.json`, with the reason for each.
  Codecs, bridges, logging adapters and generated code stay out: pure functions
  over recursive data, or I/O of the host.

## 7. Plan

Modelled, checked and proved: `Context`, `App`, `Config`, `Circuit`, `Limiter`,
`MemoryTransport` with `Server`, `FileStore`, `Selector` with `Client` and its
retries, and the RabbitMQ subscriber.

Every invariant and every safety action property of the passing runs is stated by a
theorem.

To model, should the project grow: the client's resolver over a watched registry,
the etcd registration (a lease lost and renewed) behind App's Registrar contract,
and the streams of client and server with their back-pressure. A last-good
register implemented by `Config` and a breaker without generations implemented by
`Circuit` are further abstract specifications worth stating.
