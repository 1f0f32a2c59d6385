-------------------------------- MODULE App --------------------------------
(***************************************************************************)
(* The application lifecycle of @go-like/core (packages/core/src/app.ts):  *)
(* run() starts hooks, servers and the registration; stop() takes them     *)
(* down again.  executeStart, executeStop and executeRun are asynchronous  *)
(* functions of one event loop: each variable start, stop and run is the   *)
(* await such a function is suspended at, and an action is the code        *)
(* between two awaits.                                                     *)
(*                                                                         *)
(* Hooks, servers and the Registrar are application code: their promises   *)
(* settle in any order, at any time, or never.  Timeouts may fire at any   *)
(* moment after they are armed.                                            *)
(*                                                                         *)
(* executeStop may run more than once.  stopPromise is assigned only when  *)
(* executeStop returns its promise, and before that it calls application   *)
(* code: the abort listeners cancelApp() dispatches to and, when there is  *)
(* no startup to join, the first beforeStop hook.  A stop() called there   *)
(* finds no stopPromise and begins an executeStop of its own, nested in    *)
(* the first.  Stops numbers them from the outermost, which is the one     *)
(* stopPromise is left with and run() awaits; the inner ones run beside it *)
(* on the same closure variables.                                          *)
(***************************************************************************)
EXTENDS Integers, FiniteSets

CONSTANTS
    NumServers,     \* the number of servers given to server(...)
    Endpointers,    \* the servers whose endpoint() is resolved for registration
    HasRegistrar,   \* a Registrar is configured
    HookCount,      \* HookCount[phase]: the hooks configured for a phase
    BoundedStarts,  \* the values of startTimeoutMs > 0 to explore
    BoundedStops,   \* the values of stopTimeoutMs > 0 to explore
    MaxStops        \* bound: how many calls of stop() executeStop may be nested in

Servers == 1 .. NumServers
Stops == 1 .. MaxStops
HookPhase == {"beforeStart", "afterStart", "beforeStop", "afterStop"}

ASSUME AppAssumption ==
    /\ NumServers \in Nat
    /\ Endpointers \in SUBSET Servers
    /\ HasRegistrar \in BOOLEAN
    /\ HookCount \in [HookPhase -> Nat]
    /\ BoundedStarts \in SUBSET BOOLEAN /\ BoundedStops \in SUBSET BOOLEAN
    /\ MaxStops \in Nat \ {0}

VARIABLES
    boundedStart, boundedStop,  \* the configuration, fixed by newApp
    run,            \* executeRun
    winner,         \* what settled executeRun's Promise.race first
    runErr,         \* executeRun has recorded an error
    installed,      \* runtimeCleanup is set
    start, hookS,   \* executeStart, and the hook it awaits
    joinable,       \* startupPromise is set
    stop, hookT,    \* stop[i]: the i-th executeStop, and the hook it awaits
    stopErr,        \* stopErr[i]: it has recorded an error
    stopRequested, abandoned,    \* startupAbandoned
    startExpired, registrarExpired,  \* the timers of the startup that have fired
    stopExpired,    \* stopExpired[i]: the stop timer of the i-th executeStop has
    launched, prepared,          \* serversLaunched, preparedServers
    serversCancelled,            \* cancelServers() was called
    srv,            \* srv[s]: the promise of server s's start
    stopOp,         \* stopOp[i][s]: the promise of the i-th executeStop's call of
                    \* server s's stop
    serverFailure,  \* the first start rejection was published
    results,        \* serverResults, the start outcomes known at the terminal join
    register,       \* the promise of registrar.register
    registered,     \* registeredInstance # null
    lateWatch,      \* a failed registerInstance still watches its register call
    deregisters     \* number of registrar.deregister calls

cfgVars == <<boundedStart, boundedStop>>
runVars == <<run, winner, runErr, installed>>
startVars == <<start, hookS, joinable>>
stopVars == <<stop, hookT, stopErr, stopRequested, abandoned>>
timerVars == <<startExpired, stopExpired, registrarExpired>>
serverVars == <<launched, prepared, serversCancelled, srv, stopOp, serverFailure, results>>
regVars == <<register, registered, lateWatch, deregisters>>
vars == <<cfgVars, runVars, startVars, stopVars, timerVars, serverVars, regVars>>

StartPc == {"none", "beforeStart", "launch", "yield", "endpoint", "built",
            "register", "ready", "afterStart", "done", "failed"}
StopPc == {"none", "join", "beforeStop", "drain", "deregister", "stopServers",
           "joinServers", "afterStop", "done"}
StartWaits == {"beforeStart", "endpoint", "register", "afterStart"}
StopWaits == {"join", "beforeStop", "deregister", "stopServers", "joinServers", "afterStop"}

-----------------------------------------------------------------------------
\* Contexts.  appContext is cancelled exactly when stop is requested: executeStop
\* cancels it first, and a cancelled parent calls stopApp from the same microtask
\* checkpoint (observeParent).

StartContextDone == stopRequested \/ startExpired

\* Mutant of StopGivesUp: the stop context does not end any wait.
StopNeverGivesUp(i) == FALSE

\* waitForPhase: a bounded wait ends when its context does, whatever the awaited
\* operation does later (waitForContext); an unbounded one never gives up.
StartGivesUp == boundedStart /\ StartContextDone
StopGivesUp(i) == boundedStop /\ stopExpired[i]

-----------------------------------------------------------------------------
\* Requesting the stop.

FirstHookOrDrain == IF HookCount["beforeStop"] = 0 THEN "drain" ELSE "beforeStop"

\* Application code may listen to a context that cancelApp() will cancel: a startup
\* hook, an endpoint or a register call was given one, and it is not cancelled yet.
HoldsContext ==
    /\ start # "none"
    /\ ~(boundedStart /\ (startExpired \/ start \in {"done", "failed"}))
    /\ \/ HookCount["beforeStart"] > 0 \/ prepared # {} \/ start = "register"
       \/ HookCount["afterStart"] > 0 /\ start \in {"afterStart", "done", "failed"}

\* The part of stopApp and executeStop before the first await, with the calls of
\* stop() nested in it: one by an abort listener (`held': there may be one), and any
\* number by first beforeStop hooks, which run in this part only if startupPromise is
\* not set (`starting': it is).  A call after this part finds stopPromise.
StopApp(starting, held) ==
    IF stopRequested THEN UNCHANGED <<stop, stopRequested>>
    ELSE \E last \in Stops :
            /\ \/ last = 1
               \/ last = 2 /\ held
               \/ ~starting /\ HookCount["beforeStop"] > 0
            /\ stopRequested' = TRUE
            /\ stop' = [i \in Stops |-> IF i > last THEN "none"
                                        ELSE IF starting THEN "join" ELSE FirstHookOrDrain]

\* App.stop() is called, or the parent context is cancelled.
CallStop ==
    /\ ~stopRequested
    /\ StopApp(joinable, HoldsContext)
    /\ winner' = IF run = "racing" /\ winner = "none" THEN "stop" ELSE winner
    /\ UNCHANGED <<cfgVars, run, runErr, installed, startVars, hookT, stopErr, abandoned,
                   timerVars, serverVars, regVars>>

-----------------------------------------------------------------------------
\* Running.

\* executeStart up to its first await.
FirstStartAwait(requested) ==
    IF requested \/ HookCount["beforeStart"] = 0 THEN "launch" ELSE "beforeStart"

\* run(): install the runtime integration and begin the startup.  A runtime
\* installer that throws fails the run.  `inHook' is a first beforeStart hook that
\* calls stop() before it returns: startupPromise is not assigned at that moment.
Run(installs, inHook) ==
    /\ run = "idle"
    /\ inHook => FirstStartAwait(stopRequested) = "beforeStart" /\ ~stopRequested /\ installs
    /\ IF installs
       THEN /\ run' = "racing"
            /\ start' = FirstStartAwait(stopRequested)
            /\ hookS' = 1
            /\ joinable' = TRUE
            /\ winner' = IF stopRequested \/ inHook THEN "stop" ELSE "none"
            /\ IF inHook THEN StopApp(FALSE, TRUE) ELSE UNCHANGED <<stop, stopRequested>>
            /\ UNCHANGED runErr
       ELSE /\ run' = "stopping"
            /\ runErr' = TRUE
            /\ StopApp(FALSE, FALSE)
            /\ UNCHANGED <<startVars, winner>>
    /\ installed' = installs
    /\ UNCHANGED <<cfgVars, hookT, stopErr, abandoned, timerVars, serverVars, regVars>>

\* executeRun wakes from its races.  A failure is recorded, unless it is the
\* cancellation a requested stop brings about, and stops the application.
RunWakes ==
    /\ run = "racing" /\ winner # "none"
    /\ run' = "stopping"
    /\ runErr' = (winner \in {"start", "server"} \/ (winner = "canceled" /\ ~stopRequested))
    /\ StopApp(joinable, HoldsContext)
    /\ UNCHANGED <<cfgVars, winner, installed, startVars, hookT, stopErr, abandoned, timerVars,
                   serverVars, regVars>>

\* Mutant of RunSettles: run() awaits the promise of an executeStop nested in another.
RunSettlesInner(cleans) ==
    /\ run = "stopping"
    /\ \E i \in Stops :
          /\ stop[i] = "done" /\ \A j \in Stops : j > i => stop[j] = "none"
          /\ run' = IF runErr \/ stopErr[i] \/ ~cleans \/ \E s \in Servers : results[s] = "failed"
                    THEN "failed" ELSE "ok"
    /\ ~cleans => installed
    /\ installed' = FALSE
    /\ UNCHANGED <<cfgVars, winner, runErr, startVars, stopVars, timerVars, serverVars, regVars>>

\* executeRun after the stop it awaits, the outermost: collect the servers' failures,
\* remove the runtime integration (`cleans': its cleanup did not throw) and settle.
RunSettles(cleans) ==
    /\ run = "stopping" /\ stop[1] = "done"
    /\ run' = IF runErr \/ stopErr[1] \/ ~cleans \/ \E s \in Servers : results[s] = "failed"
              THEN "failed" ELSE "ok"
    /\ ~cleans => installed
    /\ installed' = FALSE
    /\ UNCHANGED <<cfgVars, winner, runErr, startVars, stopVars, timerVars, serverVars, regVars>>

-----------------------------------------------------------------------------
\* Starting.

\* executeStart rejects: the race sees it if nothing settled the race before.
StartFails ==
    /\ start' = "failed"
    /\ winner' = IF winner = "none" THEN "start" ELSE winner

\* A start hook fulfils: the next hook is called, or the phase is over.
StartHookReturns ==
    /\ start \in {"beforeStart", "afterStart"} /\ ~StartGivesUp
    /\ IF hookS < HookCount[start]
       THEN hookS' = hookS + 1 /\ UNCHANGED start
       ELSE /\ start' = IF start = "beforeStart" THEN "launch" ELSE "done"
            /\ UNCHANGED hookS
    /\ UNCHANGED <<cfgVars, runVars, joinable, stopVars, timerVars, serverVars, regVars>>

\* A start hook or an endpoint() rejects.
StartStepFails ==
    /\ start \in {"beforeStart", "endpoint", "afterStart"} /\ ~StartGivesUp
    /\ StartFails
    /\ UNCHANGED <<cfgVars, run, runErr, installed, hookS, joinable, stopVars, timerVars,
                   serverVars, regVars>>

\* The start context ends a bounded wait; an unfinished register call stays watched.
StartWaitEnds ==
    /\ start \in StartWaits /\ StartGivesUp
    /\ StartFails
    /\ lateWatch' = (lateWatch \/ start = "register")
    /\ UNCHANGED <<cfgVars, run, runErr, installed, hookS, joinable, stopVars, timerVars,
                   serverVars, register, registered, deregisters>>

\* Mutant of Launch: the stop request is not consulted.
LaunchAlways(caller, throws) ==
    /\ start = "launch"
    /\ start' = "yield"
    /\ launched' = TRUE
    /\ srv' = [s \in Servers |-> "running"]
    /\ UNCHANGED <<cfgVars, runVars, hookS, joinable, stopVars, timerVars, prepared,
                   serversCancelled, stopOp, serverFailure, results, regVars>>

\* The synchronous loop that calls every server's start, unless a stop was requested
\* before it.  Those in `throws' throw; the start of `caller', if there is one (not 0),
\* calls stop() before it returns or throws, and the loop goes on behind it.
Launch(caller, throws) ==
    /\ start = "launch"
    /\ start' = "yield"
    /\ IF stopRequested
       THEN /\ caller = 0 /\ throws = {}
            /\ UNCHANGED <<winner, stop, stopRequested, launched, srv, serverFailure>>
       ELSE /\ launched' = TRUE
            /\ srv' = [s \in Servers |-> IF s \in throws THEN "failed" ELSE "running"]
            /\ serverFailure' = (throws # {})
            /\ IF caller = 0 THEN UNCHANGED <<stop, stopRequested>>
                             ELSE StopApp(joinable, HoldsContext)
            /\ winner' = IF winner # "none" THEN winner
                         ELSE IF \E s \in throws : caller = 0 \/ s < caller THEN "server"
                         ELSE IF caller # 0 THEN "stop" ELSE "none"
    /\ UNCHANGED <<cfgVars, run, runErr, installed, hookS, joinable, hookT, stopErr, abandoned,
                   timerVars, prepared, serversCancelled, stopOp, results, regVars>>

\* buildInstance calls endpoint() of the first Endpointer not yet prepared, and is
\* over when there is none or a stop was requested.
NextEndpoint ==
    LET rest == Endpointers \ prepared
    IN  IF rest = {} \/ stopRequested
        THEN start' = "built" /\ UNCHANGED prepared
        ELSE /\ start' = "endpoint"
             /\ \E s \in rest : /\ \A t \in rest : s <= t
                               /\ prepared' = prepared \cup {s}

\* After the turn of the event loop that follows the launch: a server that failed
\* at once fails the startup; otherwise buildInstance begins (`valid': the servers'
\* protocols agree) unless a stop was requested or there is nowhere to register.
Prepare(valid) ==
    /\ start = "yield"
    /\ IF serverFailure
       THEN valid /\ StartFails /\ UNCHANGED prepared
       ELSE IF stopRequested \/ ~HasRegistrar
       THEN valid /\ start' = "ready" /\ UNCHANGED <<winner, prepared>>
       ELSE IF ~valid
       THEN StartFails /\ UNCHANGED prepared
       ELSE NextEndpoint /\ UNCHANGED winner
    /\ UNCHANGED <<cfgVars, run, runErr, installed, hookS, joinable, stopVars, timerVars,
                   launched, serversCancelled, srv, stopOp, serverFailure, results, regVars>>

EndpointReturns ==
    /\ start = "endpoint" /\ ~StartGivesUp
    /\ NextEndpoint
    /\ UNCHANGED <<cfgVars, runVars, hookS, joinable, stopVars, timerVars, launched,
                   serversCancelled, srv, stopOp, serverFailure, results, regVars>>

\* executeStart with the instance built: registrar.register is called.
BeginRegister ==
    /\ start = "built"
    /\ IF stopRequested THEN start' = "ready" /\ UNCHANGED register
                        ELSE start' = "register" /\ register' = "called"
    /\ UNCHANGED <<cfgVars, runVars, hookS, joinable, stopVars, timerVars, serverVars,
                   registered, lateWatch, deregisters>>

\* Mutant of RegisterReturns: an abandoned startup keeps the registration.
RegisterKeeps ==
    /\ start = "register" /\ ~StartGivesUp
    /\ register = "ok" /\ ~registrarExpired
    /\ start' = "ready"
    /\ registered' = TRUE
    /\ UNCHANGED <<cfgVars, runVars, hookS, joinable, stopVars, timerVars, serverVars,
                   register, lateWatch, deregisters>>

\* registerInstance sees its register call fulfilled: the instance is recorded, or
\* deregistered at once when the stop has given up on this startup.
RegisterReturns ==
    /\ start = "register" /\ ~StartGivesUp
    /\ register = "ok" /\ ~registrarExpired
    /\ start' = "ready"
    /\ IF abandoned THEN deregisters' = deregisters + 1 /\ UNCHANGED registered
                    ELSE registered' = TRUE /\ UNCHANGED deregisters
    /\ UNCHANGED <<cfgVars, runVars, hookS, joinable, stopVars, timerVars, serverVars,
                   register, lateWatch>>

\* Mutant of RegisterFails: the call is not watched any more.
RegisterForgotten ==
    /\ start = "register" /\ ~StartGivesUp
    /\ register = "failed" \/ registrarExpired
    /\ StartFails
    /\ UNCHANGED <<cfgVars, run, runErr, installed, hookS, joinable, stopVars, timerVars,
                   serverVars, regVars>>

\* registerInstance sees a rejection, or registrarTimeout ends its wait first; in
\* both cases it goes on watching the call.
RegisterFails ==
    /\ start = "register" /\ ~StartGivesUp
    /\ register = "failed" \/ registrarExpired
    /\ StartFails
    /\ lateWatch' = TRUE
    /\ UNCHANGED <<cfgVars, run, runErr, installed, hookS, joinable, stopVars, timerVars,
                   serverVars, register, registered, deregisters>>

\* A register call that fulfils after registerInstance failed is compensated.
Compensate ==
    /\ lateWatch /\ register = "ok"
    /\ lateWatch' = FALSE
    /\ deregisters' = deregisters + 1
    /\ UNCHANGED <<cfgVars, runVars, startVars, stopVars, timerVars, serverVars,
                   register, registered>>

BeginAfterStart ==
    /\ start = "ready"
    /\ IF stopRequested \/ HookCount["afterStart"] = 0
       THEN start' = "done" /\ UNCHANGED hookS
       ELSE start' = "afterStart" /\ hookS' = 1
    /\ UNCHANGED <<cfgVars, runVars, joinable, stopVars, timerVars, serverVars, regVars>>

-----------------------------------------------------------------------------
\* Stopping.

\* The i-th executeStop is told that the startup has settled, or gives up on it.
JoinStartup(i) ==
    /\ stop[i] = "join"
    /\ StopGivesUp(i) \/ start \in {"done", "failed"}
    /\ abandoned' = (abandoned \/ StopGivesUp(i))
    /\ stopErr' = [stopErr EXCEPT ![i] = @ \/ StopGivesUp(i)]
    /\ stop' = [stop EXCEPT ![i] = FirstHookOrDrain]
    /\ UNCHANGED <<cfgVars, runVars, startVars, hookT, stopRequested, timerVars, serverVars,
                   regVars>>

\* A stop hook settles (`ok': without an error) or its wait ends; the next one runs
\* in any case.
StopHookEnds(i, ok) ==
    /\ stop[i] \in {"beforeStop", "afterStop"}
    /\ StopGivesUp(i) => ~ok
    /\ stopErr' = [stopErr EXCEPT ![i] = @ \/ ~ok]
    /\ IF hookT[i] < HookCount[stop[i]]
       THEN hookT' = [hookT EXCEPT ![i] = @ + 1] /\ UNCHANGED stop
       ELSE /\ stop' = [stop EXCEPT ![i] = IF @ = "beforeStop" THEN "drain" ELSE "done"]
            /\ UNCHANGED hookT
    /\ UNCHANGED <<cfgVars, runVars, startVars, stopRequested, abandoned, timerVars,
                   serverVars, regVars>>

\* The servers executeStop has to stop: all of them once launched, otherwise those
\* whose endpoint was prepared.
Stopped == IF launched THEN Servers ELSE prepared

\* Mutant of InvokeStops: servers another executeStop has cancelled are not stopped.
InvokeStopsOnce(i) ==
    /\ serversCancelled' = TRUE
    /\ stopOp' = [stopOp EXCEPT ![i] = [s \in Servers |->
                     IF s \in Stopped /\ ~serversCancelled THEN "called" ELSE "idle"]]
    /\ stop' = [stop EXCEPT ![i] = IF Stopped = {} THEN "joinServers" ELSE "stopServers"]

\* cancelServers and the concurrent Server.stop calls.
InvokeStops(i) ==
    /\ serversCancelled' = TRUE
    /\ stopOp' = [stopOp EXCEPT ![i] = [s \in Servers |->
                     IF s \in Stopped THEN "called" ELSE "idle"]]
    /\ stop' = [stop EXCEPT ![i] = IF Stopped = {} THEN "joinServers" ELSE "stopServers"]

\* Mutant of BeginDrain: the recorded instance is not cleared before the await.
BeginDrainKeeps(i) ==
    /\ stop[i] = "drain"
    /\ IF registered
       THEN /\ deregisters' = deregisters + 1
            /\ stop' = [stop EXCEPT ![i] = "deregister"]
            /\ UNCHANGED <<serversCancelled, stopOp>>
       ELSE InvokeStops(i) /\ UNCHANGED deregisters
    /\ UNCHANGED <<cfgVars, runVars, startVars, hookT, stopErr, stopRequested, abandoned,
                   timerVars, launched, prepared, srv, serverFailure, results, register,
                   registered, lateWatch>>

\* A recorded instance is taken and deregistered first; without one, also when another
\* executeStop has taken it, the servers are stopped.
BeginDrain(i) ==
    /\ stop[i] = "drain"
    /\ IF registered
       THEN /\ registered' = FALSE
            /\ deregisters' = deregisters + 1
            /\ stop' = [stop EXCEPT ![i] = "deregister"]
            /\ UNCHANGED <<serversCancelled, stopOp>>
       ELSE InvokeStops(i) /\ UNCHANGED <<registered, deregisters>>
    /\ UNCHANGED <<cfgVars, runVars, startVars, hookT, stopErr, stopRequested, abandoned,
                   timerVars, launched, prepared, srv, serverFailure, results, register,
                   lateWatch>>

\* deregister settles, or registrarTimeout or the stop context ends the wait.
DeregisterEnds(i, ok) ==
    /\ stop[i] = "deregister"
    /\ StopGivesUp(i) => ~ok
    /\ stopErr' = [stopErr EXCEPT ![i] = @ \/ ~ok]
    /\ InvokeStops(i)
    /\ UNCHANGED <<cfgVars, runVars, startVars, hookT, stopRequested, abandoned, timerVars,
                   launched, prepared, srv, serverFailure, results, regVars>>

\* All Server.stop calls have settled, or the wait for them ends.
StopsEnd(i) ==
    /\ stop[i] = "stopServers"
    /\ StopGivesUp(i) \/ \A s \in Servers : stopOp[i][s] # "called"
    /\ stopErr' = [stopErr EXCEPT
          ![i] = @ \/ StopGivesUp(i) \/ \E s \in Servers : stopOp[i][s] = "failed"]
    /\ stop' = [stop EXCEPT ![i] = "joinServers"]
    /\ UNCHANGED <<cfgVars, runVars, startVars, hookT, stopRequested, abandoned, timerVars,
                   serverVars, regVars>>

AfterStopOrDone == IF HookCount["afterStop"] = 0 THEN "done" ELSE "afterStop"

\* The terminal join of the start promises; their outcomes are recorded.
JoinServers(i) ==
    /\ stop[i] = "joinServers"
    /\ StopGivesUp(i) \/ \A s \in Servers : srv[s] # "running"
    /\ stopErr' = [stopErr EXCEPT ![i] = @ \/ StopGivesUp(i)]
    /\ stop' = [stop EXCEPT ![i] = AfterStopOrDone]
    /\ hookT' = [hookT EXCEPT ![i] = 1]
    /\ results' = srv
    /\ UNCHANGED <<cfgVars, runVars, startVars, stopRequested, abandoned, timerVars,
                   launched, prepared, serversCancelled, srv, stopOp, serverFailure, regVars>>

-----------------------------------------------------------------------------
\* Application code and timers.

\* A start promise settles; a rejection is published at its first observation.
ServerSettles(s, outcome) ==
    /\ srv[s] = "running"
    /\ srv' = [srv EXCEPT ![s] = outcome]
    /\ serverFailure' = (serverFailure \/ outcome # "ok")
    /\ winner' = IF outcome # "ok" /\ ~serverFailure /\ run = "racing" /\ winner = "none"
                 THEN (IF outcome = "failed" THEN "server" ELSE "canceled")
                 ELSE winner
    /\ UNCHANGED <<cfgVars, run, runErr, installed, startVars, stopVars, timerVars, launched,
                   prepared, serversCancelled, stopOp, results, regVars>>

\* A promise of Server.stop settles.
ServerStops(i, s, outcome) ==
    /\ stopOp[i][s] = "called"
    /\ stopOp' = [stopOp EXCEPT ![i][s] = outcome]
    /\ UNCHANGED <<cfgVars, runVars, startVars, stopVars, timerVars, launched, prepared,
                   serversCancelled, srv, serverFailure, results, regVars>>

RegistrarSettles(outcome) ==
    /\ register = "called"
    /\ register' = outcome
    /\ UNCHANGED <<cfgVars, runVars, startVars, stopVars, timerVars, serverVars,
                   registered, lateWatch, deregisters>>

StartTimerFires ==
    /\ boundedStart /\ ~startExpired /\ start \notin {"none", "done", "failed"}
    /\ startExpired' = TRUE
    /\ UNCHANGED <<cfgVars, runVars, startVars, stopVars, stopExpired, registrarExpired,
                   serverVars, regVars>>

\* Each executeStop arms a timer of its own.
StopTimerFires(i) ==
    /\ boundedStop /\ ~stopExpired[i] /\ stop[i] \notin {"none", "done"}
    /\ stopExpired' = [stopExpired EXCEPT ![i] = TRUE]
    /\ UNCHANGED <<cfgVars, runVars, startVars, stopVars, startExpired, registrarExpired,
                   serverVars, regVars>>

\* registrarTimeout ends registerInstance's wait (DeregisterEnds covers the other).
RegistrarTimerFires ==
    /\ start = "register" /\ ~registrarExpired
    /\ registrarExpired' = TRUE
    /\ UNCHANGED <<cfgVars, runVars, startVars, stopVars, startExpired, stopExpired,
                   serverVars, regVars>>

-----------------------------------------------------------------------------
Init ==
    /\ boundedStart \in BoundedStarts /\ boundedStop \in BoundedStops
    /\ run = "idle" /\ winner = "none" /\ runErr = FALSE /\ installed = FALSE
    /\ start = "none" /\ hookS = 1 /\ joinable = FALSE
    /\ stop = [i \in Stops |-> "none"] /\ hookT = [i \in Stops |-> 1]
    /\ stopErr = [i \in Stops |-> FALSE]
    /\ stopRequested = FALSE /\ abandoned = FALSE
    /\ startExpired = FALSE /\ registrarExpired = FALSE
    /\ stopExpired = [i \in Stops |-> FALSE]
    /\ launched = FALSE /\ prepared = {} /\ serversCancelled = FALSE
    /\ srv = [s \in Servers |-> "idle"]
    /\ stopOp = [i \in Stops |-> [s \in Servers |-> "idle"]]
    /\ serverFailure = FALSE
    /\ results = [s \in Servers |-> "idle"]
    /\ register = "none" /\ registered = FALSE /\ lateWatch = FALSE /\ deregisters = 0

\* Continuations whose promise has settled: the event loop runs them by itself.
Loop ==
    \/ RunWakes \/ RunSettles(TRUE)
    \/ StartWaitEnds \/ Launch(0, {}) \/ Prepare(TRUE) \/ BeginRegister \/ RegisterReturns
    \/ RegisterFails \/ Compensate \/ BeginAfterStart
    \/ \E i \in Stops :
          \/ JoinStartup(i) \/ BeginDrain(i) \/ StopsEnd(i) \/ JoinServers(i)
          \/ StopGivesUp(i) /\ (StopHookEnds(i, FALSE) \/ DeregisterEnds(i, FALSE))

\* registrarTimeout also ends executeStop's wait for deregister.
Timers ==
    \/ StartTimerFires \/ RegistrarTimerFires
    \/ \E i \in Stops : StopTimerFires(i) \/ DeregisterEnds(i, FALSE)

\* Hooks, endpoints and servers whose promises fulfil.
Cooperation ==
    \/ StartHookReturns \/ EndpointReturns
    \/ \E i \in Stops : StopHookEnds(i, TRUE) \/ \E s \in Servers : ServerStops(i, s, "ok")
    \/ \E s \in Servers : serversCancelled /\ ServerSettles(s, "ok")

\* What the environment may also do, and need not.
Environment ==
    \/ CallStop
    \/ \E installs, inHook \in BOOLEAN : Run(installs, inHook)
    \/ RunSettles(FALSE)
    \/ StartStepFails \/ Prepare(FALSE)
    \/ \E caller \in 0 .. NumServers, throws \in SUBSET Servers : Launch(caller, throws)
    \/ \E i \in Stops :
          \/ StopHookEnds(i, FALSE) \/ DeregisterEnds(i, TRUE)
          \/ \E s \in Servers : ServerStops(i, s, "failed")
    \/ \E s \in Servers, o \in {"ok", "failed", "canceled"} : ServerSettles(s, o)
    \/ RegistrarSettles("ok") \/ RegistrarSettles("failed")

Next == Loop \/ Timers \/ Cooperation \/ Environment

\* The event loop runs settled continuations and due timers.  Only an application
\* without a stop timeout relies on its hooks and servers to answer; the registrar
\* is never relied upon.
Fairness ==
    /\ WF_vars(Loop) /\ WF_vars(Timers)
    /\ WF_vars(~boundedStop /\ Cooperation)

Spec == Init /\ [][Next]_vars /\ Fairness

-----------------------------------------------------------------------------
(* Properties. *)

Settled == run \in {"ok", "failed"}

\* The lifecycle variables keep the values newApp's closures give them.
TypeOK ==
    /\ boundedStart \in BOOLEAN /\ boundedStop \in BOOLEAN
    /\ run \in {"idle", "racing", "stopping", "ok", "failed"}
    /\ winner \in {"none", "stop", "start", "server", "canceled"}
    /\ runErr \in BOOLEAN /\ installed \in BOOLEAN
    /\ start \in StartPc /\ hookS \in Nat /\ joinable \in BOOLEAN
    /\ stop \in [Stops -> StopPc] /\ hookT \in [Stops -> Nat]
    /\ stopErr \in [Stops -> BOOLEAN] /\ stopExpired \in [Stops -> BOOLEAN]
    /\ stopRequested \in BOOLEAN /\ abandoned \in BOOLEAN
    /\ startExpired \in BOOLEAN /\ registrarExpired \in BOOLEAN
    /\ launched \in BOOLEAN /\ prepared \in SUBSET Endpointers
    /\ serversCancelled \in BOOLEAN
    /\ srv \in [Servers -> {"idle", "running", "ok", "failed", "canceled"}]
    /\ stopOp \in [Stops -> [Servers -> {"idle", "called", "ok", "failed"}]]
    /\ serverFailure \in BOOLEAN
    /\ results \in [Servers -> {"idle", "running", "ok", "failed", "canceled"}]
    /\ register \in {"none", "called", "ok", "failed"}
    /\ registered \in BOOLEAN /\ lateWatch \in BOOLEAN /\ deregisters \in 0 .. 1

\* Who is responsible for withdrawing the registration, as a count.
Responsible ==
    (IF start = "register" THEN 1 ELSE 0) + (IF registered THEN 1 ELSE 0)
        + (IF lateWatch THEN 1 ELSE 0) + deregisters

\* A successful registration is never orphaned and never deregistered twice: it is
\* about to be recorded, recorded, watched for compensation, or was deregistered,
\* exactly one of these, however register, the two timeouts and the stop race.
NoOrphanInstance ==
    IF register = "ok" THEN Responsible = 1 ELSE ~registered /\ deregisters = 0

\* Once an executeStop has cancelled the servers no instance is recorded any more: the
\* deregistration of one that was recorded has begun, whichever executeStop took it,
\* and nothing registers it again behind the stop's back.
WithdrawnBeforeStop == serversCancelled => ~registered

\* When run() settles, the executeStop it awaited has invoked the stop of every server
\* whose start or endpoint was ever invoked, whichever of failure, timeout or stop
\* ended the startup.
EveryServerStopped ==
    Settled => \A s \in Servers : (srv[s] # "idle" \/ s \in prepared) => stopOp[1][s] # "idle"

\* No server is started behind a stop's back: not after cancelServers() and not after
\* its own stop was invoked, by any executeStop.  A stop requested before the launch
\* loop, or inside it by a server's start, or one that gave up on a startup whose hook
\* answers later, must not leave a server running that is never stopped.
NoStartBehindStop ==
    [][\A s \in Servers : srv[s] = "idle" /\ srv'[s] # "idle" =>
          ~serversCancelled' /\ \A i \in Stops : stopOp'[i][s] = "idle"]_vars

\* run() fulfils only when every server's start promise ended without a failure, and
\* every Server.stop that the executeStop it awaited invoked has fulfilled, also when
\* an executeStop nested in it stops the same servers at the same time and overwrites
\* serverResults; and only with the runtime integration removed.
RunOkMeansClean ==
    run = "ok" =>
        /\ \A s \in Servers : srv[s] \in {"idle", "ok", "canceled"}
                              /\ stopOp[1][s] \in {"idle", "ok"}
        /\ ~installed

\* The README of packages/core says that stop waits until the startup hook or the
\* registration already entered has settled (up to the stop deadline).
StopJoinsStartup ==
    (stop[1] \notin {"none", "join"} /\ ~abandoned) => start \notin StartWaits

\* A requested stop settles run(): with a stop timeout even when no hook, server or
\* registrar ever answers, without one when hooks and servers do.
StopSettles == (stopRequested /\ run # "idle") ~> Settled

\* A registration that succeeds is deregistered once a stop is requested, even when
\* it succeeds after the waits for it were given up.
RegistrationWithdrawn == (register = "ok" /\ stopRequested) ~> deregisters = 1
============================================================================
