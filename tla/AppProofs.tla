----------------------------- MODULE AppProofs -----------------------------
(***************************************************************************)
(* Proofs about App, for any number of servers, Endpointers, hooks and     *)
(* nested stops and every combination of timeouts.  The inductive          *)
(* invariant IInv has four parts: the types; which phases of run, start    *)
(* and the stops occur together (PhaseInv: no registration is recorded     *)
(* behind a stop's back); who owns the register call (RegInv); and what    *)
(* the stops know of the servers (ServerInv).  Only PhaseInv and the types *)
(* are needed by the other two.                                            *)
(***************************************************************************)
EXTENDS App, TLAPS

\* The types of all variables; the flags are one set, which the provers handle best.
Types ==
    /\ run \in {"idle", "racing", "stopping", "ok", "failed"}
    /\ winner \in {"none", "stop", "start", "server", "canceled"}
    /\ start \in StartPc /\ hookS \in Nat
    /\ stop \in [Stops -> StopPc] /\ hookT \in [Stops -> Nat]
    /\ stopErr \in [Stops -> BOOLEAN] /\ stopExpired \in [Stops -> BOOLEAN]
    /\ prepared \in SUBSET Endpointers
    /\ srv \in [Servers -> {"idle", "running", "ok", "failed", "canceled"}]
    /\ stopOp \in [Stops -> [Servers -> {"idle", "called", "ok", "failed"}]]
    /\ results \in [Servers -> {"idle", "running", "ok", "failed", "canceled"}]
    /\ register \in {"none", "called", "ok", "failed"}
    /\ deregisters \in Nat
    /\ {boundedStart, boundedStop, runErr, installed, joinable, stopRequested, abandoned,
        startExpired, registrarExpired, launched, serversCancelled, serverFailure, registered,
        lateWatch} \subseteq BOOLEAN

\* newApp gives every variable a value of its type.
LEMMA TypesInit == Init => Types
  <1> SUFFICES ASSUME Init PROVE Types
    OBVIOUS
  <1>1. {boundedStart, boundedStop} \subseteq BOOLEAN
    BY AppAssumption DEF Init
  <1> QED
    BY <1>1, AppAssumption DEF Init, Types, StartPc, StopPc

\* stopApp does nothing or begins the outermost stop, and perhaps others nested in it, at
\* their join, or past it when there is no startup to wait for.
LEMMA StopAppPhase ==
    ASSUME NEW starting, NEW held, StopApp(starting, held)
    PROVE  \/ stopRequested /\ UNCHANGED <<stop, stopRequested>>
           \/ /\ ~stopRequested /\ stopRequested' = TRUE /\ stop'[1] # "none"
              /\ stop' \in [Stops -> {"none", "join", "beforeStop", "drain"}]
              /\ starting => \A i \in Stops : stop'[i] \in {"none", "join"}
  <1>1. CASE stopRequested
    BY <1>1 DEF StopApp
  <1>2. CASE ~stopRequested
    <2>1. PICK last \in Stops :
             /\ stopRequested' = TRUE
             /\ stop' = [i \in Stops |-> IF i > last THEN "none"
                                         ELSE IF starting THEN "join" ELSE FirstHookOrDrain]
      BY <1>2 DEF StopApp
    <2>2. FirstHookOrDrain \in {"beforeStop", "drain"}
      BY DEF FirstHookOrDrain
    <2>3. 1 \in Stops /\ ~(1 > last)
      BY AppAssumption DEF Stops
    <2> QED
      BY <1>2, <2>1, <2>2, <2>3
  <1> QED
    BY <1>1, <1>2

\* stopApp keeps the types of the stops.
LEMMA StopAppTypes ==
    ASSUME NEW starting, NEW held, StopApp(starting, held), Types
    PROVE  stop' \in [Stops -> StopPc] /\ stopRequested' \in BOOLEAN
  BY StopAppPhase DEF Types, StopPc

\* Every action keeps the types.
LEMMA TypesNext == ASSUME Types, [Next]_vars PROVE Types'
  <1> USE AppAssumption DEF Types, StartPc, cfgVars, runVars, startVars, stopVars,
          timerVars, serverVars, regVars
  <1>f. FirstHookOrDrain \in StopPc /\ AfterStopOrDone \in StopPc
        /\ {"drain", "done", "deregister", "stopServers", "joinServers"} \subseteq StopPc
    BY DEF FirstHookOrDrain, AfterStopOrDone, StopPc
  <1>1. CASE CallStop
    BY <1>1, StopAppTypes DEF CallStop
  <1>2. ASSUME NEW i \in BOOLEAN, NEW h \in BOOLEAN, Run(i, h) PROVE Types'
    <2>1. stop' \in [Stops -> StopPc] /\ stopRequested' \in BOOLEAN
      BY <1>2, StopAppTypes DEF Run
    <2>2. {runErr', installed', joinable'} \subseteq BOOLEAN
      BY <1>2 DEF Run
    <2>3. /\ run' \in {"racing", "stopping"} /\ winner' \in {winner, "stop", "none"}
          /\ start' \in {start, "launch", "beforeStart"} /\ hookS' \in {hookS, 1}
          /\ UNCHANGED <<cfgVars, hookT, stopErr, abandoned, timerVars, serverVars, regVars>>
      BY <1>2 DEF Run, FirstStartAwait
    <2> QED
      BY <2>1, <2>2, <2>3
  <1>3. CASE RunWakes
    <2>1. stop' \in [Stops -> StopPc] /\ stopRequested' \in BOOLEAN
      BY <1>3, StopAppTypes DEF RunWakes
    <2>2. runErr' \in BOOLEAN
      BY <1>3 DEF RunWakes
    <2>3. /\ run' = "stopping"
          /\ UNCHANGED <<cfgVars, winner, installed, startVars, hookT, stopErr, abandoned,
                         timerVars, serverVars, regVars>>
      BY <1>3 DEF RunWakes
    <2> QED
      BY <2>1, <2>2, <2>3
  <1>4. ASSUME NEW i \in BOOLEAN, RunSettles(i) PROVE Types'
    <2>1. run' \in {"ok", "failed"} /\ installed' \in BOOLEAN
      BY <1>4 DEF RunSettles
    <2> QED
      BY <1>4, <2>1 DEF RunSettles
  <1>5. CASE StartHookReturns
    BY <1>5 DEF StartHookReturns, StartGivesUp, StartContextDone
  <1>6. CASE StartStepFails
    BY <1>6 DEF StartStepFails, StartFails, StartGivesUp, StartContextDone
  <1>7. CASE StartWaitEnds
    BY <1>7 DEF StartWaitEnds, StartFails, StartGivesUp, StartContextDone
  <1>8. ASSUME NEW c \in 0 .. NumServers, NEW t \in SUBSET Servers, Launch(c, t) PROVE Types'
    <2>1. stop' \in [Stops -> StopPc] /\ stopRequested' \in BOOLEAN
      BY <1>8, StopAppTypes DEF Launch
    <2>2. {launched', serverFailure'} \subseteq BOOLEAN
      BY <1>8 DEF Launch
    <2>3. srv' \in [Servers -> {"idle", "running", "ok", "failed", "canceled"}]
      BY <1>8 DEF Launch
    <2>4. winner' \in {winner, "server", "stop", "none"}
      BY <1>8 DEF Launch
    <2>5. /\ start' = "yield"
          /\ UNCHANGED <<cfgVars, run, runErr, installed, hookS, joinable, hookT, stopErr,
                         abandoned, timerVars, prepared, serversCancelled, stopOp, results,
                         regVars>>
      BY <1>8 DEF Launch
    <2> QED
      BY <2>1, <2>2, <2>3, <2>4, <2>5
  <1>9. ASSUME NEW i \in BOOLEAN, Prepare(i) PROVE Types'
    BY <1>9 DEF Prepare, StartFails, NextEndpoint
  <1>10. CASE EndpointReturns
    BY <1>10 DEF EndpointReturns, NextEndpoint, StartGivesUp, StartContextDone
  <1>11. CASE BeginRegister
    BY <1>11 DEF BeginRegister
  <1>12. CASE RegisterReturns
    <2>1. registered' \in BOOLEAN
      BY <1>12 DEF RegisterReturns, StartGivesUp, StartContextDone
    <2> QED
      BY <1>12, <2>1 DEF RegisterReturns, StartGivesUp, StartContextDone
  <1>13. CASE RegisterFails
    BY <1>13 DEF RegisterFails, StartFails, StartGivesUp, StartContextDone
  <1>14. CASE Compensate
    <2>1. lateWatch' \in BOOLEAN
      BY <1>14 DEF Compensate
    <2> QED
      BY <1>14, <2>1 DEF Compensate
  <1>15. CASE BeginAfterStart
    BY <1>15 DEF BeginAfterStart
  <1>16. ASSUME NEW i \in Stops, JoinStartup(i) PROVE Types'
    <2>1. abandoned' \in BOOLEAN
      BY <1>16 DEF JoinStartup
    <2>2. stopErr' \in [Stops -> BOOLEAN] /\ stop' \in [Stops -> StopPc]
      BY <1>16, <1>f DEF JoinStartup
    <2> QED
      BY <1>16, <2>1, <2>2 DEF JoinStartup
  <1>17. ASSUME NEW i \in Stops, NEW o \in BOOLEAN, StopHookEnds(i, o) PROVE Types'
    <2>1. stopErr' \in [Stops -> BOOLEAN]
      BY <1>17 DEF StopHookEnds
    <2>2. \/ stop' = [stop EXCEPT ![i] = "drain"] \/ stop' = [stop EXCEPT ![i] = "done"]
          \/ UNCHANGED stop
      BY <1>17 DEF StopHookEnds
    <2>3. stop' \in [Stops -> StopPc]
      BY <1>f, <2>2
    <2>4. UNCHANGED hookT \/ hookT' = [hookT EXCEPT ![i] = hookT[i] + 1]
      BY <1>17 DEF StopHookEnds
    <2>5. hookT' \in [Stops -> Nat]
      BY <2>4
    <2> QED
      BY <1>17, <2>1, <2>3, <2>5 DEF StopHookEnds
  <1>v. ASSUME NEW i \in Stops, InvokeStops(i)
        PROVE  /\ serversCancelled' \in BOOLEAN /\ stop' \in [Stops -> StopPc]
               /\ stopOp' \in [Stops -> [Servers -> {"idle", "called", "ok", "failed"}]]
    <2>1. [s \in Servers |-> IF s \in Stopped THEN "called" ELSE "idle"]
              \in [Servers -> {"idle", "called", "ok", "failed"}]
      OBVIOUS
    <2>2. stopOp' \in [Stops -> [Servers -> {"idle", "called", "ok", "failed"}]]
      BY <1>v, <2>1 DEF InvokeStops
    <2> QED
      BY <1>v, <1>f, <2>2 DEF InvokeStops
  <1>18. ASSUME NEW i \in Stops, BeginDrain(i) PROVE Types'
    <2>1. CASE registered
      <3>1. stop' \in [Stops -> StopPc]
        BY <1>18, <1>f, <2>1 DEF BeginDrain
      <3>2. registered' = FALSE /\ deregisters' = deregisters + 1
        BY <1>18, <2>1 DEF BeginDrain
      <3>3. registered' \in BOOLEAN
        BY <3>2
      <3>4. deregisters' \in Nat
        <4>1. deregisters \in Nat
          OBVIOUS
        <4> HIDE DEF Types
        <4> QED
          BY <3>2, <4>1
      <3>5. UNCHANGED <<cfgVars, runVars, startVars, hookT, stopErr, stopRequested, abandoned,
                        timerVars, serverVars, register, lateWatch>>
        BY <1>18, <2>1 DEF BeginDrain
      <3> QED
        BY <3>1, <3>3, <3>4, <3>5
    <2>2. CASE ~registered
      BY <1>18, <1>v, <2>2 DEF BeginDrain
    <2> QED
      BY <2>1, <2>2
  <1>19. ASSUME NEW i \in Stops, NEW o \in BOOLEAN, DeregisterEnds(i, o) PROVE Types'
    <2>1. stopErr' \in [Stops -> BOOLEAN]
      BY <1>19 DEF DeregisterEnds
    <2> QED
      BY <1>19, <1>v, <2>1 DEF DeregisterEnds
  <1>20. ASSUME NEW i \in Stops, StopsEnd(i) PROVE Types'
    <2>1. stopErr' \in [Stops -> BOOLEAN]
      BY <1>20 DEF StopsEnd
    <2>2. stop' \in [Stops -> StopPc]
      BY <1>20, <1>f DEF StopsEnd
    <2> QED
      BY <1>20, <2>1, <2>2 DEF StopsEnd
  <1>21. ASSUME NEW i \in Stops, JoinServers(i) PROVE Types'
    <2>1. stopErr' \in [Stops -> BOOLEAN]
      BY <1>21 DEF JoinServers
    <2>2. stop' \in [Stops -> StopPc] /\ hookT' \in [Stops -> Nat]
      BY <1>21, <1>f DEF JoinServers
    <2> QED
      BY <1>21, <2>1, <2>2 DEF JoinServers
  <1>22. ASSUME NEW s \in Servers, NEW o \in {"ok", "failed", "canceled"}, ServerSettles(s, o)
         PROVE  Types'
    BY <1>22 DEF ServerSettles
  <1>23. ASSUME NEW i \in Stops, NEW s \in Servers, NEW o \in {"ok", "failed"},
                ServerStops(i, s, o)
         PROVE  Types'
    <2>1. stopOp' \in [Stops -> [Servers -> {"idle", "called", "ok", "failed"}]]
      BY <1>23 DEF ServerStops
    <2> QED
      BY <1>23, <2>1 DEF ServerStops
  <1>24. ASSUME NEW o \in {"ok", "failed"}, RegistrarSettles(o) PROVE Types'
    BY <1>24 DEF RegistrarSettles
  <1>25. CASE StartTimerFires
    BY <1>25 DEF StartTimerFires
  <1>26. ASSUME NEW i \in Stops, StopTimerFires(i) PROVE Types'
    <2>1. stopExpired' \in [Stops -> BOOLEAN]
      BY <1>26 DEF StopTimerFires
    <2> QED
      BY <1>26, <2>1 DEF StopTimerFires
  <1>27. CASE RegistrarTimerFires
    BY <1>27 DEF RegistrarTimerFires
  <1>28. CASE UNCHANGED vars
    BY <1>28 DEF vars
  <1>c. 0 \in 0 .. NumServers /\ {} \in SUBSET Servers
    OBVIOUS
  <1> QED
    BY <1>1, <1>2, <1>3, <1>4, <1>5, <1>6, <1>7, <1>8, <1>9, <1>10, <1>11, <1>12, <1>13, <1>14,
       <1>15, <1>16, <1>17, <1>18, <1>19, <1>20, <1>21, <1>22, <1>23, <1>24, <1>25, <1>26, <1>27,
       <1>28, <1>c
    DEF Next, Loop, Timers, Cooperation, Environment

\* With at most one deregister call, the types are the type invariant.
LEMMA TypesOK == Types /\ deregisters <= 1 => TypeOK
  BY DEF Types, TypeOK
-----------------------------------------------------------------------------
(* The phases of the start and of the stop. *)

\* The awaits of executeStop from which the registration is withdrawn, and those from
\* which the servers are cancelled.
Draining == {"deregister", "stopServers", "joinServers", "afterStop", "done"}
Cancelling == Draining \ {"deregister"}

\* Which phases of executeRun, executeStart and the executeStops occur together: until one of
\* these has given up on it, a startup that is registering holds all of them at their join.
PhaseInv ==
    /\ run = "idle" => start = "none"
    /\ joinable <=> start # "none"
    /\ ~stopRequested => \A i \in Stops : stop[i] = "none"
    /\ stopRequested => stop[1] # "none"
    /\ \A i \in Stops : (stop[i] \notin {"none", "join"} /\ ~abandoned) => start # "register"
    /\ \A i \in Stops : stop[i] \in Draining => ~registered
    /\ serversCancelled <=> \E i \in Stops : stop[i] \in Cancelling
    /\ run \in {"ok", "failed"} => stop[1] = "done"

\* Requesting a stop keeps the phases in step: no executeStop runs before it, and the new ones
\* wait for a startup that was begun.
LEMMA PhaseStopApp ==
    ASSUME Types, PhaseInv, NEW starting, NEW held, StopApp(starting, held),
           UNCHANGED <<registered, abandoned, serversCancelled>>,
           run' = "idle" => start' = "none", run' \in {"ok", "failed"} => run' = run,
           joinable' <=> start' # "none", start' # "register" \/ start' = start,
           starting <=> joinable
    PROVE  PhaseInv'
  <1>1. CASE stopRequested /\ UNCHANGED <<stop, stopRequested>>
    BY <1>1 DEF PhaseInv
  <1>2. CASE /\ ~stopRequested /\ stopRequested' = TRUE /\ stop'[1] # "none"
             /\ stop' \in [Stops -> {"none", "join", "beforeStop", "drain"}]
             /\ starting => \A i \in Stops : stop'[i] \in {"none", "join"}
    <2>1. 1 \in Stops
      BY AppAssumption DEF Stops
    <2>2. /\ \A i \in Stops : stop[i] = "none" /\ stop'[i] \notin Draining
          /\ ~serversCancelled /\ run \notin {"ok", "failed"}
      BY <1>2, <2>1 DEF PhaseInv, Draining, Cancelling
    <2>3. start = "register" => starting
      BY DEF PhaseInv
    <2>4. \A i \in Stops : stop'[i] \notin {"none", "join"} => start' # "register"
      BY <1>2, <2>3
    <2> QED
      BY <1>2, <2>1, <2>2, <2>4 DEF PhaseInv, Cancelling
  <1> QED
    BY <1>1, <1>2, StopAppPhase

\* A step of the i-th executeStop alone.
LEMMA PhaseStep ==
    ASSUME Types, PhaseInv, NEW i \in Stops, NEW pc \in StopPc, stop[i] # "none",
           stop[i] # "done", pc # "none", stop' = [stop EXCEPT ![i] = pc],
           UNCHANGED <<run, start, joinable, stopRequested>>, abandoned => abandoned',
           stop[i] = "join" => (start # "register" \/ abandoned'),
           registered' => registered, pc \in Draining => ~registered',
           serversCancelled' <=> (serversCancelled \/ pc \in Cancelling),
           stop[i] \in Cancelling => pc \in Cancelling
    PROVE  PhaseInv'
  <1>1. /\ stop'[i] = pc /\ \A j \in Stops : j # i => stop'[j] = stop[j]
        /\ DOMAIN stop = Stops
    BY DEF Types
  <1>2. serversCancelled' <=> \E j \in Stops : stop'[j] \in Cancelling
    BY <1>1 DEF PhaseInv
  <1>3. /\ ~stopRequested' => \A j \in Stops : stop'[j] = "none"
        /\ stopRequested' => stop'[1] # "none"
        /\ run' \in {"ok", "failed"} => stop'[1] = "done"
    <2>1. 1 \in Stops
      BY AppAssumption DEF Stops
    <2> QED
      BY <1>1, <2>1 DEF PhaseInv
  <1>4. \A j \in Stops : (stop'[j] \notin {"none", "join"} /\ ~abandoned') => start' # "register"
    BY <1>1 DEF PhaseInv
  <1>5. \A j \in Stops : stop'[j] \in Draining => ~registered'
    BY <1>1 DEF PhaseInv
  <1> QED
    BY <1>2, <1>3, <1>4, <1>5 DEF PhaseInv

\* Every action keeps the phases in step.
LEMMA PhaseNext ==
    ASSUME Types, PhaseInv, [Next]_vars
    PROVE  PhaseInv'
  <1>t. start \in StartPc /\ stop \in [Stops -> StopPc]
    BY DEF Types
  <1>f. /\ FirstHookOrDrain \in {"beforeStop", "drain"} /\ AfterStopOrDone \in {"afterStop", "done"}
        /\ Cancelling = {"stopServers", "joinServers", "afterStop", "done"}
        /\ 1 \in Stops
    BY AppAssumption DEF FirstHookOrDrain, AfterStopOrDone, Cancelling, Draining, Stops
  <1>1. CASE UNCHANGED <<run, start, joinable, stop, stopRequested, abandoned, registered,
                         serversCancelled>>
    BY <1>1 DEF PhaseInv
  <1>2. CASE CallStop
    <2>1. /\ StopApp(joinable, HoldsContext)
          /\ UNCHANGED <<run, start, joinable, abandoned, registered, serversCancelled>>
      BY <1>2 DEF CallStop, startVars, serverVars, regVars
    <2> QED
      BY <2>1, PhaseStopApp DEF PhaseInv
  <1>3. ASSUME NEW i \in BOOLEAN, NEW h \in BOOLEAN, Run(i, h) PROVE PhaseInv'
    <2>1. /\ run = "idle" /\ start = "none" /\ ~joinable /\ run' \in {"racing", "stopping"}
          /\ UNCHANGED <<abandoned, registered, serversCancelled>>
      BY <1>3 DEF Run, serverVars, regVars, PhaseInv
    <2>2. \/ start' \in {"launch", "beforeStart"} /\ joinable' = TRUE
          \/ UNCHANGED <<start, joinable>>
      BY <1>3 DEF Run, FirstStartAwait, startVars
    <2>3. CASE UNCHANGED <<stop, stopRequested>>
      BY <2>1, <2>2, <2>3 DEF PhaseInv
    <2>4. CASE \E held \in BOOLEAN : StopApp(FALSE, held)
      <3>1. PICK held \in BOOLEAN : StopApp(FALSE, held)
        BY <2>4
      <3>2. /\ joinable' <=> start' # "none"
            /\ start' # "register" /\ run' # "idle" /\ run' \notin {"ok", "failed"}
            /\ FALSE <=> joinable
        BY <2>1, <2>2
      <3> QED
        BY <2>1, <3>1, <3>2, PhaseStopApp
    <2> QED
      BY <1>3, <2>3, <2>4 DEF Run
  <1>4. CASE RunWakes
    <2>1. /\ run' = "stopping" /\ StopApp(joinable, HoldsContext)
          /\ UNCHANGED <<start, joinable, abandoned, registered, serversCancelled>>
      BY <1>4 DEF RunWakes, startVars, serverVars, regVars
    <2> QED
      BY <2>1, PhaseStopApp DEF PhaseInv
  <1>5. ASSUME NEW i \in BOOLEAN, RunSettles(i) PROVE PhaseInv'
    BY <1>5 DEF RunSettles, startVars, stopVars, serverVars, regVars, PhaseInv
  <1>6. CASE /\ start # "none" /\ start' \notin {"none", "register"} /\ UNCHANGED joinable
             /\ UNCHANGED <<run, stop, stopRequested, abandoned, registered, serversCancelled>>
    BY <1>6 DEF PhaseInv
  <1>7. ASSUME NEW i \in BOOLEAN, Prepare(i) \/ EndpointReturns PROVE PhaseInv'
    <2>1. start' \in {"failed", "ready", "built", "endpoint"}
      BY <1>7 DEF Prepare, EndpointReturns, StartFails, NextEndpoint
    <2> QED
      BY <1>7, <1>6, <2>1 DEF Prepare, EndpointReturns, runVars, stopVars, regVars
  <1>8. CASE BeginRegister
    BY <1>8 DEF BeginRegister, runVars, stopVars, serverVars, PhaseInv
  <1>9. CASE RegisterReturns
    <2>1. /\ start = "register" /\ start' = "ready"
          /\ UNCHANGED <<run, joinable, stop, stopRequested, abandoned, serversCancelled>>
      BY <1>9 DEF RegisterReturns, runVars, stopVars, serverVars
    <2>2. CASE abandoned
      <3>1. UNCHANGED registered
        BY <1>9, <2>2 DEF RegisterReturns
      <3> QED
        BY <1>6, <2>1, <3>1
    <2>3. CASE ~abandoned
      <3>1. \A i \in Stops : stop[i] \in {"none", "join"}
        BY <2>1, <2>3 DEF PhaseInv
      <3>2. \A i \in Stops : stop'[i] \notin Draining
        BY <2>1, <3>1 DEF Draining
      <3> QED
        BY <2>1, <3>2 DEF PhaseInv
    <2> QED
      BY <2>2, <2>3
  <1>10. ASSUME NEW i \in Stops, JoinStartup(i) PROVE PhaseInv'
    <2>1. /\ stop[i] = "join" /\ stop' = [stop EXCEPT ![i] = FirstHookOrDrain]
          /\ start \in {"done", "failed"} \/ abandoned'
          /\ abandoned => abandoned'
          /\ UNCHANGED <<run, start, joinable, stopRequested, registered, serversCancelled>>
      BY <1>10 DEF JoinStartup, runVars, startVars, serverVars, regVars
    <2>2. /\ FirstHookOrDrain \in StopPc /\ FirstHookOrDrain \notin Draining
          /\ FirstHookOrDrain # "none"
      BY <1>f DEF StopPc, Draining
    <2>3. stop[i] \notin Cancelling /\ FirstHookOrDrain \notin Cancelling
      BY <2>1, <2>2 DEF Cancelling, Draining
    <2>4. start # "register" \/ abandoned'
      BY <2>1
    <2> QED
      BY <2>1, <2>2, <2>3, <2>4, PhaseStep
  <1>11. ASSUME NEW i \in Stops, NEW o \in BOOLEAN, StopHookEnds(i, o) PROVE PhaseInv'
    <2>1. /\ stop[i] \in {"beforeStop", "afterStop"}
          /\ UNCHANGED <<run, start, joinable, stopRequested, abandoned, registered,
                         serversCancelled>>
      BY <1>11 DEF StopHookEnds, runVars, startVars, serverVars, regVars
    <2>2. CASE UNCHANGED stop
      BY <1>1, <2>1, <2>2
    <2>3. CASE stop' = [stop EXCEPT ![i] = IF @ = "beforeStop" THEN "drain" ELSE "done"]
      <3>1. CASE stop[i] = "beforeStop"
        <4>1. stop' = [stop EXCEPT ![i] = "drain"]
          BY <1>t, <2>3, <3>1
        <4> QED
          BY <1>f, <2>1, <3>1, <4>1, PhaseStep DEF StopPc, Draining
      <3>2. CASE stop[i] = "afterStop"
        <4>1. stop' = [stop EXCEPT ![i] = "done"] /\ ~registered /\ serversCancelled
          BY <1>t, <1>f, <2>3, <3>2 DEF PhaseInv, Draining
        <4> QED
          BY <1>f, <2>1, <3>2, <4>1, PhaseStep DEF StopPc
      <3> QED
        BY <2>1, <3>1, <3>2
    <2> QED
      BY <1>11, <2>2, <2>3 DEF StopHookEnds
  <1>v. ASSUME NEW i \in Stops, InvokeStops(i), stop[i] \in {"drain", "deregister"}, ~registered',
               UNCHANGED <<run, start, joinable, stopRequested, abandoned>>
        PROVE  PhaseInv'
    <2>1. PICK pc \in {"joinServers", "stopServers"} : stop' = [stop EXCEPT ![i] = pc]
      BY <1>v DEF InvokeStops
    <2>2. serversCancelled'
      BY <1>v DEF InvokeStops
    <2> QED
      BY <1>f, <1>v, <2>1, <2>2, PhaseStep DEF StopPc
  <1>12. ASSUME NEW i \in Stops, BeginDrain(i) PROVE PhaseInv'
    <2>1. /\ stop[i] = "drain"
          /\ UNCHANGED <<run, start, joinable, stopRequested, abandoned>>
      BY <1>12 DEF BeginDrain, runVars, startVars
    <2>2. CASE registered
      <3>1. /\ stop' = [stop EXCEPT ![i] = "deregister"] /\ ~registered'
            /\ UNCHANGED serversCancelled
        BY <1>12, <2>2 DEF BeginDrain
      <3> QED
        BY <1>f, <2>1, <3>1, PhaseStep DEF StopPc
    <2>3. CASE ~registered
      BY <1>12, <1>v, <2>1, <2>3 DEF BeginDrain
    <2> QED
      BY <2>2, <2>3
  <1>13. ASSUME NEW i \in Stops, NEW o \in BOOLEAN, DeregisterEnds(i, o) PROVE PhaseInv'
    <2>1. /\ stop[i] = "deregister" /\ InvokeStops(i)
          /\ UNCHANGED <<run, start, joinable, stopRequested, abandoned, registered>>
      BY <1>13 DEF DeregisterEnds, runVars, startVars, regVars
    <2>2. ~registered
      BY <2>1 DEF PhaseInv, Draining
    <2> QED
      BY <1>v, <2>1, <2>2
  <1>14. ASSUME NEW i \in Stops, StopsEnd(i) PROVE PhaseInv'
    <2>1. /\ stop[i] = "stopServers" /\ stop' = [stop EXCEPT ![i] = "joinServers"]
          /\ UNCHANGED <<run, start, joinable, stopRequested, abandoned, registered,
                         serversCancelled>>
      BY <1>14 DEF StopsEnd, runVars, startVars, serverVars, regVars
    <2>2. ~registered /\ serversCancelled
      BY <1>f, <2>1 DEF PhaseInv, Draining
    <2> QED
      BY <1>f, <2>1, <2>2, PhaseStep DEF StopPc
  <1>15. ASSUME NEW i \in Stops, JoinServers(i) PROVE PhaseInv'
    <2>1. /\ stop[i] = "joinServers" /\ stop' = [stop EXCEPT ![i] = AfterStopOrDone]
          /\ UNCHANGED <<run, start, joinable, stopRequested, abandoned, registered,
                         serversCancelled>>
      BY <1>15 DEF JoinServers, runVars, startVars, regVars
    <2>2. ~registered /\ serversCancelled
      BY <1>f, <2>1 DEF PhaseInv, Draining
    <2>3. AfterStopOrDone \in StopPc /\ AfterStopOrDone # "none"
      BY <1>f DEF StopPc
    <2> QED
      BY <1>f, <2>1, <2>2, <2>3, PhaseStep
  <1>16. ASSUME NEW c \in 0 .. NumServers, NEW t \in SUBSET Servers, Launch(c, t) PROVE PhaseInv'
    <2>1. /\ start = "launch" /\ start' = "yield"
          /\ UNCHANGED <<run, joinable, abandoned, registered, serversCancelled>>
      BY <1>16 DEF Launch, regVars
    <2>2. CASE UNCHANGED <<stop, stopRequested>>
      BY <1>6, <2>1, <2>2
    <2>3. CASE StopApp(joinable, HoldsContext)
      BY <2>1, <2>3, PhaseStopApp DEF PhaseInv
    <2> QED
      BY <1>16, <2>2, <2>3 DEF Launch
  <1>17. CASE StartHookReturns \/ StartStepFails \/ StartWaitEnds \/ RegisterFails \/ BeginAfterStart
    BY <1>17, <1>6
    DEF StartHookReturns, StartStepFails, StartWaitEnds, StartWaits, StartFails,
        RegisterFails, BeginAfterStart, runVars, stopVars, serverVars, regVars
  <1>18. CASE \/ Compensate \/ StartTimerFires \/ RegistrarTimerFires
              \/ \E i \in Stops :
                    StopTimerFires(i) \/ \E s \in Servers, o \in {"ok", "failed"} : ServerStops(i, s, o)
              \/ \E o \in {"ok", "failed"} : RegistrarSettles(o)
              \/ \E s \in Servers, o \in {"ok", "failed", "canceled"} : ServerSettles(s, o)
              \/ UNCHANGED vars
    BY <1>18, <1>1
    DEF Compensate, StartTimerFires, StopTimerFires, RegistrarTimerFires, RegistrarSettles,
        ServerStops, ServerSettles, vars, runVars, startVars, stopVars, serverVars, regVars
  <1>c. 0 \in 0 .. NumServers /\ {} \in SUBSET Servers
    BY AppAssumption
  <1> QED
    BY <1>2, <1>3, <1>4, <1>5, <1>7, <1>8, <1>9, <1>10, <1>11, <1>12, <1>13, <1>14, <1>15, <1>16,
       <1>17, <1>18, <1>c
    DEF Next, Loop, Timers, Cooperation, Environment

-----------------------------------------------------------------------------
(* The registration. *)

\* The awaits of executeStart before registrar.register is called.
Early == {"none", "beforeStart", "launch", "yield", "endpoint", "built"}

\* A register call that has not fulfilled is awaited or watched, never both; before the
\* call nothing is recorded or watched.
RegInv ==
    /\ NoOrphanInstance
    /\ start \in Early => register = "none"
    /\ register = "none" => ~lateWatch /\ start # "register"
    /\ start = "register" => ~lateWatch /\ ~registered
    /\ register \in {"called", "failed"} => start = "register" \/ lateWatch

\* Actions that leave the registration alone and do not enter or leave its await.
LEMMA RegFrame ==
    ASSUME RegInv, UNCHANGED regVars, start # "register", start' # "register",
           start' \in Early => start \in Early
    PROVE  RegInv'
  BY DEF RegInv, NoOrphanInstance, Responsible, regVars

\* Every action keeps the registration accounted for.
LEMMA RegNext ==
    ASSUME Types, PhaseInv, RegInv, [Next]_vars
    PROVE  RegInv'
  <1>t. start \in StartPc /\ deregisters \in Nat
        /\ register \in {"none", "called", "ok", "failed"}
    BY DEF Types
  <1>1. CASE UNCHANGED <<start, regVars>>
    BY <1>1 DEF RegInv, NoOrphanInstance, Responsible, regVars
  <1>2. ASSUME NEW i \in BOOLEAN, NEW h \in BOOLEAN, Run(i, h) PROVE RegInv'
    <2>1. CASE UNCHANGED start
      BY <1>1, <1>2, <2>1 DEF Run
    <2>2. CASE start' \in {"beforeStart", "launch"} /\ start = "none"
      BY <1>2, <2>2, RegFrame DEF Run, Early
    <2> QED
      BY <1>2, <2>1, <2>2 DEF Run, FirstStartAwait, startVars, PhaseInv
  <1>3. CASE StartHookReturns
    BY <1>3, RegFrame DEF StartHookReturns, Early
  <1>4. CASE StartStepFails
    BY <1>4, RegFrame DEF StartStepFails, StartFails, Early
  <1>5. CASE StartWaitEnds
    <2>1. /\ start' = "failed" /\ UNCHANGED <<register, registered, deregisters>>
          /\ lateWatch' <=> (lateWatch \/ start = "register")
      BY <1>5 DEF StartWaitEnds, StartFails
    <2>2. CASE start = "register"
      BY <2>1, <2>2, <1>t DEF RegInv, NoOrphanInstance, Responsible, Early
    <2>3. CASE start # "register"
      BY <2>1, <2>3, <1>t DEF RegInv, NoOrphanInstance, Responsible, Early
    <2> QED
      BY <2>2, <2>3
  <1>6. ASSUME NEW c, NEW t, Launch(c, t) PROVE RegInv'
    BY <1>6, RegFrame DEF Launch, Early
  <1>7. ASSUME NEW i \in BOOLEAN, Prepare(i) PROVE RegInv'
    <2>1. /\ start = "yield" /\ start' \in {"failed", "ready", "built", "endpoint"}
          /\ UNCHANGED regVars
      BY <1>7 DEF Prepare, StartFails, NextEndpoint
    <2> QED
      BY <2>1, RegFrame DEF Early
  <1>8. CASE EndpointReturns
    <2>1. start = "endpoint" /\ start' \in {"built", "endpoint"} /\ UNCHANGED regVars
      BY <1>8 DEF EndpointReturns, NextEndpoint
    <2> QED
      BY <2>1, RegFrame DEF Early
  <1>9. CASE BeginRegister
    BY <1>9, <1>t DEF BeginRegister, RegInv, NoOrphanInstance, Responsible, Early
  <1>10. CASE RegisterReturns
    BY <1>10, <1>t DEF RegisterReturns, RegInv, NoOrphanInstance, Responsible, Early
  <1>11. CASE RegisterFails
    BY <1>11, <1>t DEF RegisterFails, StartFails, RegInv, NoOrphanInstance, Responsible, Early
  <1>12. CASE Compensate
    BY <1>12, <1>t DEF Compensate, startVars, RegInv, NoOrphanInstance, Responsible, Early
  <1>13. CASE BeginAfterStart
    BY <1>13, RegFrame DEF BeginAfterStart, Early
  <1>14. ASSUME NEW i \in Stops, BeginDrain(i) PROVE RegInv'
    BY <1>14, <1>t
    DEF BeginDrain, InvokeStops, startVars, RegInv, NoOrphanInstance, Responsible, Early
  <1>15. ASSUME NEW o \in {"ok", "failed"}, RegistrarSettles(o) PROVE RegInv'
    BY <1>15, <1>t DEF RegistrarSettles, startVars, RegInv, NoOrphanInstance, Responsible, Early
  <1>16. \/ UNCHANGED <<start, regVars>>
         \/ \E i, h \in BOOLEAN : Run(i, h)
         \/ StartHookReturns \/ StartStepFails \/ StartWaitEnds \/ \E c, t : Launch(c, t)
         \/ \E i \in BOOLEAN : Prepare(i)
         \/ EndpointReturns \/ BeginRegister \/ RegisterReturns \/ RegisterFails
         \/ Compensate \/ BeginAfterStart \/ \E i \in Stops : BeginDrain(i)
         \/ \E o \in {"ok", "failed"} : RegistrarSettles(o)
    BY DEF Next, Loop, Timers, Cooperation, Environment, CallStop, RunWakes, RunSettles,
           JoinStartup, StopHookEnds, DeregisterEnds, StopsEnd, JoinServers, ServerSettles,
           ServerStops, StartTimerFires, StopTimerFires, RegistrarTimerFires, vars, startVars
  <1> QED
    BY <1>1, <1>2, <1>3, <1>4, <1>5, <1>6, <1>7, <1>8, <1>9, <1>10, <1>11, <1>12, <1>13, <1>14,
       <1>15, <1>16

-----------------------------------------------------------------------------
(* The servers. *)

\* What the i-th executeStop knows of the servers: it calls their stops once it has cancelled
\* them and then for every server that was launched or prepared; without an error it has seen
\* every stop it called fulfil and every start settle.
StopInv(i) ==
    /\ \A s \in Servers : stopOp[i][s] # "idle" => stop[i] \in Cancelling /\ s \in Stopped
    /\ stop[i] \in Cancelling => \A s \in Stopped : stopOp[i][s] # "idle"
    /\ (stop[i] \in {"joinServers", "afterStop", "done"} /\ ~stopErr[i]) =>
           \A s \in Servers : stopOp[i][s] \in {"idle", "ok"}
    /\ (stop[i] \in {"afterStop", "done"} /\ ~stopErr[i]) =>
           results = srv /\ \A s \in Servers : srv[s] # "running"

\* What is known of the servers: nothing runs unless launched; each stop knows its part; a run
\* that fulfilled had no error.
ServerInv ==
    /\ \A s \in Servers : srv[s] # "idle" => launched
    /\ \A i \in Stops : StopInv(i)
    /\ run = "ok" => /\ ~stopErr[1] /\ ~installed
                     /\ \A s \in Servers : results[s] # "failed"

\* A stop that has not begun has called no Server.stop, and a run that fulfilled has stopped.
LEMMA BeforeStop ==
    ASSUME Types, PhaseInv, ServerInv
    PROVE  /\ ~stopRequested => /\ run # "ok" /\ ~serversCancelled
                                /\ \A i \in Stops :
                                      /\ stop[i] = "none"
                                      /\ \A s \in Servers : stopOp[i][s] = "idle"
           /\ run = "ok" => stop[1] = "done"
           /\ 1 \in Stops
  <1>1. 1 \in Stops
    BY AppAssumption DEF Stops
  <1> QED
    BY <1>1 DEF PhaseInv, ServerInv, StopInv, Cancelling, Draining

\* An executeStop that does not move keeps its knowledge while the servers stay as they are.
LEMMA StopFrame ==
    ASSUME NEW i \in Stops, StopInv(i), stop'[i] = stop[i], stopOp'[i] = stopOp[i],
           stopErr'[i] = stopErr[i], UNCHANGED <<launched, prepared, srv>>,
           results' \in {results, srv}
    PROVE  StopInv(i)'
  BY DEF StopInv, Stopped

\* Requesting a stop calls no server.
LEMMA ServerStopApp ==
    ASSUME Types, PhaseInv, ServerInv, NEW starting, NEW held, StopApp(starting, held),
           UNCHANGED <<stopErr, stopOp>>, run' = "ok" => run = "ok" /\ installed' = installed,
           \/ UNCHANGED <<launched, prepared, srv, results>>
           \/ ~stopRequested /\ launched' /\ UNCHANGED <<prepared, results>>
    PROVE  ServerInv'
  <1>1. CASE stopRequested /\ UNCHANGED <<stop, stopRequested>>
    <2>1. \A i \in Stops : StopInv(i)'
      BY <1>1, StopFrame DEF ServerInv
    <2> QED
      BY <1>1, <2>1 DEF ServerInv
  <1>2. CASE /\ ~stopRequested
             /\ stop' \in [Stops -> {"none", "join", "beforeStop", "drain"}]
    <2>1. run # "ok" /\ \A i \in Stops, s \in Servers : stopOp'[i][s] = "idle"
      BY <1>2, BeforeStop
    <2>2. \A i \in Stops : stop'[i] \notin Cancelling
      BY <1>2 DEF Cancelling, Draining
    <2>3. ASSUME NEW i \in Stops PROVE StopInv(i)'
      BY <2>1, <2>2 DEF StopInv, Cancelling, Draining
    <2> QED
      BY <2>1, <2>3 DEF ServerInv
  <1> QED
    BY <1>1, <1>2, StopAppPhase

\* A step of the i-th executeStop alone: the others keep their knowledge.
LEMMA ServerStep ==
    ASSUME Types, PhaseInv, ServerInv, NEW i \in Stops, stop[i] # "done", StopInv(i)',
           \A j \in Stops \ {i} : /\ stop'[j] = stop[j] /\ stopOp'[j] = stopOp[j]
                                  /\ stopErr'[j] = stopErr[j],
           UNCHANGED <<run, installed, launched, prepared, srv>>, results' \in {results, srv}
    PROVE  ServerInv'
  <1>1. \A j \in Stops : StopInv(j)'
    BY StopFrame DEF ServerInv
  <1>2. CASE run = "ok"
    <2>1. 1 \in Stops \ {i}
      BY <1>2, BeforeStop
    <2>2. stop[1] = "done" /\ ~stopErr[1]
      BY <1>2, BeforeStop DEF ServerInv
    <2>3. results = srv
      BY <2>1, <2>2 DEF ServerInv, StopInv
    <2> QED
      BY <1>1, <1>2, <2>1, <2>3 DEF ServerInv
  <1> QED
    BY <1>1, <1>2 DEF ServerInv

\* Every action keeps what is known of the servers.
LEMMA ServerNext ==
    ASSUME Types, PhaseInv, ServerInv, [Next]_vars
    PROVE  ServerInv'
  <1>t. /\ srv \in [Servers -> {"idle", "running", "ok", "failed", "canceled"}]
        /\ stopOp \in [Stops -> [Servers -> {"idle", "called", "ok", "failed"}]]
        /\ stopErr \in [Stops -> BOOLEAN] /\ stop \in [Stops -> StopPc]
        /\ prepared \in SUBSET Servers
    BY AppAssumption DEF Types
  <1>f. /\ FirstHookOrDrain \in {"beforeStop", "drain"} /\ AfterStopOrDone \in {"afterStop", "done"}
        /\ Cancelling = {"stopServers", "joinServers", "afterStop", "done"}
    BY DEF FirstHookOrDrain, AfterStopOrDone, Cancelling, Draining
  <1>1. CASE UNCHANGED <<run, stop, stopErr, installed, stopOp, launched, prepared, srv, results>>
    <2>1. \A i \in Stops : StopInv(i)'
      BY <1>1, StopFrame DEF ServerInv
    <2> QED
      BY <1>1, <2>1 DEF ServerInv
  <1>2. CASE CallStop
    BY <1>2, ServerStopApp DEF CallStop, serverVars
  <1>3. ASSUME NEW i \in BOOLEAN, NEW h \in BOOLEAN, Run(i, h) PROVE ServerInv'
    <2>1. run' \in {"racing", "stopping"} /\ UNCHANGED <<serverVars, stopErr>>
      BY <1>3 DEF Run
    <2>2. CASE UNCHANGED stop
      <3>1. \A j \in Stops : StopInv(j)'
        BY <2>1, <2>2, StopFrame DEF ServerInv, serverVars
      <3> QED
        BY <2>1, <3>1 DEF ServerInv, serverVars
    <2>3. ASSUME NEW held \in BOOLEAN, StopApp(FALSE, held) PROVE ServerInv'
      BY <2>1, <2>3, ServerStopApp DEF serverVars
    <2> QED
      BY <1>3, <2>2, <2>3 DEF Run
  <1>4. CASE RunWakes
    BY <1>4, ServerStopApp DEF RunWakes, serverVars
  <1>5. ASSUME NEW i \in BOOLEAN, RunSettles(i) PROVE ServerInv'
    <2>1. \A j \in Stops : StopInv(j)'
      BY <1>5, StopFrame DEF RunSettles, stopVars, serverVars, ServerInv
    <2>2. run' = "ok" => ~stopErr[1] /\ \A s \in Servers : results[s] # "failed"
      BY <1>5 DEF RunSettles
    <2> QED
      BY <1>5, <2>1, <2>2 DEF RunSettles, stopVars, serverVars, ServerInv
  <1>6. ASSUME NEW c \in 0 .. NumServers, NEW t \in SUBSET Servers, Launch(c, t) PROVE ServerInv'
    <2>1. UNCHANGED <<run, installed, stopErr, prepared, serversCancelled, stopOp, results>>
      BY <1>6 DEF Launch
    <2>2. CASE stopRequested
      BY <1>6, <1>1, <2>1, <2>2 DEF Launch
    <2>3. CASE ~stopRequested /\ UNCHANGED <<stop, stopRequested>>
      <3>1. /\ launched' /\ run # "ok"
            /\ \A i \in Stops :
                  stop'[i] = "none" /\ \A s \in Servers : stopOp'[i][s] = "idle"
        BY <1>6, <2>1, <2>3, BeforeStop DEF Launch
      <3>2. ASSUME NEW i \in Stops PROVE StopInv(i)'
        BY <1>f, <3>1 DEF StopInv
      <3> QED
        BY <2>1, <3>1, <3>2 DEF ServerInv
    <2>4. CASE ~stopRequested /\ StopApp(joinable, HoldsContext)
      <3>1. launched'
        BY <1>6, <2>4 DEF Launch
      <3> QED
        BY <2>1, <2>4, <3>1, ServerStopApp
    <2> QED
      BY <1>6, <2>2, <2>3, <2>4 DEF Launch
  <1>7. ASSUME NEW i \in BOOLEAN, Prepare(i) \/ EndpointReturns PROVE ServerInv'
    <2>1. /\ UNCHANGED <<run, stop, stopErr, installed, launched, srv, stopOp, results>>
          /\ prepared' = prepared \/ ~stopRequested
      BY <1>7 DEF Prepare, EndpointReturns, NextEndpoint, StartFails, runVars, stopVars
    <2>2. CASE prepared' = prepared
      BY <1>1, <2>1, <2>2
    <2>3. CASE ~stopRequested
      <3>1. /\ run # "ok"
            /\ \A j \in Stops :
                  stop'[j] = "none" /\ \A s \in Servers : stopOp'[j][s] = "idle"
        BY <2>1, <2>3, BeforeStop
      <3>2. ASSUME NEW j \in Stops PROVE StopInv(j)'
        BY <1>f, <3>1 DEF StopInv
      <3> QED
        BY <2>1, <3>1, <3>2 DEF ServerInv
    <2> QED
      BY <2>1, <2>2, <2>3
  <1>8. ASSUME NEW i \in Stops, JoinStartup(i) PROVE ServerInv'
    <2>1. /\ stop[i] = "join" /\ stop' = [stop EXCEPT ![i] = FirstHookOrDrain]
          /\ \A j \in Stops \ {i} : stopErr'[j] = stopErr[j]
          /\ UNCHANGED <<run, installed, launched, prepared, srv, stopOp, results>>
      BY <1>8, <1>t DEF JoinStartup, runVars, serverVars
    <2>2. stop'[i] = FirstHookOrDrain /\ \A j \in Stops \ {i} : stop'[j] = stop[j]
      BY <1>t, <2>1
    <2>3. StopInv(i)'
      BY <1>f, <2>1, <2>2 DEF StopInv, ServerInv
    <2> QED
      BY <2>1, <2>2, <2>3, ServerStep
  <1>9. ASSUME NEW i \in Stops, NEW o \in BOOLEAN, StopHookEnds(i, o) PROVE ServerInv'
    <2>1. /\ stop[i] \in {"beforeStop", "afterStop"}
          /\ stopErr' = [stopErr EXCEPT ![i] = @ \/ ~o]
          /\ UNCHANGED <<run, installed, launched, prepared, srv, stopOp, results>>
          /\ \/ stop' = stop
             \/ stop' = [stop EXCEPT ![i] = IF @ = "beforeStop" THEN "drain" ELSE "done"]
      BY <1>9 DEF StopHookEnds, runVars, serverVars
    <2>2. /\ ~stopErr'[i] => ~stopErr[i]
          /\ \A j \in Stops \ {i} : stopErr'[j] = stopErr[j] /\ stop'[j] = stop[j]
      BY <1>t, <2>1
    <2>3. \/ stop[i] = "beforeStop" /\ stop'[i] \in {"beforeStop", "drain"}
          \/ stop[i] = "afterStop" /\ stop'[i] \in {"afterStop", "done"}
      BY <1>t, <2>1
    <2>4. StopInv(i)
      BY DEF ServerInv
    <2>5. StopInv(i)'
      BY <1>f, <2>1, <2>2, <2>3, <2>4 DEF StopInv, Stopped
    <2> QED
      BY <2>1, <2>2, <2>5, ServerStep
  <1>v. ASSUME NEW i \in Stops, InvokeStops(i), stop[i] \in {"drain", "deregister"},
               \A j \in Stops \ {i} : stopErr'[j] = stopErr[j],
               UNCHANGED <<run, installed, launched, prepared, srv, results>>
        PROVE  ServerInv'
    <2>1. /\ stop'[i] \in {"joinServers", "stopServers"}
          /\ stop'[i] = "joinServers" => Stopped = {}
          /\ \A j \in Stops \ {i} : stop'[j] = stop[j]
      BY <1>t, <1>v DEF InvokeStops
    <2>2. /\ stopOp'[i] = [s \in Servers |-> IF s \in Stopped THEN "called" ELSE "idle"]
          /\ \A j \in Stops \ {i} : stopOp'[j] = stopOp[j]
      BY <1>t, <1>v DEF InvokeStops
    <2>3. Stopped' = Stopped /\ Stopped \subseteq Servers
      BY <1>t, <1>v DEF Stopped
    <2>4. StopInv(i)'
      BY <1>f, <2>1, <2>2, <2>3 DEF StopInv
    <2> QED
      BY <1>v, <2>1, <2>2, <2>4, ServerStep
  <1>10. ASSUME NEW i \in Stops, BeginDrain(i) PROVE ServerInv'
    <2>1. /\ stop[i] = "drain"
          /\ UNCHANGED <<run, installed, stopErr, launched, prepared, srv, results>>
      BY <1>10 DEF BeginDrain, runVars
    <2>2. CASE registered
      <3>1. stop' = [stop EXCEPT ![i] = "deregister"] /\ UNCHANGED stopOp
        BY <1>10, <2>2 DEF BeginDrain
      <3>2. stop'[i] = "deregister" /\ \A j \in Stops \ {i} : stop'[j] = stop[j]
        BY <1>t, <3>1
      <3>3. StopInv(i)'
        BY <1>f, <2>1, <3>1, <3>2 DEF StopInv, ServerInv
      <3> QED
        BY <2>1, <3>1, <3>2, <3>3, ServerStep
    <2>3. CASE ~registered
      BY <1>10, <1>v, <2>1, <2>3 DEF BeginDrain
    <2> QED
      BY <2>2, <2>3
  <1>11. ASSUME NEW i \in Stops, NEW o \in BOOLEAN, DeregisterEnds(i, o) PROVE ServerInv'
    <2>1. \A j \in Stops \ {i} : stopErr'[j] = stopErr[j]
      BY <1>11, <1>t DEF DeregisterEnds
    <2> QED
      BY <1>11, <1>v, <2>1 DEF DeregisterEnds, runVars
  <1>12. ASSUME NEW i \in Stops, StopsEnd(i) PROVE ServerInv'
    <2>1. /\ stop[i] = "stopServers" /\ UNCHANGED <<run, installed, serverVars>>
          /\ StopGivesUp(i) \/ \A s \in Servers : stopOp[i][s] # "called"
          /\ stopErr' = [stopErr EXCEPT
                ![i] = @ \/ StopGivesUp(i) \/ \E s \in Servers : stopOp[i][s] = "failed"]
          /\ stop' = [stop EXCEPT ![i] = "joinServers"]
      BY <1>12 DEF StopsEnd, runVars
    <2>2. /\ stop'[i] = "joinServers"
          /\ ~stopErr'[i] => \A s \in Servers : stopOp[i][s] \notin {"called", "failed"}
          /\ \A j \in Stops \ {i} : stop'[j] = stop[j] /\ stopErr'[j] = stopErr[j]
      BY <1>t, <2>1
    <2>3. \A s \in Servers : stopOp[i][s] \in {"idle", "called", "ok", "failed"}
      BY <1>t
    <2>4. StopInv(i)'
      BY <1>f, <2>1, <2>2, <2>3 DEF StopInv, ServerInv, Stopped, serverVars
    <2> QED
      BY <2>1, <2>2, <2>4, ServerStep DEF serverVars
  <1>13. ASSUME NEW i \in Stops, JoinServers(i) PROVE ServerInv'
    <2>1. /\ stop[i] = "joinServers" /\ results' = srv
          /\ UNCHANGED <<run, installed, launched, prepared, srv, stopOp>>
          /\ StopGivesUp(i) \/ \A s \in Servers : srv[s] # "running"
          /\ stopErr' = [stopErr EXCEPT ![i] = @ \/ StopGivesUp(i)]
          /\ stop' = [stop EXCEPT ![i] = AfterStopOrDone]
      BY <1>13 DEF JoinServers, runVars
    <2>2. /\ stop'[i] = AfterStopOrDone
          /\ ~stopErr'[i] => ~stopErr[i] /\ \A s \in Servers : srv[s] # "running"
          /\ \A j \in Stops \ {i} : stop'[j] = stop[j] /\ stopErr'[j] = stopErr[j]
      BY <1>t, <2>1
    <2>3. StopInv(i)'
      BY <1>f, <2>1, <2>2 DEF StopInv, ServerInv, Stopped
    <2> QED
      BY <2>1, <2>2, <2>3, ServerStep
  <1>14. ASSUME NEW s \in Servers, NEW o \in {"ok", "failed", "canceled"}, ServerSettles(s, o)
         PROVE  ServerInv'
    <2>1. /\ srv[s] = "running" /\ srv' = [srv EXCEPT ![s] = o]
          /\ UNCHANGED <<run, installed, stop, stopErr, launched, prepared, stopOp, results>>
      BY <1>14 DEF ServerSettles, stopVars
    <2>2. ASSUME NEW i \in Stops PROVE StopInv(i)'
      BY <2>1 DEF StopInv, ServerInv, Stopped
    <2> QED
      BY <1>t, <2>1, <2>2 DEF ServerInv
  <1>15. ASSUME NEW i \in Stops, NEW s \in Servers, NEW o \in {"ok", "failed"},
                ServerStops(i, s, o)
         PROVE  ServerInv'
    <2>1. /\ stopOp[i][s] = "called" /\ stopOp' = [stopOp EXCEPT ![i][s] = o]
          /\ UNCHANGED <<run, installed, stop, stopErr, launched, prepared, srv, results>>
      BY <1>15 DEF ServerStops, stopVars, runVars
    <2>2. \A j \in Stops \ {i} : stopOp'[j] = stopOp[j]
      BY <1>t, <2>1
    <2>3. \A u \in Servers : stopOp'[i][u] = IF u = s THEN o ELSE stopOp[i][u]
      BY <1>t, <2>1
    <2>4. StopInv(i)'
      BY <2>1, <2>3 DEF StopInv, ServerInv, Stopped
    <2>5. \A j \in Stops : StopInv(j)'
      BY <2>1, <2>2, <2>4, StopFrame DEF ServerInv
    <2> QED
      BY <2>1, <2>5 DEF ServerInv
  <1>16. CASE \/ StartHookReturns \/ StartStepFails \/ StartWaitEnds \/ BeginRegister
              \/ RegisterReturns \/ RegisterFails \/ Compensate \/ BeginAfterStart
              \/ StartTimerFires \/ RegistrarTimerFires
              \/ \E i \in Stops : StopTimerFires(i)
              \/ \E o \in {"ok", "failed"} : RegistrarSettles(o)
              \/ UNCHANGED vars
    BY <1>16, <1>1
    DEF StartHookReturns, StartStepFails, StartWaitEnds, BeginRegister, RegisterReturns,
        RegisterFails, Compensate, BeginAfterStart, StartTimerFires, StopTimerFires,
        RegistrarTimerFires, RegistrarSettles, vars, runVars, stopVars, serverVars
  <1>c. 0 \in 0 .. NumServers /\ {} \in SUBSET Servers
    BY AppAssumption
  <1> QED
    BY <1>2, <1>3, <1>4, <1>5, <1>6, <1>7, <1>8, <1>9, <1>10, <1>11, <1>12, <1>13, <1>14, <1>15,
       <1>16, <1>c
    DEF Next, Loop, Timers, Cooperation, Environment

-----------------------------------------------------------------------------
(* The theorems. *)

\* The inductive invariant of the application.
IInv == Types /\ PhaseInv /\ RegInv /\ ServerInv

\* newApp establishes the invariant.
LEMMA InitIInv == Init => IInv
  <1> SUFFICES ASSUME Init PROVE IInv
    OBVIOUS
  <1>1. /\ \A i \in Stops : /\ stop[i] = "none"
                           /\ \A s \in Servers : stopOp[i][s] = "idle"
        /\ \A s \in Servers : srv[s] = "idle"
    BY DEF Init
  <1>2. PhaseInv
    BY <1>1 DEF Init, PhaseInv, Draining, Cancelling
  <1>3. RegInv
    BY DEF Init, RegInv, NoOrphanInstance, Responsible, Early
  <1>4. ServerInv
    BY <1>1 DEF Init, ServerInv, StopInv, Cancelling, Draining
  <1> QED
    BY TypesInit, <1>2, <1>3, <1>4 DEF IInv

\* Every step of the application preserves it.
LEMMA NextIInv == IInv /\ [Next]_vars => IInv'
  BY TypesNext, PhaseNext, RegNext, ServerNext DEF IInv

\* Every variable of newApp keeps its type; registrar.deregister is called at most once.
THEOREM TypeCorrect == Spec => []TypeOK
  <1>1. IInv => deregisters <= 1
    BY DEF IInv, Types, RegInv, NoOrphanInstance, Responsible
  <1>2. IInv => TypeOK
    BY <1>1, TypesOK DEF IInv
  <1> QED
    BY <1>2, InitIInv, NextIInv, PTL DEF Spec

\* A registration that succeeds always has exactly one owner: registerInstance, the recorded
\* instance, the watch of a failed registerInstance, or the deregister call already made.
THEOREM NoOrphanInstanceTheorem == Spec => []NoOrphanInstance
  <1>1. IInv => NoOrphanInstance
    BY DEF IInv, RegInv
  <1> QED
    BY <1>1, InitIInv, NextIInv, PTL DEF Spec

\* The instance is withdrawn before the servers are cancelled and not recorded afterwards.
THEOREM WithdrawnBeforeStopTheorem == Spec => []WithdrawnBeforeStop
  <1>1. IInv => WithdrawnBeforeStop
    BY DEF IInv, PhaseInv, Draining, Cancelling, WithdrawnBeforeStop
  <1> QED
    BY <1>1, InitIInv, NextIInv, PTL DEF Spec

\* run() settles only after the executeStop it awaits has invoked the stop of every server
\* started or prepared.
THEOREM EveryServerStoppedTheorem == Spec => []EveryServerStopped
  <1>1. ASSUME IInv PROVE EveryServerStopped
    <2>1. 1 \in Stops
      BY <1>1, BeforeStop DEF IInv
    <2>2. ASSUME Settled, NEW s \in Servers, srv[s] # "idle" \/ s \in prepared
          PROVE  stopOp[1][s] # "idle"
      <3>1. stop[1] \in Cancelling
        BY <1>1, <2>2 DEF IInv, PhaseInv, Settled, Cancelling, Draining
      <3>2. s \in Stopped
        BY <1>1, <2>2 DEF IInv, ServerInv, Stopped
      <3> QED
        BY <1>1, <2>1, <3>1, <3>2 DEF IInv, ServerInv, StopInv
    <2> QED
      BY <2>2 DEF EveryServerStopped
  <1> QED
    BY <1>1, InitIInv, NextIInv, PTL DEF Spec

\* run() fulfils only when every start, and every stop called by the executeStop it awaits,
\* ended without a failure, whatever other executeStops are nested in that one.
THEOREM RunOkMeansCleanTheorem == Spec => []RunOkMeansClean
  <1>1. ASSUME IInv PROVE RunOkMeansClean
    <2>1. ASSUME run = "ok"
          PROVE  /\ \A s \in Servers : /\ srv[s] \in {"idle", "ok", "canceled"}
                                       /\ stopOp[1][s] \in {"idle", "ok"}
                 /\ ~installed
      <3>1. 1 \in Stops /\ stop[1] = "done" /\ ~stopErr[1] /\ ~installed
        BY <1>1, <2>1, BeforeStop DEF IInv, ServerInv
      <3>2. /\ results = srv /\ \A s \in Servers : srv[s] # "running"
            /\ \A s \in Servers : stopOp[1][s] \in {"idle", "ok"}
        BY <1>1, <3>1 DEF IInv, ServerInv, StopInv
      <3>3. \A s \in Servers : /\ srv[s] \in {"idle", "running", "ok", "failed", "canceled"}
                               /\ results[s] # "failed"
        BY <1>1, <2>1 DEF IInv, Types, ServerInv
      <3> QED
        BY <3>1, <3>2, <3>3
    <2> QED
      BY <2>1 DEF RunOkMeansClean
  <1> QED
    BY <1>1, InitIInv, NextIInv, PTL DEF Spec

\* No server is started after the servers were cancelled or its own stop was invoked, by any
\* executeStop.
THEOREM NoStartBehindStopTheorem == Spec => NoStartBehindStop
  <1> DEFINE Step == \A s \in Servers : srv[s] = "idle" /\ srv'[s] # "idle" =>
                        ~serversCancelled' /\ \A i \in Stops : stopOp'[i][s] = "idle"
  <1>1. IInv /\ [Next]_vars => [Step]_vars
    <2> SUFFICES ASSUME IInv, Next, NEW s \in Servers, srv[s] = "idle", srv'[s] # "idle"
                 PROVE  ~serversCancelled' /\ \A i \in Stops : stopOp'[i][s] = "idle"
      OBVIOUS
    <2>1. \/ UNCHANGED srv
          \/ \E t \in Servers, o \in {"ok", "failed", "canceled"} : ServerSettles(t, o)
          \/ \E c \in 0 .. NumServers, t \in SUBSET Servers : Launch(c, t)
      <3>1. 0 \in 0 .. NumServers /\ {} \in SUBSET Servers
        BY AppAssumption
      <3> QED
        BY <3>1
        DEF Next, Loop, Timers, Cooperation, Environment, CallStop, Run, RunWakes, RunSettles,
            StartHookReturns, StartStepFails, StartWaitEnds, Prepare, EndpointReturns,
            BeginRegister, RegisterReturns, RegisterFails, Compensate, BeginAfterStart,
            JoinStartup, StopHookEnds, BeginDrain, DeregisterEnds, StopsEnd, JoinServers,
            ServerStops, RegistrarSettles, StartTimerFires, StopTimerFires,
            RegistrarTimerFires, serverVars
    <2>2. ASSUME NEW t \in Servers, NEW o \in {"ok", "failed", "canceled"}, ServerSettles(t, o)
          PROVE  FALSE
      BY <2>2 DEF ServerSettles, IInv, Types
    <2>3. ~stopRequested /\ UNCHANGED <<serversCancelled, stopOp>>
      BY <2>1, <2>2 DEF Launch
    <2> QED
      BY <2>3, BeforeStop DEF IInv
  <1> QED
    BY <1>1, InitIInv, NextIInv, PTL DEF Spec, NoStartBehindStop
=============================================================================
