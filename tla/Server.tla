-------------------------------- MODULE Server --------------------------------
(***************************************************************************)
(* The service server (packages/server/src/index.ts) composed with the      *)
(* memory transport it serves on.  Server s binds listener s.               *)
(*                                                                          *)
(* Registration is open until endpoint or start seals it.  endpoint and     *)
(* start share one bind; stop joins that bind, closes what it accepted and  *)
(* is shared by later stops.  A caller's context bounds only that caller's  *)
(* wait.                                                                    *)
(***************************************************************************)
EXTENDS MemoryTransport

CONSTANTS Routes,      \* service/endpoint pairs a handler may be registered for
          HttpRoutes,  \* the routes the httpRoute options point at
          Stops        \* calls of stop

Servers == Listeners \ Raw

ASSUME ServerConstants == HttpRoutes \subseteq Routes

VARIABLES
    srv,   \* per server: registration, the bind, start and the shared close
    stops  \* per call of stop: its server and how it ended

serverVars == <<srv, stops>>
vars == <<bound, lst, cl, ex, live, owned, srv, stops>>

FreshServer == [routes |-> {}, sealed |-> "open", binding |-> "none",
                listener |-> FALSE, start |-> "idle",
                stopping |-> FALSE, closing |-> "none"]

Init ==
    /\ TransportInit
    /\ srv = [s \in Servers |-> FreshServer]
    /\ stops = [k \in Stops |-> [server |-> None, state |-> "idle"]]

\* registerHandler and registerHandlers: the whole batch or nothing, and
\* nothing once sealed.  A batch that repeats an installed route throws.
RegisterHandlers(s, batch) ==
    /\ srv[s].sealed = "open"
    /\ batch \cap srv[s].routes = {}
    /\ srv' = [srv EXCEPT ![s].routes = @ \cup batch]
    /\ UNCHANGED <<stops, transportVars>>

\* seal: validated once; its dispatcher or its failure is what every later
\* call gets.
Sealed(r) ==
    IF r.sealed # "open" THEN r.sealed
    ELSE IF r.routes # {} /\ HttpRoutes \subseteq r.routes THEN "dispatcher" ELSE "failed"

\* bind on a server that is sealed as r: the first caller whose context is not
\* done calls transport.listen, which the memory transport settles at once; the
\* listener is captured a microtask later.
Bind(s, r) ==
    IF r.binding # "none" \/ lst[s].state # "new"
    THEN /\ srv' = [srv EXCEPT ![s] = r]
         /\ UNCHANGED transportVars
    ELSE \/ /\ Listen(s)
            /\ srv' = [srv EXCEPT ![s] = [r EXCEPT !.binding = "listened"]]
         \/ /\ bound # None
            /\ srv' = [srv EXCEPT ![s] = [r EXCEPT !.binding = "failed"]]
            /\ UNCHANGED transportVars

\* endpoint(ctx): seal and bind; what it returns changes nothing.
Endpoint(s) ==
    LET r == [srv[s] EXCEPT !.sealed = Sealed(srv[s])]
    IN  /\ r # srv[s] \/ r.binding = "none"
        /\ IF r.sealed = "dispatcher"
           THEN Bind(s, r)
           ELSE /\ srv' = [srv EXCEPT ![s] = r]
                /\ UNCHANGED transportVars
        /\ UNCHANGED stops

\* start(ctx) up to its first await.  A failed seal throws before the server
\* counts as started; a context done before a first bind ends start at once.
Start(s) ==
    LET r == [srv[s] EXCEPT !.sealed = Sealed(srv[s])]
    IN  /\ srv[s].start = "idle"
        /\ \/ /\ r.sealed = "failed"
              /\ r # srv[s]
              /\ srv' = [srv EXCEPT ![s] = r]
              /\ UNCHANGED transportVars
           \/ /\ r.sealed = "dispatcher"
              /\ Bind(s, [r EXCEPT !.start = "binding"])
           \/ /\ r.sealed = "dispatcher"
              /\ r.binding = "none"
              /\ srv' = [srv EXCEPT ![s] = [r EXCEPT !.start = "failed"]]
              /\ UNCHANGED transportVars
        /\ UNCHANGED stops

\* captureListener.
CaptureListener(s) ==
    /\ srv[s].binding = "listened"
    /\ srv' = [srv EXCEPT ![s].binding = "captured", ![s].listener = TRUE]
    /\ UNCHANGED <<stops, transportVars>>

\* start resumes after the bind: it joins a close that began meanwhile, or
\* serves.  serve throws when the listener failed or the context is done.
StartResumes(s) ==
    /\ srv[s].start = "binding"
    /\ \/ /\ srv[s].binding = "captured"
          /\ srv[s].stopping
          /\ srv' = [srv EXCEPT ![s].start = "joining"]
          /\ UNCHANGED transportVars
       \/ /\ srv[s].binding = "captured"
          /\ ~srv[s].stopping
          /\ Serve(s)
          /\ srv' = [srv EXCEPT ![s].start = "serving"]
       \/ /\ srv[s].binding = "captured"
          /\ ~srv[s].stopping
          /\ srv' = [srv EXCEPT ![s].start = "failed", ![s].listener = FALSE]
          /\ UNCHANGED transportVars
    /\ UNCHANGED stops

\* The bind rejects, or the context of start ends its wait.  Stopping turns a
\* plain cancellation into a clean return.
StartGivesUp(s) ==
    /\ srv[s].start = "binding"
    /\ \/ srv' = [srv EXCEPT ![s].start = "failed"]
       \/ /\ srv[s].stopping
          /\ srv' = [srv EXCEPT ![s].start = "returned"]
    /\ UNCHANGED <<stops, transportVars>>

\* start settles behind serve, or behind the close it joined.
StartSettles(s) ==
    /\ \/ /\ srv[s].start = "serving"
          /\ lst[s].serve \in {"resolved", "rejected"}
          /\ srv' = [srv EXCEPT ![s].listener = FALSE,
                       ![s].start = IF lst[s].serve = "resolved" THEN "returned" ELSE "failed"]
       \/ /\ srv[s].start = "joining"
          /\ srv[s].closing \in {"done", "failed"}
          /\ srv' = [srv EXCEPT ![s].listener = FALSE,
                       ![s].start = IF srv[s].closing = "done" THEN "returned" ELSE "failed"]
    /\ UNCHANGED <<stops, transportVars>>

\* App cancels the context start serves with.
StartContextDone(s) ==
    /\ srv[s].start = "serving"
    /\ ServeContextDone(s)
    /\ UNCHANGED serverVars

\* stop(ctx) up to its await: nothing before a bind, a join of the close that
\* exists, or the close itself.  Cancelling the bind owner cannot reach a
\* memory listen, which has settled.
Stop(k, s) ==
    /\ stops[k].state = "idle"
    /\ \/ /\ srv[s].binding = "none"
          /\ stops' = [stops EXCEPT ![k] = [server |-> s, state |-> "nothing"]]
          /\ UNCHANGED srv
       \/ /\ srv[s].binding # "none"
          /\ stops' = [stops EXCEPT ![k] = [server |-> s, state |-> "waiting"]]
          /\ srv' = IF srv[s].closing # "none" THEN srv
                    ELSE [srv EXCEPT ![s].stopping = TRUE, ![s].closing = "pending"]
    /\ UNCHANGED transportVars

\* The bind has settled: closeListener closes what it accepted with a context
\* that never ends; a bind that failed fails the close.
CloseBegins(s) ==
    /\ srv[s].closing = "pending"
    /\ \/ /\ srv[s].binding = "captured"
          /\ srv' = [srv EXCEPT ![s].closing = "closing"]
          /\ IF lst[s].state = "open" THEN CloseListener(s) ELSE UNCHANGED transportVars
       \/ /\ srv[s].binding = "failed"
          /\ srv' = [srv EXCEPT ![s].closing = "failed"]
          /\ UNCHANGED transportVars
    /\ UNCHANGED stops

\* Mutant of CloseSettles: close is not awaited.
CloseSettlesAtOnce(s) ==
    /\ srv[s].closing = "closing"
    /\ srv' = [srv EXCEPT ![s].closing = "done", ![s].listener = FALSE]
    /\ UNCHANGED <<stops, transportVars>>

\* The accepted listener's close settles behind its handlers.
CloseSettles(s) ==
    /\ srv[s].closing = "closing"
    /\ Drained(s)
    /\ srv' = [srv EXCEPT ![s].closing = "done", ![s].listener = FALSE]
    /\ UNCHANGED <<stops, transportVars>>

\* A stop settles with the shared close, or gives up when its context ends.
StopSettles(k) ==
    LET c == srv[stops[k].server].closing
    IN  /\ stops[k].state = "waiting"
        /\ \/ /\ c \in {"done", "failed"}
              /\ stops' = [stops EXCEPT ![k].state = c]
           \/ stops' = [stops EXCEPT ![k].state = "gaveUp"]
        /\ UNCHANGED <<srv, transportVars>>

ServerStep(s) ==
    \/ \E batch \in SUBSET Routes \ {{}} : RegisterHandlers(s, batch)
    \/ Endpoint(s)
    \/ Start(s)
    \/ CaptureListener(s)
    \/ StartResumes(s)
    \/ StartGivesUp(s)
    \/ StartSettles(s)
    \/ StartContextDone(s)
    \/ \E k \in Stops : Stop(k, s)
    \/ CloseBegins(s)
    \/ CloseSettles(s)

Next ==
    \/ \E s \in Servers : ServerStep(s)
    \/ \E k \in Stops : StopSettles(k)
    \/ TransportNext /\ UNCHANGED serverVars

(***************************************************************************)
(* Promise reactions run; a handler whose context was cancelled returns.   *)
(***************************************************************************)
Fairness ==
    /\ \A s \in Servers : /\ WF_vars(CaptureListener(s))
                          /\ WF_vars(StartResumes(s) \/ StartGivesUp(s))
                          /\ WF_vars(StartSettles(s))
                          /\ WF_vars(CloseBegins(s))
                          /\ WF_vars(CloseSettles(s))
    /\ \A l \in Listeners : WF_vars(CleanupSettles(l) /\ UNCHANGED serverVars)
    /\ \A e \in Exchanges :
         /\ WF_vars(Invoke(e) /\ UNCHANGED serverVars)
         /\ WF_vars(ex[e].finished /\ UNCHANGED serverVars
                    /\ \E o \in Outcomes \cup {"body"} : HandlerSettles(e, o))

Spec == Init /\ [][Next]_vars /\ Fairness

(***************************************************************************)
(* Properties                                                              *)
(***************************************************************************)
ListenerRecord ==
    [state : {"new", "open", "closed"}, serve : {"none", "pending", "resolved", "rejected"},
     cleanups : Seq(Primary)]

ClientRecord == [to : Listeners \cup {None}, admitting : BOOLEAN, terminated : BOOLEAN]

ExchangeRecord ==
    [at : Listeners \cup {None}, by : Clients \cup {None},
     finished : BOOLEAN, settled : BOOLEAN,
     response : {"none", "pending", "resolved", "rejected"},
     run : {"none", "queued", "running", "done"},
     body : {"none", "open", "over"},
     fetch : {"none", "waiting", "returned", "failed"}]

ServerRecord ==
    [routes : SUBSET Routes, sealed : {"open", "dispatcher", "failed"},
     binding : {"none", "listened", "captured", "failed"},
     listener : BOOLEAN, stopping : BOOLEAN,
     start : {"idle", "binding", "joining", "serving", "returned", "failed"},
     closing : {"none", "pending", "closing", "done", "failed"}]

StopRecord ==
    [server : Servers \cup {None},
     state : {"idle", "nothing", "waiting", "done", "failed", "gaveUp"}]

TypeOK ==
    /\ bound \in Listeners \cup {None}
    /\ lst \in [Listeners -> ListenerRecord]
    /\ cl \in [Clients -> ClientRecord]
    /\ ex \in [Exchanges -> ExchangeRecord]
    /\ live \subseteq Exchanges
    /\ owned \subseteq Exchanges
    /\ srv \in [Servers -> ServerRecord]
    /\ stops \in [Stops -> StopRecord]

\* The two owner sets agree with the exchanges: one that is admitted and not
\* finished is in both, any other in neither, and a closed listener or a
\* terminated client holds none, whichever of the six ways ended it.
NoExchangeLeaks ==
    \A e \in Exchanges :
        LET open == ex[e].at # None /\ ~ex[e].finished
        IN  /\ e \in live <=> open
            /\ e \in owned <=> open
            /\ open => lst[ex[e].at].state = "open" /\ ~cl[ex[e].by].terminated

\* serve, and therefore start, never settles while a handler the listener
\* admitted is queued or running (startCleanup's Promise.all).
ServeJoinsHandlers ==
    /\ \A l \in Listeners : lst[l].serve \in {"resolved", "rejected"} => HandlersOf(l) = {}
    /\ \A s \in Servers :
         lst[s].serve # "none" /\ srv[s].start \in {"returned", "failed"} => HandlersOf(s) = {}

\* A stop that reports success leaves nothing behind: the listener is closed and
\* does not hold its address, no handler runs, and start has not begun and cannot begin to serve.
StopMeansStopped ==
    \A k \in Stops :
        stops[k].state = "done" =>
            LET s == stops[k].server
            IN  /\ lst[s].state = "closed" /\ bound # s
                /\ HandlersOf(s) = {}
                /\ srv[s].start = "serving" => lst[s].serve # "pending"
                /\ ~srv[s].listener

\* Once a stop has found a bind, the listener is closed and drained or the bind
\* failed, and a started server's start settles.
StopEndsStart ==
    \A s \in Servers :
        srv[s].stopping ~> /\ srv[s].closing \in {"done", "failed"}
                           /\ srv[s].closing = "done" => Drained(s)
                           /\ srv[s].start \in {"idle", "returned", "failed"}
===============================================================================
