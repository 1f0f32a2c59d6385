--------------------------- MODULE MemoryTransport ---------------------------
(***************************************************************************)
(* The process-local transport (packages/transport/memory/src/transport.ts)*)
(* on one address: listeners that take turns to own the address, clients    *)
(* dialled to whichever listener owned it, and the exchanges a fetch opens. *)
(*                                                                          *)
(* An exchange is ended by its handler, by its caller's context or Request  *)
(* signal, by a fetch timeout, by its client's close, by its listener's     *)
(* close or by the end of the response body.  All of them go through        *)
(* finishRequest, which takes the exchange out of the listener's live set   *)
(* and of the client's owned set.                                           *)
(*                                                                          *)
(* Each step is one run of JavaScript up to the next await, microtask or    *)
(* callback.  The listener calls are made by an owner: the application for  *)
(* the Raw listeners below, the Server for the others (module Server).      *)
(***************************************************************************)
EXTENDS Naturals, Sequences, FiniteSets

CONSTANTS Listeners,        \* the listeners that may be created on the address
          Raw,              \* those the application drives by itself
          Clients,          \* the clients that may be dialled
          ConnectionClose,  \* those dialled with the connectionClose option
          MaxFetches,       \* bound: the fetches that may be made
          Outcomes,         \* what a raw handler's promise may settle with
          None              \* no listener, no client

ASSUME TransportConstants ==
    /\ Raw \subseteq Listeners
    /\ ConnectionClose \subseteq Clients
    /\ Outcomes \subseteq {"body", "noBody", "notResponse", "rejects", "lockedBody"}
    /\ None \notin Listeners \cup Clients
    /\ MaxFetches \in Nat

\* Exchanges are numbered in the order of their fetches.
Exchanges == 1 .. MaxFetches

VARIABLES
    bound,  \* the listener the address map holds
    lst,    \* per listener: its state, its serve promise, its pending cleanups
    cl,     \* per client: the listener it was dialled to, admitting, terminated
    ex,     \* per exchange: where it was dispatched and how far it got
    live,   \* the exchanges in their listener's live set
    owned   \* the exchanges in their client's owned set

transportVars == <<bound, lst, cl, ex, live, owned>>

\* What a cleanup settles serve with: close passes no primary error, a
\* cancelled serve context or failMemoryListener passes one.
Primary == {"clean", "error"}

FreshListener == [state |-> "new", serve |-> "none", cleanups |-> << >>]
FreshClient == [to |-> None, admitting |-> FALSE, terminated |-> FALSE]
FreshExchange == [at |-> None, by |-> None, finished |-> FALSE, settled |-> FALSE,
                  response |-> "none", run |-> "none", body |-> "none",
                  fetch |-> "none"]

TransportInit ==
    /\ bound = None
    /\ lst = [l \in Listeners |-> FreshListener]
    /\ cl = [c \in Clients |-> FreshClient]
    /\ ex = [e \in Exchanges |-> FreshExchange]
    /\ live = {}
    /\ owned = {}

(***************************************************************************)
(* Exchanges                                                               *)
(***************************************************************************)
\* finishRequest on one exchange's own state; the two sets follow in Finish.
Finished(r) == [r EXCEPT !.finished = TRUE]

\* exchange.fail: finish, abort the body if it is still open, and reject the
\* response unless it was settled.
Failed(r) ==
    [Finished(r) EXCEPT
        !.body = IF r.body = "open" THEN "over" ELSE r.body,
        !.settled = TRUE,
        !.response = IF r.settled THEN r.response ELSE "rejected"]

\* The other half of finishRequest: the exchanges of es leave both sets.
Finish(es) ==
    /\ live' = live \ es
    /\ owned' = owned \ es

Fail(es) ==
    /\ ex' = [e \in Exchanges |-> IF e \in es THEN Failed(ex[e]) ELSE ex[e]]
    /\ Finish(es)

\* dispatch: a listener that is closed or does not serve rejects the request.
Admits(l) == lst[l].state = "open" /\ lst[l].serve = "pending"

\* The exchange dispatch makes of a request it admits: its handler is queued.
Dispatched(c) == [FreshExchange EXCEPT !.at = cl[c].to, !.by = c, !.fetch = "waiting",
                                       !.response = "pending", !.run = "queued"]

\* rejectedExchange; a Request whose signal was aborted before ends the same
\* way, without a handler.
RejectedExchange(c) == Failed([Dispatched(c) EXCEPT !.run = "none"])

\* Client.fetch up to its await.
Fetch(c, e, aborted) ==
    /\ cl[c].admitting
    /\ ex[e].fetch = "none"
    /\ \A d \in 1 .. e - 1 : ex[d].fetch # "none"
    /\ IF Admits(cl[c].to) /\ ~aborted
       THEN /\ ex' = [ex EXCEPT ![e] = Dispatched(c)]
            /\ live' = live \cup {e}
            /\ owned' = owned \cup {e}
       ELSE /\ ex' = [ex EXCEPT ![e] = RejectedExchange(c)]
            /\ UNCHANGED <<live, owned>>
    /\ UNCHANGED <<bound, lst, cl>>

\* invokeHandler, in a microtask: an exchange settled by then skips its handler.
Invoke(e) ==
    /\ ex[e].run = "queued"
    /\ ex' = [ex EXCEPT ![e].run = IF ex[e].settled THEN "done" ELSE "running"]
    /\ UNCHANGED <<bound, lst, cl, live, owned>>

\* handlerResolved or handlerRejected, and releaseHandler behind it.  A result
\* that comes after the exchange was settled is dropped.  A response without a
\* body ends the request at once.  Observing a locked body throws after the
\* response was marked settled and before it is resolved.
HandlerSettles(e, outcome) ==
    LET done == [ex[e] EXCEPT !.run = "done"]
        Published(r) == [r EXCEPT !.settled = TRUE, !.response = "resolved"]
    IN  /\ ex[e].run = "running"
        /\ \/ /\ ex[e].settled
              /\ ex' = [ex EXCEPT ![e] = done]
              /\ UNCHANGED <<live, owned>>
           \/ /\ ~ex[e].settled
              /\ outcome = "body"
              /\ ex' = [ex EXCEPT ![e] = [Published(done) EXCEPT !.body = "open"]]
              /\ UNCHANGED <<live, owned>>
           \/ /\ ~ex[e].settled
              /\ outcome = "noBody"
              /\ ex' = [ex EXCEPT ![e] = Finished(Published(done))]
              /\ Finish({e})
           \/ /\ ~ex[e].settled
              /\ outcome \in {"notResponse", "rejects"}
              /\ ex' = [ex EXCEPT ![e] = Failed(done)]
              /\ Finish({e})
           \/ /\ ~ex[e].settled
              /\ outcome = "lockedBody"
              /\ ex' = [ex EXCEPT ![e] = [done EXCEPT !.settled = TRUE]]
              /\ UNCHANGED <<live, owned>>
        /\ UNCHANGED <<bound, lst, cl>>

\* Mutant of BodyEnds: finishRequest does not release the client's ownership.
BodyEndsOwned(e) ==
    /\ ex[e].body = "open"
    /\ ex' = [ex EXCEPT ![e].finished = TRUE, ![e].body = "over"]
    /\ live' = live \ {e}
    /\ UNCHANGED <<bound, lst, cl, owned>>

\* The consumer reads the body to its end or cancels it: bodyEnded.
BodyEnds(e) ==
    /\ ex[e].body = "open"
    /\ ex' = [ex EXCEPT ![e] = [Finished(ex[e]) EXCEPT !.body = "over"]]
    /\ Finish({e})
    /\ UNCHANGED <<bound, lst, cl>>

\* onCallerAbort or onAbort: the caller's context or the Request signal.  Both
\* registrations last until finishRequest, so they also cut a published body.
CallerAborts(e) ==
    /\ e \in live
    /\ ~ex[e].finished
    /\ Fail({e})
    /\ UNCHANGED <<bound, lst, cl>>

\* fetch's await ends and connectionClose retires the client: the response is
\* returned, or the wait failed (rejected response, timeout, caller context)
\* and the exchange is failed once more.
FetchSettles(e) ==
    LET retire == [cl EXCEPT ![ex[e].by].admitting = @ /\ ex[e].by \notin ConnectionClose]
    IN  /\ ex[e].fetch = "waiting"
        /\ cl' = retire
        /\ \/ /\ ex[e].response = "resolved"
              /\ ex' = [ex EXCEPT ![e].fetch = "returned"]
              /\ UNCHANGED <<live, owned>>
           \/ /\ ex' = [ex EXCEPT ![e] = [Failed(ex[e]) EXCEPT !.fetch = "failed"]]
              /\ Finish({e})
        /\ UNCHANGED <<bound, lst>>

(***************************************************************************)
(* Clients                                                                 *)
(***************************************************************************)
\* transport.dial: the client belongs to the listener that owns the address.
Dial(c) ==
    /\ bound # None
    /\ cl[c].to = None
    /\ cl' = [cl EXCEPT ![c] = [to |-> bound, admitting |-> TRUE, terminated |-> FALSE]]
    /\ UNCHANGED <<bound, lst, ex, live, owned>>

\* Client.close: terminate fails every owned exchange, once.
CloseClient(c) ==
    /\ cl[c].to # None
    /\ ~cl[c].terminated
    /\ cl' = [cl EXCEPT ![c].admitting = FALSE, ![c].terminated = TRUE]
    /\ Fail({e \in owned : ex[e].by = c})
    /\ UNCHANGED <<bound, lst>>

(***************************************************************************)
(* Listeners                                                               *)
(***************************************************************************)
\* transport.listen: exclusive, so it throws while the address is taken.
Listen(l) ==
    /\ lst[l].state = "new"
    /\ bound = None
    /\ bound' = l
    /\ lst' = [lst EXCEPT ![l].state = "open"]
    /\ UNCHANGED <<cl, ex, live, owned>>

\* releaseAddress: only the listener the map still holds removes itself.
ReleaseAddress(l) == bound' = IF bound = l THEN None ELSE bound

\* startCleanup(primary): once a listener is closed a call returns the first
\* cleanup.  Until the live exchanges are failed no cleanup is recorded, so an
\* abort listener of a handler that closes the listener again (again) starts a
\* second one, which is queued before the first.
StartCleanup(l, primary, again) ==
    LET mine == {e \in live : ex[e].at = l}
        reentered == \E e \in mine : ex[e].run = "running"
    IN  /\ lst[l].state = "open"
        /\ again = "none" \/ reentered
        /\ lst' = [lst EXCEPT ![l].state = "closed",
                              ![l].cleanups = (IF again = "none" THEN << >> ELSE <<again>>)
                                              \o <<primary>>]
        /\ ReleaseAddress(l)
        /\ Fail(mine)
        /\ UNCHANGED cl

\* The promises in a listener's handlers set.
HandlersOf(l) == {e \in Exchanges : ex[e].at = l /\ ex[e].run \in {"queued", "running"}}

Drained(l) == lst[l].state = "closed" /\ lst[l].cleanups = << >>

\* Mutant of CleanupSettles: it does not wait for the handlers.
CleanupSettlesAtOnce(l) ==
    /\ lst[l].cleanups # << >>
    /\ lst' = [lst EXCEPT
         ![l].cleanups = << >>,
         ![l].serve = IF @ = "pending"
                      THEN IF Head(lst[l].cleanups) = "clean" THEN "resolved" ELSE "rejected"
                      ELSE @]
    /\ UNCHANGED <<bound, cl, ex, live, owned>>

\* Mutant of CleanupSettles: serve is left pending.
CleanupForgetsServe(l) ==
    /\ lst[l].cleanups # << >>
    /\ HandlersOf(l) = {}
    /\ lst' = [lst EXCEPT ![l].cleanups = << >>]
    /\ UNCHANGED <<bound, cl, ex, live, owned>>

\* settleTerminal, when Promise.all of the handlers resolves: the first cleanup
\* decides how serve settles.
CleanupSettles(l) ==
    /\ lst[l].cleanups # << >>
    /\ HandlersOf(l) = {}
    /\ lst' = [lst EXCEPT
         ![l].cleanups = << >>,
         ![l].serve = IF @ = "pending"
                      THEN IF Head(lst[l].cleanups) = "clean" THEN "resolved" ELSE "rejected"
                      ELSE @]
    /\ UNCHANGED <<bound, cl, ex, live, owned>>

\* listener.serve, admitted once and only on an open listener.
Serve(l) ==
    /\ lst[l].state = "open"
    /\ lst[l].serve = "none"
    /\ lst' = [lst EXCEPT ![l].serve = "pending"]
    /\ UNCHANGED <<bound, cl, ex, live, owned>>

\* The serve context is cancelled while its abort listener is registered.
ServeContextDone(l) ==
    /\ lst[l].serve = "pending"
    /\ \E again \in {"none", "clean"} : StartCleanup(l, "error", again)

\* failMemoryListener, before or during serve.
FailMemoryListener(l) ==
    \E again \in {"none", "clean"} : StartCleanup(l, "error", again)

\* listener.close by the application.
CloseListener(l) ==
    \E again \in {"none", "clean"} : StartCleanup(l, "clean", again)

RawStep(l) ==
    \/ Listen(l)
    \/ Serve(l)
    \/ ServeContextDone(l)
    \/ CloseListener(l)

ExchangeStep(e) ==
    \/ \E c \in Clients, aborted \in BOOLEAN : Fetch(c, e, aborted)
    \/ Invoke(e)
    \/ \E o \in IF ex[e].at \in Raw THEN Outcomes ELSE {"body", "noBody"} : HandlerSettles(e, o)
    \/ BodyEnds(e)
    \/ CallerAborts(e)
    \/ FetchSettles(e)

TransportNext ==
    \/ \E l \in Raw : RawStep(l)
    \/ \E l \in Listeners : FailMemoryListener(l) \/ CleanupSettles(l)
    \/ \E c \in Clients : Dial(c) \/ CloseClient(c)
    \/ \E e \in Exchanges : ExchangeStep(e)
=============================================================================
