---------------------------- MODULE ServerProofs ----------------------------
(***************************************************************************)
(* Proofs about Server over MemoryTransport, for any sets of listeners,    *)
(* servers, clients and stops and any number of fetches.                   *)
(***************************************************************************)
EXTENDS Server, TLAPS

Settled == {"resolved", "rejected"}

\* An exchange that no fetch has taken has no place yet, one that was taken
\* has a listener and a client.
ExchangeInv ==
    \A e \in Exchanges :
        /\ ex[e].fetch = "none" <=> ex[e].at = None
        /\ ex[e].at = None => ex[e].run = "none"
        /\ ex[e].at # None => ex[e].by # None

ClientInv ==
    \A c \in Clients : cl[c].admitting => ~cl[c].terminated /\ cl[c].to # None

\* A cleanup begins with the close of its listener and ends with serve settled
\* and every handler done.
ListenerInv ==
    \A l \in Listeners :
        /\ bound = l => lst[l].state = "open"
        /\ lst[l].cleanups # << >> => lst[l].state = "closed"
        /\ lst[l].state = "new" => lst[l].serve = "none"
        /\ lst[l].serve \in Settled => Drained(l)
        /\ Drained(l) => lst[l].serve # "pending" /\ HandlersOf(l) = {}

\* The bind, the serve of start and the shared close of a server follow its
\* listener.
ServerOk(s) ==
    /\ srv[s].binding \in {"listened", "captured"} => lst[s].state # "new"
    /\ \/ lst[s].serve = "none"
       \/ srv[s].start = "serving"
       \/ srv[s].start \in {"returned", "failed"} /\ lst[s].serve \in Settled
    /\ srv[s].closing \in {"closing", "done"} =>
          srv[s].binding = "captured" /\ lst[s].state = "closed"
    /\ srv[s].closing = "done" => Drained(s) /\ ~srv[s].listener

ServerInv == \A s \in Servers : ServerOk(s)

StopInv ==
    \A k \in Stops :
        /\ stops[k].state # "idle" => stops[k].server \in Servers
        /\ stops[k].state = "done" => srv[stops[k].server].closing = "done"

IInv ==
    /\ TypeOK
    /\ ExchangeInv
    /\ ClientInv
    /\ NoExchangeLeaks
    /\ ListenerInv
    /\ ServerInv
    /\ StopInv

\* newMemoryTransport and newServer.
LEMMA InitIInv == Init => IInv
  <1> SUFFICES ASSUME Init PROVE IInv
    OBVIOUS
  <1> USE TransportConstants DEF Init, TransportInit, FreshListener, FreshClient, FreshExchange, FreshServer
  <1>1. TypeOK
    BY DEF TypeOK, ListenerRecord, ClientRecord, ExchangeRecord, ServerRecord, StopRecord
  <1>2. ExchangeInv /\ ClientInv /\ NoExchangeLeaks
    BY DEF ExchangeInv, ClientInv, NoExchangeLeaks
  <1>3. ListenerInv
    BY DEF ListenerInv, Drained, Settled
  <1>4. ServerInv /\ StopInv
    BY DEF ServerInv, ServerOk, StopInv, Servers
  <1> QED
    BY <1>1, <1>2, <1>3, <1>4 DEF IInv

-----------------------------------------------------------------------------
(* Types *)

\* The updates of an exchange keep its type.
LEMMA ExchangeTypes ==
    ASSUME NEW r \in ExchangeRecord
    PROVE  /\ Finished(r) \in ExchangeRecord
           /\ Failed(r) \in ExchangeRecord
           /\ \A v \in {"none", "queued", "running", "done"} : [r EXCEPT !.run = v] \in ExchangeRecord
           /\ \A v \in {"none", "open", "over"} : [r EXCEPT !.body = v] \in ExchangeRecord
           /\ \A v \in {"none", "waiting", "returned", "failed"} : [r EXCEPT !.fetch = v] \in ExchangeRecord
           /\ [r EXCEPT !.settled = TRUE] \in ExchangeRecord
           /\ [r EXCEPT !.settled = TRUE, !.response = "resolved"] \in ExchangeRecord
  <1>1. Finished(r) \in ExchangeRecord
    BY DEF Finished, ExchangeRecord
  <1>2. Failed(r) \in ExchangeRecord
    <2>1. PICK f : f = Finished(r) /\ f \in ExchangeRecord
      BY <1>1
    <2>2. PICK b, p : /\ b = (IF r.body = "open" THEN "over" ELSE r.body)
                      /\ p = (IF r.settled THEN r.response ELSE "rejected")
      OBVIOUS
    <2>3. b \in {"none", "open", "over"} /\ p \in {"none", "pending", "resolved", "rejected"}
      BY <2>2 DEF ExchangeRecord
    <2>4. f \in ExchangeRecord
      BY <2>1
    <2>5. PICK g : g = [f EXCEPT !.body = b]
      OBVIOUS
    <2>6. g \in ExchangeRecord
      BY <2>3, <2>4, <2>5 DEF ExchangeRecord
    <2>7. PICK h : h = [g EXCEPT !.settled = TRUE]
      OBVIOUS
    <2>8. h \in ExchangeRecord
      BY <2>6, <2>7 DEF ExchangeRecord
    <2>9. [h EXCEPT !.response = p] \in ExchangeRecord
      BY <2>3, <2>8 DEF ExchangeRecord
    <2>10. Failed(r) = [f EXCEPT !.body = b, !.settled = TRUE, !.response = p]
      BY <2>1, <2>2 DEF Failed
    <2>11. Failed(r) = [h EXCEPT !.response = p]
      BY <2>5, <2>7, <2>10
    <2> QED
      BY <2>9, <2>11
  <1>3. \A v \in {"none", "queued", "running", "done"} : [r EXCEPT !.run = v] \in ExchangeRecord
    BY DEF ExchangeRecord
  <1>4. \A v \in {"none", "open", "over"} : [r EXCEPT !.body = v] \in ExchangeRecord
    BY DEF ExchangeRecord
  <1>5. \A v \in {"none", "waiting", "returned", "failed"} : [r EXCEPT !.fetch = v] \in ExchangeRecord
    BY DEF ExchangeRecord
  <1>6. /\ [r EXCEPT !.settled = TRUE] \in ExchangeRecord
        /\ [r EXCEPT !.settled = TRUE, !.response = "resolved"] \in ExchangeRecord
    BY DEF ExchangeRecord
  <1> QED
    BY <1>1, <1>2, <1>3, <1>4, <1>5, <1>6

\* exchange.fail keeps the types.
LEMMA FailTypes ==
    ASSUME TypeOK, NEW es, Fail(es)
    PROVE  /\ ex' \in [Exchanges -> ExchangeRecord]
           /\ live' \subseteq Exchanges
           /\ owned' \subseteq Exchanges
  <1>1. \A e \in Exchanges : Failed(ex[e]) \in ExchangeRecord
    BY ExchangeTypes DEF TypeOK
  <1> QED
    BY <1>1 DEF TypeOK, Fail, Finish

\* startCleanup keeps the types of the listeners and of the exchanges.
LEMMA CleanupTypes ==
    ASSUME TypeOK, NEW l \in Listeners, NEW p \in Primary, NEW again \in {"none", "clean"},
           StartCleanup(l, p, again)
    PROVE  /\ bound' \in Listeners \cup {None}
           /\ lst' \in [Listeners -> ListenerRecord]
           /\ cl' \in [Clients -> ClientRecord]
           /\ ex' \in [Exchanges -> ExchangeRecord]
           /\ live' \subseteq Exchanges
           /\ owned' \subseteq Exchanges
  <1>1. PICK es : Fail(es)
    BY DEF StartCleanup
  <1> DEFINE q == (IF again = "none" THEN << >> ELSE <<again>>) \o <<p>>
  <1>2. q \in Seq(Primary)
    <2>1. CASE again = "none"
      <3>1. q = << >> \o <<p>>
        BY <2>1
      <3> QED
        BY <3>1
    <2>2. CASE again = "clean"
      <3>1. "clean" \in Primary
        BY DEF Primary
      <3>2. <<"clean">> \o <<p>> \in Seq(Primary)
        BY <3>1
      <3>3. q = <<"clean">> \o <<p>>
        BY <2>2
      <3> QED
        BY <3>2, <3>3
    <2> QED
      BY <2>1, <2>2
  <1>3. lst' \in [Listeners -> ListenerRecord]
    <2> HIDE DEF q
    <2>1. lst' = [lst EXCEPT ![l].state = "closed", ![l].cleanups = q]
      BY DEF StartCleanup, q
    <2> QED
      BY <1>2, <2>1 DEF TypeOK, ListenerRecord
  <1>4. bound' \in Listeners \cup {None}
    BY DEF StartCleanup, ReleaseAddress, TypeOK
  <1>5. cl' \in [Clients -> ClientRecord]
    BY DEF StartCleanup, TypeOK
  <1> QED
    BY <1>1, <1>3, <1>4, <1>5, FailTypes

\* The transport's steps keep the types of its variables.
LEMMA TransportTypes ==
    ASSUME TypeOK, TransportNext
    PROVE  /\ bound' \in Listeners \cup {None}
           /\ lst' \in [Listeners -> ListenerRecord]
           /\ cl' \in [Clients -> ClientRecord]
           /\ ex' \in [Exchanges -> ExchangeRecord]
           /\ live' \subseteq Exchanges
           /\ owned' \subseteq Exchanges
  <1> USE TransportConstants
  <1> DEFINE Typed == /\ bound' \in Listeners \cup {None}
                      /\ lst' \in [Listeners -> ListenerRecord]
                      /\ cl' \in [Clients -> ClientRecord]
                      /\ ex' \in [Exchanges -> ExchangeRecord]
                      /\ live' \subseteq Exchanges
                      /\ owned' \subseteq Exchanges
  <1>0. "clean" \in Primary /\ "error" \in Primary
    BY DEF Primary
  <1>1. ASSUME NEW l \in Listeners, Listen(l) PROVE Typed
    BY <1>1 DEF Listen, TypeOK, ListenerRecord
  <1>2. ASSUME NEW l \in Listeners, Serve(l) PROVE Typed
    BY <1>2 DEF Serve, TypeOK, ListenerRecord
  <1>3. ASSUME NEW l \in Listeners, ServeContextDone(l) \/ FailMemoryListener(l) \/ CloseListener(l)
        PROVE  Typed
    BY <1>0, <1>3, CleanupTypes DEF ServeContextDone, FailMemoryListener, CloseListener
  <1>4. ASSUME NEW l \in Listeners, CleanupSettles(l) PROVE Typed
    <2>1. PICK v \in {"none", "pending", "resolved", "rejected"} :
             lst' = [lst EXCEPT ![l].cleanups = << >>, ![l].serve = v]
      BY <1>4 DEF CleanupSettles, TypeOK, ListenerRecord
    <2>2. << >> \in Seq(Primary)
      OBVIOUS
    <2>3. lst' \in [Listeners -> ListenerRecord]
      <3>1. PICK q : q = lst[l] /\ q \in ListenerRecord
        BY DEF TypeOK
      <3>2. q \in ListenerRecord
        BY <3>1
      <3>3. PICK x : x = [q EXCEPT !.cleanups = << >>, !.serve = v]
        OBVIOUS
      <3>4. x \in ListenerRecord
        BY <2>2, <3>2, <3>3 DEF ListenerRecord
      <3>5. lst' = [lst EXCEPT ![l] = x]
        BY <2>1, <3>1, <3>3 DEF TypeOK
      <3> QED
        BY <3>4, <3>5 DEF TypeOK
    <2> QED
      BY <1>4, <2>3 DEF CleanupSettles, TypeOK
  <1>5. ASSUME NEW c \in Clients, Dial(c) PROVE Typed
    BY <1>5 DEF Dial, TypeOK, ClientRecord
  <1>6. ASSUME NEW c \in Clients, CloseClient(c) PROVE Typed
    <2>1. cl' \in [Clients -> ClientRecord]
      BY <1>6 DEF CloseClient, TypeOK, ClientRecord
    <2> QED
      BY <1>6, <2>1, FailTypes DEF CloseClient, TypeOK
  <1>7. ASSUME NEW e \in Exchanges, NEW c \in Clients, NEW aborted \in BOOLEAN, Fetch(c, e, aborted)
        PROVE  Typed
    <2>1. Dispatched(c) \in ExchangeRecord
      BY DEF Dispatched, FreshExchange, ExchangeRecord, TypeOK, ClientRecord
    <2>2. RejectedExchange(c) \in ExchangeRecord
      BY <2>1, ExchangeTypes DEF RejectedExchange
    <2> QED
      BY <1>7, <2>1, <2>2 DEF Fetch, TypeOK
  <1>8. ASSUME NEW e \in Exchanges, Invoke(e) PROVE Typed
    <2>1. ex' = [ex EXCEPT ![e] = [ex[e] EXCEPT !.run = "done"]] \/ ex' = [ex EXCEPT ![e] = [ex[e] EXCEPT !.run = "running"]]
      BY <1>8 DEF Invoke
    <2> QED
      BY <1>8, <2>1, ExchangeTypes DEF Invoke, TypeOK
  <1>9. ASSUME NEW e \in Exchanges, NEW o, HandlerSettles(e, o) PROVE Typed
    <2> DEFINE done == [ex[e] EXCEPT !.run = "done"]
               published == [done EXCEPT !.settled = TRUE, !.response = "resolved"]
    <2>1. done \in ExchangeRecord
      BY ExchangeTypes DEF TypeOK
    <2> HIDE DEF done
    <2>2. published \in ExchangeRecord
      BY <2>1, ExchangeTypes
    <2> HIDE DEF published
    <2>3. /\ [published EXCEPT !.body = "open"] \in ExchangeRecord
          /\ Finished(published) \in ExchangeRecord
          /\ Failed(done) \in ExchangeRecord
          /\ [done EXCEPT !.settled = TRUE] \in ExchangeRecord
      BY <2>1, <2>2, ExchangeTypes
    <2>4. \E r \in ExchangeRecord : ex' = [ex EXCEPT ![e] = r]
      BY <1>9, <2>1, <2>3 DEF HandlerSettles, done, published
    <2> QED
      BY <1>9, <2>4 DEF HandlerSettles, Finish, TypeOK
  <1>10. ASSUME NEW e \in Exchanges, BodyEnds(e) PROVE Typed
    <2>1. [Finished(ex[e]) EXCEPT !.body = "over"] \in ExchangeRecord
      BY ExchangeTypes DEF TypeOK
    <2> QED
      BY <1>10, <2>1 DEF BodyEnds, Finish, TypeOK
  <1>11. ASSUME NEW e \in Exchanges, CallerAborts(e) PROVE Typed
    BY <1>11, FailTypes DEF CallerAborts, TypeOK
  <1>12. ASSUME NEW e \in Exchanges, FetchSettles(e) PROVE Typed
    <2>1. [Failed(ex[e]) EXCEPT !.fetch = "failed"] \in ExchangeRecord /\ [ex[e] EXCEPT !.fetch = "returned"] \in ExchangeRecord
      BY ExchangeTypes DEF TypeOK
    <2>2. \E r \in ExchangeRecord : ex' = [ex EXCEPT ![e] = r]
      BY <1>12, <2>1 DEF FetchSettles
    <2>3. cl' \in [Clients -> ClientRecord]
      <3>1. PICK v \in BOOLEAN : cl' = [cl EXCEPT ![ex[e].by].admitting = v]
        BY <1>12 DEF FetchSettles
      <3> QED
        BY <3>1 DEF TypeOK, ClientRecord
    <2> QED
      BY <1>12, <2>2, <2>3 DEF FetchSettles, Finish, TypeOK
  <1> QED
    BY <1>1, <1>2, <1>3, <1>4, <1>5, <1>6, <1>7, <1>8, <1>9, <1>10, <1>11, <1>12
    DEF TransportNext, RawStep, ExchangeStep

\* Every step keeps the types.
LEMMA TypesNext == ASSUME TypeOK, [Next]_vars PROVE TypeOK'
  <1> USE TransportConstants, ServerConstants
  <1> DEFINE Sent == /\ bound' \in Listeners \cup {None}
                        /\ lst' \in [Listeners -> ListenerRecord]
                        /\ cl' \in [Clients -> ClientRecord]
                        /\ ex' \in [Exchanges -> ExchangeRecord]
                        /\ live' \subseteq Exchanges
                        /\ owned' \subseteq Exchanges
  <1>a. ASSUME UNCHANGED transportVars PROVE Sent
    BY <1>a DEF transportVars, TypeOK
  <1>b. ASSUME NEW s \in Servers, Listen(s) \/ Serve(s) PROVE Sent
    <2>1. lst' \in [Listeners -> ListenerRecord]
      <3>1. s \in Listeners
        BY DEF Servers
      <3>2. CASE Listen(s)
        BY <3>1, <3>2 DEF Listen, TypeOK, ListenerRecord
      <3>3. CASE Serve(s)
        BY <3>1, <3>3 DEF Serve, TypeOK, ListenerRecord
      <3> QED
        BY <1>b, <3>2, <3>3
    <2> QED
      BY <1>b, <2>1 DEF Listen, Serve, Servers, TypeOK
  <1>c. ASSUME NEW s \in Servers, ServeContextDone(s) \/ CloseListener(s) PROVE Sent
    BY <1>c, CleanupTypes DEF ServeContextDone, CloseListener, Servers, Primary
  <1>d. ASSUME NEW s \in Servers, NEW r \in ServerRecord, Bind(s, r)
        PROVE  Sent /\ srv' \in [Servers -> ServerRecord]
    <2>1. Sent
      BY <1>a, <1>b, <1>d DEF Bind
    <2>2. [r EXCEPT !.binding = "listened"] \in ServerRecord /\ [r EXCEPT !.binding = "failed"] \in ServerRecord
      BY DEF ServerRecord
    <2>3. \E x \in ServerRecord : srv' = [srv EXCEPT ![s] = x]
      BY <1>d, <2>2 DEF Bind
    <2> QED
      BY <2>1, <2>3 DEF TypeOK
  <1>e. ASSUME NEW s \in Servers
        PROVE  LET r == [srv[s] EXCEPT !.sealed = Sealed(srv[s])]
               IN  r \in ServerRecord /\ \A v \in {"binding", "failed"} : [r EXCEPT !.start = v] \in ServerRecord
    <2>1. Sealed(srv[s]) \in {"open", "dispatcher", "failed"}
      BY DEF Sealed, ServerRecord, TypeOK
    <2>2. PICK v : v = Sealed(srv[s]) /\ v \in {"open", "dispatcher", "failed"}
      BY <2>1
    <2>3. v \in {"open", "dispatcher", "failed"} /\ srv[s] \in ServerRecord
      BY <2>2 DEF TypeOK
    <2>4. PICK r : r = [srv[s] EXCEPT !.sealed = v]
      OBVIOUS
    <2>5. r \in ServerRecord
      BY <2>3, <2>4 DEF ServerRecord
    <2>6. \A x \in {"binding", "failed"} : [r EXCEPT !.start = x] \in ServerRecord
      BY <2>5 DEF ServerRecord
    <2> QED
      BY <2>2, <2>4, <2>5, <2>6
  <1>1. ASSUME NEW s \in Servers, NEW batch \in SUBSET Routes, RegisterHandlers(s, batch) PROVE TypeOK'
    BY <1>1, <1>a DEF RegisterHandlers, TypeOK, ServerRecord
  <1>2. ASSUME NEW s \in Servers, Endpoint(s) PROVE TypeOK'
    <2>1. PICK r : r = [srv[s] EXCEPT !.sealed = Sealed(srv[s])] /\ r \in ServerRecord
      BY <1>e
    <2>2. UNCHANGED stops
      BY <1>2 DEF Endpoint
    <2>3. Bind(s, r) \/ (srv' = [srv EXCEPT ![s] = r] /\ UNCHANGED transportVars)
      BY <1>2, <2>1 DEF Endpoint
    <2>4. r \in ServerRecord
      BY <2>1
    <2>5. Sent /\ srv' \in [Servers -> ServerRecord]
      <3>1. CASE Bind(s, r)
        BY <1>d, <2>4, <3>1
      <3>2. CASE srv' = [srv EXCEPT ![s] = r] /\ UNCHANGED transportVars
        BY <1>a, <2>4, <3>2 DEF TypeOK
      <3> QED
        BY <2>3, <3>1, <3>2
    <2> QED
      BY <2>2, <2>5 DEF TypeOK
  <1>3. ASSUME NEW s \in Servers, Start(s) PROVE TypeOK'
    <2> DEFINE r == [srv[s] EXCEPT !.sealed = Sealed(srv[s])]
    <2>1. r \in ServerRecord /\ [r EXCEPT !.start = "binding"] \in ServerRecord /\ [r EXCEPT !.start = "failed"] \in ServerRecord
      BY <1>e
    <2>2. \/ Bind(s, [r EXCEPT !.start = "binding"])
          \/ UNCHANGED transportVars /\ srv' = [srv EXCEPT ![s] = r]
          \/ UNCHANGED transportVars /\ srv' = [srv EXCEPT ![s] = [r EXCEPT !.start = "failed"]]
      BY <1>3 DEF Start
    <2>3. UNCHANGED stops
      BY <1>3 DEF Start
    <2> HIDE DEF r
    <2>4. PICK b, f : /\ b = [r EXCEPT !.start = "binding"] /\ f = [r EXCEPT !.start = "failed"]
                      /\ b \in ServerRecord /\ f \in ServerRecord
      BY <2>1
    <2>5. Sent /\ srv' \in [Servers -> ServerRecord]
      <3>1. r \in ServerRecord /\ b \in ServerRecord /\ f \in ServerRecord
        BY <2>1, <2>4
      <3>2. CASE Bind(s, b)
        BY <1>d, <3>1, <3>2
      <3>3. ASSUME NEW x \in {r, f}, UNCHANGED transportVars, srv' = [srv EXCEPT ![s] = x]
            PROVE  Sent /\ srv' \in [Servers -> ServerRecord]
        BY <1>a, <3>1, <3>3 DEF TypeOK
      <3> QED
        BY <2>2, <2>4, <3>2, <3>3
    <2> QED
      BY <2>3, <2>5 DEF TypeOK
  <1>4. ASSUME NEW s \in Servers, CaptureListener(s) PROVE TypeOK'
    <2>1. srv' \in [Servers -> ServerRecord]
      <3>1. [srv[s] EXCEPT !.binding = "captured", !.listener = TRUE] \in ServerRecord
        <4>1. PICK q : q = srv[s] /\ q \in ServerRecord
          BY DEF TypeOK
        <4>2. q \in ServerRecord
          BY <4>1
        <4>3. [q EXCEPT !.binding = "captured", !.listener = TRUE] \in ServerRecord
          BY <4>2 DEF ServerRecord
        <4> QED
          BY <4>1, <4>3
      <3>2. srv' = [srv EXCEPT ![s] = [srv[s] EXCEPT !.binding = "captured", !.listener = TRUE]]
        BY <1>4 DEF CaptureListener
      <3> QED
        BY <3>1, <3>2 DEF TypeOK
    <2> QED
      BY <1>4, <1>a, <2>1 DEF CaptureListener, TypeOK
  <1>5. ASSUME NEW s \in Servers, StartResumes(s) PROVE TypeOK'
    <2>1. srv' \in [Servers -> ServerRecord]
      BY <1>5 DEF StartResumes, TypeOK, ServerRecord
    <2> QED
      BY <1>5, <1>a, <1>b, <2>1 DEF StartResumes, TypeOK
  <1>6. ASSUME NEW s \in Servers, StartGivesUp(s) PROVE TypeOK'
    <2>1. srv' \in [Servers -> ServerRecord]
      BY <1>6 DEF StartGivesUp, TypeOK, ServerRecord
    <2> QED
      BY <1>6, <1>a, <2>1 DEF StartGivesUp, TypeOK
  <1>7. ASSUME NEW s \in Servers, StartSettles(s) PROVE TypeOK'
    <2>1. srv' \in [Servers -> ServerRecord]
      BY <1>7 DEF StartSettles, TypeOK, ServerRecord
    <2> QED
      BY <1>7, <1>a, <2>1 DEF StartSettles, TypeOK
  <1>8. ASSUME NEW s \in Servers, StartContextDone(s) PROVE TypeOK'
    BY <1>8, <1>c DEF StartContextDone, serverVars, TypeOK
  <1>9. ASSUME NEW s \in Servers, NEW k \in Stops, Stop(k, s) PROVE TypeOK'
    <2>1. srv' \in [Servers -> ServerRecord]
      BY <1>9 DEF Stop, TypeOK, ServerRecord
    <2>2. stops' \in [Stops -> StopRecord]
      BY <1>9 DEF Stop, TypeOK, StopRecord
    <2> QED
      BY <1>9, <1>a, <2>1, <2>2 DEF Stop, TypeOK
  <1>10. ASSUME NEW s \in Servers, CloseBegins(s) PROVE TypeOK'
    <2>1. srv' \in [Servers -> ServerRecord]
      <3>1. PICK v \in {"closing", "failed"} : srv' = [srv EXCEPT ![s].closing = v]
        BY <1>10 DEF CloseBegins
      <3> QED
        BY <3>1 DEF TypeOK, ServerRecord
    <2> QED
      BY <1>10, <1>a, <1>c, <2>1 DEF CloseBegins, TypeOK
  <1>11. ASSUME NEW s \in Servers, CloseSettles(s) PROVE TypeOK'
    <2>1. srv' \in [Servers -> ServerRecord]
      <3>1. [srv[s] EXCEPT !.closing = "done", !.listener = FALSE] \in ServerRecord
        <4>1. PICK q : q = srv[s] /\ q \in ServerRecord
          BY DEF TypeOK
        <4>2. q \in ServerRecord
          BY <4>1
        <4>3. [q EXCEPT !.closing = "done", !.listener = FALSE] \in ServerRecord
          BY <4>2 DEF ServerRecord
        <4> QED
          BY <4>1, <4>3
      <3>2. srv' = [srv EXCEPT ![s] = [srv[s] EXCEPT !.closing = "done", !.listener = FALSE]]
        BY <1>11 DEF CloseSettles
      <3> QED
        BY <3>1, <3>2 DEF TypeOK
    <2> QED
      BY <1>11, <1>a, <2>1 DEF CloseSettles, TypeOK
  <1>12. ASSUME NEW k \in Stops, StopSettles(k) PROVE TypeOK'
    <2>1. stops' \in [Stops -> StopRecord]
      BY <1>12 DEF StopSettles, TypeOK, StopRecord
    <2> QED
      BY <1>12, <1>a, <2>1 DEF StopSettles, TypeOK
  <1>13. CASE TransportNext /\ UNCHANGED serverVars
    BY <1>13, TransportTypes DEF serverVars, TypeOK
  <1>14. CASE UNCHANGED vars
    BY <1>14 DEF vars, TypeOK
  <1> QED
    BY <1>1, <1>2, <1>3, <1>4, <1>5, <1>6, <1>7, <1>8, <1>9, <1>10, <1>11, <1>12, <1>13, <1>14
    DEF Next, ServerStep

-----------------------------------------------------------------------------
(* Exchanges and their owner sets *)

\* What exchange.fail does to the exchanges of es: they leave both sets, and
\* only finished, settled, response and body change.
LEMMA FailEffect ==
    ASSUME TypeOK, NEW es, Fail(es)
    PROVE  /\ live' = live \ es /\ owned' = owned \ es
           /\ \A e \in Exchanges : e \notin es => ex'[e] = ex[e]
           /\ \A e \in Exchanges : e \in es => ex'[e].finished
           /\ \A e \in Exchanges : /\ ex'[e].at = ex[e].at
                                   /\ ex'[e].by = ex[e].by
                                   /\ ex'[e].run = ex[e].run
                                   /\ ex'[e].fetch = ex[e].fetch
  <1>1. ASSUME NEW r \in ExchangeRecord
        PROVE  /\ Failed(r).finished /\ Failed(r).at = r.at /\ Failed(r).by = r.by
               /\ Failed(r).run = r.run /\ Failed(r).fetch = r.fetch
    BY DEF ExchangeRecord, Failed, Finished
  <1>2. \A e \in Exchanges : ex'[e] = (IF e \in es THEN Failed(ex[e]) ELSE ex[e])
    BY DEF Fail
  <1>3. \A e \in Exchanges : ex[e] \in ExchangeRecord
    BY DEF TypeOK
  <1> QED
    BY <1>1, <1>2, <1>3 DEF Fail, Finish

\* What a settlement leaves alone.
LEMMA EndFields ==
    ASSUME NEW r \in ExchangeRecord, NEW x,
           \/ x = Finished(r)
           \/ x = Failed(r)
           \/ x = [r EXCEPT !.settled = TRUE]
           \/ x = [r EXCEPT !.settled = TRUE, !.response = "resolved"]
           \/ x = [r EXCEPT !.body = "open"]
    PROVE  /\ x.at = r.at /\ x.by = r.by /\ x.fetch = r.fetch /\ x.run = r.run
           /\ x.finished = r.finished \/ x.finished
  BY DEF ExchangeRecord, Finished, Failed

\* The exchange a fetch starts with, admitted or not.
LEMMA DispatchedFields ==
    ASSUME TypeOK, NEW c \in Clients
    PROVE  /\ Dispatched(c).at = cl[c].to /\ Dispatched(c).by = c
           /\ Dispatched(c).fetch = "waiting" /\ Dispatched(c).run = "queued"
           /\ ~Dispatched(c).finished
           /\ RejectedExchange(c).at = cl[c].to /\ RejectedExchange(c).by = c
           /\ RejectedExchange(c).fetch = "waiting" /\ RejectedExchange(c).run = "none"
           /\ RejectedExchange(c).finished
  BY DEF Dispatched, RejectedExchange, Failed, Finished, FreshExchange

\* An exchange that is under way keeps its place; a handler never goes back,
\* and it ends by a step that takes it from both sets.
LEMMA ProgressEffect ==
    ASSUME TypeOK, NEW e \in Exchanges,
           \/ Invoke(e) \/ (\E o : HandlerSettles(e, o)) \/ BodyEnds(e)
           \/ CallerAborts(e) \/ FetchSettles(e)
    PROVE  /\ UNCHANGED <<bound, lst>>
           /\ \A d \in Exchanges : d # e => ex'[d] = ex[d]
           /\ ex'[e].at = ex[e].at /\ ex'[e].by = ex[e].by
           /\ ex'[e].fetch = "none" <=> ex[e].fetch = "none"
           /\ ex'[e].run \in {"queued", "running"} => ex[e].run \in {"queued", "running"}
           /\ ex'[e].run # "none" => ex[e].run # "none"
           /\ \/ ex'[e].finished = ex[e].finished /\ UNCHANGED <<live, owned>>
              \/ ex'[e].finished /\ live' = live \ {e} /\ owned' = owned \ {e}
           /\ \A c \in Clients : /\ cl'[c].terminated = cl[c].terminated
                                 /\ cl'[c].to = cl[c].to
                                 /\ cl'[c].admitting => cl[c].admitting
  <1> USE DEF TypeOK, ExchangeRecord
  <1>1. CASE Invoke(e)
    BY <1>1 DEF Invoke
  <1>2. ASSUME NEW o, HandlerSettles(e, o)
        PROVE  /\ UNCHANGED <<bound, lst, cl>>
               /\ \A d \in Exchanges : d # e => ex'[d] = ex[d]
               /\ ex'[e].at = ex[e].at /\ ex'[e].by = ex[e].by
               /\ ex'[e].fetch = ex[e].fetch /\ ex'[e].run = "done" /\ ex[e].run = "running"
               /\ \/ ex'[e].finished = ex[e].finished /\ UNCHANGED <<live, owned>>
                  \/ ex'[e].finished /\ live' = live \ {e} /\ owned' = owned \ {e}
    <2> DEFINE done == [ex[e] EXCEPT !.run = "done"]
               pub == [done EXCEPT !.settled = TRUE, !.response = "resolved"]
    <2>1. /\ done.at = ex[e].at /\ done.by = ex[e].by /\ done.fetch = ex[e].fetch
          /\ done.run = "done" /\ done.finished = ex[e].finished
      OBVIOUS
    <2>r. done \in ExchangeRecord
      <3> HIDE DEF ExchangeRecord
      <3> QED
        BY ExchangeTypes
    <2>2. PICK r : /\ ex' = [ex EXCEPT ![e] = r]
                   /\ \/ /\ UNCHANGED <<live, owned>>
                         /\ \/ r = done
                            \/ r = [pub EXCEPT !.body = "open"]
                            \/ r = [done EXCEPT !.settled = TRUE]
                      \/ /\ Finish({e})
                         /\ \/ r = Finished(pub)
                            \/ r = Failed(done)
      BY <1>2 DEF HandlerSettles
    <2> HIDE DEF done, ExchangeRecord
    <2>s. pub \in ExchangeRecord
      BY <2>r, ExchangeTypes
    <2>3. /\ pub.at = done.at /\ pub.by = done.by /\ pub.fetch = done.fetch
          /\ pub.run = done.run /\ pub.finished = done.finished
      BY <2>r DEF ExchangeRecord
    <2> HIDE DEF pub
    <2>4. r.at = ex[e].at /\ r.by = ex[e].by /\ r.fetch = ex[e].fetch /\ r.run = "done"
      <3>1. CASE r \in {done, Failed(done), [done EXCEPT !.settled = TRUE]}
        BY <2>1, <2>r, <3>1, EndFields
      <3>2. CASE r \in {Finished(pub), [pub EXCEPT !.body = "open"]}
        BY <2>1, <2>s, <2>3, <3>2, EndFields
      <3> QED
        BY <2>2, <3>1, <3>2
    <2>5. \/ r.finished = ex[e].finished /\ UNCHANGED <<live, owned>>
          \/ r.finished /\ Finish({e})
      <3>1. Finished(pub).finished /\ Failed(done).finished
        BY <2>r, <2>s DEF Finished, Failed, ExchangeRecord
      <3>2. [pub EXCEPT !.body = "open"].finished = pub.finished /\ [done EXCEPT !.settled = TRUE].finished = done.finished
        BY <2>r, <2>s DEF ExchangeRecord
      <3> QED
        BY <2>1, <2>2, <2>3, <3>1, <3>2
    <2> QED
      BY <1>2, <2>2, <2>4, <2>5 DEF HandlerSettles, Finish
  <1>3. CASE BodyEnds(e)
    BY <1>3 DEF BodyEnds, Finished, Finish
  <1>4. CASE CallerAborts(e)
    BY <1>4, FailEffect DEF CallerAborts
  <1>5. CASE FetchSettles(e)
    <2>1. \A c \in Clients : /\ cl'[c].terminated = cl[c].terminated
                             /\ cl'[c].to = cl[c].to
                             /\ cl'[c].admitting => cl[c].admitting
      BY <1>5 DEF FetchSettles, ClientRecord
    <2>2. CASE ex' = [ex EXCEPT ![e].fetch = "returned"] /\ UNCHANGED <<live, owned>>
      BY <1>5, <2>1, <2>2 DEF FetchSettles
    <2>3. CASE ex' = [ex EXCEPT ![e] = [Failed(ex[e]) EXCEPT !.fetch = "failed"]] /\ Finish({e})
      BY <1>5, <2>1, <2>3 DEF FetchSettles, Failed, Finished, Finish
    <2> QED
      BY <1>5, <2>2, <2>3 DEF FetchSettles
  <1> QED
    BY <1>1, <1>2, <1>3, <1>4, <1>5

\* What a server does to the transport: nothing, or one call on its own listener.
LEMMA ServerStepEffect ==
    ASSUME NEW s \in Servers, ServerStep(s)
    PROVE  /\ s \in Listeners
           /\ \/ UNCHANGED transportVars
              \/ Listen(s)
              \/ Serve(s)
              \/ \E p, again : StartCleanup(s, p, again)
  BY DEF ServerStep, RegisterHandlers, Endpoint, Start, Bind, CaptureListener, StartResumes,
         StartGivesUp, StartSettles, StartContextDone, Stop, CloseBegins, CloseSettles,
         ServeContextDone, CloseListener, Servers

\* Every step keeps the owner sets in step with the exchanges.
LEMMA ExchangesNext ==
    ASSUME TypeOK, ExchangeInv, ClientInv, NoExchangeLeaks, [Next]_vars
    PROVE  ExchangeInv' /\ ClientInv' /\ NoExchangeLeaks'
  <1> USE TransportConstants
  <1> DEFINE Good == ExchangeInv' /\ ClientInv' /\ NoExchangeLeaks'
  <1>0. /\ \A e \in Exchanges : ex[e].at \in Listeners \cup {None} /\ ex[e].by \in Clients \cup {None}
        /\ \A c \in Clients : cl[c].to \in Listeners \cup {None}
    BY DEF TypeOK, ExchangeRecord, ClientRecord
  <1>1. ASSUME UNCHANGED <<cl, ex, live, owned>>,
               \A m \in Listeners : lst[m].state = "open" => lst'[m].state = "open"
        PROVE  Good
    BY <1>0, <1>1 DEF ExchangeInv, ClientInv, NoExchangeLeaks
  <1>2. ASSUME NEW l \in Listeners, Listen(l) PROVE Good
    <2>1. \A m \in Listeners : lst[m].state = "open" => lst'[m].state = "open"
      BY <1>2 DEF Listen, TypeOK, ListenerRecord
    <2> QED
      BY <1>1, <1>2, <2>1 DEF Listen
  <1>3. ASSUME NEW l \in Listeners, Serve(l) PROVE Good
    <2>1. \A m \in Listeners : lst'[m].state = lst[m].state
      BY <1>3 DEF Serve, TypeOK, ListenerRecord
    <2> QED
      BY <1>1, <1>3, <2>1 DEF Serve
  <1>4. ASSUME NEW l \in Listeners, CleanupSettles(l) PROVE Good
    <2>1. \A m \in Listeners : lst'[m].state = lst[m].state
      BY <1>4 DEF CleanupSettles, TypeOK, ListenerRecord
    <2> QED
      BY <1>1, <1>4, <2>1 DEF CleanupSettles
  <1>5. ASSUME NEW l \in Listeners, NEW p, NEW again, StartCleanup(l, p, again) PROVE Good
    <2> DEFINE mine == {e \in live : ex[e].at = l}
    <2>1. Fail(mine) /\ UNCHANGED cl /\ \A m \in Listeners : m # l => lst'[m] = lst[m]
      BY <1>5 DEF StartCleanup, TypeOK
    <2>2. ExchangeInv' /\ ClientInv'
      BY <2>1, FailEffect DEF ExchangeInv, ClientInv
    <2>3. NoExchangeLeaks'
      BY <1>0, <2>1, FailEffect DEF NoExchangeLeaks, ExchangeInv
    <2> QED
      BY <2>2, <2>3
  <1>6. ASSUME NEW c \in Clients, Dial(c) PROVE Good
    <2>1. /\ UNCHANGED <<lst, ex, live, owned>>
          /\ \A d \in Clients : d # c => cl'[d] = cl[d]
          /\ cl'[c].to # None /\ ~cl'[c].terminated
      BY <1>6 DEF Dial, TypeOK
    <2> QED
      BY <1>0, <2>1 DEF ExchangeInv, ClientInv, NoExchangeLeaks
  <1>7. ASSUME NEW c \in Clients, CloseClient(c) PROVE Good
    <2> DEFINE mine == {e \in owned : ex[e].by = c}
    <2>1. /\ Fail(mine) /\ UNCHANGED lst
          /\ \A d \in Clients : d # c => cl'[d] = cl[d]
          /\ ~cl'[c].admitting
      BY <1>7 DEF CloseClient, TypeOK, ClientRecord
    <2>2. ExchangeInv'
      BY <2>1, FailEffect DEF ExchangeInv
    <2>3. ClientInv'
      BY <2>1 DEF ClientInv
    <2>4. NoExchangeLeaks'
      BY <1>0, <2>1, FailEffect DEF NoExchangeLeaks, ExchangeInv
    <2> QED
      BY <2>2, <2>3, <2>4
  <1>8. ASSUME NEW e \in Exchanges, NEW c \in Clients, NEW aborted \in BOOLEAN, Fetch(c, e, aborted)
        PROVE  Good
    <2>1. cl[c].admitting /\ ~cl[c].terminated /\ cl[c].to # None
      BY <1>8 DEF Fetch, ClientInv
    <2>2. ex[e].at = None /\ e \notin live /\ e \notin owned
      BY <1>8 DEF Fetch, ExchangeInv, NoExchangeLeaks
    <2>3. UNCHANGED <<lst, cl>> /\ \A d \in Exchanges : d # e => ex'[d] = ex[d]
      BY <1>8 DEF Fetch, TypeOK
    <2>4. \/ /\ lst[cl[c].to].state = "open" /\ ex'[e] = Dispatched(c)
             /\ live' = live \cup {e} /\ owned' = owned \cup {e}
          \/ ex'[e] = RejectedExchange(c) /\ UNCHANGED <<live, owned>>
      BY <1>8 DEF Fetch, Admits, TypeOK
    <2>5. ex'[e].at = cl[c].to /\ ex'[e].by = c /\ ex'[e].fetch = "waiting"
      BY <2>4, DispatchedFields
    <2>6. ExchangeInv' /\ ClientInv'
      BY <2>1, <2>3, <2>5 DEF ExchangeInv, ClientInv
    <2>7. NoExchangeLeaks'
      BY <1>0, <2>1, <2>2, <2>3, <2>4, <2>5, DispatchedFields DEF NoExchangeLeaks
    <2> QED
      BY <2>6, <2>7
  <1>9. ASSUME NEW e \in Exchanges,
               \/ Invoke(e) \/ (\E o : HandlerSettles(e, o)) \/ BodyEnds(e)
               \/ CallerAborts(e) \/ FetchSettles(e)
        PROVE  Good
    <2>1. ExchangeInv'
      BY <1>9, ProgressEffect DEF ExchangeInv
    <2>2. ClientInv'
      BY <1>9, ProgressEffect DEF ClientInv
    <2>3. NoExchangeLeaks'
      BY <1>0, <1>9, ProgressEffect DEF NoExchangeLeaks, ExchangeInv
    <2> QED
      BY <2>1, <2>2, <2>3
  <1>10. CASE TransportNext
    BY <1>2, <1>3, <1>4, <1>5, <1>6, <1>7, <1>8, <1>9, <1>10
    DEF TransportNext, RawStep, ExchangeStep, ServeContextDone, FailMemoryListener, CloseListener
  <1>11. ASSUME NEW s \in Servers, ServerStep(s) PROVE Good
    BY <1>1, <1>2, <1>3, <1>5, <1>11, ServerStepEffect DEF transportVars
  <1>12. CASE UNCHANGED transportVars
    BY <1>1, <1>12 DEF transportVars
  <1> QED
    BY <1>10, <1>11, <1>12 DEF Next, StopSettles, vars, transportVars

-----------------------------------------------------------------------------
(* Listeners and their handlers *)

\* A closed listener gets no handler: the steps of exchanges add one only to a
\* listener that is open and serves.
LEMMA HandlersNext ==
    ASSUME TypeOK, ExchangeInv, ClientInv, NEW e \in Exchanges, ExchangeStep(e), NEW l \in Listeners
    PROVE  /\ UNCHANGED <<bound, lst>>
           /\ HandlersOf(l)' \subseteq HandlersOf(l) \/ (lst[l].state = "open" /\ lst[l].serve = "pending")
  <1>1. ASSUME NEW c \in Clients, NEW aborted \in BOOLEAN, Fetch(c, e, aborted)
        PROVE  /\ UNCHANGED <<bound, lst>>
               /\ HandlersOf(l)' \subseteq HandlersOf(l) \/ (lst[l].state = "open" /\ lst[l].serve = "pending")
    <2>1. /\ UNCHANGED <<bound, lst>>
          /\ \A d \in Exchanges : d # e => ex'[d] = ex[d]
          /\ (ex'[e] = Dispatched(c) /\ Admits(cl[c].to)) \/ ex'[e] = RejectedExchange(c)
      BY <1>1 DEF Fetch, TypeOK
    <2>2. CASE ex'[e] = RejectedExchange(c)
      BY <2>1, <2>2, DispatchedFields DEF HandlersOf
    <2>3. CASE ex'[e] = Dispatched(c) /\ Admits(cl[c].to)
      BY <2>1, <2>3, DispatchedFields DEF HandlersOf, Admits
    <2> QED
      BY <2>1, <2>2, <2>3
  <1>2. CASE \/ Invoke(e) \/ (\E o : HandlerSettles(e, o)) \/ BodyEnds(e)
             \/ CallerAborts(e) \/ FetchSettles(e)
    BY <1>2, ProgressEffect DEF HandlersOf
  <1> QED
    BY <1>1, <1>2 DEF ExchangeStep

\* startCleanup closes the listener and changes nothing else of the others.
LEMMA CleanupEffect ==
    ASSUME TypeOK, NEW l \in Listeners, NEW p, NEW again, StartCleanup(l, p, again)
    PROVE  /\ bound' = IF bound = l THEN None ELSE bound
           /\ \A m \in Listeners : m # l => lst'[m] = lst[m]
           /\ lst[l].state = "open" /\ lst'[l].state = "closed"
           /\ lst'[l].serve = lst[l].serve /\ lst'[l].cleanups # << >>
           /\ \A m \in Listeners : HandlersOf(m)' = HandlersOf(m)
  <1>1. /\ \A m \in Listeners : m # l => lst'[m] = lst[m]
        /\ lst[l].state = "open" /\ lst'[l].state = "closed" /\ lst'[l].serve = lst[l].serve
    BY DEF StartCleanup, TypeOK, ListenerRecord
  <1>2. lst'[l].cleanups # << >>
    <2>1. PICK q : lst'[l].cleanups = q /\ q = (IF again = "none" THEN << >> ELSE <<again>>) \o <<p>>
      BY DEF StartCleanup, TypeOK, ListenerRecord
    <2>2. CASE again = "none"
      <3>1. q = << >> \o <<p>>
        BY <2>1, <2>2
      <3> QED
        BY <2>1, <3>1
    <2>3. CASE again # "none"
      <3>1. q = <<again>> \o <<p>>
        BY <2>1, <2>3
      <3> QED
        BY <2>1, <3>1
    <2> QED
      BY <2>2, <2>3
  <1>3. \A m \in Listeners : HandlersOf(m)' = HandlersOf(m)
    <2>1. PICK es : Fail(es)
      BY DEF StartCleanup
    <2> QED
      BY <2>1, FailEffect DEF HandlersOf
  <1> QED
    BY <1>1, <1>2, <1>3 DEF StartCleanup, ReleaseAddress

\* The listeners' invariant is kept by every step that a listener's owner, an
\* exchange or a client makes.
LEMMA ListenersNext ==
    ASSUME TypeOK, ExchangeInv, ClientInv, ListenerInv, [Next]_vars
    PROVE  ListenerInv'
  <1> USE TransportConstants DEF Drained
  <1>0. ASSUME UNCHANGED <<bound, lst>>, \A l \in Listeners : HandlersOf(l)' \subseteq HandlersOf(l)
        PROVE  ListenerInv'
    BY <1>0 DEF ListenerInv
  <1>1. ASSUME UNCHANGED transportVars PROVE ListenerInv'
    BY <1>0, <1>1 DEF transportVars, HandlersOf
  <1>2. ASSUME NEW l \in Listeners, Listen(l) PROVE ListenerInv'
    <2>1. /\ bound' = l /\ \A m \in Listeners : m # l => lst'[m] = lst[m]
          /\ lst[l].state = "new" /\ lst'[l].state = "open"
          /\ lst'[l].serve = lst[l].serve /\ lst'[l].cleanups = lst[l].cleanups
          /\ \A m \in Listeners : HandlersOf(m)' = HandlersOf(m)
      BY <1>2 DEF Listen, TypeOK, ListenerRecord, HandlersOf
    <2> QED
      BY <2>1 DEF ListenerInv, Settled
  <1>3. ASSUME NEW l \in Listeners, Serve(l) PROVE ListenerInv'
    <2>1. /\ bound' = bound /\ \A m \in Listeners : m # l => lst'[m] = lst[m]
          /\ lst[l].state = "open" /\ lst'[l].state = "open"
          /\ lst'[l].serve = "pending" /\ lst'[l].cleanups = lst[l].cleanups
          /\ \A m \in Listeners : HandlersOf(m)' = HandlersOf(m)
      BY <1>3 DEF Serve, TypeOK, ListenerRecord, HandlersOf
    <2> QED
      BY <2>1 DEF ListenerInv, Settled
  <1>4. ASSUME NEW l \in Listeners, NEW p, NEW again, StartCleanup(l, p, again) PROVE ListenerInv'
    BY <1>4, CleanupEffect DEF ListenerInv
  <1>5. ASSUME NEW l \in Listeners, CleanupSettles(l) PROVE ListenerInv'
    <2>1. /\ bound' = bound /\ \A m \in Listeners : m # l => lst'[m] = lst[m]
          /\ lst'[l].state = lst[l].state /\ lst'[l].cleanups = << >>
          /\ HandlersOf(l) = {} /\ lst[l].cleanups # << >>
          /\ \A m \in Listeners : HandlersOf(m)' = HandlersOf(m)
      BY <1>5 DEF CleanupSettles, TypeOK, ListenerRecord, HandlersOf
    <2>2. lst'[l].serve # "pending" /\ (lst'[l].serve \in Settled \/ lst'[l].serve = lst[l].serve)
      BY <1>5 DEF CleanupSettles, TypeOK, ListenerRecord, Settled
    <2> QED
      BY <2>1, <2>2 DEF ListenerInv
  <1>6. ASSUME NEW c \in Clients, Dial(c) \/ CloseClient(c) PROVE ListenerInv'
    <2>1. UNCHANGED <<bound, lst>>
      BY <1>6 DEF Dial, CloseClient
    <2>2. \A l \in Listeners : HandlersOf(l)' = HandlersOf(l)
      <3>1. CASE Dial(c)
        BY <3>1 DEF Dial, HandlersOf
      <3>2. CASE CloseClient(c)
        BY <3>2, FailEffect DEF CloseClient, HandlersOf
      <3> QED
        BY <1>6, <3>1, <3>2
    <2> QED
      BY <1>0, <2>1, <2>2
  <1>7. ASSUME NEW e \in Exchanges, ExchangeStep(e) PROVE ListenerInv'
    BY <1>7, HandlersNext DEF ListenerInv
  <1>8. CASE TransportNext
    BY <1>8, <1>2, <1>3, <1>4, <1>5, <1>6, <1>7
    DEF TransportNext, RawStep, ServeContextDone, FailMemoryListener, CloseListener
  <1>9. ASSUME NEW s \in Servers, ServerStep(s) PROVE ListenerInv'
    BY <1>1, <1>2, <1>3, <1>4, <1>9, ServerStepEffect
  <1>10. ASSUME NEW k \in Stops, StopSettles(k) PROVE ListenerInv'
    BY <1>1, <1>10 DEF StopSettles
  <1>11. CASE UNCHANGED vars
    BY <1>1, <1>11 DEF vars, transportVars
  <1> QED
    BY <1>8, <1>9, <1>10, <1>11 DEF Next

-----------------------------------------------------------------------------
(* The server and its stops *)

\* What no step takes back of a server's listener: it leaves "new" once, stays
\* closed, stays drained, and a settled serve stays settled.
LEMMA ListenerForward ==
    ASSUME TypeOK, NEW s \in Servers, TransportNext
    PROVE  /\ lst[s].state # "new" => lst'[s].state # "new"
           /\ lst[s].state = "closed" => lst'[s].state = "closed"
           /\ Drained(s) => Drained(s)'
           /\ lst'[s].serve = lst[s].serve \/ (lst[s].serve = "pending" /\ lst'[s].serve \in Settled)
  <1> USE TransportConstants DEF Drained
  <1>0. s \in Listeners /\ s \notin Raw
    BY DEF Servers
  <1>1. ASSUME NEW l \in Listeners, Listen(l) 
        PROVE  lst'[s] = lst[s] \/ (lst[s].state = "new" /\ lst'[s].serve = lst[s].serve /\ lst'[s].state = "open")
    BY <1>0, <1>1 DEF Listen, TypeOK, ListenerRecord
  <1>2. ASSUME NEW l \in Raw, Serve(l) PROVE lst'[s] = lst[s]
    BY <1>0, <1>2 DEF Serve, TypeOK
  <1>3. ASSUME NEW l \in Listeners, NEW p, NEW again, StartCleanup(l, p, again)
        PROVE  lst'[s] = lst[s] \/ (lst[s].state = "open" /\ lst'[s].serve = lst[s].serve /\ lst'[s].state = "closed")
    BY <1>0, <1>3, CleanupEffect
  <1>4. ASSUME NEW l \in Listeners, CleanupSettles(l)
        PROVE  /\ lst'[s].state = lst[s].state
               /\ lst'[s].cleanups = lst[s].cleanups \/ lst'[s].cleanups = << >>
               /\ lst'[s].serve = lst[s].serve \/ (lst[s].serve = "pending" /\ lst'[s].serve \in Settled)
    BY <1>0, <1>4 DEF CleanupSettles, TypeOK, ListenerRecord, Settled
  <1>5. ASSUME NEW c \in Clients, Dial(c) \/ CloseClient(c) PROVE lst' = lst
    BY <1>5 DEF Dial, CloseClient
  <1>6. ASSUME NEW e \in Exchanges, ExchangeStep(e) PROVE lst' = lst
    BY <1>6 DEF ExchangeStep, Fetch, Invoke, HandlerSettles, BodyEnds, CallerAborts, FetchSettles
  <1> QED
    BY <1>1, <1>2, <1>3, <1>4, <1>5, <1>6
    DEF TransportNext, RawStep, ServeContextDone, FailMemoryListener, CloseListener

\* The server's invariant survives what the transport does to its listener.
LEMMA ServerFrame ==
    ASSUME NEW s \in Servers, ServerOk(s), srv'[s] = srv[s],
           lst[s].state # "new" => lst'[s].state # "new",
           lst[s].state = "closed" => lst'[s].state = "closed",
           Drained(s) => Drained(s)',
           lst'[s].serve = lst[s].serve \/ (lst[s].serve = "pending" /\ lst'[s].serve \in Settled)
    PROVE  ServerOk(s)'
  BY DEF ServerOk, Settled

\* The steps of a server keep its own invariant.
LEMMA ServerStepOk ==
    ASSUME TypeOK, ListenerInv, NEW s \in Servers, ServerOk(s), ServerStep(s)
    PROVE  ServerOk(s)'
  <1> USE DEF Settled
  <1>0. s \in Listeners /\ srv[s] \in ServerRecord /\ lst[s] \in ListenerRecord
    BY DEF Servers, TypeOK
  <1>1. ASSUME srv'[s].binding = srv[s].binding, srv'[s].start = srv[s].start,
               srv'[s].closing = srv[s].closing, srv'[s].listener = srv[s].listener, UNCHANGED transportVars
        PROVE  ServerOk(s)'
    BY <1>1 DEF ServerOk, Drained, transportVars
  <1>2. ASSUME NEW r \in ServerRecord, Bind(s, r),
               r.binding = srv[s].binding, r.closing = srv[s].closing, r.listener = srv[s].listener,
               r.start = srv[s].start \/ (srv[s].start = "idle" /\ r.start = "binding")
        PROVE  ServerOk(s)'
    <2>1. CASE srv' = [srv EXCEPT ![s] = r] /\ UNCHANGED transportVars
      <3>1. srv'[s] = r
        BY <2>1 DEF TypeOK
      <3> QED
        BY <1>2, <2>1, <3>1 DEF ServerOk, Drained, transportVars
    <2>2. CASE r.binding = "none" /\ Listen(s) /\ srv' = [srv EXCEPT ![s] = [r EXCEPT !.binding = "listened"]]
      <3>1. /\ srv'[s].binding = "listened" /\ srv'[s].closing = r.closing
            /\ srv'[s].listener = r.listener /\ srv'[s].start = r.start
        BY <2>2 DEF TypeOK, ServerRecord
      <3>2. lst[s].state = "new" /\ lst'[s].state = "open" /\ lst'[s].serve = lst[s].serve
        BY <1>0, <2>2 DEF Listen, TypeOK, ListenerRecord
      <3> QED
        BY <1>2, <3>1, <3>2 DEF ServerOk, Drained
    <2>3. CASE r.binding = "none" /\ srv' = [srv EXCEPT ![s] = [r EXCEPT !.binding = "failed"]] /\ UNCHANGED transportVars
      <3>1. /\ srv'[s].binding = "failed" /\ srv'[s].closing = r.closing
            /\ srv'[s].listener = r.listener /\ srv'[s].start = r.start
        BY <2>3 DEF TypeOK, ServerRecord
      <3> QED
        BY <1>2, <2>3, <3>1 DEF ServerOk, Drained, transportVars
    <2> QED
      BY <1>2, <2>1, <2>2, <2>3 DEF Bind
  <1> DEFINE sealed == [srv[s] EXCEPT !.sealed = Sealed(srv[s])]
  <1>3. /\ sealed \in ServerRecord /\ [sealed EXCEPT !.start = "binding"] \in ServerRecord
        /\ sealed.binding = srv[s].binding /\ sealed.closing = srv[s].closing
        /\ sealed.listener = srv[s].listener /\ sealed.start = srv[s].start
    <2>1. Sealed(srv[s]) \in {"open", "dispatcher", "failed"}
      BY <1>0 DEF Sealed, ServerRecord
    <2> QED
      BY <1>0, <2>1 DEF ServerRecord
  <1>4. ASSUME NEW batch, RegisterHandlers(s, batch) PROVE ServerOk(s)'
    BY <1>1, <1>4 DEF RegisterHandlers, TypeOK, ServerRecord
  <1>5. CASE Endpoint(s)
    <2> HIDE DEF sealed
    <2>1. Bind(s, sealed) \/ (srv' = [srv EXCEPT ![s] = sealed] /\ UNCHANGED transportVars)
      BY <1>5 DEF Endpoint, sealed
    <2>2. CASE srv' = [srv EXCEPT ![s] = sealed] /\ UNCHANGED transportVars
      <3>1. srv'[s] = sealed
        BY <2>2 DEF TypeOK
      <3> QED
        BY <1>1, <1>3, <2>2, <3>1
    <2> QED
      BY <1>2, <1>3, <2>1, <2>2
  <1>6. CASE Start(s)
    <2>1. \/ srv' = [srv EXCEPT ![s] = sealed] /\ UNCHANGED transportVars
          \/ Bind(s, [sealed EXCEPT !.start = "binding"])
          \/ srv' = [srv EXCEPT ![s] = [sealed EXCEPT !.start = "failed"]] /\ UNCHANGED transportVars
      BY <1>6 DEF Start
    <2>2. srv[s].start = "idle"
      BY <1>6 DEF Start
    <2> HIDE DEF sealed
    <2>3. CASE srv' = [srv EXCEPT ![s] = sealed] /\ UNCHANGED transportVars
      <3>1. srv'[s] = sealed
        BY <2>3 DEF TypeOK
      <3> QED
        BY <1>1, <1>3, <2>3, <3>1
    <2>4. CASE Bind(s, [sealed EXCEPT !.start = "binding"])
      <3> DEFINE r == [sealed EXCEPT !.start = "binding"]
      <3>1. r.binding = srv[s].binding /\ r.closing = srv[s].closing /\ r.listener = srv[s].listener /\ r.start = "binding"
        BY <1>3 DEF ServerRecord
      <3> QED
        BY <1>2, <1>3, <2>2, <2>4, <3>1
    <2>5. CASE srv' = [srv EXCEPT ![s] = [sealed EXCEPT !.start = "failed"]] /\ UNCHANGED transportVars
      <3>1. /\ srv'[s].binding = srv[s].binding /\ srv'[s].closing = srv[s].closing
            /\ srv'[s].listener = srv[s].listener /\ srv'[s].start = "failed"
        BY <1>3, <2>5 DEF TypeOK, ServerRecord
      <3> QED
        BY <2>2, <2>5, <3>1 DEF ServerOk, Drained, transportVars
    <2> QED
      BY <2>1, <2>3, <2>4, <2>5
  <1>7. CASE CaptureListener(s)
    <2>1. /\ srv[s].binding = "listened" /\ srv'[s].binding = "captured" /\ srv'[s].closing = srv[s].closing
          /\ srv'[s].start = srv[s].start
      BY <1>7 DEF CaptureListener, TypeOK, ServerRecord
    <2> QED
      BY <1>7, <2>1 DEF CaptureListener, ServerOk, Drained, transportVars
  <1>8. CASE StartResumes(s)
    <2>1. /\ srv[s].start = "binding" /\ srv'[s].binding = srv[s].binding /\ srv'[s].closing = srv[s].closing
          /\ srv'[s].listener = srv[s].listener \/ ~srv'[s].listener
      BY <1>8 DEF StartResumes, TypeOK, ServerRecord
    <2>2. \/ UNCHANGED transportVars
          \/ Serve(s) /\ srv'[s].start = "serving"
      BY <1>8 DEF StartResumes, TypeOK, ServerRecord
    <2>3. CASE UNCHANGED transportVars
      BY <2>1, <2>3 DEF ServerOk, Drained, transportVars
    <2>4. CASE Serve(s) /\ srv'[s].start = "serving"
      <3>1. lst'[s].state = lst[s].state /\ lst'[s].cleanups = lst[s].cleanups
        BY <1>0, <2>4 DEF Serve, TypeOK, ListenerRecord
      <3> QED
        BY <2>1, <2>4, <3>1 DEF ServerOk, Drained
    <2> QED
      BY <2>2, <2>3, <2>4
  <1>9. CASE StartGivesUp(s)
    <2>1. /\ srv[s].start = "binding" /\ srv'[s].binding = srv[s].binding
          /\ srv'[s].closing = srv[s].closing /\ srv'[s].listener = srv[s].listener
      BY <1>9 DEF StartGivesUp, TypeOK, ServerRecord
    <2> QED
      BY <1>9, <2>1 DEF StartGivesUp, ServerOk, Drained, transportVars
  <1>10. CASE StartSettles(s)
    <2>1. /\ srv[s].start \in {"serving", "joining"} /\ srv'[s].start \in {"returned", "failed"}
          /\ srv[s].start = "serving" => lst[s].serve \in Settled
          /\ srv'[s].binding = srv[s].binding /\ srv'[s].closing = srv[s].closing /\ ~srv'[s].listener
      BY <1>10 DEF StartSettles, TypeOK, ServerRecord
    <2> QED
      BY <1>10, <2>1 DEF StartSettles, ServerOk, Drained, transportVars
  <1>11. CASE StartContextDone(s)
    BY <1>0, <1>11, CleanupEffect DEF StartContextDone, ServeContextDone, serverVars, ServerOk, Drained
  <1>12. ASSUME NEW k \in Stops, Stop(k, s) PROVE ServerOk(s)'
    <2>1. /\ srv'[s].binding = srv[s].binding /\ srv'[s].start = srv[s].start /\ srv'[s].listener = srv[s].listener
          /\ srv'[s].closing = srv[s].closing \/ srv'[s].closing = "pending"
      BY <1>12 DEF Stop, TypeOK, ServerRecord
    <2> QED
      BY <1>12, <2>1 DEF Stop, ServerOk, Drained, transportVars
  <1>13. CASE CloseBegins(s)
    <2>1. srv'[s].binding = srv[s].binding /\ srv'[s].start = srv[s].start /\ srv'[s].listener = srv[s].listener
      BY <1>13 DEF CloseBegins, TypeOK, ServerRecord
    <2>2. CASE srv[s].binding = "captured" /\ srv' = [srv EXCEPT ![s].closing = "closing"]
      <3>1. srv'[s].closing = "closing"
        BY <2>2 DEF TypeOK, ServerRecord
      <3>2. lst[s].state \in {"open", "closed"}
        BY <1>0, <2>2 DEF ServerOk, ListenerRecord
      <3>3. CASE lst[s].state = "open" /\ CloseListener(s)
        BY <1>0, <2>1, <2>2, <3>1, <3>3, CleanupEffect DEF CloseListener, ServerOk, Drained
      <3>4. CASE lst[s].state # "open" /\ UNCHANGED transportVars
        BY <2>1, <2>2, <3>1, <3>2, <3>4 DEF ServerOk, Drained, transportVars
      <3> QED
        BY <1>13, <2>2, <3>3, <3>4 DEF CloseBegins
    <2>3. CASE srv' = [srv EXCEPT ![s].closing = "failed"] /\ UNCHANGED transportVars
      <3>1. srv'[s].closing = "failed"
        BY <2>3 DEF TypeOK, ServerRecord
      <3> QED
        BY <2>1, <2>3, <3>1 DEF ServerOk, Drained, transportVars
    <2> QED
      BY <1>13, <2>2, <2>3 DEF CloseBegins
  <1>14. CASE CloseSettles(s)
    <2>1. /\ srv'[s].binding = srv[s].binding /\ srv'[s].start = srv[s].start /\ ~srv'[s].listener
          /\ srv[s].closing = "closing" /\ srv'[s].closing = "done"
      BY <1>14 DEF CloseSettles, TypeOK, ServerRecord
    <2> QED
      BY <1>14, <2>1 DEF CloseSettles, ServerOk, Drained, transportVars
  <1> QED
    BY <1>4, <1>5, <1>6, <1>7, <1>8, <1>9, <1>10, <1>11, <1>12, <1>13, <1>14 DEF ServerStep

\* A step of one server leaves the others alone.
LEMMA OtherServers ==
    ASSUME TypeOK, NEW s \in Servers, NEW t \in Servers, s # t, ServerStep(t)
    PROVE  srv'[s] = srv[s] /\ lst'[s] = lst[s]
  <1>1. s \in Listeners /\ t \in Listeners
    BY DEF Servers
  <1>2. lst'[s] = lst[s]
    <2>1. CASE UNCHANGED transportVars
      BY <2>1 DEF transportVars
    <2>2. CASE Listen(t) \/ Serve(t)
      BY <1>1, <2>2 DEF Listen, Serve, TypeOK
    <2>3. ASSUME NEW p, NEW again, StartCleanup(t, p, again) PROVE lst'[s] = lst[s]
      BY <1>1, <2>3, CleanupEffect
    <2> QED
      BY <2>1, <2>2, <2>3, ServerStepEffect
  <1>3. srv'[s] = srv[s]
    BY DEF TypeOK, ServerStep, RegisterHandlers, Endpoint, Start, Bind, CaptureListener, StartResumes,
         StartGivesUp, StartSettles, StartContextDone, Stop, CloseBegins, CloseSettles, serverVars
  <1> QED
    BY <1>2, <1>3

\* Every step keeps the servers' invariant.
LEMMA ServersNext ==
    ASSUME TypeOK, ListenerInv, ServerInv, [Next]_vars
    PROVE  ServerInv'
  <1> SUFFICES ASSUME NEW s \in Servers PROVE ServerOk(s)'
    BY DEF ServerInv
  <1>0. ServerOk(s)
    BY DEF ServerInv
  <1>1. ASSUME srv'[s] = srv[s], lst'[s] = lst[s] PROVE ServerOk(s)'
    BY <1>0, <1>1, ServerFrame DEF Drained
  <1>2. ASSUME NEW t \in Servers, ServerStep(t) PROVE ServerOk(s)'
    BY <1>0, <1>1, <1>2, ServerStepOk, OtherServers
  <1>3. ASSUME NEW k \in Stops, StopSettles(k) PROVE ServerOk(s)'
    BY <1>1, <1>3 DEF StopSettles, transportVars
  <1>4. CASE TransportNext /\ UNCHANGED serverVars
    BY <1>0, <1>4, ListenerForward, ServerFrame DEF serverVars
  <1>5. CASE UNCHANGED vars
    BY <1>1, <1>5 DEF vars
  <1> QED
    BY <1>2, <1>3, <1>4, <1>5 DEF Next

\* A close that is done stays done, so a stop that reported it stays right.
LEMMA StopsNext ==
    ASSUME TypeOK, ServerInv, StopInv, [Next]_vars
    PROVE  StopInv'
  <1>1. ASSUME NEW s \in Servers, srv[s].closing = "done" PROVE srv'[s].closing = "done"
    <2>1. ASSUME NEW t \in Servers, ServerStep(t) PROVE srv'[s].closing = "done"
      <3>1. CASE t # s
        BY <1>1, <2>1, <3>1, OtherServers
      <3>2. CASE t = s
        <4> USE DEF TypeOK, ServerRecord
        <4>1. CASE Endpoint(s) \/ Start(s)
          <5>1. srv[s] \in ServerRecord
            BY DEF TypeOK
          <5> HIDE DEF TypeOK
          <5>2. PICK q : q = [srv[s] EXCEPT !.sealed = Sealed(srv[s])]
            OBVIOUS
          <5>3. PICK b, f : /\ b = [q EXCEPT !.start = "binding"]
                            /\ f = [q EXCEPT !.start = "failed"]
            OBVIOUS
          <5>4. /\ q.closing = "done" /\ b.closing = "done" /\ f.closing = "done"
                /\ \A v : /\ [q EXCEPT !.binding = v].closing = "done"
                          /\ [b EXCEPT !.binding = v].closing = "done"
            BY <1>1, <5>1, <5>2, <5>3
          <5> HIDE DEF ServerRecord
          <5>5. Bind(s, q) \/ Bind(s, b) \/ \E r \in {q, f} : srv' = [srv EXCEPT ![s] = r]
            BY <4>1, <5>2, <5>3 DEF Endpoint, Start
          <5>6. ASSUME NEW r, Bind(s, r)
                PROVE  \E x : /\ srv' = [srv EXCEPT ![s] = x]
                              /\ x = r \/ \E v : x = [r EXCEPT !.binding = v]
            BY <5>6 DEF Bind
          <5>7. \E x : srv' = [srv EXCEPT ![s] = x] /\ x.closing = "done"
            <6>1. CASE Bind(s, q)
              <7>1. PICK x : /\ srv' = [srv EXCEPT ![s] = x]
                             /\ x = q \/ \E v : x = [q EXCEPT !.binding = v]
                BY <5>6, <6>1
              <7>2. x.closing = "done"
                BY <5>4, <7>1
              <7> QED
                BY <7>1, <7>2
            <6>2. CASE Bind(s, b)
              <7>1. PICK x : /\ srv' = [srv EXCEPT ![s] = x]
                             /\ x = b \/ \E v : x = [b EXCEPT !.binding = v]
                BY <5>6, <6>2
              <7>2. x.closing = "done"
                BY <5>4, <7>1
              <7> QED
                BY <7>1, <7>2
            <6>3. CASE \E r \in {q, f} : srv' = [srv EXCEPT ![s] = r]
              BY <5>4, <6>3
            <6> QED
              BY <5>5, <6>1, <6>2, <6>3
          <5>8. PICK x : srv' = [srv EXCEPT ![s] = x] /\ x.closing = "done"
            BY <5>7
          <5> QED
            BY <5>8 DEF TypeOK
        <4>2. CASE (\E k \in Stops : Stop(k, s)) \/ CloseBegins(s) \/ CloseSettles(s)
          BY <1>1, <4>2 DEF Stop, CloseBegins, CloseSettles
        <4>3. CASE StartResumes(s) \/ StartGivesUp(s) \/ StartSettles(s) \/ StartContextDone(s)
          BY <1>1, <4>3 DEF StartResumes, StartGivesUp, StartSettles, StartContextDone, serverVars
        <4>4. CASE (\E batch \in SUBSET Routes : RegisterHandlers(s, batch)) \/ CaptureListener(s)
          BY <1>1, <4>4 DEF RegisterHandlers, CaptureListener
        <4> QED
          BY <2>1, <3>2, <4>1, <4>2, <4>3, <4>4 DEF ServerStep
      <3> QED
        BY <3>1, <3>2
    <2> QED
      BY <1>1, <2>1 DEF Next, StopSettles, serverVars, vars
  <1>2. ASSUME UNCHANGED stops PROVE StopInv'
    BY <1>1, <1>2 DEF StopInv
  <1>3. ASSUME NEW s \in Servers, NEW k \in Stops, Stop(k, s) PROVE StopInv'
    <2>1. /\ \A j \in Stops : j # k => stops'[j] = stops[j]
          /\ stops'[k].server = s /\ stops'[k].state \in {"nothing", "waiting"}
      BY <1>3 DEF Stop, TypeOK
    <2> QED
      BY <1>1, <2>1 DEF StopInv
  <1>4. ASSUME NEW k \in Stops, StopSettles(k) PROVE StopInv'
    <2>1. /\ \A j \in Stops : j # k => stops'[j] = stops[j]
          /\ stops[k].state = "waiting" /\ stops'[k].server = stops[k].server
          /\ stops'[k].state = "done" => srv[stops[k].server].closing = "done"
          /\ UNCHANGED srv
      BY <1>4 DEF StopSettles, TypeOK, StopRecord
    <2> QED
      BY <2>1 DEF StopInv
  <1>5. ASSUME NEW s \in Servers, ServerStep(s) PROVE StopInv'
    BY <1>2, <1>3, <1>5
    DEF ServerStep, RegisterHandlers, Endpoint, Start, CaptureListener, StartResumes,
        StartGivesUp, StartSettles, StartContextDone, CloseBegins, CloseSettles, serverVars
  <1> QED
    BY <1>2, <1>4, <1>5 DEF Next, serverVars, vars

-----------------------------------------------------------------------------
(* Theorems *)

\* The invariant holds in every reachable state.
LEMMA Invariance == Spec => []IInv
  <1>1. IInv /\ [Next]_vars => IInv'
    BY TypesNext, ExchangesNext, ListenersNext, ServersNext, StopsNext DEF IInv
  <1> QED
    BY InitIInv, <1>1, PTL DEF Spec

\* Whatever ends an exchange, the listener's live set and the client's owned set
\* hold exactly the exchanges that are under way, and none of a closed listener
\* or a terminated client, for any number of fetches, clients and listeners.
THEOREM NoExchangeLeaksTheorem == Spec => []NoExchangeLeaks
  <1>1. IInv => NoExchangeLeaks
    BY DEF IInv
  <1> QED
    BY <1>1, Invariance, PTL

\* serve and start settle only when every admitted handler has returned.
THEOREM ServeJoinsHandlersTheorem == Spec => []ServeJoinsHandlers
  <1>1. IInv => ServeJoinsHandlers
    BY DEF IInv, ListenerInv, ServerInv, ServerOk, ServeJoinsHandlers, Settled, Servers
  <1> QED
    BY <1>1, Invariance, PTL

\* A stop that reports success leaves a closed listener without address and
\* handlers, and a server that cannot begin to serve.
THEOREM StopMeansStoppedTheorem == Spec => []StopMeansStopped
  <1>1. IInv => StopMeansStopped
    <2> SUFFICES ASSUME IInv, NEW k \in Stops, stops[k].state = "done"
                 PROVE  LET s == stops[k].server
                        IN  /\ lst[s].state = "closed" /\ bound # s
                            /\ HandlersOf(s) = {}
                            /\ srv[s].start = "serving" => lst[s].serve # "pending"
                            /\ ~srv[s].listener
      BY DEF StopMeansStopped
    <2>1. PICK s \in Servers : s = stops[k].server /\ srv[s].closing = "done"
      BY DEF IInv, StopInv
    <2>2. Drained(s) /\ ~srv[s].listener /\ s \in Listeners
      BY <2>1 DEF IInv, ServerInv, ServerOk, Servers
    <2>3. bound # s /\ HandlersOf(s) = {} /\ lst[s].serve # "pending"
      BY <2>2 DEF IInv, ListenerInv, Drained
    <2> QED
      BY <2>1, <2>2, <2>3 DEF Drained
  <1> QED
    BY <1>1, Invariance, PTL
=============================================================================
