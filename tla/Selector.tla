------------------------------- MODULE Selector -------------------------------
(***************************************************************************)
(* The power-of-two-choices selector (packages/registry/src/selector.ts) of *)
(* one selection domain: per endpoint the requests in flight, the failures  *)
(* in a row and the end of its cooldown.  A selection returns the endpoint  *)
(* and a callback that is told, once, how the request ended.                *)
(*                                                                          *)
(* An endpoint without state and one with Fresh state are chosen alike, so  *)
(* state dropped with a departed endpoint is Fresh state.  Endpoints are    *)
(* numbered in the stable order of the snapshot.                            *)
(***************************************************************************)
EXTENDS Naturals, FiniteSets

CONSTANTS Endpoints,         \* the endpoints discovery may report, 1 .. n
          FailureThreshold,  \* failures in a row that start a cooldown
          Cooldown           \* its length, in clock ticks

ASSUME SelectorConstants ==
    /\ Endpoints \subseteq Nat
    /\ FailureThreshold \in Nat \ {0}
    /\ Cooldown \in Nat \ {0}

Fresh == [inFlight |-> 0, failures |-> 0, until |-> 0]

Eligible(ep, offered, now) == {e \in offered : ep[e].until <= now}

\* No endpoint is out of its cooldown: the one whose cooldown ends first, the
\* first of those in the stable order.
EarliestCooldown(ep, offered) ==
    CHOOSE e \in offered : \A f \in offered :
        ep[e].until < ep[f].until \/ (ep[e].until = ep[f].until /\ e <= f)

\* The endpoints p2cEndpoint may return: of two distinct eligible ones, sampled
\* at random, the one with fewer requests in flight and the first on a tie.
Picks(ep, offered, now) ==
    LET eligible == Eligible(ep, offered, now)
    IN  IF eligible = {} THEN {EarliestCooldown(ep, offered)}
        ELSE IF Cardinality(eligible) = 1 THEN eligible
        ELSE {e \in eligible : \E f \in eligible \ {e} : ep[e].inFlight <= ep[f].inFlight}

\* select: state of the endpoints that are not offered is dropped, and the
\* picked one has a request more in flight.
Selected(ep, offered, e) ==
    [f \in Endpoints |->
        IF f \notin offered THEN Fresh
        ELSE IF f = e THEN [ep[f] EXCEPT !.inFlight = @ + 1]
        ELSE ep[f]]

\* settle: what the completion callback does to the state its selection took.
\* Failures are counted no further than the threshold they are compared with.
Settled(state, failed, now) ==
    LET failures == IF ~failed THEN 0
                    ELSE IF state.failures < FailureThreshold THEN state.failures + 1
                    ELSE FailureThreshold
    IN  [inFlight |-> state.inFlight - 1,
         failures |-> failures,
         until    |-> IF ~failed THEN 0
                      ELSE IF failures >= FailureThreshold THEN now + Cooldown
                      ELSE state.until]
===============================================================================
