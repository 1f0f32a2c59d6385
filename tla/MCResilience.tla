----------------------------- MODULE MCResilience -----------------------------
(***************************************************************************)
(* The circuit breaker and the limiter of one package.  They share no state *)
(* (the clocks are read, never set), so a behaviour exercises one of them.  *)
(***************************************************************************)
EXTENDS Circuit, Limiter

ThreeCalls == {"a", "b", "c"}

VARIABLE part

ResilienceInit ==
    /\ Init /\ LimiterInit
    /\ part \in {"circuit", "limiter"}
    /\ part = "circuit" => availableTokens = Capacity
    /\ part = "limiter" => ~hasClassifier

ResilienceNext ==
    /\ UNCHANGED part
    /\ \/ part = "circuit" /\ Next /\ UNCHANGED limiterVars
       \/ part = "limiter" /\ LimiterNext /\ UNCHANGED vars

ResilienceSpec ==
    /\ ResilienceInit
    /\ [][ResilienceNext]_<<vars, limiterVars, part>>
    /\ \A c \in Call : WF_vars(Ends(c) /\ UNCHANGED <<limiterVars, part>>)
===============================================================================
