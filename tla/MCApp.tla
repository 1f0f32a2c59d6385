------------------------------- MODULE MCApp -------------------------------
(* Model values for the runs of App. *)
EXTENDS App

\* Two beforeStart hooks, one of every other phase.
TwoStartHooks == [p \in HookPhase |-> IF p = "beforeStart" THEN 2 ELSE 1]
SecondServer == {2}

\* Bounds of the environment: only the second server's stop fails; and without timeouts
\* either the first server's start fails or a stop() is nested in another, not both.
EnvironmentBound ==
    /\ \A i \in Stops : stopOp'[i][1] # "failed"
    /\ srv'[1] \in {"failed", "canceled"} => stop'[2] = "none"
    /\ srv'[1] \in {"failed", "canceled"} \/ stop'[2] # "none" => ~boundedStart /\ ~boundedStop
============================================================================
