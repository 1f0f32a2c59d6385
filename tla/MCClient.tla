------------------------------- MODULE MCClient -------------------------------
(***************************************************************************)
(* Calls of one client over endpoints that come and go.                     *)
(***************************************************************************)
EXTENDS Client, TLC

CallSymmetry == Permutations(Calls)

\* Bounds: one caller cancels at a time, and one of the calls under way is not typed.
CallBound ==
    /\ Cardinality({c \in Calls : call'[c].canceled}) <= 1
    /\ Cardinality({c \in Calls : call'[c].kind # "typed"}) <= 1
===============================================================================
