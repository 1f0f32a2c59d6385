------------------------------ MODULE DurableMap ------------------------------
(***************************************************************************)
(* What a single-owner durable store promises: a map on disk that changes  *)
(* by whole mutations, and the view its owner answers reads from.          *)
(*                                                                         *)
(* A mutation is committed on top of the view and then acknowledged, which *)
(* moves the view.  The disk is therefore never more than one mutation      *)
(* ahead of the view: a commit whose caller was told of a failure is in     *)
(* doubt until a restart adopts it or the next commit, made from the view,  *)
(* drops it.  What was acknowledged is never dropped.                       *)
(***************************************************************************)
EXTENDS Naturals

CONSTANTS Keys, Mutations

VARIABLES durable,  \* per key the write that set it, or 0
          view,     \* the same for the owner's view
          last,     \* the mutation committed last, or 0
          acked     \* the mutations reported as done

Contents == [Keys -> Mutations \cup {0}]

Init ==
    /\ durable = [k \in Keys |-> 0]
    /\ view = durable
    /\ last = 0
    /\ acked = {}

\* A write, a delete, or a commit that only makes expiries durable.
Results(m) == {[view EXCEPT ![k] = v] : k \in Keys, v \in {m, 0}} \cup {view}

Commit(m) ==
    /\ durable' \in Results(m)
    /\ last' = m
    /\ UNCHANGED <<view, acked>>

\* The owner acknowledges the last commit.
Acknowledge ==
    /\ view' = durable
    /\ last # 0
    /\ acked' = acked \cup {last}
    /\ UNCHANGED <<durable, last>>

\* A new owner starts from the disk.
Adopt ==
    /\ view' = durable
    /\ UNCHANGED <<durable, last, acked>>

Without(map, v) == [k \in Keys |-> IF map[k] = v THEN 0 ELSE map[k]]

Expire(v) ==
    /\ durable' = Without(durable, v)
    /\ view' = Without(view, v)
    /\ UNCHANGED <<last, acked>>

Next == (\E m \in Mutations : Commit(m) \/ Expire(m)) \/ Acknowledge \/ Adopt

Spec == Init /\ [][Next]_<<durable, view, last, acked>>
===============================================================================
