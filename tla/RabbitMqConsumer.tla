--------------------------- MODULE RabbitMqConsumer ---------------------------
(***************************************************************************)
(* The consumer of one subscription on one RabbitMQ channel                 *)
(* (createRabbitMqBroker in packages/broker/rabbitmq/src/index.ts): how it  *)
(* is acquired, reattached after the server cancels it, fed, and stopped.   *)
(*                                                                          *)
(* Topology declarations are one call, declare, followed by consume.  The   *)
(* server's answer to consume is dispatched before the continuation that    *)
(* stores the tag runs, and a cancel notice may come in the same chunk:     *)
(* "resolved" is the moment between the two.                                *)
(*                                                                          *)
(* The broker of module RabbitMqBroker subscribes with background(), so the *)
(* paths for an ended Context are not reachable from it and are left out,   *)
(* as are publishing, the message and its acknowledgement.  A call rejects  *)
(* when its channel is closed; declare and consume may also fail on an open *)
(* one, which leaves the channel usable.                                    *)
(***************************************************************************)
EXTENDS Naturals, FiniteSets

CONSTANTS Subs,           \* numbered in the order they subscribe
          MaxTries,       \* rabbitMqRecoveryAttempts
          Budget,         \* bound: what lost connections, cancel notices and failed calls
                          \*   (1 each) and subscriptions (SubscribeCost each) may add up to
          SubscribeCost   \* bound: the price of one more subscription

ASSUME RabbitMqConstants ==
    /\ Subs \subseteq Nat \ {0}
    /\ MaxTries \in Nat \ {0}
    /\ Budget \in Nat
    /\ SubscribeCost \in Nat

VARIABLES
    con,      \* per subscription: its newest native consumer (ConsumerState)
    served,   \* the consumers the server has: <<subscription, channel, acquisition>>
    link,     \* the number of the newest channel
    open,     \* that channel is open; every earlier one is closed
    spent     \* of the budget

\* phase: none, acquiring, resolved, running, failed (the first acquisition).
\* call: none, declare, consume, resolved, delay (the acquisition under way).
\* tries: the recovery's attempt, 0 when state.recovering is null.
\* stop: no, begun, cancel, drain, done.
NoConsumer ==
    [phase |-> "none", link |-> 0, gen |-> 0, call |-> "none", acq |-> 0, tag |-> 0,
     canceling |-> 0, accepting |-> FALSE, tries |-> 0, requested |-> FALSE,
     failed |-> FALSE, tail |-> "idle", stop |-> "no", clean |-> TRUE]

Spend(n) ==
    /\ spent + n <= Budget
    /\ spent' = spent + n

Up(c) == open /\ c.link = link

\* No stop is about to take its tag: that continuation runs before the next event.
Quiet == \A s \in Subs : ~(con[s].stop = "begun" /\ con[s].tries = 0)

-----------------------------------------------------------------------------
(* The functions of a consumer state *)

acquireConsumer(c) == [c EXCEPT !.acq = @ + 1, !.call = "declare"]

\* A consumer as subscribe() creates it on channel l for generation g.
NewConsumer(l, g) ==
    acquireConsumer([NoConsumer EXCEPT !.phase = "acquiring", !.link = l, !.gen = g,
                                       !.accepting = TRUE])

beginStop(c) ==
    IF c.stop # "no" THEN c ELSE [c EXCEPT !.accepting = FALSE, !.stop = "begun"]

recoverConsumer(c) ==
    CASE c.stop # "no" -> c
      [] c.stop = "no" /\ c.tries > 0 -> [c EXCEPT !.requested = TRUE]
      [] OTHER -> acquireConsumer([c EXCEPT !.requested = FALSE, !.tries = 1])

\* Mutant: a cancel notice that came during the recovery is forgotten.
RecoveryForgets(c) ==
    LET idle == [c EXCEPT !.tries = 0, !.call = "none", !.requested = FALSE]
    IN IF idle.failed /\ idle.stop = "no" THEN beginStop(idle) ELSE idle

\* The recovery operation settled: clear it, then stop or recover once more.
RecoveryOver(c) ==
    LET idle == [c EXCEPT !.tries = 0, !.call = "none"]
    IN CASE idle.failed /\ idle.stop = "no" -> beginStop(idle)
         [] ~(idle.failed /\ idle.stop = "no") /\ idle.requested -> recoverConsumer(idle)
         [] OTHER -> idle

\* An acquisition rejected: the first one fails subscribe(), a recovery's is retried.
AcquireRejected(c) ==
    LET lost == [c EXCEPT !.accepting = @ /\ c.call # "consume"]
    IN CASE c.phase = "acquiring" ->
              [lost EXCEPT !.phase = "failed", !.call = "none", !.accepting = FALSE]
         [] c.phase # "acquiring" /\ c.tries = MaxTries ->
              RecoveryOver([lost EXCEPT !.failed = TRUE])
         [] c.phase # "acquiring" /\ c.tries < MaxTries /\ c.stop # "no" -> RecoveryOver(lost)
         [] OTHER -> [lost EXCEPT !.tries = @ + 1, !.call = "delay"]

\* The consume callback with null: the server canceled the consumer of acquisition k.
CanceledByServer(c, k) ==
    IF k # c.acq
    THEN c
    ELSE recoverConsumer([c EXCEPT !.accepting = FALSE, !.tag = 0])

\* A handler rejected: the tail keeps the failure and the consumer stops itself.
HandlerRejected(c) ==
    beginStop([c EXCEPT !.tail = "broken", !.failed = TRUE, !.accepting = FALSE])

-----------------------------------------------------------------------------
(* The steps of a consumer *)

Declared(s) ==
    /\ con[s].call = "declare" /\ con[s].phase # "resolved" /\ Up(con[s])
    /\ con' = [con EXCEPT ![s].call = "consume", ![s].accepting = con[s].stop = "no"]
    /\ UNCHANGED <<served, link, open, spent>>

Consumed(s) ==
    /\ con[s].call = "consume" /\ Up(con[s])
    /\ served' = served \cup {<<s, con[s].link, con[s].acq>>}
    /\ con' = [con EXCEPT
         ![s].phase = IF @ = "acquiring" THEN "resolved" ELSE @,
         ![s].call = IF con[s].phase = "acquiring" THEN "none" ELSE "resolved"]
    /\ UNCHANGED <<link, open, spent>>

CallRejected(s) ==
    /\ con[s].call \in {"declare", "consume"} /\ con[s].phase # "resolved"
    /\ IF Up(con[s]) THEN Spend(1) ELSE UNCHANGED spent
    /\ con' = [con EXCEPT ![s] = AcquireRejected(@)]
    /\ UNCHANGED <<served, link, open>>

\* The back-off ended, or the stop aborted it.
DelayOver(s) ==
    /\ con[s].call = "delay"
    /\ con' = [con EXCEPT ![s] = IF @.stop = "no" THEN acquireConsumer(@) ELSE RecoveryOver(@)]
    /\ UNCHANGED <<served, link, open, spent>>

Recovered(s) ==
    /\ con[s].call = "resolved"
    /\ con' = [con EXCEPT ![s] = RecoveryOver([@ EXCEPT !.tag = con[s].acq, !.failed = FALSE])]
    /\ UNCHANGED <<served, link, open, spent>>

ServerCancels(s, k) ==
    /\ <<s, con[s].link, k>> \in served
    /\ Spend(1)
    /\ served' = served \ {<<s, con[s].link, k>>}
    /\ con' = [con EXCEPT ![s] = CanceledByServer(@, k)]
    /\ UNCHANGED <<link, open>>

\* A cancel notice of a consumer that was replaced since.
LateCancel(s, k) ==
    /\ Up(con[s]) /\ k < con[s].acq
    /\ <<s, con[s].link, k>> \notin served
    /\ Spend(1)
    /\ con' = [con EXCEPT ![s] = CanceledByServer(@, k)]
    /\ UNCHANGED <<served, link, open>>

\* The handlers run one after another; "busy" stands for one or more of them.
Deliver(s) ==
    /\ <<s, con[s].link, con[s].acq>> \in served
    /\ con[s].accepting /\ con[s].tail = "idle"
    /\ con' = [con EXCEPT ![s].tail = "busy"]
    /\ UNCHANGED <<served, link, open, spent>>

HandlerEnds(s) ==
    /\ con[s].tail = "busy" /\ con[s].phase = "running"
    /\ con' = [con EXCEPT ![s].tail = "idle"]
    /\ UNCHANGED <<served, link, open, spent>>

\* Mutant: the stop does not wait for a recovery under way.
StopTakesOldTag(s) ==
    /\ con[s].stop = "begun"
    /\ con' = [con EXCEPT ![s].stop = IF con[s].tag > 0 THEN "cancel" ELSE "drain",
                          ![s].canceling = con[s].tag,
                          ![s].tag = 0]
    /\ UNCHANGED <<served, link, open, spent>>

\* The stop waits for a recovery, then takes the tag there is.
StopTakesTag(s) ==
    /\ con[s].stop = "begun" /\ con[s].tries = 0
    /\ con' = [con EXCEPT ![s].stop = IF con[s].tag > 0 THEN "cancel" ELSE "drain",
                          ![s].canceling = con[s].tag,
                          ![s].tag = 0]
    /\ UNCHANGED <<served, link, open, spent>>

CancelAnswered(s) ==
    /\ con[s].stop = "cancel"
    /\ served' = served \ {<<s, con[s].link, con[s].canceling>>}
    /\ con' = [con EXCEPT ![s].stop = "drain", ![s].clean = Up(con[s])]
    /\ UNCHANGED <<link, open, spent>>

CanFinish(c) == c.stop = "drain" /\ c.tail # "busy"

\* Every handler ended: the stop settles, with what failed.
Finished(c) == [c EXCEPT !.stop = "done", !.clean = @ /\ c.tail = "idle" /\ ~c.failed]

ConsumerStep(s) ==
    \/ Declared(s) \/ Consumed(s) \/ Recovered(s) \/ DelayOver(s)
    \/ HandlerEnds(s) \/ StopTakesTag(s) \/ CancelAnswered(s)
    \/ CallRejected(s)

ServerStep(s) ==
    \/ Deliver(s)
    \/ \E k \in 1 .. con[s].acq : ServerCancels(s, k) \/ LateCancel(s, k)
===============================================================================
