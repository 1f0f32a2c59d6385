---------------------------- MODULE RabbitMqBroker ----------------------------
(***************************************************************************)
(* The recovering RabbitMQ broker (startRecoveringRabbitMqBroker in         *)
(* packages/broker/rabbitmq/src/index.ts): stable subscriptions that        *)
(* outlive the channel generations, the setup that replays them on each new *)
(* channel, and their stop.                                                 *)
(*                                                                          *)
(* amqplib's recovering connection is external.  The connector calls        *)
(* setup() and rejects when that first setup does; an admitted connection   *)
(* calls it again after every loss, never two at a time, and emits          *)
(* disconnect or connect-failed.  A closed channel rejects its pending      *)
(* calls before the event, so their continuations see the new generation.   *)
(*                                                                          *)
(* Left out: handle.stop(), and the waits that a caller's Context cuts      *)
(* short without changing state; the connector's result is admitted in the  *)
(* step that ends its setup, and is a connection as it should be.           *)
(* The attach() of subscribe() needs a published broker, so it never finds  *)
(* the attachment of a setup under way; only a setup joins another's.       *)
(***************************************************************************)
EXTENDS RabbitMqConsumer

VARIABLES
    gen,      \* generation
    active,   \* the channel of activeBroker, 0 when it is null
    accepted, \* acceptConnection admitted the connection: provider is not null
    setup,    \* the setup callback under way
    sub       \* per subscription: its RecoveringSubscription and its subscribe()

vars == <<con, served, link, open, spent, gen, active, accepted, setup, sub>>
channel == <<link, open, spent>>

\* phase: idle, channel, loop, lost (settled, the event is still to come), dead (the
\* connector rejected).
Idle == [phase |-> "idle", gen |-> 0, at |-> 0, call |-> "none", visited |-> {}]

\* pc: new, subscribing, subscribed, rejected.  attaching: none, acquiring, discarding.
\* call, of setup and of subscribe: what its attach() is doing.
\* stopping: none, attaching, native, ok, failed.
NewSub ==
    [pc |-> "new", listed |-> FALSE, stopped |-> FALSE,
     native |-> FALSE, nativeGen |-> 0, attaching |-> "none", call |-> "none",
     stopping |-> "none", terminal |-> "open"]

Init ==
    /\ con = [s \in Subs |-> NoConsumer]
    /\ served = {}
    /\ link = 0 /\ open = FALSE /\ spent = 0
    /\ gen = 0 /\ active = 0 /\ accepted = FALSE
    /\ setup = Idle
    /\ sub = [s \in Subs |-> NewSub]

\* The rejection of a setup, as the connector or the recovering connection takes it.
Rejected == [Idle EXCEPT !.phase = IF accepted THEN "lost" ELSE "dead"]

Running == setup.phase \in {"channel", "loop"}   \* setupRunning is not null

-----------------------------------------------------------------------------
(* The functions of a subscription *)

discardSubscription(u) == [u EXCEPT !.stopped = TRUE, !.listed = FALSE]

Settle(u, how) == [u EXCEPT !.terminal = IF @ = "open" THEN how ELSE @]

beginStableStop(u) ==
    LET gone == discardSubscription(u)
    IN IF u.stopping = "none" THEN [gone EXCEPT !.stopping = "attaching"] ELSE gone

\* attach() on entry for generation g: nothing to do, join an attachment, or begin one.
Entered(u, g) ==
    CASE u.stopped \/ u.nativeGen = g -> "ok"
      [] ~(u.stopped \/ u.nativeGen = g) /\ u.attaching # "none" -> "wait"
      [] OTHER -> "own"

\* attach() after the attachment it joined: once more, unless the generation is over.
Reentered(u, g) == IF gen # g THEN "ok" ELSE Entered(u, g)

\* What the end of an attachment tells a caller of attach().
Heard(call, ok) ==
    CASE call = "own" -> IF ok THEN "ok" ELSE "failed"
      [] call = "wait" -> IF ok THEN "recheck" ELSE "failed"
      [] OTHER -> call

Attached(u, ok) ==
    LET free == [u EXCEPT !.attaching = "none", !.call = Heard(@, ok)]
    IN IF u.stopping = "attaching" /\ ~ok
       THEN Settle([free EXCEPT !.stopping = "failed"], "failed")
       ELSE free

SetupHears(s, ok) ==
    setup' = IF setup.at = s THEN [setup EXCEPT !.call = Heard(@, ok)] ELSE setup

\* disconnectGeneration: the listed subscriptions forget their native handles.
Disconnected(subs) ==
    [s \in Subs |-> IF subs[s].listed
                    THEN [subs[s] EXCEPT !.native = FALSE, !.nativeGen = 0]
                    ELSE subs[s]]

\* Everyone in subscribe() who waited for the setup goes on.
Woken(how) ==
    [s \in Subs |-> IF sub[s].call = "setup" THEN [sub[s] EXCEPT !.call = how] ELSE sub[s]]

\* A caller of attach() for s on channel l and generation g got this far.
MayBegin(s, call, l, g) ==
    con' = IF call = "own" THEN [con EXCEPT ![s] = NewConsumer(l, g)] ELSE con

-----------------------------------------------------------------------------
(* Subscribing *)

\* The attachment of subscribe() uses the broker and the generation it finds.
SelectActive(s) ==
    LET call == IF active = 0 THEN "ok" ELSE Entered(sub[s], gen)
    IN /\ sub' = [sub EXCEPT ![s].pc = IF @ = "new" THEN "subscribing" ELSE @,
                             ![s].listed = ~sub[s].stopped,
                             ![s].call = call,
                             ![s].attaching = IF call = "own" THEN "acquiring" ELSE @]
       /\ MayBegin(s, call, active, gen)

Subscribe(s) ==
    /\ sub[s].pc = "new" /\ \A r \in Subs : r < s => sub[r].pc # "new"
    /\ Spend(SubscribeCost)
    /\ IF active = 0 /\ Running
       THEN /\ sub' = [sub EXCEPT ![s].pc = "subscribing", ![s].listed = TRUE,
                                  ![s].call = "setup"]
            /\ UNCHANGED con
       ELSE SelectActive(s)
    /\ UNCHANGED <<served, link, open, gen, active, accepted, setup>>

\* The setup that subscribe() waited for is done.
SubscribeGoesOn(s) ==
    /\ sub[s].call = "select"
    /\ SelectActive(s)
    /\ UNCHANGED <<served, channel, gen, active, accepted, setup>>

\* The Context ends the wait: the attachment goes on and is undone when it ends, or
\* at once when it has ended.
CancelSubscribe(s) ==
    /\ sub[s].pc = "subscribing"
    /\ sub' = [sub EXCEPT ![s] = [discardSubscription(@) EXCEPT !.pc = "rejected"]]
    /\ UNCHANGED <<con, served, channel, gen, active, accepted, setup>>

AttachmentEnds(s) ==
    /\ sub[s].call \in {"ok", "failed"}
    /\ LET u == [sub[s] EXCEPT !.call = "none"]
           admitted == u.pc = "subscribing" /\ sub[s].call = "ok"
       IN sub' = [sub EXCEPT ![s] =
                    IF admitted THEN [u EXCEPT !.pc = "subscribed"]
                                ELSE [beginStableStop(u) EXCEPT !.pc = "rejected"]]
    /\ UNCHANGED <<con, served, channel, gen, active, accepted, setup>>

-----------------------------------------------------------------------------
(* The attachment of a subscription to a channel, and the end of its consumer *)

\* The first acquisition's continuation: store the tag, keep or discard the consumer.
Admitted(s) ==
    LET c == [con[s] EXCEPT !.phase = "running", !.tag = 1]
        stale == sub[s].stopped \/ gen # c.gen
    IN /\ con[s].phase = "resolved"
       /\ con' = [con EXCEPT ![s] = IF stale THEN beginStop(c) ELSE c]
       /\ IF stale
          THEN /\ sub' = [sub EXCEPT ![s].attaching = "discarding"]
               /\ UNCHANGED setup
          ELSE /\ sub' = [sub EXCEPT ![s] = [Attached(@, TRUE) EXCEPT !.native = TRUE,
                                                                       !.nativeGen = c.gen]]
               /\ SetupHears(s, TRUE)
       /\ UNCHANGED <<served, channel, gen, active, accepted>>

AttachRejected(s) ==
    /\ sub[s].attaching = "acquiring" /\ con[s].phase = "failed"
    /\ con' = [con EXCEPT ![s] = NoConsumer]
    /\ sub' = [sub EXCEPT ![s] = Attached(@, FALSE)]
    /\ SetupHears(s, FALSE)
    /\ UNCHANGED <<served, channel, gen, active, accepted>>

Discarded(s) ==
    /\ sub[s].attaching = "discarding" /\ con[s].stop = "done"
    /\ con' = [con EXCEPT ![s] = NoConsumer]
    /\ sub' = [sub EXCEPT ![s] = Attached(@, TRUE)]
    /\ SetupHears(s, TRUE)
    /\ UNCHANGED <<served, channel, gen, active, accepted>>

\* The handler wrapper of attach(): a failure in the current generation ends the
\* subscription, one of an earlier generation only its consumer.
HandlerFails(s) ==
    /\ con[s].tail = "busy" /\ con[s].phase = "running"
    /\ con' = [con EXCEPT ![s] = HandlerRejected(@)]
    /\ sub' = IF gen = con[s].gen THEN [sub EXCEPT ![s] = discardSubscription(@)] ELSE sub
    /\ UNCHANGED <<served, channel, gen, active, accepted, setup>>

\* The terminal.catch of attach() returned early: the failure is not of this generation.
TerminalIgnored(s, c) ==
    sub[s].stopping # "none" \/ sub[s].nativeGen # c.gen \/ gen # c.gen

ConsumerEnds(s) ==
    LET c == Finished(con[s])
    IN /\ CanFinish(con[s])
       /\ con' = [con EXCEPT ![s] = c]
       /\ sub' = IF c.clean \/ TerminalIgnored(s, c)
                 THEN sub
                 ELSE [sub EXCEPT ![s] = Settle(discardSubscription(@), "failed")]
       /\ UNCHANGED <<served, channel, gen, active, accepted, setup>>

-----------------------------------------------------------------------------
(* Stopping a subscription *)

Unsubscribe(s) ==
    /\ sub[s].pc = "subscribed" /\ sub[s].stopping = "none"
    /\ sub' = [sub EXCEPT ![s] = beginStableStop(@)]
    /\ UNCHANGED <<con, served, channel, gen, active, accepted, setup>>

StopTakesNative(s) ==
    /\ sub[s].stopping = "attaching" /\ sub[s].attaching = "none"
    /\ LET u == [sub[s] EXCEPT !.native = FALSE, !.nativeGen = 0]
       IN IF sub[s].native
          THEN /\ sub' = [sub EXCEPT ![s] = [u EXCEPT !.stopping = "native"]]
               /\ con' = [con EXCEPT ![s] = beginStop(@)]
          ELSE /\ sub' = [sub EXCEPT ![s] = Settle([u EXCEPT !.stopping = "ok"], "ok")]
               /\ UNCHANGED con
    /\ UNCHANGED <<served, channel, gen, active, accepted, setup>>

StopSettles(s) ==
    LET how == IF con[s].clean THEN "ok" ELSE "failed"
    IN /\ sub[s].stopping = "native" /\ con[s].stop = "done"
       /\ sub' = [sub EXCEPT ![s] = Settle([@ EXCEPT !.stopping = how], how)]
       /\ con' = [con EXCEPT ![s] = NoConsumer]
       /\ UNCHANGED <<served, channel, gen, active, accepted, setup>>

-----------------------------------------------------------------------------
(* Connections and setups *)

\* The connection is lost: its channel closes and takes its consumers along.
Drop ==
    /\ open /\ Quiet /\ Spend(1)
    /\ open' = FALSE /\ served' = {}
    /\ IF setup.phase = "idle"
       THEN gen' = gen + 1 /\ active' = 0 /\ sub' = Disconnected(sub)
       ELSE UNCHANGED <<gen, active, sub>>
    /\ UNCHANGED <<con, link, accepted, setup>>

\* By now the calls that were pending on the closed channel have been rejected.
Reconnect ==
    /\ ~open /\ setup.phase = "idle"
    /\ \A s \in Subs : con[s].call \notin {"declare", "consume"} /\ con[s].stop # "cancel"
    /\ setup' = [Idle EXCEPT !.phase = "channel"]
    /\ UNCHANGED <<con, served, channel, gen, active, accepted, sub>>

ChannelFails ==
    /\ setup.phase = "channel" /\ Spend(1)
    /\ setup' = Rejected
    /\ sub' = Woken("failed")
    /\ UNCHANGED <<con, served, link, open, gen, active, accepted>>

ChannelReady ==
    /\ setup.phase = "channel"
    /\ link' = link + 1 /\ open' = TRUE
    /\ gen' = gen + 1 /\ active' = 0
    /\ setup' = [setup EXCEPT !.phase = "loop", !.gen = gen']
    /\ UNCHANGED <<con, served, spent, accepted, sub>>

\* What the loop over the Set has still to come to, in the order of insertion.
Unvisited == {s \in Subs : sub[s].listed} \ setup.visited

SetupAttaches(s) ==
    LET call == Entered(sub[s], setup.gen)
    IN /\ setup.phase = "loop" /\ setup.call \in {"none", "ok"}
       /\ s \in Unvisited /\ \A r \in Unvisited : s <= r
       /\ setup' = [setup EXCEPT !.at = s, !.call = call, !.visited = @ \cup {s}]
       /\ sub' = [sub EXCEPT ![s].attaching = IF call = "own" THEN "acquiring" ELSE @]
       /\ MayBegin(s, call, link, setup.gen)
       /\ UNCHANGED <<served, channel, gen, active, accepted>>

SetupRechecks ==
    LET s == setup.at
        call == Reentered(sub[s], setup.gen)
    IN /\ setup.call = "recheck"
       /\ setup' = [setup EXCEPT !.call = call]
       /\ sub' = [sub EXCEPT ![s].attaching = IF call = "own" THEN "acquiring" ELSE @]
       /\ MayBegin(s, call, link, setup.gen)
       /\ UNCHANGED <<served, channel, gen, active, accepted>>

\* Every listed subscription was replayed: the new channel is published.
SetupDone ==
    /\ setup.phase = "loop" /\ setup.call \in {"none", "ok"}
    /\ Unvisited = {}
    /\ active' = link /\ accepted' = TRUE
    /\ setup' = [Idle EXCEPT !.phase = IF open THEN "idle" ELSE "lost"]
    /\ sub' = Woken("select")
    /\ UNCHANGED <<con, served, channel, gen>>

\* One replay failed: rebuild closes the channel and setup rejects.
SetupRejects ==
    /\ setup.call = "failed"
    /\ open' = FALSE /\ served' = {}
    /\ setup' = Rejected
    /\ sub' = Woken("failed")
    /\ UNCHANGED <<con, link, spent, gen, active, accepted>>

\* connect-failed after a rejected setup, disconnect after one whose channel is gone.
LossReported ==
    /\ setup.phase = "lost"
    /\ gen' = gen + 1 /\ active' = 0 /\ sub' = Disconnected(sub)
    /\ setup' = Idle
    /\ UNCHANGED <<con, served, channel, accepted>>

-----------------------------------------------------------------------------
BrokerStep(s) ==
    \/ SubscribeGoesOn(s) \/ AttachmentEnds(s)
    \/ Admitted(s) \/ AttachRejected(s) \/ Discarded(s) \/ ConsumerEnds(s)
    \/ StopTakesNative(s) \/ StopSettles(s)

SetupStep ==
    \/ Reconnect \/ ChannelReady \/ SetupRechecks \/ SetupDone
    \/ SetupRejects \/ LossReported
    \/ \E s \in Subs : SetupAttaches(s)

Consume(s) == ConsumerStep(s) /\ UNCHANGED <<gen, active, accepted, setup, sub>>

Next ==
    \/ SetupStep \/ Drop \/ ChannelFails
    \/ \E s \in Subs :
         \/ BrokerStep(s) \/ Consume(s)
         \/ Subscribe(s) \/ CancelSubscribe(s) \/ Unsubscribe(s)
         \/ HandlerFails(s)
         \/ ServerStep(s) /\ UNCHANGED <<gen, active, accepted, setup, sub>>

\* Callbacks, handlers, answers and reconnections come sooner or later; the application's
\* calls, deliveries, failures and losses need not.
Spec ==
    /\ Init /\ [][Next]_vars
    /\ WF_vars(SetupStep)
    /\ \A s \in Subs : WF_vars(BrokerStep(s)) /\ WF_vars(Consume(s))

-----------------------------------------------------------------------------
Served(s) == {t \in served : t[1] = s}

\* A subscription never has two consumers on the server, whatever cancel notices,
\* reconnections and replays overlap, and none is left behind by a consumer that was
\* stopped or by an unsubscribe or a failed subscribe that has settled: beginStop takes
\* the tag only after a running recovery, and attach discards what came too late.
NoZombieConsumer ==
    \A s \in Subs :
      /\ Cardinality(Served(s)) <= 1
      /\ con[s].stop = "done" \/ sub[s].stopping \in {"ok", "failed"} => Served(s) = {}

\* A subscription that is still listed consumes again, or it is delisted: it is not lost
\* between generations, however losses, cancel notices and failed replays interleave with
\* subscribe, which waits for the setup it finds running.
Resumes ==
    \A s \in Subs :
      sub[s].listed ~>
        \/ ~sub[s].listed \/ setup.phase = "dead"
        \/ sub[s].native /\ con[s].accepting /\ Served(s) # {}

\* What the README of the package says of a subscription: recovery exhausted or a failed
\* handler ends it and its runtime promise, the terminal, reports so.
EndIsReported ==
    \A s \in Subs :
      sub[s].pc = "subscribed" /\ sub[s].stopped ~> sub[s].terminal # "open"
===============================================================================
