---------------------------- MODULE RabbitMqProofs ----------------------------
(***************************************************************************)
(* Proofs about RabbitMqBroker, for any number of subscriptions, recovery  *)
(* attempts, losses and cancel notices.                                    *)
(*                                                                         *)
(* NoZombieConsumer speaks of the server; what makes it true is on the     *)
(* other side of the channel.  The server has at most the newest           *)
(* acquisition of the newest native consumer, and only while that consumer *)
(* still holds its tag or is about to store it (ServedInv).  A consumer is *)
(* replaced only when its channel is closed or it was given up: on an open *)
(* channel the subscription that owns it knows it (PairInv), because a     *)
(* generation never changes under an open channel and every change makes   *)
(* the live subscriptions forget their handles (GenInv).                   *)
(***************************************************************************)
EXTENDS RabbitMqBroker, FiniteSetTheorems, TLAPS

Consumer ==
    [phase : {"none", "acquiring", "resolved", "running", "failed"},
     link : Nat, gen : Nat,
     call : {"none", "declare", "consume", "resolved", "delay"},
     acq : Nat, tag : Nat, canceling : Nat, accepting : BOOLEAN, tries : 0 .. MaxTries,
     requested : BOOLEAN, failed : BOOLEAN, tail : {"idle", "busy", "broken"},
     stop : {"no", "begun", "cancel", "drain", "done"}, clean : BOOLEAN]

AttachCall == {"none", "ok", "wait", "own", "recheck", "failed"}

Subscription ==
    [pc : {"new", "subscribing", "subscribed", "rejected"},
     listed : BOOLEAN, stopped : BOOLEAN, native : BOOLEAN, nativeGen : Nat,
     attaching : {"none", "acquiring", "discarding"},
     call : AttachCall \cup {"setup", "select"},
     stopping : {"none", "attaching", "native", "ok", "failed"},
     terminal : {"open", "ok", "failed"}]

Setup ==
    [phase : {"idle", "channel", "loop", "lost", "dead"}, gen : Nat,
     at : Subs \cup {0}, call : AttachCall, visited : SUBSET Subs]

\* Every variable keeps the shape of the broker's and the consumer's state.
TypeOK ==
    /\ con \in [Subs -> Consumer]
    /\ sub \in [Subs -> Subscription]
    /\ setup \in Setup
    /\ served \subseteq Subs \X Nat \X Nat
    /\ link \in Nat /\ open \in BOOLEAN /\ spent \in Nat
    /\ gen \in Nat /\ active \in Nat /\ accepted \in BOOLEAN

\* What the phase of a consumer says about its acquisition, its recovery and its stop.
Sound(c) ==
    /\ c.phase # "running" => c.stop = "no"
    /\ c.phase \in {"none", "failed"} => c.call = "none" /\ c.tries = 0
    /\ c.phase = "acquiring" => c.call \in {"declare", "consume"} /\ c.tries = 0 /\ c.acq = 1
    /\ c.phase = "resolved" => \/ c.call = "none" /\ c.tries = 0 /\ c.acq = 1
                               \/ c.call = "declare" /\ c.tries > 0 /\ c.acq > 0
    /\ c.phase = "running" => (c.tries > 0 <=> c.call # "none") /\ c.acq > 0
    /\ c.stop \in {"cancel", "drain", "done"} => c.call = "none"
    /\ c.call \in {"declare", "consume", "delay"} => ~c.requested

\* The server may have the newest acquisition of c: the answer to consume has come, and c
\* has the tag, is about to store it, or is about to cancel it.
Holding(c) ==
    \/ c.phase = "resolved" /\ c.call = "none"
    \/ c.phase = "running" /\ c.call = "resolved" /\ ~c.requested
    \/ /\ c.phase = "running" /\ c.call = "none"
       /\ \/ c.stop \in {"no", "begun"} /\ c.tag = c.acq
          \/ c.stop = "cancel" /\ c.canceling = c.acq

\* The server has nothing but that, on the open channel.
ServedInv ==
    \A s, l, k :
        <<s, l, k>> \in served =>
            /\ s \in Subs /\ open /\ l = link
            /\ con[s].link = link /\ k = con[s].acq /\ Holding(con[s])

\* A subscription u and its newest consumer c, on channel l (open or not) in generation g.
Pair(u, c, l, o, g) ==
    /\ c.phase # "none" => c.link <= l /\ c.gen <= g /\ (o /\ c.link = l => c.gen = g)
    /\ u.native \/ u.attaching # "none" => u.stopped \/ u.listed
    /\ u.native /\ ~u.stopped => u.nativeGen = g
    /\ u.native => /\ c.phase = "running" /\ u.attaching = "none"
                   /\ u.stopping \in {"none", "attaching"}
    /\ u.attaching = "acquiring" <=> c.phase \in {"acquiring", "resolved", "failed"}
    /\ u.attaching = "discarding" => c.phase = "running"
    /\ u.stopping # "none" => u.stopped
    /\ u.stopping \in {"native", "ok", "failed"} => u.attaching = "none"
    /\ (c.phase = "running" /\ o /\ c.link = l /\ u.attaching = "none" /\ u.stopping # "native")
       => u.native /\ u.nativeGen = c.gen

ConInv == \A s \in Subs : Sound(con[s])
PairInv == \A s \in Subs : Pair(sub[s], con[s], link, open, gen)

\* Between two channels: the loss has been reported and no setup has a channel yet.
Between == ~open /\ setup.phase \in {"idle", "channel"}

\* The generation of a setup is the current one; between two channels nobody has a handle
\* of the current generation, nor is about to get one.
GenInv ==
    /\ active \in {0, link}
    /\ setup.phase = "loop" => setup.gen = gen
    /\ setup.call # "none" => setup.phase = "loop" /\ setup.at \in Subs
    /\ \A s \in Subs :
         setup.call # "none" /\ setup.at = s => sub[s].stopped \/ sub[s].listed
    /\ setup.phase \in {"channel", "lost", "dead"} => ~open
    /\ Between => /\ active = 0
                  /\ \A s \in Subs : /\ sub[s].native => sub[s].stopped
                                     /\ con[s].phase # "none" => con[s].gen < gen

IInv == TypeOK /\ ConInv /\ ServedInv /\ PairInv /\ GenInv
-----------------------------------------------------------------------------
(* The functions of a consumer. *)

\* A function that changes neither the consumer's channel nor how far it was admitted.
SamePlace(c, d) == d.phase = c.phase /\ d.link = c.link /\ d.gen = c.gen

\* What the server may have of c, it may have of d.
KeepsHolding(c, d) == Holding(c) => Holding(d) /\ d.acq = c.acq

\* A consumer with one of its steps, its counters, its places or its flags replaced.
LEMMA StepUpdates ==
    ASSUME NEW c \in Consumer
    PROVE  /\ \A x \in {"none", "acquiring", "resolved", "running", "failed"} :
                 [c EXCEPT !.phase = x] \in Consumer
           /\ \A x \in {"none", "declare", "consume", "resolved", "delay"} :
                 [c EXCEPT !.call = x] \in Consumer
           /\ \A x \in {"no", "begun", "cancel", "drain", "done"} :
                 [c EXCEPT !.stop = x] \in Consumer
  BY DEF Consumer

LEMMA CountUpdates ==
    ASSUME NEW c \in Consumer
    PROVE  /\ \A x \in 0 .. MaxTries : [c EXCEPT !.tries = x] \in Consumer
           /\ \A x \in Nat : [c EXCEPT !.acq = x] \in Consumer /\ [c EXCEPT !.tag = x] \in Consumer
  BY DEF Consumer

LEMMA PlaceUpdates ==
    ASSUME NEW c \in Consumer
    PROVE  \A x \in Nat : /\ [c EXCEPT !.link = x] \in Consumer
                          /\ [c EXCEPT !.gen = x] \in Consumer
                          /\ [c EXCEPT !.canceling = x] \in Consumer
  BY DEF Consumer

LEMMA FlagUpdates ==
    ASSUME NEW c \in Consumer
    PROVE  /\ \A x \in BOOLEAN : /\ [c EXCEPT !.accepting = x] \in Consumer
                                 /\ [c EXCEPT !.requested = x] \in Consumer
                                 /\ [c EXCEPT !.failed = x] \in Consumer
                                 /\ [c EXCEPT !.clean = x] \in Consumer
           /\ \A x \in {"idle", "busy", "broken"} : [c EXCEPT !.tail = x] \in Consumer
  BY DEF Consumer

\* No consumer at all.
LEMMA NoConsumerFacts ==
    /\ NoConsumer \in Consumer /\ Sound(NoConsumer) /\ ~Holding(NoConsumer)
    /\ NoConsumer.phase = "none"
  BY RabbitMqConstants DEF NoConsumer, Consumer, Sound, Holding

\* subscribe() creates a consumer that declares.
LEMMA NewConsumerFacts ==
    ASSUME NEW l \in Nat, NEW g \in Nat
    PROVE  /\ NewConsumer(l, g) \in Consumer /\ Sound(NewConsumer(l, g))
           /\ NewConsumer(l, g).phase = "acquiring"
           /\ NewConsumer(l, g).link = l /\ NewConsumer(l, g).gen = g
  <1>1. PICK d : d = [NoConsumer EXCEPT !.phase = "acquiring"] /\ d \in Consumer
    BY NoConsumerFacts, StepUpdates
  <1>2. PICK e : e = [d EXCEPT !.link = l] /\ e \in Consumer
    BY <1>1, PlaceUpdates
  <1>3. PICK f : f = [e EXCEPT !.gen = g] /\ f \in Consumer
    BY <1>2, PlaceUpdates
  <1>4. PICK h : h = [f EXCEPT !.accepting = TRUE] /\ h \in Consumer
    BY <1>3, FlagUpdates
  <1>5. /\ h.phase = "acquiring" /\ h.link = l /\ h.gen = g /\ h.acq = 0 /\ h.tries = 0
        /\ h.stop = "no" /\ h.requested = FALSE
    <2>1. /\ NoConsumer.acq = 0 /\ NoConsumer.tries = 0 /\ NoConsumer.stop = "no"
          /\ NoConsumer.requested = FALSE
      BY DEF NoConsumer
    <2>2. d.phase = "acquiring" /\ d.acq = 0 /\ d.tries = 0 /\ d.stop = "no" /\ d.requested = FALSE
      BY <1>1, <2>1, NoConsumerFacts DEF Consumer
    <2>3. /\ e.phase = "acquiring" /\ e.acq = 0 /\ e.tries = 0 /\ e.stop = "no"
          /\ e.requested = FALSE /\ e.link = l
      BY <1>1, <1>2, <2>2 DEF Consumer
    <2>4. /\ f.phase = "acquiring" /\ f.acq = 0 /\ f.tries = 0 /\ f.stop = "no"
          /\ f.requested = FALSE /\ f.link = l /\ f.gen = g
      BY <1>2, <1>3, <2>3 DEF Consumer
    <2> QED
      BY <1>3, <1>4, <2>4 DEF Consumer
  <1>6. PICK n : n = 1
    OBVIOUS
  <1>7. PICK k : k = [h EXCEPT !.acq = n] /\ k \in Consumer
    BY <1>4, <1>6, CountUpdates
  <1>8. PICK m : m = [k EXCEPT !.call = "declare"] /\ m \in Consumer
    BY <1>7, StepUpdates
  <1>9. NewConsumer(l, g) = m
    <2>1. NewConsumer(l, g) = acquireConsumer(h)
      BY <1>1, <1>2, <1>3, <1>4 DEF NewConsumer
    <2>2. h.acq + 1 = n
      BY <1>5, <1>6
    <2> QED
      BY <2>1, <2>2, <1>7, <1>8 DEF acquireConsumer
  <1>10. /\ m.phase = "acquiring" /\ m.link = l /\ m.gen = g /\ m.acq = 1 /\ m.tries = 0
         /\ m.stop = "no" /\ m.requested = FALSE /\ m.call = "declare"
    BY <1>4, <1>5, <1>6, <1>7, <1>8 DEF Consumer
  <1> QED
    BY <1>8, <1>9, <1>10 DEF Sound

\* A stop of a running consumer takes no tag yet.
LEMMA BeginStopFacts ==
    ASSUME NEW c \in Consumer, Sound(c), c.phase = "running"
    PROVE  /\ beginStop(c) \in Consumer /\ Sound(beginStop(c)) /\ SamePlace(c, beginStop(c))
           /\ KeepsHolding(c, beginStop(c)) /\ beginStop(c).stop # "no"
  <1>1. CASE c.stop # "no"
    BY <1>1 DEF beginStop, SamePlace, KeepsHolding
  <1>2. CASE c.stop = "no"
    <2>1. beginStop(c) = [c EXCEPT !.accepting = FALSE, !.stop = "begun"]
      BY <1>2 DEF beginStop
    <2>2. beginStop(c) \in Consumer
      BY <2>1 DEF Consumer
    <2>3. /\ beginStop(c).stop = "begun"
          /\ beginStop(c).phase = c.phase /\ beginStop(c).link = c.link
          /\ beginStop(c).gen = c.gen /\ beginStop(c).call = c.call
          /\ beginStop(c).acq = c.acq /\ beginStop(c).tag = c.tag
          /\ beginStop(c).tries = c.tries /\ beginStop(c).requested = c.requested
      BY <2>1 DEF Consumer
    <2> QED
      BY <1>2, <2>2, <2>3 DEF Sound, SamePlace, KeepsHolding, Holding
  <1> QED
    BY <1>1, <1>2

\* A recovery begins, is asked for once more, or comes too late.
LEMMA RecoverFacts ==
    ASSUME NEW c \in Consumer, Sound(c), c.call \in {"none", "resolved"},
           c.phase \in {"resolved", "running"}
    PROVE  /\ recoverConsumer(c) \in Consumer /\ Sound(recoverConsumer(c))
           /\ SamePlace(c, recoverConsumer(c))
  <1>1. CASE c.stop # "no"
    BY <1>1 DEF recoverConsumer, SamePlace
  <1>2. CASE c.stop = "no" /\ c.tries > 0
    BY <1>2 DEF recoverConsumer, SamePlace, Consumer, Sound
  <1>3. CASE c.stop = "no" /\ ~(c.tries > 0)
    <2>1. recoverConsumer(c) = [c EXCEPT !.requested = FALSE, !.tries = 1, !.acq = @ + 1,
                                         !.call = "declare"]
      BY <1>3 DEF recoverConsumer, acquireConsumer, Consumer
    <2>2. 1 \in 0 .. MaxTries
      BY RabbitMqConstants
    <2>3. recoverConsumer(c) \in Consumer
      <3>1. PICK n : n = c.acq + 1 /\ n \in Nat
        BY DEF Consumer
      <3>5. PICK one : one = 1 /\ one \in 0 .. MaxTries
        BY <2>2
      <3>2. PICK d : d = [c EXCEPT !.requested = FALSE] /\ d \in Consumer
        BY FlagUpdates
      <3>3. PICK e : e = [d EXCEPT !.tries = one] /\ e \in Consumer
        BY <3>2, <3>5, CountUpdates
      <3>4. PICK f : f = [e EXCEPT !.acq = n] /\ f \in Consumer
        <4>1. n \in Nat
          BY <3>1
        <4> QED
          BY <3>3, <4>1, CountUpdates
      <3>6. e.acq + 1 = n
        BY <3>1, <3>2, <3>3 DEF Consumer
      <3>7. recoverConsumer(c) = [f EXCEPT !.call = "declare"]
        BY <2>1, <3>1, <3>2, <3>3, <3>4, <3>5, <3>6
      <3>8. f \in Consumer
        BY <3>4
      <3>9. [f EXCEPT !.call = "declare"] \in Consumer
        BY <3>8, StepUpdates
      <3> QED
        BY <3>7, <3>9
    <2>4. /\ recoverConsumer(c).phase = c.phase /\ recoverConsumer(c).link = c.link
          /\ recoverConsumer(c).gen = c.gen /\ recoverConsumer(c).stop = c.stop
          /\ recoverConsumer(c).call = "declare" /\ recoverConsumer(c).acq = c.acq + 1
          /\ recoverConsumer(c).tries = 1 /\ recoverConsumer(c).requested = FALSE
      BY <2>1 DEF Consumer
    <2>5. c.acq \in Nat
      BY DEF Consumer
    <2> QED
      BY <1>3, <2>3, <2>4, <2>5 DEF SamePlace, Sound
  <1> QED
    BY <1>1, <1>2, <1>3

\* A recovery has settled: the consumer is idle, stops itself, or recovers once more.
LEMMA RecoveryOverFacts ==
    ASSUME NEW c \in Consumer, Sound(c), c.phase = "running", c.call # "none"
    PROVE  /\ RecoveryOver(c) \in Consumer /\ Sound(RecoveryOver(c))
           /\ SamePlace(c, RecoveryOver(c))
           /\ Holding(c) /\ c.tag = c.acq => Holding(RecoveryOver(c)) /\ RecoveryOver(c).acq = c.acq
  <1> DEFINE idle == [c EXCEPT !.tries = 0, !.call = "none"]
  <1>0. idle \in Consumer /\ c.acq \in Nat
    <2>1. PICK n : n = 0 /\ n \in 0 .. MaxTries
      BY RabbitMqConstants
    <2>2. PICK d : d = [c EXCEPT !.tries = n] /\ d \in Consumer
      BY <2>1, CountUpdates
    <2>3. [d EXCEPT !.call = "none"] \in Consumer
      BY <2>2, StepUpdates
    <2>4. c.acq \in Nat
      BY DEF Consumer
    <2> QED
      BY <2>1, <2>2, <2>3, <2>4
  <1>a. /\ idle.phase = c.phase /\ idle.link = c.link /\ idle.gen = c.gen /\ idle.call = "none"
        /\ idle.tries = 0 /\ idle.tag = c.tag /\ idle.acq = c.acq /\ idle.stop = c.stop
        /\ idle.requested = c.requested
    BY DEF Consumer
  <1>1. Sound(idle) /\ SamePlace(c, idle)
    BY <1>a DEF Sound, SamePlace
  <1>2. Holding(c) => ~c.requested /\ c.stop \in {"no", "begun"}
    BY DEF Holding, Sound, Consumer
  <1>3. Holding(c) /\ c.tag = c.acq => Holding(idle)
    BY <1>a, <1>2 DEF Holding
  <1> HIDE DEF idle
  <1>4. RecoveryOver(c) = IF idle.failed /\ idle.stop = "no" THEN beginStop(idle)
                          ELSE IF idle.requested THEN recoverConsumer(idle) ELSE idle
    BY DEF RecoveryOver, idle
  <1>5. /\ beginStop(idle) \in Consumer /\ Sound(beginStop(idle))
        /\ SamePlace(idle, beginStop(idle)) /\ KeepsHolding(idle, beginStop(idle))
    BY <1>0, <1>a, <1>1, BeginStopFacts DEF SamePlace
  <1>6. /\ recoverConsumer(idle) \in Consumer /\ Sound(recoverConsumer(idle))
        /\ SamePlace(idle, recoverConsumer(idle))
    BY <1>0, <1>a, <1>1, RecoverFacts DEF SamePlace
  <1> QED
    BY <1>0, <1>a, <1>1, <1>2, <1>3, <1>4, <1>5, <1>6 DEF SamePlace, KeepsHolding

\* A failed acquisition ends the first one, ends a recovery, or waits for the next try.
LEMMA AcquireRejectedFacts ==
    ASSUME NEW c \in Consumer, Sound(c), c.call \in {"declare", "consume"}, c.phase # "resolved"
    PROVE  /\ AcquireRejected(c) \in Consumer /\ Sound(AcquireRejected(c))
           /\ AcquireRejected(c).link = c.link /\ AcquireRejected(c).gen = c.gen
           /\ IF c.phase = "acquiring" THEN AcquireRejected(c).phase = "failed"
                                       ELSE AcquireRejected(c).phase = c.phase
           /\ ~Holding(c)
  <1> DEFINE lost == [c EXCEPT !.accepting = @ /\ c.call # "consume"]
             broken == [lost EXCEPT !.failed = TRUE]
  <1>1. c.phase \in {"acquiring", "running"} /\ ~Holding(c)
    BY DEF Sound, Consumer, Holding
  <1>2. /\ lost \in Consumer /\ Sound(lost) /\ SamePlace(c, lost) /\ lost.call = c.call
        /\ lost.tries = c.tries /\ lost.stop = c.stop
        /\ broken \in Consumer /\ Sound(broken) /\ SamePlace(c, broken) /\ broken.call = c.call
    BY DEF Consumer, Sound, SamePlace
  <1>3. CASE c.phase = "acquiring"
    <2>1. AcquireRejected(c) = [lost EXCEPT !.phase = "failed", !.call = "none",
                                            !.accepting = FALSE]
      BY <1>3 DEF AcquireRejected
    <2> HIDE DEF lost
    <2>2. AcquireRejected(c) \in Consumer
      <3>1. PICK d : d = [lost EXCEPT !.phase = "failed"] /\ d \in Consumer
        BY <1>2, StepUpdates
      <3>2. PICK e : e = [d EXCEPT !.call = "none"] /\ e \in Consumer
        BY <3>1, StepUpdates
      <3> QED
        BY <2>1, <3>1, <3>2, FlagUpdates
    <2>3. /\ AcquireRejected(c).phase = "failed" /\ AcquireRejected(c).call = "none"
          /\ AcquireRejected(c).link = lost.link /\ AcquireRejected(c).gen = lost.gen
          /\ AcquireRejected(c).tries = lost.tries /\ AcquireRejected(c).stop = lost.stop
      BY <1>2, <2>1 DEF Consumer
    <2> QED
      BY <1>1, <1>2, <1>3, <2>2, <2>3 DEF Sound, SamePlace
  <1>4. CASE c.phase = "running" /\ c.tries = MaxTries
    <2>1. AcquireRejected(c) = RecoveryOver(broken)
      BY <1>4, RabbitMqConstants DEF AcquireRejected
    <2>2. broken.phase = "running" /\ broken.call # "none"
      BY <1>2, <1>4 DEF SamePlace
    <2> HIDE DEF broken
    <2> QED
      BY <1>1, <1>2, <1>4, <2>1, <2>2, RecoveryOverFacts DEF SamePlace
  <1>5. CASE c.phase = "running" /\ c.tries # MaxTries /\ c.stop # "no"
    <2>1. c.tries < MaxTries
      BY <1>5, RabbitMqConstants DEF Consumer
    <2>2. AcquireRejected(c) = RecoveryOver(lost)
      BY <1>5, <2>1 DEF AcquireRejected
    <2>3. lost.phase = "running" /\ lost.call # "none"
      BY <1>2, <1>5 DEF SamePlace
    <2> HIDE DEF lost
    <2> QED
      BY <1>1, <1>2, <1>5, <2>2, <2>3, RecoveryOverFacts DEF SamePlace
  <1>6. CASE c.phase = "running" /\ c.tries # MaxTries /\ c.stop = "no"
    <2>1. c.tries + 1 \in 0 .. MaxTries /\ c.tries + 1 > 0
      BY <1>6, RabbitMqConstants DEF Consumer
    <2>2. AcquireRejected(c) = [lost EXCEPT !.tries = @ + 1, !.call = "delay"]
      BY <1>6 DEF AcquireRejected
    <2> HIDE DEF lost
    <2>3. AcquireRejected(c) \in Consumer
      <3>1. PICK n : n = c.tries + 1 /\ n \in 0 .. MaxTries
        BY <2>1
      <3>2. PICK d : d = [lost EXCEPT !.tries = n] /\ d \in Consumer
        <4>1. n \in 0 .. MaxTries
          BY <3>1
        <4> QED
          BY <1>2, <4>1, CountUpdates
      <3>3. AcquireRejected(c) = [d EXCEPT !.call = "delay"]
        BY <1>2, <2>2, <3>1, <3>2
      <3>4. d \in Consumer
        BY <3>2
      <3>5. [d EXCEPT !.call = "delay"] \in Consumer
        BY <3>4, StepUpdates
      <3> QED
        BY <3>3, <3>5
    <2>4. /\ AcquireRejected(c).phase = lost.phase /\ AcquireRejected(c).call = "delay"
          /\ AcquireRejected(c).link = lost.link /\ AcquireRejected(c).gen = lost.gen
          /\ AcquireRejected(c).tries = c.tries + 1 /\ AcquireRejected(c).stop = lost.stop
          /\ AcquireRejected(c).acq = lost.acq /\ AcquireRejected(c).requested = lost.requested
      BY <1>2, <2>2 DEF Consumer
    <2> QED
      BY <1>1, <1>2, <1>6, <2>1, <2>3, <2>4 DEF Sound, SamePlace
  <1> QED
    BY <1>1, <1>3, <1>4, <1>5, <1>6

\* A cancel notice of the newest acquisition; of an older one it changes nothing.
LEMMA CanceledFacts ==
    ASSUME NEW c \in Consumer, Sound(c), Holding(c)
    PROVE  /\ CanceledByServer(c, c.acq) \in Consumer /\ Sound(CanceledByServer(c, c.acq))
           /\ SamePlace(c, CanceledByServer(c, c.acq))
  <1> DEFINE d == [c EXCEPT !.accepting = FALSE, !.tag = 0]
  <1>1. /\ d \in Consumer /\ Sound(d) /\ SamePlace(c, d) /\ d.call \in {"none", "resolved"}
        /\ d.phase \in {"resolved", "running"}
    BY DEF Consumer, Sound, SamePlace, Holding
  <1>2. CanceledByServer(c, c.acq) = recoverConsumer(d)
    BY DEF CanceledByServer
  <1> HIDE DEF d
  <1> QED
    BY <1>1, <1>2, RecoverFacts DEF SamePlace

\* A handler rejects in a running consumer.
LEMMA HandlerRejectedFacts ==
    ASSUME NEW c \in Consumer, Sound(c), c.phase = "running"
    PROVE  /\ HandlerRejected(c) \in Consumer /\ Sound(HandlerRejected(c))
           /\ SamePlace(c, HandlerRejected(c)) /\ KeepsHolding(c, HandlerRejected(c))
  <1> DEFINE d == [c EXCEPT !.tail = "broken", !.failed = TRUE, !.accepting = FALSE]
  <1>1. /\ d \in Consumer /\ Sound(d) /\ SamePlace(c, d) /\ KeepsHolding(c, d)
        /\ d.phase = "running"
    BY DEF Consumer, Sound, SamePlace, KeepsHolding, Holding
  <1>2. HandlerRejected(c) = beginStop(d)
    BY DEF HandlerRejected
  <1> HIDE DEF d
  <1> QED
    BY <1>1, <1>2, BeginStopFacts DEF SamePlace, KeepsHolding
-----------------------------------------------------------------------------
(* The steps of one subscription. *)

\* The server has nothing of s.
Absent(s) == \A l, k : <<s, l, k>> \notin served

\* What a step that makes d of the consumer of s does on the server: nothing, while d still
\* holds what there is; it answers consume; it takes the newest acquisition away.
Serves(s, d) ==
    \/ /\ served' = served
       /\ Absent(s) \/ (Holding(d) /\ d.acq = con[s].acq /\ d.link = con[s].link)
    \/ /\ served' = served \cup {<<s, con[s].link, con[s].acq>>}
       /\ Absent(s) /\ Up(con[s])
       /\ Holding(d) /\ d.acq = con[s].acq /\ d.link = con[s].link
    \/ served' = served \ {<<s, con[s].link, con[s].acq>>}

\* A step of the subscription s, of its consumer, or of a setup that attaches it.
Local(s, u, d) ==
    /\ s \in Subs /\ u \in Subscription /\ d \in Consumer
    /\ con' = [con EXCEPT ![s] = d] /\ sub' = [sub EXCEPT ![s] = u]
    /\ UNCHANGED <<link, open, gen, active, accepted>> /\ spent' \in Nat
    /\ Sound(d) /\ Pair(u, d, link, open, gen) /\ Serves(s, d)
    /\ sub[s].stopped \/ sub[s].listed => u.stopped \/ u.listed
    /\ Between => /\ u.native => u.stopped
                  /\ d.phase # "none" => d.gen < gen
    /\ setup' \in Setup /\ setup'.phase = setup.phase /\ setup'.gen = setup.gen
    /\ setup'.call # "none" => \/ setup.call # "none" /\ setup'.at = setup.at
                               \/ /\ setup.phase = "loop" /\ setup'.at = s
                                  /\ u.stopped \/ u.listed

\* A consumer that holds nothing has nothing on the server.
LEMMA NotHolding ==
    ASSUME ServedInv, NEW s \in Subs, ~(Holding(con[s]) /\ Up(con[s]))
    PROVE  Absent(s)
  BY DEF Absent, ServedInv, Up

\* A step of one subscription keeps the server in order.
LEMMA LocalServed ==
    ASSUME IInv, NEW s, NEW u, NEW d, Local(s, u, d)
    PROVE  ServedInv' /\ served' \subseteq Subs \X Nat \X Nat
  <1>1. /\ s \in Subs /\ con \in [Subs -> Consumer] /\ con' = [con EXCEPT ![s] = d]
        /\ link' = link /\ open' = open /\ ServedInv /\ served \subseteq Subs \X Nat \X Nat
        /\ Serves(s, d)
    BY DEF Local, IInv, TypeOK
  <1>2. con'[s] = d /\ \A r \in Subs : r # s => con'[r] = con[r]
    BY <1>1
  <1>3. con[s].link \in Nat /\ con[s].acq \in Nat
    BY <1>1 DEF Consumer
  <1>4. /\ served' \subseteq served \cup {<<s, con[s].link, con[s].acq>>}
        /\ served' \subseteq Subs \X Nat \X Nat
    BY <1>1, <1>3 DEF Serves
  <1>5. ASSUME NEW r, NEW l, NEW k, <<r, l, k>> \in served'
        PROVE  /\ r \in Subs /\ open' /\ l = link'
               /\ con'[r].link = link' /\ k = con'[r].acq /\ Holding(con'[r])
    <2>1. CASE r # s
      BY <1>1, <1>2, <1>4, <1>5, <2>1 DEF ServedInv
    <2>2. CASE r = s
      <3>1. CASE served' = served /\ Absent(s)
        BY <1>5, <2>2, <3>1 DEF Absent
      <3>2. CASE served' = served /\ Holding(d) /\ d.acq = con[s].acq /\ d.link = con[s].link
        BY <1>1, <1>2, <1>5, <2>2, <3>2 DEF ServedInv
      <3>3. CASE /\ served' = served \cup {<<s, con[s].link, con[s].acq>>}
                 /\ Absent(s) /\ Up(con[s])
                 /\ Holding(d) /\ d.acq = con[s].acq /\ d.link = con[s].link
        <4>1. l = con[s].link /\ k = con[s].acq
          BY <1>5, <2>2, <3>3 DEF Absent
        <4> QED
          BY <1>1, <1>2, <2>2, <3>3, <4>1 DEF Up
      <3>4. CASE served' = served \ {<<s, con[s].link, con[s].acq>>}
        <4>1. <<s, l, k>> \in served /\ ~(l = con[s].link /\ k = con[s].acq)
          BY <1>5, <2>2, <3>4
        <4> QED
          BY <1>1, <4>1 DEF ServedInv
      <3> QED
        BY <1>1, <3>1, <3>2, <3>3, <3>4 DEF Serves
    <2> QED
      BY <2>1, <2>2
  <1> QED
    BY <1>4, <1>5 DEF ServedInv

\* A step of one subscription keeps the invariant.
LEMMA LocalInv ==
    ASSUME IInv, NEW s, NEW u, NEW d, Local(s, u, d)
    PROVE  IInv'
  <1>1. /\ s \in Subs /\ con \in [Subs -> Consumer] /\ con' = [con EXCEPT ![s] = d]
        /\ sub \in [Subs -> Subscription] /\ sub' = [sub EXCEPT ![s] = u]
        /\ link' = link /\ open' = open /\ gen' = gen
        /\ u \in Subscription /\ d \in Consumer
    BY DEF Local, IInv, TypeOK
  <1>2. /\ con'[s] = d /\ sub'[s] = u
        /\ \A r \in Subs : r # s => con'[r] = con[r] /\ sub'[r] = sub[r]
    BY <1>1
  <1>3. TypeOK'
    BY <1>1, LocalServed DEF Local, IInv, TypeOK
  <1>4. ConInv'
    BY <1>2 DEF Local, IInv, ConInv
  <1>5. PairInv'
    <2>1. ASSUME NEW r \in Subs PROVE Pair(sub'[r], con'[r], link, open, gen)
      BY <1>2 DEF Local, IInv, PairInv
    <2> QED
      BY <1>1, <2>1 DEF PairInv
  <1>6. GenInv'
    <2>1. GenInv /\ Local(s, u, d)
      BY DEF IInv
    <2>2. active' \in {0, link'} /\ (setup'.phase = "loop" => setup'.gen = gen')
          /\ (setup'.call # "none" => setup'.phase = "loop" /\ setup'.at \in Subs)
          /\ (setup'.phase \in {"channel", "lost", "dead"} => ~open')
      BY <2>1, <1>1 DEF GenInv, Local
    <2>3. ASSUME NEW r \in Subs, setup'.call # "none", setup'.at = r
          PROVE  sub'[r].stopped \/ sub'[r].listed
      BY <1>2, <2>1, <2>3 DEF GenInv, Local
    <2>4. Between' <=> Between
      BY <1>1, <2>1 DEF Between, Local
    <2>5. ASSUME Between, NEW r \in Subs
          PROVE  /\ active' = 0
                 /\ sub'[r].native => sub'[r].stopped
                 /\ con'[r].phase # "none" => con'[r].gen < gen'
      BY <1>1, <1>2, <2>1, <2>5 DEF GenInv, Local
    <2>6. Between => active' = 0
      BY <2>1 DEF GenInv, Local
    <2> QED
      BY <2>2, <2>3, <2>4, <2>5, <2>6 DEF GenInv
  <1> QED
    BY <1>3, <1>4, <1>5, <1>6, LocalServed DEF IInv
-----------------------------------------------------------------------------
(* The steps of a consumer. *)

\* What the invariant says of one subscription.
LEMMA OneOf ==
    ASSUME IInv, NEW s \in Subs
    PROVE  /\ con[s] \in Consumer /\ Sound(con[s]) /\ sub[s] \in Subscription
           /\ Pair(sub[s], con[s], link, open, gen)
           /\ con \in [Subs -> Consumer] /\ sub \in [Subs -> Subscription]
           /\ ServedInv /\ spent \in Nat /\ setup \in Setup
  BY DEF IInv, TypeOK, ConInv, PairInv

\* A consumer that moves on within its place.
LEMMA ConsumerLocal ==
    ASSUME IInv, NEW s \in Subs, NEW d \in Consumer, Sound(d),
           con' = [con EXCEPT ![s] = d], spent' \in Nat,
           UNCHANGED <<link, open, gen, active, accepted, setup, sub>>,
           d.link = con[s].link, d.gen = con[s].gen,
           \/ d.phase = con[s].phase
           \/ con[s].phase = "acquiring" /\ d.phase \in {"resolved", "failed"},
           Serves(s, d)
    PROVE  Local(s, sub[s], d)
  <1>1. sub' = [sub EXCEPT ![s] = sub[s]]
    BY OneOf
  <1>2. Pair(sub[s], d, link, open, gen)
    <2>1. Pair(sub[s], con[s], link, open, gen)
      BY OneOf
    <2> QED
      BY <2>1 DEF Pair
  <1>3. Between => /\ sub[s].native => sub[s].stopped
                   /\ d.phase # "none" => d.gen < gen
    BY DEF IInv, GenInv
  <1> QED
    BY <1>1, <1>2, <1>3, OneOf DEF Local

\* A consumer changes while nobody can hear of it, or keeps what it holds.
LEMMA KeepsServes ==
    ASSUME IInv, NEW s \in Subs, NEW d, served' = served, d.link = con[s].link,
           ~(Holding(con[s]) /\ Up(con[s])) \/ KeepsHolding(con[s], d)
    PROVE  Serves(s, d)
  <1>1. CASE ~(Holding(con[s]) /\ Up(con[s]))
    BY <1>1, NotHolding DEF Serves, IInv
  <1>2. CASE Holding(con[s]) /\ KeepsHolding(con[s], d)
    BY <1>2 DEF Serves, KeepsHolding
  <1> QED
    BY <1>1, <1>2

\* Spending keeps the budget's type.
LEMMA SpendType ==
    ASSUME spent \in Nat, NEW n \in Nat, Spend(n)
    PROVE  spent' \in Nat
  BY DEF Spend

\* The declarations are done and consume is sent.
LEMMA DeclaredLocal ==
    ASSUME IInv, NEW s \in Subs, Declared(s), UNCHANGED <<gen, active, accepted, setup, sub>>
    PROVE  \E d : Local(s, sub[s], d)
  <1> DEFINE c == con[s]
             d == [c EXCEPT !.call = "consume", !.accepting = c.stop = "no"]
  <1>1. c \in Consumer /\ Sound(c)
    BY OneOf
  <1>2. con' = [con EXCEPT ![s] = d]
    BY <1>1, OneOf DEF Declared
  <1>3. d \in Consumer
    <2>1. PICK e : e = [c EXCEPT !.call = "consume"] /\ e \in Consumer
      BY <1>1, StepUpdates
    <2> QED
      BY <2>1, FlagUpdates, StepUpdates
  <1>4. /\ d.call = "consume" /\ d.phase = c.phase /\ d.link = c.link /\ d.gen = c.gen
        /\ d.acq = c.acq /\ d.tries = c.tries /\ d.stop = c.stop /\ d.requested = c.requested
    BY <1>1 DEF Consumer
  <1>5. c.call = "declare" /\ c.phase # "resolved" /\ ~Holding(c)
    BY DEF Declared, Holding
  <1> HIDE DEF d
  <1>6. Sound(d)
    BY <1>1, <1>4, <1>5 DEF Sound
  <1>7. Serves(s, d)
    BY <1>4, <1>5, KeepsServes DEF Declared
  <1> QED
    BY <1>2, <1>3, <1>4, <1>6, <1>7, ConsumerLocal, OneOf DEF Declared

\* The server answers consume.
LEMMA ConsumedLocal ==
    ASSUME IInv, NEW s \in Subs, Consumed(s), UNCHANGED <<gen, active, accepted, setup, sub>>
    PROVE  \E d : Local(s, sub[s], d)
  <1> DEFINE c == con[s]
             p == IF c.phase = "acquiring" THEN "resolved" ELSE c.phase
             x == IF c.phase = "acquiring" THEN "none" ELSE "resolved"
             d == [c EXCEPT !.phase = p, !.call = x]
  <1>1. c \in Consumer /\ Sound(c)
    BY OneOf
  <1>2. con' = [con EXCEPT ![s] = d]
    BY <1>1, OneOf DEF Consumed
  <1>3. d \in Consumer
    <2>1. /\ p \in {"none", "acquiring", "resolved", "running", "failed"}
          /\ x \in {"none", "declare", "consume", "resolved", "delay"}
      BY <1>1 DEF Consumer
    <2> HIDE DEF p, x
    <2>2. PICK e : e = [c EXCEPT !.phase = p] /\ e \in Consumer
      BY <1>1, <2>1, StepUpdates
    <2> QED
      BY <2>1, <2>2, StepUpdates
  <1>4. /\ d.call = x /\ d.phase = p /\ d.link = c.link /\ d.gen = c.gen
        /\ d.acq = c.acq /\ d.tries = c.tries /\ d.stop = c.stop /\ d.requested = c.requested
    BY <1>1 DEF Consumer
  <1>5. c.call = "consume" /\ c.phase \in {"acquiring", "running"} /\ ~Holding(c) /\ Up(c)
    BY <1>1 DEF Consumed, Holding, Sound, Consumer
  <1> HIDE DEF d
  <1>6. Sound(d) /\ Holding(d)
    BY <1>1, <1>4, <1>5 DEF Sound, Holding
  <1>7. Serves(s, d)
    <2>1. Absent(s)
      BY <1>5, NotHolding DEF IInv
    <2> QED
      BY <1>4, <1>5, <1>6, <2>1 DEF Serves, Consumed
  <1> QED
    BY <1>2, <1>3, <1>4, <1>5, <1>6, <1>7, ConsumerLocal, OneOf DEF Consumed

\* A declaration or consume fails.
LEMMA CallRejectedLocal ==
    ASSUME IInv, NEW s \in Subs, CallRejected(s), UNCHANGED <<gen, active, accepted, setup, sub>>
    PROVE  \E d : Local(s, sub[s], d)
  <1> DEFINE c == con[s]
             d == AcquireRejected(c)
  <1>1. c \in Consumer /\ Sound(c) /\ c.call \in {"declare", "consume"} /\ c.phase # "resolved"
    BY OneOf DEF CallRejected
  <1>2. con' = [con EXCEPT ![s] = d] /\ served' = served /\ spent' \in Nat
    BY OneOf, SpendType DEF CallRejected
  <1>3. /\ d \in Consumer /\ Sound(d) /\ d.link = c.link /\ d.gen = c.gen /\ ~Holding(c)
        /\ IF c.phase = "acquiring" THEN d.phase = "failed" ELSE d.phase = c.phase
    BY <1>1, AcquireRejectedFacts
  <1> HIDE DEF d
  <1>4. Serves(s, d)
    BY <1>2, <1>3, KeepsServes
  <1> QED
    BY <1>1, <1>2, <1>3, <1>4, ConsumerLocal DEF CallRejected

\* The back-off of a recovery is over.
LEMMA DelayOverLocal ==
    ASSUME IInv, NEW s \in Subs, DelayOver(s), UNCHANGED <<gen, active, accepted, setup, sub>>
    PROVE  \E d : Local(s, sub[s], d)
  <1> DEFINE c == con[s]
  <1>1. c \in Consumer /\ Sound(c) /\ c.call = "delay" /\ c.phase = "running" /\ ~Holding(c)
    BY OneOf DEF DelayOver, Sound, Consumer, Holding
  <1>2. PICK d : d = IF c.stop = "no" THEN acquireConsumer(c) ELSE RecoveryOver(c)
    OBVIOUS
  <1>3. con' = [con EXCEPT ![s] = d] /\ served' = served /\ spent' \in Nat
    BY <1>2, OneOf DEF DelayOver
  <1>4. d \in Consumer /\ Sound(d) /\ SamePlace(c, d)
    <2>1. CASE c.stop = "no"
      <3>1. PICK n : n = c.acq + 1 /\ n \in Nat
        BY <1>1 DEF Consumer
      <3>2. n \in Nat
        BY <3>1
      <3>3. PICK e : e = [c EXCEPT !.acq = n] /\ e \in Consumer
        BY <1>1, <3>2, CountUpdates
      <3>4. d = [e EXCEPT !.call = "declare"]
        BY <1>2, <2>1, <3>1, <3>3 DEF acquireConsumer
      <3>5. d \in Consumer
        BY <3>3, <3>4, StepUpdates
      <3>6. /\ d.call = "declare" /\ d.phase = c.phase /\ d.link = c.link /\ d.gen = c.gen
            /\ d.acq = n /\ d.tries = c.tries /\ d.stop = c.stop /\ d.requested = c.requested
        BY <1>1, <3>3, <3>4 DEF Consumer
      <3>7. c.acq \in Nat
        BY <1>1 DEF Consumer
      <3> QED
        BY <1>1, <2>1, <3>1, <3>5, <3>6, <3>7 DEF Sound, SamePlace
    <2>2. CASE c.stop # "no"
      BY <1>1, <1>2, <2>2, RecoveryOverFacts
    <2> QED
      BY <2>1, <2>2
  <1>5. Serves(s, d)
    BY <1>1, <1>3, <1>4, KeepsServes DEF SamePlace
  <1> QED
    BY <1>3, <1>4, <1>5, ConsumerLocal DEF DelayOver, SamePlace

\* A recovery stores its tag.
LEMMA RecoveredLocal ==
    ASSUME IInv, NEW s \in Subs, Recovered(s), UNCHANGED <<gen, active, accepted, setup, sub>>
    PROVE  \E d : Local(s, sub[s], d)
  <1> DEFINE c == con[s]
             e == [c EXCEPT !.tag = c.acq, !.failed = FALSE]
             d == RecoveryOver(e)
  <1>1. c \in Consumer /\ Sound(c) /\ c.call = "resolved" /\ c.phase = "running"
    BY OneOf DEF Recovered, Sound, Consumer
  <1>2. con' = [con EXCEPT ![s] = d] /\ served' = served /\ spent' \in Nat
    BY OneOf DEF Recovered
  <1>3. e \in Consumer
    <2>1. PICK n : n = c.acq
      OBVIOUS
    <2>2. n \in Nat
      BY <1>1, <2>1 DEF Consumer
    <2>3. PICK f : f = [c EXCEPT !.tag = n] /\ f \in Consumer
      BY <1>1, <2>2, CountUpdates
    <2> QED
      BY <2>1, <2>3, FlagUpdates
  <1>4. /\ e.call = c.call /\ e.phase = c.phase /\ e.link = c.link /\ e.gen = c.gen
        /\ e.acq = c.acq /\ e.tries = c.tries /\ e.stop = c.stop /\ e.requested = c.requested
        /\ e.tag = c.acq
    BY <1>1 DEF Consumer
  <1> HIDE DEF e
  <1>5. Sound(e) /\ (Holding(c) => Holding(e))
    BY <1>1, <1>4 DEF Sound, Holding
  <1>6. /\ d \in Consumer /\ Sound(d) /\ SamePlace(e, d)
        /\ Holding(e) => Holding(d) /\ d.acq = e.acq
    BY <1>1, <1>3, <1>4, <1>5, RecoveryOverFacts
  <1> HIDE DEF d
  <1>7. Serves(s, d)
    BY <1>2, <1>4, <1>5, <1>6, KeepsServes DEF KeepsHolding, SamePlace
  <1> QED
    BY <1>2, <1>4, <1>6, <1>7, ConsumerLocal DEF Recovered, SamePlace

\* A message is delivered, or its handler ends.
LEMMA TailLocal ==
    ASSUME IInv, NEW s \in Subs, HandlerEnds(s) \/ Deliver(s),
           UNCHANGED <<gen, active, accepted, setup, sub>>
    PROVE  \E d : Local(s, sub[s], d)
  <1> DEFINE c == con[s]
  <1>1. c \in Consumer /\ Sound(c)
    BY OneOf
  <1>2. PICK x \in {"idle", "busy", "broken"} : con' = [con EXCEPT ![s].tail = x]
    BY DEF HandlerEnds, Deliver
  <1> DEFINE d == [c EXCEPT !.tail = x]
  <1>3. con' = [con EXCEPT ![s] = d]
    BY <1>1, <1>2, OneOf
  <1>4. d \in Consumer
    BY <1>1, FlagUpdates
  <1>5. /\ d.call = c.call /\ d.phase = c.phase /\ d.link = c.link /\ d.gen = c.gen
        /\ d.acq = c.acq /\ d.tries = c.tries /\ d.stop = c.stop /\ d.requested = c.requested
        /\ d.tag = c.tag /\ d.canceling = c.canceling
    BY <1>1 DEF Consumer
  <1> HIDE DEF d
  <1>6. Sound(d) /\ KeepsHolding(c, d)
    BY <1>1, <1>5 DEF Sound, KeepsHolding, Holding
  <1>7. /\ served' = served /\ spent' \in Nat /\ UNCHANGED <<link, open>>
    BY OneOf DEF HandlerEnds, Deliver
  <1>8. Serves(s, d)
    BY <1>5, <1>6, <1>7, KeepsServes
  <1> QED
    BY <1>3, <1>4, <1>5, <1>6, <1>7, <1>8, ConsumerLocal

\* A stop takes the tag there is, after any recovery.
LEMMA StopTakesTagLocal ==
    ASSUME IInv, NEW s \in Subs, StopTakesTag(s), UNCHANGED <<gen, active, accepted, setup, sub>>
    PROVE  \E d : Local(s, sub[s], d)
  <1> DEFINE c == con[s]
             x == IF c.tag > 0 THEN "cancel" ELSE "drain"
             d == [c EXCEPT !.stop = x, !.canceling = c.tag, !.tag = 0]
  <1>1. /\ c \in Consumer /\ Sound(c) /\ c.stop = "begun" /\ c.tries = 0
        /\ c.acq \in Nat /\ c.tag \in Nat
    BY OneOf DEF StopTakesTag, Consumer
  <1>2. con' = [con EXCEPT ![s] = d]
    BY <1>1, OneOf DEF StopTakesTag
  <1>3. d \in Consumer
    <2>1. x \in {"no", "begun", "cancel", "drain", "done"}
      OBVIOUS
    <2> HIDE DEF x
    <2>2. PICK n : n = c.tag
      OBVIOUS
    <2>3. n \in Nat
      BY <1>1, <2>2
    <2>4. PICK e : e = [c EXCEPT !.stop = x] /\ e \in Consumer
      BY <1>1, <2>1, StepUpdates
    <2>5. PICK f : f = [e EXCEPT !.canceling = n] /\ f \in Consumer
      BY <2>3, <2>4, PlaceUpdates
    <2>6. d = [f EXCEPT !.tag = 0]
      BY <2>2, <2>4, <2>5
    <2>7. PICK z : z = 0 /\ z \in Nat
      OBVIOUS
    <2>8. [f EXCEPT !.tag = z] \in Consumer
      BY <2>5, <2>7, CountUpdates
    <2> HIDE DEF d
    <2> QED
      BY <2>6, <2>7, <2>8
  <1>4. /\ d.call = c.call /\ d.phase = c.phase /\ d.link = c.link /\ d.gen = c.gen
        /\ d.acq = c.acq /\ d.tries = c.tries /\ d.requested = c.requested
        /\ d.stop = x /\ d.canceling = c.tag
    BY <1>1 DEF Consumer
  <1> HIDE DEF d
  <1>5. c.phase = "running" /\ c.call = "none" /\ c.acq > 0
    BY <1>1 DEF Sound, Consumer
  <1>6. Sound(d) /\ KeepsHolding(c, d)
    BY <1>1, <1>4, <1>5 DEF Sound, KeepsHolding, Holding
  <1>7. Serves(s, d)
    BY <1>4, <1>6, KeepsServes DEF StopTakesTag
  <1> QED
    BY <1>2, <1>3, <1>4, <1>6, <1>7, ConsumerLocal, OneOf DEF StopTakesTag

\* The server answers cancel.
LEMMA CancelAnsweredLocal ==
    ASSUME IInv, NEW s \in Subs, CancelAnswered(s), UNCHANGED <<gen, active, accepted, setup, sub>>
    PROVE  \E d : Local(s, sub[s], d)
  <1> DEFINE c == con[s]
             d == [c EXCEPT !.stop = "drain", !.clean = Up(c)]
  <1>1. /\ c \in Consumer /\ Sound(c) /\ c.stop = "cancel"
    BY OneOf DEF CancelAnswered
  <1>2. con' = [con EXCEPT ![s] = d]
    BY <1>1, OneOf DEF CancelAnswered
  <1>3. d \in Consumer
    <2>1. PICK e : e = [c EXCEPT !.stop = "drain"] /\ e \in Consumer
      BY <1>1, StepUpdates
    <2>2. PICK x : x = Up(c)
      OBVIOUS
    <2>3. x \in BOOLEAN
      BY <2>2 DEF Up, IInv, TypeOK
    <2>4. [e EXCEPT !.clean = x] \in Consumer
      BY <2>1, <2>3, FlagUpdates
    <2> QED
      BY <2>1, <2>2, <2>4
  <1>4. /\ d.call = c.call /\ d.phase = c.phase /\ d.link = c.link /\ d.gen = c.gen
        /\ d.acq = c.acq /\ d.tries = c.tries /\ d.requested = c.requested
        /\ d.stop = "drain"
    BY <1>1 DEF Consumer
  <1> HIDE DEF d
  <1>5. Sound(d)
    BY <1>1, <1>4 DEF Sound
  <1>6. Serves(s, d)
    <2>1. CASE Holding(c)
      <3>1. c.canceling = c.acq
        BY <1>1, <2>1 DEF Holding, Sound
      <3> QED
        BY <3>1 DEF Serves, CancelAnswered
    <2>2. CASE ~Holding(c)
      <3>1. Absent(s)
        BY <2>2, NotHolding DEF IInv
      <3>2. served' = served
        BY <3>1 DEF CancelAnswered, Absent
      <3> QED
        BY <3>1, <3>2 DEF Serves
    <2> QED
      BY <2>1, <2>2
  <1> QED
    BY <1>2, <1>3, <1>4, <1>5, <1>6, ConsumerLocal, OneOf DEF CancelAnswered

\* The server cancels a consumer: it is the newest acquisition.
LEMMA ServerCancelsLocal ==
    ASSUME IInv, NEW s \in Subs, NEW k, ServerCancels(s, k),
           UNCHANGED <<gen, active, accepted, setup, sub>>
    PROVE  \E d : Local(s, sub[s], d)
  <1> DEFINE c == con[s]
             d == CanceledByServer(c, c.acq)
  <1>1. k = c.acq /\ Holding(c)
    BY DEF ServerCancels, IInv, ServedInv
  <1>2. con' = [con EXCEPT ![s] = d] /\ served' = served \ {<<s, c.link, c.acq>>}
    BY <1>1, OneOf DEF ServerCancels
  <1>3. d \in Consumer /\ Sound(d) /\ SamePlace(c, d)
    BY <1>1, CanceledFacts, OneOf
  <1> HIDE DEF d
  <1>4. Serves(s, d)
    BY <1>2 DEF Serves
  <1>5. spent' \in Nat
    BY OneOf, SpendType DEF ServerCancels
  <1> QED
    BY <1>2, <1>3, <1>4, <1>5, ConsumerLocal DEF ServerCancels, SamePlace

\* A late cancel notice changes nothing.
LEMMA LateCancelLocal ==
    ASSUME IInv, NEW s \in Subs, NEW k \in 1 .. con[s].acq, LateCancel(s, k),
           UNCHANGED <<gen, active, accepted, setup, sub>>
    PROVE  \E d : Local(s, sub[s], d)
  <1> DEFINE c == con[s]
  <1>1. c \in Consumer /\ Sound(c) /\ c.acq \in Nat
    BY OneOf DEF Consumer
  <1>2. CanceledByServer(c, k) = c
    BY <1>1 DEF LateCancel, CanceledByServer
  <1>3. con' = [con EXCEPT ![s] = c] /\ served' = served
    BY <1>2, OneOf DEF LateCancel
  <1>4. Serves(s, c)
    BY <1>3, KeepsServes DEF KeepsHolding
  <1>5. spent' \in Nat
    BY OneOf, SpendType DEF LateCancel
  <1> QED
    BY <1>1, <1>3, <1>4, <1>5, ConsumerLocal DEF LateCancel
-----------------------------------------------------------------------------
(* The functions of a subscription. *)

\* A subscription with its step, its flags or its outcome replaced.
LEMMA SubStepUpdates ==
    ASSUME NEW u \in Subscription
    PROVE  /\ \A x \in {"new", "subscribing", "subscribed", "rejected"} :
                 [u EXCEPT !.pc = x] \in Subscription
           /\ \A x \in {"none", "acquiring", "discarding"} :
                 [u EXCEPT !.attaching = x] \in Subscription
           /\ \A x \in AttachCall \cup {"setup", "select"} : [u EXCEPT !.call = x] \in Subscription
  BY DEF Subscription

LEMMA SubFlagUpdates ==
    ASSUME NEW u \in Subscription
    PROVE  \A x \in BOOLEAN : /\ [u EXCEPT !.listed = x] \in Subscription
                              /\ [u EXCEPT !.stopped = x] \in Subscription
                              /\ [u EXCEPT !.native = x] \in Subscription
  BY DEF Subscription

LEMMA SubEndUpdates ==
    ASSUME NEW u \in Subscription
    PROVE  /\ \A x \in Nat : [u EXCEPT !.nativeGen = x] \in Subscription
           /\ \A x \in {"none", "attaching", "native", "ok", "failed"} :
                 [u EXCEPT !.stopping = x] \in Subscription
           /\ \A x \in {"open", "ok", "failed"} : [u EXCEPT !.terminal = x] \in Subscription
  BY DEF Subscription

\* Two subscriptions that hold the same handle.
SameHandle(u, v) ==
    /\ v.native = u.native /\ v.nativeGen = u.nativeGen
    /\ v.attaching = u.attaching /\ v.stopping = u.stopping

\* A discarded subscription keeps its handle.
LEMMA DiscardFacts ==
    ASSUME NEW u \in Subscription
    PROVE  /\ discardSubscription(u) \in Subscription /\ SameHandle(u, discardSubscription(u))
           /\ discardSubscription(u).stopped /\ ~discardSubscription(u).listed
  <1>1. PICK v : v = [u EXCEPT !.stopped = TRUE] /\ v \in Subscription
    BY SubFlagUpdates
  <1>2. discardSubscription(u) = [v EXCEPT !.listed = FALSE]
    BY <1>1 DEF discardSubscription
  <1>3. discardSubscription(u) \in Subscription
    BY <1>1, <1>2, SubFlagUpdates
  <1> QED
    BY <1>1, <1>2, <1>3 DEF Subscription, SameHandle

\* Settling changes the terminal promise only.
LEMMA SettleFacts ==
    ASSUME NEW u \in Subscription, NEW how \in {"ok", "failed"}
    PROVE  /\ Settle(u, how) \in Subscription /\ SameHandle(u, Settle(u, how))
           /\ Settle(u, how).stopped = u.stopped /\ Settle(u, how).listed = u.listed
  <1>1. PICK x : x = IF u.terminal = "open" THEN how ELSE u.terminal
    OBVIOUS
  <1>2. x \in {"open", "ok", "failed"}
    BY <1>1 DEF Subscription
  <1>3. Settle(u, how) = [u EXCEPT !.terminal = x]
    BY <1>1 DEF Settle
  <1>4. Settle(u, how) \in Subscription
    BY <1>2, <1>3, SubEndUpdates
  <1> QED
    BY <1>3, <1>4 DEF Subscription, SameHandle

\* A stop is recorded once and waits for the attachment.
LEMMA StableStopFacts ==
    ASSUME NEW u \in Subscription
    PROVE  /\ beginStableStop(u) \in Subscription
           /\ beginStableStop(u).stopped /\ ~beginStableStop(u).listed
           /\ beginStableStop(u).native = u.native /\ beginStableStop(u).nativeGen = u.nativeGen
           /\ beginStableStop(u).attaching = u.attaching
           /\ beginStableStop(u).stopping = IF u.stopping = "none" THEN "attaching" ELSE u.stopping
  <1>1. PICK v : v = discardSubscription(u)
    OBVIOUS
  <1>2. v \in Subscription /\ SameHandle(u, v) /\ v.stopped /\ ~v.listed
    BY <1>1, DiscardFacts
  <1>3. [v EXCEPT !.stopping = "attaching"] \in Subscription
    BY <1>2, SubEndUpdates
  <1>4. beginStableStop(u) = IF u.stopping = "none" THEN [v EXCEPT !.stopping = "attaching"] ELSE v
    BY <1>1 DEF beginStableStop
  <1> QED
    BY <1>2, <1>3, <1>4 DEF Subscription, SameHandle

\* What a caller of attach() hears.
LEMMA HeardType ==
    ASSUME NEW call, NEW ok \in BOOLEAN
    PROVE  /\ call \in AttachCall => Heard(call, ok) \in AttachCall
           /\ call \in AttachCall \cup {"setup", "select"}
              => Heard(call, ok) \in AttachCall \cup {"setup", "select"}
           /\ call = "none" => Heard(call, ok) = "none"
  BY DEF Heard, AttachCall

\* An attachment ends: a stop that waited for it fails with it.
LEMMA AttachedFacts ==
    ASSUME NEW u \in Subscription, NEW ok \in BOOLEAN
    PROVE  /\ Attached(u, ok) \in Subscription /\ Attached(u, ok).attaching = "none"
           /\ Attached(u, ok).stopped = u.stopped /\ Attached(u, ok).listed = u.listed
           /\ Attached(u, ok).native = u.native /\ Attached(u, ok).nativeGen = u.nativeGen
           /\ Attached(u, ok).stopping =
                IF u.stopping = "attaching" /\ ~ok THEN "failed" ELSE u.stopping
  <1>1. PICK x : x = Heard(u.call, ok) /\ x \in AttachCall \cup {"setup", "select"}
    BY HeardType DEF Subscription
  <1>2. x \in AttachCall \cup {"setup", "select"}
    BY <1>1
  <1>3. PICK v : v = [u EXCEPT !.attaching = "none"] /\ v \in Subscription
    BY SubStepUpdates
  <1>4. PICK w : w = [v EXCEPT !.call = x] /\ w \in Subscription
    BY <1>2, <1>3, SubStepUpdates
  <1>5. w = [u EXCEPT !.attaching = "none", !.call = Heard(@, ok)]
    BY <1>1, <1>3, <1>4 DEF Subscription
  <1>6. /\ w.attaching = "none" /\ w.stopped = u.stopped /\ w.listed = u.listed
        /\ w.native = u.native /\ w.nativeGen = u.nativeGen /\ w.stopping = u.stopping
    BY <1>3, <1>4 DEF Subscription
  <1>7. PICK y : y = [w EXCEPT !.stopping = "failed"] /\ y \in Subscription
    BY <1>4, SubEndUpdates
  <1>8. /\ y.attaching = "none" /\ y.stopped = u.stopped /\ y.listed = u.listed
        /\ y.native = u.native /\ y.nativeGen = u.nativeGen /\ y.stopping = "failed"
    BY <1>4, <1>6, <1>7 DEF Subscription
  <1>9. Attached(u, ok) = IF u.stopping = "attaching" /\ ~ok THEN Settle(y, "failed") ELSE w
    BY <1>5, <1>7 DEF Attached
  <1>10. /\ Settle(y, "failed") \in Subscription /\ SameHandle(y, Settle(y, "failed"))
         /\ Settle(y, "failed").stopped = y.stopped /\ Settle(y, "failed").listed = y.listed
    BY <1>7, SettleFacts
  <1>11. CASE u.stopping = "attaching" /\ ~ok
    BY <1>8, <1>9, <1>10, <1>11 DEF SameHandle
  <1>12. CASE ~(u.stopping = "attaching" /\ ~ok)
    BY <1>4, <1>6, <1>9, <1>12
  <1> QED
    BY <1>11, <1>12
-----------------------------------------------------------------------------
(* The steps of a subscription and its attachment. *)

\* The setup hears of an attachment and stays where it is.
LEMMA SetupHearsFacts ==
    ASSUME IInv, NEW s \in Subs, NEW ok \in BOOLEAN, SetupHears(s, ok)
    PROVE  /\ setup' \in Setup /\ setup'.phase = setup.phase /\ setup'.gen = setup.gen
           /\ setup'.call # "none" => setup.call # "none" /\ setup'.at = setup.at
  <1>1. PICK x : x = Heard(setup.call, ok)
    OBVIOUS
  <1>2. setup \in Setup /\ x \in AttachCall /\ (setup.call = "none" => x = "none")
    BY <1>1, HeardType DEF IInv, TypeOK, Setup
  <1>3. setup' = IF setup.at = s THEN [setup EXCEPT !.call = x] ELSE setup
    BY <1>1 DEF SetupHears
  <1> QED
    BY <1>2, <1>3 DEF Setup

\* A step in which the consumer of s stays as it is.
LEMMA SubLocal ==
    ASSUME IInv, NEW s \in Subs, NEW u \in Subscription, sub' = [sub EXCEPT ![s] = u],
           UNCHANGED <<con, served, link, open, gen, active, accepted, setup>>, spent' \in Nat,
           Pair(u, con[s], link, open, gen),
           sub[s].stopped \/ sub[s].listed => u.stopped \/ u.listed,
           u.native => sub[s].native, sub[s].stopped => u.stopped
    PROVE  Local(s, u, con[s])
  <1>1. con' = [con EXCEPT ![s] = con[s]]
    BY OneOf
  <1>2. Serves(s, con[s])
    BY KeepsServes DEF KeepsHolding
  <1>3. Between => /\ u.native => u.stopped
                   /\ con[s].phase # "none" => con[s].gen < gen
    BY DEF IInv, GenInv
  <1> QED
    BY <1>1, <1>2, <1>3, OneOf DEF Local

\* Stopping a subscription leaves it paired with its consumer.
LEMMA PairStops ==
    ASSUME NEW u, NEW v, NEW c, NEW l, NEW o, NEW g, Pair(u, c, l, o, g),
           v.native = u.native, v.nativeGen = u.nativeGen, v.attaching = u.attaching,
           v.stopping = u.stopping \/ (u.stopping = "none" /\ v.stopping = "attaching"),
           v.stopped
    PROVE  Pair(v, c, l, o, g)
  BY DEF Pair

\* The Context of subscribe() ends.
LEMMA CancelSubscribeLocal ==
    ASSUME IInv, NEW s \in Subs, CancelSubscribe(s)
    PROVE  \E u, d : Local(s, u, d)
  <1>1. PICK v : v = discardSubscription(sub[s])
    OBVIOUS
  <1>2. v \in Subscription /\ SameHandle(sub[s], v) /\ v.stopped
    BY <1>1, OneOf, DiscardFacts
  <1>3. PICK u : u = [v EXCEPT !.pc = "rejected"] /\ u \in Subscription
    BY <1>2, SubStepUpdates
  <1>4. SameHandle(sub[s], u) /\ u.stopped
    BY <1>2, <1>3 DEF Subscription, SameHandle
  <1>5. sub' = [sub EXCEPT ![s] = u]
    BY <1>1, <1>3 DEF CancelSubscribe
  <1>6. Pair(u, con[s], link, open, gen)
    BY <1>4, OneOf, PairStops DEF SameHandle
  <1> QED
    BY <1>3, <1>4, <1>5, <1>6, OneOf, SubLocal DEF CancelSubscribe, channel, SameHandle

\* subscribe() returns, or undoes its attachment.
LEMMA AttachmentEndsLocal ==
    ASSUME IInv, NEW s \in Subs, AttachmentEnds(s)
    PROVE  \E u, d : Local(s, u, d)
  <1>1. PICK v : v = [sub[s] EXCEPT !.call = "none"]
    OBVIOUS
  <1>2. v \in Subscription
    <2>1. PICK x : x = "none" /\ x \in AttachCall \cup {"setup", "select"}
      BY DEF AttachCall
    <2>2. x \in AttachCall \cup {"setup", "select"}
      BY <2>1
    <2>3. [sub[s] EXCEPT !.call = x] \in Subscription
      BY <2>2, OneOf, SubStepUpdates
    <2> QED
      BY <1>1, <2>1, <2>3
  <1>3. /\ SameHandle(sub[s], v) /\ v.stopped = sub[s].stopped /\ v.listed = sub[s].listed
    BY <1>1, OneOf DEF Subscription, SameHandle
  <1>4. PICK a : a = [v EXCEPT !.pc = "subscribed"] /\ a \in Subscription
    BY <1>2, SubStepUpdates
  <1>5. /\ SameHandle(sub[s], a) /\ a.stopped = sub[s].stopped /\ a.listed = sub[s].listed
    BY <1>2, <1>3, <1>4 DEF Subscription, SameHandle
  <1>6. PICK w : w = beginStableStop(v)
    OBVIOUS
  <1>7. /\ w \in Subscription /\ w.stopped /\ w.native = v.native /\ w.nativeGen = v.nativeGen
        /\ w.attaching = v.attaching
        /\ w.stopping = IF v.stopping = "none" THEN "attaching" ELSE v.stopping
    BY <1>2, <1>6, StableStopFacts
  <1>8. PICK b : b = [w EXCEPT !.pc = "rejected"] /\ b \in Subscription
    BY <1>7, SubStepUpdates
  <1>9. /\ b.stopped /\ b.native = v.native /\ b.nativeGen = v.nativeGen
        /\ b.attaching = v.attaching
        /\ b.stopping = IF v.stopping = "none" THEN "attaching" ELSE v.stopping
    BY <1>7, <1>8 DEF Subscription
  <1>10. Pair(a, con[s], link, open, gen) /\ Pair(b, con[s], link, open, gen)
    <2>1. Pair(sub[s], con[s], link, open, gen)
      BY OneOf
    <2>2. Pair(a, con[s], link, open, gen)
      BY <1>5, <2>1 DEF Pair, SameHandle
    <2>3. Pair(b, con[s], link, open, gen)
      BY <1>3, <1>9, <2>1, PairStops DEF SameHandle
    <2> QED
      BY <2>2, <2>3
  <1>11. \/ sub' = [sub EXCEPT ![s] = a]
         \/ sub' = [sub EXCEPT ![s] = b]
    BY <1>1, <1>4, <1>6, <1>8 DEF AttachmentEnds
  <1>12. /\ UNCHANGED <<con, served, link, open, gen, active, accepted, setup>> /\ spent' \in Nat
    BY OneOf DEF AttachmentEnds, channel
  <1>13. CASE sub' = [sub EXCEPT ![s] = a]
    BY <1>4, <1>5, <1>10, <1>12, <1>13, SubLocal DEF SameHandle
  <1>14. CASE sub' = [sub EXCEPT ![s] = b]
    BY <1>3, <1>8, <1>9, <1>10, <1>12, <1>14, SubLocal DEF SameHandle
  <1> QED
    BY <1>11, <1>13, <1>14

\* unsubscribe() begins the stop.
LEMMA UnsubscribeLocal ==
    ASSUME IInv, NEW s \in Subs, Unsubscribe(s)
    PROVE  \E u, d : Local(s, u, d)
  <1>1. PICK u : u = beginStableStop(sub[s])
    OBVIOUS
  <1>2. /\ u \in Subscription /\ u.stopped /\ u.native = sub[s].native
        /\ u.nativeGen = sub[s].nativeGen /\ u.attaching = sub[s].attaching
        /\ u.stopping = IF sub[s].stopping = "none" THEN "attaching" ELSE sub[s].stopping
    BY <1>1, OneOf, StableStopFacts
  <1>3. Pair(u, con[s], link, open, gen)
    BY <1>2, OneOf, PairStops
  <1> QED
    BY <1>1, <1>2, <1>3, OneOf, SubLocal DEF Unsubscribe, channel

\* attach() begins an acquisition only when there is none on the open channel.
LEMMA OwnAbsent ==
    ASSUME IInv, NEW s \in Subs, Entered(sub[s], gen) = "own"
    PROVE  /\ ~sub[s].stopped /\ sub[s].attaching = "none" /\ sub[s].stopping = "none"
           /\ ~sub[s].native /\ Absent(s)
  <1>1. ~sub[s].stopped /\ sub[s].nativeGen # gen /\ sub[s].attaching = "none"
    BY DEF Entered
  <1>2. Pair(sub[s], con[s], link, open, gen) /\ con[s] \in Consumer /\ sub[s] \in Subscription
    BY OneOf
  <1>3. ~sub[s].native /\ sub[s].stopping = "none"
    BY <1>1, <1>2 DEF Pair
  <1>4. ~(Holding(con[s]) /\ Up(con[s]))
    BY <1>1, <1>2, <1>3 DEF Pair, Holding, Up
  <1> QED
    BY <1>1, <1>3, <1>4, NotHolding DEF IInv

\* A caller of attach() joins, passes or begins an attachment.
LEMMA AttachLocal ==
    ASSUME IInv, NEW s \in Subs, NEW u \in Subscription, NEW call, NEW l,
           call = "own" => Entered(sub[s], gen) = "own" /\ l = link /\ ~Between /\ u.listed,
           MayBegin(s, call, l, gen), served' = served, sub' = [sub EXCEPT ![s] = u],
           UNCHANGED <<link, open, gen, active, accepted>>, spent' \in Nat,
           u.native = sub[s].native, u.nativeGen = sub[s].nativeGen, u.stopped = sub[s].stopped,
           u.stopping = sub[s].stopping,
           u.attaching = IF call = "own" THEN "acquiring" ELSE sub[s].attaching,
           sub[s].stopped \/ sub[s].listed => u.stopped \/ u.listed,
           setup' \in Setup, setup'.phase = setup.phase, setup'.gen = setup.gen,
           setup'.call # "none" => \/ setup.call # "none" /\ setup'.at = setup.at
                                   \/ /\ setup.phase = "loop" /\ setup'.at = s
                                      /\ u.stopped \/ u.listed
    PROVE  \E d : Local(s, u, d)
  <1>1. Pair(sub[s], con[s], link, open, gen) /\ con[s] \in Consumer /\ sub[s] \in Subscription
    BY OneOf
  <1>2. CASE call = "own"
    <2>1. link \in Nat /\ gen \in Nat
      BY DEF IInv, TypeOK
    <2>2. PICK d : d = NewConsumer(link, gen)
      OBVIOUS
    <2>3. d \in Consumer /\ Sound(d) /\ d.phase = "acquiring" /\ d.link = link /\ d.gen = gen
      BY <2>1, <2>2, NewConsumerFacts
    <2>4. con' = [con EXCEPT ![s] = d]
      BY <1>2, <2>2 DEF MayBegin
    <2>5. /\ ~sub[s].stopped /\ sub[s].attaching = "none" /\ sub[s].stopping = "none"
          /\ ~sub[s].native /\ Absent(s)
      BY <1>2, OwnAbsent
    <2>6. Pair(u, d, link, open, gen)
      BY <1>2, <2>1, <2>3, <2>5 DEF Pair
    <2>7. Serves(s, d)
      BY <2>5 DEF Serves
    <2> QED
      BY <1>2, <2>3, <2>4, <2>6, <2>7 DEF Local
  <1>3. CASE call # "own"
    <2>1. con' = [con EXCEPT ![s] = con[s]]
      BY <1>3, OneOf DEF MayBegin
    <2>2. Serves(s, con[s])
      BY KeepsServes DEF KeepsHolding
    <2>3. Pair(u, con[s], link, open, gen)
      BY <1>1, <1>3 DEF Pair
    <2>4. Between => /\ u.native => u.stopped
                     /\ con[s].phase # "none" => con[s].gen < gen
      BY DEF IInv, GenInv
    <2> QED
      BY <1>1, <2>1, <2>2, <2>3, <2>4, OneOf DEF Local
  <1> QED
    BY <1>2, <1>3

\* subscribe() selects the active broker and attaches.
LEMMA SelectActiveLocal ==
    ASSUME IInv, NEW s \in Subs, SelectActive(s), spent' \in Nat,
           UNCHANGED <<served, link, open, gen, active, accepted, setup>>
    PROVE  \E u, d : Local(s, u, d)
  <1>1. sub[s] \in Subscription /\ sub \in [Subs -> Subscription]
    BY OneOf
  <1>2. PICK call : call = IF active = 0 THEN "ok" ELSE Entered(sub[s], gen)
    OBVIOUS
  <1>3. call \in {"ok", "wait", "own"}
    BY <1>2 DEF Entered
  <1>4. PICK p : p = IF sub[s].pc = "new" THEN "subscribing" ELSE sub[s].pc
    OBVIOUS
  <1>5. PICK a : a = IF call = "own" THEN "acquiring" ELSE sub[s].attaching
    OBVIOUS
  <1>6. PICK x : x = ~sub[s].stopped
    OBVIOUS
  <1>7. /\ p \in {"new", "subscribing", "subscribed", "rejected"}
        /\ a \in {"none", "acquiring", "discarding"} /\ x \in BOOLEAN
        /\ call \in AttachCall \cup {"setup", "select"}
    BY <1>1, <1>3, <1>4, <1>5, <1>6 DEF Subscription, AttachCall
  <1>8. PICK e : e = [sub[s] EXCEPT !.pc = p] /\ e \in Subscription
    BY <1>1, <1>7, SubStepUpdates
  <1>9. PICK f : f = [e EXCEPT !.listed = x] /\ f \in Subscription
    BY <1>7, <1>8, SubFlagUpdates
  <1>10. PICK h : h = [f EXCEPT !.call = call] /\ h \in Subscription
    BY <1>7, <1>9, SubStepUpdates
  <1>11. PICK u : u = [h EXCEPT !.attaching = a] /\ u \in Subscription
    BY <1>7, <1>10, SubStepUpdates
  <1>12. /\ u.native = sub[s].native /\ u.nativeGen = sub[s].nativeGen
         /\ u.stopped = sub[s].stopped /\ u.stopping = sub[s].stopping
         /\ u.listed = x /\ u.attaching = a
    BY <1>1, <1>8, <1>9, <1>10, <1>11 DEF Subscription
  <1>13. sub' = [sub EXCEPT ![s] = u]
    <2>1. sub' = [sub EXCEPT ![s].pc = p, ![s].listed = x, ![s].call = call, ![s].attaching = a]
      BY <1>1, <1>2, <1>4, <1>5, <1>6 DEF SelectActive, Subscription
    <2> QED
      BY <1>1, <1>8, <1>9, <1>10, <1>11, <2>1
  <1>14. MayBegin(s, call, active, gen)
    BY <1>2 DEF SelectActive
  <1>15. call = "own" => Entered(sub[s], gen) = "own" /\ active = link /\ ~Between /\ u.listed
    <2>1. active \in {0, link} /\ (Between => active = 0)
      BY DEF IInv, GenInv
    <2>2. Entered(sub[s], gen) = "own" => ~sub[s].stopped
      BY DEF Entered
    <2> QED
      BY <1>2, <1>6, <1>12, <2>1, <2>2
  <1>16. setup' \in Setup /\ setup' = setup
    BY DEF IInv, TypeOK
  <1>17. u.stopped \/ u.listed
    BY <1>6, <1>12
  <1> QED
    BY <1>5, <1>11, <1>12, <1>13, <1>14, <1>15, <1>16, <1>17, AttachLocal

\* subscribe() waits for the setup or attaches.
LEMMA SubscribeLocal ==
    ASSUME IInv, NEW s \in Subs, Subscribe(s)
    PROVE  \E u, d : Local(s, u, d)
  <1>1. spent' \in Nat /\ UNCHANGED <<served, link, open, gen, active, accepted, setup>>
    BY OneOf, SpendType, RabbitMqConstants DEF Subscribe
  <1>2. CASE active = 0 /\ Running
    <2>1. sub[s] \in Subscription /\ sub \in [Subs -> Subscription]
      BY OneOf
    <2>2. PICK x : x = "setup" /\ x \in AttachCall \cup {"setup", "select"}
      OBVIOUS
    <2>3. x \in AttachCall \cup {"setup", "select"}
      BY <2>2
    <2>4. PICK e : e = [sub[s] EXCEPT !.pc = "subscribing"] /\ e \in Subscription
      BY <2>1, SubStepUpdates
    <2>5. PICK f : f = [e EXCEPT !.listed = TRUE] /\ f \in Subscription
      BY <2>4, SubFlagUpdates
    <2>6. PICK u : u = [f EXCEPT !.call = x] /\ u \in Subscription
      BY <2>3, <2>5, SubStepUpdates
    <2>7. SameHandle(sub[s], u) /\ u.listed /\ u.stopped = sub[s].stopped
      BY <2>1, <2>4, <2>5, <2>6 DEF Subscription, SameHandle
    <2>8. sub' = [sub EXCEPT ![s] = u] /\ con' = con
      BY <1>2, <2>1, <2>2, <2>4, <2>5, <2>6 DEF Subscribe
    <2>9. Pair(u, con[s], link, open, gen)
      BY <2>7, OneOf DEF Pair, SameHandle
    <2> QED
      BY <1>1, <2>6, <2>7, <2>8, <2>9, SubLocal DEF SameHandle
  <1>3. CASE ~(active = 0 /\ Running)
    BY <1>1, <1>3, SelectActiveLocal DEF Subscribe
  <1> QED
    BY <1>2, <1>3

\* subscribe() goes on after the setup.
LEMMA SubscribeGoesOnLocal ==
    ASSUME IInv, NEW s \in Subs, SubscribeGoesOn(s)
    PROVE  \E u, d : Local(s, u, d)
  BY OneOf, SelectActiveLocal DEF SubscribeGoesOn, channel

\* A setup's attach() for s, on entry or once more.
LEMMA SetupCallLocal ==
    ASSUME IInv, NEW s \in Subs, NEW call \in {"ok", "wait", "own"},
           setup.phase = "loop", sub[s].stopped \/ sub[s].listed,
           call = "own" => Entered(sub[s], gen) = "own",
           sub' = [sub EXCEPT ![s].attaching = IF call = "own" THEN "acquiring" ELSE @],
           MayBegin(s, call, link, gen),
           setup' \in Setup, setup'.phase = setup.phase, setup'.gen = setup.gen, setup'.at = s,
           UNCHANGED <<served, channel, gen, active, accepted>>
    PROVE  \E u, d : Local(s, u, d)
  <1>1. sub[s] \in Subscription /\ sub \in [Subs -> Subscription]
    BY OneOf
  <1>2. PICK a : a = IF call = "own" THEN "acquiring" ELSE sub[s].attaching
    OBVIOUS
  <1>3. a \in {"none", "acquiring", "discarding"}
    BY <1>1, <1>2 DEF Subscription
  <1>4. PICK u : u = [sub[s] EXCEPT !.attaching = a] /\ u \in Subscription
    BY <1>1, <1>3, SubStepUpdates
  <1>5. /\ u.native = sub[s].native /\ u.nativeGen = sub[s].nativeGen
        /\ u.stopped = sub[s].stopped /\ u.stopping = sub[s].stopping
        /\ u.listed = sub[s].listed /\ u.attaching = a
    BY <1>1, <1>4 DEF Subscription
  <1>6. sub' = [sub EXCEPT ![s] = u]
    BY <1>1, <1>2, <1>4
  <1>7. call = "own" => Entered(sub[s], gen) = "own" /\ ~Between /\ u.listed
    BY <1>5, OwnAbsent DEF Between
  <1>8. spent' \in Nat /\ UNCHANGED <<link, open, gen, active, accepted>> /\ served' = served
    BY OneOf DEF channel
  <1>9. /\ call = "own" => Entered(sub[s], gen) = "own" /\ link = link /\ ~Between /\ u.listed
        /\ u.attaching = IF call = "own" THEN "acquiring" ELSE sub[s].attaching
        /\ u.stopped \/ u.listed
    BY <1>2, <1>5, <1>7
  <1>10. \E d : Local(s, u, d)
    BY <1>4, <1>5, <1>6, <1>8, <1>9, AttachLocal
  <1> QED
    BY <1>10

\* A setup comes to its next subscription.
LEMMA SetupAttachesLocal ==
    ASSUME IInv, NEW s \in Subs, SetupAttaches(s)
    PROVE  \E u, d : Local(s, u, d)
  <1>1. setup.phase = "loop" /\ setup.gen = gen /\ setup \in Setup /\ sub[s].listed
    BY DEF SetupAttaches, IInv, GenInv, TypeOK, Unvisited
  <1>2. PICK call : call = Entered(sub[s], gen)
    OBVIOUS
  <1>3. call \in {"ok", "wait", "own"} /\ call \in AttachCall
    BY <1>2 DEF Entered, AttachCall
  <1>4. /\ setup' = [setup EXCEPT !.at = s, !.call = call, !.visited = @ \cup {s}]
        /\ sub' = [sub EXCEPT ![s].attaching = IF call = "own" THEN "acquiring" ELSE @]
        /\ MayBegin(s, call, link, gen) /\ UNCHANGED <<served, channel, gen, active, accepted>>
    BY <1>1, <1>2 DEF SetupAttaches
  <1>5. /\ setup' \in Setup /\ setup'.phase = setup.phase /\ setup'.gen = setup.gen
        /\ setup'.at = s
    BY <1>1, <1>3, <1>4 DEF Setup
  <1> QED
    BY <1>1, <1>2, <1>3, <1>4, <1>5, SetupCallLocal

\* A setup enters attach() again after an attachment it joined.
LEMMA SetupRechecksLocal ==
    ASSUME IInv, SetupRechecks
    PROVE  \E s, u, d : Local(s, u, d)
  <1>1. PICK s : s = setup.at
    OBVIOUS
  <1>2. /\ setup.call = "recheck" /\ setup.phase = "loop" /\ setup.gen = gen /\ setup \in Setup
        /\ s \in Subs /\ (sub[s].stopped \/ sub[s].listed)
    BY <1>1 DEF SetupRechecks, IInv, GenInv, TypeOK
  <1>3. PICK call : call = Reentered(sub[s], gen)
    OBVIOUS
  <1>4. /\ call \in {"ok", "wait", "own"} /\ call \in AttachCall
        /\ call = "own" => Entered(sub[s], gen) = "own"
    BY <1>3 DEF Reentered, Entered, AttachCall
  <1>5. /\ setup' = [setup EXCEPT !.call = call]
        /\ sub' = [sub EXCEPT ![s].attaching = IF call = "own" THEN "acquiring" ELSE @]
        /\ MayBegin(s, call, link, gen) /\ UNCHANGED <<served, channel, gen, active, accepted>>
    BY <1>1, <1>2, <1>3 DEF SetupRechecks
  <1>6. /\ setup' \in Setup /\ setup'.phase = setup.phase /\ setup'.gen = setup.gen
        /\ setup'.at = s
    BY <1>1, <1>2, <1>4, <1>5 DEF Setup
  <1> QED
    BY <1>2, <1>4, <1>5, <1>6, SetupCallLocal

\* An acquisition's continuation admits the consumer, or discards it as stale.
LEMMA AdmittedLocal ==
    ASSUME IInv, NEW s \in Subs, Admitted(s)
    PROVE  \E u, d : Local(s, u, d)
  <1>1. /\ con[s] \in Consumer /\ Sound(con[s]) /\ con[s].phase = "resolved"
        /\ sub[s] \in Subscription /\ Pair(sub[s], con[s], link, open, gen) /\ gen \in Nat
        /\ setup \in Setup /\ spent \in Nat
    BY OneOf DEF Admitted, IInv, TypeOK
  <1>2. PICK c : c = [con[s] EXCEPT !.phase = "running", !.tag = 1]
    OBVIOUS
  <1>3. c \in Consumer
    <2>1. PICK e : e = [con[s] EXCEPT !.phase = "running"] /\ e \in Consumer
      BY <1>1, StepUpdates
    <2>2. PICK n : n = 1 /\ n \in Nat
      OBVIOUS
    <2>3. [e EXCEPT !.tag = n] \in Consumer
      BY <2>1, <2>2, CountUpdates
    <2> QED
      BY <1>2, <2>1, <2>2, <2>3
  <1>4. /\ c.phase = "running" /\ c.link = con[s].link /\ c.gen = con[s].gen
        /\ c.call = con[s].call /\ c.acq = con[s].acq /\ c.tries = con[s].tries
        /\ c.stop = con[s].stop /\ c.requested = con[s].requested /\ c.tag = 1
    BY <1>1, <1>2 DEF Consumer
  <1>5. Sound(c) /\ KeepsHolding(con[s], c)
    <2>1. con[s].acq > 0
      BY <1>1 DEF Sound, Consumer
    <2> QED
      BY <1>1, <1>4, <2>1 DEF Sound, KeepsHolding, Holding
  <1>6. /\ sub[s].attaching = "acquiring" /\ ~sub[s].native
        /\ sub[s].stopping \in {"none", "attaching"} /\ (sub[s].stopped \/ sub[s].listed)
        /\ c.link <= link /\ c.gen <= gen /\ (open /\ c.link = link => c.gen = gen)
    BY <1>1, <1>4 DEF Pair, Subscription
  <1>7. UNCHANGED <<served, link, open, spent, gen, active, accepted>>
    BY DEF Admitted, channel
  <1>8. CASE sub[s].stopped \/ gen # con[s].gen
    <2>1. PICK d : d = beginStop(c)
      OBVIOUS
    <2>2. /\ d \in Consumer /\ Sound(d) /\ SamePlace(c, d) /\ KeepsHolding(c, d)
      BY <1>3, <1>4, <1>5, <2>1, BeginStopFacts
    <2>3. PICK u : u = [sub[s] EXCEPT !.attaching = "discarding"] /\ u \in Subscription
      BY <1>1, SubStepUpdates
    <2>4. /\ u.attaching = "discarding" /\ u.native = sub[s].native
          /\ u.nativeGen = sub[s].nativeGen /\ u.stopped = sub[s].stopped
          /\ u.listed = sub[s].listed /\ u.stopping = sub[s].stopping
      BY <1>1, <2>3 DEF Subscription
    <2>5. con' = [con EXCEPT ![s] = d] /\ sub' = [sub EXCEPT ![s] = u] /\ setup' = setup
      BY <1>2, <1>4, <1>8, <2>1, <2>3, OneOf DEF Admitted
    <2>6. Pair(u, d, link, open, gen)
      BY <1>1, <1>4, <1>6, <2>2, <2>4 DEF Pair, SamePlace
    <2>7. Serves(s, d)
      BY <1>4, <1>5, <1>7, <2>2, KeepsServes DEF KeepsHolding, SamePlace
    <2>8. Between => d.gen < gen
      BY <1>1, <1>4, <2>2 DEF IInv, GenInv, SamePlace
    <2> QED
      BY <1>1, <1>6, <1>7, <2>2, <2>3, <2>4, <2>5, <2>6, <2>7, <2>8 DEF Local
  <1>9. CASE ~(sub[s].stopped \/ gen # con[s].gen)
    <2>1. PICK v : v = Attached(sub[s], TRUE)
      OBVIOUS
    <2>2. /\ v \in Subscription /\ v.attaching = "none" /\ v.stopped = sub[s].stopped
          /\ v.listed = sub[s].listed /\ v.stopping = sub[s].stopping
      BY <1>1, <2>1, AttachedFacts
    <2>3. PICK w : w = [v EXCEPT !.native = TRUE] /\ w \in Subscription
      BY <2>2, SubFlagUpdates
    <2>4. PICK g : g = c.gen
      OBVIOUS
    <2>5. g \in Nat
      BY <1>3, <2>4 DEF Consumer
    <2>6. PICK u : u = [w EXCEPT !.nativeGen = g] /\ u \in Subscription
      BY <2>3, <2>5, SubEndUpdates
    <2>7. /\ u.attaching = "none" /\ u.stopped = sub[s].stopped /\ u.listed = sub[s].listed
          /\ u.stopping = sub[s].stopping /\ u.native /\ u.nativeGen = g
      BY <2>2, <2>3, <2>6 DEF Subscription
    <2>8. con' = [con EXCEPT ![s] = c] /\ sub' = [sub EXCEPT ![s] = u] /\ SetupHears(s, TRUE)
      BY <1>2, <1>4, <1>9, <2>1, <2>3, <2>4, <2>6, OneOf DEF Admitted
    <2>9. Pair(u, c, link, open, gen)
      BY <1>1, <1>4, <1>6, <1>9, <2>4, <2>7 DEF Pair
    <2>10. Serves(s, c)
      BY <1>4, <1>5, <1>7, KeepsServes
    <2>11. ~Between
      BY <1>1, <1>9 DEF IInv, GenInv
    <2>12. /\ setup' \in Setup /\ setup'.phase = setup.phase /\ setup'.gen = setup.gen
           /\ setup'.call # "none" => setup.call # "none" /\ setup'.at = setup.at
      BY <2>8, SetupHearsFacts
    <2> QED
      BY <1>1, <1>3, <1>5, <1>6, <1>7, <2>6, <2>7, <2>8, <2>9, <2>10, <2>11, <2>12 DEF Local
  <1> QED
    BY <1>8, <1>9

\* An attachment that ends without a consumer.
LEMMA AttachmentOver ==
    ASSUME IInv, NEW s \in Subs, NEW ok \in BOOLEAN, sub[s].attaching # "none", Absent(s),
           con' = [con EXCEPT ![s] = NoConsumer], sub' = [sub EXCEPT ![s] = Attached(@, ok)],
           SetupHears(s, ok), UNCHANGED <<served, channel, gen, active, accepted>>
    PROVE  \E u, d : Local(s, u, d)
  <1>1. /\ sub[s] \in Subscription /\ Pair(sub[s], con[s], link, open, gen)
        /\ sub \in [Subs -> Subscription] /\ spent \in Nat
    BY OneOf
  <1>2. PICK u : u = Attached(sub[s], ok)
    OBVIOUS
  <1>3. /\ u \in Subscription /\ u.attaching = "none" /\ u.stopped = sub[s].stopped
        /\ u.listed = sub[s].listed /\ u.native = sub[s].native /\ u.nativeGen = sub[s].nativeGen
        /\ u.stopping = IF sub[s].stopping = "attaching" /\ ~ok THEN "failed" ELSE sub[s].stopping
    BY <1>1, <1>2, AttachedFacts
  <1>4. Pair(u, NoConsumer, link, open, gen)
    BY <1>1, <1>3, NoConsumerFacts DEF Pair
  <1>5. Serves(s, NoConsumer)
    BY DEF Serves
  <1>6. /\ setup' \in Setup /\ setup'.phase = setup.phase /\ setup'.gen = setup.gen
        /\ setup'.call # "none" => setup.call # "none" /\ setup'.at = setup.at
    BY SetupHearsFacts
  <1>7. u.native => u.stopped
    BY <1>1, <1>3 DEF Pair
  <1>8. sub' = [sub EXCEPT ![s] = u]
    BY <1>1, <1>2
  <1> QED
    BY <1>1, <1>3, <1>4, <1>5, <1>6, <1>7, <1>8, NoConsumerFacts DEF Local, channel

\* The first acquisition failed.
LEMMA AttachRejectedLocal ==
    ASSUME IInv, NEW s \in Subs, AttachRejected(s)
    PROVE  \E u, d : Local(s, u, d)
  <1>1. Absent(s)
    BY NotHolding DEF AttachRejected, Holding, IInv
  <1> QED
    BY <1>1, AttachmentOver DEF AttachRejected

\* A stale consumer has been stopped.
LEMMA DiscardedLocal ==
    ASSUME IInv, NEW s \in Subs, Discarded(s)
    PROVE  \E u, d : Local(s, u, d)
  <1>1. Absent(s)
    <2>1. Sound(con[s]) /\ con[s].stop = "done"
      BY OneOf DEF Discarded
    <2>2. ~Holding(con[s])
      BY <2>1 DEF Holding, Sound
    <2> QED
      BY <2>2, NotHolding DEF IInv
  <1> QED
    BY <1>1, AttachmentOver DEF Discarded

\* A handler rejects.
LEMMA HandlerFailsLocal ==
    ASSUME IInv, NEW s \in Subs, HandlerFails(s)
    PROVE  \E u, d : Local(s, u, d)
  <1>1. /\ con[s] \in Consumer /\ Sound(con[s]) /\ con[s].phase = "running"
        /\ sub[s] \in Subscription /\ Pair(sub[s], con[s], link, open, gen)
        /\ sub \in [Subs -> Subscription] /\ setup \in Setup /\ spent \in Nat
        /\ con \in [Subs -> Consumer]
    BY OneOf DEF HandlerFails
  <1>2. PICK d : d = HandlerRejected(con[s])
    OBVIOUS
  <1>3. d \in Consumer /\ Sound(d) /\ SamePlace(con[s], d) /\ KeepsHolding(con[s], d)
    BY <1>1, <1>2, HandlerRejectedFacts
  <1>4. PICK u : u = IF gen = con[s].gen THEN discardSubscription(sub[s]) ELSE sub[s]
    OBVIOUS
  <1>5. /\ u \in Subscription /\ SameHandle(sub[s], u)
        /\ u.stopped \/ (u.stopped = sub[s].stopped /\ u.listed = sub[s].listed)
    BY <1>1, <1>4, DiscardFacts DEF SameHandle
  <1>6. /\ con' = [con EXCEPT ![s] = d] /\ sub' = [sub EXCEPT ![s] = u]
        /\ UNCHANGED <<served, link, open, spent, gen, active, accepted, setup>>
    BY <1>1, <1>2, <1>4 DEF HandlerFails, channel
  <1>7. Pair(u, d, link, open, gen)
    BY <1>1, <1>3, <1>5 DEF Pair, SamePlace, SameHandle
  <1>8. Serves(s, d)
    BY <1>3, <1>6, KeepsServes DEF SamePlace
  <1>9. Between => (u.native => u.stopped) /\ d.gen < gen
    BY <1>1, <1>3, <1>5 DEF IInv, GenInv, SamePlace, SameHandle
  <1> QED
    BY <1>1, <1>3, <1>5, <1>6, <1>7, <1>8, <1>9 DEF Local

\* A consumer's stop settles.
LEMMA ConsumerEndsLocal ==
    ASSUME IInv, NEW s \in Subs, ConsumerEnds(s)
    PROVE  \E u, d : Local(s, u, d)
  <1>1. /\ con[s] \in Consumer /\ Sound(con[s]) /\ con[s].stop = "drain"
        /\ sub[s] \in Subscription /\ Pair(sub[s], con[s], link, open, gen)
        /\ sub \in [Subs -> Subscription] /\ setup \in Setup /\ spent \in Nat
        /\ con \in [Subs -> Consumer]
    BY OneOf DEF ConsumerEnds, CanFinish
  <1>2. PICK d : d = Finished(con[s])
    OBVIOUS
  <1>3. d \in Consumer
    <2>1. PICK x : x = (con[s].clean /\ con[s].tail = "idle" /\ ~con[s].failed)
      OBVIOUS
    <2>2. x \in BOOLEAN
      BY <2>1
    <2>3. PICK e : e = [con[s] EXCEPT !.stop = "done"] /\ e \in Consumer
      BY <1>1, StepUpdates
    <2>4. [e EXCEPT !.clean = x] \in Consumer
      BY <2>2, <2>3, FlagUpdates
    <2>5. d = [e EXCEPT !.clean = x]
      BY <1>1, <1>2, <2>1, <2>3 DEF Finished, Consumer
    <2> QED
      BY <2>4, <2>5
  <1>4. /\ d.phase = con[s].phase /\ d.link = con[s].link /\ d.gen = con[s].gen
        /\ d.call = con[s].call /\ d.acq = con[s].acq /\ d.tries = con[s].tries
        /\ d.stop = "done" /\ d.requested = con[s].requested
    BY <1>1, <1>2 DEF Finished, Consumer
  <1>5. Sound(d) /\ con[s].phase = "running" /\ ~Holding(con[s])
    BY <1>1, <1>4 DEF Sound, Holding
  <1>6. PICK v : v = discardSubscription(sub[s])
    OBVIOUS
  <1>7. v \in Subscription /\ SameHandle(sub[s], v) /\ v.stopped
    BY <1>1, <1>6, DiscardFacts
  <1>8. PICK w : w = Settle(v, "failed")
    OBVIOUS
  <1>9. w \in Subscription /\ SameHandle(sub[s], w) /\ w.stopped
    BY <1>7, <1>8, SettleFacts DEF SameHandle
  <1>10. PICK u : /\ u = sub[s] \/ u = w
                  /\ sub' = [sub EXCEPT ![s] = u]
    BY <1>1, <1>6, <1>8 DEF ConsumerEnds
  <1>11. /\ u \in Subscription /\ SameHandle(sub[s], u)
         /\ u.stopped \/ (u.stopped = sub[s].stopped /\ u.listed = sub[s].listed)
    BY <1>1, <1>9, <1>10 DEF SameHandle
  <1>12. /\ con' = [con EXCEPT ![s] = d]
         /\ UNCHANGED <<served, link, open, spent, gen, active, accepted, setup>>
    BY <1>2 DEF ConsumerEnds, channel
  <1>13. Pair(u, d, link, open, gen)
    BY <1>1, <1>4, <1>5, <1>11 DEF Pair, SameHandle
  <1>14. Serves(s, d)
    BY <1>4, <1>5, <1>12, KeepsServes
  <1>15. Between => (u.native => u.stopped) /\ d.gen < gen
    BY <1>1, <1>4, <1>5, <1>11 DEF IInv, GenInv, SameHandle
  <1> QED
    BY <1>1, <1>3, <1>5, <1>10, <1>11, <1>12, <1>13, <1>14, <1>15 DEF Local

\* The stop of a subscription takes its native consumer, if it has one.
LEMMA StopTakesNativeLocal ==
    ASSUME IInv, NEW s \in Subs, StopTakesNative(s)
    PROVE  \E u, d : Local(s, u, d)
  <1>1. /\ con[s] \in Consumer /\ Sound(con[s])
        /\ sub[s] \in Subscription /\ Pair(sub[s], con[s], link, open, gen)
        /\ sub \in [Subs -> Subscription] /\ setup \in Setup /\ spent \in Nat
        /\ con \in [Subs -> Consumer] /\ sub[s].stopping = "attaching" /\ sub[s].attaching = "none"
    BY OneOf DEF StopTakesNative
  <1>2. PICK v : v = [sub[s] EXCEPT !.native = FALSE, !.nativeGen = 0]
    OBVIOUS
  <1>3. v \in Subscription
    <2>1. PICK e : e = [sub[s] EXCEPT !.native = FALSE] /\ e \in Subscription
      BY <1>1, SubFlagUpdates
    <2>2. PICK z : z = 0 /\ z \in Nat
      OBVIOUS
    <2>3. [e EXCEPT !.nativeGen = z] \in Subscription
      BY <2>1, <2>2, SubEndUpdates
    <2> QED
      BY <1>2, <2>1, <2>2, <2>3
  <1>4. /\ ~v.native /\ v.attaching = "none" /\ v.stopped = sub[s].stopped
        /\ v.listed = sub[s].listed /\ v.stopping = "attaching"
    BY <1>1, <1>2 DEF Subscription
  <1>5. sub[s].stopped
    BY <1>1 DEF Pair
  <1>6. UNCHANGED <<served, link, open, spent, gen, active, accepted, setup>>
    BY DEF StopTakesNative, channel
  <1>7. Between => (con[s].phase # "none" => con[s].gen < gen)
    BY DEF IInv, GenInv
  <1>8. CASE sub[s].native
    <2>1. PICK d : d = beginStop(con[s])
      OBVIOUS
    <2>2. con[s].phase = "running"
      BY <1>1, <1>8 DEF Pair
    <2>3. d \in Consumer /\ Sound(d) /\ SamePlace(con[s], d) /\ KeepsHolding(con[s], d)
      BY <1>1, <2>1, <2>2, BeginStopFacts
    <2>4. PICK u : u = [v EXCEPT !.stopping = "native"] /\ u \in Subscription
      BY <1>3, SubEndUpdates
    <2>5. /\ ~u.native /\ u.attaching = "none" /\ u.stopped /\ u.stopping = "native"
      BY <1>3, <1>4, <1>5, <2>4 DEF Subscription
    <2>6. con' = [con EXCEPT ![s] = d] /\ sub' = [sub EXCEPT ![s] = u]
      BY <1>1, <1>2, <1>8, <2>1, <2>4 DEF StopTakesNative
    <2>7. Pair(u, d, link, open, gen)
      BY <1>1, <2>2, <2>3, <2>5 DEF Pair, SamePlace
    <2>8. Serves(s, d)
      BY <1>6, <2>3, KeepsServes DEF SamePlace
    <2> QED
      BY <1>1, <1>6, <1>7, <2>3, <2>4, <2>5, <2>6, <2>7, <2>8 DEF Local, SamePlace
  <1>9. CASE ~sub[s].native
    <2>1. PICK w : w = [v EXCEPT !.stopping = "ok"] /\ w \in Subscription
      BY <1>3, SubEndUpdates
    <2>2. ~w.native /\ w.attaching = "none" /\ w.stopped /\ w.stopping = "ok"
      BY <1>3, <1>4, <1>5, <2>1 DEF Subscription
    <2>3. PICK u : u = Settle(w, "ok")
      OBVIOUS
    <2>4. u \in Subscription /\ ~u.native /\ u.attaching = "none" /\ u.stopped /\ u.stopping = "ok"
      BY <2>1, <2>2, <2>3, SettleFacts DEF SameHandle
    <2>5. con' = con /\ sub' = [sub EXCEPT ![s] = u]
      BY <1>1, <1>2, <1>9, <2>1, <2>3 DEF StopTakesNative
    <2>6. Pair(u, con[s], link, open, gen)
      BY <1>1, <1>9, <2>4 DEF Pair
    <2> QED
      BY <1>1, <1>6, <2>4, <2>5, <2>6, SubLocal
  <1> QED
    BY <1>8, <1>9

\* The stop of a subscription settles with that of its consumer.
LEMMA StopSettlesLocal ==
    ASSUME IInv, NEW s \in Subs, StopSettles(s)
    PROVE  \E u, d : Local(s, u, d)
  <1>1. /\ con[s] \in Consumer /\ Sound(con[s]) /\ con[s].stop = "done"
        /\ sub[s] \in Subscription /\ Pair(sub[s], con[s], link, open, gen)
        /\ sub \in [Subs -> Subscription] /\ setup \in Setup /\ spent \in Nat
        /\ sub[s].stopping = "native"
    BY OneOf DEF StopSettles
  <1>2. PICK how : how = IF con[s].clean THEN "ok" ELSE "failed"
    OBVIOUS
  <1>3. how \in {"ok", "failed"} /\ how \in {"none", "attaching", "native", "ok", "failed"}
    BY <1>2
  <1>4. PICK v : v = [sub[s] EXCEPT !.stopping = how] /\ v \in Subscription
    BY <1>1, <1>3, SubEndUpdates
  <1>5. /\ v.native = sub[s].native /\ v.attaching = sub[s].attaching
        /\ v.stopped = sub[s].stopped /\ v.stopping = how
    BY <1>1, <1>4 DEF Subscription
  <1>6. PICK u : u = Settle(v, how)
    OBVIOUS
  <1>7. /\ u \in Subscription /\ u.native = sub[s].native /\ u.attaching = sub[s].attaching
        /\ u.stopped = sub[s].stopped /\ u.stopping = how
    BY <1>3, <1>4, <1>5, <1>6, SettleFacts DEF SameHandle
  <1>8. /\ ~u.native /\ u.attaching = "none" /\ u.stopped
    BY <1>1, <1>7 DEF Pair
  <1>9. Absent(s)
    <2>1. ~Holding(con[s])
      BY <1>1 DEF Holding, Sound
    <2> QED
      BY <2>1, NotHolding DEF IInv
  <1>10. /\ con' = [con EXCEPT ![s] = NoConsumer] /\ sub' = [sub EXCEPT ![s] = u]
         /\ UNCHANGED <<served, link, open, spent, gen, active, accepted, setup>>
    BY <1>1, <1>2, <1>4, <1>6 DEF StopSettles, channel
  <1>11. Pair(u, NoConsumer, link, open, gen)
    BY <1>3, <1>7, <1>8, NoConsumerFacts DEF Pair
  <1>12. Serves(s, NoConsumer)
    BY <1>9, <1>10 DEF Serves
  <1> QED
    BY <1>1, <1>7, <1>8, <1>10, <1>11, <1>12, NoConsumerFacts DEF Local
-----------------------------------------------------------------------------
(* Connections and setups: the consumers stay, the channel or the generation changes. *)

\* disconnectGeneration makes listed subscriptions forget their handles, no more.
LEMMA DisconnectedFacts ==
    ASSUME IInv, sub' = Disconnected(sub)
    PROVE  /\ sub' \in [Subs -> Subscription]
           /\ \A s \in Subs :
                /\ sub'[s].listed = sub[s].listed /\ sub'[s].stopped = sub[s].stopped
                /\ sub'[s].attaching = sub[s].attaching /\ sub'[s].stopping = sub[s].stopping
                /\ sub'[s].native => sub[s].native
                /\ sub'[s].native => sub[s].stopped
  <1>1. ASSUME NEW s \in Subs
        PROVE  /\ sub'[s] \in Subscription
               /\ sub'[s].listed = sub[s].listed /\ sub'[s].stopped = sub[s].stopped
               /\ sub'[s].attaching = sub[s].attaching /\ sub'[s].stopping = sub[s].stopping
               /\ sub'[s].native => sub[s].native
               /\ sub'[s].native => sub[s].stopped
    <2>1. sub[s] \in Subscription /\ Pair(sub[s], con[s], link, open, gen)
      BY OneOf
    <2>2. PICK e : e = [sub[s] EXCEPT !.native = FALSE] /\ e \in Subscription
      BY <2>1, SubFlagUpdates
    <2>3. PICK z : z = 0 /\ z \in Nat
      OBVIOUS
    <2>4. PICK v : v = [e EXCEPT !.nativeGen = z] /\ v \in Subscription
      BY <2>2, <2>3, SubEndUpdates
    <2>5. sub'[s] = IF sub[s].listed THEN v ELSE sub[s]
      BY <2>2, <2>3, <2>4 DEF Disconnected
    <2>6. /\ v.listed = sub[s].listed /\ v.stopped = sub[s].stopped
          /\ v.attaching = sub[s].attaching /\ v.stopping = sub[s].stopping /\ v.native = FALSE
      BY <2>1, <2>2, <2>4 DEF Subscription
    <2>7. sub[s].native /\ ~sub[s].listed => sub[s].stopped
      BY <2>1 DEF Pair
    <2> QED
      BY <2>1, <2>4, <2>5, <2>6, <2>7
  <1>2. sub' = [s \in Subs |-> sub'[s]]
    BY DEF Disconnected
  <1>3. sub' \in [Subs -> Subscription]
    BY <1>1, <1>2
  <1> QED
    BY <1>1, <1>3

\* Whoever waited for a setup goes on; handles stay.
LEMMA WokenFacts ==
    ASSUME IInv, NEW how \in {"failed", "select"}, sub' = Woken(how)
    PROVE  /\ sub' \in [Subs -> Subscription]
           /\ \A s \in Subs :
                /\ SameHandle(sub[s], sub'[s])
                /\ sub'[s].listed = sub[s].listed /\ sub'[s].stopped = sub[s].stopped
  <1>1. ASSUME NEW s \in Subs
        PROVE  /\ sub'[s] \in Subscription /\ SameHandle(sub[s], sub'[s])
               /\ sub'[s].listed = sub[s].listed /\ sub'[s].stopped = sub[s].stopped
    <2>1. sub[s] \in Subscription
      BY OneOf
    <2>2. how \in AttachCall \cup {"setup", "select"}
      BY DEF AttachCall
    <2>3. PICK v : v = [sub[s] EXCEPT !.call = how] /\ v \in Subscription
      BY <2>1, <2>2, SubStepUpdates
    <2>4. SameHandle(sub[s], v) /\ v.listed = sub[s].listed /\ v.stopped = sub[s].stopped
      BY <2>1, <2>3 DEF Subscription, SameHandle
    <2>5. sub'[s] = IF sub[s].call = "setup" THEN v ELSE sub[s]
      BY <2>3 DEF Woken
    <2> QED
      BY <2>1, <2>3, <2>4, <2>5 DEF SameHandle
  <1>2. sub' = [s \in Subs |-> sub'[s]]
    BY DEF Woken
  <1>3. sub' \in [Subs -> Subscription]
    BY <1>1, <1>2
  <1> QED
    BY <1>1, <1>3

\* No setup, or one that was rejected.
LEMMA SetupValues ==
    /\ Idle \in Setup /\ Idle.phase = "idle" /\ Idle.call = "none"
    /\ \A p \in {"idle", "channel", "lost", "dead"} :
         /\ [Idle EXCEPT !.phase = p] \in Setup
         /\ [Idle EXCEPT !.phase = p].phase = p /\ [Idle EXCEPT !.phase = p].call = "none"
  BY DEF Idle, Setup, AttachCall

\* The channel is closed: nothing is left on the server.
LEMMA ClosedServed ==
    ASSUME served' = {}
    PROVE  ServedInv' /\ served' \subseteq Subs \X Nat \X Nat
  BY DEF ServedInv

\* The server has nothing while the channel is closed.
LEMMA NothingServed ==
    ASSUME IInv, ~open
    PROVE  served = {}
  <1>1. ASSUME NEW t \in served PROVE FALSE
    <2>1. t \in Subs \X Nat \X Nat
      BY <1>1 DEF IInv, TypeOK
    <2>2. PICK r \in Subs, l \in Nat, k \in Nat : t = <<r, l, k>>
      BY <2>1
    <2> QED
      BY <1>1, <2>2 DEF IInv, ServedInv
  <1> QED
    BY <1>1

\* A channel that closes in the same generation leaves every pair.
LEMMA PairCloses ==
    ASSUME NEW u, NEW v, NEW c, NEW l, NEW o, NEW g, Pair(u, c, l, o, g),
           SameHandle(u, v), v.listed = u.listed, v.stopped = u.stopped
    PROVE  Pair(v, c, l, FALSE, g) /\ Pair(v, c, l, o, g)
  BY DEF Pair, SameHandle

\* The connection is lost.
LEMMA DropInv ==
    ASSUME IInv, Drop
    PROVE  IInv'
  <1>1. /\ con \in [Subs -> Consumer] /\ setup \in Setup /\ link \in Nat /\ gen \in Nat
        /\ active \in Nat /\ accepted \in BOOLEAN /\ spent \in Nat
    BY DEF IInv, TypeOK
  <1>2. /\ open /\ open' = FALSE /\ served' = {} /\ UNCHANGED <<con, link, accepted, setup>>
        /\ spent' \in Nat
    BY <1>1, SpendType DEF Drop
  <1>3. CASE setup.phase = "idle"
    <2>1. gen' = gen + 1 /\ active' = 0 /\ sub' = Disconnected(sub)
      BY <1>3 DEF Drop
    <2>2. /\ sub' \in [Subs -> Subscription]
          /\ \A s \in Subs :
                /\ sub'[s].listed = sub[s].listed /\ sub'[s].stopped = sub[s].stopped
                /\ sub'[s].attaching = sub[s].attaching /\ sub'[s].stopping = sub[s].stopping
                /\ sub'[s].native => sub[s].native
                /\ sub'[s].native => sub[s].stopped
      BY <2>1, DisconnectedFacts
    <2>3. TypeOK' /\ ServedInv' /\ ConInv'
      <3>1. gen' \in Nat /\ active' \in Nat
        BY <1>1, <2>1
      <3>2. TypeOK'
        BY <1>1, <1>2, <2>2, <3>1, ClosedServed DEF TypeOK
      <3> QED
        BY <1>2, <3>2, ClosedServed DEF IInv, ConInv
    <2>4. ASSUME NEW s \in Subs
          PROVE  /\ Pair(sub'[s], con[s], link, FALSE, gen + 1)
                 /\ con[s].phase # "none" => con[s].gen < gen + 1
      <3>1. con[s] \in Consumer /\ Pair(sub[s], con[s], link, open, gen)
        BY OneOf
      <3>2. con[s].gen \in Nat
        BY <3>1 DEF Consumer
      <3> QED
        BY <1>1, <2>2, <3>1, <3>2 DEF Pair
    <2>5. PairInv'
      BY <1>2, <2>1, <2>4 DEF PairInv
    <2>6. GenInv'
      <3>1. setup.call # "none" => setup.phase = "loop"
        BY DEF IInv, GenInv
      <3> QED
        BY <1>2, <1>3, <2>1, <2>2, <2>4, <3>1 DEF GenInv, Between
    <2> QED
      BY <2>3, <2>5, <2>6 DEF IInv
  <1>4. CASE setup.phase # "idle"
    <2>1. gen' = gen /\ active' = active /\ sub' = sub
      BY <1>4 DEF Drop
    <2>2. TypeOK' /\ ServedInv' /\ ConInv'
      BY <1>1, <1>2, <2>1, ClosedServed DEF TypeOK, IInv, ConInv
    <2>3. ASSUME NEW s \in Subs PROVE Pair(sub[s], con[s], link, FALSE, gen)
      BY OneOf, PairCloses DEF SameHandle
    <2>4. PairInv'
      BY <1>2, <2>1, <2>3 DEF PairInv
    <2>5. setup.phase # "channel"
      BY <1>2 DEF IInv, GenInv
    <2>6. GenInv'
      BY <1>2, <1>4, <2>1, <2>5 DEF IInv, GenInv, Between
    <2> QED
      BY <2>2, <2>4, <2>6 DEF IInv
  <1> QED
    BY <1>3, <1>4

\* The connection calls setup again.
LEMMA ReconnectInv ==
    ASSUME IInv, Reconnect
    PROVE  IInv'
  <1>1. /\ ~open /\ setup.phase = "idle" /\ setup' = [Idle EXCEPT !.phase = "channel"]
        /\ UNCHANGED <<con, served, link, open, spent, gen, active, accepted, sub>>
    BY DEF Reconnect, channel
  <1>2. setup' \in Setup /\ setup'.phase = "channel" /\ setup'.call = "none"
    BY <1>1, SetupValues
  <1>3. TypeOK'
    BY <1>1, <1>2 DEF IInv, TypeOK
  <1>4. ConInv' /\ ServedInv' /\ PairInv'
    BY <1>1 DEF IInv, ConInv, ServedInv, PairInv
  <1>5. Between
    BY <1>1 DEF Between
  <1>6. GenInv'
    BY <1>1, <1>2, <1>5 DEF IInv, GenInv
  <1> QED
    BY <1>3, <1>4, <1>6 DEF IInv

\* A rejected setup ends as the connector or the connection takes it.
LEMMA RejectedFacts ==
    Rejected \in Setup /\ Rejected.phase \in {"lost", "dead"} /\ Rejected.call = "none"
  <1>1. PICK p : p = IF accepted THEN "lost" ELSE "dead"
    OBVIOUS
  <1>2. p \in {"lost", "dead"} /\ p \in {"idle", "channel", "lost", "dead"}
    BY <1>1
  <1>3. Rejected = [Idle EXCEPT !.phase = p]
    BY <1>1 DEF Rejected
  <1> QED
    BY <1>2, <1>3, SetupValues

\* A setup ends, well or not, in the generation it began: only waits are over.
LEMMA SetupEndsInv ==
    ASSUME IInv, NEW how \in {"failed", "select"}, sub' = Woken(how),
           UNCHANGED <<con, link, gen>>,
           open' \in BOOLEAN, open' => open, ServedInv', served' \subseteq served, spent' \in Nat,
           accepted' \in BOOLEAN, active' \in {active, link},
           setup' \in Setup, setup'.call = "none",
           \/ setup'.phase \in {"lost", "dead"} /\ ~open'
           \/ setup'.phase = "idle" /\ open'
    PROVE  IInv'
  <1>1. /\ con \in [Subs -> Consumer] /\ link \in Nat /\ gen \in Nat /\ active \in Nat
        /\ active \in {0, link} /\ served \subseteq Subs \X Nat \X Nat /\ open \in BOOLEAN
    BY DEF IInv, TypeOK, GenInv
  <1>2. /\ sub' \in [Subs -> Subscription]
        /\ \A s \in Subs :
             /\ SameHandle(sub[s], sub'[s])
             /\ sub'[s].listed = sub[s].listed /\ sub'[s].stopped = sub[s].stopped
    BY WokenFacts
  <1>3. TypeOK'
    BY <1>1, <1>2 DEF TypeOK
  <1>4. ConInv'
    BY DEF IInv, ConInv
  <1>5. ASSUME NEW s \in Subs PROVE Pair(sub'[s], con[s], link, open', gen)
    <2>1. Pair(sub'[s], con[s], link, FALSE, gen) /\ Pair(sub'[s], con[s], link, open, gen)
      BY <1>2, OneOf, PairCloses
    <2>2. open' = FALSE \/ open' = open
      BY <1>1
    <2> QED
      BY <2>1, <2>2
  <1>6. PairInv'
    BY <1>5 DEF PairInv
  <1>7. GenInv'
    BY <1>1 DEF GenInv, Between
  <1> QED
    BY <1>3, <1>4, <1>6, <1>7 DEF IInv

\* A setup gets no channel.
LEMMA ChannelFailsInv ==
    ASSUME IInv, ChannelFails
    PROVE  IInv'
  <1>1. /\ setup.phase = "channel" /\ setup' = Rejected /\ sub' = Woken("failed")
        /\ UNCHANGED <<con, served, link, open, gen, active, accepted>> /\ spent' \in Nat
    BY SpendType DEF ChannelFails, IInv, TypeOK
  <1>2. ~open /\ open \in BOOLEAN /\ accepted \in BOOLEAN
    BY <1>1 DEF IInv, GenInv, TypeOK
  <1>3. ServedInv'
    BY <1>1 DEF IInv, ServedInv
  <1> QED
    BY <1>1, <1>2, <1>3, RejectedFacts, SetupEndsInv

\* A replay failed: the channel is closed.
LEMMA SetupRejectsInv ==
    ASSUME IInv, SetupRejects
    PROVE  IInv'
  <1>1. /\ open' = FALSE /\ served' = {} /\ setup' = Rejected /\ sub' = Woken("failed")
        /\ UNCHANGED <<con, link, spent, gen, active, accepted>>
    BY DEF SetupRejects
  <1>2. spent \in Nat /\ accepted \in BOOLEAN
    BY DEF IInv, TypeOK
  <1> QED
    BY <1>1, <1>2, ClosedServed, RejectedFacts, SetupEndsInv

\* The new channel is published.
LEMMA SetupDoneInv ==
    ASSUME IInv, SetupDone
    PROVE  IInv'
  <1>1. /\ active' = link /\ accepted' = TRUE /\ sub' = Woken("select")
        /\ UNCHANGED <<con, served, link, open, spent, gen>>
    BY DEF SetupDone, channel
  <1>2. PICK p : p = IF open THEN "idle" ELSE "lost"
    OBVIOUS
  <1>3. p \in {"idle", "channel", "lost", "dead"} /\ setup' = [Idle EXCEPT !.phase = p]
    BY <1>2 DEF SetupDone
  <1>4. setup' \in Setup /\ setup'.phase = p /\ setup'.call = "none"
    BY <1>3, SetupValues
  <1>5. spent \in Nat /\ open \in BOOLEAN
    BY DEF IInv, TypeOK
  <1>6. ServedInv'
    BY <1>1 DEF IInv, ServedInv
  <1> QED
    BY <1>1, <1>2, <1>4, <1>5, <1>6, SetupEndsInv

\* The loss is reported: a new generation without handles.
LEMMA LossReportedInv ==
    ASSUME IInv, LossReported
    PROVE  IInv'
  <1>1. /\ con \in [Subs -> Consumer] /\ link \in Nat /\ gen \in Nat /\ open \in BOOLEAN
        /\ accepted \in BOOLEAN /\ spent \in Nat /\ served \subseteq Subs \X Nat \X Nat
    BY DEF IInv, TypeOK
  <1>2. /\ gen' = gen + 1 /\ active' = 0 /\ sub' = Disconnected(sub) /\ setup' = Idle
        /\ UNCHANGED <<con, served, link, open, spent, accepted>>
    BY DEF LossReported, channel
  <1>3. open = FALSE
    BY <1>1 DEF LossReported, IInv, GenInv
  <1>4. /\ sub' \in [Subs -> Subscription]
        /\ \A s \in Subs :
              /\ sub'[s].listed = sub[s].listed /\ sub'[s].stopped = sub[s].stopped
              /\ sub'[s].attaching = sub[s].attaching /\ sub'[s].stopping = sub[s].stopping
              /\ sub'[s].native => sub[s].native
              /\ sub'[s].native => sub[s].stopped
    BY <1>2, DisconnectedFacts
  <1>5. TypeOK'
    <2>1. gen' \in Nat /\ active' \in Nat /\ setup' \in Setup
      BY <1>1, <1>2, SetupValues
    <2> QED
      BY <1>1, <1>2, <1>4, <2>1 DEF TypeOK
  <1>6. ConInv' /\ ServedInv'
    BY <1>2 DEF IInv, ConInv, ServedInv
  <1>7. ASSUME NEW s \in Subs
        PROVE  /\ Pair(sub'[s], con[s], link, FALSE, gen + 1)
               /\ con[s].phase # "none" => con[s].gen < gen + 1
    <2>1. con[s] \in Consumer /\ Pair(sub[s], con[s], link, open, gen)
      BY OneOf
    <2>2. con[s].gen \in Nat
      BY <2>1 DEF Consumer
    <2> QED
      BY <1>1, <1>4, <2>1, <2>2 DEF Pair
  <1>8. PairInv'
    BY <1>2, <1>3, <1>7 DEF PairInv
  <1>9. GenInv'
    BY <1>2, <1>3, <1>4, <1>7, SetupValues DEF GenInv, Between
  <1> QED
    BY <1>5, <1>6, <1>8, <1>9 DEF IInv

\* A new channel: every consumer is of an earlier one, and no live handle is left.
LEMMA ChannelReadyInv ==
    ASSUME IInv, ChannelReady
    PROVE  IInv'
  <1>1. /\ con \in [Subs -> Consumer] /\ sub \in [Subs -> Subscription] /\ setup \in Setup
        /\ link \in Nat /\ gen \in Nat /\ accepted \in BOOLEAN /\ spent \in Nat
    BY DEF IInv, TypeOK
  <1>2. /\ setup.phase = "channel" /\ link' = link + 1 /\ open' = TRUE /\ gen' = gen + 1
        /\ active' = 0 /\ UNCHANGED <<con, served, spent, accepted, sub>>
    BY DEF ChannelReady
  <1>3. PICK g : g = gen + 1 /\ g \in Nat
    BY <1>1
  <1>4. setup' = [setup EXCEPT !.phase = "loop", !.gen = g]
    BY <1>2, <1>3 DEF ChannelReady
  <1>5. /\ setup' \in Setup /\ setup'.phase = "loop" /\ setup'.gen = g
        /\ setup'.call = setup.call
    BY <1>1, <1>3, <1>4 DEF Setup
  <1>6. ~open /\ Between /\ setup.call = "none"
    BY <1>2 DEF IInv, GenInv, Between
  <1>7. served = {}
    BY <1>6, NothingServed
  <1>8. TypeOK'
    <2>1. link' \in Nat /\ gen' \in Nat /\ active' \in Nat
      BY <1>1, <1>2
    <2> QED
      BY <1>1, <1>2, <1>5, <1>7, <2>1 DEF TypeOK
  <1>9. ConInv' /\ ServedInv'
    BY <1>2, <1>7, ClosedServed DEF IInv, ConInv
  <1>10. ASSUME NEW s \in Subs PROVE Pair(sub[s], con[s], link + 1, TRUE, gen + 1)
    <2>1. con[s] \in Consumer /\ Pair(sub[s], con[s], link, open, gen)
      BY OneOf
    <2>2. con[s].gen \in Nat /\ con[s].link \in Nat
      BY <2>1 DEF Consumer
    <2>3. sub[s].native => sub[s].stopped
      BY <1>6 DEF IInv, GenInv
    <2> QED
      BY <1>1, <2>1, <2>2, <2>3 DEF Pair
  <1>11. PairInv'
    BY <1>2, <1>10 DEF PairInv
  <1>12. GenInv'
    BY <1>2, <1>3, <1>5, <1>6 DEF GenInv, Between
  <1> QED
    BY <1>8, <1>9, <1>11, <1>12 DEF IInv
-----------------------------------------------------------------------------
(* The theorems. *)

\* At first there is no channel and no consumer.
LEMMA InitIInv == Init => IInv
  <1> SUFFICES ASSUME Init PROVE IInv
    OBVIOUS
  <1>1. /\ NewSub \in Subscription /\ ~NewSub.native /\ NewSub.attaching = "none"
        /\ NewSub.stopping = "none"
    BY DEF NewSub, Subscription, AttachCall
  <1>2. TypeOK
    BY <1>1, NoConsumerFacts, SetupValues DEF Init, TypeOK
  <1>3. ConInv /\ ServedInv
    BY NoConsumerFacts DEF Init, ConInv, ServedInv
  <1>4. PairInv
    BY <1>1, NoConsumerFacts DEF Init, PairInv, Pair
  <1>5. GenInv
    BY <1>1, NoConsumerFacts, SetupValues DEF Init, GenInv, Between
  <1> QED
    BY <1>2, <1>3, <1>4, <1>5 DEF IInv

\* Every step of a subscription or its consumer is local to it.
LEMMA StepLocal ==
    ASSUME IInv, NEW s \in Subs,
           \/ BrokerStep(s) \/ Consume(s)
           \/ Subscribe(s) \/ CancelSubscribe(s) \/ Unsubscribe(s) \/ HandlerFails(s)
           \/ ServerStep(s) /\ UNCHANGED <<gen, active, accepted, setup, sub>>
    PROVE  \E r, u, d : Local(r, u, d)
  <1>1. CASE BrokerStep(s)
    BY <1>1, SubscribeGoesOnLocal, AttachmentEndsLocal, AdmittedLocal, AttachRejectedLocal,
       DiscardedLocal, ConsumerEndsLocal, StopTakesNativeLocal, StopSettlesLocal DEF BrokerStep
  <1>2. CASE Consume(s)
    BY <1>2, DeclaredLocal, ConsumedLocal, RecoveredLocal, DelayOverLocal, TailLocal,
       StopTakesTagLocal, CancelAnsweredLocal, CallRejectedLocal DEF Consume, ConsumerStep
  <1>3. CASE ServerStep(s) /\ UNCHANGED <<gen, active, accepted, setup, sub>>
    BY <1>3, TailLocal, ServerCancelsLocal, LateCancelLocal DEF ServerStep
  <1> QED
    BY <1>1, <1>2, <1>3, SubscribeLocal, CancelSubscribeLocal, UnsubscribeLocal, HandlerFailsLocal

\* Every step keeps the invariant.
LEMMA NextIInv ==
    ASSUME IInv, [Next]_vars
    PROVE  IInv'
  <1>1. CASE UNCHANGED vars
    BY <1>1 DEF vars, IInv, TypeOK, ConInv, ServedInv, PairInv, GenInv, Between
  <1>2. CASE SetupStep
    BY <1>2, ReconnectInv, ChannelReadyInv, SetupRechecksLocal, SetupDoneInv, SetupRejectsInv,
       LossReportedInv, SetupAttachesLocal, LocalInv DEF SetupStep
  <1>3. ASSUME NEW s \in Subs,
               \/ BrokerStep(s) \/ Consume(s)
               \/ Subscribe(s) \/ CancelSubscribe(s) \/ Unsubscribe(s) \/ HandlerFails(s)
               \/ ServerStep(s) /\ UNCHANGED <<gen, active, accepted, setup, sub>>
        PROVE  IInv'
    BY <1>3, StepLocal, LocalInv
  <1> QED
    BY <1>1, <1>2, <1>3, DropInv, ChannelFailsInv DEF Next

\* What the invariant says of the server.
LEMMA IInvNoZombie == IInv => NoZombieConsumer
  <1> SUFFICES ASSUME IInv, NEW s \in Subs
               PROVE  /\ Cardinality(Served(s)) <= 1
                      /\ con[s].stop = "done" \/ sub[s].stopping \in {"ok", "failed"}
                         => Served(s) = {}
    BY DEF NoZombieConsumer
  <1>1. Served(s) \subseteq {<<s, link, con[s].acq>>}
    <2>1. ASSUME NEW t \in Served(s) PROVE t = <<s, link, con[s].acq>>
      <3>1. t \in served /\ t[1] = s /\ t \in Subs \X Nat \X Nat
        BY <2>1 DEF Served, IInv, TypeOK
      <3>2. PICK r \in Subs, l \in Nat, k \in Nat : t = <<r, l, k>>
        BY <3>1
      <3> QED
        BY <3>1, <3>2 DEF IInv, ServedInv
    <2> QED
      BY <2>1
  <1>2. Cardinality(Served(s)) <= 1
    <2>1. CASE Served(s) = {}
      BY <2>1, FS_EmptySet
    <2>2. CASE Served(s) # {}
      <3>1. Served(s) = {<<s, link, con[s].acq>>}
        BY <1>1, <2>2
      <3>2. Cardinality({<<s, link, con[s].acq>>}) = 1
        BY FS_Singleton
      <3> QED
        BY <3>1, <3>2
    <2> QED
      BY <2>1, <2>2
  <1>3. ASSUME con[s].stop = "done" \/ sub[s].stopping \in {"ok", "failed"}
        PROVE  Absent(s)
    <2>1. con[s] \in Consumer /\ Sound(con[s]) /\ Pair(sub[s], con[s], link, open, gen)
      BY OneOf
    <2>2. ~(Holding(con[s]) /\ Up(con[s]))
      <3>1. CASE con[s].stop = "done"
        BY <2>1, <3>1 DEF Holding, Sound
      <3>2. CASE sub[s].stopping \in {"ok", "failed"}
        BY <2>1, <3>2 DEF Holding, Up, Pair
      <3> QED
        BY <1>3, <3>1, <3>2
    <2> QED
      BY <2>2, NotHolding DEF IInv
  <1>4. Absent(s) => Served(s) = {}
    <2>1. ASSUME Absent(s), NEW t \in Served(s) PROVE FALSE
      BY <1>1, <2>1 DEF Absent, Served
    <2> QED
      BY <2>1
  <1> QED
    BY <1>2, <1>3, <1>4

\* Consumers, subscriptions and the setup keep their shape, for any number of them.
THEOREM TypeCorrect == Spec => []TypeOK
  <1>1. IInv => TypeOK
    BY DEF IInv
  <1> QED
    BY <1>1, InitIInv, NextIInv, PTL DEF Spec

\* A subscription never has two consumers on the server, and none after its consumer or
\* its stop has settled, however cancel notices, losses, replays, failed handlers and
\* unsubscribes interleave (acquireConsumer, recoverConsumer, beginStop, attach).
THEOREM NoZombieConsumerTheorem == Spec => []NoZombieConsumer
  <1> QED
    BY InitIInv, NextIInv, IInvNoZombie, PTL DEF Spec
===============================================================================
