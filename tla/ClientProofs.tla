----------------------------- MODULE ClientProofs -----------------------------
(***************************************************************************)
(* Proofs about Client, for any calls, endpoints, attempts and pool size:   *)
(* every open transport client has one keeper, the drain misses none, the   *)
(* selector's counters balance, and nothing answered is sent again.         *)
(***************************************************************************)
EXTENDS Client, FiniteSetTheorems, SequenceTheorems, TLAPS

Phases == {"new", "resolving", "dialing", "refused", "rejecting", "fetching",
           "releasing", "failed", "backoff", "done"}

CallRecord == [phase : Phases, canceled : BOOLEAN, kind : Kinds, attempt : 0 .. MaxAttempts,
               at : Endpoints \cup {None}, attached : BOOLEAN, owner : Owners \cup {None},
               received : BOOLEAN, ok : BOOLEAN, completed : BOOLEAN, committed : BOOLEAN]
OwnerRecord == [at : Endpoints \cup {None}, state : {"none", "open", "closing", "closeFailed"}]
EndpointRecord == [inFlight : Int, failures : Int, until : Int]

\* The values the variables take.
TypeOK ==
    /\ call \in [Calls -> CallRecord]
    /\ owner \in [Owners -> OwnerRecord]
    /\ idle \in Seq(Owners)
    /\ bodies \subseteq Owners
    /\ ep \in [Endpoints -> EndpointRecord]
    /\ now \in Nat
    /\ closed \in BOOLEAN
    /\ drain \in [state : {"none", "draining", "drained"}, owners : SUBSET Owners,
                  calls : SUBSET Calls]

Early == {"new", "resolving", "dialing", "refused"}
Holding == {"rejecting", "fetching", "releasing"}
Reporting == {"dialing", "refused", "rejecting", "fetching"}

\* What a call's record says of itself, by its phase: which phases hold a
\* transport client and owe feedback, and what is known of the exchange.
RecordFits(r) ==
    /\ r.owner # None <=> r.phase \in Holding
    /\ r.attached => r.phase \in Reporting /\ r.at \in Endpoints
    /\ r.phase \in Reporting => r.at \in Endpoints
    /\ r.phase \notin {"new", "done"} => r.attempt >= 1
    /\ r.phase \in Early \cup {"rejecting", "fetching"} => ~r.ok /\ ~r.received
    /\ r.phase = "failed" => /\ r.ok => r.completed
                             /\ r.kind = "stream" /\ r.received /\ ~r.ok => r.committed
    /\ r.phase = "backoff" => /\ ~r.ok
                              /\ ~(r.kind = "stream" /\ r.received)
                              /\ r.attempt < MaxAttempts
    /\ r.phase \in {"new", "done"} => r.attempt = 0
CallInv == \A c \in Calls : RecordFits(call[c])

\* The attempt that dials this owner is past its dial.
Spent(o) ==
    \/ call[o[1]].phase = "done"
    \/ o[2] < call[o[1]].attempt
    \/ o[2] = call[o[1]].attempt /\ call[o[1]].phase \notin Early

\* A sequence without repetitions, and its members.
Distinct(s) == \A i, j \in 1 .. Len(s) : s[i] = s[j] => i = j
In(o, s) == \E i \in 1 .. Len(s) : s[i] = o

Pooled(o) == In(o, idle)
Held(o) == \E c \in Calls : call[c].owner = o
Kept(o) == Pooled(o) \/ Held(o) \/ o \in bodies

\* The places an owner may be kept in exclude each other, an open one is in
\* one of them, and an owner that is still to be dialled is in none.
KeeperInv ==
    /\ Len(idle) <= MaxIdle
    /\ Distinct(idle)
    /\ \A c, d \in Calls : call[c].owner = call[d].owner /\ call[c].owner # None => c = d
    /\ \A o \in Owners : /\ Pooled(o) => owner[o].state = "open" /\ ~Held(o) /\ o \notin bodies
                         /\ Held(o) => o \notin bodies
                         /\ owner[o].state = "open" => Kept(o)
                         /\ Kept(o) => Spent(o)

\* Once the client is closed nothing is open, no new dial begins, and what is
\* still closing is waited for by the drain or by the attempt that dialled it.
DrainInv ==
    /\ closed <=> drain.state # "none"
    /\ closed => /\ \A o \in Owners : owner[o].state # "open"
                 /\ Admissions \subseteq drain.calls
                 /\ \A o \in Connections :
                      \/ o \in drain.owners
                      \/ \E c \in Calls : call[c].phase = "rejecting" /\ call[c].owner = o

\* The attempts that owe an endpoint's counter their feedback.
Leases(e) == {c \in Calls : call[c].attached /\ call[c].at = e}
LeaseInv == \A e \in Endpoints : ep[e].inFlight = Cardinality(Leases(e))

IInv ==
    /\ TypeOK
    /\ CallInv
    /\ KeeperInv
    /\ DrainInv
    /\ DrainLeavesNothing
    /\ LeaseInv

-------------------------------------------------------------------------------
(***************************************************************************)
(* The records.                                                             *)
(***************************************************************************)
LEMMA FreshFits ==
    /\ FreshCall \in CallRecord /\ RecordFits(FreshCall)
    /\ Ended \in CallRecord /\ RecordFits(Ended)
<1>1. 0 \in 0 .. MaxAttempts /\ MaxAttempts > 0
  BY ClientConstants
<1>2. FreshCall \in CallRecord
  BY <1>1 DEF FreshCall, CallRecord, Phases, Kinds
<1>3. RecordFits(FreshCall)
  BY DEF FreshCall, RecordFits, Holding, Reporting, Early
<1>4. Ended \in CallRecord
  BY <1>2 DEF Ended, CallRecord, Phases
<1>5. /\ Ended.phase = "done" /\ Ended.attempt = 0 /\ Ended.owner = None /\ ~Ended.attached
  BY DEF Ended, FreshCall
<1>6. RecordFits(Ended)
  BY <1>5 DEF RecordFits, Holding, Reporting, Early
<1>7. QED
  BY <1>2, <1>3, <1>4, <1>6

\* A step that replaces one call's record by one that fits.
LEMMA CallStep ==
    ASSUME TypeOK, CallInv, NEW c \in Calls, NEW r \in CallRecord, RecordFits(r),
           call' = [call EXCEPT ![c] = r]
    PROVE  /\ call' \in [Calls -> CallRecord]
           /\ CallInv'
           /\ call'[c] = r
           /\ \A d \in Calls : d # c => call'[d] = call[d]
<1>1. call \in [Calls -> CallRecord]
  BY DEF TypeOK
<1>2. call'[c] = r /\ \A d \in Calls : d # c => call'[d] = call[d]
  BY <1>1
<1>3. \A d \in Calls : RecordFits(call'[d])
  BY <1>2 DEF CallInv
<1>4. QED
  BY <1>1, <1>2, <1>3 DEF CallInv, RecordFits

\* How the calls may move: an attempt that is past its dial stays so.
Advances ==
    \A c \in Calls :
        \/ call'[c].phase = "done"
        \/ /\ call[c].phase # "done"
           /\ \/ call'[c].attempt > call[c].attempt
              \/ /\ call'[c].attempt = call[c].attempt
                 /\ call[c].phase \notin Early => call'[c].phase \notin Early

LEMMA SpentStays ==
    ASSUME TypeOK, call' \in [Calls -> CallRecord], Advances, NEW o \in Owners, Spent(o)
    PROVE  Spent(o)'
<1>1. o[1] \in Calls /\ o[2] \in Nat
  BY ClientConstants DEF Owners
<1>2. call[o[1]].attempt \in Nat /\ call'[o[1]].attempt \in Nat
  BY <1>1, ClientConstants DEF TypeOK, CallRecord
<1>3. QED
  BY <1>1, <1>2 DEF Advances, Spent

\* A step of one call alone: what it must do to that call's record.
RecordAdvances(r, s) ==
    \/ s.phase = "done"
    \/ /\ r.phase # "done"
       /\ s.attempt > r.attempt \/ (s.attempt = r.attempt /\ (r.phase \notin Early => s.phase \notin Early))

LEMMA OneAdvances ==
    ASSUME TypeOK, NEW c \in Calls, NEW r \in CallRecord,
           call'[c] = r, \A d \in Calls : d # c => call'[d] = call[d],
           RecordAdvances(call[c], r)
    PROVE  Advances
<1>1. SUFFICES ASSUME NEW d \in Calls, d # c
               PROVE  \/ call'[d].phase = "done"
                      \/ /\ call[d].phase # "done"
                         /\ call'[d].attempt = call[d].attempt
                         /\ call[d].phase \notin Early => call'[d].phase \notin Early
  BY DEF Advances, RecordAdvances
<1>2. call'[d] = call[d]
  BY <1>1
<1>3. QED
  BY <1>2
-------------------------------------------------------------------------------
(***************************************************************************)
(* The pool.                                                                *)
(***************************************************************************)
LEMMA RemoveAtProperties ==
    ASSUME NEW S, NEW s \in Seq(S), NEW i \in 1 .. Len(s)
    PROVE  /\ RemoveAt(s, i) \in Seq(S)
           /\ Len(RemoveAt(s, i)) = Len(s) - 1
           /\ \A j \in 1 .. Len(s) - 1 : RemoveAt(s, i)[j] = IF j < i THEN s[j] ELSE s[j + 1]
<1> DEFINE a == SubSeq(s, 1, i - 1)
           b == SubSeq(s, i + 1, Len(s))
<1>0. Len(s) \in Nat /\ \A j \in 1 .. Len(s) : s[j] \in S
  OBVIOUS
<1>1. /\ a \in Seq(S) /\ Len(a) = i - 1
      /\ \A j \in 1 .. i - 1 : a[j] = s[j]
  <2>1. \A j \in 1 .. i - 1 : s[j] \in S
    BY <1>0
  <2>2. QED
    BY <1>0, <2>1, SubSeqProperties
<1>2. /\ b \in Seq(S) /\ Len(b) = Len(s) - i
      /\ \A j \in 1 .. Len(s) - i : b[j] = s[i + j]
  <2>1. \A j \in i + 1 .. Len(s) : s[j] \in S
    BY <1>0
  <2>2. /\ b \in Seq(S)
        /\ Len(b) = IF i + 1 <= Len(s) THEN Len(s) - (i + 1) + 1 ELSE 0
        /\ \A j \in 1 .. Len(s) - (i + 1) + 1 : b[j] = s[(i + 1) + j - 1]
    BY <1>0, <2>1, SubSeqProperties
  <2>3. QED
    BY <1>0, <2>2
<1>3. RemoveAt(s, i) = a \o b
  BY DEF RemoveAt
<1> HIDE DEF a, b
<1>4. /\ a \o b \in Seq(S)
      /\ Len(a \o b) = Len(a) + Len(b)
      /\ \A j \in 1 .. Len(a) + Len(b) : (a \o b)[j] = IF j <= Len(a) THEN a[j] ELSE b[j - Len(a)]
  BY <1>1, <1>2, ConcatProperties
<1>5. Len(a) + Len(b) = Len(s) - 1
  BY <1>0, <1>1, <1>2
<1>6. ASSUME NEW j \in 1 .. Len(s) - 1
      PROVE  (a \o b)[j] = IF j < i THEN s[j] ELSE s[j + 1]
  <2>1. CASE j < i
    BY <1>0, <1>1, <1>4, <1>5, <2>1
  <2>2. CASE ~(j < i)
    <3>1. (a \o b)[j] = b[j - (i - 1)]
      BY <1>0, <1>1, <1>4, <1>5, <2>2
    <3>2. j - (i - 1) \in 1 .. Len(s) - i /\ i + (j - (i - 1)) = j + 1
      BY <1>0, <2>2
    <3>3. QED
      BY <1>2, <2>2, <3>1, <3>2
  <2>3. QED
    BY <2>1, <2>2
<1>7. QED
  BY <1>3, <1>4, <1>5, <1>6

LEMMA PoolRemoves ==
    ASSUME NEW S, NEW s \in Seq(S), NEW i \in 1 .. Len(s), Distinct(s)
    PROVE  /\ RemoveAt(s, i) \in Seq(S)
           /\ Len(RemoveAt(s, i)) = Len(s) - 1
           /\ Distinct(RemoveAt(s, i))
           /\ \A o : In(o, RemoveAt(s, i)) <=> In(o, s) /\ o # s[i]
<1>1. PICK t : t = RemoveAt(s, i)
  OBVIOUS
<1>2. /\ t \in Seq(S) /\ Len(t) = Len(s) - 1
      /\ \A j \in 1 .. Len(s) - 1 : t[j] = IF j < i THEN s[j] ELSE s[j + 1]
  BY <1>1, RemoveAtProperties
<1>3. Len(s) \in Nat
  OBVIOUS
<1>4. Distinct(t)
  BY <1>2, <1>3 DEF Distinct
<1>5. ASSUME NEW o, In(o, t) PROVE In(o, s) /\ o # s[i]
  BY <1>2, <1>3, <1>5 DEF Distinct, In
<1>6. ASSUME NEW o, In(o, s), o # s[i] PROVE In(o, t)
  <2>1. PICK j \in 1 .. Len(s) : s[j] = o
    BY <1>6 DEF In
  <2>2. CASE j < i
    <3>1. j \in 1 .. Len(s) - 1 /\ t[j] = o
      BY <1>2, <1>3, <2>1, <2>2
    <3>2. QED
      BY <1>2, <3>1 DEF In
  <2>3. CASE j > i
    <3>1. j - 1 \in 1 .. Len(s) - 1 /\ t[j - 1] = s[(j - 1) + 1]
      BY <1>2, <1>3, <2>1, <2>3
    <3>2. QED
      BY <1>2, <2>1, <3>1 DEF In
  <2>4. QED
    BY <1>6, <2>1, <2>2, <2>3
<1>7. QED
  BY <1>1, <1>2, <1>4, <1>5, <1>6

LEMMA PoolAdds ==
    ASSUME NEW S, NEW s \in Seq(S), NEW o \in S, ~In(o, s), Distinct(s)
    PROVE  /\ Append(s, o) \in Seq(S)
           /\ Len(Append(s, o)) = Len(s) + 1
           /\ Distinct(Append(s, o))
           /\ \A p : In(p, Append(s, o)) <=> In(p, s) \/ p = o
<1>1. PICK t : t = Append(s, o)
  OBVIOUS
<1>2. /\ t \in Seq(S) /\ Len(t) = Len(s) + 1 /\ Len(s) \in Nat
      /\ t[Len(s) + 1] = o /\ \A i \in 1 .. Len(s) : t[i] = s[i]
  BY <1>1
<1>3. Distinct(t)
  BY <1>2 DEF Distinct, In
<1>4. ASSUME NEW p PROVE In(p, t) <=> In(p, s) \/ p = o
  <2>1. ASSUME In(p, t) PROVE In(p, s) \/ p = o
    BY <1>2, <2>1 DEF In
  <2>2. ASSUME In(p, s) PROVE In(p, t)
    BY <1>2, <2>2 DEF In
  <2>3. In(o, t)
    BY <1>2 DEF In
  <2>4. QED
    BY <2>1, <2>2, <2>3
<1>5. QED
  BY <1>1, <1>2, <1>3, <1>4

LEMMA PoolEvicts ==
    ASSUME NEW S, NEW s \in Seq(S), Distinct(s), Len(s) > 0
    PROVE  /\ Tail(s) \in Seq(S)
           /\ Len(Tail(s)) = Len(s) - 1
           /\ Distinct(Tail(s))
           /\ Head(s) = s[1] /\ s[1] \in S
           /\ \A p : In(p, Tail(s)) <=> In(p, s) /\ p # Head(s)
<1>1. PICK t : t = Tail(s)
  OBVIOUS
<1>2. /\ t \in Seq(S) /\ Len(t) = Len(s) - 1 /\ Len(s) \in Nat
      /\ \A i \in 1 .. Len(s) - 1 : t[i] = s[i + 1]
      /\ Head(s) = s[1] /\ s[1] \in S
  BY <1>1
<1>3. Distinct(t)
  BY <1>2 DEF Distinct
<1>4. ASSUME NEW p PROVE In(p, t) <=> In(p, s) /\ p # s[1]
  <2>1. ASSUME In(p, t) PROVE In(p, s) /\ p # s[1]
    BY <1>2, <2>1 DEF In, Distinct
  <2>2. ASSUME In(p, s), p # s[1] PROVE In(p, t)
    <3>1. PICK i \in 1 .. Len(s) : s[i] = p
      BY <2>2 DEF In
    <3>2. i - 1 \in 1 .. Len(s) - 1 /\ t[i - 1] = s[(i - 1) + 1]
      BY <1>2, <2>2, <3>1
    <3>3. QED
      BY <1>2, <3>1, <3>2 DEF In
  <2>3. QED
    BY <2>1, <2>2
<1>5. QED
  BY <1>1, <1>2, <1>3, <1>4

-------------------------------------------------------------------------------
(***************************************************************************)
(* Keepers.                                                                 *)
(***************************************************************************)
LEMMA CloseResidentProperties ==
    ASSUME TypeOK, NEW S \in SUBSET Owners
    PROVE  /\ CloseResident(S) \in [Owners -> OwnerRecord]
           /\ \A o \in Owners : CloseResident(S)[o].state =
                IF o \in S /\ owner[o].state = "open" THEN "closing" ELSE owner[o].state
<1>1. owner \in [Owners -> OwnerRecord]
  BY DEF TypeOK
<1>2. ASSUME NEW o \in Owners
      PROVE  /\ [owner[o] EXCEPT !.state = "closing"] \in OwnerRecord
             /\ [owner[o] EXCEPT !.state = "closing"].state = "closing"
  BY <1>1 DEF OwnerRecord
<1>3. QED
  BY <1>1, <1>2 DEF CloseResident

\* The pool keeps what it holds, and nothing else is kept that was not: calls
\* and bodies only let go of owners that are not open.
LEMMA KeepersLetGo ==
    ASSUME TypeOK, KeeperInv, call' \in [Calls -> CallRecord], Advances, UNCHANGED idle,
           bodies' \subseteq bodies,
           \A o \in Owners :
               /\ owner'[o].state = "open" => owner[o].state = "open"
               /\ Pooled(o) => owner'[o].state = owner[o].state
               /\ o \in bodies \ bodies' => owner'[o].state # "open",
           \A c \in Calls : \/ call'[c].owner = call[c].owner
                            \/ /\ call'[c].owner = None
                               /\ call[c].owner \in Owners => owner'[call[c].owner].state # "open"
    PROVE  KeeperInv'
<1>1. \A o \in Owners : Pooled(o)' <=> Pooled(o)
  BY DEF Pooled
<1>2. \A o \in Owners : Held(o)' => Held(o)
  BY ClientConstants DEF Held
<1>3. ASSUME NEW o \in Owners, Held(o), ~Held(o)' PROVE owner'[o].state # "open"
  BY <1>3 DEF Held
<1>4. \A o \in Owners : Spent(o) => Spent(o)'
  BY SpentStays
<1>5. \A c, d \in Calls : call'[c].owner = call'[d].owner /\ call'[c].owner # None => c = d
  BY DEF KeeperInv
<1>6. Len(idle') <= MaxIdle /\ Distinct(idle')
  BY DEF KeeperInv
<1>7. ASSUME NEW o \in Owners
      PROVE  /\ Pooled(o)' => owner'[o].state = "open" /\ ~Held(o)' /\ o \notin bodies'
             /\ Held(o)' => o \notin bodies'
             /\ owner'[o].state = "open" => Kept(o)'
             /\ Kept(o)' => Spent(o)'
  BY <1>1, <1>2, <1>3, <1>4, <1>7 DEF KeeperInv, Kept
<1>8. QED
  BY <1>5, <1>6, <1>7 DEF KeeperInv, Kept

\* A reusable owner enters the pool; S is what that evicts.
LEMMA ReleasePools ==
    ASSUME TypeOK, KeeperInv, NEW o \in Owners, NEW reusable, ~Pooled(o),
           Reusable(o, reusable), Release(o, reusable)
    PROVE  \E S \in SUBSET Owners :
              /\ o \notin S
              /\ \A p \in S : Pooled(p)
              /\ idle' \in Seq(Owners) /\ Distinct(idle') /\ Len(idle') <= MaxIdle
              /\ \A p \in Owners : Pooled(p)' <=> (Pooled(p) \/ p = o) /\ p \notin S
              /\ owner' = CloseResident(S)
<1> DEFINE pool == Append(idle, o)
<1>0. idle \in Seq(Owners) /\ Distinct(idle) /\ Len(idle) \in Nat /\ Len(idle) <= MaxIdle
  BY DEF TypeOK, KeeperInv
<1>1. MaxIdle \in Nat /\ MaxIdle > 0
  BY ClientConstants DEF Reusable
<1>2. /\ pool \in Seq(Owners) /\ Distinct(pool) /\ Len(pool) = Len(idle) + 1
      /\ \A p : In(p, pool) <=> In(p, idle) \/ p = o
  BY <1>0, PoolAdds DEF Pooled
<1>3. /\ idle' = IF Len(pool) > MaxIdle THEN Tail(pool) ELSE pool
      /\ owner' = IF Len(pool) > MaxIdle THEN CloseResident({Head(pool)}) ELSE owner
  BY DEF Release
<1>4. pool[1] = idle[1] \/ Len(idle) = 0
  BY <1>0
<1>5. Len(idle) > 0 => In(idle[1], idle)
  BY <1>0 DEF In
<1> HIDE DEF pool
<1>6. CASE Len(pool) > MaxIdle
  <2>1. Len(pool) > 0 /\ Len(idle) > 0
    BY <1>0, <1>1, <1>2, <1>6
  <2>2. /\ Tail(pool) \in Seq(Owners) /\ Len(Tail(pool)) = Len(pool) - 1
        /\ Distinct(Tail(pool)) /\ Head(pool) = pool[1] /\ pool[1] \in Owners
        /\ \A p : In(p, Tail(pool)) <=> In(p, pool) /\ p # Head(pool)
    BY <1>2, <2>1, PoolEvicts
  <2>3. Pooled(Head(pool)) /\ Head(pool) # o
    BY <1>4, <1>5, <2>1, <2>2 DEF Pooled
  <2>4. \A p \in Owners : Pooled(p)' <=> (Pooled(p) \/ p = o) /\ p \notin {Head(pool)}
    BY <1>2, <1>3, <1>6, <2>2 DEF Pooled
  <2>5. Len(idle') <= MaxIdle
    BY <1>0, <1>1, <1>2, <1>3, <1>6, <2>2
  <2>6. {Head(pool)} \in SUBSET Owners /\ owner' = CloseResident({Head(pool)})
    BY <1>3, <1>6, <2>2
  <2>7. QED
    BY <1>3, <1>6, <2>2, <2>3, <2>4, <2>5, <2>6
<1>7. CASE ~(Len(pool) > MaxIdle)
  <2>1. \A p \in Owners : Pooled(p)' <=> (Pooled(p) \/ p = o) /\ p \notin {}
    BY <1>2, <1>3, <1>7 DEF Pooled
  <2>2. owner' = CloseResident({})
    BY <1>3, <1>7 DEF CloseResident, TypeOK
  <2>3. Len(idle') <= MaxIdle
    BY <1>0, <1>1, <1>2, <1>3, <1>7
  <2>4. idle' \in Seq(Owners) /\ Distinct(idle')
    BY <1>2, <1>3, <1>7
  <2>5. QED
    BY <2>1, <2>2, <2>3, <2>4
<1>8. QED
  BY <1>6, <1>7

\* The pool takes over an owner that a call or a body lets go of.
LEMMA KeepersPool ==
    ASSUME TypeOK, KeeperInv, call' \in [Calls -> CallRecord], Advances,
           NEW o \in Owners, NEW reusable, Reusable(o, reusable), Release(o, reusable), Kept(o),
           ~Pooled(o), ~Held(o)', o \notin bodies', bodies' \subseteq bodies, bodies \subseteq bodies' \cup {o},
           \A c \in Calls : \/ call'[c].owner = call[c].owner
                            \/ call'[c].owner = None /\ call[c].owner = o
    PROVE  KeeperInv' /\ idle' \in Seq(Owners) /\ owner' \in [Owners -> OwnerRecord]
           /\ \A p \in Owners : \/ owner'[p].state = owner[p].state
                                \/ owner[p].state = "open" /\ owner'[p].state = "closing"
<1>1. PICK S \in SUBSET Owners :
              /\ o \notin S
              /\ \A p \in S : Pooled(p)
              /\ idle' \in Seq(Owners) /\ Distinct(idle') /\ Len(idle') <= MaxIdle
              /\ \A p \in Owners : Pooled(p)' <=> (Pooled(p) \/ p = o) /\ p \notin S
              /\ owner' = CloseResident(S)
  BY ReleasePools
<1>2. /\ owner' \in [Owners -> OwnerRecord]
      /\ \A p \in Owners : owner'[p].state =
              IF p \in S /\ owner[p].state = "open" THEN "closing" ELSE owner[p].state
  BY <1>1, CloseResidentProperties
<1>3. \A p \in Owners : Held(p)' => Held(p)
  BY ClientConstants DEF Held
<1>4. \A p \in Owners : p # o => (Held(p) <=> Held(p)')
  BY <1>3 DEF Held
<1>5. \A p \in Owners : Spent(p) => Spent(p)'
  BY SpentStays
<1>6. \A c, d \in Calls : call'[c].owner = call'[d].owner /\ call'[c].owner # None => c = d
  BY DEF KeeperInv
<1>7. owner[o].state = "open"
  BY DEF Reusable
<1>8. ASSUME NEW p \in Owners
      PROVE  /\ Pooled(p)' => owner'[p].state = "open" /\ ~Held(p)' /\ p \notin bodies'
             /\ Held(p)' => p \notin bodies'
             /\ owner'[p].state = "open" => Kept(p)'
             /\ Kept(p)' => Spent(p)'
  <2>1. CASE p = o
    BY <1>1, <1>2, <1>5, <1>7, <2>1 DEF KeeperInv, Kept
  <2>2. CASE p # o /\ p \in S
    BY <1>1, <1>2, <1>4, <1>5, <2>2 DEF KeeperInv, Kept
  <2>3. CASE p # o /\ p \notin S
    BY <1>1, <1>2, <1>4, <1>5, <2>3 DEF KeeperInv, Kept
  <2>4. QED
    BY <2>1, <2>2, <2>3
<1>9. KeeperInv'
  BY <1>1, <1>6, <1>8 DEF KeeperInv, Kept
<1>10. QED
  BY <1>1, <1>2, <1>9

-------------------------------------------------------------------------------
(***************************************************************************)
(* The drain and the leases.                                                *)
(***************************************************************************)
Live == {"open", "closing"}
Admitting == {"dialing", "rejecting"}

\* A step that dials nothing, opens nothing and leaves the drain alone; an
\* attempt that dialled for a closed client is waited for until its owner is.
LEMMA DrainKept ==
    ASSUME TypeOK, DrainInv, DrainLeavesNothing, UNCHANGED <<closed, drain>>,
           call' \in [Calls -> CallRecord], owner' \in [Owners -> OwnerRecord],
           \A o \in Owners : \/ owner'[o].state = owner[o].state
                             \/ owner[o].state = "open" /\ owner'[o].state = "closing"
                             \/ owner'[o].state \notin Live,
           \A c \in Calls : \/ call'[c].phase \in Admitting => call[c].phase \in Admitting
                            \/ ~closed,
           \A c \in Calls : call[c].phase = "rejecting" =>
               \/ call'[c].phase = "rejecting" /\ call'[c].owner = call[c].owner
               \/ \A o \in Owners : call[c].owner = o => owner[o].state \notin Live
    PROVE  DrainInv' /\ DrainLeavesNothing'
<1>1. Connections' \subseteq Connections
  BY DEF Connections, Live
<1>2. ASSUME closed
      PROVE  Admissions' \subseteq Admissions
  BY <1>2 DEF Admissions, Admitting
<1>3. ASSUME closed, NEW o \in Connections'
      PROVE  o \in drain.owners \/ \E c \in Calls : call'[c].phase = "rejecting" /\ call'[c].owner = o
  <2>1. o \in Connections /\ o \in Owners /\ owner[o].state \in Live
    BY <1>1, <1>3 DEF Connections, Live
  <2>2. QED
    BY <1>3, <2>1 DEF DrainInv
<1>4. closed => \A o \in Owners : owner'[o].state # "open"
  BY DEF DrainInv, Live
<1>5. DrainInv'
  BY <1>2, <1>3, <1>4 DEF DrainInv
<1>6. drain.state = "drained" => closed
  BY DEF DrainInv
<1>7. QED
  BY <1>1, <1>2, <1>5, <1>6 DEF DrainLeavesNothing

LEMMA LeasesKept ==
    ASSUME LeaseInv, UNCHANGED ep,
           \A c \in Calls : /\ call'[c].attached <=> call[c].attached
                            /\ call[c].attached => call'[c].at = call[c].at
    PROVE  LeaseInv'
<1>1. \A e \in Endpoints : Leases(e)' = Leases(e)
  BY DEF Leases
<1>2. QED
  BY <1>1 DEF LeaseInv

\* The completion callback, called by the step that ends the selection.
LEMMA FeedbackBalances ==
    ASSUME TypeOK, CallInv, LeaseInv, NEW c \in Calls, NEW outcome, Feedback(c, outcome),
           ~call'[c].attached,
           \A d \in Calls : d # c => call'[d] = call[d]
    PROVE  LeaseInv' /\ ep' \in [Endpoints -> EndpointRecord]
<1>0. ep \in [Endpoints -> EndpointRecord] /\ now \in Nat
  BY DEF TypeOK
<1>1. CASE ~call[c].attached
  <2>1. ep' = ep
    BY <1>1 DEF Feedback
  <2>2. \A e \in Endpoints : Leases(e)' = Leases(e)
    BY <1>1 DEF Leases
  <2>3. QED
    BY <1>0, <2>1, <2>2 DEF LeaseInv
<1>2. CASE call[c].attached
  <2>1. PICK e \in Endpoints : e = call[c].at
    BY <1>2 DEF CallInv, RecordFits
  <2>2. PICK s : s = Settled(ep[e], FailsEndpoint(c, outcome), now)
    OBVIOUS
  <2>3. ep' = [ep EXCEPT ![e] = s]
    BY <1>2, <2>1, <2>2 DEF Feedback
  <2>4. ep[e].inFlight \in Int /\ ep[e].failures \in Int /\ ep[e].until \in Int
    BY <1>0 DEF EndpointRecord
  <2>5. s \in EndpointRecord /\ s.inFlight = ep[e].inFlight - 1
    BY <1>0, <2>2, <2>4, SelectorConstants DEF Settled, EndpointRecord
  <2>6. ep' \in [Endpoints -> EndpointRecord]
    BY <1>0, <2>3, <2>5
  <2>7. IsFiniteSet(Leases(e)) /\ c \in Leases(e)
    BY <1>2, <2>1, ClientConstants, FS_Subset DEF Leases
  <2>8. Leases(e)' = Leases(e) \ {c}
    BY DEF Leases
  <2>9. Cardinality(Leases(e)') = Cardinality(Leases(e)) - 1
    BY <2>7, <2>8, FS_RemoveElement
  <2>10. \A f \in Endpoints : f # e => Leases(f)' = Leases(f)
    BY <2>1 DEF Leases
  <2>11. \A f \in Endpoints : ep'[f].inFlight = IF f = e THEN ep[e].inFlight - 1 ELSE ep[f].inFlight
    BY <1>0, <2>3, <2>5
  <2>12. QED
    BY <2>6, <2>9, <2>10, <2>11 DEF LeaseInv
<1>3. QED
  BY <1>1, <1>2

\* A selection takes a lease, and leases at endpoints not offered any more are
\* dropped with their counters.
LEMMA SelectBalances ==
    ASSUME TypeOK, CallInv, LeaseInv, NEW c \in Calls, NEW offered \in SUBSET Endpoints,
           NEW e \in offered, ~call[c].attached,
           ep' = Selected(ep, offered, e),
           call'[c].attached, call'[c].at = e,
           \A d \in Calls : d # c => /\ call'[d].attached <=> call[d].attached /\ call[d].at \in offered
                                     /\ call'[d].at = call[d].at
    PROVE  LeaseInv' /\ ep' \in [Endpoints -> EndpointRecord]
<1>0. ep \in [Endpoints -> EndpointRecord]
  BY DEF TypeOK
<1>1. /\ ep[e].inFlight \in Int
      /\ [ep[e] EXCEPT !.inFlight = @ + 1] \in EndpointRecord
      /\ [ep[e] EXCEPT !.inFlight = @ + 1].inFlight = ep[e].inFlight + 1
  BY <1>0 DEF EndpointRecord
<1>2. Fresh \in EndpointRecord /\ Fresh.inFlight = 0
  BY DEF Fresh, EndpointRecord
<1>3. ep' \in [Endpoints -> EndpointRecord]
  BY <1>0, <1>1, <1>2 DEF Selected
<1>4. \A f \in Endpoints : ep'[f].inFlight = IF f \notin offered THEN 0
                                             ELSE IF f = e THEN ep[e].inFlight + 1
                                             ELSE ep[f].inFlight
  BY <1>0, <1>1, <1>2 DEF Selected
<1>5. IsFiniteSet(Leases(e)) /\ c \notin Leases(e)
  BY ClientConstants, FS_Subset DEF Leases
<1>6. Leases(e)' = Leases(e) \cup {c}
  BY DEF Leases
<1>7. Cardinality(Leases(e)') = Cardinality(Leases(e)) + 1
  <2>1. ASSUME NEW S, IsFiniteSet(S), c \notin S
        PROVE  Cardinality(S \cup {c}) = Cardinality(S) + 1
    BY <2>1, FS_AddElement
  <2>2. QED
    BY <1>5, <1>6, <2>1
<1>8. \A f \in offered : f # e => Leases(f)' = Leases(f)
  BY DEF Leases
<1>9. \A f \in Endpoints \ offered : Leases(f)' = {}
  BY DEF Leases
<1>10. Cardinality({}) = 0
  BY FS_EmptySet
<1>11. ASSUME NEW f \in Endpoints PROVE ep'[f].inFlight = Cardinality(Leases(f)')
  BY <1>4, <1>7, <1>8, <1>9, <1>10 DEF LeaseInv
<1>12. QED
  BY <1>3, <1>11 DEF LeaseInv

-------------------------------------------------------------------------------
(***************************************************************************)
(* Steps of a call that touch no owner and owe no feedback.                 *)
(***************************************************************************)
QuietRecord(r, s) ==
    /\ s.owner = r.owner
    /\ s.attached <=> r.attached
    /\ r.attached => s.at = r.at
    /\ s.phase \in Admitting => r.phase \in Admitting
    /\ r.phase = "rejecting" => s.phase = "rejecting"

LEMMA QuietStep ==
    ASSUME IInv, NEW c \in Calls, NEW r \in CallRecord, RecordFits(r),
           call' = [call EXCEPT ![c] = r],
           RecordAdvances(call[c], r), QuietRecord(call[c], r),
           UNCHANGED <<owner, idle, bodies, ep, now, closed, drain>>
    PROVE  IInv'
<1>0. TypeOK /\ CallInv /\ KeeperInv /\ DrainInv /\ DrainLeavesNothing /\ LeaseInv
  BY DEF IInv
<1>1. /\ call' \in [Calls -> CallRecord] /\ CallInv'
      /\ call'[c] = r /\ \A d \in Calls : d # c => call'[d] = call[d]
  BY <1>0, CallStep
<1>2. Advances
  BY <1>0, <1>1, OneAdvances
<1>3. TypeOK'
  BY <1>0, <1>1 DEF TypeOK
<1>4. \A d \in Calls : QuietRecord(call[d], call'[d])
  BY <1>1 DEF QuietRecord
<1>5. KeeperInv'
  <2>1. \A d \in Calls : call'[d].owner = call[d].owner
    BY <1>4 DEF QuietRecord
  <2>2. QED
    BY <1>0, <1>1, <1>2, <2>1, KeepersLetGo
<1>6. DrainInv' /\ DrainLeavesNothing'
  <2>1. owner' \in [Owners -> OwnerRecord]
    BY <1>3 DEF TypeOK
  <2>2. \A d \in Calls : /\ call'[d].phase \in Admitting => call[d].phase \in Admitting
                         /\ call[d].phase = "rejecting" =>
                              call'[d].phase = "rejecting" /\ call'[d].owner = call[d].owner
    BY <1>4 DEF QuietRecord
  <2>3. QED
    BY <1>0, <1>1, <2>1, <2>2, DrainKept
<1>7. LeaseInv'
  <2>1. \A d \in Calls : /\ call'[d].attached <=> call[d].attached
                         /\ call[d].attached => call'[d].at = call[d].at
    BY <1>4 DEF QuietRecord
  <2>2. QED
    BY <1>0, <2>1, LeasesKept
<1>8. QED
  BY <1>1, <1>3, <1>5, <1>6, <1>7 DEF IInv

\* A call that returns or throws when it holds nothing.
LEMMA EndedIsQuiet ==
    ASSUME NEW r \in CallRecord, RecordFits(r),
           r.phase \in {"new", "failed", "backoff", "resolving"}
    PROVE  RecordAdvances(r, Ended) /\ QuietRecord(r, Ended)
<1>1. /\ Ended.phase = "done" /\ Ended.owner = None /\ ~Ended.attached
  BY DEF Ended, FreshCall
<1>2. r.owner = None /\ ~r.attached
  BY DEF RecordFits, Holding, Reporting, CallRecord
<1>3. QED
  BY <1>1, <1>2 DEF RecordAdvances, QuietRecord, Admitting

LEMMA BeginStep ==
    ASSUME IInv, NEW c \in Calls, NEW kind \in Kinds, Begin(c, kind)
    PROVE  IInv'
<1>0. call[c] \in CallRecord /\ RecordFits(call[c]) /\ call[c].phase = "new"
  BY DEF IInv, TypeOK, CallInv, Begin
<1>1. CASE closed \/ call[c].canceled
  <2>1. call' = [call EXCEPT ![c] = Ended] /\ UNCHANGED <<owner, idle, bodies, ep, now, closed, drain>>
    BY <1>1 DEF Begin
  <2>2. QED
    BY <1>0, <2>1, FreshFits, EndedIsQuiet, QuietStep
<1>2. CASE ~(closed \/ call[c].canceled)
  <2>1. PICK r : r = [call[c] EXCEPT !.phase = "resolving", !.kind = kind, !.attempt = 1]
    OBVIOUS
  <2>2. call' = [call EXCEPT ![c] = r] /\ UNCHANGED <<owner, idle, bodies, ep, now, closed, drain>>
    BY <1>2, <2>1 DEF Begin
  <2>3. 1 \in 0 .. MaxAttempts
    BY ClientConstants
  <2>4. r \in CallRecord
    BY <1>0, <2>1, <2>3 DEF CallRecord, Phases
  <2>5. /\ r.phase = "resolving" /\ r.attempt = 1
        /\ r.owner = call[c].owner /\ r.attached = call[c].attached /\ r.at = call[c].at
        /\ r.ok = call[c].ok /\ r.received = call[c].received
    BY <1>0, <2>1 DEF CallRecord
  <2>6. RecordFits(r)
    BY <1>0, <2>5 DEF RecordFits, Early, Holding, Reporting
  <2>7. RecordAdvances(call[c], r) /\ QuietRecord(call[c], r)
    <3>1. call[c].attempt = 0
      BY <1>0 DEF RecordFits
    <3>2. QED
      BY <1>0, <2>5, <3>1 DEF RecordAdvances, QuietRecord, Early, Admitting
  <2>8. QED
    BY <2>2, <2>4, <2>6, <2>7, QuietStep
<1>3. QED
  BY <1>1, <1>2

LEMMA ResolveFailsStep ==
    ASSUME IInv, NEW c \in Calls, ResolveFails(c)
    PROVE  IInv'
<1>0. call[c] \in CallRecord /\ RecordFits(call[c]) /\ call[c].phase = "resolving"
  BY DEF IInv, TypeOK, CallInv, ResolveFails
<1>1. PICK r : r = [call[c] EXCEPT !.phase = "failed"]
  OBVIOUS
<1>2. call' = [call EXCEPT ![c] = r] /\ UNCHANGED <<owner, idle, bodies, ep, now, closed, drain>>
  BY <1>1 DEF ResolveFails, IInv, TypeOK
<1>3. r \in CallRecord
  BY <1>0, <1>1 DEF CallRecord, Phases
<1>4. /\ r.phase = "failed" /\ r.attempt = call[c].attempt
      /\ r.owner = call[c].owner /\ r.attached = call[c].attached /\ r.at = call[c].at
      /\ r.ok = call[c].ok /\ r.received = call[c].received
  BY <1>0, <1>1 DEF CallRecord
<1>5. RecordFits(r)
  BY <1>0, <1>4 DEF RecordFits, Early, Holding, Reporting
<1>6. RecordAdvances(call[c], r) /\ QuietRecord(call[c], r)
  BY <1>0, <1>4 DEF RecordAdvances, QuietRecord, Early, Admitting
<1>7. QED
  BY <1>2, <1>3, <1>5, <1>6, QuietStep

LEMMA RetryStep ==
    ASSUME IInv, NEW c \in Calls, Retry(c)
    PROVE  IInv'
<1>0. call[c] \in CallRecord /\ RecordFits(call[c]) /\ call[c].phase = "failed" /\ MayRetry(call[c])
  BY DEF IInv, TypeOK, CallInv, Retry
<1>1. PICK r : r = [call[c] EXCEPT !.phase = "backoff"]
  OBVIOUS
<1>2. call' = [call EXCEPT ![c] = r] /\ UNCHANGED <<owner, idle, bodies, ep, now, closed, drain>>
  BY <1>1 DEF Retry, IInv, TypeOK
<1>3. r \in CallRecord
  BY <1>0, <1>1 DEF CallRecord, Phases
<1>4. /\ r.phase = "backoff" /\ r.attempt = call[c].attempt /\ r.kind = call[c].kind
      /\ r.owner = call[c].owner /\ r.attached = call[c].attached /\ r.at = call[c].at
      /\ r.ok = call[c].ok /\ r.received = call[c].received
      /\ call[c].ok \in BOOLEAN /\ call[c].received \in BOOLEAN
  BY <1>0, <1>1 DEF CallRecord
<1>5. RecordFits(r)
  BY <1>0, <1>4 DEF RecordFits, MayRetry, Early, Holding, Reporting
<1>6. RecordAdvances(call[c], r) /\ QuietRecord(call[c], r)
  BY <1>0, <1>4 DEF RecordAdvances, QuietRecord, Early, Admitting
<1>7. QED
  BY <1>2, <1>3, <1>5, <1>6, QuietStep

LEMMA GiveUpStep ==
    ASSUME IInv, NEW c \in Calls, GiveUp(c)
    PROVE  IInv'
<1>0. call[c] \in CallRecord /\ RecordFits(call[c]) /\ call[c].phase = "failed"
  BY DEF IInv, TypeOK, CallInv, GiveUp
<1>1. call' = [call EXCEPT ![c] = Ended] /\ UNCHANGED <<owner, idle, bodies, ep, now, closed, drain>>
  BY DEF GiveUp
<1>2. QED
  BY <1>0, <1>1, FreshFits, EndedIsQuiet, QuietStep

LEMMA BackoffEndsStep ==
    ASSUME IInv, NEW c \in Calls, BackoffEnds(c)
    PROVE  IInv'
<1>0. call[c] \in CallRecord /\ RecordFits(call[c]) /\ call[c].phase = "backoff"
  BY DEF IInv, TypeOK, CallInv, BackoffEnds
<1>1. CASE call[c].canceled
  <2>1. call' = [call EXCEPT ![c] = Ended] /\ UNCHANGED <<owner, idle, bodies, ep, now, closed, drain>>
    BY <1>1 DEF BackoffEnds
  <2>2. QED
    BY <1>0, <2>1, FreshFits, EndedIsQuiet, QuietStep
<1>2. CASE ~call[c].canceled
  <2>1. PICK r : r = [FreshCall EXCEPT !.phase = "resolving", !.kind = call[c].kind,
                                       !.attempt = call[c].attempt + 1]
    OBVIOUS
  <2>2. call' = [call EXCEPT ![c] = r] /\ UNCHANGED <<owner, idle, bodies, ep, now, closed, drain>>
    BY <1>2, <2>1 DEF BackoffEnds
  <2>3. call[c].attempt \in 0 .. MaxAttempts /\ call[c].attempt < MaxAttempts /\ call[c].kind \in Kinds
        /\ call[c].attempt >= 1 /\ call[c].owner = None /\ ~call[c].attached
    BY <1>0 DEF CallRecord, RecordFits, Holding, Reporting
  <2>4. call[c].attempt + 1 \in 0 .. MaxAttempts
    BY <2>3, ClientConstants
  <2>5. r \in CallRecord
    BY <2>1, <2>3, <2>4, FreshFits DEF CallRecord, Phases
  <2>6. /\ r.phase = "resolving" /\ r.attempt = call[c].attempt + 1
        /\ r.owner = None /\ r.attached = FALSE /\ r.ok = FALSE /\ r.received = FALSE
    BY <2>1 DEF FreshCall
  <2>7. RecordFits(r)
    BY <2>3, <2>6, ClientConstants DEF RecordFits, Early, Holding, Reporting
  <2>8. RecordAdvances(call[c], r) /\ QuietRecord(call[c], r)
    BY <1>0, <2>3, <2>6, ClientConstants DEF RecordAdvances, QuietRecord, Early, Admitting
  <2>9. QED
    BY <2>2, <2>5, <2>7, <2>8, QuietStep
<1>3. QED
  BY <1>1, <1>2

LEMMA CancelStep ==
    ASSUME IInv, NEW c \in Calls, Cancel(c)
    PROVE  IInv'
<1>0. call[c] \in CallRecord /\ RecordFits(call[c]) /\ call[c].phase # "done"
  BY DEF IInv, TypeOK, CallInv, Cancel
<1>1. PICK r : r = [call[c] EXCEPT !.canceled = TRUE]
  OBVIOUS
<1>2. call' = [call EXCEPT ![c] = r] /\ UNCHANGED <<owner, idle, bodies, ep, now, closed, drain>>
  BY <1>1 DEF Cancel, IInv, TypeOK
<1>3. r \in CallRecord
  BY <1>0, <1>1 DEF CallRecord
<1>4. /\ r.phase = call[c].phase /\ r.attempt = call[c].attempt /\ r.kind = call[c].kind
      /\ r.owner = call[c].owner /\ r.attached = call[c].attached /\ r.at = call[c].at
      /\ r.ok = call[c].ok /\ r.received = call[c].received
      /\ r.completed = call[c].completed /\ r.committed = call[c].committed
  BY <1>0, <1>1 DEF CallRecord
<1>5. RecordFits(r)
  BY <1>0, <1>4 DEF RecordFits
<1>6. RecordAdvances(call[c], r) /\ QuietRecord(call[c], r)
  BY <1>0, <1>4 DEF RecordAdvances, QuietRecord
<1>7. QED
  BY <1>2, <1>3, <1>5, <1>6, QuietStep

-------------------------------------------------------------------------------
(***************************************************************************)
(* Steps that select, dial, fetch and release.                              *)
(***************************************************************************)
\* What a selection does to the calls.
SelectMakes(c, phase, o) ==
    /\ call' \in [Calls -> CallRecord]
    /\ CallInv'
    /\ Advances
    /\ LeaseInv' /\ ep' \in [Endpoints -> EndpointRecord]
    /\ call[c].phase = "resolving" /\ call[c].owner = None
    /\ call'[c].phase = phase /\ call'[c].owner = o
    /\ \A d \in Calls : d # c => /\ call'[d].owner = call[d].owner
                                 /\ call'[d].phase = call[d].phase
    /\ UNCHANGED <<owner, bodies, now, closed, drain>>

LEMMA SelectEffect ==
    ASSUME IInv, NEW c \in Calls, NEW offered \in SUBSET Endpoints, NEW e \in offered,
           NEW phase, NEW o,
           \/ o \in Owners /\ phase = "fetching"
           \/ o = None /\ phase \in {"refused", "dialing"},
           Select(c, offered, e, phase, o)
    PROVE  SelectMakes(c, phase, o)
<1>0. TypeOK /\ CallInv /\ LeaseInv
  BY DEF IInv
<1>1. /\ \A d \in Calls : call[d] \in CallRecord /\ RecordFits(call[d])
      /\ call[c].phase = "resolving"
  BY <1>0 DEF TypeOK, CallInv, Select
<1>a. /\ phase \in {"fetching", "refused", "dialing"} /\ o \in Owners \cup {None}
      /\ o # None <=> phase = "fetching"
  BY ClientConstants
<1>2. PICK r : r = [call[c] EXCEPT !.phase = phase, !.at = e, !.attached = TRUE, !.owner = o]
  OBVIOUS
<1>3. /\ r \in CallRecord
      /\ r.phase = phase /\ r.at = e /\ r.attached = TRUE /\ r.owner = o
      /\ r.attempt = call[c].attempt /\ r.ok = call[c].ok /\ r.received = call[c].received
  BY <1>1, <1>a, <1>2 DEF CallRecord, Phases
<1>4. RecordFits(r)
  BY <1>1, <1>a, <1>3 DEF RecordFits, Early, Holding, Reporting
<1>5. /\ call'[c] = r
      /\ \A d \in Calls : d # c =>
            call'[d] = [call[d] EXCEPT !.attached = call[d].attached /\ call[d].at \in offered]
      /\ DOMAIN call' = Calls /\ call' = [d \in Calls |-> call'[d]]
  BY <1>2 DEF Select
<1>6. ASSUME NEW d \in Calls, d # c
      PROVE  /\ call'[d] \in CallRecord
             /\ call'[d].attached = (call[d].attached /\ call[d].at \in offered)
             /\ call'[d].at = call[d].at /\ call'[d].phase = call[d].phase
             /\ call'[d].owner = call[d].owner /\ call'[d].attempt = call[d].attempt
             /\ call'[d].ok = call[d].ok /\ call'[d].received = call[d].received
             /\ call'[d].completed = call[d].completed /\ call'[d].committed = call[d].committed
             /\ call'[d].kind = call[d].kind
  <2>1. PICK b \in BOOLEAN : b = (call[d].attached /\ call[d].at \in offered)
    OBVIOUS
  <2>2. PICK s, t : s = call[d] /\ t = [s EXCEPT !.attached = b]
    OBVIOUS
  <2>3. s \in CallRecord /\ call'[d] = t
    BY <1>1, <1>5, <1>6, <2>1, <2>2
  <2>4. /\ t \in CallRecord /\ t.attached = b
        /\ t.at = s.at /\ t.phase = s.phase /\ t.owner = s.owner /\ t.attempt = s.attempt
        /\ t.ok = s.ok /\ t.received = s.received /\ t.completed = s.completed
        /\ t.committed = s.committed /\ t.kind = s.kind
    BY <2>2, <2>3 DEF CallRecord
  <2>5. QED
    BY <2>1, <2>2, <2>3, <2>4
<1>7. ASSUME NEW d \in Calls, d # c PROVE RecordFits(call'[d])
  <2>1. RecordFits(call[d])
    BY <1>1
  <2>2. PICK s, t : s = call'[d] /\ t = call[d]
    OBVIOUS
  <2>3. QED
    BY <1>6, <1>7, <2>1, <2>2 DEF RecordFits
<1>8. call' \in [Calls -> CallRecord]
  BY <1>3, <1>5, <1>6
<1>9. CallInv'
  <2>1. \A d \in Calls : RecordFits(call'[d])
    BY <1>4, <1>5, <1>7
  <2>2. QED
    BY <2>1 DEF CallInv, RecordFits
<1>10. Advances
  <2>1. \A d \in Calls : d # c => call'[d].phase = call[d].phase /\ call'[d].attempt = call[d].attempt
    BY <1>6
  <2>2. QED
    BY <1>1, <1>3, <1>5, <2>1 DEF Advances, Early
<1>11. ~call[c].attached /\ call[c].owner = None
  BY <1>1 DEF RecordFits, Holding, Reporting, CallRecord
<1>12. LeaseInv' /\ ep' \in [Endpoints -> EndpointRecord]
  <2>1. ep' = Selected(ep, offered, e)
    BY DEF Select
  <2>2. \A d \in Calls : d # c => /\ call'[d].attached <=> call[d].attached /\ call[d].at \in offered
                                  /\ call'[d].at = call[d].at
    BY <1>6
  <2>3. call'[c].attached /\ call'[c].at = e
    BY <1>3, <1>5
  <2>4. QED
    BY <1>0, <1>11, <2>1, <2>2, <2>3, SelectBalances
<1>13. UNCHANGED <<owner, bodies, now, closed, drain>>
  BY DEF Select
<1>14. QED
  BY <1>1, <1>3, <1>5, <1>6, <1>8, <1>9, <1>10, <1>11, <1>12, <1>13 DEF SelectMakes

LEMMA SelectDialsStep ==
    ASSUME IInv, NEW c \in Calls, NEW offered \in SUBSET Endpoints, NEW e \in offered,
           SelectDials(c, offered, e)
    PROVE  IInv'
<1>0. TypeOK /\ CallInv /\ KeeperInv /\ DrainInv /\ DrainLeavesNothing
  BY DEF IInv
<1>1. PICK phase \in {"refused", "dialing"} :
          Select(c, offered, e, phase, None) /\ (closed => phase = "refused")
  BY DEF SelectDials
<1>2. /\ call' \in [Calls -> CallRecord] /\ CallInv' /\ Advances
      /\ LeaseInv' /\ ep' \in [Endpoints -> EndpointRecord]
      /\ call[c].phase = "resolving" /\ call[c].owner = None
      /\ call'[c].phase = phase /\ call'[c].owner = None
      /\ \A d \in Calls : d # c => /\ call'[d].owner = call[d].owner
                                   /\ call'[d].phase = call[d].phase
      /\ UNCHANGED <<owner, bodies, now, closed, drain>>
  <2>1. SelectMakes(c, phase, None)
    BY <1>1, SelectEffect
  <2>2. QED
    BY <2>1 DEF SelectMakes
<1>3. UNCHANGED idle
  BY DEF SelectDials
<1>4. TypeOK'
  BY <1>0, <1>2, <1>3 DEF TypeOK
<1>5. KeeperInv'
  BY <1>0, <1>2, <1>3, KeepersLetGo
<1>6. DrainInv' /\ DrainLeavesNothing'
  <2>1. owner' \in [Owners -> OwnerRecord]
    BY <1>4 DEF TypeOK
  <2>2. \A d \in Calls : call'[d].phase \in Admitting => call[d].phase \in Admitting \/ ~closed
    BY <1>1, <1>2 DEF Admitting
  <2>3. \A d \in Calls : call[d].phase = "rejecting" =>
              call'[d].phase = "rejecting" /\ call'[d].owner = call[d].owner
    BY <1>2
  <2>4. QED
    BY <1>0, <1>2, <2>1, <2>2, <2>3, DrainKept
<1>7. QED
  BY <1>2, <1>4, <1>5, <1>6 DEF IInv

LEMMA SelectPooledStep ==
    ASSUME IInv, NEW c \in Calls, NEW offered \in SUBSET Endpoints, NEW e \in offered,
           SelectPooled(c, offered, e)
    PROVE  IInv'
<1>0. TypeOK /\ CallInv /\ KeeperInv /\ DrainInv /\ DrainLeavesNothing
  BY DEF IInv
<1>1. PICK i \in 1 .. Len(idle) :
          Select(c, offered, e, "fetching", idle[i]) /\ idle' = RemoveAt(idle, i)
  BY DEF SelectPooled, LastPooledAt, PooledAt
<1>2. PICK o \in Owners : o = idle[i]
  BY <1>0, <1>1 DEF TypeOK
<1>3. /\ call' \in [Calls -> CallRecord] /\ CallInv' /\ Advances
      /\ LeaseInv' /\ ep' \in [Endpoints -> EndpointRecord]
      /\ call[c].phase = "resolving" /\ call[c].owner = None
      /\ call'[c].phase = "fetching" /\ call'[c].owner = o
      /\ \A d \in Calls : d # c => /\ call'[d].owner = call[d].owner
                                   /\ call'[d].phase = call[d].phase
      /\ UNCHANGED <<owner, bodies, now, closed, drain>>
  <2>1. Select(c, offered, e, "fetching", o)
    BY <1>1, <1>2
  <2>2. SelectMakes(c, "fetching", o)
    BY <2>1, SelectEffect
  <2>3. QED
    BY <2>2 DEF SelectMakes
<1>4. /\ idle' \in Seq(Owners) /\ Len(idle') = Len(idle) - 1 /\ Distinct(idle')
      /\ \A p \in Owners : Pooled(p)' <=> Pooled(p) /\ p # o
  <2>1. idle \in Seq(Owners) /\ Distinct(idle)
    BY <1>0 DEF TypeOK, KeeperInv
  <2>2. QED
    BY <1>1, <1>2, <2>1, PoolRemoves DEF Pooled
<1>5. TypeOK'
  BY <1>0, <1>3, <1>4 DEF TypeOK
<1>6. Pooled(o)
  BY <1>1, <1>2 DEF Pooled, In
<1>7. KeeperInv'
  <2>1. Len(idle') <= MaxIdle /\ Distinct(idle')
    <3>1. Len(idle) \in Nat /\ Len(idle) <= MaxIdle
      BY <1>0 DEF TypeOK, KeeperInv
    <3>2. QED
      BY <1>4, <3>1, ClientConstants
  <2>2. \A p \in Owners : Held(p)' <=> Held(p) \/ p = o
    BY <1>3, ClientConstants DEF Held
  <2>3. ~Held(o) /\ o \notin bodies
    BY <1>0, <1>6 DEF KeeperInv
  <2>4. \A d \in Calls : call[d].owner # o
    BY <2>3 DEF Held
  <2>5. \A d, f \in Calls : call'[d].owner = call'[f].owner /\ call'[d].owner # None => d = f
    BY <1>0, <1>3, <2>4 DEF KeeperInv
  <2>6. \A p \in Owners : Spent(p) => Spent(p)'
    BY <1>0, <1>3, SpentStays
  <2>7. ASSUME NEW p \in Owners
        PROVE  /\ Pooled(p)' => owner'[p].state = "open" /\ ~Held(p)' /\ p \notin bodies'
               /\ Held(p)' => p \notin bodies'
               /\ owner'[p].state = "open" => Kept(p)'
               /\ Kept(p)' => Spent(p)'
    BY <1>0, <1>3, <1>4, <1>6, <2>2, <2>3, <2>6 DEF KeeperInv, Kept
  <2>8. QED
    BY <2>1, <2>5, <2>7 DEF KeeperInv, Kept
<1>8. DrainInv' /\ DrainLeavesNothing'
  <2>1. owner' \in [Owners -> OwnerRecord]
    BY <1>5 DEF TypeOK
  <2>2. \A d \in Calls : call'[d].phase \in Admitting => call[d].phase \in Admitting
    BY <1>3 DEF Admitting
  <2>3. \A d \in Calls : call[d].phase = "rejecting" =>
              call'[d].phase = "rejecting" /\ call'[d].owner = call[d].owner
    BY <1>3
  <2>4. QED
    BY <1>0, <1>3, <2>1, <2>2, <2>3, DrainKept
<1>9. QED
  BY <1>3, <1>5, <1>7, <1>8 DEF IInv

\* An attempt that fails without a response: it reports and lets go of its
\* owner, if it had one, only when that owner is closed.
LEMMA AttemptFailsStep ==
    ASSUME IInv, NEW c \in Calls, AttemptFails(c, "rejected"),
           call[c].phase \in {"dialing", "refused", "rejecting"},
           \A o \in Owners : call[c].owner = o => owner[o].state \notin Live
    PROVE  IInv'
<1>0. TypeOK /\ CallInv /\ KeeperInv /\ DrainInv /\ DrainLeavesNothing /\ LeaseInv
  BY DEF IInv
<1>1. call[c] \in CallRecord /\ RecordFits(call[c])
  BY <1>0 DEF TypeOK, CallInv
<1>2. PICK r : r = [call[c] EXCEPT !.phase = "failed", !.at = None, !.attached = FALSE,
                                   !.owner = None, !.committed = Commits(call[c], FALSE)]
  OBVIOUS
<1>3. /\ call' = [call EXCEPT ![c] = r] /\ Feedback(c, "rejected")
      /\ UNCHANGED <<owner, idle, bodies, now, closed, drain>>
  BY <1>0, <1>2 DEF AttemptFails, TypeOK
<1>4. ~call[c].ok /\ ~call[c].received
  BY <1>1 DEF RecordFits, Early
<1>5. Commits(call[c], FALSE) = FALSE
  BY <1>4 DEF Commits
<1>6. /\ r \in CallRecord
      /\ r.phase = "failed" /\ r.attached = FALSE /\ r.owner = None
      /\ r.attempt = call[c].attempt /\ r.ok = call[c].ok /\ r.received = call[c].received
  BY <1>1, <1>2, <1>5 DEF CallRecord, Phases
<1>7. RecordFits(r)
  BY <1>1, <1>4, <1>6 DEF RecordFits, Early, Holding, Reporting
<1>8. /\ call' \in [Calls -> CallRecord] /\ CallInv'
      /\ call'[c] = r /\ \A d \in Calls : d # c => call'[d] = call[d]
  BY <1>0, <1>3, <1>6, <1>7, CallStep
<1>9. Advances
  <2>1. RecordAdvances(call[c], r)
    BY <1>6 DEF RecordAdvances, Early
  <2>2. QED
    BY <1>0, <1>6, <1>8, <2>1, OneAdvances
<1>10. LeaseInv' /\ ep' \in [Endpoints -> EndpointRecord]
  BY <1>0, <1>3, <1>6, <1>8, FeedbackBalances
<1>11. TypeOK'
  BY <1>0, <1>3, <1>8, <1>10 DEF TypeOK
<1>12. KeeperInv'
  <2>1. \A d \in Calls : \/ call'[d].owner = call[d].owner
                         \/ /\ call'[d].owner = None
                            /\ call[d].owner \in Owners => owner'[call[d].owner].state # "open"
    BY <1>3, <1>6, <1>8 DEF Live
  <2>2. QED
    BY <1>0, <1>3, <1>8, <1>9, <2>1, KeepersLetGo
<1>13. DrainInv' /\ DrainLeavesNothing'
  <2>1. owner' \in [Owners -> OwnerRecord]
    BY <1>11 DEF TypeOK
  <2>2. \A d \in Calls : call'[d].phase \in Admitting => call[d].phase \in Admitting
    BY <1>6, <1>8 DEF Admitting
  <2>3. \A d \in Calls : call[d].phase = "rejecting" =>
               \/ call'[d].phase = "rejecting" /\ call'[d].owner = call[d].owner
               \/ \A o \in Owners : call[d].owner = o => owner[o].state \notin Live
    BY <1>8
  <2>4. QED
    BY <1>0, <1>3, <1>8, <2>1, <2>2, <2>3, DrainKept
<1>14. QED
  BY <1>8, <1>10, <1>11, <1>12, <1>13 DEF IInv

LEMMA AcquireFailsStep ==
    ASSUME IInv, NEW c \in Calls, AcquireFails(c)
    PROVE  IInv'
<1>1. call[c].phase \in {"dialing", "refused"} /\ AttemptFails(c, "rejected")
  BY DEF AcquireFails
<1>2. call[c].owner = None
  BY <1>1 DEF IInv, CallInv, RecordFits, Holding
<1>3. QED
  BY <1>1, <1>2, ClientConstants, AttemptFailsStep

LEMMA RejectSettlesStep ==
    ASSUME IInv, NEW c \in Calls, RejectSettles(c)
    PROVE  IInv'
<1>1. call[c].phase = "rejecting" /\ AttemptFails(c, "rejected")
  BY DEF RejectSettles
<1>2. \A o \in Owners : call[c].owner = o => owner[o].state \notin Live
  BY DEF RejectSettles, ClosedOwner, Live
<1>3. QED
  BY <1>1, <1>2, AttemptFailsStep

LEMMA DialSettlesStep ==
    ASSUME IInv, NEW c \in Calls, NEW usable \in BOOLEAN, DialSettles(c, usable)
    PROVE  IInv'
<1>0. TypeOK /\ CallInv /\ KeeperInv /\ DrainInv /\ DrainLeavesNothing /\ LeaseInv
  BY DEF IInv
<1>1. call[c] \in CallRecord /\ RecordFits(call[c]) /\ call[c].phase = "dialing"
  BY <1>0 DEF TypeOK, CallInv, DialSettles
<1>2. /\ call[c].attempt \in 1 .. MaxAttempts /\ call[c].owner = None
      /\ call[c].at \in Endpoints /\ ~call[c].ok /\ ~call[c].received
  BY <1>1, ClientConstants DEF CallRecord, RecordFits, Holding, Reporting, Early
<1>3. PICK o \in Owners : o = <<c, call[c].attempt>>
  BY <1>2 DEF Owners
<1>4. PICK phase, state :
          /\ phase \in {"fetching", "rejecting"} /\ state \in {"open", "closing"}
          /\ state = "open" => ~closed
          /\ state # "open" => phase = "rejecting"
          /\ owner' = [owner EXCEPT ![o] = [at |-> call[c].at, state |-> state]]
          /\ call' = [call EXCEPT ![c].phase = phase, ![c].owner = o]
          /\ UNCHANGED <<idle, bodies, ep, now, closed, drain>>
  <2>1. CASE usable /\ ~closed
    BY <1>3, <2>1 DEF DialSettles
  <2>2. CASE ~(usable /\ ~closed)
    <3>1. /\ owner' = [owner EXCEPT ![o] = [at |-> call[c].at, state |-> "closing"]]
          /\ call' = [call EXCEPT ![c].phase = "rejecting", ![c].owner = o]
          /\ UNCHANGED <<idle, bodies, ep, now, closed, drain>>
      BY <1>3, <2>2 DEF DialSettles
    <3>2. PICK phase, state : phase = "rejecting" /\ state = "closing"
      OBVIOUS
    <3>3. /\ phase \in {"fetching", "rejecting"} /\ state \in {"open", "closing"}
          /\ state = "open" => ~closed
          /\ state # "open" => phase = "rejecting"
      BY <3>2
    <3>4. /\ owner' = [owner EXCEPT ![o] = [at |-> call[c].at, state |-> state]]
          /\ call' = [call EXCEPT ![c].phase = phase, ![c].owner = o]
          /\ UNCHANGED <<idle, bodies, ep, now, closed, drain>>
      BY <3>1, <3>2
    <3>5. QED
      BY <3>3, <3>4
  <2>3. QED
    BY <2>1, <2>2
<1>5. PICK r : r = [call[c] EXCEPT !.phase = phase, !.owner = o]
  OBVIOUS
<1>6. call' = [call EXCEPT ![c] = r]
  BY <1>0, <1>4, <1>5 DEF TypeOK
<1>7. /\ r \in CallRecord
      /\ r.phase = phase /\ r.owner = o /\ r.attempt = call[c].attempt
      /\ r.attached = call[c].attached /\ r.at = call[c].at
      /\ r.ok = call[c].ok /\ r.received = call[c].received
  BY <1>1, <1>3, <1>4, <1>5 DEF CallRecord, Phases
<1>8. RecordFits(r)
  BY <1>1, <1>2, <1>3, <1>4, <1>7, ClientConstants DEF RecordFits, Early, Holding, Reporting
<1>9. /\ call' \in [Calls -> CallRecord] /\ CallInv'
      /\ call'[c] = r /\ \A d \in Calls : d # c => call'[d] = call[d]
  BY <1>0, <1>6, <1>7, <1>8, CallStep
<1>10. Advances
  <2>1. RecordAdvances(call[c], r)
    BY <1>1, <1>4, <1>7 DEF RecordAdvances, Early
  <2>2. QED
    BY <1>0, <1>7, <1>9, <2>1, OneAdvances
<1>11. /\ owner' \in [Owners -> OwnerRecord] /\ owner'[o].state = state
       /\ \A p \in Owners : p # o => owner'[p] = owner[p]
  <2>1. owner \in [Owners -> OwnerRecord]
    BY <1>0 DEF TypeOK
  <2>2. PICK s : s = [at |-> call[c].at, state |-> state]
    OBVIOUS
  <2>3. s \in OwnerRecord /\ s.state = state
    BY <1>2, <1>4, <2>2 DEF OwnerRecord
  <2>4. QED
    BY <1>4, <2>1, <2>2, <2>3
<1>12. TypeOK'
  BY <1>0, <1>4, <1>9, <1>11 DEF TypeOK
<1>13. ~Spent(o) /\ Spent(o)'
  <2>1. o[1] = c /\ o[2] = call[c].attempt
    BY <1>3
  <2>2. call[c].attempt \in Nat
    BY <1>2, ClientConstants
  <2>3. ~Spent(o)
    BY <1>1, <2>1, <2>2 DEF Spent, Early
  <2>4. Spent(o)'
    BY <1>4, <1>7, <1>9, <2>1 DEF Spent, Early
  <2>5. QED
    BY <2>3, <2>4
<1>14. ~Pooled(o) /\ ~Held(o) /\ o \notin bodies
  BY <1>0, <1>13 DEF KeeperInv, Kept
<1>15. KeeperInv'
  <2>1. Len(idle') <= MaxIdle /\ Distinct(idle')
    BY <1>0, <1>4 DEF KeeperInv
  <2>2. \A p \in Owners : Pooled(p)' <=> Pooled(p)
    BY <1>4 DEF Pooled
  <2>3. \A p \in Owners : Held(p)' <=> Held(p) \/ p = o
    BY <1>2, <1>7, <1>9, ClientConstants DEF Held
  <2>4. \A d \in Calls : call[d].owner # o
    BY <1>14 DEF Held
  <2>5. \A d, f \in Calls : call'[d].owner = call'[f].owner /\ call'[d].owner # None => d = f
    BY <1>0, <1>7, <1>9, <2>4 DEF KeeperInv
  <2>6. \A p \in Owners : Spent(p) => Spent(p)'
    BY <1>0, <1>9, <1>10, SpentStays
  <2>7. ASSUME NEW p \in Owners
        PROVE  /\ Pooled(p)' => owner'[p].state = "open" /\ ~Held(p)' /\ p \notin bodies'
               /\ Held(p)' => p \notin bodies'
               /\ owner'[p].state = "open" => Kept(p)'
               /\ Kept(p)' => Spent(p)'
    BY <1>0, <1>4, <1>11, <1>13, <1>14, <2>2, <2>3, <2>6 DEF KeeperInv, Kept
  <2>8. QED
    BY <2>1, <2>5, <2>7 DEF KeeperInv, Kept
<1>16. LeaseInv'
  <2>1. \A d \in Calls : /\ call'[d].attached <=> call[d].attached
                         /\ call[d].attached => call'[d].at = call[d].at
    BY <1>7, <1>9
  <2>2. QED
    BY <1>0, <1>4, <2>1, LeasesKept
<1>17. DrainInv' /\ DrainLeavesNothing'
  <2>1. c \in Admissions
    BY <1>1 DEF Admissions
  <2>2. drain.state # "drained"
    BY <1>0, <2>1 DEF DrainLeavesNothing
  <2>3. Admissions' \subseteq Admissions
    BY <1>9, <2>1 DEF Admissions
  <2>4. ASSUME closed, NEW p \in Connections'
        PROVE  p \in drain.owners \/ \E d \in Calls : call'[d].phase = "rejecting" /\ call'[d].owner = p
    <3>1. CASE p = o
      BY <1>4, <1>7, <1>9, <2>4, <3>1
    <3>2. CASE p # o
      <4>1. p \in Connections
        BY <1>11, <2>4, <3>2 DEF Connections
      <4>2. PICK d \in Calls : p \in drain.owners \/ (call[d].phase = "rejecting" /\ call[d].owner = p)
        BY <1>0, <2>4, <4>1 DEF DrainInv
      <4>3. QED
        BY <1>1, <1>9, <4>2
    <3>3. QED
      BY <3>1, <3>2
  <2>5. closed => \A p \in Owners : owner'[p].state # "open"
    BY <1>0, <1>4, <1>11 DEF DrainInv
  <2>6. DrainInv'
    BY <1>0, <1>4, <2>3, <2>4, <2>5 DEF DrainInv
  <2>7. QED
    BY <1>4, <2>2, <2>6 DEF DrainLeavesNothing
<1>18. QED
  BY <1>9, <1>12, <1>15, <1>16, <1>17 DEF IInv

\* The parts of the invariant that the way an exchange ends does not matter to.
LEMMA EndsExchange ==
    ASSUME IInv, NEW c \in Calls, NEW r \in CallRecord, RecordFits(r),
           call[c].phase \in {"fetching", "releasing"},
           r.phase \in {"releasing", "failed", "done"}, ~r.attached,
           RecordAdvances(call[c], r),
           call' = [call EXCEPT ![c] = r],
           UNCHANGED <<now, closed, drain>>,
           idle' \in Seq(Owners), bodies' \subseteq Owners,
           owner' \in [Owners -> OwnerRecord],
           \A p \in Owners : \/ owner'[p].state = owner[p].state
                             \/ owner[p].state = "open" /\ owner'[p].state = "closing"
                             \/ owner'[p].state \notin Live,
           ep' \in [Endpoints -> EndpointRecord], LeaseInv', KeeperInv'
    PROVE  IInv'
<1>0. TypeOK /\ CallInv /\ DrainInv /\ DrainLeavesNothing
  BY DEF IInv
<1>1. /\ call' \in [Calls -> CallRecord] /\ CallInv'
      /\ call'[c] = r /\ \A d \in Calls : d # c => call'[d] = call[d]
  BY <1>0, CallStep
<1>2. TypeOK'
  BY <1>0, <1>1 DEF TypeOK
<1>3. \A d \in Calls : call'[d].phase \in Admitting => call[d].phase \in Admitting
  BY <1>1 DEF Admitting
<1>4. \A d \in Calls : call[d].phase = "rejecting" =>
              call'[d].phase = "rejecting" /\ call'[d].owner = call[d].owner
  BY <1>1
<1>5. DrainInv' /\ DrainLeavesNothing'
  BY <1>0, <1>1, <1>3, <1>4, DrainKept
<1>6. QED
  BY <1>1, <1>2, <1>5 DEF IInv

LEMMA FetchSettlesStep ==
    ASSUME IInv, NEW c \in Calls, NEW reply \in Replies, FetchSettles(c, reply)
    PROVE  IInv'
<1> DEFINE ok == reply = "reply"
           held == ok /\ call[c].kind # "typed"
<1>0. TypeOK /\ CallInv /\ KeeperInv /\ LeaseInv
  BY DEF IInv
<1>1. call[c] \in CallRecord /\ RecordFits(call[c]) /\ call[c].phase = "fetching"
  BY <1>0 DEF TypeOK, CallInv, FetchSettles
<1>2. PICK o \in Owners : o = call[c].owner
  BY <1>1 DEF CallRecord, RecordFits, Holding
<1>3. Held(o) /\ Kept(o)
  BY <1>2 DEF Held, Kept
<1>4. ~Pooled(o) /\ o \notin bodies /\ \A d \in Calls : d # c => call[d].owner # o
  BY <1>0, <1>2, <1>3, ClientConstants DEF KeeperInv
<1>5. Feedback(c, reply) /\ UNCHANGED <<now, closed, drain>>
  BY DEF FetchSettles
<1>6. /\ Ended \in CallRecord /\ RecordFits(Ended) /\ RecordAdvances(call[c], Ended)
      /\ Ended.phase = "done" /\ ~Ended.attached /\ Ended.owner = None
  BY FreshFits DEF Ended, FreshCall, RecordAdvances
<1>7. ASSUME NEW r \in CallRecord, RecordFits(r), ~r.attached, RecordAdvances(call[c], r),
             call' = [call EXCEPT ![c] = r]
      PROVE  /\ call' \in [Calls -> CallRecord]
             /\ call'[c] = r /\ \A d \in Calls : d # c => call'[d] = call[d]
             /\ Advances
             /\ LeaseInv' /\ ep' \in [Endpoints -> EndpointRecord]
  <2>1. /\ call' \in [Calls -> CallRecord]
        /\ call'[c] = r /\ \A d \in Calls : d # c => call'[d] = call[d]
    BY <1>0, <1>7, CallStep
  <2>2. Advances
    BY <1>0, <1>7, <2>1, OneAdvances
  <2>3. LeaseInv' /\ ep' \in [Endpoints -> EndpointRecord]
    BY <1>0, <1>5, <1>7, <2>1, FeedbackBalances
  <2>4. QED
    BY <2>1, <2>2, <2>3
<1>8. CASE held
  <2>1. bodies' = bodies \cup {o} /\ UNCHANGED <<owner, idle>> /\ call' = [call EXCEPT ![c] = Ended]
    BY <1>2, <1>8 DEF FetchSettles
  <2>2. /\ call' \in [Calls -> CallRecord]
        /\ call'[c] = Ended /\ \A d \in Calls : d # c => call'[d] = call[d]
        /\ Advances
        /\ LeaseInv' /\ ep' \in [Endpoints -> EndpointRecord]
    BY <1>6, <1>7, <2>1
  <2>3. KeeperInv'
    <3>1. Len(idle') <= MaxIdle /\ Distinct(idle')
      BY <1>0, <2>1 DEF KeeperInv
    <3>2. \A p \in Owners : Pooled(p)' <=> Pooled(p)
      BY <2>1 DEF Pooled
    <3>3. \A p \in Owners : Held(p)' <=> Held(p) /\ p # o
      BY <1>2, <1>4, <1>6, <2>2, ClientConstants DEF Held
    <3>4. \A d, f \in Calls : call'[d].owner = call'[f].owner /\ call'[d].owner # None => d = f
      BY <1>0, <1>6, <2>2 DEF KeeperInv
    <3>5. \A p \in Owners : Spent(p) => Spent(p)'
      BY <1>0, <2>2, SpentStays
    <3>6. ASSUME NEW p \in Owners
          PROVE  /\ Pooled(p)' => owner'[p].state = "open" /\ ~Held(p)' /\ p \notin bodies'
                 /\ Held(p)' => p \notin bodies'
                 /\ owner'[p].state = "open" => Kept(p)'
                 /\ Kept(p)' => Spent(p)'
      BY <1>0, <1>3, <1>4, <2>1, <3>2, <3>3, <3>5 DEF KeeperInv, Kept
    <3>7. QED
      BY <3>1, <3>4, <3>6 DEF KeeperInv, Kept
  <2>4. idle' \in Seq(Owners) /\ bodies' \subseteq Owners /\ owner' \in [Owners -> OwnerRecord]
    BY <1>0, <2>1 DEF TypeOK
  <2>5. QED
    BY <1>1, <1>5, <1>6, <2>1, <2>2, <2>3, <2>4, EndsExchange
<1>9. CASE ~held /\ Reusable(o, ok)
  <2>1. Release(o, ok) /\ UNCHANGED bodies /\ call' = [call EXCEPT ![c] = Ended]
    BY <1>2, <1>9 DEF FetchSettles
  <2>2. /\ call' \in [Calls -> CallRecord]
        /\ call'[c] = Ended /\ \A d \in Calls : d # c => call'[d] = call[d]
        /\ Advances
        /\ LeaseInv' /\ ep' \in [Endpoints -> EndpointRecord]
    BY <1>6, <1>7, <2>1
  <2>3. ~Held(o)'
    BY <1>4, <1>6, <2>2, ClientConstants DEF Held
  <2>4. \A d \in Calls : \/ call'[d].owner = call[d].owner
                         \/ call'[d].owner = None /\ call[d].owner = o
    BY <1>2, <1>6, <2>2
  <2>5. KeeperInv' /\ idle' \in Seq(Owners) /\ owner' \in [Owners -> OwnerRecord]
        /\ \A p \in Owners : \/ owner'[p].state = owner[p].state
                             \/ owner[p].state = "open" /\ owner'[p].state = "closing"
    <3>1. o \notin bodies' /\ bodies' \subseteq bodies /\ bodies \subseteq bodies' \cup {o}
      BY <1>4, <2>1
    <3>2. QED
      BY <1>0, <1>3, <1>4, <1>9, <2>1, <2>2, <2>3, <2>4, <3>1, KeepersPool
  <2>6. bodies' \subseteq Owners
    BY <1>0, <2>1 DEF TypeOK
  <2>7. QED
    BY <1>1, <1>5, <1>6, <2>1, <2>2, <2>5, <2>6, EndsExchange
<1>10. CASE ~held /\ ~Reusable(o, ok)
  <2>1. PICK b \in BOOLEAN, k \in BOOLEAN : b = (reply # "rejected") /\ k = ok
    OBVIOUS
  <2>2. PICK r : r = [call[c] EXCEPT !.phase = "releasing", !.received = b, !.ok = k, !.at = None,
                                     !.attached = FALSE]
    OBVIOUS
  <2>3. /\ Release(o, ok) /\ UNCHANGED bodies
        /\ call' = [call EXCEPT ![c] = r]
    BY <1>2, <1>10, <2>1, <2>2 DEF FetchSettles
  <2>4. owner' = CloseResident({o}) /\ UNCHANGED idle
    BY <1>10, <2>3 DEF Release
  <2>5. /\ r \in CallRecord
        /\ r.phase = "releasing" /\ r.attached = FALSE
        /\ r.owner = call[c].owner /\ r.attempt = call[c].attempt
    BY <1>1, <2>1, <2>2 DEF CallRecord, Phases
  <2>6. RecordFits(r) /\ RecordAdvances(call[c], r)
    BY <1>1, <2>5 DEF RecordFits, RecordAdvances, Early, Holding, Reporting
  <2>7. /\ call' \in [Calls -> CallRecord]
        /\ call'[c] = r /\ \A d \in Calls : d # c => call'[d] = call[d]
        /\ Advances
        /\ LeaseInv' /\ ep' \in [Endpoints -> EndpointRecord]
    BY <1>7, <2>3, <2>5, <2>6
  <2>8. /\ owner' \in [Owners -> OwnerRecord]
        /\ \A p \in Owners : owner'[p].state =
                 IF p \in {o} /\ owner[p].state = "open" THEN "closing" ELSE owner[p].state
    BY <1>0, <2>4, CloseResidentProperties
  <2>9. KeeperInv'
    <3>1. \A d \in Calls : call'[d].owner = call[d].owner
      BY <2>5, <2>7
    <3>2. \A p \in Owners : /\ owner'[p].state = "open" => owner[p].state = "open"
                            /\ Pooled(p) => owner'[p].state = owner[p].state
      BY <1>4, <2>8
    <3>3. QED
      BY <1>0, <2>3, <2>4, <2>7, <3>1, <3>2, KeepersLetGo
  <2>10. idle' \in Seq(Owners) /\ bodies' \subseteq Owners
    BY <1>0, <2>3, <2>4 DEF TypeOK
  <2>11. \A p \in Owners : \/ owner'[p].state = owner[p].state
                           \/ owner[p].state = "open" /\ owner'[p].state = "closing"
    BY <2>8
  <2>12. QED
    BY <1>1, <1>5, <2>3, <2>5, <2>6, <2>7, <2>8, <2>9, <2>10, <2>11, EndsExchange
<1>11. QED
  BY <1>8, <1>9, <1>10

LEMMA ReleaseSettlesStep ==
    ASSUME IInv, NEW c \in Calls, ReleaseSettles(c)
    PROVE  IInv'
<1>0. TypeOK /\ CallInv /\ KeeperInv /\ LeaseInv
  BY DEF IInv
<1>1. call[c] \in CallRecord /\ RecordFits(call[c]) /\ call[c].phase = "releasing"
  BY <1>0 DEF TypeOK, CallInv, ReleaseSettles
<1>2. PICK o \in Owners : o = call[c].owner
  BY <1>1 DEF CallRecord, RecordFits, Holding
<1>3. ~call[c].attached
  BY <1>1 DEF RecordFits, Reporting
<1>4. /\ owner' = [owner EXCEPT ![o] = NoClient]
      /\ UNCHANGED <<idle, bodies, ep, now, closed, drain>>
  BY <1>2 DEF ReleaseSettles
<1>5. /\ owner' \in [Owners -> OwnerRecord] /\ owner'[o].state = "none"
      /\ \A p \in Owners : p # o => owner'[p] = owner[p]
  <2>1. NoClient \in OwnerRecord /\ NoClient.state = "none"
    BY DEF NoClient, OwnerRecord
  <2>2. owner \in [Owners -> OwnerRecord]
    BY <1>0 DEF TypeOK
  <2>3. QED
    BY <1>4, <2>1, <2>2
<1>6. PICK r \in CallRecord :
          /\ call' = [call EXCEPT ![c] = r]
          /\ RecordFits(r) /\ RecordAdvances(call[c], r)
          /\ r.phase \in {"failed", "done"} /\ ~r.attached /\ r.owner = None
  <2> DEFINE closeFailed == owner[o].state = "closeFailed"
  <2>1. CASE call[c].ok /\ ~closeFailed
    <3>1. call' = [call EXCEPT ![c] = Ended]
      BY <1>2, <2>1 DEF ReleaseSettles
    <3>2. /\ Ended \in CallRecord /\ RecordFits(Ended) /\ RecordAdvances(call[c], Ended)
          /\ Ended.phase = "done" /\ ~Ended.attached /\ Ended.owner = None
      BY FreshFits DEF Ended, FreshCall, RecordAdvances
    <3>3. QED
      BY <3>1, <3>2
  <2>2. CASE ~(call[c].ok /\ ~closeFailed)
    <3>1. PICK k \in BOOLEAN, m \in BOOLEAN :
              /\ k = call[c].ok
              /\ m = (~call[c].ok /\ Commits(call[c], closeFailed))
      BY <1>1 DEF CallRecord
    <3>2. PICK r : r = [call[c] EXCEPT !.phase = "failed", !.owner = None, !.completed = k,
                                       !.committed = m]
      OBVIOUS
    <3>3. call' = [call EXCEPT ![c] = r]
      BY <1>2, <2>2, <3>1, <3>2 DEF ReleaseSettles
    <3>4. /\ r \in CallRecord
          /\ r.phase = "failed" /\ r.owner = None /\ r.completed = k /\ r.committed = m
          /\ r.ok = call[c].ok /\ r.received = call[c].received /\ r.kind = call[c].kind
          /\ r.attached = call[c].attached /\ r.attempt = call[c].attempt
      BY <1>1, <3>1, <3>2 DEF CallRecord, Phases
    <3>5. r.ok => r.completed
      BY <3>1, <3>4
    <3>6. r.kind = "stream" /\ r.received /\ ~r.ok => r.committed
      BY <3>1, <3>4 DEF Commits
    <3>7. RecordFits(r) /\ RecordAdvances(call[c], r)
      BY <1>1, <1>3, <3>4, <3>5, <3>6 DEF RecordFits, RecordAdvances, Early, Holding, Reporting
    <3>8. QED
      BY <1>3, <3>3, <3>4, <3>7
  <2>3. QED
    BY <2>1, <2>2
<1>7. /\ call' \in [Calls -> CallRecord]
      /\ call'[c] = r /\ \A d \in Calls : d # c => call'[d] = call[d]
  BY <1>0, <1>6, CallStep
<1>8. Advances
  BY <1>0, <1>6, <1>7, OneAdvances
<1>9. ~Pooled(o)
  BY <1>0, <1>2 DEF KeeperInv, Held
<1>10. KeeperInv'
  <2>1. \A d \in Calls : \/ call'[d].owner = call[d].owner
                         \/ /\ call'[d].owner = None
                            /\ call[d].owner \in Owners => owner'[call[d].owner].state # "open"
    BY <1>2, <1>5, <1>6, <1>7
  <2>2. \A p \in Owners : /\ owner'[p].state = "open" => owner[p].state = "open"
                          /\ Pooled(p) => owner'[p].state = owner[p].state
    BY <1>5, <1>9
  <2>3. QED
    BY <1>0, <1>4, <1>7, <1>8, <2>1, <2>2, KeepersLetGo
<1>11. LeaseInv'
  <2>1. \A d \in Calls : /\ call'[d].attached <=> call[d].attached
                         /\ call[d].attached => call'[d].at = call[d].at
    BY <1>3, <1>6, <1>7
  <2>2. QED
    BY <1>0, <1>4, <2>1, LeasesKept
<1>12. /\ idle' \in Seq(Owners) /\ bodies' \subseteq Owners
       /\ ep' \in [Endpoints -> EndpointRecord]
  BY <1>0, <1>4 DEF TypeOK
<1>13. \A p \in Owners : owner'[p].state = owner[p].state \/ owner'[p].state \notin Live
  BY <1>5 DEF Live
<1>14. QED
  BY <1>1, <1>4, <1>5, <1>6, <1>10, <1>11, <1>12, <1>13, EndsExchange

-------------------------------------------------------------------------------
(***************************************************************************)
(* Steps of the pool, the bodies and the drain.                             *)
(***************************************************************************)
\* No call moves.
LEMMA CallsStay ==
    ASSUME IInv, UNCHANGED <<call, ep>>
    PROVE  /\ call' \in [Calls -> CallRecord] /\ CallInv' /\ Advances /\ LeaseInv'
           /\ ep' \in [Endpoints -> EndpointRecord]
           /\ \A c \in Calls : call'[c] = call[c]
           /\ \A o \in Owners : Held(o)' <=> Held(o)
           /\ \A o \in Owners : Spent(o) => Spent(o)'
<1>0. TypeOK /\ CallInv /\ LeaseInv
  BY DEF IInv
<1>1. call' \in [Calls -> CallRecord] /\ ep' \in [Endpoints -> EndpointRecord]
  BY <1>0 DEF TypeOK
<1>2. CallInv'
  BY <1>0 DEF CallInv, RecordFits
<1>3. Advances
  BY DEF Advances
<1>4. LeaseInv'
  BY <1>0, LeasesKept
<1>5. \A o \in Owners : Held(o)' <=> Held(o)
  BY DEF Held
<1>6. \A o \in Owners : Spent(o) => Spent(o)'
  BY DEF Spent
<1>7. QED
  BY <1>1, <1>2, <1>3, <1>4, <1>5, <1>6

\* Owners only close.
LEMMA OnlyOwnersMove ==
    ASSUME IInv, UNCHANGED <<call, ep, now, closed, drain>>,
           idle' \in Seq(Owners), bodies' \subseteq Owners,
           owner' \in [Owners -> OwnerRecord],
           \A p \in Owners : \/ owner'[p].state = owner[p].state
                             \/ owner[p].state = "open" /\ owner'[p].state = "closing"
                             \/ owner'[p].state \notin Live,
           KeeperInv'
    PROVE  IInv'
<1>0. TypeOK /\ CallInv /\ DrainInv /\ DrainLeavesNothing
  BY DEF IInv
<1>1. /\ call' \in [Calls -> CallRecord] /\ CallInv' /\ LeaseInv'
      /\ ep' \in [Endpoints -> EndpointRecord]
      /\ \A c \in Calls : call'[c] = call[c]
  BY CallsStay
<1>2. TypeOK'
  BY <1>0, <1>1 DEF TypeOK
<1>3. DrainInv' /\ DrainLeavesNothing'
  BY <1>0, <1>1, DrainKept
<1>4. QED
  BY <1>1, <1>2, <1>3 DEF IInv

LEMMA BodyEndsStep ==
    ASSUME IInv, NEW o \in Owners, BodyEnds(o)
    PROVE  IInv'
<1>0. TypeOK /\ KeeperInv
  BY DEF IInv
<1>1. /\ o \in bodies /\ bodies' = bodies \ {o} /\ Release(o, TRUE)
      /\ UNCHANGED <<call, ep, now, closed, drain>>
  BY DEF BodyEnds
<1>2. /\ call' \in [Calls -> CallRecord] /\ Advances
      /\ \A c \in Calls : call'[c] = call[c]
      /\ \A p \in Owners : Held(p)' <=> Held(p)
  BY <1>1, CallsStay
<1>3. Kept(o) /\ ~Pooled(o) /\ ~Held(o) /\ ~Held(o)'
  BY <1>0, <1>1, <1>2 DEF KeeperInv, Kept
<1>4. bodies' \subseteq Owners /\ bodies' \subseteq bodies /\ bodies \subseteq bodies' \cup {o}
      /\ o \notin bodies'
  BY <1>0, <1>1 DEF TypeOK
<1>5. CASE Reusable(o, TRUE)
  <2>1. KeeperInv' /\ idle' \in Seq(Owners) /\ owner' \in [Owners -> OwnerRecord]
        /\ \A p \in Owners : \/ owner'[p].state = owner[p].state
                             \/ owner[p].state = "open" /\ owner'[p].state = "closing"
    BY <1>0, <1>1, <1>2, <1>3, <1>4, <1>5, KeepersPool
  <2>2. QED
    BY <1>1, <1>4, <2>1, OnlyOwnersMove
<1>6. CASE ~Reusable(o, TRUE)
  <2>1. owner' = CloseResident({o}) /\ UNCHANGED idle
    BY <1>1, <1>6 DEF Release
  <2>2. /\ owner' \in [Owners -> OwnerRecord]
        /\ \A p \in Owners : owner'[p].state =
                 IF p \in {o} /\ owner[p].state = "open" THEN "closing" ELSE owner[p].state
    BY <1>0, <2>1, CloseResidentProperties
  <2>3. \A p \in Owners : /\ owner'[p].state = "open" => owner[p].state = "open"
                          /\ Pooled(p) => owner'[p].state = owner[p].state
                          /\ p \in bodies \ bodies' => owner'[p].state # "open"
    BY <1>1, <1>3, <2>2
  <2>4. KeeperInv'
    BY <1>0, <1>2, <1>4, <2>1, <2>3, KeepersLetGo
  <2>5. idle' \in Seq(Owners)
    BY <1>0, <2>1 DEF TypeOK
  <2>6. \A p \in Owners : \/ owner'[p].state = owner[p].state
                          \/ owner[p].state = "open" /\ owner'[p].state = "closing"
    BY <2>2
  <2>7. QED
    BY <1>1, <1>4, <2>2, <2>4, <2>5, <2>6, OnlyOwnersMove
<1>7. QED
  BY <1>5, <1>6

LEMMA IdleExpiresStep ==
    ASSUME IInv, NEW o \in Owners, IdleExpires(o)
    PROVE  IInv'
<1>0. TypeOK /\ KeeperInv
  BY DEF IInv
<1>1. PICK i \in 1 .. Len(idle) : idle[i] = o /\ idle' = RemoveAt(idle, i)
  BY DEF IdleExpires
<1>2. owner' = CloseResident({o}) /\ UNCHANGED <<call, bodies, ep, now, closed, drain>>
  BY DEF IdleExpires
<1>3. /\ call' \in [Calls -> CallRecord] /\ Advances
      /\ \A c \in Calls : call'[c] = call[c]
      /\ \A p \in Owners : Held(p)' <=> Held(p)
      /\ \A p \in Owners : Spent(p) => Spent(p)'
  BY <1>2, CallsStay
<1>4. /\ idle' \in Seq(Owners) /\ Len(idle') = Len(idle) - 1 /\ Distinct(idle')
      /\ \A p \in Owners : Pooled(p)' <=> Pooled(p) /\ p # o
  <2>1. idle \in Seq(Owners) /\ Distinct(idle)
    BY <1>0 DEF TypeOK, KeeperInv
  <2>2. QED
    BY <1>1, <2>1, PoolRemoves DEF Pooled
<1>5. /\ owner' \in [Owners -> OwnerRecord]
      /\ \A p \in Owners : owner'[p].state =
               IF p \in {o} /\ owner[p].state = "open" THEN "closing" ELSE owner[p].state
  BY <1>0, <1>2, CloseResidentProperties
<1>6. Len(idle') <= MaxIdle /\ Distinct(idle')
  <2>1. Len(idle) \in Nat /\ Len(idle) <= MaxIdle
    BY <1>0 DEF TypeOK, KeeperInv
  <2>2. QED
    BY <1>4, <2>1, ClientConstants
<1>7. \A c, d \in Calls : call'[c].owner = call'[d].owner /\ call'[c].owner # None => c = d
  BY <1>0, <1>3 DEF KeeperInv
<1>8. ASSUME NEW p \in Owners
      PROVE  /\ Pooled(p)' => owner'[p].state = "open" /\ ~Held(p)' /\ p \notin bodies'
             /\ Held(p)' => p \notin bodies'
             /\ owner'[p].state = "open" => Kept(p)'
             /\ Kept(p)' => Spent(p)'
  BY <1>0, <1>2, <1>3, <1>4, <1>5 DEF KeeperInv, Kept
<1>9. KeeperInv'
  BY <1>6, <1>7, <1>8 DEF KeeperInv, Kept
<1>10. bodies' \subseteq Owners
  BY <1>0, <1>2 DEF TypeOK
<1>11. \A p \in Owners : \/ owner'[p].state = owner[p].state
                         \/ owner[p].state = "open" /\ owner'[p].state = "closing"
  BY <1>5
<1>12. QED
  BY <1>2, <1>4, <1>5, <1>9, <1>10, <1>11, OnlyOwnersMove

LEMMA OwnerClosesStep ==
    ASSUME IInv, NEW o \in Owners, NEW failed \in BOOLEAN, OwnerCloses(o, failed)
    PROVE  IInv'
<1>0. TypeOK /\ KeeperInv
  BY DEF IInv
<1>1. owner[o] \in OwnerRecord /\ owner[o].state = "closing" /\ owner \in [Owners -> OwnerRecord]
  BY <1>0 DEF TypeOK, OwnerCloses
<1>2. PICK s : /\ s = IF failed THEN [owner[o] EXCEPT !.state = "closeFailed"] ELSE NoClient
               /\ owner' = [owner EXCEPT ![o] = s]
  BY DEF OwnerCloses
<1>3. s \in OwnerRecord /\ s.state \in {"none", "closeFailed"}
  BY <1>1, <1>2 DEF OwnerRecord, NoClient
<1>4. /\ owner' \in [Owners -> OwnerRecord] /\ owner'[o].state \notin Live
      /\ \A p \in Owners : p # o => owner'[p] = owner[p]
  BY <1>1, <1>2, <1>3 DEF Live
<1>5. UNCHANGED <<call, idle, bodies, ep, now, closed, drain>>
  BY DEF OwnerCloses
<1>6. ~Pooled(o)
  BY <1>0, <1>1 DEF KeeperInv
<1>7. \A p \in Owners : /\ owner'[p].state = "open" => owner[p].state = "open"
                        /\ Pooled(p) => owner'[p].state = owner[p].state
  BY <1>4, <1>6 DEF Live
<1>8. KeeperInv'
  <2>1. /\ call' \in [Calls -> CallRecord] /\ Advances
        /\ \A c \in Calls : call'[c] = call[c]
    BY <1>5, CallsStay
  <2>2. QED
    BY <1>0, <1>5, <1>7, <2>1, KeepersLetGo
<1>9. idle' \in Seq(Owners) /\ bodies' \subseteq Owners
  BY <1>0, <1>5 DEF TypeOK
<1>10. \A p \in Owners : owner'[p].state = owner[p].state \/ owner'[p].state \notin Live
  BY <1>4
<1>11. QED
  BY <1>4, <1>5, <1>8, <1>9, <1>10, OnlyOwnersMove

LEMMA CloseStep ==
    ASSUME IInv, Close
    PROVE  IInv'
<1>0. TypeOK /\ KeeperInv /\ DrainInv
  BY DEF IInv
<1>1. /\ closed' = TRUE /\ idle' = <<>> /\ UNCHANGED <<call, bodies, ep, now>>
      /\ drain' = [state |-> "draining", owners |-> Connections, calls |-> Admissions]
      /\ owner' = CloseResident(Connections)
  BY DEF Close
<1>2. /\ call' \in [Calls -> CallRecord] /\ CallInv' /\ Advances /\ LeaseInv'
      /\ ep' \in [Endpoints -> EndpointRecord]
      /\ \A c \in Calls : call'[c] = call[c]
      /\ \A p \in Owners : Held(p)' <=> Held(p)
      /\ \A p \in Owners : Spent(p) => Spent(p)'
  BY <1>1, CallsStay
<1>3. Connections \in SUBSET Owners /\ Admissions \in SUBSET Calls
  BY DEF Connections, Admissions
<1>4. /\ owner' \in [Owners -> OwnerRecord]
      /\ \A p \in Owners : owner'[p].state =
               IF p \in Connections /\ owner[p].state = "open" THEN "closing" ELSE owner[p].state
  BY <1>0, <1>1, <1>3, CloseResidentProperties
<1>5. \A p \in Owners : owner'[p].state # "open"
  BY <1>4 DEF Connections
<1>6. /\ idle' \in Seq(Owners) /\ Len(idle') = 0
      /\ \A p \in Owners : ~Pooled(p)'
  <2>1. <<>> \in Seq(Owners) /\ Len(<<>>) = 0
    OBVIOUS
  <2>2. QED
    BY <1>1, <2>1 DEF Pooled, In
<1>7. TypeOK'
  BY <1>0, <1>1, <1>2, <1>3, <1>4, <1>6 DEF TypeOK
<1>8. KeeperInv'
  <2>1. Len(idle') <= MaxIdle /\ Distinct(idle')
    BY <1>6, ClientConstants DEF Distinct
  <2>2. \A c, d \in Calls : call'[c].owner = call'[d].owner /\ call'[c].owner # None => c = d
    BY <1>0, <1>2 DEF KeeperInv
  <2>3. ASSUME NEW p \in Owners
        PROVE  /\ Pooled(p)' => owner'[p].state = "open" /\ ~Held(p)' /\ p \notin bodies'
               /\ Held(p)' => p \notin bodies'
               /\ owner'[p].state = "open" => Kept(p)'
               /\ Kept(p)' => Spent(p)'
    BY <1>0, <1>1, <1>2, <1>5, <1>6 DEF KeeperInv, Kept
  <2>4. QED
    BY <2>1, <2>2, <2>3 DEF KeeperInv, Kept
<1>9. Connections' \subseteq Connections /\ Admissions' = Admissions
  BY <1>1, <1>4 DEF Connections, Admissions
<1>10. drain'.state = "draining" /\ drain'.owners = Connections /\ drain'.calls = Admissions
  BY <1>1
<1>11. DrainInv' /\ DrainLeavesNothing'
  BY <1>1, <1>5, <1>9, <1>10 DEF DrainInv, DrainLeavesNothing
<1>12. QED
  BY <1>2, <1>7, <1>8, <1>11 DEF IInv

\* What is closing and not in the drain is waited for by its attempt, whose
\* admission is in the drain: with those settled nothing is left.
LEMMA DrainSettlesStep ==
    ASSUME IInv, DrainSettles
    PROVE  IInv'
<1>0. TypeOK /\ CallInv /\ KeeperInv /\ DrainInv
  BY DEF IInv
<1>1. /\ drain.state = "draining" /\ \A o \in drain.owners : ClosedOwner(o)
      /\ drain.calls \cap Admissions = {} /\ drain' = [drain EXCEPT !.state = "drained"]
      /\ UNCHANGED <<call, owner, idle, bodies, ep, now, closed>>
  BY DEF DrainSettles
<1>2. /\ call' \in [Calls -> CallRecord] /\ CallInv' /\ Advances /\ LeaseInv'
      /\ ep' \in [Endpoints -> EndpointRecord]
      /\ \A c \in Calls : call'[c] = call[c]
  BY <1>1, CallsStay
<1>3. /\ drain' \in [state : {"none", "draining", "drained"}, owners : SUBSET Owners,
                    calls : SUBSET Calls]
      /\ drain'.state = "drained" /\ drain'.owners = drain.owners /\ drain'.calls = drain.calls
  BY <1>0, <1>1 DEF TypeOK
<1>4. TypeOK'
  BY <1>0, <1>1, <1>2, <1>3 DEF TypeOK
<1>5. KeeperInv'
  BY <1>0, <1>1, <1>2, KeepersLetGo
<1>6. closed
  BY <1>0, <1>1 DEF DrainInv
<1>7. Admissions = {}
  BY <1>0, <1>1, <1>6 DEF DrainInv
<1>8. Connections = {}
  <2>1. SUFFICES ASSUME NEW o \in Connections PROVE FALSE
    OBVIOUS
  <2>2. o \notin drain.owners
    BY <1>1 DEF Connections, ClosedOwner
  <2>3. PICK c \in Calls : call[c].phase = "rejecting"
    BY <1>0, <1>6, <2>2 DEF DrainInv
  <2>4. QED
    BY <1>7, <2>3 DEF Admissions
<1>9. Connections' = {} /\ Admissions' = {}
  BY <1>1, <1>7, <1>8 DEF Connections, Admissions
<1>10. \A o \in Owners : owner'[o].state # "open"
  BY <1>0, <1>1, <1>6 DEF DrainInv
<1>11. DrainInv' /\ DrainLeavesNothing'
  BY <1>1, <1>3, <1>6, <1>9, <1>10 DEF DrainInv, DrainLeavesNothing
<1>12. QED
  BY <1>2, <1>4, <1>5, <1>11 DEF IInv

\* The clock and stuttering.
LEMMA IdleStep ==
    ASSUME IInv, UNCHANGED <<call, owner, idle, bodies, ep, closed, drain>>, now' \in Nat
    PROVE  IInv'
<1>0. TypeOK /\ KeeperInv /\ DrainInv /\ DrainLeavesNothing
  BY DEF IInv
<1>1. /\ call' \in [Calls -> CallRecord] /\ CallInv' /\ Advances /\ LeaseInv'
      /\ \A c \in Calls : call'[c] = call[c]
  BY CallsStay
<1>2. TypeOK'
  BY <1>0 DEF TypeOK
<1>3. owner' \in [Owners -> OwnerRecord]
  BY <1>2 DEF TypeOK
<1>4. KeeperInv'
  BY <1>0, <1>1, KeepersLetGo
<1>5. DrainInv' /\ DrainLeavesNothing'
  BY <1>0, <1>1, <1>3, DrainKept
<1>6. QED
  BY <1>1, <1>2, <1>4, <1>5 DEF IInv

-------------------------------------------------------------------------------
(***************************************************************************)
(* The theorems.                                                            *)
(***************************************************************************)
LEMMA InitStep == Init => IInv
<1> SUFFICES ASSUME Init PROVE IInv
  OBVIOUS
<1>1. \A c \in Calls : call[c] = FreshCall
  BY DEF Init
<1>2. /\ FreshCall \in CallRecord /\ RecordFits(FreshCall) /\ FreshCall.owner = None
      /\ ~FreshCall.attached
  BY FreshFits DEF FreshCall
<1>3. /\ NoClient \in OwnerRecord /\ NoClient.state = "none"
      /\ Fresh \in EndpointRecord /\ Fresh.inFlight = 0
  BY DEF NoClient, OwnerRecord, Fresh, EndpointRecord
<1>4. /\ <<>> \in Seq(Owners) /\ Len(<<>>) = 0
      /\ drain = [state |-> "none", owners |-> {}, calls |-> {}]
      /\ idle = <<>> /\ bodies = {} /\ closed = FALSE /\ now = 0
      /\ owner = [o \in Owners |-> NoClient] /\ ep = [e \in Endpoints |-> Fresh]
      /\ call = [c \in Calls |-> FreshCall]
  BY DEF Init
<1>5. TypeOK
  BY <1>2, <1>3, <1>4 DEF TypeOK
<1>6. CallInv
  BY <1>1, <1>2 DEF CallInv
<1>7. \A o \in Owners : ~Pooled(o) /\ ~Held(o) /\ o \notin bodies /\ owner[o].state = "none"
  BY <1>1, <1>2, <1>3, <1>4, ClientConstants DEF Pooled, In, Held
<1>8. KeeperInv
  BY <1>1, <1>2, <1>4, <1>7, ClientConstants DEF KeeperInv, Kept, Distinct
<1>9. DrainInv /\ DrainLeavesNothing
  BY <1>4 DEF DrainInv, DrainLeavesNothing
<1>10. LeaseInv
  <2>1. \A e \in Endpoints : Leases(e) = {} /\ ep[e].inFlight = 0
    BY <1>1, <1>2, <1>3, <1>4 DEF Leases
  <2>2. Cardinality({}) = 0
    BY FS_EmptySet
  <2>3. QED
    BY <2>1, <2>2 DEF LeaseInv
<1>11. QED
  BY <1>5, <1>6, <1>8, <1>9, <1>10 DEF IInv

LEMMA NextStep ==
    ASSUME IInv, [Next]_vars
    PROVE  IInv'
<1>1. CASE \E c \in Calls :
         \/ \E kind \in Kinds : Begin(c, kind)
         \/ ResolveFails(c)
         \/ AcquireFails(c)
         \/ \E usable \in BOOLEAN : DialSettles(c, usable)
         \/ RejectSettles(c)
         \/ \E reply \in Replies : FetchSettles(c, reply)
         \/ ReleaseSettles(c)
         \/ Retry(c)
         \/ GiveUp(c)
         \/ BackoffEnds(c)
         \/ Cancel(c)
  BY <1>1, BeginStep, ResolveFailsStep, AcquireFailsStep, DialSettlesStep, RejectSettlesStep,
     FetchSettlesStep, ReleaseSettlesStep, RetryStep, GiveUpStep, BackoffEndsStep, CancelStep
<1>2. CASE \E c \in Calls : \E offered \in SUBSET Endpoints \ {{}} : \E e \in offered :
              SelectPooled(c, offered, e) \/ SelectDials(c, offered, e)
  BY <1>2, SelectPooledStep, SelectDialsStep
<1>3. CASE \E o \in Owners :
         \/ BodyEnds(o)
         \/ IdleExpires(o)
         \/ \E failed \in BOOLEAN : OwnerCloses(o, failed)
  BY <1>3, BodyEndsStep, IdleExpiresStep, OwnerClosesStep
<1>4. CASE Close
  BY <1>4, CloseStep
<1>5. CASE DrainSettles
  BY <1>5, DrainSettlesStep
<1>6. CASE Tick
  <2>1. now' \in Nat /\ UNCHANGED <<call, owner, idle, bodies, ep, closed, drain>>
    BY <1>6 DEF Tick, IInv, TypeOK
  <2>2. QED
    BY <2>1, IdleStep
<1>7. CASE UNCHANGED vars
  <2>1. now' \in Nat /\ UNCHANGED <<call, owner, idle, bodies, ep, closed, drain>>
    BY <1>7 DEF vars, IInv, TypeOK
  <2>2. QED
    BY <2>1, IdleStep
<1>8. QED
  BY <1>1, <1>2, <1>3, <1>4, <1>5, <1>6, <1>7 DEF Next

\* The invariant holds in every reachable state, for any calls, endpoints,
\* attempts and pool size.
THEOREM Invariance == Spec => []IInv
<1>1. QED
  BY InitStep, NextStep, PTL DEF Spec

LEMMA KeepersCounted == IInv => OneKeeper
<1> SUFFICES ASSUME IInv PROVE OneKeeper
  OBVIOUS
<1>0. TypeOK /\ KeeperInv /\ idle \in Seq(Owners) /\ Len(idle) \in Nat
  BY DEF IInv, TypeOK
<1>1. ASSUME NEW o \in Owners
      PROVE  /\ Cardinality(InPool(o)) = IF Pooled(o) THEN 1 ELSE 0
             /\ InPool(o) # {} <=> Pooled(o)
  <2>1. CASE Pooled(o)
    <3>1. PICK i \in 1 .. Len(idle) : idle[i] = o
      BY <2>1 DEF Pooled, In
    <3>2. InPool(o) = {i}
      BY <1>0, <3>1 DEF InPool, KeeperInv, Distinct
    <3>3. QED
      BY <2>1, <3>2, FS_Singleton
  <2>2. CASE ~Pooled(o)
    <3>1. InPool(o) = {}
      BY <2>2 DEF InPool, Pooled, In
    <3>2. QED
      BY <2>2, <3>1, FS_EmptySet
  <2>3. QED
    BY <2>1, <2>2
<1>2. ASSUME NEW o \in Owners
      PROVE  Cardinality(Holders(o)) = IF Held(o) THEN 1 ELSE 0
  <2>1. CASE Held(o)
    <3>1. PICK c \in Calls : call[c].owner = o
      BY <2>1 DEF Held
    <3>2. Holders(o) = {c}
      BY <1>0, <3>1, ClientConstants DEF Holders, KeeperInv
    <3>3. QED
      BY <2>1, <3>2, FS_Singleton
  <2>2. CASE ~Held(o)
    <3>1. Holders(o) = {}
      BY <2>2 DEF Holders, Held
    <3>2. QED
      BY <2>2, <3>1, FS_EmptySet
  <2>3. QED
    BY <2>1, <2>2
<1>3. ASSUME NEW o \in Owners
      PROVE  LET keepers == Cardinality(InPool(o)) + Cardinality(Holders(o))
                              + (IF o \in bodies THEN 1 ELSE 0)
             IN  /\ owner[o].state = "open" => keepers = 1
                 /\ keepers <= 1
                 /\ InPool(o) # {} => owner[o].state = "open"
  BY <1>0, <1>1, <1>2 DEF KeeperInv, Kept
<1>4. QED
  BY <1>0, <1>3 DEF OneKeeper, KeeperInv

LEMMA LeasesCounted == IInv => LeaseBalance
<1> SUFFICES ASSUME IInv, NEW e \in Endpoints
             PROVE  Leases(e) = {c \in Calls : /\ call[c].phase \in Reporting
                                               /\ call[c].at = e /\ call[c].attached}
  BY DEF LeaseBalance, IInv, LeaseInv, Reporting
<1>1. \A c \in Calls : call[c].attached => call[c].phase \in Reporting
  BY DEF IInv, CallInv, RecordFits
<1>2. QED
  BY <1>1 DEF Leases

\* Only the first attempt of a call and the one after a back-off begin.
LEMMA NoReplayStep ==
    ASSUME IInv, [Next]_vars, NEW c \in Calls, call'[c].attempt > call[c].attempt
    PROVE  ~(call[c].ok \/ (call[c].kind = "stream" /\ call[c].received))
<1>0. \A d \in Calls : /\ call[d] \in CallRecord /\ RecordFits(call[d])
                       /\ call[d].attempt \in Nat
  BY ClientConstants DEF IInv, TypeOK, CallInv, CallRecord
<1>1. SUFFICES call[c].phase \in {"new", "backoff"}
  BY <1>0 DEF RecordFits, Early
<1>2. Ended.attempt = 0 /\ call \in [Calls -> CallRecord]
  BY DEF Ended, FreshCall, IInv, TypeOK
<1>3. SUFFICES \/ call[c].phase \in {"new", "backoff"}
               \/ call'[c].attempt = call[c].attempt
               \/ call'[c].attempt = 0
  BY <1>0
<1>4. CASE UNCHANGED call
  BY <1>4
<1>5. ASSUME NEW d \in Calls, NEW kind \in Kinds, Begin(d, kind)
      PROVE  call[c].phase = "new" \/ call'[c] = call[c]
  BY <1>2, <1>5 DEF Begin
<1>6. ASSUME NEW d \in Calls, BackoffEnds(d)
      PROVE  call[c].phase = "backoff" \/ call'[c] = call[c]
  BY <1>2, <1>6 DEF BackoffEnds
<1>7. ASSUME NEW d \in Calls, ResolveFails(d) \/ Retry(d) \/ Cancel(d)
      PROVE  call'[c].attempt = call[c].attempt
  BY <1>0, <1>2, <1>7 DEF ResolveFails, Retry, Cancel, CallRecord
<1>8. ASSUME NEW d \in Calls, GiveUp(d)
      PROVE  call'[c] = call[c] \/ call'[c] = Ended
  BY <1>2, <1>8 DEF GiveUp
<1>9. ASSUME NEW d \in Calls, AcquireFails(d) \/ RejectSettles(d)
      PROVE  call'[c].attempt = call[c].attempt
  <2>1. AttemptFails(d, "rejected")
    BY <1>9 DEF AcquireFails, RejectSettles
  <2>2. QED
    BY <1>0, <1>2, <2>1 DEF AttemptFails, CallRecord
<1>10. ASSUME NEW d \in Calls, NEW usable \in BOOLEAN, DialSettles(d, usable)
       PROVE  call'[c].attempt = call[c].attempt
  BY <1>0, <1>2, <1>10 DEF DialSettles, CallRecord
<1>11. ASSUME NEW d \in Calls, NEW reply \in Replies, FetchSettles(d, reply)
       PROVE  call'[c].attempt = call[c].attempt \/ call'[c] = Ended
  BY <1>0, <1>2, <1>11 DEF FetchSettles, CallRecord
<1>12. ASSUME NEW d \in Calls, ReleaseSettles(d)
       PROVE  call'[c].attempt = call[c].attempt \/ call'[c] = Ended
  BY <1>0, <1>2, <1>12 DEF ReleaseSettles, CallRecord
<1>13. ASSUME NEW d \in Calls, NEW offered \in SUBSET Endpoints, NEW e \in offered,
              SelectPooled(d, offered, e) \/ SelectDials(d, offered, e)
       PROVE  call'[c].attempt = call[c].attempt
  <2>1. PICK phase, o : Select(d, offered, e, phase, o)
    BY <1>13 DEF SelectPooled, SelectDials
  <2>2. QED
    BY <1>0, <2>1 DEF Select, CallRecord
<1>14. CASE \E d \in Calls :
         \/ \E kind \in Kinds : Begin(d, kind)
         \/ ResolveFails(d)
         \/ \E offered \in SUBSET Endpoints \ {{}} : \E e \in offered :
              SelectPooled(d, offered, e) \/ SelectDials(d, offered, e)
         \/ AcquireFails(d)
         \/ \E usable \in BOOLEAN : DialSettles(d, usable)
         \/ RejectSettles(d)
         \/ \E reply \in Replies : FetchSettles(d, reply)
         \/ ReleaseSettles(d)
         \/ Retry(d)
         \/ GiveUp(d)
         \/ BackoffEnds(d)
         \/ Cancel(d)
  BY <1>2, <1>5, <1>6, <1>7, <1>8, <1>9, <1>10, <1>11, <1>12, <1>13, <1>14
<1>15. QED
  BY <1>4, <1>14 DEF Next, vars, BodyEnds, IdleExpires, OwnerCloses, Close, DrainSettles, Tick

\* Every open transport client has exactly one keeper, whichever order the
\* pool, its timers, the attempts, the bodies and close meet in.
THEOREM OneKeeperTheorem == Spec => []OneKeeper
BY Invariance, KeepersCounted, PTL

\* When close has settled, no transport client is left and no dial is under
\* way, however late a dial ends.
THEOREM DrainLeavesNothingTheorem == Spec => []DrainLeavesNothing
<1>1. IInv => DrainLeavesNothing
  BY DEF IInv
<1>2. QED
  BY <1>1, Invariance, PTL

\* The selector's counters are the attempts in flight, through any change of
\* the offered endpoints.
THEOREM LeaseBalanceTheorem == Spec => []LeaseBalance
BY Invariance, LeasesCounted, PTL

\* An exchange that had its reply, and a stream that had its headers, is never
\* sent again.
THEOREM NoReplayTheorem == Spec => NoReplay
<1>1. IInv /\ [Next]_vars =>
        [\A c \in Calls : call'[c].attempt > call[c].attempt =>
            ~(call[c].ok \/ (call[c].kind = "stream" /\ call[c].received))]_vars
  BY NoReplayStep
<1>2. QED
  BY <1>1, Invariance, PTL DEF Spec, NoReplay
=============================================================================
