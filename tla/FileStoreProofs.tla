-------------------------- MODULE FileStoreProofs --------------------------
(***************************************************************************)
(* Proofs about the file store, for any number of keys, instances and      *)
(* mutations and any largest revision: one live owner at a time, a         *)
(* revision identifies a record of its key, and the store implements the    *)
(* durable map of DurableMap.                                              *)
(***************************************************************************)
EXTENDS FileStore, TLAPS

(***************************************************************************)
(* The inductive invariant                                                 *)
(***************************************************************************)
\* How the step of an instance goes with its lifecycle state.
StepFits(r) ==
    /\ r.state = "starting" => r.step \in {"acquired", "cleaned"}
    /\ r.state = "stopping" => r.step # "none"
    /\ r.state \notin {"starting", "stopping"} => r.step = "none"

OwnerInv == \A o \in Owners : StepFits(own[o])

\* An instance that has not loaded, or has drained, has no operation and no host call.
Serving(o) == own[o].state = "running" \/ own[o].step = "drain"

QuietInv ==
    \A o \in Owners :
        ~Serving(o) => host[o] = << >> /\ \A m \in Ops : op[m].owner # o

Active(m) == op[m].step \in {"encode", "write", "written", "rename", "renamed"}

\* One mutation: its owner is known while it is open, its candidate once it began.
OpFits(m, r) ==
    /\ r.step \in {"none", "over"} <=> r.owner = 0
    /\ r.step \notin {"none", "over"} => r.key \in Keys /\ r.kind # "none"
    /\ r.step # "over" => r.result = "none"
    /\ r.step \in {"encode", "write", "written", "rename", "renamed"} => r.cand.by = m

\* Mutations are submitted in order, and an instance has at most one that began.
OpInv ==
    /\ \A m \in Ops : OpFits(m, op[m])
    /\ \A m \in Ops : \A n \in 1 .. m - 1 : op[m].step # "none" => op[n].step # "none"
    /\ \A m \in Ops : \A n \in 1 .. m - 1 : Active(m) => op[n].owner # op[m].owner

\* The host's queue: the call a mutation waits for is the last one, the others
\* were given up; only the first has begun, and a rename finds its own file.
CallFits(o, i) ==
    LET e == host[o][i]
    IN  /\ e.data.by = e.op
        /\ op[e.op].step \in {e.call, "over"}
        /\ op[e.op].step = e.call =>
             i = Len(host[o]) /\ op[e.op].owner = o /\ op[e.op].cand = e.data
        /\ e.begun => i = 1
        /\ e.call = "rename" => i = 1 /\ temp = File(e.data)

HostInv == \A o \in Owners : \A i \in 1 .. Len(host[o]) : CallFits(o, i)

\* A mutation past its write, or past its rename, finds its candidate in the file.
PhaseInv ==
    \A m \in Ops :
        /\ op[m].step = "written" => host[op[m].owner] = << >> /\ temp = File(op[m].cand)
        /\ op[m].step = "renamed" => host[op[m].owner] = << >> /\ snap = op[m].cand

\* Records and a revision, in memory or in a snapshot, that belong together.
WellFormed(x) ==
    \A k \in Keys :
        /\ x.records[k].revision <= x.revision
        /\ x.records[k] = NoRecord \/ (x.records[k].revision > 0 /\ x.records[k].by \in Ops)

\* x contradicts nothing that was given out.
Sound(x, given) ==
    \A g \in given :
        /\ g[2] <= x.revision
        /\ x.records[g[1]].revision = g[2] => x.records[g[1]].by = g[3]

\* x contradicts nothing that is in the memory r.
Follows(x, r) ==
    \A k \in Keys :
        /\ r.records[k].revision <= x.revision
        /\ r.records[k] # NoRecord /\ x.records[k].revision = r.records[k].revision
             => x.records[k] = r.records[k]

Vis(record, gone) == IF record.by \in gone THEN 0 ELSE record.by

\* x is the memory r with one mutation made on it, up to expiry.
OneChange(x, r, gone) ==
    \E k \in Keys :
        /\ \A j \in Keys \ {k} : Vis(x.records[j], gone) = Vis(r.records[j], gone)
        /\ Vis(x.records[k], gone) \in {x.by, 0, Vis(r.records[k], gone)}

\* A snapshot on its way to the disk, made from the memory r.
Candidate(x, r, given, gone) ==
    WellFormed(x) /\ Sound(x, given) /\ Follows(x, r) /\ OneChange(x, r, gone)

DataInv ==
    /\ WellFormed(snap) /\ Sound(snap, seen)
    /\ \A o \in Owners : Loaded(o) =>
         WellFormed(own[o]) /\ Sound(own[o], seen) /\ Follows(snap, own[o])
    /\ \A m \in Ops : Active(m) => Candidate(op[m].cand, own[op[m].owner], seen, expired)
    /\ \A o \in Owners : \A i \in 1 .. Len(host[o]) :
         Candidate(host[o][i].data, own[o], seen, expired)

IInv ==
    /\ TypeOK /\ OwnerInv /\ SingleOwner /\ QuietInv /\ OpInv /\ HostInv /\ PhaseInv
    /\ DataInv /\ RevisionIdentifiesRecord

(***************************************************************************)
(* Types                                                                   *)
(***************************************************************************)
\* The values every store starts from have their types.
LEMMA Constants0 ==
    /\ NoRecord \in Records /\ NoRecord.revision = 0 /\ NoRecord.by = 0
    /\ Empty \in Snapshots
    /\ FreshOwner \in OwnerRecord /\ FreshOp \in OpRecord
    /\ NoFile \in [kind : {"none", "torn", "full"}, data : Snapshots]
    /\ Torn \in [kind : {"none", "torn", "full"}, data : Snapshots]
<1>1. NoRecord \in Records /\ NoRecord.revision = 0 /\ NoRecord.by = 0
  BY StoreConstants DEF NoRecord, Records
<1>2. Empty \in Snapshots
  BY <1>1, StoreConstants DEF Empty, Snapshots
<1>3. FreshOwner \in OwnerRecord
  BY <1>1, StoreConstants DEF FreshOwner, OwnerRecord, Empty
<1>4. FreshOp \in OpRecord
  BY <1>2 DEF FreshOp, OpRecord
<1>5. QED
  BY <1>1, <1>2, <1>3, <1>4 DEF NoFile, Torn

\* purgeExpired keeps the lifecycle, never lowers the revision, and takes
\* records away without changing what is visible.
LEMMA PurgedEffect ==
    ASSUME expired \subseteq Ops, NEW r \in OwnerRecord
    PROVE  /\ Purged(r) \in OwnerRecord
           /\ Purged(r).state = r.state /\ Purged(r).step = r.step
           /\ Purged(r).revision >= r.revision
           /\ \A k \in Keys : Purged(r).records[k] = r.records[k]
                 \/ (Purged(r).records[k] = NoRecord /\ r.records[k].by \in expired)
<1> DEFINE gone == {k \in Keys : r.records[k].by \in expired}
           kept == [k \in Keys |-> IF k \in gone THEN NoRecord ELSE r.records[k]]
<1>1. /\ r.records \in [Keys -> Records] /\ r.revision \in 0 .. MaxRevision
      /\ kept \in [Keys -> Records]
  BY Constants0 DEF OwnerRecord
<1>2. \A k \in Keys : kept[k] = r.records[k] \/ (kept[k] = NoRecord /\ r.records[k].by \in expired)
  OBVIOUS
<1> HIDE DEF kept
<1>3. CASE gone = {}
  <2>1. Purged(r) = r
    BY <1>3 DEF Purged
  <2>2. QED
    BY <2>1, <1>1, StoreConstants
<1>4. CASE gone # {} /\ r.revision >= MaxRevision
  <2>1. Purged(r) = [r EXCEPT !.records = kept]
    BY <1>4 DEF Purged, kept
  <2>2. QED
    BY <2>1, <1>1, <1>2, StoreConstants DEF OwnerRecord
<1>5. CASE gone # {} /\ ~(r.revision >= MaxRevision)
  <2>1. Purged(r) = [r EXCEPT !.records = kept, !.revision = @ + 1, !.dirty = TRUE]
    BY <1>5 DEF Purged, kept
  <2>2. r.revision + 1 \in 0 .. MaxRevision /\ r.revision + 1 >= r.revision
    BY <1>1, <1>5, StoreConstants
  <2>3. Purged(r) \in OwnerRecord
    BY <2>1, <2>2, <1>1 DEF OwnerRecord
  <2>4. /\ Purged(r).state = r.state /\ Purged(r).step = r.step
        /\ Purged(r).revision = r.revision + 1 /\ Purged(r).records = kept
    BY <2>1 DEF OwnerRecord
  <2>5. QED
    BY <2>2, <2>3, <2>4, <1>2
<1>6. QED
  BY <1>3, <1>4, <1>5

\* A settled mutation: no owner and no candidate.
Settled(m, result) == [FreshOp EXCEPT !.ttl = op[m].ttl, !.step = "over", !.result = result]

LEMMA SettledFacts ==
    ASSUME TypeOK, NEW m \in Ops, NEW result \in {"none", "ok", "absent", "failed"}
    PROVE  /\ Ended(m, result) = [op EXCEPT ![m] = Settled(m, result)]
           /\ Settled(m, result) \in OpRecord
           /\ Settled(m, result).step = "over" /\ Settled(m, result).owner = 0
           /\ Settled(m, result).result = result /\ Settled(m, result).ttl = op[m].ttl
<1>1. op[m].ttl \in BOOLEAN
  BY DEF TypeOK, OpRecord
<1>2. Settled(m, result) \in OpRecord
  BY <1>1, Constants0 DEF Settled, OpRecord, FreshOp
<1>3. QED
  BY <1>2, Constants0 DEF Settled, Ended, FreshOp

\* The candidate of mutation m, made from the purged memory p.
Built(c, m, p) ==
    \/ c = [records |-> p.records, revision |-> p.revision, by |-> m]
    \/ /\ p.revision < MaxRevision
       /\ \E record \in {NoRecord, [revision |-> p.revision + 1, by |-> m]} :
             c = [records |-> [p.records EXCEPT ![op[m].key] = record],
                  revision |-> p.revision + 1, by |-> m]

LEMMA BuiltType ==
    ASSUME NEW m \in Ops, NEW p \in OwnerRecord, NEW c, Built(c, m, p)
    PROVE  c \in Snapshots /\ c.by = m
<1>1. p.records \in [Keys -> Records] /\ p.revision \in 0 .. MaxRevision
  BY DEF OwnerRecord
<1>2. CASE c = [records |-> p.records, revision |-> p.revision, by |-> m]
  BY <1>1, <1>2 DEF Snapshots
<1>3. CASE /\ p.revision < MaxRevision
           /\ \E record \in {NoRecord, [revision |-> p.revision + 1, by |-> m]} :
                 c = [records |-> [p.records EXCEPT ![op[m].key] = record],
                      revision |-> p.revision + 1, by |-> m]
  <2>1. p.revision + 1 \in 0 .. MaxRevision
    BY <1>1, <1>3, StoreConstants
  <2>2. PICK record \in {NoRecord, [revision |-> p.revision + 1, by |-> m]} :
           c = [records |-> [p.records EXCEPT ![op[m].key] = record],
                revision |-> p.revision + 1, by |-> m]
    BY <1>3
  <2>3. record \in Records
    BY <2>1, <2>2, Constants0 DEF Records
  <2>4. [p.records EXCEPT ![op[m].key] = record] \in [Keys -> Records]
    BY <2>3, <1>1
  <2>5. QED
    BY <2>1, <2>2, <2>4 DEF Snapshots
<1>4. QED
  BY <1>2, <1>3 DEF Built

\* What an operation does before its first await: it purges, and it ends or has
\* a candidate.
LEMMA BeginEffect ==
    ASSUME TypeOK, NEW m \in Ops, Begin(m), op[m].owner \in Owners
    PROVE  \E p \in {own[op[m].owner], Purged(own[op[m].owner])} :
             /\ own' = [own EXCEPT ![op[m].owner] = p]
             /\ \/ \E result \in {"absent", "failed"} : op' = Ended(m, result)
                \/ \E c : /\ Built(c, m, p)
                          /\ op' = [op EXCEPT ![m].step = "encode", ![m].cand = c]
<1> DEFINE o == op[m].owner
           p == Purged(own[o])
           current == p.records[op[m].key]
           next == p.revision + 1
           record == IF op[m].kind = "write" THEN [revision |-> next, by |-> m] ELSE NoRecord
           candidate == [records |-> [p.records EXCEPT ![op[m].key] = record],
                         revision |-> next, by |-> m]
           absent == op[m].kind = "delete" /\ current = NoRecord
<1>1. CASE m \in canceled /\ op' = Ended(m, "failed") /\ UNCHANGED own
  <2>1. own' = [own EXCEPT ![o] = own[o]]
    BY <1>1 DEF TypeOK
  <2>2. QED
    BY <2>1, <1>1
<1>2. CASE own' = [own EXCEPT ![o] = p] /\ op' = Ended(m, "failed")
  BY <1>2
<1>3. CASE /\ own' = [own EXCEPT ![o] = p]
           /\ op' = IF p.dirty
                    THEN [op EXCEPT ![m].step = "encode",
                            ![m].cand = [records |-> p.records, revision |-> p.revision, by |-> m]]
                    ELSE Ended(m, "absent")
  BY <1>3 DEF Built
<1>4. CASE /\ own' = [own EXCEPT ![o] = p]
           /\ p.revision < MaxRevision
           /\ op' = [op EXCEPT ![m].step = "encode", ![m].cand = candidate]
  <2>1. Built(candidate, m, p)
    BY <1>4 DEF Built
  <2> HIDE DEF candidate, p
  <2>2. QED
    BY <2>1, <1>4 DEF p
<1>5. QED
  BY <1>1, <1>2, <1>3, <1>4 DEF Begin

\* The end of a host call changes the mutation that waits for it, and no other.
LEMMA HostEndsEffect ==
    ASSUME TypeOK, NEW o \in Owners, host[o] # << >>,
           NEW to \in {"failed", "written", "renamed"}, HostEnds(o, to)
    PROVE  LET e == Head(host[o])
           IN  /\ e \in HostCall /\ e.op \in Ops /\ e.call \in {"write", "rename"}
               /\ e.data \in Snapshots
               /\ host' = [host EXCEPT ![o] = Tail(host[o])]
               /\ \/ op[e.op].step # e.call /\ op' = op
                  \/ op[e.op].step = e.call /\ op' = [op EXCEPT ![e.op] = Settled(e.op, "failed")]
                  \/ /\ op[e.op].step = e.call /\ to # "failed"
                     /\ op' = [op EXCEPT ![e.op].step = to]
<1>1. Head(host[o]) \in HostCall
  BY DEF TypeOK
<1>2. Head(host[o]).op \in Ops
  BY <1>1 DEF HostCall
<1>3. Ended(Head(host[o]).op, "failed")
        = [op EXCEPT ![Head(host[o]).op] = Settled(Head(host[o]).op, "failed")]
  BY <1>2, SettledFacts
<1>4. Head(host[o]).call \in {"write", "rename"} /\ Head(host[o]).data \in Snapshots
  BY <1>1 DEF HostCall
<1>5. QED
  BY <1>1, <1>2, <1>3, <1>4 DEF HostEnds

\* Moving a mutation on keeps its type.
LEMMA MoveType ==
    ASSUME TypeOK, NEW m \in Ops,
           NEW step \in {"encode", "write", "written", "rename", "renamed"},
           NEW c \in Snapshots
    PROVE  /\ [op EXCEPT ![m].step = step] \in [Ops -> OpRecord]
           /\ [op EXCEPT ![m].step = step, ![m].cand = c] \in [Ops -> OpRecord]
<1>1. op[m] \in OpRecord
  BY DEF TypeOK
<1>2. [op[m] EXCEPT !.step = step] \in OpRecord
  BY <1>1 DEF OpRecord
<1>3. [op[m] EXCEPT !.step = step, !.cand = c] \in OpRecord
  BY <1>1 DEF OpRecord
<1>4. [op EXCEPT ![m].step = step] = [op EXCEPT ![m] = [op[m] EXCEPT !.step = step]]
  BY DEF TypeOK
<1>5. [op EXCEPT ![m].step = step, ![m].cand = c]
        = [op EXCEPT ![m] = [op[m] EXCEPT !.step = step, !.cand = c]]
  BY DEF TypeOK
<1>6. QED
  BY <1>2, <1>3, <1>4, <1>5 DEF TypeOK

\* Every step keeps the types of own, temp, snap and lock: the lifecycle.
LEMMA OwnerTypeStep ==
    ASSUME TypeOK, NEW o \in Owners,
           \/ Acquire(o) \/ RemoveStaleTemp(o) \/ Load(o) \/ StartFails(o)
           \/ Stop(o) \/ DrainTemp(o) \/ DrainClose(o) \/ Crash(o) \/ RemoveStaleLock
    PROVE  TypeOK'
<1>1. own[o] \in OwnerRecord
  BY DEF TypeOK
<1>2. \A state \in {"starting", "stopping", "stopped", "failed", "running"},
         step \in {"none", "acquired", "cleaned", "drain", "removed"} :
        [own[o] EXCEPT !.state = state, !.step = step] \in OwnerRecord
  BY <1>1 DEF OwnerRecord
<1>3. \A state \in {"starting", "stopping", "stopped", "failed", "running"} :
        [own[o] EXCEPT !.state = state] \in OwnerRecord
  BY <1>1 DEF OwnerRecord
<1>4. \A step \in {"none", "acquired", "cleaned", "drain", "removed"} :
        [own[o] EXCEPT !.step = step] \in OwnerRecord
  BY <1>1 DEF OwnerRecord
<1>5. own[o].step \in {"none", "acquired", "cleaned", "drain", "removed"}
  BY <1>1 DEF OwnerRecord
<1>6. CASE Acquire(o)
  BY <1>6, <1>2, <1>3 DEF Acquire, TypeOK
<1>7. CASE RemoveStaleTemp(o)
  BY <1>7, <1>4, Constants0 DEF RemoveStaleTemp, TypeOK
<1>8. CASE Load(o)
  <2> DEFINE l == [own[o] EXCEPT !.records = snap.records, !.revision = snap.revision]
  <2>1. l \in OwnerRecord
    BY <1>1 DEF TypeOK, OwnerRecord, Snapshots
  <2> HIDE DEF l
  <2>2. Purged(l) \in OwnerRecord
    BY <2>1, PurgedEffect DEF TypeOK
  <2>3. \A p \in OwnerRecord, step \in {"none", "drain"} :
          [p EXCEPT !.state = IF @ = "starting" THEN "running" ELSE @, !.step = step] \in OwnerRecord
    BY DEF OwnerRecord
  <2>4. \E p \in OwnerRecord : own' = [own EXCEPT ![o] = p]
    BY <1>8, <2>2, <2>3 DEF Load, l
  <2>5. QED
    BY <1>8, <2>4 DEF Load, TypeOK, fileVars
<1>9. CASE StartFails(o)
  BY <1>9, <1>2 DEF StartFails, TypeOK
<1>10. CASE Stop(o)
  BY <1>10, <1>2, <1>5 DEF Stop, TypeOK, fileVars
<1>11. CASE DrainTemp(o)
  BY <1>11, <1>4, Constants0 DEF DrainTemp, TypeOK
<1>12. CASE DrainClose(o)
  <2>1. \A state \in {"stopped", "failed"} :
          [own[o] EXCEPT !.step = "none", !.state = state] \in OwnerRecord
    BY <1>1 DEF OwnerRecord
  <2>2. own' \in [Owners -> OwnerRecord] /\ lock' \in BOOLEAN
    BY <1>12, <2>1 DEF DrainClose, TypeOK
  <2>3. QED
    BY <1>12, <2>2 DEF DrainClose, TypeOK
<1>13. CASE Crash(o)
  <2>1. [FreshOwner EXCEPT !.state = "dead"] \in OwnerRecord
    BY Constants0 DEF OwnerRecord
  <2>2. \A m \in Ops : Settled(m, "failed") \in OpRecord
    BY SettledFacts
  <2>3. op' \in [Ops -> OpRecord]
    <3>1. op' = [m \in Ops |-> IF op[m].owner = o /\ op[m].step # "over"
                               THEN Settled(m, "failed") ELSE op[m]]
      BY <1>13 DEF Crash, Settled
    <3>2. QED
      BY <3>1, <2>2 DEF TypeOK
  <2>4. host' \in [Owners -> Seq(HostCall)]
    <3>1. << >> \in Seq(HostCall)
      OBVIOUS
    <3>2. host' = [host EXCEPT ![o] = << >>]
      BY <1>13 DEF Crash
    <3>3. QED
      BY <3>1, <3>2 DEF TypeOK
  <2>5. QED
    BY <1>13, <2>1, <2>3, <2>4 DEF Crash, TypeOK, fileVars
<1>14. CASE RemoveStaleLock
  BY <1>14 DEF RemoveStaleLock, TypeOK
<1>15. QED
  BY <1>6, <1>7, <1>8, <1>9, <1>10, <1>11, <1>12, <1>13, <1>14

\* The host's steps keep the types.
LEMMA HostTypeStep ==
    ASSUME TypeOK, NEW o \in Owners, HostBegins(o) \/ HostWrites(o) \/ HostRenames(o)
    PROVE  TypeOK'
<1>1. host[o] # << >>
  BY DEF HostBegins, HostWrites, HostRenames
<1>2. Head(host[o]) \in HostCall /\ Tail(host[o]) \in Seq(HostCall)
  BY <1>1 DEF TypeOK
<1>3. Head(host[o]).op \in Ops /\ Head(host[o]).data \in Snapshots
  BY <1>2 DEF HostCall
<1>4. ASSUME NEW to \in {"failed", "written", "renamed"}, HostEnds(o, to)
      PROVE  host' \in [Owners -> Seq(HostCall)] /\ op' \in [Ops -> OpRecord]
  <2> DEFINE e == Head(host[o])
  <2>0. /\ host' = [host EXCEPT ![o] = Tail(host[o])]
        /\ \/ op' = op
           \/ op' = [op EXCEPT ![e.op] = Settled(e.op, "failed")]
           \/ to # "failed" /\ op' = [op EXCEPT ![e.op].step = to]
    BY <1>4, <1>1, HostEndsEffect
  <2>1. host' \in [Owners -> Seq(HostCall)]
    BY <2>0, <1>2 DEF TypeOK
  <2>2. Settled(Head(host[o]).op, "failed") \in OpRecord
    BY <1>3, SettledFacts
  <2>3. to # "failed" => [op EXCEPT ![Head(host[o]).op].step = to] \in [Ops -> OpRecord]
    BY <1>3, MoveType
  <2>4. op' \in [Ops -> OpRecord]
    BY <2>0, <2>2, <2>3 DEF TypeOK
  <2>5. QED
    BY <2>1, <2>4
<1>5. CASE HostBegins(o)
  <2>1. CASE HostEnds(o, "failed") /\ UNCHANGED temp
    BY <2>1, <1>4, <1>5 DEF HostBegins, TypeOK
  <2>2. CASE /\ host' = [host EXCEPT ![o][1].begun = TRUE]
             /\ temp' \in {Torn, temp} /\ UNCHANGED op
    <3>1. Len(host[o]) >= 1 /\ host[o] \in Seq(HostCall) /\ host[o][1] = Head(host[o])
      BY <1>1 DEF TypeOK
    <3>2. [host[o][1] EXCEPT !.begun = TRUE] \in HostCall
      BY <3>1, <1>2 DEF HostCall
    <3>3. [host[o] EXCEPT ![1] = [host[o][1] EXCEPT !.begun = TRUE]] \in Seq(HostCall)
      BY <3>1, <3>2
    <3>4. host' \in [Owners -> Seq(HostCall)]
      BY <2>2, <3>3 DEF TypeOK
    <3>5. QED
      BY <2>2, <3>4, <1>5, Constants0 DEF HostBegins, TypeOK
  <2>3. QED
    BY <2>1, <2>2, <1>5 DEF HostBegins
<1>6. CASE HostWrites(o)
  <2>1. File(Head(host[o]).data) \in [kind : {"none", "torn", "full"}, data : Snapshots]
    BY <1>3 DEF File
  <2>2. \E to \in {"failed", "written"} : HostEnds(o, to)
    BY <1>6 DEF HostWrites
  <2>3. QED
    BY <2>1, <2>2, <1>4, <1>6, Constants0 DEF HostWrites, TypeOK
<1>7. CASE HostRenames(o)
  <2>1. temp.data \in Snapshots
    BY DEF TypeOK
  <2>2. QED
    BY <2>1, <1>4, <1>7, Constants0 DEF HostRenames, TypeOK
<1>8. QED
  BY <1>5, <1>6, <1>7

\* The operations' steps keep the types.
LEMMA OpTypeStep ==
    ASSUME TypeOK, OpInv, DataInv, NEW m \in Ops, OpStep(m)
    PROVE  TypeOK'
<1>1. op[m] \in OpRecord /\ OpFits(m, op[m])
  BY DEF TypeOK, OpInv
<1>2. op[m].step \notin {"none", "over"} => op[m].owner \in Owners /\ op[m].cand \in Snapshots
  BY <1>1 DEF OpRecord, OpFits
<1>20. \A result \in {"ok", "absent", "failed"} : Ended(m, result) \in [Ops -> OpRecord]
  <2>1. SUFFICES ASSUME NEW result \in {"ok", "absent", "failed"}
                 PROVE  Ended(m, result) \in [Ops -> OpRecord]
    OBVIOUS
  <2>2. Ended(m, result) = [op EXCEPT ![m] = Settled(m, result)] /\ Settled(m, result) \in OpRecord
    BY SettledFacts
  <2>3. QED
    BY <2>2 DEF TypeOK
<1>3. CASE \E o \in Owners, kind \in {"write", "delete"}, k \in Keys, ttl \in BOOLEAN :
              \E cond \in Conditions(k) : Submit(m, o, kind, k, cond, ttl)
  <2>1. PICK o \in Owners, kind \in {"write", "delete"}, k \in Keys, ttl \in BOOLEAN :
              \E cond \in Conditions(k) : Submit(m, o, kind, k, cond, ttl)
    BY <1>3
  <2>2. PICK cond \in Conditions(k) : Submit(m, o, kind, k, cond, ttl)
    BY <2>1
  <2>3. cond \in Nat
    BY <2>2, StoreConstants DEF Conditions, Unconditional, IfAbsent
  <2>4. [FreshOp EXCEPT !.owner = o, !.kind = kind, !.key = k,
                        !.cond = cond, !.ttl = ttl, !.step = "queued"] \in OpRecord
    BY <2>3, Constants0 DEF OpRecord
  <2>5. op' \in [Ops -> OpRecord]
    BY <2>2, <2>4 DEF Submit, TypeOK
  <2>6. QED
    BY <2>2, <2>5 DEF Submit, TypeOK, fileVars
<1>4. CASE Begin(m)
  <2>1. op[m].owner \in Owners
    BY <1>2, <1>4 DEF Begin
  <2>2. PICK p \in {own[op[m].owner], Purged(own[op[m].owner])} :
             /\ own' = [own EXCEPT ![op[m].owner] = p]
             /\ \/ \E result \in {"absent", "failed"} : op' = Ended(m, result)
                \/ \E c : /\ Built(c, m, p)
                          /\ op' = [op EXCEPT ![m].step = "encode", ![m].cand = c]
    BY <1>4, <2>1, BeginEffect
  <2>3. p \in OwnerRecord
    BY <2>1, <2>2, PurgedEffect DEF TypeOK
  <2>4. op' \in [Ops -> OpRecord]
    <3>1. CASE \E result \in {"absent", "failed"} : op' = Ended(m, result)
      BY <3>1, <1>20
    <3>2. CASE \E c : /\ Built(c, m, p)
                      /\ op' = [op EXCEPT ![m].step = "encode", ![m].cand = c]
      <4>1. PICK c : /\ Built(c, m, p)
                     /\ op' = [op EXCEPT ![m].step = "encode", ![m].cand = c]
        BY <3>2
      <4>2. c \in Snapshots
        BY <4>1, <2>3, BuiltType
      <4>3. QED
        BY <4>1, <4>2, MoveType
    <3>3. QED
      BY <2>2, <3>1, <3>2
  <2>5. QED
    BY <1>4, <2>2, <2>3, <2>4 DEF Begin, TypeOK, fileVars
<1>5. ASSUME NEW from \in {"encode", "written"}, NEW call \in {"write", "rename"},
             CallHost(m, from, call)
      PROVE  TypeOK'
  <2>1. op' \in [Ops -> OpRecord]
    <3>1. CASE op' = Ended(m, "failed")
      BY <3>1, <1>20
    <3>2. CASE op' = [op EXCEPT ![m].step = call]
      BY <3>2, <1>1, <1>2, <1>5, MoveType DEF CallHost
    <3>3. QED
      BY <3>1, <3>2, <1>5 DEF CallHost
  <2>2. host' \in [Owners -> Seq(HostCall)]
    <3>1. op[m].owner \in Owners /\ op[m].cand \in Snapshots
      BY <1>2, <1>5 DEF CallHost
    <3>2. [call |-> call, op |-> m, begun |-> FALSE, data |-> op[m].cand] \in HostCall
      BY <3>1 DEF HostCall
    <3>3. host[op[m].owner] \in Seq(HostCall)
      BY <3>1 DEF TypeOK
    <3>4. Append(host[op[m].owner],
                 [call |-> call, op |-> m, begun |-> FALSE, data |-> op[m].cand]) \in Seq(HostCall)
      BY <3>2, <3>3
    <3>5. QED
      BY <3>4, <1>5 DEF CallHost, TypeOK
  <2>3. QED
    BY <2>1, <2>2, <1>5 DEF CallHost, TypeOK, fileVars
<1>6. CASE Commit(m)
  <2>1. op[m].owner \in Owners /\ op[m].cand \in Snapshots
    BY <1>2, <1>6 DEF Commit
  <2>2. own[op[m].owner] \in OwnerRecord
    BY <2>1 DEF TypeOK
  <2>3. [own[op[m].owner] EXCEPT !.records = op[m].cand.records,
                                 !.revision = op[m].cand.revision, !.dirty = FALSE] \in OwnerRecord
    BY <2>1, <2>2 DEF OwnerRecord, Snapshots
  <2>4. own' \in [Owners -> OwnerRecord]
    BY <1>6, <2>3 DEF Commit, TypeOK
  <2>5. op' \in [Ops -> OpRecord]
    BY <1>6, <1>20 DEF Commit
  <2>6. WellFormed(op[m].cand)
    BY <1>6 DEF Commit, DataInv, Active, Candidate
  <2>7. Given(m) \subseteq Keys \X (1 .. MaxRevision) \X Ops
    <3>1. SUFFICES ASSUME NEW k \in Keys, op[m].cand.records[k].by = m
                   PROVE  op[m].cand.records[k].revision \in 1 .. MaxRevision
      BY DEF Given
    <3>2. op[m].cand.records[k] \in Records /\ m # 0
      BY <2>1 DEF Snapshots, Ops
    <3>3. op[m].cand.records[k].revision > 0
      BY <2>6, <3>1, <3>2, Constants0 DEF WellFormed
    <3>4. QED
      BY <3>2, <3>3, StoreConstants DEF Records
  <2>8. seen' \subseteq Keys \X (1 .. MaxRevision) \X Ops
    BY <1>6, <2>7 DEF Commit, TypeOK
  <2>9. QED
    BY <1>6, <2>4, <2>5, <2>8 DEF Commit, TypeOK, fileVars
<1>7. CASE Cancel(m)
  BY <1>7, <1>20 DEF Cancel, TypeOK, fileVars
<1>8. CASE Expire(m)
  BY <1>8 DEF Expire, TypeOK, fileVars
<1>9. QED
  BY <1>3, <1>4, <1>5, <1>6, <1>7, <1>8 DEF OpStep

(***************************************************************************)
(* Records in memory and in candidates                                     *)
(***************************************************************************)
Triples == Keys \X (1 .. MaxRevision) \X Ops

\* A purge of the memory leaves it sound, and leaves what was made from it valid.
LEMMA PurgeKeeps ==
    ASSUME expired \subseteq Ops, NEW r \in OwnerRecord, NEW given \in SUBSET Triples,
           NEW x \in Snapshots
    PROVE  /\ WellFormed(r) => WellFormed(Purged(r))
           /\ Sound(r, given) => Sound(Purged(r), given)
           /\ Follows(x, r) => Follows(x, Purged(r))
           /\ OneChange(x, r, expired) => OneChange(x, Purged(r), expired)
           /\ \A k \in Keys : Vis(Purged(r).records[k], expired) = Vis(r.records[k], expired)
<1> PICK p \in OwnerRecord : p = Purged(r)
  BY PurgedEffect
<1>1. /\ p.revision >= r.revision
      /\ \A k \in Keys : p.records[k] = r.records[k]
            \/ (p.records[k] = NoRecord /\ r.records[k].by \in expired)
  BY PurgedEffect
<1>2. p.revision \in Nat /\ r.revision \in Nat /\ x.revision \in Nat
  BY StoreConstants DEF OwnerRecord, Snapshots
<1>3. \A k \in Keys : p.records[k] \in Records /\ r.records[k] \in Records /\ x.records[k] \in Records
  BY DEF OwnerRecord, Snapshots
<1>4. \A a \in Records : a.revision \in Nat
  BY StoreConstants DEF Records
<1>5. 0 \notin expired
  BY DEF Ops
<1>6. \A k \in Keys : Vis(p.records[k], expired) = Vis(r.records[k], expired)
  BY <1>1, <1>5, Constants0 DEF Vis
<1>7. WellFormed(r) => WellFormed(p)
  BY <1>1, <1>2, <1>3, <1>4, Constants0 DEF WellFormed
<1>8. Sound(r, given) => Sound(p, given)
  <2>1. \A g \in given : g[1] \in Keys /\ g[2] \in Nat /\ g[2] > 0
    BY StoreConstants DEF Triples
  <2>2. QED
    BY <2>1, <1>1, <1>2, <1>3, <1>4, Constants0 DEF Sound
<1>9. Follows(x, r) => Follows(x, p)
  BY <1>1, <1>2, <1>3, <1>4, Constants0 DEF Follows
<1>10. OneChange(x, r, expired) => OneChange(x, p, expired)
  BY <1>6 DEF OneChange
<1>11. QED
  BY <1>6, <1>7, <1>8, <1>9, <1>10

\* Giving out records of the memory r contradicts nothing that follows r.
LEMMA GiveOut ==
    ASSUME NEW r, NEW given, NEW more, NEW x, Sound(x, given), Follows(x, r),
           \A g \in more : g \in given
              \/ \E k \in Keys : /\ r.records[k] # NoRecord
                                 /\ g = <<k, r.records[k].revision, r.records[k].by>>
    PROVE  Sound(x, more)
<1>1. SUFFICES ASSUME NEW g \in more
               PROVE  /\ g[2] <= x.revision
                      /\ x.records[g[1]].revision = g[2] => x.records[g[1]].by = g[3]
  BY DEF Sound
<1>2. CASE g \in given
  BY <1>2 DEF Sound
<1>3. CASE \E k \in Keys : /\ r.records[k] # NoRecord
                           /\ g = <<k, r.records[k].revision, r.records[k].by>>
  <2>1. PICK k \in Keys : /\ r.records[k] # NoRecord
                          /\ g = <<k, r.records[k].revision, r.records[k].by>>
    BY <1>3
  <2>2. g[1] = k /\ g[2] = r.records[k].revision /\ g[3] = r.records[k].by
    BY <2>1
  <2>3. /\ r.records[k].revision <= x.revision
        /\ x.records[k].revision = r.records[k].revision => x.records[k] = r.records[k]
    BY <2>1 DEF Follows
  <2>4. QED
    BY <2>2, <2>3
<1>4. QED
  BY <1>2, <1>3

\* The same for the memory itself, and for the records given out among each other.
LEMMA GiveOutOwn ==
    ASSUME NEW r, NEW given, NEW more, Sound(r, given), WellFormed(r),
           \A x, y \in given : x[1] = y[1] /\ x[2] = y[2] => x[3] = y[3],
           \A g \in more : g \in given
              \/ \E k \in Keys : /\ r.records[k] # NoRecord
                                 /\ g = <<k, r.records[k].revision, r.records[k].by>>
    PROVE  /\ Sound(r, more)
           /\ \A x, y \in more : x[1] = y[1] /\ x[2] = y[2] => x[3] = y[3]
<1>1. Follows(r, r)
  BY DEF Follows, WellFormed
<1>2. Sound(r, more)
  BY <1>1, GiveOut
<1>3. SUFFICES ASSUME NEW x \in more, NEW y \in more, x[1] = y[1], x[2] = y[2]
               PROVE  x[3] = y[3]
  BY <1>2
<1>4. \A g \in more : g \in given \/ r.records[g[1]].revision = g[2]
  <2>1. SUFFICES ASSUME NEW g \in more, NEW k \in Keys,
                        g = <<k, r.records[k].revision, r.records[k].by>>
                 PROVE  r.records[g[1]].revision = g[2]
    OBVIOUS
  <2>2. g[1] = k /\ g[2] = r.records[k].revision
    BY <2>1
  <2>3. QED
    BY <2>2
<1>5. CASE x \in given /\ y \in given
  BY <1>5, <1>3
<1>6. CASE r.records[x[1]].revision = x[2]
  BY <1>6, <1>2, <1>3 DEF Sound
<1>7. CASE r.records[y[1]].revision = y[2]
  BY <1>7, <1>2, <1>3 DEF Sound
<1>8. QED
  BY <1>4, <1>5, <1>6, <1>7

\* One more expired write keeps a candidate one mutation away from the memory.
LEMMA ExpireKeeps ==
    ASSUME NEW x, NEW r, NEW gone, NEW m, OneChange(x, r, gone)
    PROVE  OneChange(x, r, gone \cup {m})
<1>1. \A a, b : Vis(a, gone) = Vis(b, gone) => Vis(a, gone \cup {m}) = Vis(b, gone \cup {m})
  BY DEF Vis
<1>2. \A a : Vis(a, gone \cup {m}) \in {Vis(a, gone), 0}
  BY DEF Vis
<1>3. QED
  BY <1>1, <1>2 DEF OneChange

\* A mutation made on the purged memory is a valid candidate.
LEMMA BuiltCandidate ==
    ASSUME NEW m \in Ops, NEW p \in OwnerRecord, NEW given \in SUBSET Triples, NEW gone,
           NEW c, Built(c, m, p), WellFormed(p), Sound(p, given), op[m].key \in Keys
    PROVE  Candidate(c, p, given, gone)
<1> PICK k \in Keys : k = op[m].key
  OBVIOUS
<1>1. p.records \in [Keys -> Records] /\ p.revision \in Nat
  BY StoreConstants DEF OwnerRecord
<1>2. \A a \in Records : a.revision \in Nat
  BY StoreConstants DEF Records
<1>3. \A g \in given : g[1] \in Keys /\ g[2] \in Nat /\ g[2] > 0
  BY StoreConstants DEF Triples
<1>4. CASE c = [records |-> p.records, revision |-> p.revision, by |-> m]
  <2>1. c.records = p.records /\ c.revision = p.revision /\ c.by = m
    BY <1>4
  <2>2. WellFormed(c) /\ Sound(c, given)
    BY <2>1 DEF WellFormed, Sound
  <2>3. Follows(c, p)
    BY <2>1 DEF WellFormed, Follows
  <2>4. OneChange(c, p, gone)
    BY <2>1 DEF OneChange
  <2>5. QED
    BY <2>2, <2>3, <2>4 DEF Candidate
<1>5. CASE \E record \in {NoRecord, [revision |-> p.revision + 1, by |-> m]} :
             c = [records |-> [p.records EXCEPT ![op[m].key] = record],
                  revision |-> p.revision + 1, by |-> m]
  <2>1. PICK record \in {NoRecord, [revision |-> p.revision + 1, by |-> m]} :
             c = [records |-> [p.records EXCEPT ![op[m].key] = record],
                  revision |-> p.revision + 1, by |-> m]
    BY <1>5
  <2>2. /\ c.revision = p.revision + 1 /\ c.by = m
        /\ c.records[k] = record
        /\ \A j \in Keys \ {k} : c.records[j] = p.records[j]
    BY <2>1, <1>1
  <2>3. \/ record = NoRecord /\ record.revision = 0 /\ record.by = 0
        \/ record.revision = p.revision + 1 /\ record.by = m
    BY <2>1, Constants0
  <2>4. WellFormed(c)
    BY <2>2, <2>3, <1>1, <1>2 DEF WellFormed
  <2>5. Sound(c, given)
    BY <2>2, <2>3, <1>1, <1>2, <1>3 DEF Sound
  <2>6. Follows(c, p)
    BY <2>2, <2>3, <1>1, <1>2 DEF Follows, WellFormed
  <2>7. OneChange(c, p, gone)
    BY <2>2, <2>3 DEF OneChange, Vis
  <2>8. QED
    BY <2>4, <2>5, <2>6, <2>7 DEF Candidate
<1>6. QED
  BY <1>4, <1>5 DEF Built

\* read gives out records of the purged memory.
LEMMA ReadEffect ==
    ASSUME TypeOK, NEW o \in Owners, NEW ks \in SUBSET Keys, Read(o, ks)
    PROVE  /\ own' = [own EXCEPT ![o] = Purged(own[o])]
           /\ Serving(o)
           /\ \A g \in seen' : g \in seen
                 \/ \E k \in Keys :
                      /\ Purged(own[o]).records[k] # NoRecord
                      /\ g = <<k, Purged(own[o]).records[k].revision, Purged(own[o]).records[k].by>>
<1>1. own' = [own EXCEPT ![o] = Purged(own[o])]
  BY DEF Read, TypeOK
<1>2. own'[o] = Purged(own[o])
  BY <1>1 DEF TypeOK
<1>3. QED
  BY <1>1, <1>2 DEF Read, Serving

LEMMA ReadType ==
    ASSUME TypeOK, NEW o \in Owners, NEW ks \in SUBSET Keys, Read(o, ks), WellFormed(own[o])
    PROVE  TypeOK'
<1>1. own[o] \in OwnerRecord /\ Purged(own[o]) \in OwnerRecord
  BY PurgedEffect DEF TypeOK
<1>2. WellFormed(Purged(own[o]))
  BY <1>1, PurgeKeeps, Constants0 DEF TypeOK
<1>3. \A k \in Keys : Purged(own[o]).records[k] # NoRecord =>
        <<k, Purged(own[o]).records[k].revision, Purged(own[o]).records[k].by>> \in Triples
  <2>1. SUFFICES ASSUME NEW k \in Keys, Purged(own[o]).records[k] # NoRecord
                 PROVE  /\ Purged(own[o]).records[k].revision \in 1 .. MaxRevision
                        /\ Purged(own[o]).records[k].by \in Ops
    BY DEF Triples
  <2>2. Purged(own[o]).records[k] \in Records
    BY <1>1 DEF OwnerRecord
  <2>3. QED
    BY <1>2, <2>1, <2>2, StoreConstants DEF WellFormed, Records
<1>4. seen' \subseteq Triples
  BY <1>3, ReadEffect DEF TypeOK, Triples
<1>5. own' \in [Owners -> OwnerRecord]
  BY <1>1, ReadEffect DEF TypeOK
<1>6. QED
  BY <1>4, <1>5 DEF Read, TypeOK, fileVars, Triples

(***************************************************************************)
(* The lifecycle: one live owner, and nothing pending without one          *)
(***************************************************************************)
\* Only the records and the revision of a memory matter to what is made from it.
LEMMA SameMemory ==
    ASSUME NEW r, NEW q, q.records = r.records, q.revision = r.revision, NEW given
    PROVE  /\ WellFormed(r) => WellFormed(q)
           /\ Sound(r, given) => Sound(q, given)
           /\ \A x : Follows(x, r) => Follows(x, q)
           /\ \A x, gone : OneChange(x, r, gone) => OneChange(x, q, gone)
<1>1. \A x : Follows(x, r) => Follows(x, q)
  BY DEF Follows
<1>2. \A x, gone : OneChange(x, r, gone) => OneChange(x, q, gone)
  BY DEF OneChange
<1>3. QED
  BY <1>1, <1>2 DEF WellFormed, Sound

LEMMA SameCandidate ==
    ASSUME NEW r, NEW q, q.records = r.records, q.revision = r.revision,
           NEW x, NEW given, NEW gone, Candidate(x, r, given, gone)
    PROVE  Candidate(x, q, given, gone)
  BY SameMemory DEF Candidate

\* A step that moves no instance and leaves the lock file keeps the ownership.
LEMMA SameLife ==
    ASSUME OwnerInv, SingleOwner, lock' = lock,
           \A q \in Owners : own'[q].state = own[q].state /\ own'[q].step = own[q].step
    PROVE  /\ OwnerInv' /\ SingleOwner'
           /\ \A q \in Owners : /\ Serving(q)' <=> Serving(q)
                                /\ Loaded(q)' <=> Loaded(q)
  BY DEF OwnerInv, StepFits, SingleOwner, Live, Serving, Loaded

\* A live instance that is not serving has nothing pending, and neither has any other.
LEMMA AllQuiet ==
    ASSUME TypeOK, OwnerInv, SingleOwner, QuietInv, OpInv, NEW o \in Owners, Live(o),
           host[o] = << >>, \A m \in Ops : op[m].owner # o
    PROVE  /\ \A q \in Owners : host[q] = << >>
           /\ \A m \in Ops : op[m].owner = 0 /\ op[m].step \in {"none", "over"}
<1>1. \A q \in Owners \ {o} : ~Serving(q)
  BY DEF SingleOwner, Live, Serving, OwnerInv, StepFits
<1>2. \A q \in Owners : host[q] = << >> /\ \A m \in Ops : op[m].owner # q
  BY <1>1 DEF QuietInv
<1>3. \A m \in Ops : op[m] \in OpRecord
  BY DEF TypeOK
<1>4. \A m \in Ops : op[m].owner = 0
  BY <1>2, <1>3 DEF OpRecord
<1>5. QED
  BY <1>2, <1>4 DEF OpInv, OpFits

\* With nothing pending, the parts of the invariant about pending work are empty.
LEMMA QuietSuffices ==
    ASSUME \A q \in Owners : host'[q] = << >>,
           \A m \in Ops : op'[m].step \in {"none", "over"} /\ op'[m].owner = 0
    PROVE  /\ QuietInv' /\ HostInv' /\ PhaseInv'
           /\ \A m \in Ops : ~Active(m)'
           /\ \A q \in Owners : \A i \in 1 .. Len(host'[q]) : FALSE
<1>1. \A q \in Owners : Len(host'[q]) = 0
  OBVIOUS
<1>2. \A q \in Owners : \A i \in 1 .. Len(host'[q]) : FALSE
  BY <1>1
<1>3. HostInv'
  BY <1>2 DEF HostInv
<1>4. QED
  BY <1>2, <1>3, StoreConstants DEF QuietInv, PhaseInv, Active

Lifecycle(o) ==
    \/ Acquire(o) \/ RemoveStaleTemp(o) \/ StartFails(o) \/ Stop(o)
    \/ DrainTemp(o) \/ DrainClose(o) \/ RemoveStaleLock

\* One instance moves: it was live already, it finds no lock file, or it ends up not live.
LEMMA OneMoves ==
    ASSUME OwnerInv, SingleOwner, NEW o \in Owners,
           \A q \in Owners \ {o} : own'[q] = own[q],
           StepFits(own'[o]),
           \/ Live(o) /\ (Live(o)' => lock')
           \/ ~lock /\ lock'
           \/ ~Live(o)' /\ (lock => lock')
    PROVE  OwnerInv' /\ SingleOwner'
<1>1. OwnerInv'
  BY DEF OwnerInv, StepFits
<1>2. \A q \in Owners \ {o} : Live(q)' <=> Live(q)
  BY DEF Live
<1>3. SingleOwner'
  BY <1>2 DEF SingleOwner
<1>4. QED
  BY <1>1, <1>3

\* What these steps do to the instances: only o moves, no memory changes, and
\* nothing becomes loaded; the temporary file moves only when nothing is pending.
LEMMA LifecycleEffect ==
    ASSUME TypeOK, OwnerInv, SingleOwner, QuietInv, OpInv, NEW o \in Owners, Lifecycle(o)
    PROVE  /\ OwnerInv' /\ SingleOwner'
           /\ UNCHANGED <<snap, op, host, canceled, expired, seen>>
           /\ \A q \in Owners : own'[q].records = own[q].records /\ own'[q].revision = own[q].revision
           /\ \A q \in Owners : Loaded(q)' => Loaded(q)
           /\ QuietInv'
           /\ temp' = temp \/ \A q \in Owners : host[q] = << >> /\ \A m \in Ops : op[m].owner = 0
<1>0. \A q \in Owners : own[q] \in OwnerRecord
  BY DEF TypeOK
<1>1. UNCHANGED <<snap, op, host, canceled, expired, seen>>
  BY DEF Lifecycle, Acquire, RemoveStaleTemp, StartFails, Stop, DrainTemp, DrainClose,
         RemoveStaleLock, fileVars
<1>2. \A q \in Owners \ {o} : own'[q] = own[q]
  BY DEF Lifecycle, Acquire, RemoveStaleTemp, StartFails, Stop, DrainTemp, DrainClose,
         RemoveStaleLock, TypeOK
<1> DEFINE Same == own'[o].records = own[o].records /\ own'[o].revision = own[o].revision
           Drained == Serving(o) /\ ~Serving(o)' =>
                         host[o] = << >> /\ \A m \in Ops : op[m].owner # o
           Swept == temp' = temp \/ \A q \in Owners : host[q] = << >> /\ \A m \in Ops : op[m].owner = 0
           Goal == /\ OwnerInv' /\ SingleOwner' /\ Same
                   /\ Loaded(o)' => Loaded(o)
                   /\ Drained /\ Swept
<1>20. StepFits(own[o])
  BY DEF OwnerInv
<1>3. ASSUME Acquire(o) PROVE Goal
  <2>0. /\ own[o].state = "idle" /\ temp' = temp
        /\ \/ /\ ~lock /\ lock' = TRUE
              /\ own' = [own EXCEPT ![o].state = "starting", ![o].step = "acquired"]
           \/ /\ lock' \in {lock, TRUE}
              /\ own' = [own EXCEPT ![o].state = "failed"]
    BY <1>3 DEF Acquire
  <2>1. Same /\ temp' = temp /\ own[o].state = "idle"
    <3>1. CASE own' = [own EXCEPT ![o].state = "starting", ![o].step = "acquired"]
      BY <1>0, <2>0, <3>1 DEF TypeOK, OwnerRecord
    <3>2. CASE own' = [own EXCEPT ![o].state = "failed"]
      BY <1>0, <2>0, <3>2 DEF TypeOK, OwnerRecord
    <3>3. QED
      BY <2>0, <3>1, <3>2
  <2>2. \/ ~lock /\ lock' = TRUE /\ own'[o].state = "starting" /\ own'[o].step = "acquired"
        \/ lock' \in {lock, TRUE} /\ own'[o].state = "failed" /\ own'[o].step = own[o].step
    <3>1. CASE ~lock /\ lock' = TRUE
               /\ own' = [own EXCEPT ![o].state = "starting", ![o].step = "acquired"]
      <4>1. own'[o].state = "starting" /\ own'[o].step = "acquired"
        BY <1>0, <3>1 DEF TypeOK, OwnerRecord
      <4>2. QED
        BY <3>1, <4>1
    <3>2. CASE lock' \in {lock, TRUE} /\ own' = [own EXCEPT ![o].state = "failed"]
      <4>1. own'[o].state = "failed" /\ own'[o].step = own[o].step
        BY <1>0, <3>2 DEF TypeOK, OwnerRecord
      <4>2. QED
        BY <3>2, <4>1
    <3>3. QED
      BY <2>0, <3>1, <3>2
  <2>3. StepFits(own'[o])
    BY <2>1, <2>2, <1>20 DEF StepFits
  <2>4. OwnerInv' /\ SingleOwner'
    <3>1. lock \in BOOLEAN
      BY DEF TypeOK
    <3>2. (~lock /\ lock') \/ (~Live(o)' /\ (lock => lock'))
      BY <2>2, <3>1 DEF Live
    <3>3. QED
      BY <1>2, <2>3, <3>2, OneMoves
  <2>5. QED
    BY <2>1, <2>2, <2>4, <1>20 DEF Loaded, Serving, StepFits
<1>4. ASSUME RemoveStaleTemp(o) PROVE Goal
  <2>1. Same /\ own'[o].state = own[o].state /\ own[o].step = "acquired"
    BY <1>0, <1>4 DEF RemoveStaleTemp, TypeOK, OwnerRecord
  <2>2. own'[o].step = "cleaned" /\ lock' = lock
    BY <1>0, <1>4 DEF RemoveStaleTemp, TypeOK, OwnerRecord
  <2>3. Live(o) /\ ~Serving(o)
    BY <2>1, <1>0, <1>20 DEF StepFits, Live, Serving
  <2>4. Swept
    BY <2>3, AllQuiet DEF QuietInv
  <2>5. StepFits(own'[o])
    BY <2>1, <2>2, <1>20 DEF StepFits
  <2>6. OwnerInv' /\ SingleOwner'
    BY <1>2, <2>2, <2>3, <2>5, OneMoves DEF SingleOwner
  <2>7. QED
    BY <2>1, <2>2, <2>3, <2>4, <2>6, <1>20 DEF Loaded, StepFits
<1>5. ASSUME StartFails(o) PROVE Goal
  <2>1. Same /\ own[o].step \in {"acquired", "cleaned"} /\ temp' = temp
    BY <1>0, <1>5 DEF StartFails, TypeOK, OwnerRecord
  <2>2. own'[o].state = "failed" /\ own'[o].step = "none"
    BY <1>0, <1>5 DEF StartFails, TypeOK, OwnerRecord
  <2>3. StepFits(own'[o]) /\ Live(o) /\ ~Live(o)' /\ ~Serving(o)
    BY <2>1, <2>2, <1>20 DEF StepFits, Live, Serving
  <2>4. OwnerInv' /\ SingleOwner'
    BY <1>2, <2>3, OneMoves
  <2>5. QED
    BY <2>1, <2>2, <2>3, <2>4 DEF Loaded
<1>6. ASSUME Stop(o) PROVE Goal
  <2>1. Same /\ own[o].state \in {"starting", "running"} /\ temp' = temp /\ lock' = lock
    BY <1>0, <1>6 DEF Stop, TypeOK, OwnerRecord, fileVars
  <2>2. /\ own'[o].state = "stopping"
        /\ own'[o].step = IF own[o].state = "running" THEN "drain" ELSE own[o].step
    BY <1>0, <1>6 DEF Stop, TypeOK, OwnerRecord
  <2>3. StepFits(own'[o]) /\ Live(o)
    BY <2>1, <2>2, <1>20 DEF StepFits, Live
  <2>4. OwnerInv' /\ SingleOwner'
    BY <1>2, <2>1, <2>3, OneMoves DEF SingleOwner
  <2>5. QED
    BY <2>1, <2>2, <2>4, <1>20 DEF Loaded, Serving, StepFits
<1>7. ASSUME DrainTemp(o) PROVE Goal
  <2>1. Same /\ own[o].step = "drain" /\ own'[o].state = own[o].state
    BY <1>0, <1>7 DEF DrainTemp, TypeOK, OwnerRecord
  <2>2. own'[o].step = "removed" /\ lock' = lock
    BY <1>0, <1>7 DEF DrainTemp, TypeOK, OwnerRecord
  <2>3. host[o] = << >> /\ \A m \in Ops : op[m].owner # o
    BY <1>7, StoreConstants DEF DrainTemp, OpInv, OpFits
  <2>4. Live(o) /\ StepFits(own'[o])
    BY <2>1, <2>2, <1>20 DEF StepFits, Live
  <2>5. Swept
    BY <2>3, <2>4, AllQuiet
  <2>6. OwnerInv' /\ SingleOwner'
    BY <1>2, <2>2, <2>4, OneMoves DEF SingleOwner
  <2>7. QED
    BY <2>1, <2>2, <2>3, <2>5, <2>6 DEF Loaded
<1>8. ASSUME DrainClose(o) PROVE Goal
  <2>1. Same /\ own[o].step = "removed" /\ temp' = temp
    BY <1>0, <1>8 DEF DrainClose, TypeOK, OwnerRecord
  <2>2. own'[o].state \in {"stopped", "failed"} /\ own'[o].step = "none"
    BY <1>0, <1>8 DEF DrainClose, TypeOK, OwnerRecord
  <2>3. StepFits(own'[o]) /\ Live(o) /\ ~Live(o)' /\ ~Serving(o)
    BY <2>1, <2>2, <1>20 DEF StepFits, Live, Serving
  <2>4. OwnerInv' /\ SingleOwner'
    BY <1>2, <2>3, OneMoves
  <2>5. QED
    BY <2>1, <2>2, <2>3, <2>4 DEF Loaded
<1>9. ASSUME RemoveStaleLock PROVE Goal
  <2>1. own' = own /\ temp' = temp /\ ~Live(o) /\ \A q \in Owners : ~Live(q)
    BY <1>9 DEF RemoveStaleLock
  <2>2. OwnerInv' /\ SingleOwner'
    BY <2>1 DEF OwnerInv, StepFits, SingleOwner, Live
  <2>3. QED
    BY <2>1, <2>2 DEF Loaded, Serving
<1>10. Goal
  BY <1>3, <1>4, <1>5, <1>6, <1>7, <1>8, <1>9 DEF Lifecycle
<1>11. \A q \in Owners : Loaded(q)' => Loaded(q)
  BY <1>2, <1>10 DEF Loaded
<1>12. QuietInv'
  BY <1>1, <1>2, <1>10 DEF QuietInv, Serving
<1> HIDE DEF Goal
<1>13. QED
  BY <1>1, <1>2, <1>10, <1>11, <1>12 DEF Goal

LEMMA LifecycleStep ==
    ASSUME IInv, NEW o \in Owners, Lifecycle(o)
    PROVE  IInv'
<1>1. TypeOK'
  BY OwnerTypeStep DEF IInv, Lifecycle
<1>2. /\ OwnerInv' /\ SingleOwner' /\ QuietInv'
      /\ UNCHANGED <<snap, op, host, canceled, expired, seen>>
      /\ \A q \in Owners : own'[q].records = own[q].records /\ own'[q].revision = own[q].revision
      /\ \A q \in Owners : Loaded(q)' => Loaded(q)
      /\ temp' = temp \/ \A q \in Owners : host[q] = << >> /\ \A m \in Ops : op[m].owner = 0
  BY LifecycleEffect DEF IInv
<1>3. OpInv' /\ RevisionIdentifiesRecord'
  BY <1>2 DEF IInv, OpInv, Active, RevisionIdentifiesRecord
<1>4. HostInv' /\ PhaseInv'
  <2>1. CASE temp' = temp
    BY <2>1, <1>2 DEF IInv, HostInv, PhaseInv, CallFits
  <2>2. CASE \A q \in Owners : host[q] = << >> /\ \A m \in Ops : op[m].owner = 0
    <3>1. \A q \in Owners : Len(host'[q]) = 0
      BY <2>2, <1>2
    <3>2. HostInv'
      BY <3>1 DEF HostInv
    <3>3. Owners # {} => \A m \in Ops : op'[m].step \in {"none", "over"}
      BY <2>2, <1>2 DEF IInv, OpInv, OpFits
    <3>4. QED
      BY <3>2, <3>3 DEF PhaseInv
  <2>3. QED
    BY <1>2, <2>1, <2>2
<1>5. \A m \in Ops : Active(m) => op[m].owner \in Owners
  BY DEF IInv, TypeOK, OpRecord, OpInv, OpFits, Active
<1>6. DataInv'
  <2>1. WellFormed(snap)' /\ Sound(snap, seen)'
    BY <1>2 DEF IInv, DataInv, WellFormed, Sound
  <2>2. ASSUME NEW q \in Owners, Loaded(q)'
        PROVE  (WellFormed(own[q]) /\ Sound(own[q], seen) /\ Follows(snap, own[q]))'
    <3>1. WellFormed(own[q]) /\ Sound(own[q], seen) /\ Follows(snap, own[q])
      BY <2>2, <1>2 DEF IInv, DataInv
    <3>2. WellFormed(own'[q]) /\ Sound(own'[q], seen) /\ Follows(snap, own'[q])
      BY <3>1, <1>2, SameMemory
    <3>3. QED
      BY <3>2, <1>2
  <2>3. ASSUME NEW m \in Ops, Active(m)'
        PROVE  Candidate(op[m].cand, own[op[m].owner], seen, expired)'
    <3>1. op[m].owner \in Owners /\ Candidate(op[m].cand, own[op[m].owner], seen, expired)
      BY <2>3, <1>2, <1>5 DEF IInv, DataInv, Active
    <3>2. Candidate(op[m].cand, own'[op[m].owner], seen, expired)
      BY <3>1, <1>2, SameCandidate
    <3>3. QED
      BY <3>2, <1>2
  <2>4. ASSUME NEW q \in Owners, NEW i \in 1 .. Len(host'[q])
        PROVE  Candidate(host[q][i].data, own[q], seen, expired)'
    <3>1. Candidate(host[q][i].data, own[q], seen, expired)
      BY <2>4, <1>2 DEF IInv, DataInv
    <3>2. Candidate(host[q][i].data, own'[q], seen, expired)
      BY <3>1, <1>2, SameCandidate
    <3>3. QED
      BY <3>2, <1>2
  <2>5. QED
    BY <2>1, <2>2, <2>3, <2>4 DEF DataInv
<1>7. QED
  BY <1>1, <1>2, <1>3, <1>4, <1>6 DEF IInv

\* start loads the snapshot: nothing is pending, so the snapshot is all there is.
LEMMA LoadEffect ==
    ASSUME IInv, NEW o \in Owners, Load(o)
    PROVE  \E l \in OwnerRecord :
             /\ l.records = snap.records /\ l.revision = snap.revision
             /\ own'[o].records = Purged(l).records /\ own'[o].revision = Purged(l).revision
             /\ \A q \in Owners \ {o} : own'[q] = own[q]
             /\ Live(o) /\ ~Loaded(o) /\ Loaded(o)' /\ Live(o)' /\ StepFits(own'[o])
<1> DEFINE l == [own[o] EXCEPT !.records = snap.records, !.revision = snap.revision]
           p == Purged(l)
           step == IF own[o].state = "starting" THEN "none" ELSE "drain"
           new == [p EXCEPT !.state = IF @ = "starting" THEN "running" ELSE @, !.step = step]
<1>1. own[o] \in OwnerRecord /\ own[o].step = "cleaned"
  BY DEF IInv, TypeOK, Load
<1>2. l \in OwnerRecord /\ l.records = snap.records /\ l.revision = snap.revision /\ l.state = own[o].state
  BY <1>1 DEF OwnerRecord, IInv, TypeOK, Snapshots
<1>3. own' = [own EXCEPT ![o] = new]
  BY DEF Load
<1> HIDE DEF l
<1>4. p \in OwnerRecord /\ p.state = own[o].state
  BY <1>2, PurgedEffect DEF IInv, TypeOK
<1> HIDE DEF p
<1>5. /\ new.records = p.records /\ new.revision = p.revision /\ new.step = step
      /\ new.state = IF p.state = "starting" THEN "running" ELSE p.state
  BY <1>4 DEF OwnerRecord
<1>6. own'[o] = new /\ \A q \in Owners \ {o} : own'[q] = own[q]
  BY <1>3 DEF IInv, TypeOK
<1> HIDE DEF new
<1>7. own[o].state \in {"starting", "stopping"}
  BY <1>1 DEF IInv, OwnerInv, StepFits
<1>8. Live(o) /\ ~Loaded(o) /\ Loaded(o)' /\ Live(o)' /\ StepFits(own'[o])
  BY <1>1, <1>4, <1>5, <1>6, <1>7 DEF Live, Loaded, StepFits
<1>9. QED
  BY <1>2, <1>5, <1>6, <1>8 DEF p

LEMMA LoadStep ==
    ASSUME IInv, NEW o \in Owners, Load(o)
    PROVE  IInv'
<1>1. TypeOK'
  BY OwnerTypeStep DEF IInv
<1>2. UNCHANGED <<fileVars, op, host, canceled, expired, seen>>
  BY DEF Load
<1>3. PICK l \in OwnerRecord :
             /\ l.records = snap.records /\ l.revision = snap.revision
             /\ own'[o].records = Purged(l).records /\ own'[o].revision = Purged(l).revision
             /\ \A q \in Owners \ {o} : own'[q] = own[q]
             /\ Live(o) /\ ~Loaded(o) /\ Loaded(o)' /\ Live(o)' /\ StepFits(own'[o])
  BY LoadEffect
<1>4. /\ \A q \in Owners : host[q] = << >>
      /\ \A m \in Ops : op[m].owner = 0 /\ op[m].step \in {"none", "over"}
  BY <1>3, AllQuiet DEF IInv, QuietInv, Serving, Loaded
<1>5. OwnerInv' /\ SingleOwner'
  <2>1. lock /\ lock'
    BY <1>2, <1>3 DEF IInv, SingleOwner, fileVars
  <2>2. QED
    BY <1>3, <2>1, OneMoves DEF IInv
<1>6. /\ \A q \in Owners : host'[q] = << >>
      /\ \A m \in Ops : op'[m].step \in {"none", "over"} /\ op'[m].owner = 0
  BY <1>2, <1>4
<1>7. /\ QuietInv' /\ HostInv' /\ PhaseInv'
      /\ \A m \in Ops : ~Active(m)'
      /\ \A q \in Owners : \A i \in 1 .. Len(host'[q]) : FALSE
  BY <1>6, StoreConstants, QuietSuffices
<1>8. OpInv' /\ RevisionIdentifiesRecord'
  BY <1>2 DEF IInv, OpInv, Active, RevisionIdentifiesRecord
<1>9. \A q \in Owners \ {o} : ~Loaded(q)'
  BY <1>3, <1>5 DEF SingleOwner, Live, Loaded, OwnerInv, StepFits
<1>10. WellFormed(own'[o]) /\ Sound(own'[o], seen) /\ Follows(snap, own'[o])
  <2>1. snap \in Snapshots /\ expired \subseteq Ops /\ seen \in SUBSET Triples
    BY DEF IInv, TypeOK, Triples
  <2>2. WellFormed(l) /\ Sound(l, seen) /\ Follows(snap, l)
    BY <1>3 DEF IInv, DataInv, WellFormed, Sound, Follows
  <2>3. WellFormed(Purged(l)) /\ Sound(Purged(l), seen) /\ Follows(snap, Purged(l))
    BY <2>1, <2>2, PurgeKeeps
  <2>4. QED
    BY <2>3, <1>3, SameMemory
<1>11. DataInv'
  <2>1. WellFormed(snap)' /\ Sound(snap, seen)'
    BY <1>2 DEF IInv, DataInv, WellFormed, Sound, fileVars
  <2>2. (WellFormed(own[o]) /\ Sound(own[o], seen) /\ Follows(snap, own[o]))'
    BY <1>2, <1>10 DEF fileVars
  <2>3. QED
    BY <2>1, <2>2, <1>7, <1>9 DEF DataInv
<1>12. QED
  BY <1>1, <1>5, <1>7, <1>8, <1>11 DEF IInv

\* A kill leaves the snapshot file, and nothing pending.
LEMMA CrashStep ==
    ASSUME IInv, NEW o \in Owners, Crash(o)
    PROVE  IInv'
<1>1. TypeOK'
  BY OwnerTypeStep DEF IInv
<1>2. UNCHANGED <<fileVars, canceled, expired, seen>> /\ Live(o)
  BY DEF Crash
<1>3. \A q \in Owners \ {o} : own'[q] = own[q]
  BY DEF Crash, IInv, TypeOK
<1>4. own'[o].state = "dead" /\ own'[o].step = "none"
  <2>1. own'[o] = [FreshOwner EXCEPT !.state = "dead"]
    BY DEF Crash, IInv, TypeOK
  <2>2. QED
    BY <2>1 DEF FreshOwner
<1>5. OwnerInv' /\ SingleOwner'
  BY <1>2, <1>3, <1>4, OneMoves DEF IInv, StepFits, Live
<1>6. \A q \in Owners \ {o} : host[q] = << >> /\ \A m \in Ops : op[m].owner # q
  BY <1>2 DEF IInv, SingleOwner, QuietInv, Live, Serving, OwnerInv, StepFits
<1>7. \A q \in Owners : host'[q] = << >>
  BY <1>6 DEF Crash, IInv, TypeOK
<1>8. \A m \in Ops : op'[m] = IF op[m].owner = o /\ op[m].step # "over"
                              THEN Settled(m, "failed") ELSE op[m]
  BY DEF Crash, Settled
<1>9. \A m \in Ops : /\ Settled(m, "failed").step = "over" /\ Settled(m, "failed").owner = 0
                     /\ OpFits(m, Settled(m, "failed"))
  BY SettledFacts DEF IInv, OpFits
<1>10. \A m \in Ops : op[m].owner \in Owners \cup {0} /\ OpFits(m, op[m])
  BY DEF IInv, TypeOK, OpRecord, OpInv
<1>11. \A m \in Ops : op'[m].step \in {"none", "over"} /\ op'[m].owner = 0
  BY <1>6, <1>8, <1>9, <1>10, StoreConstants DEF OpFits
<1>12. /\ QuietInv' /\ HostInv' /\ PhaseInv'
       /\ \A m \in Ops : ~Active(m)'
       /\ \A q \in Owners : \A i \in 1 .. Len(host'[q]) : FALSE
  BY <1>7, <1>11, StoreConstants, QuietSuffices
<1>13. OpInv'
  <2>1. \A m \in Ops : OpFits(m, op'[m])
    BY <1>8, <1>9, <1>10
  <2>2. \A m \in Ops : op'[m].step # "none" <=> op[m].step # "none"
    BY <1>8, <1>9, <1>10, StoreConstants DEF OpFits
  <2>3. \A m \in Ops : \A n \in 1 .. m - 1 : n \in Ops
    BY StoreConstants DEF Ops
  <2>4. QED
    BY <1>12, <2>1, <2>2, <2>3 DEF OpInv, IInv
<1>14. \A q \in Owners : ~Loaded(q)'
  BY <1>2, <1>3, <1>4 DEF IInv, SingleOwner, Live, Loaded, OwnerInv, StepFits
<1>15. DataInv' /\ RevisionIdentifiesRecord'
  BY <1>2, <1>12, <1>14 DEF IInv, DataInv, WellFormed, Sound, fileVars, RevisionIdentifiesRecord
<1>16. QED
  BY <1>1, <1>5, <1>12, <1>13, <1>15 DEF IInv

(***************************************************************************)
(* Operations and host calls                                               *)
(***************************************************************************)
\* While one instance serves, every pending operation and call is its own.
LEMMA OthersQuiet ==
    ASSUME IInv, NEW o \in Owners, Serving(o)
    PROVE  /\ Live(o) /\ Loaded(o)
           /\ \A q \in Owners \ {o} : /\ ~Live(q) /\ ~Serving(q) /\ ~Loaded(q)
                                      /\ host[q] = << >>
           /\ \A m \in Ops : op[m].owner \in {o, 0}
<1>1. Live(o) /\ Loaded(o)
  BY DEF Serving, Live, Loaded, IInv, OwnerInv, StepFits
<1>2. \A q \in Owners \ {o} : ~Live(q)
  BY <1>1 DEF IInv, SingleOwner
<1>3. \A q \in Owners \ {o} : ~Serving(q) /\ ~Loaded(q)
  BY <1>2 DEF Serving, Live, Loaded, IInv, OwnerInv, StepFits
<1>4. \A q \in Owners \ {o} : host[q] = << >> /\ \A m \in Ops : op[m].owner # q
  BY <1>3 DEF IInv, QuietInv
<1>5. \A m \in Ops : op[m].owner \in Owners \cup {0}
  BY DEF IInv, TypeOK, OpRecord
<1>6. QED
  BY <1>1, <1>2, <1>3, <1>4, <1>5

\* An open mutation has a serving owner.
LEMMA OpenOwner ==
    ASSUME IInv, NEW m \in Ops, op[m].step \notin {"none", "over"}
    PROVE  /\ op[m].owner \in Owners /\ op[m].owner # 0 /\ Serving(op[m].owner)
           /\ op[m].key \in Keys /\ op[m] \in OpRecord /\ op[m].cand \in Snapshots
           /\ own[op[m].owner] \in OwnerRecord
<1>1. op[m] \in OpRecord /\ OpFits(m, op[m])
  BY DEF IInv, TypeOK, OpInv
<1>2. /\ op[m].owner \in Owners /\ op[m].owner # 0 /\ op[m].key \in Keys
      /\ op[m].cand \in Snapshots
  BY <1>1 DEF OpRecord, OpFits
<1>3. QED
  BY <1>1, <1>2 DEF IInv, QuietInv, TypeOK

\* Where there is a host call its instance serves.
LEMMA CallOwner ==
    ASSUME IInv, NEW o \in Owners, host[o] # << >>
    PROVE  Serving(o)
  BY DEF IInv, QuietInv

\* The mutations stay in order when one of them moves on or ends.
LEMMA MoveKeepsOrder ==
    ASSUME TypeOK, OpInv, NEW m \in Ops, NEW r, op' = [op EXCEPT ![m] = r],
           OpFits(m, r), op[m].step # "none", r.step # "none",
           r.owner = op[m].owner \/ r.owner = 0,
           r.step \in {"encode", "write", "written", "rename", "renamed"} =>
              r.owner = op[m].owner /\ \A n \in 1 .. m - 1 : op[n].owner # op[m].owner
    PROVE  OpInv'
<1>1. op'[m] = r /\ \A n \in Ops \ {m} : op'[n] = op[n]
  BY DEF TypeOK
<1>2. \A x \in Ops : \A n \in 1 .. x - 1 : n \in Ops /\ n # x
  BY StoreConstants DEF Ops
<1>3. \A x \in Ops : OpFits(x, op'[x])
  BY <1>1 DEF OpInv
<1>4. \A x \in Ops : \A n \in 1 .. x - 1 : op'[x].step # "none" => op'[n].step # "none"
  BY <1>1, <1>2 DEF OpInv
<1>5. \A x \in Ops : \A n \in 1 .. x - 1 : Active(x)' => op'[n].owner # op'[x].owner
  <2>1. SUFFICES ASSUME NEW x \in Ops, NEW n \in 1 .. x - 1, Active(x)'
                 PROVE  op'[n].owner # op'[x].owner
    OBVIOUS
  <2>2. n \in Ops /\ n # x
    BY <1>2
  <2>3. CASE x = m
    BY <2>1, <2>2, <2>3, <1>1 DEF Active
  <2>4. CASE x # m
    <3>1. Active(x) /\ op'[x] = op[x] /\ op[x].owner # 0 /\ op[n].owner # op[x].owner
      BY <2>1, <2>4, <1>1 DEF Active, OpInv, OpFits
    <3>2. op'[n].owner \in {op[n].owner, 0}
      BY <2>2, <1>1
    <3>3. QED
      BY <3>1, <3>2
  <2>5. QED
    BY <2>3, <2>4
<1>6. QED
  BY <1>3, <1>4, <1>5 DEF OpInv

\* The parts about records survive a step that gives nothing out, if its new
\* candidates, calls and snapshot are valid ones.
LEMMA DataKeeps ==
    ASSUME IInv, TypeOK', seen' = seen, expired' = expired,
           \A q \in Owners : own'[q] = own[q] \/ own'[q] = Purged(own[q]),
           \A q \in Owners : Loaded(q)' => Loaded(q),
           \/ snap' = snap
           \/ \E q \in Owners : /\ \A p \in Owners \ {q} : ~Loaded(p)
                                /\ \E i \in 1 .. Len(host[q]) : snap' = host[q][i].data,
           \A n \in Ops : Active(n)' =>
              \/ Active(n) /\ op'[n].cand = op[n].cand /\ op'[n].owner = op[n].owner
              \/ Candidate(op'[n].cand, own'[op'[n].owner], seen, expired),
           \A q \in Owners : \A i \in 1 .. Len(host'[q]) :
              \/ \E j \in 1 .. Len(host[q]) : host'[q][i].data = host[q][j].data
              \/ \E n \in Ops : Active(n) /\ op[n].owner = q /\ host'[q][i].data = op[n].cand
    PROVE  DataInv' /\ RevisionIdentifiesRecord'
<1>1. seen \in SUBSET Triples /\ expired \subseteq Ops /\ snap \in Snapshots /\ snap' \in Snapshots
  BY DEF IInv, TypeOK, Triples
<1>2. ASSUME NEW q \in Owners, NEW x \in Snapshots, Candidate(x, own[q], seen, expired)
      PROVE  Candidate(x, own'[q], seen, expired)
  <2>1. own[q] \in OwnerRecord
    BY DEF IInv, TypeOK
  <2>2. Candidate(x, Purged(own[q]), seen, expired)
    BY <1>1, <1>2, <2>1, PurgeKeeps DEF Candidate
  <2>3. QED
    BY <1>2, <2>2
<1>3. WellFormed(snap') /\ Sound(snap', seen) /\ \A q \in Owners : Loaded(q)' => Follows(snap', own[q])
  <2>1. CASE snap' = snap
    BY <2>1 DEF IInv, DataInv
  <2>2. CASE \E q \in Owners : /\ \A p \in Owners \ {q} : ~Loaded(p)
                               /\ \E i \in 1 .. Len(host[q]) : snap' = host[q][i].data
    <3>1. PICK q \in Owners : /\ \A p \in Owners \ {q} : ~Loaded(p)
                              /\ \E i \in 1 .. Len(host[q]) : snap' = host[q][i].data
      BY <2>2
    <3>2. PICK i \in 1 .. Len(host[q]) : snap' = host[q][i].data
      BY <3>1
    <3>3. Candidate(host[q][i].data, own[q], seen, expired)
      BY <3>2 DEF IInv, DataInv
    <3>4. QED
      BY <3>1, <3>2, <3>3 DEF Candidate
  <2>3. QED
    BY <2>1, <2>2
<1>4. ASSUME NEW q \in Owners, Loaded(q)'
      PROVE  WellFormed(own'[q]) /\ Sound(own'[q], seen) /\ Follows(snap', own'[q])
  <2>1. own[q] \in OwnerRecord
    BY DEF IInv, TypeOK
  <2>2. WellFormed(own[q]) /\ Sound(own[q], seen) /\ Follows(snap', own[q])
    BY <1>4, <1>3 DEF IInv, DataInv
  <2>3. WellFormed(Purged(own[q])) /\ Sound(Purged(own[q]), seen) /\ Follows(snap', Purged(own[q]))
    BY <1>1, <2>1, <2>2, PurgeKeeps
  <2>4. QED
    BY <2>2, <2>3
<1>5. ASSUME NEW n \in Ops, Active(n)'
      PROVE  Candidate(op'[n].cand, own'[op'[n].owner], seen, expired)
  <2>1. CASE Active(n) /\ op'[n].cand = op[n].cand /\ op'[n].owner = op[n].owner
    <3>1. op[n].owner \in Owners /\ op[n].cand \in Snapshots
      BY <2>1, OpenOwner DEF Active
    <3>2. Candidate(op[n].cand, own[op[n].owner], seen, expired)
      BY <2>1 DEF IInv, DataInv
    <3>3. QED
      BY <2>1, <3>1, <3>2, <1>2
  <2>2. QED
    BY <1>5, <2>1
<1>6. ASSUME NEW q \in Owners, NEW i \in 1 .. Len(host'[q])
      PROVE  Candidate(host'[q][i].data, own'[q], seen, expired)
  <2>1. CASE \E j \in 1 .. Len(host[q]) : host'[q][i].data = host[q][j].data
    <3>1. PICK j \in 1 .. Len(host[q]) : host'[q][i].data = host[q][j].data
      BY <2>1
    <3>2. host[q] \in Seq(HostCall)
      BY DEF IInv, TypeOK
    <3>3. host[q][j] \in HostCall
      BY <3>2
    <3>4. host[q][j].data \in Snapshots
      BY <3>3 DEF HostCall
    <3>5. Candidate(host[q][j].data, own[q], seen, expired)
      BY DEF IInv, DataInv
    <3>6. QED
      BY <3>1, <3>4, <3>5, <1>2
  <2>2. CASE \E n \in Ops : Active(n) /\ op[n].owner = q /\ host'[q][i].data = op[n].cand
    <3>1. PICK n \in Ops : Active(n) /\ op[n].owner = q /\ host'[q][i].data = op[n].cand
      BY <2>2
    <3>2. op[n].cand \in Snapshots
      BY <3>1, OpenOwner DEF Active
    <3>3. Candidate(op[n].cand, own[q], seen, expired)
      BY <3>1 DEF IInv, DataInv
    <3>4. QED
      BY <3>1, <3>2, <3>3, <1>2
  <2>3. QED
    BY <2>1, <2>2
<1>7. DataInv'
  BY <1>3, <1>4, <1>5, <1>6 DEF DataInv
<1>8. QED
  BY <1>7 DEF IInv, RevisionIdentifiesRecord

\* The entries of the host's queues are calls of mutations.
LEMMA Entry ==
    ASSUME TypeOK, NEW q \in Owners, NEW i \in 1 .. Len(host[q])
    PROVE  /\ host[q][i] \in HostCall /\ host[q][i].op \in Ops
           /\ host[q][i].call \in {"write", "rename"} /\ host[q][i].data \in Snapshots
<1>1. host[q] \in Seq(HostCall)
  BY DEF TypeOK
<1>2. host[q][i] \in HostCall
  BY <1>1
<1>3. QED
  BY <1>2 DEF HostCall

\* Ending an open mutation, whatever it waits for, keeps the queues as they are.
LEMMA SettleKeeps ==
    ASSUME IInv, NEW m \in Ops, op[m].step \notin {"none", "over"},
           NEW result \in {"ok", "absent", "failed"}, op' = Ended(m, result),
           host' = host, temp' = temp, snap' = snap,
           \A q \in Owners : Serving(q)' <=> Serving(q)
    PROVE  /\ OpInv' /\ QuietInv' /\ HostInv' /\ PhaseInv'
           /\ \A n \in Ops : Active(n)' =>
                Active(n) /\ op'[n].cand = op[n].cand /\ op'[n].owner = op[n].owner
<1> PICK s \in OpRecord : s = Settled(m, result)
  BY SettledFacts DEF IInv
<1>1. s.step = "over" /\ s.owner = 0 /\ op' = [op EXCEPT ![m] = s]
  BY SettledFacts DEF IInv
<1>2. op'[m] = s /\ \A n \in Ops \ {m} : op'[n] = op[n]
  BY <1>1 DEF IInv, TypeOK
<1>3. OpInv'
  <2>1. OpFits(m, s)
    BY <1>1 DEF OpFits
  <2>2. QED
    BY <1>1, <2>1, MoveKeepsOrder DEF IInv
<1>4. QuietInv'
  BY <1>1, <1>2, StoreConstants DEF IInv, QuietInv
<1>5. HostInv'
  <2>1. SUFFICES ASSUME NEW q \in Owners, NEW i \in 1 .. Len(host[q])
                 PROVE  CallFits(q, i)'
    BY DEF HostInv
  <2>2. CallFits(q, i) /\ host[q][i].op \in Ops /\ host[q][i].call \in {"write", "rename"}
    BY Entry DEF IInv, HostInv
  <2>3. QED
    BY <2>2, <1>1, <1>2 DEF CallFits
<1>6. PhaseInv'
  BY <1>1, <1>2 DEF IInv, PhaseInv
<1>7. QED
  BY <1>1, <1>2, <1>3, <1>4, <1>5, <1>6 DEF Active

LEMMA SubmitStep ==
    ASSUME IInv, NEW m \in Ops, NEW o \in Owners, NEW kind \in {"write", "delete"}, NEW k \in Keys,
           NEW ttl \in BOOLEAN, NEW cond \in Conditions(k), Submit(m, o, kind, k, cond, ttl)
    PROVE  IInv'
<1>1. TypeOK'
  BY OpTypeStep DEF IInv, OpStep
<1>2. UNCHANGED <<lock, temp, snap, own, host, canceled, expired, seen>>
  BY DEF Submit, fileVars
<1> DEFINE new == [FreshOp EXCEPT !.owner = o, !.kind = kind, !.key = k,
                                  !.cond = cond, !.ttl = ttl, !.step = "queued"]
<1>3. /\ new.owner = o /\ new.kind = kind /\ new.key = k /\ new.step = "queued"
      /\ new.result = "none"
  BY DEF FreshOp
<1>4. op' = [op EXCEPT ![m] = new] /\ op[m].step = "none" /\ own[o].state = "running"
  BY DEF Submit
<1> HIDE DEF new
<1>5. op'[m] = new /\ \A n \in Ops \ {m} : op'[n] = op[n]
  BY <1>4 DEF IInv, TypeOK
<1>6. OwnerInv' /\ SingleOwner' /\ \A q \in Owners : (Serving(q)' <=> Serving(q)) /\ (Loaded(q)' <=> Loaded(q))
  BY <1>2, SameLife DEF IInv
<1>7. QuietInv'
  BY <1>2, <1>3, <1>4, <1>5 DEF IInv, QuietInv, Serving
<1>8. OpInv'
  <2>1. \A x \in Ops : \A n \in 1 .. x - 1 : n \in Ops /\ n # x
    BY StoreConstants DEF Ops
  <2>2. \A x \in Ops : OpFits(x, op'[x])
    <3>1. OpFits(m, new)
      BY <1>3, StoreConstants DEF OpFits
    <3>2. QED
      BY <3>1, <1>5 DEF IInv, OpInv
  <2>3. \A x \in Ops : \A n \in 1 .. x - 1 : op'[x].step # "none" => op'[n].step # "none"
    BY <2>1, <1>3, <1>5 DEF IInv, OpInv, Submit
  <2>4. \A x \in Ops : \A n \in 1 .. x - 1 : Active(x)' => op'[n].owner # op'[x].owner
    <3>1. SUFFICES ASSUME NEW x \in Ops, NEW n \in 1 .. x - 1, Active(x)'
                   PROVE  op'[n].owner # op'[x].owner
      OBVIOUS
    <3>2. x # m /\ op'[x] = op[x] /\ Active(x)
      BY <3>1, <1>3, <1>5 DEF Active
    <3>3. op[n].step # "none" /\ op[n].owner # op[x].owner
      BY <3>2 DEF IInv, OpInv, Active
    <3>4. QED
      BY <3>2, <3>3, <2>1, <1>4, <1>5
  <2>5. QED
    BY <2>2, <2>3, <2>4 DEF OpInv
<1>9. HostInv'
  <2>1. SUFFICES ASSUME NEW q \in Owners, NEW i \in 1 .. Len(host[q])
                 PROVE  CallFits(q, i)'
    BY <1>2 DEF HostInv
  <2>2. CallFits(q, i) /\ host[q][i].op \in Ops /\ host[q][i].call \in {"write", "rename"}
    BY Entry DEF IInv, HostInv
  <2>3. host[q][i].op # m
    BY <2>2, <1>4 DEF CallFits
  <2>4. QED
    BY <2>2, <2>3, <1>2, <1>5 DEF CallFits
<1>10. PhaseInv'
  BY <1>2, <1>3, <1>5 DEF IInv, PhaseInv
<1>11. DataInv' /\ RevisionIdentifiesRecord'
  <2>1. \A n \in Ops : Active(n)' =>
          Active(n) /\ op'[n].cand = op[n].cand /\ op'[n].owner = op[n].owner
    BY <1>3, <1>5 DEF Active
  <2>2. QED
    BY <1>1, <1>2, <1>6, <2>1, DataKeeps
<1>12. QED
  BY <1>1, <1>6, <1>7, <1>8, <1>9, <1>10, <1>11 DEF IInv

LEMMA BeginStep ==
    ASSUME IInv, NEW m \in Ops, Begin(m)
    PROVE  IInv'
<1>1. TypeOK'
  BY OpTypeStep DEF IInv, OpStep
<1>2. UNCHANGED <<lock, temp, snap, host, canceled, expired, seen>> /\ op[m].step = "queued" /\ AtHead(m)
  BY DEF Begin, fileVars
<1> PICK o \in Owners : o = op[m].owner /\ o # 0 /\ own[o] \in OwnerRecord /\ Serving(o)
  BY <1>2, OpenOwner
<1>3. PICK p \in {own[o], Purged(own[o])} :
             /\ own' = [own EXCEPT ![o] = p]
             /\ \/ \E result \in {"absent", "failed"} : op' = Ended(m, result)
                \/ \E c : /\ Built(c, m, p)
                          /\ op' = [op EXCEPT ![m].step = "encode", ![m].cand = c]
  BY BeginEffect DEF IInv
<1>4. p \in OwnerRecord /\ p.state = own[o].state /\ p.step = own[o].step
  BY PurgedEffect DEF IInv, TypeOK
<1>5. own'[o] = p /\ \A q \in Owners \ {o} : own'[q] = own[q]
  BY <1>3 DEF IInv, TypeOK
<1>6. OwnerInv' /\ SingleOwner' /\ \A q \in Owners : (Serving(q)' <=> Serving(q)) /\ (Loaded(q)' <=> Loaded(q))
  <2>1. \A q \in Owners : own'[q].state = own[q].state /\ own'[q].step = own[q].step
    BY <1>4, <1>5
  <2>2. QED
    BY <1>2, <2>1, SameLife DEF IInv
<1>7. CASE \E result \in {"absent", "failed"} : op' = Ended(m, result)
  <2>1. PICK result \in {"absent", "failed"} : op' = Ended(m, result)
    BY <1>7
  <2>2. /\ OpInv' /\ QuietInv' /\ HostInv' /\ PhaseInv'
        /\ \A n \in Ops : Active(n)' =>
             Active(n) /\ op'[n].cand = op[n].cand /\ op'[n].owner = op[n].owner
    BY <2>1, <1>2, <1>6, SettleKeeps
  <2>3. \A q \in Owners : own'[q] = own[q] \/ own'[q] = Purged(own[q])
    BY <1>3, <1>5
  <2>4. DataInv' /\ RevisionIdentifiesRecord'
    BY <1>1, <1>2, <1>6, <2>2, <2>3, DataKeeps
  <2>5. QED
    BY <1>1, <1>6, <2>2, <2>4 DEF IInv
<1>8. CASE \E c : /\ Built(c, m, p)
                  /\ op' = [op EXCEPT ![m].step = "encode", ![m].cand = c]
  <2>1. PICK c : Built(c, m, p) /\ op' = [op EXCEPT ![m].step = "encode", ![m].cand = c]
    BY <1>8
  <2>2. op[m] \in OpRecord /\ op[m].key \in Keys /\ OpFits(m, op[m])
    BY <1>2, OpenOwner DEF IInv, OpInv
  <2> DEFINE new == [op[m] EXCEPT !.step = "encode", !.cand = c]
  <2>3. /\ new.step = "encode" /\ new.cand = c /\ new.owner = o /\ new.key = op[m].key
        /\ new.kind = op[m].kind /\ new.result = op[m].result
    BY <2>2 DEF OpRecord
  <2>4. op' = [op EXCEPT ![m] = new]
    BY <2>1 DEF IInv, TypeOK
  <2> HIDE DEF new
  <2>5. op'[m] = new /\ \A n \in Ops \ {m} : op'[n] = op[n]
    BY <2>4 DEF IInv, TypeOK
  <2>6. OpInv'
    <3>1. c.by = m
      BY <2>1, <1>4, BuiltType
    <3>2. OpFits(m, new)
      BY <3>1, <2>2, <2>3, <1>2 DEF OpFits
    <3>3. \A n \in 1 .. m - 1 : op[n].owner # op[m].owner
      <4>1. \A n \in 1 .. m - 1 : n \in Ops
        BY StoreConstants DEF Ops
      <4>2. QED
        BY <4>1, <1>2 DEF AtHead, IInv, OpInv, OpFits
    <3>4. QED
      BY <1>2, <2>3, <2>4, <3>2, <3>3, MoveKeepsOrder DEF IInv
  <2>7. QuietInv'
    BY <1>2, <1>6, <2>3, <2>5 DEF IInv, QuietInv
  <2>8. HostInv'
    <3>1. SUFFICES ASSUME NEW q \in Owners, NEW i \in 1 .. Len(host[q])
                   PROVE  CallFits(q, i)'
      BY <1>2 DEF HostInv
    <3>2. CallFits(q, i) /\ host[q][i].op \in Ops /\ host[q][i].call \in {"write", "rename"}
      BY Entry DEF IInv, HostInv
    <3>3. host[q][i].op # m
      BY <3>2, <1>2 DEF CallFits
    <3>4. QED
      BY <3>2, <3>3, <1>2, <2>5 DEF CallFits
  <2>9. PhaseInv'
    BY <1>2, <2>3, <2>5 DEF IInv, PhaseInv
  <2>10. seen \in SUBSET Triples /\ Empty \in Snapshots
    BY Constants0 DEF IInv, TypeOK, Triples
  <2>11. WellFormed(own[o]) /\ Sound(own[o], seen)
    BY OthersQuiet DEF IInv, DataInv
  <2>12. WellFormed(p) /\ Sound(p, seen)
    BY <2>10, <2>11, PurgeKeeps DEF IInv, TypeOK
  <2>13. Candidate(c, p, seen, expired)
    BY <1>4, <2>1, <2>2, <2>10, <2>12, BuiltCandidate
  <2>14. DataInv' /\ RevisionIdentifiesRecord'
    <3>1. \A n \in Ops : Active(n)' =>
              \/ Active(n) /\ op'[n].cand = op[n].cand /\ op'[n].owner = op[n].owner
              \/ Candidate(op'[n].cand, own'[op'[n].owner], seen, expired)
      BY <1>5, <2>3, <2>5, <2>13 DEF Active
    <3>2. \A q \in Owners : own'[q] = own[q] \/ own'[q] = Purged(own[q])
      BY <1>3, <1>5
    <3>3. QED
      BY <1>1, <1>2, <1>6, <3>1, <3>2, DataKeeps
  <2>15. QED
    BY <1>1, <1>6, <2>6, <2>7, <2>8, <2>9, <2>14 DEF IInv
<1>9. QED
  BY <1>3, <1>7, <1>8

\* At most one mutation has begun and not ended.
LEMMA OneActive ==
    ASSUME IInv, NEW m \in Ops, NEW n \in Ops, Active(m), Active(n)
    PROVE  m = n
<1>1. /\ op[m].owner \in Owners /\ Serving(op[m].owner)
      /\ op[n].owner \in Owners /\ Serving(op[n].owner)
  BY OpenOwner DEF Active
<1>2. op[m].owner = op[n].owner
  BY <1>1, OthersQuiet
<1>3. m \in Nat /\ n \in Nat
  BY StoreConstants DEF Ops
<1>4. ~(n \in 1 .. m - 1) /\ ~(m \in 1 .. n - 1)
  BY <1>2 DEF IInv, OpInv
<1>5. QED
  BY <1>3, <1>4, StoreConstants DEF Ops

LEMMA CancelStep ==
    ASSUME IInv, NEW m \in Ops, Cancel(m)
    PROVE  IInv'
<1>1. TypeOK'
  BY OpTypeStep DEF IInv, OpStep
<1>2. UNCHANGED <<lock, temp, snap, own, host, expired, seen>> /\ op[m].step \notin {"none", "over"}
  BY DEF Cancel, fileVars
<1>3. OwnerInv' /\ SingleOwner' /\ \A q \in Owners : (Serving(q)' <=> Serving(q)) /\ (Loaded(q)' <=> Loaded(q))
  BY <1>2, SameLife DEF IInv
<1>4. /\ OpInv' /\ QuietInv' /\ HostInv' /\ PhaseInv'
      /\ \A n \in Ops : Active(n)' =>
           Active(n) /\ op'[n].cand = op[n].cand /\ op'[n].owner = op[n].owner
  <2>1. CASE op' = Ended(m, "failed")
    BY <2>1, <1>2, <1>3, SettleKeeps
  <2>2. CASE op' = op
    BY <2>2, <1>2 DEF IInv, OpInv, Active, QuietInv, Serving, HostInv, CallFits, PhaseInv
  <2>3. QED
    BY <2>1, <2>2 DEF Cancel
<1>5. DataInv' /\ RevisionIdentifiesRecord'
  BY <1>1, <1>2, <1>3, <1>4, DataKeeps
<1>6. QED
  BY <1>1, <1>3, <1>4, <1>5 DEF IInv

LEMMA CallHostStep ==
    ASSUME IInv, NEW m \in Ops, NEW from, NEW call, CallHost(m, from, call),
           \/ from = "encode" /\ call = "write"
           \/ from = "written" /\ call = "rename"
    PROVE  IInv'
<1>1. TypeOK'
  BY OpTypeStep DEF IInv, OpStep
<1>2. UNCHANGED <<lock, temp, snap, own, canceled, expired, seen>> /\ op[m].step = from /\ Active(m)
  BY DEF CallHost, fileVars, Active
<1>3. OwnerInv' /\ SingleOwner' /\ \A q \in Owners : (Serving(q)' <=> Serving(q)) /\ (Loaded(q)' <=> Loaded(q))
  BY <1>2, SameLife DEF IInv
<1>4. CASE op' = Ended(m, "failed") /\ host' = host
  <2>1. /\ OpInv' /\ QuietInv' /\ HostInv' /\ PhaseInv'
        /\ \A n \in Ops : Active(n)' =>
             Active(n) /\ op'[n].cand = op[n].cand /\ op'[n].owner = op[n].owner
    BY <1>2, <1>3, <1>4, SettleKeeps DEF Active
  <2>2. DataInv' /\ RevisionIdentifiesRecord'
    BY <1>1, <1>2, <1>3, <1>4, <2>1, DataKeeps
  <2>3. QED
    BY <1>1, <1>3, <2>1, <2>2 DEF IInv
<1> PICK o \in Owners : o = op[m].owner /\ o # 0 /\ Serving(o)
  BY <1>2, OpenOwner DEF Active
<1> DEFINE e == [call |-> call, op |-> m, begun |-> FALSE, data |-> op[m].cand]
<1>5. CASE op' = [op EXCEPT ![m].step = call] /\ host' = [host EXCEPT ![o] = Append(host[o], e)]
  <2>1. op[m] \in OpRecord /\ OpFits(m, op[m]) /\ op[m].cand \in Snapshots
    BY <1>2, OpenOwner DEF IInv, OpInv, Active
  <2> DEFINE new == [op[m] EXCEPT !.step = call]
  <2>2. /\ new.step = call /\ new.cand = op[m].cand /\ new.owner = o /\ new.key = op[m].key
        /\ new.kind = op[m].kind /\ new.result = op[m].result
    BY <2>1 DEF OpRecord
  <2>3. op' = [op EXCEPT ![m] = new]
    BY <1>5 DEF IInv, TypeOK
  <2> HIDE DEF new
  <2>4. op'[m] = new /\ \A n \in Ops \ {m} : op'[n] = op[n]
    BY <2>3 DEF IInv, TypeOK
  <2>5. /\ host[o] \in Seq(HostCall)
        /\ host'[o] = Append(host[o], e) /\ \A q \in Owners \ {o} : host'[q] = host[q]
    BY <1>5 DEF IInv, TypeOK
  <2>6. /\ Len(host'[o]) = Len(host[o]) + 1
        /\ host'[o][Len(host[o]) + 1] = e
        /\ \A i \in 1 .. Len(host[o]) : host'[o][i] = host[o][i]
    BY <2>5
  <2>7. Len(host[o]) \in Nat /\ (host[o] = << >> => Len(host[o]) = 0)
    BY <2>5
  <2>8. \A n \in Ops \ {m} : ~Active(n)
    BY <1>2, OneActive
  <2>9. OpInv'
    <3>1. OpFits(m, new)
      BY <2>1, <2>2, <1>2 DEF OpFits
    <3>2. \A n \in 1 .. m - 1 : op[n].owner # op[m].owner
      BY <1>2 DEF IInv, OpInv
    <3>3. QED
      BY <1>2, <2>2, <2>3, <3>1, <3>2, MoveKeepsOrder DEF IInv
  <2>10. QuietInv'
    BY <1>3, <2>2, <2>4, <2>5 DEF IInv, QuietInv
  <2>11. HostInv'
    <3>1. SUFFICES ASSUME NEW q \in Owners, NEW i \in 1 .. Len(host'[q])
                   PROVE  CallFits(q, i)'
      BY DEF HostInv
    <3>2. q = o
      <4>1. \A p \in Owners \ {o} : Len(host[p]) = 0
        BY OthersQuiet
      <4>2. QED
        BY <2>5, <4>1
    <3>3. CASE i = Len(host[o]) + 1
      <4>1. host'[q][i] = e /\ op'[e.op] = new /\ i = Len(host'[q])
        BY <3>2, <3>3, <2>4, <2>6
      <4>2. e.data.by = m
        BY <1>2, <2>1 DEF OpFits, Active
      <4>3. call = "rename" => i = 1 /\ temp' = File(e.data)
        BY <1>2, <2>7, <3>3 DEF IInv, PhaseInv
      <4>4. QED
        BY <4>1, <4>2, <4>3, <2>2, <3>2 DEF CallFits
    <3>4. CASE i \in 1 .. Len(host[o])
      <4>1. host'[q][i] = host[o][i] /\ CallFits(o, i)
        BY <3>2, <3>4, <2>6 DEF IInv, HostInv
      <4>2. host[o][i].op \in Ops /\ host[o][i].call \in {"write", "rename"}
        BY <3>4, Entry DEF IInv
      <4>3. host[o][i].op # m
        BY <4>1, <4>2, <1>2 DEF CallFits
      <4>4. op'[host[o][i].op] = op[host[o][i].op] /\ op[host[o][i].op].step # host[o][i].call
        BY <2>4, <2>8, <4>2, <4>3 DEF Active
      <4>5. QED
        BY <4>1, <4>4, <1>2 DEF CallFits
    <3>5. QED
      BY <3>1, <3>2, <3>3, <3>4, <2>6, <2>7
  <2>12. PhaseInv'
    BY <2>2, <2>4, <2>8 DEF PhaseInv, Active
  <2>13. DataInv' /\ RevisionIdentifiesRecord'
    <3>1. \A n \in Ops : Active(n)' =>
             Active(n) /\ op'[n].cand = op[n].cand /\ op'[n].owner = op[n].owner
      BY <1>2, <2>2, <2>4 DEF Active
    <3>2. \A q \in Owners : \A i \in 1 .. Len(host'[q]) :
              \/ \E j \in 1 .. Len(host[q]) : host'[q][i].data = host[q][j].data
              \/ \E n \in Ops : Active(n) /\ op[n].owner = q /\ host'[q][i].data = op[n].cand
      <4>1. SUFFICES ASSUME NEW q \in Owners, NEW i \in 1 .. Len(host'[q])
                     PROVE  \/ \E j \in 1 .. Len(host[q]) : host'[q][i].data = host[q][j].data
                            \/ \E n \in Ops : Active(n) /\ op[n].owner = q /\ host'[q][i].data = op[n].cand
        OBVIOUS
      <4>2. CASE q # o
        BY <4>2, <2>5
      <4>3. CASE q = o /\ i \in 1 .. Len(host[o])
        BY <4>3, <2>6
      <4>4. CASE q = o /\ i = Len(host[o]) + 1
        BY <4>4, <2>6, <1>2
      <4>5. QED
        BY <4>2, <4>3, <4>4, <2>6, <2>7
    <3>3. QED
      BY <1>1, <1>2, <1>3, <3>1, <3>2, DataKeeps
  <2>14. QED
    BY <1>1, <1>3, <2>9, <2>10, <2>11, <2>12, <2>13 DEF IInv
<1>6. QED
  BY <1>4, <1>5 DEF CallHost

\* A host call ends, whatever it did to the files: the mutation that waits for it
\* finds what its next step needs, and the calls behind it do not depend on them.
LEMMA HostEndsKeeps ==
    ASSUME IInv, NEW o \in Owners, host[o] # << >>,
           NEW to \in {"failed", "written", "renamed"}, HostEnds(o, to),
           to = "written" => temp' = File(Head(host[o]).data),
           to = "renamed" => snap' = Head(host[o]).data,
           \A q \in Owners : Serving(q)' <=> Serving(q)
    PROVE  /\ OpInv' /\ QuietInv' /\ HostInv' /\ PhaseInv'
           /\ \A n \in Ops : Active(n)' =>
                Active(n) /\ op'[n].cand = op[n].cand /\ op'[n].owner = op[n].owner
           /\ \A q \in Owners : \A i \in 1 .. Len(host'[q]) :
                \E j \in 1 .. Len(host[q]) : host'[q][i].data = host[q][j].data
<1> PICK e \in HostCall : e = Head(host[o])
  BY HostEndsEffect DEF IInv
<1>1. /\ e.op \in Ops /\ e.call \in {"write", "rename"} /\ e.data \in Snapshots
      /\ host' = [host EXCEPT ![o] = Tail(host[o])]
      /\ \/ op[e.op].step # e.call /\ op' = op
         \/ op[e.op].step = e.call /\ op' = [op EXCEPT ![e.op] = Settled(e.op, "failed")]
         \/ /\ op[e.op].step = e.call /\ to # "failed"
            /\ op' = [op EXCEPT ![e.op].step = to]
  BY HostEndsEffect DEF IInv
<1>2. host[o] \in Seq(HostCall) /\ Len(host[o]) \in Nat /\ Len(host[o]) >= 1 /\ host[o][1] = e
  BY DEF IInv, TypeOK
<1>3. /\ host'[o] = Tail(host[o]) /\ \A q \in Owners \ {o} : host'[q] = host[q]
      /\ Len(host'[o]) = Len(host[o]) - 1
      /\ \A i \in 1 .. Len(host'[o]) : i + 1 \in 1 .. Len(host[o]) /\ host'[o][i] = host[o][i + 1]
  BY <1>1, <1>2 DEF IInv, TypeOK
<1>4. CallFits(o, 1)
  BY <1>2 DEF IInv, HostInv
<1>5. Serving(o)
  BY CallOwner
<1>6. \A q \in Owners \ {o} : host[q] = << >> /\ host'[q] = << >>
  BY <1>3, <1>5, OthersQuiet
<1>7. \A n \in Ops : op[n].step \notin {"written", "renamed"}
  <2>1. SUFFICES ASSUME NEW n \in Ops, op[n].step \in {"written", "renamed"}
                 PROVE  FALSE
    OBVIOUS
  <2>2. op[n].owner = o
    BY <2>1, <1>5, OpenOwner, OthersQuiet
  <2>3. QED
    BY <2>1, <2>2 DEF IInv, PhaseInv
<1>8. \A q \in Owners : \A i \in 1 .. Len(host'[q]) :
        \E j \in 1 .. Len(host[q]) : host'[q][i].data = host[q][j].data
  BY <1>3
\* nobody waits for the call
<1>9. CASE op[e.op].step # e.call /\ op' = op
  <2>1. OpInv' /\ PhaseInv' /\ \A n \in Ops : Active(n)' =>
             Active(n) /\ op'[n].cand = op[n].cand /\ op'[n].owner = op[n].owner
    BY <1>7, <1>9 DEF IInv, OpInv, PhaseInv, Active
  <2>2. QuietInv'
    BY <1>5, <1>6, <1>9 DEF IInv, QuietInv
  <2>3. HostInv'
    <3>1. SUFFICES ASSUME NEW q \in Owners, NEW i \in 1 .. Len(host'[q])
                   PROVE  CallFits(q, i)'
      BY DEF HostInv
    <3>2. q = o
      <4>1. \A p \in Owners \ {o} : Len(host'[p]) = 0
        BY <1>6
      <4>2. QED
        BY <4>1
    <3>3. i + 1 \in 1 .. Len(host[o]) /\ host'[o][i] = host[o][i + 1] /\ i \in Nat /\ i >= 1
      <4>1. i \in 1 .. Len(host'[o]) /\ i \in Nat /\ i >= 1
        BY <3>1, <3>2, <1>2, <1>3
      <4>2. QED
        BY <4>1, <1>3
    <3>4. CallFits(o, i + 1)
      BY <3>3 DEF IInv, HostInv
    <3>5. ~host[o][i + 1].begun /\ host[o][i + 1].call # "rename"
      BY <3>3, <3>4 DEF CallFits
    <3>6. i + 1 = Len(host[o]) => i = Len(host'[o])
      BY <3>3, <1>2, <1>3
    <3>7. QED
      BY <1>9, <3>2, <3>3, <3>4, <3>5, <3>6 DEF CallFits
  <2>4. QED
    BY <1>8, <2>1, <2>2, <2>3
\* the call is the last one, and its mutation goes on or ends
<1>10. CASE /\ op[e.op].step = e.call
            /\ \/ op' = [op EXCEPT ![e.op] = Settled(e.op, "failed")]
               \/ to # "failed" /\ op' = [op EXCEPT ![e.op].step = to]
  <2> DEFINE m == e.op
  <2>1. Len(host[o]) = 1 /\ op[m].owner = o /\ op[m].cand = e.data /\ Active(m)
    BY <1>1, <1>2, <1>4, <1>10 DEF CallFits, Active
  <2>2. \A q \in Owners : host'[q] = << >>
    <3>1. host'[o] = << >>
      <4>1. Tail(host[o]) \in Seq(HostCall)
        BY <1>2
      <4>2. Len(host'[o]) = 0
        BY <1>2, <1>3, <2>1
      <4>3. \A s \in Seq(HostCall) : Len(s) = 0 => s = << >>
        OBVIOUS
      <4>4. host'[o] \in Seq(HostCall)
        BY <4>1, <1>3
      <4>5. QED
        BY <4>2, <4>3, <4>4
    <3>2. QED
      BY <1>6, <3>1
  <2>3. op[m] \in OpRecord /\ OpFits(m, op[m])
    BY <1>1 DEF IInv, TypeOK, OpInv
  <2>4. PICK r \in OpRecord :
          /\ op' = [op EXCEPT ![m] = r] /\ OpFits(m, r)
          /\ \/ r.step = "over" /\ r.owner = 0
             \/ r.step = to /\ to # "failed" /\ r.owner = o /\ r.cand = e.data
    <3>1. CASE op' = [op EXCEPT ![m] = Settled(m, "failed")]
      <4>1. /\ Settled(m, "failed") \in OpRecord /\ Settled(m, "failed").step = "over"
            /\ Settled(m, "failed").owner = 0 /\ OpFits(m, Settled(m, "failed"))
        BY <1>1, SettledFacts DEF IInv, OpFits
      <4>2. QED
        BY <3>1, <4>1
    <3>2. CASE to # "failed" /\ op' = [op EXCEPT ![m].step = to]
      <4> DEFINE r == [op[m] EXCEPT !.step = to]
      <4>1. /\ r \in OpRecord /\ r.step = to /\ r.owner = o /\ r.cand = e.data
            /\ r.key = op[m].key /\ r.kind = op[m].kind /\ r.result = op[m].result
        BY <3>2, <2>1, <2>3 DEF OpRecord
      <4>2. op' = [op EXCEPT ![m] = r]
        BY <3>2 DEF IInv, TypeOK
      <4> HIDE DEF r
      <4>3. op[m].owner # 0
        BY <2>1, StoreConstants
      <4>4. OpFits(m, r)
        BY <4>1, <4>3, <3>2, <2>1, <2>3 DEF OpFits, Active
      <4>5. QED
        BY <4>1, <4>2, <4>4, <3>2
    <3>3. QED
      BY <1>10, <3>1, <3>2
  <2>5. op'[m] = r /\ \A n \in Ops \ {m} : op'[n] = op[n]
    BY <1>1, <2>4 DEF IInv, TypeOK
  <2>6. OpInv'
    <3>1. \A n \in 1 .. m - 1 : op[n].owner # op[m].owner
      BY <1>1, <2>1 DEF IInv, OpInv
    <3>2. op[m].step # "none" /\ r.step # "none"
      BY <1>1, <1>10, <2>4
    <3>3. /\ r.owner = op[m].owner \/ r.owner = 0
          /\ r.step \in {"encode", "write", "written", "rename", "renamed"} =>
               r.owner = op[m].owner
      BY <2>1, <2>4
    <3>4. op' = [op EXCEPT ![m] = r] /\ OpFits(m, r) /\ m \in Ops
      BY <1>1, <2>4
    <3> HIDE DEF m
    <3>5. QED
      BY <3>1, <3>2, <3>3, <3>4, MoveKeepsOrder DEF IInv
  <2>7. QuietInv'
    BY <1>5, <2>2, <2>4, <2>5, StoreConstants DEF IInv, QuietInv
  <2>8. HostInv'
    <3>1. \A q \in Owners : Len(host'[q]) = 0
      BY <2>2
    <3>2. QED
      BY <3>1 DEF HostInv
  <2>9. PhaseInv'
    <3>1. SUFFICES ASSUME NEW n \in Ops, op'[n].step \in {"written", "renamed"}
                   PROVE  /\ host'[op'[n].owner] = << >>
                          /\ op'[n].step = "written" => temp' = File(op'[n].cand)
                          /\ op'[n].step = "renamed" => snap' = op'[n].cand
      BY DEF PhaseInv
    <3>2. n = m
      BY <3>1, <2>5, <1>7
    <3>3. QED
      BY <3>1, <3>2, <2>2, <2>4, <2>5
  <2>10. \A n \in Ops : Active(n)' =>
             Active(n) /\ op'[n].cand = op[n].cand /\ op'[n].owner = op[n].owner
    BY <2>1, <2>4, <2>5 DEF Active
  <2>11. QED
    BY <1>8, <2>6, <2>7, <2>8, <2>9, <2>10
<1>11. QED
  BY <1>1, <1>9, <1>10

LEMMA HostStep ==
    ASSUME IInv, NEW o \in Owners, HostBegins(o) \/ HostWrites(o) \/ HostRenames(o)
    PROVE  IInv'
<1>1. TypeOK' /\ host[o] # << >>
  BY HostTypeStep DEF IInv, HostBegins, HostWrites, HostRenames
<1>2. UNCHANGED <<lock, own, canceled, expired, seen>>
  BY DEF HostBegins, HostWrites, HostRenames
<1>3. OwnerInv' /\ SingleOwner' /\ \A q \in Owners : (Serving(q)' <=> Serving(q)) /\ (Loaded(q)' <=> Loaded(q))
  BY <1>2, SameLife DEF IInv
<1>4. host[o] \in Seq(HostCall) /\ Len(host[o]) \in Nat /\ Len(host[o]) >= 1 /\ host[o][1] = Head(host[o])
  BY <1>1 DEF IInv, TypeOK
<1>5. Serving(o) /\ \A q \in Owners \ {o} : ~Loaded(q) /\ host[q] = << >>
  BY <1>1, CallOwner, OthersQuiet
<1>6. ASSUME NEW to \in {"failed", "written", "renamed"}, HostEnds(o, to),
             to = "written" => temp' = File(Head(host[o]).data),
             to = "renamed" => snap' = Head(host[o]).data,
             to # "renamed" => snap' = snap
      PROVE  IInv'
  <2>1. /\ OpInv' /\ QuietInv' /\ HostInv' /\ PhaseInv'
        /\ \A n \in Ops : Active(n)' =>
             Active(n) /\ op'[n].cand = op[n].cand /\ op'[n].owner = op[n].owner
        /\ \A q \in Owners : \A i \in 1 .. Len(host'[q]) :
             \E j \in 1 .. Len(host[q]) : host'[q][i].data = host[q][j].data
    BY <1>1, <1>3, <1>6, HostEndsKeeps
  <2>2. \/ snap' = snap
        \/ \E q \in Owners : /\ \A p \in Owners \ {q} : ~Loaded(p)
                             /\ \E i \in 1 .. Len(host[q]) : snap' = host[q][i].data
    <3>1. CASE to = "renamed"
      <4>1. 1 \in 1 .. Len(host[o]) /\ snap' = host[o][1].data
        BY <3>1, <1>4, <1>6
      <4>2. QED
        BY <4>1, <1>5
    <3>2. QED
      BY <3>1, <1>6
  <2>3. DataInv' /\ RevisionIdentifiesRecord'
    BY <1>1, <1>2, <1>3, <2>1, <2>2, DataKeeps
  <2>4. QED
    BY <1>1, <1>3, <2>1, <2>3 DEF IInv
<1>7. CASE HostBegins(o)
  <2>1. CASE HostEnds(o, "failed")
    BY <2>1, <1>6, <1>7 DEF HostBegins
  <2>2. CASE /\ host' = [host EXCEPT ![o][1].begun = TRUE]
             /\ temp' = IF Head(host[o]).call = "write" THEN Torn ELSE temp
             /\ op' = op /\ snap' = snap
    <3>1. host[o][1] \in HostCall
      BY <1>4
    <3> DEFINE b == [host[o][1] EXCEPT !.begun = TRUE]
    <3>2. b.call = host[o][1].call /\ b.op = host[o][1].op /\ b.data = host[o][1].data
      BY <3>1 DEF HostCall
    <3>3. host' = [host EXCEPT ![o] = [host[o] EXCEPT ![1] = b]]
      BY <2>2, <1>4 DEF IInv, TypeOK
    <3> HIDE DEF b
    <3>4. /\ host'[o][1] = b /\ Len(host'[o]) = Len(host[o])
          /\ \A i \in 1 .. Len(host[o]) : i # 1 => host'[o][i] = host[o][i]
          /\ \A q \in Owners \ {o} : host'[q] = host[q]
      BY <3>3, <1>4 DEF IInv, TypeOK
    <3>5. \A q \in Owners \ {o} : Len(host'[q]) = 0 /\ host'[q] = << >>
      BY <3>4, <1>5
    <3>6. HostInv'
      <4>1. SUFFICES ASSUME NEW q \in Owners, NEW i \in 1 .. Len(host'[q])
                     PROVE  CallFits(q, i)'
        BY DEF HostInv
      <4>2. q = o /\ i \in 1 .. Len(host[o]) /\ CallFits(o, i) /\ CallFits(o, 1)
        BY <1>4, <3>4, <3>5 DEF IInv, HostInv
      <4>3. CASE i = 1
        BY <4>2, <4>3, <2>2, <1>4, <3>2, <3>4 DEF CallFits
      <4>4. CASE i # 1
        BY <4>2, <4>4, <2>2, <3>4 DEF CallFits
      <4>5. QED
        BY <4>3, <4>4
    <3>7. \A n \in Ops : op[n].step \notin {"written", "renamed"}
      <4>1. SUFFICES ASSUME NEW n \in Ops, op[n].step \in {"written", "renamed"}
                     PROVE  FALSE
        OBVIOUS
      <4>2. op[n].owner = o
        BY <4>1, <1>5, OpenOwner, OthersQuiet
      <4>3. QED
        BY <4>1, <4>2, <1>1 DEF IInv, PhaseInv
    <3>8. PhaseInv' /\ OpInv'
      BY <2>2, <3>7 DEF IInv, PhaseInv, OpInv, Active
    <3>9. QuietInv'
      BY <2>2, <1>3, <1>5, <3>5 DEF IInv, QuietInv
    <3>10. \A q \in Owners : \A i \in 1 .. Len(host'[q]) :
             \E j \in 1 .. Len(host[q]) : host'[q][i].data = host[q][j].data
      BY <3>2, <3>4
    <3>11. \A n \in Ops : Active(n)' =>
             Active(n) /\ op'[n].cand = op[n].cand /\ op'[n].owner = op[n].owner
      BY <2>2 DEF Active
    <3>12. DataInv' /\ RevisionIdentifiesRecord'
      BY <1>1, <1>2, <1>3, <2>2, <3>10, <3>11, DataKeeps
    <3>13. QED
      BY <1>1, <1>3, <3>6, <3>8, <3>9, <3>12 DEF IInv
  <2>3. QED
    BY <2>1, <2>2, <1>7 DEF HostBegins
<1>8. CASE HostWrites(o)
  <2>1. snap' = snap
    BY <1>8 DEF HostWrites
  <2>2. \/ HostEnds(o, "failed")
        \/ HostEnds(o, "written") /\ temp' = File(Head(host[o]).data)
    BY <1>8 DEF HostWrites
  <2>3. QED
    BY <2>1, <2>2, <1>6
<1>9. CASE HostRenames(o)
  <2>1. temp = File(Head(host[o]).data)
    BY <1>4, <1>9 DEF HostRenames, IInv, HostInv, CallFits
  <2>2. temp.data = Head(host[o]).data
    BY <2>1 DEF File
  <2>3. \/ HostEnds(o, "failed") /\ snap' = snap
        \/ HostEnds(o, "renamed") /\ snap' = Head(host[o]).data
    BY <1>9, <2>2 DEF HostRenames
  <2>4. QED
    BY <2>3, <1>6
<1>10. QED
  BY <1>7, <1>8, <1>9

\* persist returned: the memory becomes the candidate, which is the snapshot.
LEMMA CommitEffect ==
    ASSUME IInv, NEW m \in Ops, Commit(m)
    PROVE  \E o \in Owners :
             /\ o = op[m].owner /\ Serving(o) /\ snap = op[m].cand /\ Active(m)
             /\ own'[o].records = snap.records /\ own'[o].revision = snap.revision
             /\ own'[o].state = own[o].state /\ own'[o].step = own[o].step
             /\ \A q \in Owners \ {o} : own'[q] = own[q]
             /\ \A q \in Owners : host[q] = << >>
             /\ \A g \in seen' : g \in seen
                   \/ \E k \in Keys : /\ own'[o].records[k] # NoRecord
                                      /\ g = <<k, own'[o].records[k].revision, own'[o].records[k].by>>
<1>1. op[m].step = "renamed" /\ Active(m)
  BY DEF Commit, Active
<1> PICK o \in Owners : o = op[m].owner /\ Serving(o) /\ own[o] \in OwnerRecord
  BY <1>1, OpenOwner
<1>2. host[o] = << >> /\ snap = op[m].cand
  BY <1>1 DEF IInv, PhaseInv
<1> DEFINE new == [own[o] EXCEPT !.records = op[m].cand.records,
                                 !.revision = op[m].cand.revision, !.dirty = FALSE]
<1>3. own' = [own EXCEPT ![o] = new]
  BY DEF Commit, IInv, TypeOK
<1>4. /\ new.records = snap.records /\ new.revision = snap.revision
      /\ new.state = own[o].state /\ new.step = own[o].step
  BY <1>2 DEF OwnerRecord
<1> HIDE DEF new
<1>5. own'[o] = new /\ \A q \in Owners \ {o} : own'[q] = own[q]
  BY <1>3 DEF IInv, TypeOK
<1>6. \A q \in Owners : host[q] = << >>
  BY <1>2, OthersQuiet
<1>7. ASSUME NEW g \in seen'
      PROVE  g \in seen
                \/ \E k \in Keys : /\ own'[o].records[k] # NoRecord
                                   /\ g = <<k, own'[o].records[k].revision, own'[o].records[k].by>>
  <2>1. CASE g \in Given(m)
    <3>1. PICK k \in Keys : /\ op[m].cand.records[k].by = m
                            /\ g = <<k, op[m].cand.records[k].revision, m>>
      BY <2>1 DEF Given
    <3>2. m # 0
      BY DEF Ops
    <3>3. QED
      BY <3>1, <3>2, <1>2, <1>4, <1>5, Constants0
  <2>2. QED
    BY <1>7, <2>1 DEF Commit
<1>8. QED
  BY <1>1, <1>2, <1>4, <1>5, <1>6, <1>7

LEMMA CommitStep ==
    ASSUME IInv, NEW m \in Ops, Commit(m)
    PROVE  IInv'
<1>1. TypeOK'
  BY OpTypeStep DEF IInv, OpStep
<1>2. UNCHANGED <<lock, temp, snap, host, canceled, expired>> /\ op[m].step \notin {"none", "over"}
  BY DEF Commit, fileVars
<1>3. PICK o \in Owners :
             /\ o = op[m].owner /\ Serving(o) /\ snap = op[m].cand /\ Active(m)
             /\ own'[o].records = snap.records /\ own'[o].revision = snap.revision
             /\ own'[o].state = own[o].state /\ own'[o].step = own[o].step
             /\ \A q \in Owners \ {o} : own'[q] = own[q]
             /\ \A q \in Owners : host[q] = << >>
             /\ \A g \in seen' : g \in seen
                   \/ \E k \in Keys : /\ own'[o].records[k] # NoRecord
                                      /\ g = <<k, own'[o].records[k].revision, own'[o].records[k].by>>
  BY CommitEffect
<1>4. OwnerInv' /\ SingleOwner' /\ \A q \in Owners : (Serving(q)' <=> Serving(q)) /\ (Loaded(q)' <=> Loaded(q))
  <2>1. \A q \in Owners : own'[q].state = own[q].state /\ own'[q].step = own[q].step
    BY <1>3
  <2>2. QED
    BY <1>2, <2>1, SameLife DEF IInv
<1>5. PICK result \in {"failed", "ok"} : op' = Ended(m, result)
  BY DEF Commit
<1>6. /\ OpInv' /\ QuietInv' /\ HostInv' /\ PhaseInv'
      /\ \A n \in Ops : Active(n)' => Active(n)
  BY <1>2, <1>4, <1>5, SettleKeeps
<1>7. \A n \in Ops : ~Active(n)'
  <2>1. op'[m].step = "over"
    <3>1. op' = [op EXCEPT ![m] = Settled(m, result)] /\ Settled(m, result).step = "over"
      BY <1>5, SettledFacts DEF IInv
    <3>2. QED
      BY <3>1 DEF IInv, TypeOK
  <2>2. \A n \in Ops : Active(n) => n = m
    BY <1>3, OneActive
  <2>3. ~Active(m)'
    BY <2>1 DEF Active
  <2>4. QED
    BY <2>2, <2>3, <1>6
<1>8. \A q \in Owners : Len(host'[q]) = 0
  BY <1>2, <1>3
<1>9. /\ WellFormed(own'[o]) /\ Sound(own'[o], seen)
      /\ Follows(snap, own'[o]) /\ WellFormed(snap) /\ Sound(snap, seen)
  <2>1. WellFormed(snap) /\ Sound(snap, seen)
    BY DEF IInv, DataInv
  <2>2. WellFormed(own'[o]) /\ Sound(own'[o], seen)
    BY <2>1, <1>3, SameMemory
  <2>3. Follows(snap, own'[o])
    BY <2>1, <1>3 DEF Follows, WellFormed
  <2>4. QED
    BY <2>1, <2>2, <2>3
<1>10. Sound(snap, seen')
  BY <1>3, <1>9, GiveOut
<1>11. Sound(own'[o], seen') /\ RevisionIdentifiesRecord'
  <2>1. \A x, y \in seen : x[1] = y[1] /\ x[2] = y[2] => x[3] = y[3]
    BY DEF IInv, RevisionIdentifiesRecord
  <2>2. /\ Sound(own'[o], seen')
        /\ \A x, y \in seen' : x[1] = y[1] /\ x[2] = y[2] => x[3] = y[3]
    <3>1. PICK r : r = own'[o]
      OBVIOUS
    <3>2. PICK more : more = seen'
      OBVIOUS
    <3>3. WellFormed(r) /\ Sound(r, seen)
      BY <1>9, <3>1
    <3>4. \A g \in more : g \in seen
              \/ \E k \in Keys : /\ r.records[k] # NoRecord
                                 /\ g = <<k, r.records[k].revision, r.records[k].by>>
      BY <1>3, <3>1, <3>2
    <3>5. Sound(r, more) /\ \A x, y \in more : x[1] = y[1] /\ x[2] = y[2] => x[3] = y[3]
      BY <3>3, <3>4, <2>1, GiveOutOwn
    <3>6. QED
      BY <3>1, <3>2, <3>5
  <2>3. QED
    BY <2>2 DEF RevisionIdentifiesRecord
<1>12. \A q \in Owners \ {o} : ~Loaded(q)'
  BY <1>3, <1>4, OthersQuiet
<1>13. DataInv'
  BY <1>2, <1>7, <1>8, <1>9, <1>10, <1>11, <1>12 DEF DataInv
<1>14. QED
  BY <1>1, <1>4, <1>6, <1>11, <1>13 DEF IInv

LEMMA ReadStep ==
    ASSUME IInv, NEW o \in Owners, NEW ks \in SUBSET Keys, Read(o, ks)
    PROVE  IInv'
<1>1. UNCHANGED <<lock, temp, snap, op, host, canceled, expired>>
  BY DEF Read, fileVars
<1>2. own[o] \in OwnerRecord /\ seen \in SUBSET Triples /\ expired \subseteq Ops /\ snap \in Snapshots
  BY DEF IInv, TypeOK, Triples
<1> PICK p \in OwnerRecord : p = Purged(own[o])
  BY <1>2, PurgedEffect
<1>3. /\ own' = [own EXCEPT ![o] = p] /\ Serving(o)
      /\ \A g \in seen' : g \in seen
            \/ \E k \in Keys : /\ p.records[k] # NoRecord
                               /\ g = <<k, p.records[k].revision, p.records[k].by>>
  BY ReadEffect DEF IInv
<1>4. own'[o] = p /\ \A q \in Owners \ {o} : own'[q] = own[q]
  BY <1>3 DEF IInv, TypeOK
<1>5. OwnerInv' /\ SingleOwner' /\ \A q \in Owners : (Serving(q)' <=> Serving(q)) /\ (Loaded(q)' <=> Loaded(q))
  <2>1. \A q \in Owners : own'[q].state = own[q].state /\ own'[q].step = own[q].step
    BY <1>2, <1>4, PurgedEffect
  <2>2. QED
    BY <1>1, <2>1, SameLife DEF IInv
<1>6. \A q \in Owners \ {o} : ~Loaded(q) /\ Len(host[q]) = 0
  BY <1>3, OthersQuiet
<1>7. WellFormed(own[o]) /\ Sound(own[o], seen) /\ Follows(snap, own[o])
  BY <1>3, OthersQuiet DEF IInv, DataInv
<1>8. TypeOK'
  BY <1>7, ReadType DEF IInv
<1>9. OpInv' /\ QuietInv' /\ HostInv' /\ PhaseInv'
  BY <1>1, <1>5 DEF IInv, OpInv, Active, QuietInv, HostInv, CallFits, PhaseInv
<1>10. WellFormed(p) /\ Sound(p, seen) /\ Follows(snap, p)
  BY <1>2, <1>7, PurgeKeeps
<1>11. Sound(p, seen') /\ RevisionIdentifiesRecord'
  <2>1. \A x, y \in seen : x[1] = y[1] /\ x[2] = y[2] => x[3] = y[3]
    BY DEF IInv, RevisionIdentifiesRecord
  <2>2. /\ Sound(p, seen')
        /\ \A x, y \in seen' : x[1] = y[1] /\ x[2] = y[2] => x[3] = y[3]
    BY <1>3, <1>10, <2>1, GiveOutOwn
  <2>3. QED
    BY <2>2 DEF RevisionIdentifiesRecord
<1>12. WellFormed(snap) /\ Sound(snap, seen')
  <2>1. WellFormed(snap) /\ Sound(snap, seen)
    BY DEF IInv, DataInv
  <2>2. QED
    BY <2>1, <1>3, <1>10, GiveOut
<1>13. ASSUME NEW x \in Snapshots, Candidate(x, own[o], seen, expired)
       PROVE  Candidate(x, p, seen', expired)
  <2>1. /\ WellFormed(x) /\ Sound(x, seen) /\ Follows(x, own[o]) /\ OneChange(x, own[o], expired)
    BY <1>13 DEF Candidate
  <2>2. Follows(x, p) /\ OneChange(x, p, expired)
    BY <1>2, <2>1, PurgeKeeps
  <2>3. Sound(x, seen')
    BY <1>3, <2>1, <2>2, GiveOut
  <2>4. QED
    BY <2>1, <2>2, <2>3 DEF Candidate
<1>14. DataInv'
  <2>1. ASSUME NEW n \in Ops, Active(n)'
        PROVE  Candidate(op[n].cand, own[op[n].owner], seen, expired)'
    <3>1. Active(n) /\ op' = op
      BY <2>1, <1>1 DEF Active
    <3>2. op[n].owner = o /\ op[n].cand \in Snapshots
      BY <3>1, <1>3, OpenOwner, OthersQuiet DEF Active
    <3>3. Candidate(op[n].cand, own[o], seen, expired)
      BY <3>1, <3>2 DEF IInv, DataInv
    <3>4. Candidate(op[n].cand, p, seen', expired)
      BY <3>2, <3>3, <1>13
    <3>5. QED
      BY <3>1, <3>2, <3>4, <1>1, <1>4
  <2>2. ASSUME NEW q \in Owners, NEW i \in 1 .. Len(host[q])
        PROVE  Candidate(host[q][i].data, own'[q], seen', expired)
    <3>1. q = o /\ host[q][i].data \in Snapshots
      BY <2>2, <1>6, Entry DEF IInv
    <3>2. Candidate(host[q][i].data, own[o], seen, expired)
      BY <3>1 DEF IInv, DataInv
    <3>3. QED
      BY <3>1, <3>2, <1>4, <1>13
  <2>3. \A q \in Owners : Loaded(q)' =>
           WellFormed(own'[q]) /\ Sound(own'[q], seen') /\ Follows(snap, own'[q])
    BY <1>4, <1>5, <1>6, <1>10, <1>11
  <2>4. QED
    BY <1>1, <1>12, <2>1, <2>2, <2>3 DEF DataInv
<1>15. QED
  BY <1>5, <1>8, <1>9, <1>11, <1>14 DEF IInv

LEMMA ExpireStep ==
    ASSUME IInv, NEW m \in Ops, Expire(m)
    PROVE  IInv'
<1>1. TypeOK'
  BY OpTypeStep DEF IInv, OpStep
<1>2. UNCHANGED <<lock, temp, snap, own, op, host, canceled, seen>> /\ expired' = expired \cup {m}
  BY DEF Expire, fileVars
<1>3. OwnerInv' /\ SingleOwner' /\ \A q \in Owners : (Serving(q)' <=> Serving(q)) /\ (Loaded(q)' <=> Loaded(q))
  BY <1>2, SameLife DEF IInv
<1>4. OpInv' /\ QuietInv' /\ HostInv' /\ PhaseInv' /\ RevisionIdentifiesRecord'
  BY <1>2, <1>3 DEF IInv, OpInv, Active, QuietInv, HostInv, CallFits, PhaseInv, RevisionIdentifiesRecord
<1>5. ASSUME NEW x, NEW r, Candidate(x, r, seen, expired)
      PROVE  Candidate(x, r, seen, expired')
  BY <1>2, <1>5, ExpireKeeps DEF Candidate
<1>6. DataInv'
  <2>1. \A n \in Ops : Active(n) => Candidate(op[n].cand, own[op[n].owner], seen, expired')
    BY <1>5 DEF IInv, DataInv
  <2>2. \A q \in Owners : \A i \in 1 .. Len(host[q]) :
          Candidate(host[q][i].data, own[q], seen, expired')
    BY <1>5 DEF IInv, DataInv
  <2>3. \A n \in Ops : Active(n)' => Active(n)
    BY <1>2 DEF Active
  <2>4. QED
    BY <1>2, <1>3, <2>1, <2>2, <2>3 DEF IInv, DataInv
<1>7. QED
  BY <1>1, <1>3, <1>4, <1>6 DEF IInv

(***************************************************************************)
(* The theorems                                                            *)
(***************************************************************************)
LEMMA InitIInv == Init => IInv
<1> SUFFICES ASSUME Init PROVE IInv
  OBVIOUS
<1>1. TypeOK
  <2>1. << >> \in Seq(HostCall)
    OBVIOUS
  <2>2. QED
    BY <2>1, Constants0 DEF Init, TypeOK
<1>2. \A o \in Owners : own[o].state = "idle" /\ own[o].step = "none" /\ host[o] = << >>
  BY DEF Init, FreshOwner
<1>3. \A m \in Ops : /\ op[m].owner = 0 /\ op[m].step = "none" /\ op[m].result = "none"
  BY DEF Init, FreshOp
<1>4. OwnerInv /\ SingleOwner /\ QuietInv
  BY <1>2, <1>3, StoreConstants DEF OwnerInv, StepFits, SingleOwner, Live, QuietInv
<1>5. OpInv /\ PhaseInv
  <2>1. \A x \in Ops : \A n \in 1 .. x - 1 : n \in Ops
    BY StoreConstants DEF Ops
  <2>2. QED
    BY <1>3, <2>1 DEF OpInv, OpFits, Active, PhaseInv
<1>6. \A q \in Owners : Len(host[q]) = 0
  BY <1>2
<1>7. HostInv
  BY <1>6 DEF HostInv
<1>8. WellFormed(snap) /\ Sound(snap, seen) /\ RevisionIdentifiesRecord
  BY Constants0 DEF Init, WellFormed, Sound, RevisionIdentifiesRecord, Empty
<1>9. DataInv
  BY <1>2, <1>3, <1>6, <1>8 DEF DataInv, Loaded, Active
<1>10. QED
  BY <1>1, <1>4, <1>5, <1>7, <1>8, <1>9 DEF IInv

LEMMA NextIInv == IInv /\ [Next]_vars => IInv'
<1> SUFFICES ASSUME IInv, [Next]_vars PROVE IInv'
  OBVIOUS
<1>1. ASSUME NEW o \in Owners, OwnerStep(o) PROVE IInv'
  <2>1. CASE Lifecycle(o)
    BY <2>1, LifecycleStep
  <2>2. CASE Load(o)
    BY <2>2, LoadStep
  <2>3. CASE Crash(o)
    BY <2>3, CrashStep
  <2>4. CASE HostBegins(o) \/ HostWrites(o) \/ HostRenames(o)
    BY <2>4, HostStep
  <2>5. CASE \E k \in Keys : Read(o, {k})
    BY <2>5, ReadStep
  <2>6. CASE List(o)
    BY <2>6, ReadStep DEF List
  <2>7. QED
    BY <1>1, <2>1, <2>2, <2>3, <2>4, <2>5, <2>6 DEF OwnerStep, Lifecycle
<1>2. ASSUME NEW m \in Ops, OpStep(m) PROVE IInv'
  <2>1. CASE \E o \in Owners, kind \in {"write", "delete"}, k \in Keys, ttl \in BOOLEAN :
               \E cond \in Conditions(k) : Submit(m, o, kind, k, cond, ttl)
    BY <2>1, SubmitStep
  <2>2. CASE Begin(m)
    BY <2>2, BeginStep
  <2>3. CASE CallHost(m, "encode", "write") \/ CallHost(m, "written", "rename")
    BY <2>3, CallHostStep
  <2>4. CASE Commit(m)
    BY <2>4, CommitStep
  <2>5. CASE Cancel(m)
    BY <2>5, CancelStep
  <2>6. CASE Expire(m)
    BY <2>6, ExpireStep
  <2>7. QED
    BY <1>2, <2>1, <2>2, <2>3, <2>4, <2>5, <2>6 DEF OpStep
<1>3. CASE RemoveStaleLock
  <2>1. CASE Owners = {}
    <3>1. UNCHANGED <<temp, snap, own, op, host, canceled, expired, seen>> /\ lock' = FALSE
      BY <1>3 DEF RemoveStaleLock
    <3>2. TypeOK'
      BY <3>1 DEF IInv, TypeOK
    <3>3. QED
      BY <2>1, <3>1, <3>2 DEF IInv, OwnerInv, SingleOwner, QuietInv, OpInv, Active, HostInv,
            PhaseInv, DataInv, RevisionIdentifiesRecord
  <2>2. CASE Owners # {}
    BY <2>2, <1>3, LifecycleStep DEF Lifecycle
  <2>3. QED
    BY <2>1, <2>2
<1>4. CASE UNCHANGED vars
  BY <1>4 DEF vars, IInv, TypeOK, OwnerInv, SingleOwner, Live, QuietInv, Serving, OpInv, Active,
        HostInv, CallFits, PhaseInv, DataInv, Loaded, RevisionIdentifiesRecord
<1>5. QED
  BY <1>1, <1>2, <1>3, <1>4 DEF Next

\* The inductive invariant holds in every reachable state.
THEOREM Invariance == Spec => []IInv
  BY InitIInv, NextIInv, PTL DEF Spec

\* Between acquire and close an instance owns the directory alone, and the lock
\* file is there, whatever fails, is killed or is cancelled (node-host.ts acquire).
THEOREM SingleOwnerTheorem == Spec => []SingleOwner
<1>1. IInv => SingleOwner
  BY DEF IInv
<1>2. QED
  BY <1>1, Invariance, PTL

\* A revision given out for a key names one record for ever, over cancelled
\* mutations, crashes and restarts that reuse revisions (store.ts ifRevision).
THEOREM RevisionIdentifiesRecordTheorem == Spec => []RevisionIdentifiesRecord
<1>1. IInv => RevisionIdentifiesRecord
  BY DEF IInv
<1>2. QED
  BY <1>1, Invariance, PTL

(***************************************************************************)
(* The store implements the durable map                                    *)
(***************************************************************************)
Disk == Visible(snap.records)
View == IF \E o \in Owners : Loaded(o)
        THEN Visible(own[CHOOSE o \in Owners : Loaded(o)].records)
        ELSE Visible(snap.records)
Acked == {m \in Ops : op[m].result = "ok"}

\* What reads return: the memory of the one loaded instance, or the disk.
LEMMA ViewIs ==
    ASSUME IInv
    PROVE  /\ \A o \in Owners : Loaded(o) => View = Visible(own[o].records)
           /\ (\A o \in Owners : ~Loaded(o)) => View = Disk
<1>1. \A o, q \in Owners : Loaded(o) /\ Loaded(q) => o = q
  BY DEF IInv, SingleOwner, OwnerInv, StepFits, Live, Loaded
<1>2. \A o \in Owners : Loaded(o) => (CHOOSE q \in Owners : Loaded(q)) = o
  BY <1>1
<1>3. QED
  BY <1>2 DEF View, Disk

\* The same after a step.
LEMMA ViewBecomes ==
    ASSUME IInv'
    PROVE  /\ \A o \in Owners : Loaded(o)' => View' = Visible(own[o].records)'
           /\ (\A o \in Owners : ~Loaded(o)') => View' = Disk'
<1>1. \A o, q \in Owners : Loaded(o)' /\ Loaded(q)' => o = q
  BY DEF IInv, SingleOwner, OwnerInv, StepFits, Live, Loaded
<1>2. \A o \in Owners : Loaded(o)' => (CHOOSE q \in Owners : Loaded(q)') = o
  BY <1>1
<1>3. QED
  BY <1>2 DEF View, Disk

\* An owner that starts from the disk, or a step that shows nothing.
LEMMA AdoptOrStutter ==
    ASSUME Disk' = Disk, snap'.by = snap.by, Acked' = Acked, View' = View \/ View' = Disk
    PROVE  [Durable!Next]_<<Disk, View, snap.by, Acked>>
<1>1. CASE View' = View
  BY <1>1
<1>2. CASE View' = Disk
  <2>1. Durable!Adopt
    BY <1>2 DEF Durable!Adopt, Disk, View, Acked
  <2>2. QED
    BY <2>1 DEF Durable!Next
<1>3. QED
  BY <1>1, <1>2

\* A step of the instances shows nothing, if it keeps the files and the visible
\* records of the loaded ones, or leaves none loaded.
LEMMA MemoryKeeps ==
    ASSUME IInv, IInv', snap' = snap, expired' = expired, Acked' = Acked,
           \A q \in Owners : Loaded(q)' =>
              Loaded(q) /\ \A k \in Keys : Vis(own'[q].records[k], expired) = Vis(own[q].records[k], expired)
    PROVE  [Durable!Next]_<<Disk, View, snap.by, Acked>>
<1>1. Disk' = Disk
  BY DEF Disk, Visible
<1>2. View' = View \/ View' = Disk
  <2>1. CASE \E q \in Owners : Loaded(q)'
    <3>1. PICK q \in Owners : Loaded(q)'
      BY <2>1
    <3>2. View' = Visible(own[q].records)' /\ View = Visible(own[q].records)
      BY <3>1, ViewIs, ViewBecomes
    <3>3. Visible(own[q].records)' = Visible(own[q].records)
      BY <3>1 DEF Visible, Vis
    <3>4. QED
      BY <3>2, <3>3
  <2>2. CASE \A q \in Owners : ~Loaded(q)'
    BY <2>2, <1>1, ViewBecomes
  <2>3. QED
    BY <2>1, <2>2
<1>3. QED
  BY <1>1, <1>2, AdoptOrStutter

\* Only an acknowledged mutation adds to the acknowledged ones.
LEMMA AckedKeeps ==
    ASSUME IInv, NEW m \in Ops,
           \/ op' = op
           \/ /\ op[m].step # "over"
              /\ \/ \E result \in {"absent", "failed"} : op' = Ended(m, result)
                 \/ op' = [op EXCEPT ![m].step = op'[m].step]
                 \/ op' = [op EXCEPT ![m].step = op'[m].step, ![m].cand = op'[m].cand]
                 \/ op' = [op EXCEPT ![m] = op'[m]] /\ op'[m].result = "none"
    PROVE  Acked' = Acked
<1>1. CASE op' = op
  BY <1>1 DEF Acked
<1>2. CASE op[m].step # "over" /\ \A n \in Ops \ {m} : op'[n] = op[n]
  <2>1. op[m].result = "none" /\ op[m] \in OpRecord
    BY <1>2 DEF IInv, OpInv, OpFits, TypeOK
  <2>2. CASE \E result \in {"absent", "failed"} : op' = Ended(m, result)
    <3>1. PICK result \in {"absent", "failed"} : op' = Ended(m, result)
      BY <2>2
    <3>2. op' = [op EXCEPT ![m] = Settled(m, result)] /\ Settled(m, result).result = result
      BY <3>1, SettledFacts DEF IInv
    <3>3. op'[m].result # "ok"
      BY <3>2 DEF IInv, TypeOK
    <3>4. QED
      BY <1>2, <2>1, <3>3 DEF Acked
  <2>3. CASE op' = [op EXCEPT ![m].step = op'[m].step]
    <3>1. op'[m].result = op[m].result
      BY <2>1, <2>3 DEF IInv, TypeOK, OpRecord
    <3>2. QED
      BY <1>2, <2>1, <3>1 DEF Acked
  <2>4. CASE op' = [op EXCEPT ![m].step = op'[m].step, ![m].cand = op'[m].cand]
    <3>1. op'[m].result = op[m].result
      BY <2>1, <2>4 DEF IInv, TypeOK, OpRecord
    <3>2. QED
      BY <1>2, <2>1, <3>1 DEF Acked
  <2>5. CASE op'[m].result = "none"
    BY <1>2, <2>1, <2>5 DEF Acked
  <2>6. QED
    BY <1>1, <2>2, <2>3, <2>4, <2>5
<1>3. ASSUME NEW result \in {"absent", "failed"}, op' = Ended(m, result)
      PROVE  \A n \in Ops \ {m} : op'[n] = op[n]
  BY <1>3, SettledFacts DEF IInv, TypeOK
<1>4. QED
  BY <1>1, <1>2, <1>3 DEF IInv, TypeOK

LEMMA InResults ==
    ASSUME NEW map, NEW m, NEW k \in Keys, NEW v \in {m, 0}
    PROVE  [map EXCEPT ![k] = v] \in
             {[map EXCEPT ![i] = u] : i \in Keys, u \in {m, 0}} \cup {map}
  OBVIOUS

\* A host call ends: only a rename that succeeds shows, as a commit on top of the view.
LEMMA HostRefines ==
    ASSUME IInv, IInv', NEW o \in Owners, HostBegins(o) \/ HostWrites(o) \/ HostRenames(o)
    PROVE  [Durable!Next]_<<Disk, View, snap.by, Acked>>
<1>1. host[o] # << >> /\ UNCHANGED <<own, expired>>
  BY DEF HostBegins, HostWrites, HostRenames
<1>2. host[o] \in Seq(HostCall) /\ Len(host[o]) \in Nat /\ Len(host[o]) >= 1 /\ host[o][1] = Head(host[o])
  BY <1>1 DEF IInv, TypeOK
<1>3. Loaded(o) /\ Loaded(o)'
  BY <1>1, CallOwner, OthersQuiet DEF Loaded
<1>4. \A q \in Owners : Loaded(q)' =>
          Loaded(q) /\ \A k \in Keys : Vis(own'[q].records[k], expired) = Vis(own[q].records[k], expired)
  BY <1>1 DEF Loaded
<1>5. ASSUME NEW to \in {"failed", "written", "renamed"}, HostEnds(o, to)
      PROVE  Acked' = Acked
  <2> PICK e \in HostCall : e = Head(host[o])
    BY <1>1, <1>5, HostEndsEffect DEF IInv
  <2>1. /\ e.op \in Ops /\ e.call \in {"write", "rename"}
        /\ \/ op[e.op].step # e.call /\ op' = op
           \/ op[e.op].step = e.call /\ op' = [op EXCEPT ![e.op] = Settled(e.op, "failed")]
           \/ /\ op[e.op].step = e.call /\ to # "failed"
              /\ op' = [op EXCEPT ![e.op].step = to]
    BY <1>1, <1>5, HostEndsEffect DEF IInv
  <2>2. CASE op' = op
    BY <2>2 DEF Acked
  <2>3. CASE op[e.op].step = e.call /\ op' = [op EXCEPT ![e.op] = Settled(e.op, "failed")]
    <3>1. op' = Ended(e.op, "failed")
      BY <2>1, <2>3, SettledFacts DEF IInv
    <3>2. QED
      BY <2>1, <2>3, <3>1, AckedKeeps
  <2>4. CASE op[e.op].step = e.call /\ op' = [op EXCEPT ![e.op].step = to]
    <3>1. op[e.op] \in OpRecord
      BY <2>1 DEF IInv, TypeOK
    <3>2. op'[e.op].step = to
      BY <2>1, <2>4, <3>1 DEF IInv, TypeOK, OpRecord
    <3>3. QED
      BY <2>1, <2>4, <3>2, AckedKeeps
  <2>5. QED
    BY <2>1, <2>2, <2>3, <2>4
<1>6. CASE HostBegins(o)
  <2>1. Acked' = Acked
    BY <1>5, <1>6 DEF HostBegins, Acked
  <2>2. snap' = snap
    BY <1>6 DEF HostBegins
  <2>3. QED
    BY <1>1, <1>4, <2>1, <2>2, MemoryKeeps
<1>7. CASE HostWrites(o)
  <2>1. \E to \in {"failed", "written"} : HostEnds(o, to)
    BY <1>7 DEF HostWrites
  <2>2. snap' = snap
    BY <1>7 DEF HostWrites
  <2>3. QED
    BY <1>1, <1>4, <1>5, <2>1, <2>2, MemoryKeeps
<1>8. CASE HostRenames(o) /\ HostEnds(o, "failed") /\ snap' = snap
  BY <1>1, <1>4, <1>5, <1>8, MemoryKeeps
<1>9. CASE HostRenames(o) /\ HostEnds(o, "renamed") /\ snap' = temp.data
  <2> DEFINE e == Head(host[o])
             x == e.data
  <2>1. CallFits(o, 1) /\ Candidate(x, own[o], seen, expired)
    BY <1>2 DEF IInv, HostInv, DataInv
  <2>2. temp = File(x) /\ x.by = e.op /\ e.op \in Ops
    BY <1>2, <1>9, <2>1, Entry DEF HostRenames, CallFits, IInv
  <2>3. snap' = x
    BY <1>9, <2>2 DEF File
  <2>4. View = Visible(own[o].records) /\ View' = Visible(own[o].records)'
    BY <1>3, ViewIs, ViewBecomes
  <2>5. View' = View
    BY <2>4, <1>1 DEF Visible
  <2>6. Acked' = Acked
    BY <1>5, <1>9
  <2>7. PICK k \in Keys :
          /\ \A j \in Keys \ {k} : Vis(x.records[j], expired) = Vis(own[o].records[j], expired)
          /\ Vis(x.records[k], expired) \in {x.by, 0, Vis(own[o].records[k], expired)}
    BY <2>1 DEF Candidate, OneChange
  <2>8. Disk' = [j \in Keys |-> Vis(x.records[j], expired)]
    BY <1>1, <2>3 DEF Disk, Visible, Vis
  <2>9. View = [j \in Keys |-> Vis(own[o].records[j], expired)]
    BY <2>4 DEF Visible, Vis
  <2> HIDE DEF x
  <2>10. Disk' \in Durable!Results(e.op)
    <3>0. ASSUME NEW j \in Keys, NEW v \in {e.op, 0}
          PROVE  [View EXCEPT ![j] = v] \in Durable!Results(e.op)
      <4>1. Durable!Results(e.op) =
              {[View EXCEPT ![i] = u] : i \in Keys, u \in {e.op, 0}} \cup {View}
        BY DEF Durable!Results, View
      <4>2. QED
        BY <4>1, InResults
    <3>1. CASE Vis(x.records[k], expired) \in {e.op, 0}
      <4>1. Disk' = [View EXCEPT ![k] = Vis(x.records[k], expired)]
        BY <2>7, <2>8, <2>9
      <4>2. PICK v \in {e.op, 0} : Disk' = [View EXCEPT ![k] = v]
        BY <3>1, <4>1
      <4>3. QED
        BY <4>2, <3>0
    <3>2. CASE Vis(x.records[k], expired) = Vis(own[o].records[k], expired)
      <4>1. Disk' = View
        BY <2>7, <2>8, <2>9, <3>2
      <4>2. QED
        BY <4>1 DEF Durable!Results, View
    <3>3. QED
      BY <2>2, <2>7, <3>1, <3>2
  <2>11. Durable!Commit(e.op)
    BY <2>2, <2>3, <2>5, <2>6, <2>10 DEF Durable!Commit, Disk, View, Acked
  <2>12. QED
    BY <2>2, <2>11 DEF Durable!Next
<1>10. QED
  BY <1>6, <1>7, <1>8, <1>9 DEF HostRenames

\* Every step of the store is a step of the durable map, or shows nothing.
LEMMA StepRefines ==
    ASSUME IInv, IInv', [Next]_vars
    PROVE  [Durable!Next]_<<Disk, View, snap.by, Acked>>
<1>1. ASSUME NEW o \in Owners, OwnerStep(o)
      PROVE  [Durable!Next]_<<Disk, View, snap.by, Acked>>
  <2>1. CASE Lifecycle(o)
    <3>1. /\ UNCHANGED <<snap, op, expired>>
          /\ \A q \in Owners : own'[q].records = own[q].records
          /\ \A q \in Owners : Loaded(q)' => Loaded(q)
      BY <2>1, LifecycleEffect DEF IInv
    <3>2. Acked' = Acked
      BY <3>1 DEF Acked
    <3>3. QED
      BY <3>1, <3>2, MemoryKeeps
  <2>2. CASE Load(o)
    <3>1. PICK l \in OwnerRecord :
             /\ l.records = snap.records
             /\ own'[o].records = Purged(l).records
             /\ Live(o) /\ ~Loaded(o) /\ Loaded(o)'
      BY <2>2, LoadEffect
    <3>2. UNCHANGED <<snap, op, expired>>
      BY <2>2 DEF Load, fileVars
    <3>3. \A k \in Keys : Vis(Purged(l).records[k], expired) = Vis(l.records[k], expired)
      BY Constants0, PurgeKeeps DEF IInv, TypeOK
    <3>4. Visible(own[o].records)' = Disk
      BY <3>1, <3>2, <3>3 DEF Visible, Disk, Vis
    <3>5. View' = Disk
      BY <3>1, <3>4, ViewBecomes
    <3>6. Disk' = Disk /\ Acked' = Acked
      BY <3>2 DEF Disk, Visible, Acked
    <3>7. QED
      BY <3>2, <3>5, <3>6, AdoptOrStutter
  <2>3. CASE Crash(o)
    <3>1. UNCHANGED <<snap, expired>> /\ Live(o)
      BY <2>3 DEF Crash, fileVars
    <3>2. \A m \in Ops : op'[m] = IF op[m].owner = o /\ op[m].step # "over"
                                  THEN Settled(m, "failed") ELSE op[m]
      BY <2>3 DEF Crash, Settled
    <3>3. \A m \in Ops : /\ Settled(m, "failed").result = "failed"
                         /\ op[m].step # "over" => op[m].result = "none"
      BY SettledFacts DEF IInv, OpInv, OpFits
    <3>4. Acked' = Acked
      BY <3>2, <3>3 DEF Acked
    <3>5. \A q \in Owners \ {o} : own'[q] = own[q]
      BY <2>3 DEF Crash, IInv, TypeOK
    <3>6. own'[o] = [FreshOwner EXCEPT !.state = "dead"]
      BY <2>3 DEF Crash, IInv, TypeOK
    <3>7. ~Loaded(o)'
      BY <3>6 DEF Loaded, FreshOwner
    <3>8. \A q \in Owners : ~Loaded(q)'
      BY <3>1, <3>5, <3>7 DEF IInv, SingleOwner, Live, Loaded, OwnerInv, StepFits
    <3>9. QED
      BY <3>1, <3>4, <3>8, MemoryKeeps
  <2>4. CASE HostBegins(o) \/ HostWrites(o) \/ HostRenames(o)
    BY <2>4, HostRefines
  <2>5. ASSUME NEW ks \in SUBSET Keys, Read(o, ks)
        PROVE  [Durable!Next]_<<Disk, View, snap.by, Acked>>
    <3>1. UNCHANGED <<snap, op, expired>>
      BY <2>5 DEF Read, fileVars
    <3>2. own' = [own EXCEPT ![o] = Purged(own[o])] /\ Serving(o)
      BY <2>5, ReadEffect DEF IInv
    <3>3. own'[o] = Purged(own[o]) /\ \A q \in Owners \ {o} : own'[q] = own[q]
      BY <3>2 DEF IInv, TypeOK
    <3>4. \A k \in Keys : Vis(Purged(own[o]).records[k], expired) = Vis(own[o].records[k], expired)
      BY Constants0, PurgeKeeps DEF IInv, TypeOK
    <3>5. Loaded(o)
      BY <3>2, OthersQuiet
    <3>6. Acked' = Acked
      BY <3>1 DEF Acked
    <3>7. \A q \in Owners : Loaded(q)' => Loaded(q)
      BY <3>3, <3>5 DEF Loaded
    <3>8. QED
      BY <3>1, <3>3, <3>4, <3>6, <3>7, MemoryKeeps
  <2>6. QED
    BY <1>1, <2>1, <2>2, <2>3, <2>4, <2>5 DEF OwnerStep, Lifecycle, List
<1>2. ASSUME NEW m \in Ops, OpStep(m)
      PROVE  [Durable!Next]_<<Disk, View, snap.by, Acked>>
  <2>0. ASSUME UNCHANGED <<snap, own, expired>>, Acked' = Acked
        PROVE  [Durable!Next]_<<Disk, View, snap.by, Acked>>
    <3>1. \A q \in Owners : Loaded(q)' => Loaded(q)
      BY <2>0 DEF Loaded
    <3>2. QED
      BY <2>0, <3>1, MemoryKeeps
  <2>1. CASE \E o \in Owners, kind \in {"write", "delete"}, k \in Keys, ttl \in BOOLEAN :
               \E cond \in Conditions(k) : Submit(m, o, kind, k, cond, ttl)
    <3>1. PICK o \in Owners, kind \in {"write", "delete"}, k \in Keys, ttl \in BOOLEAN :
               \E cond \in Conditions(k) : Submit(m, o, kind, k, cond, ttl)
      BY <2>1
    <3>2. PICK cond \in Conditions(k) : Submit(m, o, kind, k, cond, ttl)
      BY <3>1
    <3> DEFINE new == [FreshOp EXCEPT !.owner = o, !.kind = kind, !.key = k,
                                      !.cond = cond, !.ttl = ttl, !.step = "queued"]
    <3>3. new.result = "none"
      BY DEF FreshOp
    <3>4. op' = [op EXCEPT ![m] = new] /\ op[m].step = "none" /\ UNCHANGED <<snap, own, expired>>
      BY <3>2 DEF Submit, fileVars
    <3> HIDE DEF new
    <3>5. op'[m] = new
      BY <3>4 DEF IInv, TypeOK
    <3>6. Acked' = Acked
      BY <3>3, <3>4, <3>5, AckedKeeps
    <3>7. QED
      BY <2>0, <3>4, <3>6
  <2>2. CASE Begin(m)
    <3>1. UNCHANGED <<snap, expired>> /\ op[m].step = "queued"
      BY <2>2 DEF Begin, fileVars
    <3> PICK o \in Owners : o = op[m].owner /\ own[o] \in OwnerRecord /\ Serving(o)
      BY <3>1, OpenOwner
    <3>2. PICK p \in {own[o], Purged(own[o])} :
             /\ own' = [own EXCEPT ![o] = p]
             /\ \/ \E result \in {"absent", "failed"} : op' = Ended(m, result)
                \/ \E c : /\ Built(c, m, p)
                          /\ op' = [op EXCEPT ![m].step = "encode", ![m].cand = c]
      BY <2>2, BeginEffect DEF IInv
    <3>3. own'[o] = p /\ \A q \in Owners \ {o} : own'[q] = own[q]
      BY <3>2 DEF IInv, TypeOK
    <3>4. \A k \in Keys : Vis(p.records[k], expired) = Vis(own[o].records[k], expired)
      BY Constants0, PurgeKeeps DEF IInv, TypeOK
    <3>5. \A q \in Owners : Loaded(q)' => Loaded(q)
      BY <3>3, OthersQuiet DEF Loaded
    <3>6. Acked' = Acked
      <4>1. op[m] \in OpRecord
        BY DEF IInv, TypeOK
      <4>2. CASE \E result \in {"absent", "failed"} : op' = Ended(m, result)
        BY <3>1, <4>2, AckedKeeps
      <4>3. CASE \E c : op' = [op EXCEPT ![m].step = "encode", ![m].cand = c]
        <5>1. PICK c : op' = [op EXCEPT ![m].step = "encode", ![m].cand = c]
          BY <4>3
        <5>2. op'[m].step = "encode" /\ op'[m].cand = c
          BY <4>1, <5>1 DEF IInv, TypeOK, OpRecord
        <5>3. QED
          BY <3>1, <5>1, <5>2, AckedKeeps
      <4>4. QED
        BY <3>2, <4>2, <4>3
    <3>7. QED
      BY <3>1, <3>3, <3>4, <3>5, <3>6, MemoryKeeps
  <2>3. ASSUME NEW from \in {"encode", "written"}, NEW call \in {"write", "rename"},
               CallHost(m, from, call)
        PROVE  [Durable!Next]_<<Disk, View, snap.by, Acked>>
    <3>1. UNCHANGED <<snap, own, expired>> /\ op[m].step = from /\ op[m] \in OpRecord
      BY <2>3 DEF CallHost, fileVars, IInv, TypeOK
    <3>2. CASE op' = Ended(m, "failed")
      BY <2>0, <3>1, <3>2, AckedKeeps
    <3>3. CASE op' = [op EXCEPT ![m].step = call]
      <4>1. op'[m].step = call
        BY <3>1, <3>3 DEF IInv, TypeOK, OpRecord
      <4>2. Acked' = Acked
        BY <3>1, <3>3, <4>1, AckedKeeps
      <4>3. QED
        BY <2>0, <3>1, <4>2
    <3>4. QED
      BY <2>3, <3>2, <3>3 DEF CallHost
  <2>4. CASE Commit(m)
    <3>1. PICK o \in Owners :
             /\ Serving(o) /\ snap = op[m].cand /\ Active(m)
             /\ own'[o].records = snap.records
             /\ own'[o].state = own[o].state /\ own'[o].step = own[o].step
      BY <2>4, CommitEffect
    <3>2. UNCHANGED <<snap, expired>>
      BY <2>4 DEF Commit, fileVars
    <3>3. Loaded(o) /\ Loaded(o)'
      BY <3>1, OthersQuiet DEF Loaded
    <3>4. View' = Disk /\ Disk' = Disk
      BY <3>1, <3>2, <3>3, ViewBecomes DEF Disk, Visible
    <3>5. snap.by = m /\ m # 0
      BY <3>1 DEF IInv, OpInv, OpFits, Active, Ops
    <3>6. CASE op' = Ended(m, "failed")
      <4>1. Acked' = Acked
        BY <3>1, <3>6, AckedKeeps DEF Active
      <4>2. QED
        BY <3>2, <3>4, <4>1, AdoptOrStutter
    <3>7. CASE op' = Ended(m, "ok")
      <4>1. op' = [op EXCEPT ![m] = Settled(m, "ok")] /\ Settled(m, "ok").result = "ok"
        BY <3>7, SettledFacts DEF IInv
      <4>2. op'[m].result = "ok" /\ \A n \in Ops \ {m} : op'[n] = op[n]
        BY <4>1 DEF IInv, TypeOK
      <4>3. Acked' = Acked \cup {m}
        BY <4>2 DEF Acked
      <4>4. Durable!Acknowledge
        BY <3>2, <3>4, <3>5, <4>3 DEF Durable!Acknowledge, Disk, View, Acked
      <4>5. QED
        BY <4>4 DEF Durable!Next
    <3>8. QED
      BY <2>4, <3>6, <3>7 DEF Commit
  <2>5. CASE Cancel(m)
    <3>1. UNCHANGED <<snap, own, expired>> /\ op[m].step # "over"
      BY <2>5 DEF Cancel, fileVars
    <3>2. op' = Ended(m, "failed") \/ op' = op
      BY <2>5 DEF Cancel
    <3>3. Acked' = Acked
      BY <3>1, <3>2, AckedKeeps
    <3>4. QED
      BY <2>0, <3>1, <3>3
  <2>6. CASE Expire(m)
    <3>1. UNCHANGED <<snap, own, op>> /\ expired' = expired \cup {m} /\ m # 0
      BY <2>6 DEF Expire, fileVars, Ops
    <3>2. \A records : Visible(records)' = [k \in Keys |-> IF records'[k].by \in expired \cup {m}
                                                           THEN 0 ELSE records'[k].by]
      BY <3>1 DEF Visible
    <3>3. Disk' = Durable!Without(Disk, m)
      BY <3>1 DEF Disk, Visible, Durable!Without
    <3>4. View' = Durable!Without(View, m)
      <4>1. CASE \E q \in Owners : Loaded(q)
        <5>1. PICK q \in Owners : Loaded(q) /\ Loaded(q)'
          BY <4>1, <3>1 DEF Loaded
        <5>2. View' = Visible(own[q].records)' /\ View = Visible(own[q].records)
          BY <5>1, ViewIs, ViewBecomes
        <5>3. QED
          BY <5>2, <3>1 DEF Visible, Durable!Without
      <4>2. CASE \A q \in Owners : ~Loaded(q)
        <5>1. \A q \in Owners : ~Loaded(q)'
          BY <4>2, <3>1 DEF Loaded
        <5>2. View' = Disk' /\ View = Disk
          BY <4>2, <5>1, ViewIs, ViewBecomes
        <5>3. QED
          BY <5>2, <3>3
      <4>3. QED
        BY <4>1, <4>2
    <3>5. Acked' = Acked
      BY <3>1 DEF Acked
    <3>6. Durable!Expire(m)
      BY <3>1, <3>3, <3>4, <3>5 DEF Durable!Expire, Disk, View, Acked
    <3>7. QED
      BY <3>6 DEF Durable!Next
  <2>7. QED
    BY <1>2, <2>1, <2>2, <2>3, <2>4, <2>5, <2>6 DEF OpStep
<1>3. CASE RemoveStaleLock
  <2>1. UNCHANGED <<snap, own, op, expired>>
    BY <1>3 DEF RemoveStaleLock
  <2>2. Acked' = Acked /\ \A q \in Owners : Loaded(q)' => Loaded(q)
    BY <2>1 DEF Acked, Loaded
  <2>3. QED
    BY <2>1, <2>2, MemoryKeeps
<1>4. CASE UNCHANGED vars
  <2>1. UNCHANGED <<snap, own, op, expired>>
    BY <1>4 DEF vars
  <2>2. Acked' = Acked /\ \A q \in Owners : Loaded(q)' => Loaded(q)
    BY <2>1 DEF Acked, Loaded
  <2>3. QED
    BY <2>1, <2>2, MemoryKeeps
<1>5. QED
  BY <1>1, <1>2, <1>3, <1>4 DEF Next

\* The store is a durable map: the snapshot file changes by whole mutations made
\* on top of what reads return, what was reported as done is the mutation on disk,
\* and a kill or a cancelled call leaves the state before or after it (persist).
THEOREM ImplementsDurableMapTheorem == Spec => ImplementsDurableMap
<1>1. Init => Durable!Init
  <2> SUFFICES ASSUME Init PROVE Durable!Init
    OBVIOUS
  <2>1. /\ \A k \in Keys : snap.records[k] = NoRecord
        /\ snap.by = 0 /\ expired = {}
    BY DEF Init, Empty
  <2>2. \A m \in Ops : op[m].result = "none"
    BY DEF Init, FreshOp
  <2>3. \A o \in Owners : ~Loaded(o)
    BY DEF Init, FreshOwner, Loaded
  <2>4. Visible(snap.records) = [k \in Keys |-> 0]
    BY <2>1, Constants0 DEF Visible
  <2>5. QED
    BY <2>1, <2>2, <2>3, <2>4 DEF Durable!Init
<1>2. IInv /\ IInv' /\ [Next]_vars => [Durable!Next]_<<Disk, View, snap.by, Acked>>
  BY StepRefines
<1>3. QED
  BY <1>1, <1>2, Invariance, PTL DEF Spec, ImplementsDurableMap, Durable!Spec, Disk, View, Acked
=============================================================================
