------------------------------ MODULE FileStore ------------------------------
(***************************************************************************)
(* The file store (packages/store/file/src/store.ts) on its Node host      *)
(* (node-host.ts): a lock file, one snapshot file replaced by rename, and   *)
(* one temporary file, shared by store instances that may be killed.        *)
(*                                                                          *)
(* The store runs one operation at a time.  A mutation builds a candidate   *)
(* from the records in memory, has the host write it to the temporary file  *)
(* and rename it, and only then replaces the records in memory.  The host   *)
(* has a queue of its own: cancelling the caller's context ends the store's *)
(* wait for the host, not the native call, which goes on while the store    *)
(* takes its next operation.                                                *)
(*                                                                          *)
(* Left out: record bytes and metadata (a record is the mutation that wrote *)
(* it), the snapshot's encoding and checksum (a torn file is one that fails *)
(* them), key, value and ttl validation, and loss of power: the kill of a   *)
(* process leaves every completed system call in place.                     *)
(***************************************************************************)
EXTENDS Naturals, Sequences, FiniteSets

CONSTANTS Keys,
          Owners,       \* store instances that may be started on the directory
          MaxOps,       \* bound: the mutations submitted
          MaxRevision   \* MaximumRevision, made small

ASSUME StoreConstants == MaxOps \in Nat /\ MaxRevision \in Nat /\ 0 \notin Owners

Ops == 1 .. MaxOps  \* mutations, numbered in the order they are submitted

VARIABLES
    lock,      \* whether the lock file exists
    temp,      \* the temporary file: NoFile, Torn or a snapshot
    snap,      \* the snapshot file
    own,       \* per instance: its lifecycle, records, revision and dirtyExpiry
    op,        \* per mutation: what it is, how far it got and its result
    host,      \* per instance: the host calls that have not ended
    canceled,  \* the mutations whose context was cancelled
    expired,   \* the writes whose ttl has elapsed
    seen       \* history: the records callers were given, as <<key, revision, write>>

fileVars == <<lock, temp, snap>>
vars == <<lock, temp, snap, own, op, host, canceled, expired, seen>>

NoRecord == [revision |-> 0, by |-> 0]
Empty == [records |-> [k \in Keys |-> NoRecord], revision |-> 0, by |-> 0]
NoFile == [kind |-> "none", data |-> Empty]
Torn == [kind |-> "torn", data |-> Empty]
File(snapshot) == [kind |-> "full", data |-> snapshot]

FreshOwner == [state |-> "idle", step |-> "none", records |-> Empty.records,
               revision |-> 0, dirty |-> FALSE]
FreshOp == [owner |-> 0, kind |-> "none", key |-> 0, cond |-> 0, ttl |-> FALSE,
            step |-> "none", result |-> "none", cand |-> Empty]

Init ==
    /\ lock = FALSE
    /\ temp = NoFile
    /\ snap = Empty
    /\ own = [o \in Owners |-> FreshOwner]
    /\ op = [m \in Ops |-> FreshOp]
    /\ host = [o \in Owners |-> << >>]
    /\ canceled = {}
    /\ expired = {}
    /\ seen = {}

(***************************************************************************)
(* Lifecycle                                                               *)
(***************************************************************************)
\* purgeExpired on an instance's memory: expired records go, and the revision
\* moves on once if any did.  At the last revision it throws, after the removal.
Purged(r) ==
    LET gone == {k \in Keys : r.records[k].by \in expired}
        kept == [k \in Keys |-> IF k \in gone THEN NoRecord ELSE r.records[k]]
    IN  IF gone = {} THEN r
        ELSE IF r.revision >= MaxRevision THEN [r EXCEPT !.records = kept]
        ELSE [r EXCEPT !.records = kept, !.revision = @ + 1, !.dirty = TRUE]

PurgeThrows(r) == r.revision >= MaxRevision /\ \E k \in Keys : r.records[k].by \in expired

Live(o) == own[o].state \in {"starting", "running", "stopping"}

\* Mutant of Acquire: the lock file is not created exclusively.
AcquireShared(o) ==
    /\ own[o].state = "idle"
    /\ lock' = TRUE
    /\ own' = [own EXCEPT ![o].state = "starting", ![o].step = "acquired"]
    /\ UNCHANGED <<temp, snap, op, host, canceled, expired, seen>>

\* host.acquire creates the lock file exclusively; a context cancelled behind
\* that rolls it back, and a lock descriptor that does not close keeps the file.
Acquire(o) ==
    /\ own[o].state = "idle"
    /\ \/ /\ ~lock
          /\ lock' = TRUE
          /\ own' = [own EXCEPT ![o].state = "starting", ![o].step = "acquired"]
       \/ /\ own' = [own EXCEPT ![o].state = "failed"]
          /\ lock' \in {lock, TRUE}
    /\ UNCHANGED <<temp, snap, op, host, canceled, expired, seen>>

\* start removes the temporary file an earlier owner left.
RemoveStaleTemp(o) ==
    /\ own[o].step = "acquired"
    /\ temp' = NoFile
    /\ own' = [own EXCEPT ![o].step = "cleaned"]
    /\ UNCHANGED <<lock, snap, op, host, canceled, expired, seen>>

\* Mutant of Load: the revision of the snapshot is not restored.
LoadRecordsOnly(o) ==
    LET loaded == [own[o] EXCEPT !.records = snap.records]
    IN  /\ own[o].step = "cleaned"
        /\ own' = [own EXCEPT ![o] =
                     [Purged(loaded) EXCEPT
                        !.state = IF @ = "starting" THEN "running" ELSE @,
                        !.step = IF own[o].state = "starting" THEN "none" ELSE "drain"]]
        /\ UNCHANGED <<fileVars, op, host, canceled, expired, seen>>

\* start reads and validates the snapshot, and purges it.  A stop that came
\* meanwhile begins the shutdown.
Load(o) ==
    LET loaded == [own[o] EXCEPT !.records = snap.records, !.revision = snap.revision]
    IN  /\ own[o].step = "cleaned"
        /\ ~PurgeThrows(loaded)
        /\ own' = [own EXCEPT ![o] =
                     [Purged(loaded) EXCEPT
                        !.state = IF @ = "starting" THEN "running" ELSE @,
                        !.step = IF own[o].state = "starting" THEN "none" ELSE "drain"]]
        /\ UNCHANGED <<fileVars, op, host, canceled, expired, seen>>

\* Any failure of start closes the directory, which removes the lock file unless
\* closing its descriptor fails.
StartFails(o) ==
    /\ own[o].step \in {"acquired", "cleaned"}
    /\ own' = [own EXCEPT ![o].state = "failed", ![o].step = "none"]
    /\ lock' \in BOOLEAN
    /\ UNCHANGED <<temp, snap, op, host, canceled, expired, seen>>

Stop(o) ==
    /\ own[o].state \in {"starting", "running"}
    /\ own' = [own EXCEPT ![o].state = "stopping",
                          ![o].step = IF own[o].state = "running" THEN "drain" ELSE @]
    /\ UNCHANGED <<fileVars, op, host, canceled, expired, seen>>

\* drain: behind the accepted operations and the host's calls the temporary file
\* is removed, or that fails.
DrainTemp(o) ==
    /\ own[o].step = "drain"
    /\ \A m \in Ops : op[m].owner = o => op[m].step = "over"
    /\ host[o] = << >>
    /\ temp' \in {temp, NoFile}
    /\ own' = [own EXCEPT ![o].step = "removed"]
    /\ UNCHANGED <<lock, snap, op, host, canceled, expired, seen>>

\* Then the directory is closed: the lock file goes with its descriptor.
DrainClose(o) ==
    /\ own[o].step = "removed"
    /\ \/ /\ lock' = FALSE
          /\ own' = [own EXCEPT ![o].step = "none", ![o].state = "stopped"]
       \/ /\ own' = [own EXCEPT ![o].step = "none", ![o].state = "failed"]
          /\ lock' \in BOOLEAN
    /\ UNCHANGED <<temp, snap, op, host, canceled, expired, seen>>

\* The process of an instance is killed: its memory and its pending calls are
\* gone, the files stay as they are.
Crash(o) ==
    /\ Live(o)
    /\ own' = [own EXCEPT ![o] = [FreshOwner EXCEPT !.state = "dead"]]
    /\ host' = [host EXCEPT ![o] = << >>]
    /\ op' = [m \in Ops |-> IF op[m].owner = o /\ op[m].step # "over"
                            THEN [FreshOp EXCEPT !.ttl = op[m].ttl, !.step = "over", !.result = "failed"]
                            ELSE op[m]]
    /\ UNCHANGED <<fileVars, canceled, expired, seen>>

\* An operator removes a lock file once there is no live owner.
RemoveStaleLock ==
    /\ lock
    /\ \A o \in Owners : ~Live(o)
    /\ lock' = FALSE
    /\ UNCHANGED <<temp, snap, own, op, host, canceled, expired, seen>>

(***************************************************************************)
(* Operations                                                              *)
(***************************************************************************)
\* What a condition option may ask for: nothing, ifAbsent, or ifRevision of a
\* record some caller was given.
Unconditional == 0
IfAbsent == MaxRevision + 1

Conditions(k) ==
    {Unconditional, IfAbsent} \cup {r \in 1 .. MaxRevision : \E b \in Ops : <<k, r, b>> \in seen}

\* write or delete is admitted while the store runs, and queued.
Submit(m, o, kind, k, cond, ttl) ==
    /\ own[o].state = "running"
    /\ op[m].step = "none"
    /\ \A n \in 1 .. m - 1 : op[n].step # "none"
    /\ kind = "delete" => cond # IfAbsent /\ ~ttl
    /\ op' = [op EXCEPT ![m] = [FreshOp EXCEPT !.owner = o, !.kind = kind, !.key = k,
                                               !.cond = cond, !.ttl = ttl, !.step = "queued"]]
    /\ UNCHANGED <<fileVars, own, host, canceled, expired, seen>>

\* The operations of an instance run one at a time, in the order of submission.
AtHead(m) == \A n \in 1 .. m - 1 : op[n].owner = op[m].owner => op[n].step = "over"

Meets(cond, current) ==
    \/ cond = Unconditional
    \/ cond = IfAbsent /\ current = NoRecord
    \/ current.revision = cond

\* A settled operation keeps its result, and its ttl when its record may be held.
Ended(m, result) ==
    [op EXCEPT ![m] = [FreshOp EXCEPT !.ttl = op[m].ttl, !.step = "over", !.result = result]]

\* An operation up to the first await of persist: the context, the purge, the
\* condition, the next revision, the candidate.
Begin(m) ==
    LET o == op[m].owner
        p == Purged(own[o])
        current == p.records[op[m].key]
        next == p.revision + 1
        record == IF op[m].kind = "write" THEN [revision |-> next, by |-> m] ELSE NoRecord
        candidate == [records |-> [p.records EXCEPT ![op[m].key] = record],
                      revision |-> next, by |-> m]
        absent == op[m].kind = "delete" /\ current = NoRecord
        purged == own' = [own EXCEPT ![o] = p]
    IN  /\ op[m].step = "queued"
        /\ AtHead(m)
        /\ \/ /\ m \in canceled
              /\ op' = Ended(m, "failed")
              /\ UNCHANGED own
           \/ /\ m \notin canceled
              /\ purged
              /\ \/ PurgeThrows(own[o]) \/ ~Meets(op[m].cond, current)
                 \/ ~absent /\ p.revision >= MaxRevision
              /\ op' = Ended(m, "failed")
           \/ /\ m \notin canceled
              /\ ~PurgeThrows(own[o])
              /\ purged
              /\ Meets(op[m].cond, current)
              /\ absent
              /\ op' = IF p.dirty
                       THEN [op EXCEPT ![m].step = "encode",
                               ![m].cand = [records |-> p.records, revision |-> p.revision, by |-> m]]
                       ELSE Ended(m, "absent")
           \/ /\ m \notin canceled
              /\ ~PurgeThrows(own[o])
              /\ purged
              /\ Meets(op[m].cond, current)
              /\ ~absent
              /\ p.revision < MaxRevision
              /\ op' = [op EXCEPT ![m].step = "encode", ![m].cand = candidate]
        /\ UNCHANGED <<fileVars, host, canceled, expired, seen>>

\* persist calls the host for the write and then for the rename, each behind a
\* check of the context.
CallHost(m, from, call) ==
    /\ op[m].step = from
    /\ IF m \in canceled
       THEN op' = Ended(m, "failed") /\ UNCHANGED host
       ELSE /\ op' = [op EXCEPT ![m].step = call]
            /\ host' = [host EXCEPT ![op[m].owner] =
                          Append(@, [call |-> call, op |-> m, begun |-> FALSE,
                                     data |-> op[m].cand])]
    /\ UNCHANGED <<fileVars, own, canceled, expired, seen>>

\* Mutant of HostEnds: a failed call does not release the host's queue.
HostEndsOnSuccess(o, to) ==
    LET m == Head(host[o]).op
    IN  /\ host' = IF to = "failed" THEN host ELSE [host EXCEPT ![o] = Tail(@)]
        /\ op' = IF op[m].step # Head(host[o]).call THEN op
                 ELSE IF to = "failed" THEN Ended(m, "failed")
                 ELSE [op EXCEPT ![m].step = to]

\* A host call ends: the mutation goes on at step to, unless it stopped waiting.
HostEnds(o, to) ==
    LET m == Head(host[o]).op
    IN  /\ host' = [host EXCEPT ![o] = Tail(@)]
        /\ op' = IF op[m].step # Head(host[o]).call THEN op
                 ELSE IF to = "failed" THEN Ended(m, "failed")
                 ELSE [op EXCEPT ![m].step = to]

\* The host takes its next call, behind another check of the context.  A write
\* creates the temporary file exclusively, so a file that was left there fails it.
HostBegins(o) ==
    LET h == Head(host[o])
        fails == h.op \in canceled \/ (h.call = "write" /\ temp # NoFile)
    IN  /\ host[o] # << >>
        /\ ~h.begun
        /\ \/ /\ fails
              /\ HostEnds(o, "failed")
              /\ UNCHANGED temp
           \/ /\ ~fails
              /\ host' = [host EXCEPT ![o][1].begun = TRUE]
              /\ temp' = IF h.call = "write" THEN Torn ELSE temp
              /\ UNCHANGED op
        /\ UNCHANGED <<lock, snap, own, canceled, expired, seen>>

\* A write fills, syncs and closes the file; a context cancelled by then or a
\* native error fails it and leaves the file.
HostWrites(o) ==
    LET m == Head(host[o]).op
    IN  /\ host[o] # << >>
        /\ Head(host[o]).begun
        /\ Head(host[o]).call = "write"
        /\ \/ /\ temp' = File(Head(host[o]).data)
              /\ HostEnds(o, IF m \in canceled THEN "failed" ELSE "written")
           \/ /\ temp' = Torn
              /\ HostEnds(o, "failed")
        /\ UNCHANGED <<lock, snap, own, canceled, expired, seen>>

\* The rename is atomic; a native error leaves both files.
HostRenames(o) ==
    /\ host[o] # << >>
    /\ Head(host[o]).begun
    /\ Head(host[o]).call = "rename"
    /\ \/ /\ snap' = temp.data
          /\ temp' = NoFile
          /\ HostEnds(o, "renamed")
       \/ /\ HostEnds(o, "failed")
          /\ UNCHANGED <<snap, temp>>
    /\ UNCHANGED <<lock, own, canceled, expired, seen>>

Given(m) == {<<k, op[m].cand.records[k].revision, m>> :
                k \in {j \in Keys : op[m].cand.records[j].by = m}}

\* Mutant of Commit: the rename is not awaited.
CommitEarly(m) ==
    /\ op[m].step = "rename"
    /\ own' = [own EXCEPT ![op[m].owner].records = op[m].cand.records,
                          ![op[m].owner].revision = op[m].cand.revision,
                          ![op[m].owner].dirty = FALSE]
    /\ op' = Ended(m, "ok")
    /\ seen' = seen \cup Given(m)
    /\ UNCHANGED <<fileVars, host, canceled, expired>>

\* persist returned: the candidate becomes the memory, and the caller is told
\* unless its context ended first.
Commit(m) ==
    /\ op[m].step = "renamed"
    /\ own' = [own EXCEPT ![op[m].owner].records = op[m].cand.records,
                          ![op[m].owner].revision = op[m].cand.revision,
                          ![op[m].owner].dirty = FALSE]
    /\ op' = Ended(m, IF m \in canceled THEN "failed" ELSE "ok")
    /\ seen' = IF m \in canceled THEN seen ELSE seen \cup Given(m)
    /\ UNCHANGED <<fileVars, host, canceled, expired>>

\* The context of a mutation is cancelled.  A wait for the host ends at once; the
\* native call does not.
Cancel(m) ==
    /\ op[m].step \notin {"none", "over"}
    /\ m \notin canceled
    /\ canceled' = canceled \cup {m}
    /\ op' = IF op[m].step \in {"write", "rename"} THEN Ended(m, "failed") ELSE op
    /\ UNCHANGED <<fileVars, own, host, expired, seen>>

\* read, queued like a mutation, purges and gives records out.
Read(o, ks) ==
    /\ own[o].state = "running" \/ own[o].step = "drain"
    /\ \A m \in Ops : op[m].owner = o => op[m].step \in {"queued", "over"}
    /\ own' = [own EXCEPT ![o] = Purged(@)]
    /\ seen' = IF PurgeThrows(own[o]) THEN seen
               ELSE seen \cup {<<k, own'[o].records[k].revision, own'[o].records[k].by>> :
                                  k \in {j \in ks : own'[o].records[j] # NoRecord}}
    /\ UNCHANGED <<fileVars, op, host, canceled, expired>>

\* list gives out every record; its cursor and prefix are left out.
List(o) == Read(o, Keys)

\* The ttl of a write elapses while its record is held somewhere.
Holds(records, m) == \E k \in Keys : records[k].by = m

Expire(m) ==
    /\ op[m].ttl
    /\ m \notin expired
    /\ \/ Holds(snap.records, m) \/ Holds(op[m].cand.records, m)
       \/ \E o \in Owners : \/ Holds(own[o].records, m)
                             \/ \E i \in DOMAIN host[o] : Holds(host[o][i].data.records, m)
    /\ expired' = expired \cup {m}
    /\ UNCHANGED <<fileVars, own, op, host, canceled, seen>>

OwnerStep(o) ==
    \/ Acquire(o) \/ RemoveStaleTemp(o) \/ Load(o) \/ StartFails(o)
    \/ Stop(o) \/ DrainTemp(o) \/ DrainClose(o) \/ Crash(o)
    \/ HostBegins(o) \/ HostWrites(o) \/ HostRenames(o)
    \/ \E k \in Keys : Read(o, {k})
    \/ List(o)

OpStep(m) ==
    \/ \E o \in Owners, kind \in {"write", "delete"}, k \in Keys, ttl \in BOOLEAN :
         \E cond \in Conditions(k) : Submit(m, o, kind, k, cond, ttl)
    \/ Begin(m)
    \/ CallHost(m, "encode", "write")
    \/ CallHost(m, "written", "rename")
    \/ Commit(m)
    \/ Cancel(m)
    \/ Expire(m)

Next ==
    \/ \E o \in Owners : OwnerStep(o)
    \/ \E m \in Ops : OpStep(m)
    \/ RemoveStaleLock

\* Promise reactions run and system calls return.
Fairness ==
    /\ \A o \in Owners : WF_vars(RemoveStaleTemp(o) \/ Load(o) \/ StartFails(o)
                                 \/ DrainTemp(o) \/ DrainClose(o)
                                 \/ HostBegins(o) \/ HostWrites(o) \/ HostRenames(o))
    /\ \A m \in Ops : WF_vars(Begin(m) \/ CallHost(m, "encode", "write")
                              \/ CallHost(m, "written", "rename") \/ Commit(m))

Spec == Init /\ [][Next]_vars /\ Fairness

(***************************************************************************)
(* Properties                                                              *)
(***************************************************************************)
Records == [revision : 0 .. MaxRevision, by : Ops \cup {0}]
Snapshots == [records : [Keys -> Records], revision : 0 .. MaxRevision, by : Ops \cup {0}]

OwnerRecord ==
    [state : {"idle", "starting", "running", "stopping", "stopped", "failed", "dead"},
     step : {"none", "acquired", "cleaned", "drain", "removed"},
     records : [Keys -> Records], revision : 0 .. MaxRevision, dirty : BOOLEAN]
OpRecord ==
    [owner : Owners \cup {0}, kind : {"none", "write", "delete"}, key : Keys \cup {0},
     cond : Nat, ttl : BOOLEAN,
     step : {"none", "queued", "encode", "write", "written", "rename", "renamed", "over"},
     result : {"none", "ok", "absent", "failed"}, cand : Snapshots]
HostCall == [call : {"write", "rename"}, op : Ops, begun : BOOLEAN, data : Snapshots]

TypeOK ==
    /\ lock \in BOOLEAN
    /\ temp \in [kind : {"none", "torn", "full"}, data : Snapshots]
    /\ snap \in Snapshots
    /\ own \in [Owners -> OwnerRecord]
    /\ op \in [Ops -> OpRecord]
    /\ host \in [Owners -> Seq(HostCall)]
    /\ canceled \subseteq Ops /\ expired \subseteq Ops
    /\ seen \subseteq Keys \X (1 .. MaxRevision) \X Ops

Visible(records) == [k \in Keys |-> IF records[k].by \in expired THEN 0 ELSE records[k].by]

Loaded(o) == own[o].state = "running" \/ own[o].step \in {"drain", "removed"}

\* The store implements a durable map: each change of the snapshot file is one
\* whole mutation made on top of what reads return, a mutation is reported as
\* done only when it is the one on disk, and a kill at any point, also between
\* the temporary file and its rename, or a cancelled call that still ends in the
\* host, leaves the state before or after it (store.ts persist).
Durable == INSTANCE DurableMap WITH
    Mutations <- Ops,
    durable <- Visible(snap.records),
    view <- IF \E o \in Owners : Loaded(o)
            THEN Visible(own[CHOOSE o \in Owners : Loaded(o)].records)
            ELSE Visible(snap.records),
    last <- snap.by,
    acked <- {m \in Ops : op[m].result = "ok"}

ImplementsDurableMap == Durable!Spec

\* A key's revision identifies its record: no two callers, in one process or
\* over restarts, are given different records of a key with the same revision,
\* although cancelled and crashed mutations reuse revisions.  ifRevision
\* compares nothing else.
RevisionIdentifiesRecord ==
    \A x, y \in seen : x[1] = y[1] /\ x[2] = y[2] => x[3] = y[3]

\* Between acquire and close an instance owns the directory: the lock file is
\* there, and no other instance is live.
SingleOwner ==
    \A o \in Owners :
        Live(o) => lock /\ \A p \in Owners \ {o} : ~Live(p)

\* A stop settles: the accepted operations and the host calls behind cancelled
\* ones come to an end.
StopSettles ==
    \A o \in Owners : own[o].state = "stopping" ~> own[o].state \in {"stopped", "failed", "dead"}
===============================================================================
