---------------------------- MODULE ConfigProofs ----------------------------
(***************************************************************************)
(* Proofs about Config, for any number of sources and watchers, any number *)
(* of changes and any number of failures.  None of the safety properties   *)
(* is inductive.  The inductive invariant IInv adds which states of the    *)
(* round, of the lifecycle and of the drain occur together (PhaseInv), how *)
(* far the round has read and that it reads forward (ReadInv), which       *)
(* watchers have been stopped (ReleaseInv), and that a change reported     *)
(* before the first publication is in the candidate or marked (SeenInv).   *)
(***************************************************************************)
EXTENDS Config, TLAPS

\* The types of all variables; the flags are one set, which the provers handle best.
Types ==
    /\ version \in [Sources -> Version] /\ failures \in 0 .. MaxFailures
    /\ state \in {"idle", "loading", "loaded", "closing", "closed", "failed"}
    /\ current \in [Sources -> Version \cup {Unread}]
    /\ job \in {"none", "load", "reload"} /\ pc \in JobPc /\ at \in 1 .. NumSources + 1
    /\ snap \in [Sources -> Version \cup {Unread}]
    /\ startupCtx \in {"none", "live", "stopped", "cancelled"}
    /\ runtimeCtx \in {"none", "live", "stopped"}
    /\ {dirty, reloadActive, abnormal, cleanupErr} \subseteq BOOLEAN
    /\ retry \in {"off", "armed"}
    /\ watcher \in [Sources -> {"none", "open", "looping", "ended"}]
    /\ seen \in [Sources -> Version \cup {Unread}]
    /\ stopOp \in [Sources -> {"no", "called", "settled"}]
    /\ drain \in {"none", "queue", "stopping", "ended"}
    /\ done \in {"pending", "resolved", "rejected"}

\* What pumpDirty assigns.
LEMMA PumpTypes ==
    ASSUME Types, NEW st, NEW d \in BOOLEAN, NEW active \in BOOLEAN, Pump(st, d, active)
    PROVE  /\ job' \in {"none", "load", "reload"} /\ pc' \in JobPc
           /\ {dirty', reloadActive'} \subseteq BOOLEAN
  BY DEF Types, Pump, JobPc

\* What runLoad's catch assigns.
LEMMA LoadFailsTypes ==
    ASSUME Types, NEW i \in BOOLEAN, LoadFails(i)
    PROVE  /\ startupCtx' = "none" /\ runtimeCtx' \in {"none", "live", "stopped"}
           /\ stopOp' \in [Sources -> {"no", "called", "settled"}]
           /\ pc' \in JobPc /\ abnormal' \in BOOLEAN
           /\ state' \in {"idle", "loading", "loaded", "closing", "closed", "failed"}
  BY DEF Types, LoadFails, StopAccepted, JobPc

\* What backgroundFailed assigns.
LEMMA ReloadFailsTypes ==
    ASSUME Types, NEW i \in BOOLEAN, ReloadFails(i)
    PROVE  /\ job' \in {"none", "load", "reload"} /\ pc' \in JobPc
           /\ {dirty', reloadActive'} \subseteq BOOLEAN /\ retry' \in {"off", "armed"}
  <1>1. CASE i \/ state # "loaded"
    BY <1>1 DEF Types, ReloadFails, JobPc
  <1>2. CASE ~(i \/ state # "loaded") /\ dirty
    BY <1>2 DEF Types, ReloadFails, Pump, JobPc
  <1>3. CASE ~(i \/ state # "loaded") /\ ~dirty
    BY <1>3 DEF Types, ReloadFails, JobPc
  <1> QED
    BY <1>1, <1>2, <1>3

\* Every action keeps the types.
LEMMA TypesNext == ASSUME Types, [Next]_vars PROVE Types'
  <1> USE ConfigAssumption DEF Types, JobPc, Sources, Version, Unread, srcVars, jobVars, ctxVars,
          reloadVars, watchVars, endVars
  <1>1. ASSUME NEW pre \in BOOLEAN, Load(pre) PROVE Types'
    BY <1>1 DEF Load, Settle
  <1>2. CASE BeginRound
    BY <1>2 DEF BeginRound
  <1>3. CASE CallerCancels
    BY <1>3 DEF CallerCancels
  <1>4. CASE SourceReads
    <2>1. snap' \in [Sources -> Version \cup {Unread}] /\ pc' \in JobPc
      BY <1>4 DEF SourceReads
    <2> QED
      BY <1>4, <2>1 DEF SourceReads
  <1>5. CASE SourceReplies
    BY <1>5 DEF SourceReplies, Canceled
  <1>6. CASE Validates
    BY <1>6 DEF Validates
  <1>7. CASE OpenWatcher
    <2>1. CASE at \in Watched
      BY <1>7, <2>1, SMTT(30) DEF OpenWatcher
    <2>2. CASE at \notin Watched
      BY <1>7, <2>2, SMTT(30) DEF OpenWatcher
    <2> QED
      BY <2>1, <2>2
  <1>8. CASE OpenWatcherLate
    BY <1>8 DEF OpenWatcherLate, Canceled
  <1>9. CASE LaunchWatchers
    BY <1>9 DEF LaunchWatchers, Canceled
  <1>10. CASE Ready
    BY <1>10 DEF Ready, Pump, DrainStarted
  <1>11. CASE NotReady
    BY <1>11 DEF NotReady, LoadFails, StopAccepted, DrainStarted
  <1>12. CASE LoadEnds
    BY <1>12 DEF LoadEnds, Settle
  <1>13. CASE ReloadPublishes
    <2>1. /\ job' \in {"none", "load", "reload"} /\ pc' \in JobPc
          /\ {dirty', reloadActive'} \subseteq BOOLEAN
      BY <1>13, PumpTypes DEF ReloadPublishes
    <2> QED
      BY <1>13, <2>1 DEF ReloadPublishes
  <1>14. CASE RoundFails
    <2>f. failures' \in 0 .. MaxFailures
      BY <1>14 DEF RoundFails, Fail
    <2>1. CASE job = "load"
      <3>1. LoadFails(FALSE) /\ FALSE \in BOOLEAN
        BY <1>14, <2>1 DEF RoundFails
      <3> QED
        BY <1>14, <2>1, <2>f, <3>1, LoadFailsTypes DEF RoundFails
    <2>2. CASE job # "load"
      <3> HIDE DEF Types
      <3>1. ReloadFails(FALSE) /\ FALSE \in BOOLEAN
        BY <1>14, <2>2 DEF RoundFails
      <3>2. /\ job' \in {"none", "load", "reload"} /\ pc' \in JobPc
            /\ {dirty', reloadActive'} \subseteq BOOLEAN /\ retry' \in {"off", "armed"}
        BY <3>1, ReloadFailsTypes
      <3> QED
        BY <1>14, <2>2, <2>f, <3>2 DEF Types, RoundFails
    <2> QED
      BY <2>1, <2>2
  <1>15. CASE RoundCanceled
    <2>1. CASE job = "load"
      BY <1>15, <2>1, LoadFailsTypes DEF RoundCanceled
    <2>2. CASE job # "load"
      <3> HIDE DEF Types
      <3>1. ReloadFails(TRUE) /\ TRUE \in BOOLEAN
        BY <1>15, <2>2 DEF RoundCanceled
      <3>2. /\ job' \in {"none", "load", "reload"} /\ pc' \in JobPc
            /\ {dirty', reloadActive'} \subseteq BOOLEAN /\ retry' \in {"off", "armed"}
        BY <3>1, ReloadFailsTypes
      <3> QED
        BY <1>15, <2>2, <3>2 DEF Types, RoundCanceled
    <2> QED
      BY <2>1, <2>2
  <1>16. CASE RetryFires
    <2>1. {dirty, reloadActive} \subseteq BOOLEAN /\ Pump(state, dirty, reloadActive)
      BY <1>16 DEF RetryFires
    <2> QED
      BY <1>16, <2>1, PumpTypes DEF RetryFires
  <1>17. ASSUME NEW s \in Sources, SourceChanges(s) PROVE Types'
    BY <1>17 DEF SourceChanges
  <1>18. ASSUME NEW s \in Sources, WatcherNext(s) PROVE Types'
    <2>1. CASE state \in {"loading", "loaded"}
      <3>1. /\ job' \in {"none", "load", "reload"} /\ pc' \in JobPc
            /\ {dirty', reloadActive'} \subseteq BOOLEAN /\ retry' = "off"
        BY <1>18, <2>1, PumpTypes DEF WatcherNext, MarkDirty
      <3> QED
        BY <1>18, <2>1, <3>1 DEF WatcherNext
    <2>2. CASE state \notin {"loading", "loaded"}
      BY <1>18, <2>2 DEF WatcherNext
    <2> QED
      BY <2>1, <2>2
  <1>19. ASSUME NEW s \in Sources, WatcherStops(s) PROVE Types'
    BY <1>19 DEF WatcherStops
  <1>20. ASSUME NEW s \in Sources, WatcherFails(s) PROVE Types'
    <2>1. {dirty', abnormal', cleanupErr'} \subseteq BOOLEAN
      BY <1>20 DEF WatcherFails, BeginDrain
    <2> QED
      BY <1>20, <2>1, SMTT(30) DEF WatcherFails, Fail, BeginDrain
  <1>21. ASSUME NEW s \in Sources, NEW ok \in BOOLEAN, StopSettles(s, ok) PROVE Types'
    BY <1>21, SMTT(30) DEF StopSettles, Fail
  <1>22. CASE Close
    BY <1>22 DEF Close, BeginDrain, DrainStarted
  <1>23. CASE DrainQueue
    BY <1>23 DEF DrainQueue, StopAccepted
  <1>24. CASE DrainEnds
    BY <1>24 DEF DrainEnds, Settle
  <1>25. CASE UNCHANGED vars
    BY <1>25 DEF vars
  <1> QED
    BY <1>1, <1>2, <1>3, <1>4, <1>5, <1>6, <1>7, <1>8, <1>9, <1>10, <1>11, <1>12, <1>13,
       <1>14, <1>15, <1>16, <1>17, <1>18, <1>19, <1>20, <1>21, <1>22, <1>23, <1>24, <1>25
    DEF Next, Progress, Environment

-----------------------------------------------------------------------------
(* The phases of the round, the lifecycle and the drain. *)

\* Which of them occur together: a loaded configuration runs reloads only, in a live
\* runtime and without a drain; a load that is past its startup context is still owned
\* by the load; the barrier and the last drain steps come after every round.
PhaseInv ==
    /\ reloadActive <=> job = "reload"
    /\ job = "none" => pc = "queued"
    /\ pc \in {"open", "launched", "rollback", "abort"} => job = "load"
    /\ pc = "publish" => job = "reload"
    /\ job = "load" <=> state = "loading" \/ (state = "closing" /\ job = "load")
    /\ pc = "launched" => startupCtx = "none" /\ (drain = "none" => runtimeCtx = "live")
    /\ pc \in {"rollback", "abort"} => state = "closing"
    /\ pc = "abort" => drain # "none"
    /\ state = "closing" /\ drain = "none" => pc = "rollback"
    /\ state = "idle" => job = "none"
    /\ state = "loaded" => job # "load" /\ runtimeCtx = "live"
    /\ state \in {"idle", "loading", "loaded"} => drain = "none" /\ done = "pending"
    /\ drain \in {"stopping", "ended"} \/ done # "pending" => job = "none"
    /\ retry = "armed" => state = "loaded"

\* Every action keeps the phases.
LEMMA PhaseNext == ASSUME Types, PhaseInv, [Next]_vars PROVE PhaseInv'
  <1> USE DEF PhaseInv, Types, JobPc, srcVars, jobVars, ctxVars,
          reloadVars, watchVars, endVars
  <1>1. ASSUME NEW pre \in BOOLEAN, Load(pre) PROVE PhaseInv'
    BY <1>1 DEF Load, Settle
  <1>2. CASE BeginRound
    BY <1>2 DEF BeginRound
  <1>3. CASE CallerCancels
    BY <1>3 DEF CallerCancels
  <1>4. CASE SourceReads
    BY <1>4 DEF SourceReads, Canceled
  <1>5. CASE SourceReplies
    BY <1>5 DEF SourceReplies, Canceled
  <1>6. CASE Validates
    BY <1>6 DEF Validates
  <1>7. CASE OpenWatcher
    BY <1>7 DEF OpenWatcher, Canceled
  <1>8. CASE OpenWatcherLate
    BY <1>8 DEF OpenWatcherLate, Canceled
  <1>9. CASE LaunchWatchers
    BY <1>9 DEF LaunchWatchers, Canceled
  <1>10. CASE Ready
    BY <1>10 DEF Ready, Pump, DrainStarted
  <1>11. CASE NotReady
    BY <1>11 DEF NotReady, LoadFails, StopAccepted, DrainStarted
  <1>12. CASE LoadEnds
    BY <1>12 DEF LoadEnds, Settle
  <1>13. CASE ReloadPublishes
    BY <1>13 DEF ReloadPublishes, Pump
  <1>14. CASE RoundFails
    BY <1>14 DEF RoundFails, Fail, LoadFails, ReloadFails, Pump, StopAccepted, DrainStarted
  <1>15. CASE RoundCanceled
    BY <1>15 DEF RoundCanceled, Canceled, LoadFails, ReloadFails, Pump, StopAccepted, DrainStarted
  <1>16. CASE RetryFires
    BY <1>16 DEF RetryFires, Pump
  <1>17. ASSUME NEW s \in Sources, SourceChanges(s) PROVE PhaseInv'
    BY <1>17 DEF SourceChanges
  <1>18. ASSUME NEW s \in Sources, WatcherNext(s) PROVE PhaseInv'
    BY <1>18 DEF WatcherNext, MarkDirty, Pump
  <1>19. ASSUME NEW s \in Sources, WatcherStops(s) PROVE PhaseInv'
    BY <1>19 DEF WatcherStops
  <1>20. ASSUME NEW s \in Sources, WatcherFails(s) PROVE PhaseInv'
    BY <1>20 DEF WatcherFails, Fail, BeginDrain
  <1>21. ASSUME NEW s \in Sources, NEW ok \in BOOLEAN, StopSettles(s, ok) PROVE PhaseInv'
    BY <1>21 DEF StopSettles, Fail
  <1>22. CASE Close
    BY <1>22 DEF Close, BeginDrain, DrainStarted
  <1>23. CASE DrainQueue
    BY <1>23 DEF DrainQueue, StopAccepted
  <1>24. CASE DrainEnds
    BY <1>24 DEF DrainEnds, Settle
  <1>25. CASE UNCHANGED vars
    BY <1>25 DEF vars
  <1> QED
    BY <1>1, <1>2, <1>3, <1>4, <1>5, <1>6, <1>7, <1>8, <1>9, <1>10, <1>11, <1>12, <1>13,
       <1>14, <1>15, <1>16, <1>17, <1>18, <1>19, <1>20, <1>21, <1>22, <1>23, <1>24, <1>25
    DEF Next, Progress, Environment

-----------------------------------------------------------------------------
(* What the round has read. *)

\* The sources before the cursor have been read, all of them after the last one; nothing
\* newer than the source is read or published; a round reads nothing older than the
\* publication; a load has no publication to replace.
ReadInv ==
    /\ pc \in {"read", "reply"} => at \in Sources
    /\ pc = "read" => \A s \in Sources : s < at => snap[s] # Unread
    /\ pc = "reply" => \A s \in Sources : s <= at => snap[s] # Unread
    /\ pc \in {"resolve", "open", "launched", "publish"} => \A s \in Sources : snap[s] # Unread
    /\ job = "load" \/ state = "idle" => \A s \in Sources : current[s] = Unread
    /\ \A s \in Sources : current[s] <= version[s]
    /\ \A s \in Sources : snap[s] <= version[s]
    /\ (job = "reload" /\ pc # "queued") =>
           \A s \in Sources : snap[s] = Unread \/ snap[s] >= current[s]

\* Every action keeps what the round has read.
LEMMA ReadNext == ASSUME Types, PhaseInv, ReadInv, [Next]_vars PROVE ReadInv'
  <1> USE ConfigAssumption DEF ReadInv, PhaseInv, Types, JobPc, Sources, Version, Unread,
          srcVars, jobVars, ctxVars, reloadVars, watchVars, endVars
  <1>1. ASSUME NEW pre \in BOOLEAN, Load(pre) PROVE ReadInv'
    BY <1>1 DEF Load, Settle
  <1>2. CASE BeginRound
    BY <1>2 DEF BeginRound
  <1>3. CASE CallerCancels
    BY <1>3 DEF CallerCancels
  <1>4. CASE SourceReads
    BY <1>4 DEF SourceReads, Canceled
  <1>5. CASE SourceReplies
    BY <1>5 DEF SourceReplies, Canceled
  <1>6. CASE Validates
    BY <1>6 DEF Validates
  <1>7. CASE OpenWatcher
    BY <1>7 DEF OpenWatcher, Canceled
  <1>8. CASE OpenWatcherLate
    BY <1>8 DEF OpenWatcherLate, Canceled
  <1>9. CASE LaunchWatchers
    BY <1>9 DEF LaunchWatchers, Canceled
  <1>10. CASE Ready
    BY <1>10 DEF Ready, Pump, DrainStarted
  <1>11. CASE NotReady
    BY <1>11 DEF NotReady, LoadFails, StopAccepted, DrainStarted
  <1>12. CASE LoadEnds
    BY <1>12 DEF LoadEnds, Settle
  <1>13. CASE ReloadPublishes
    BY <1>13 DEF ReloadPublishes, Pump
  <1>14. CASE RoundFails
    BY <1>14 DEF RoundFails, Fail, LoadFails, ReloadFails, Pump, StopAccepted, DrainStarted
  <1>15. CASE RoundCanceled
    BY <1>15 DEF RoundCanceled, Canceled, LoadFails, ReloadFails, Pump, StopAccepted, DrainStarted
  <1>16. CASE RetryFires
    BY <1>16 DEF RetryFires, Pump
  <1>17. ASSUME NEW s \in Sources, SourceChanges(s) PROVE ReadInv'
    <2>1. \A t \in Sources : {version[t], version'[t], current[t], snap[t], seen[t]} \subseteq Int
      BY <1>17 DEF SourceChanges
    <2>2. \A t \in Sources : version'[t] >= version[t]
      BY <1>17 DEF SourceChanges
    <2>3. \A t \in Sources : /\ current[t] <= version'[t] /\ snap[t] <= version'[t]
                             /\ seen[t] <= version[t] => seen[t] <= version'[t]
      BY <2>1, <2>2, SMTT(30)
    <2> QED
      BY <1>17, <2>3 DEF SourceChanges
  <1>18. ASSUME NEW s \in Sources, WatcherNext(s) PROVE ReadInv'
    BY <1>18 DEF WatcherNext, MarkDirty, Pump
  <1>19. ASSUME NEW s \in Sources, WatcherStops(s) PROVE ReadInv'
    BY <1>19 DEF WatcherStops
  <1>20. ASSUME NEW s \in Sources, WatcherFails(s) PROVE ReadInv'
    BY <1>20 DEF WatcherFails, Fail, BeginDrain
  <1>21. ASSUME NEW s \in Sources, NEW ok \in BOOLEAN, StopSettles(s, ok) PROVE ReadInv'
    BY <1>21 DEF StopSettles, Fail
  <1>22. CASE Close
    BY <1>22 DEF Close, BeginDrain, DrainStarted
  <1>23. CASE DrainQueue
    BY <1>23 DEF DrainQueue, StopAccepted
  <1>24. CASE DrainEnds
    BY <1>24 DEF DrainEnds, Settle
  <1>25. CASE UNCHANGED vars
    BY <1>25 DEF vars
  <1> QED
    BY <1>1, <1>2, <1>3, <1>4, <1>5, <1>6, <1>7, <1>8, <1>9, <1>10, <1>11, <1>12, <1>13,
       <1>14, <1>15, <1>16, <1>17, <1>18, <1>19, <1>20, <1>21, <1>22, <1>23, <1>24, <1>25
    DEF Next, Progress, Environment

-----------------------------------------------------------------------------
(* The watchers' stops. *)

\* Watchers exist from the load on and loop from their launch on; a rollback, an abort and
\* the drain past the queue have called every accepted watcher's stop.
ReleaseInv ==
    /\ state = "idle" => Accepted = {}
    /\ (state = "loading" /\ pc # "launched") => \A s \in Sources : watcher[s] # "looping"
    /\ (pc \in {"rollback", "abort"} \/ drain \in {"stopping", "ended"} \/ done # "pending")
           => \A s \in Accepted : stopOp[s] # "no"
    /\ WatchersReleased

\* Every action keeps the watchers' stops accounted for.
LEMMA ReleaseNext == ASSUME Types, PhaseInv, ReleaseInv, [Next]_vars PROVE ReleaseInv'
  <1> USE DEF ReleaseInv, WatchersReleased, Accepted, PhaseInv, Types, JobPc, srcVars, jobVars,
          ctxVars, reloadVars, watchVars, endVars
  <1>1. ASSUME NEW pre \in BOOLEAN, Load(pre) PROVE ReleaseInv'
    BY <1>1 DEF Load, Settle
  <1>2. CASE BeginRound
    BY <1>2 DEF BeginRound
  <1>3. CASE CallerCancels
    BY <1>3 DEF CallerCancels
  <1>4. CASE SourceReads
    BY <1>4 DEF SourceReads, Canceled
  <1>5. CASE SourceReplies
    BY <1>5 DEF SourceReplies, Canceled
  <1>6. CASE Validates
    BY <1>6 DEF Validates
  <1>7. CASE OpenWatcher
    BY <1>7 DEF OpenWatcher, Canceled
  <1>8. CASE OpenWatcherLate
    BY <1>8 DEF OpenWatcherLate, Canceled
  <1>9. CASE LaunchWatchers
    BY <1>9 DEF LaunchWatchers, Canceled
  <1>10. CASE Ready
    BY <1>10 DEF Ready, Pump, DrainStarted
  <1>11. CASE NotReady
    BY <1>11 DEF NotReady, LoadFails, StopAccepted, DrainStarted
  <1>12. CASE LoadEnds
    BY <1>12 DEF LoadEnds, Settle, StopsSettled
  <1>13. CASE ReloadPublishes
    BY <1>13 DEF ReloadPublishes, Pump
  <1>14. CASE RoundFails
    BY <1>14 DEF RoundFails, Fail, LoadFails, ReloadFails, Pump, StopAccepted, DrainStarted
  <1>15. CASE RoundCanceled
    BY <1>15 DEF RoundCanceled, Canceled, LoadFails, ReloadFails, Pump, StopAccepted, DrainStarted
  <1>16. CASE RetryFires
    BY <1>16 DEF RetryFires, Pump
  <1>17. ASSUME NEW s \in Sources, SourceChanges(s) PROVE ReleaseInv'
    BY <1>17 DEF SourceChanges
  <1>18. ASSUME NEW s \in Sources, WatcherNext(s) PROVE ReleaseInv'
    BY <1>18 DEF WatcherNext, MarkDirty, Pump
  <1>19. ASSUME NEW s \in Sources, WatcherStops(s) PROVE ReleaseInv'
    BY <1>19 DEF WatcherStops
  <1>20. ASSUME NEW s \in Sources, WatcherFails(s) PROVE ReleaseInv'
    BY <1>20 DEF WatcherFails, Fail, BeginDrain
  <1>21. ASSUME NEW s \in Sources, NEW ok \in BOOLEAN, StopSettles(s, ok) PROVE ReleaseInv'
    BY <1>21 DEF StopSettles, Fail
  <1>22. CASE Close
    BY <1>22 DEF Close, BeginDrain, DrainStarted
  <1>23. CASE DrainQueue
    BY <1>23 DEF DrainQueue, StopAccepted
  <1>24. CASE DrainEnds
    BY <1>24 DEF DrainEnds, Settle, StopsSettled
  <1>25. CASE UNCHANGED vars
    BY <1>25 DEF vars
  <1> QED
    BY <1>1, <1>2, <1>3, <1>4, <1>5, <1>6, <1>7, <1>8, <1>9, <1>10, <1>11, <1>12, <1>13,
       <1>14, <1>15, <1>16, <1>17, <1>18, <1>19, <1>20, <1>21, <1>22, <1>23, <1>24, <1>25
    DEF Next, Progress, Environment

-----------------------------------------------------------------------------
(* The changes reported. *)

\* No watcher reports more than its source has; during the load what it reported is in the
\* candidate or, once the loops run, marked dirty.
SeenInv ==
    /\ \A s \in Sources : seen[s] <= version[s]
    /\ state = "idle" => \A s \in Sources : seen[s] = Unread
    /\ state = "loading" =>
           \A s \in Sources : \/ seen[s] = Unread
                              \/ pc \in {"open", "launched"} /\ snap[s] >= seen[s]
                              \/ pc = "launched" /\ dirty
    /\ ChangeAccountedFor

\* Every action keeps the changes accounted for.
LEMMA SeenNext ==
    ASSUME Types, PhaseInv, ReadInv, ReleaseInv, SeenInv, [Next]_vars
    PROVE  SeenInv'
  <1> USE ConfigAssumption DEF SeenInv, ChangeAccountedFor, ReadInv, PhaseInv, Types, JobPc,
          Sources, Version, Unread, srcVars, jobVars, ctxVars, reloadVars, watchVars, endVars
  <1>1. ASSUME NEW pre \in BOOLEAN, Load(pre) PROVE SeenInv'
    BY <1>1 DEF Load, Settle
  <1>2. CASE BeginRound
    BY <1>2 DEF BeginRound
  <1>3. CASE CallerCancels
    BY <1>3 DEF CallerCancels
  <1>4. CASE SourceReads
    BY <1>4 DEF SourceReads, Canceled
  <1>5. CASE SourceReplies
    BY <1>5 DEF SourceReplies, Canceled
  <1>6. CASE Validates
    BY <1>6 DEF Validates
  <1>7. CASE OpenWatcher
    <2>1. /\ state' = state /\ pc' = pc /\ snap' = snap /\ pc = "open" /\ state # "loaded"
          /\ \A t \in Sources : seen'[t] = seen[t] \/ seen'[t] = snap[t]
      BY <1>7 DEF OpenWatcher
    <2>2. version' = version /\ \A t \in Sources : seen'[t] <= version'[t]
      BY <1>7, <2>1, SMTT(30) DEF OpenWatcher
    <2>3. state = "loading" => \A t \in Sources : seen'[t] = Unread \/ snap'[t] >= seen'[t]
      <3>1. \A t \in Sources : {seen[t], snap[t]} \subseteq Int
        OBVIOUS
      <3> HAVE state = "loading"
      <3> TAKE t \in Sources
      <3>2. CASE seen'[t] = seen[t]
        BY <2>1, <3>2
      <3>3. CASE seen'[t] = snap[t]
        BY <2>1, <3>1, <3>3
      <3> QED
        BY <2>1, <3>2, <3>3
    <2> QED
      BY <2>1, <2>2, <2>3
  <1>8. CASE OpenWatcherLate
    BY <1>8 DEF OpenWatcherLate, Canceled
  <1>9. CASE LaunchWatchers
    BY <1>9 DEF LaunchWatchers, Canceled
  <1>10. CASE Ready
    <2>1. CASE DrainStarted
      BY <1>10, <2>1 DEF Ready, DrainStarted
    <2>2. CASE ~DrainStarted /\ dirty
      BY <1>10, <2>2 DEF Ready, DrainStarted, Pump
    <2>3. CASE ~DrainStarted /\ ~dirty
      <3>1. /\ state' = "loaded" /\ current' = snap /\ seen' = seen /\ version' = version
            /\ state = "loading"
        BY <1>10, <2>3 DEF Ready, DrainStarted
      <3>2. \A t \in Sources : current'[t] >= seen'[t]
        BY <1>10, <2>3, <3>1 DEF Ready
      <3> QED
        BY <3>1, <3>2
    <2> QED
      BY <2>1, <2>2, <2>3
  <1>11. CASE NotReady
    BY <1>11 DEF NotReady, LoadFails, StopAccepted, DrainStarted
  <1>12. CASE LoadEnds
    BY <1>12 DEF LoadEnds, Settle
  <1>13. CASE ReloadPublishes
    <2>1. CASE dirty
      BY <1>13, <2>1 DEF ReloadPublishes, Pump
    <2>2. CASE ~dirty
      BY <1>13, <2>2 DEF ReloadPublishes, Pump
    <2> QED
      BY <2>1, <2>2
  <1>14. CASE RoundFails
    BY <1>14 DEF RoundFails, Fail, LoadFails, ReloadFails, Pump, StopAccepted, DrainStarted
  <1>15. CASE RoundCanceled
    BY <1>15 DEF RoundCanceled, Canceled, LoadFails, ReloadFails, Pump, StopAccepted, DrainStarted
  <1>16. CASE RetryFires
    BY <1>16 DEF RetryFires, Pump
  <1>17. ASSUME NEW s \in Sources, SourceChanges(s) PROVE SeenInv'
    <2>1. \A t \in Sources : {version[t], version'[t], current[t], snap[t], seen[t]} \subseteq Int
      BY <1>17 DEF SourceChanges
    <2>2. \A t \in Sources : version'[t] >= version[t]
      BY <1>17 DEF SourceChanges
    <2>3. \A t \in Sources : /\ current[t] <= version'[t] /\ snap[t] <= version'[t]
                             /\ seen[t] <= version[t] => seen[t] <= version'[t]
      BY <2>1, <2>2, SMTT(30)
    <2> QED
      BY <1>17, <2>3 DEF SourceChanges
  <1>18. ASSUME NEW s \in Sources, WatcherNext(s) PROVE SeenInv'
    <2>1. \A t \in Sources : seen'[t] = seen[t] \/ seen'[t] = version[t]
      BY <1>18 DEF WatcherNext
    <2>2. CASE state = "loading"
      BY <1>18, <2>1, <2>2 DEF WatcherNext, MarkDirty, ReleaseInv
    <2>3. CASE state = "loaded"
      BY <1>18, <2>1, <2>3 DEF WatcherNext, MarkDirty, Pump
    <2>4. CASE state \notin {"loading", "loaded"}
      <3>1. state' = state /\ version' = version
        BY <1>18 DEF WatcherNext
      <3>i. \A t \in Sources : {seen[t], version[t]} \subseteq Int
        OBVIOUS
      <3>2. \A t \in Sources : seen'[t] <= version'[t]
        <4> TAKE t \in Sources
        <4>1. CASE seen'[t] = seen[t]
          BY <3>1, <4>1
        <4>2. CASE seen'[t] = version[t]
          BY <3>1, <3>i, <4>2
        <4> QED
          BY <2>1, <4>1, <4>2
      <3>3. state # "idle"
        BY <1>18, <2>1 DEF WatcherNext, ReleaseInv, Accepted
      <3> QED
        BY <2>4, <3>1, <3>2, <3>3
    <2> QED
      BY <2>2, <2>3, <2>4
  <1>19. ASSUME NEW s \in Sources, WatcherStops(s) PROVE SeenInv'
    BY <1>19 DEF WatcherStops
  <1>20. ASSUME NEW s \in Sources, WatcherFails(s) PROVE SeenInv'
    BY <1>20 DEF WatcherFails, Fail, BeginDrain
  <1>21. ASSUME NEW s \in Sources, NEW ok \in BOOLEAN, StopSettles(s, ok) PROVE SeenInv'
    BY <1>21 DEF StopSettles, Fail
  <1>22. CASE Close
    BY <1>22 DEF Close, BeginDrain, DrainStarted
  <1>23. CASE DrainQueue
    BY <1>23 DEF DrainQueue, StopAccepted
  <1>24. CASE DrainEnds
    BY <1>24 DEF DrainEnds, Settle
  <1>25. CASE UNCHANGED vars
    BY <1>25 DEF vars
  <1> QED
    BY <1>1, <1>2, <1>3, <1>4, <1>5, <1>6, <1>7, <1>8, <1>9, <1>10, <1>11, <1>12, <1>13,
       <1>14, <1>15, <1>16, <1>17, <1>18, <1>19, <1>20, <1>21, <1>22, <1>23, <1>24, <1>25
    DEF Next, Progress, Environment

-----------------------------------------------------------------------------
(* Dirty work, and the theorems. *)

\* Every action leaves dirty work to a round or to the retry timer.
LEMMA OwnerNext ==
    ASSUME Types, PhaseInv, DirtyHasOwner, [Next]_vars
    PROVE  DirtyHasOwner'
  <1> USE DEF DirtyHasOwner, PhaseInv, Types, srcVars, jobVars, ctxVars, reloadVars, watchVars,
          endVars
  <1>1. ASSUME NEW pre \in BOOLEAN, Load(pre) PROVE DirtyHasOwner'
    BY <1>1 DEF Load, Settle
  <1>2. CASE BeginRound
    BY <1>2 DEF BeginRound
  <1>3. CASE CallerCancels
    BY <1>3 DEF CallerCancels
  <1>4. CASE SourceReads
    BY <1>4 DEF SourceReads, Canceled
  <1>5. CASE SourceReplies
    BY <1>5 DEF SourceReplies, Canceled
  <1>6. CASE Validates
    BY <1>6 DEF Validates
  <1>7. CASE OpenWatcher
    BY <1>7 DEF OpenWatcher, Canceled
  <1>8. CASE OpenWatcherLate
    BY <1>8 DEF OpenWatcherLate, Canceled
  <1>9. CASE LaunchWatchers
    BY <1>9 DEF LaunchWatchers, Canceled
  <1>10. CASE Ready
    BY <1>10 DEF Ready, Pump, DrainStarted
  <1>11. CASE NotReady
    BY <1>11 DEF NotReady, LoadFails, StopAccepted, DrainStarted
  <1>12. CASE LoadEnds
    BY <1>12 DEF LoadEnds, Settle
  <1>13. CASE ReloadPublishes
    BY <1>13 DEF ReloadPublishes, Pump
  <1>14. CASE RoundFails
    BY <1>14 DEF RoundFails, Fail, LoadFails, ReloadFails, Pump, StopAccepted, DrainStarted
  <1>15. CASE RoundCanceled
    BY <1>15 DEF RoundCanceled, Canceled, LoadFails, ReloadFails, Pump, StopAccepted, DrainStarted
  <1>16. CASE RetryFires
    BY <1>16 DEF RetryFires, Pump
  <1>17. ASSUME NEW s \in Sources, SourceChanges(s) PROVE DirtyHasOwner'
    BY <1>17 DEF SourceChanges
  <1>18. ASSUME NEW s \in Sources, WatcherNext(s) PROVE DirtyHasOwner'
    BY <1>18 DEF WatcherNext, MarkDirty, Pump
  <1>19. ASSUME NEW s \in Sources, WatcherStops(s) PROVE DirtyHasOwner'
    BY <1>19 DEF WatcherStops
  <1>20. ASSUME NEW s \in Sources, WatcherFails(s) PROVE DirtyHasOwner'
    BY <1>20 DEF WatcherFails, Fail, BeginDrain
  <1>21. ASSUME NEW s \in Sources, NEW ok \in BOOLEAN, StopSettles(s, ok) PROVE DirtyHasOwner'
    BY <1>21 DEF StopSettles, Fail
  <1>22. CASE Close
    BY <1>22 DEF Close, BeginDrain, DrainStarted
  <1>23. CASE DrainQueue
    BY <1>23 DEF DrainQueue, StopAccepted
  <1>24. CASE DrainEnds
    BY <1>24 DEF DrainEnds, Settle
  <1>25. CASE UNCHANGED vars
    BY <1>25 DEF vars
  <1> QED
    BY <1>1, <1>2, <1>3, <1>4, <1>5, <1>6, <1>7, <1>8, <1>9, <1>10, <1>11, <1>12, <1>13,
       <1>14, <1>15, <1>16, <1>17, <1>18, <1>19, <1>20, <1>21, <1>22, <1>23, <1>24, <1>25
    DEF Next, Progress, Environment

IInv == Types /\ PhaseInv /\ ReadInv /\ ReleaseInv /\ SeenInv /\ DirtyHasOwner

\* A configuration that newConfig has just made satisfies the invariant.
LEMMA InitIInv == Init => IInv
  <1> SUFFICES ASSUME Init PROVE IInv
    OBVIOUS
  <1> USE ConfigAssumption DEF Init, Sources, Version, Unread, JobPc
  <1>1. Types
    <2>1. 0 \in Version /\ 1 \in 1 .. NumSources + 1 /\ 0 \in 0 .. MaxFailures
      OBVIOUS
    <2> HIDE DEF Version, Sources, Unread
    <2>2. {dirty, reloadActive, abnormal, cleanupErr} \subseteq BOOLEAN
      OBVIOUS
    <2> QED
      BY <2>1, <2>2 DEF Types
  <1>2. PhaseInv /\ ReadInv /\ DirtyHasOwner
    BY DEF PhaseInv, ReadInv, DirtyHasOwner
  <1>3. ReleaseInv /\ SeenInv
    BY DEF ReleaseInv, WatchersReleased, Accepted, SeenInv, ChangeAccountedFor
  <1> QED
    BY <1>1, <1>2, <1>3 DEF IInv

\* Every step of the event loop and of its environment keeps the invariant.
LEMMA NextIInv == IInv /\ [Next]_vars => IInv'
  BY TypesNext, PhaseNext, ReadNext, ReleaseNext, SeenNext, OwnerNext DEF IInv

\* IInv is an invariant of newConfig.
LEMMA Invariant == Spec => []IInv
  BY InitIInv, NextIInv, PTL DEF Spec

\* Every variable of newConfig keeps its type, for any number of sources.
THEOREM TypeCorrect == Spec => []TypeOK
  <1>1. IInv => TypeOK
    BY DEF IInv, Types, TypeOK
  <1> QED
    BY <1>1, Invariant, PTL

\* While loaded, no change a watcher has reported is lost, however the reports, the reload
\* rounds and their failures interleave (markDirty, pumpDirty, backgroundFailed).
THEOREM ChangeAccountedForTheorem == Spec => []ChangeAccountedFor
  <1>1. IInv => ChangeAccountedFor
    BY DEF IInv, SeenInv
  <1> QED
    BY <1>1, Invariant, PTL

\* Dirty work is always owned by a round in the queue or by the retry timer, and
\* reloadActive is set exactly while a reload is in the queue.
THEOREM DirtyHasOwnerTheorem == Spec => []DirtyHasOwner
  <1>1. IInv => DirtyHasOwner
    BY DEF IInv
  <1> QED
    BY <1>1, Invariant, PTL

\* done settles only after every accepted watcher's stop has settled, with no retry
\* pending; it fulfils only when no loop and no round is left (drainRuntime,
\* rollbackStartup).
THEOREM WatchersReleasedTheorem == Spec => []WatchersReleased
  <1>1. IInv => WatchersReleased
    BY DEF IInv, ReleaseInv
  <1> QED
    BY <1>1, Invariant, PTL

\* A publication is complete, comes before done settles and takes no source backwards.
THEOREM PublicationsOnlyAdvanceTheorem == Spec => PublicationsOnlyAdvance
  <1>1. ASSUME IInv, [Next]_vars, current' # current
        PROVE  /\ done = "pending"
               /\ \A s \in Sources : current'[s] >= current[s] /\ current'[s] # Unread
    <2> USE <1>1 DEF IInv
    <2>1. (Ready \/ ReloadPublishes) /\ current' = snap
      BY DEF Next, Progress, Environment, Load, BeginRound, CallerCancels, SourceReads,
             SourceReplies, Validates, OpenWatcher, OpenWatcherLate, LaunchWatchers, Ready,
             NotReady, LoadEnds, ReloadPublishes, RoundFails, RoundCanceled, RetryFires,
             SourceChanges, WatcherNext, WatcherStops, WatcherFails, StopSettles, Close,
             DrainQueue, DrainEnds, vars
    <2>2. /\ done = "pending" /\ \A s \in Sources : snap[s] # Unread
          /\ job = "load" \/ (job = "reload" /\ pc # "queued")
      BY <2>1 DEF Ready, ReloadPublishes, PhaseInv, ReadInv, Types
    <2>3. \A s \in Sources : snap[s] >= current[s]
      BY <2>2, ConfigAssumption DEF ReadInv, Types, Version, Unread
    <2> QED
      BY <2>1, <2>2, <2>3
  <1>2. IInv /\ [Next]_vars =>
          [current' # current =>
             /\ done = "pending"
             /\ \A s \in Sources : current'[s] >= current[s] /\ current'[s] # Unread]_vars
    BY <1>1
  <1> QED
    BY <1>2, Invariant, PTL DEF Spec, PublicationsOnlyAdvance
=============================================================================
