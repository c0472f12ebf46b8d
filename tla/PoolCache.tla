----------------------------- MODULE PoolCache -----------------------------
(***************************************************************************)
(* Persistence of the live pool: the debounced writer, the synchronous     *)
(* flush, the save that ends an update, the persist-then-publish protocol  *)
(* of deletions and exhaustive commits (pool.go), the generation filter of *)
(* poolCache.saveWithHealthState, crashes, and the load at startup with    *)
(* its normalisation (poolcache.go, main.go).                              *)
(*                                                                         *)
(* A snapshot is captured under p.mu and written later without it, so a    *)
(* writer is a record of the generation and data it captured.  poolCache's *)
(* own mutex makes one action of each save.  A node is abstracted to its   *)
(* health status and, as history, the criterion that status was measured   *)
(* under and whether the pass of that criterion ended without judging it.  *)
(* Criterion numbers stand for (check URL, policy fingerprint) pairs.      *)
(***************************************************************************)
EXTENDS Naturals, FiniteSets

CONSTANTS Node,            \* endpoints
          Writer,          \* concurrent snapshot writers (flush, update, timer)
          DeleteAttempts,  \* maxPoolDeletePersistAttempts
          MaxCacheGen,     \* bound on cacheGeneration within one process life
          MaxCrit          \* bound on criterion changes

ASSUME DeleteAttemptsAssumption == DeleteAttempts \in Nat \ {0}
ASSUME BoundsAssumption == MaxCacheGen \in Nat \ {0} /\ MaxCrit \in Nat

VARIABLES
    live,       \* the pool in memory: nodes, criterion, pending guard
    judging,    \* the criterion the current healthGeneration stands for
    cacheGen,   \* p.cacheGeneration
    timer,      \* p.persistTimer is armed
    writer,     \* snapshots captured and not yet saved
    del,        \* the deletion or exhaustive commit that holds deleteMu
    disk,       \* pool_cache.json
    lastGen,    \* poolCache.lastGeneration; 0 = hasLastGeneration is false
    storeCrit,  \* the criterion in the configuration store
    gone,       \* history: deletions reported successful, not re-admitted
    excused     \* history: startup or a failed save left the disk behind

history == <<gone, excused>>
vars == <<live, judging, cacheGen, timer, writer, del, disk, lastGen, storeCrit, history>>

(* absent from the pool; available; unavailable but hard routable; waiting *)
(* for the exhaustive recheck; terminally failed.                          *)
Status == {"absent", "up", "soft", "owed", "down"}
Entry == [st : Status, crit : 0 .. MaxCrit, spared : BOOLEAN]
Absent == [st |-> "absent", crit |-> 0, spared |-> FALSE]
Judged(st, crit) == [st |-> st, crit |-> crit, spared |-> FALSE]

(* What a snapshot holds; torn (history): it was captured, or loaded from  *)
(* one captured, after SetRequireIPChangePolicy and before InvalidateHealth. *)
Data == [nodes : [Node -> Entry], crit : 0 .. MaxCrit, pending : BOOLEAN,
         torn : BOOLEAN]

NoNodes == [n \in Node |-> Absent]
EmptyData == [nodes |-> NoNodes, crit |-> 0, pending |-> FALSE, torn |-> FALSE]
Present(d) == {n \in Node : d.nodes[n].st # "absent"}

NoWrite == [phase |-> "idle", gen |-> 0, data |-> EmptyData, completes |-> FALSE]

(* A request to change the pool: what it asks for each node, and for an    *)
(* exhaustive commit the criterion it measured under.                      *)
Want == {"keep", "up", "down", "remove"}
NoRequest == [kind |-> "none", want |-> [n \in Node |-> "keep"], crit |-> 0]
NoDelete == [phase |-> "idle", req |-> NoRequest, gen |-> 0, data |-> EmptyData,
             tries |-> 0, dirty |-> FALSE]

Init ==
    /\ live = EmptyData
    /\ judging = 0
    /\ cacheGen = 0
    /\ timer = FALSE
    /\ writer = [w \in Writer |-> NoWrite]
    /\ del = NoDelete
    /\ disk = EmptyData
    /\ lastGen = 0
    /\ storeCrit = 0
    /\ gone = {}
    /\ excused = FALSE

-----------------------------------------------------------------------------
(* queuePersistenceLocked: a newer generation and a debounce timer.        *)
queuePersistence ==
    /\ cacheGen < MaxCacheGen
    /\ cacheGen' = cacheGen + 1
    /\ timer' = TRUE

(* A synchronous writer owns a generation and cancels the timer.           *)
ownGeneration ==
    /\ cacheGen < MaxCacheGen
    /\ cacheGen' = cacheGen + 1
    /\ timer' = FALSE

(* The snapshot of pool d under p.mu.                                      *)
Snapshot(d) == [d EXCEPT !.torn = @ \/ d.crit # judging]

Capture(g, d, completes) ==
    [phase |-> "saving", gen |-> g, data |-> Snapshot(d), completes |-> completes]

-----------------------------------------------------------------------------
(* Mutations of the live pool.                                             *)

(* A completed observation of a member under the current generation.       *)
Observe(n) ==
    /\ live.nodes[n].st # "absent"
    /\ \E st \in {"up", "down"} :
          live' = [live EXCEPT !.nodes[n] = Judged(st, judging)]
    /\ queuePersistence
    /\ UNCHANGED <<judging, writer, del, disk, lastGen, storeCrit, history>>

(* update: admit or delete, then save the snapshot in the same call.       *)
Update(w, n) ==
    /\ writer[w].phase = "idle"
    /\ \/ /\ live.nodes[n].st = "absent"
          /\ live' = [live EXCEPT !.nodes[n] = Judged("up", judging)]
          /\ gone' = gone \ {n}
       \/ /\ live.nodes[n].st # "absent"
          /\ live' = [live EXCEPT !.nodes[n] = Absent]
          /\ UNCHANGED gone
    /\ ownGeneration
    /\ writer' = [writer EXCEPT ![w] = Capture(cacheGen', live', FALSE)]
    /\ UNCHANGED <<judging, del, disk, lastGen, storeCrit, excused>>

(* The store is written (and durable) before the pool is told of it.       *)
ChangeCriterion ==
    /\ storeCrit < MaxCrit
    /\ storeCrit' = storeCrit + 1
    /\ UNCHANGED <<live, judging, cacheGen, timer, writer, del, disk, lastGen, history>>

(* The policy fingerprint is replaced in a critical section of its own:    *)
(* no node is invalidated, no write is queued and the generation stays.    *)
SetRequireIPChangePolicy ==
    /\ live.crit # storeCrit
    /\ live' = [live EXCEPT !.crit = storeCrit]
    /\ UNCHANGED <<judging, cacheGen, timer, writer, del, disk, lastGen, storeCrit,
                   history>>

Invalidated(d, crit) ==
    [nodes |-> [n \in Node |-> IF d.nodes[n].st \in {"up", "soft", "owed"}
                               THEN [d.nodes[n] EXCEPT !.st = "owed", !.spared = FALSE]
                               ELSE d.nodes[n]],
     crit |-> crit, pending |-> TRUE, torn |-> FALSE]

(* A new generation: of the criterion the policy change left, or of one    *)
(* whose check URL the call itself brings.                                 *)
InvalidateHealth ==
    /\ \E c \in {live.crit, storeCrit} :
          /\ c # judging
          /\ live' = Invalidated(live, c)
          /\ judging' = c
    /\ queuePersistence
    /\ UNCHANGED <<writer, del, disk, lastGen, storeCrit, history>>

(* The pool after a pass: the guard is cleared whether or not every node   *)
(* got its verdict (a speed test under way keeps a node out of the pass).  *)
Completed(d) ==
    [d EXCEPT !.pending = FALSE,
              !.nodes = [n \in Node |-> [d.nodes[n] EXCEPT
                                           !.spared = @ \/ d.nodes[n].st = "owed"]]]

(* The exhaustive pass of the current generation ended: clear the guard.   *)
(* The worker flushes next, in a critical section of its own.              *)
CompleteHealthRecheck(w) ==
    /\ writer[w].phase = "idle"
    /\ IF live.pending
       THEN live' = Completed(live) /\ queuePersistence
       ELSE UNCHANGED <<live, cacheGen, timer>>
    /\ writer' = [writer EXCEPT ![w].phase = "toflush", ![w].completes = TRUE]
    /\ UNCHANGED <<judging, del, disk, lastGen, storeCrit, history>>

-----------------------------------------------------------------------------
(* The writers.                                                            *)
FlushCache(w) ==
    /\ writer[w].phase \in {"idle", "toflush"}
    /\ ownGeneration
    /\ writer' = [writer EXCEPT ![w] = Capture(cacheGen', live, @.completes)]
    /\ UNCHANGED <<live, judging, del, disk, lastGen, storeCrit, history>>

(* The debounced writer takes the current generation without a new one.    *)
flushScheduledPersistence(w) ==
    /\ timer
    /\ writer[w].phase = "idle"
    /\ timer' = FALSE
    /\ writer' = [writer EXCEPT ![w] = Capture(cacheGen, live, FALSE)]
    /\ UNCHANGED <<live, judging, cacheGen, del, disk, lastGen, storeCrit, history>>

(* Wrong on purpose: no generation filter. *)
StaleWriteMutant(g) == FALSE

(* saveWithHealthState ignores a generation that is not newer.             *)
StaleWrite(g) == lastGen > 0 /\ g <= lastGen

(* The three ways a save ends.  A failure may come before the rename (disk *)
(* as it was) or after it, when the directory cannot be synced (disk new); *)
(* in both cases lastGeneration is not advanced.                           *)
SaveSucceeds(g, d) ==
    IF StaleWrite(g) THEN UNCHANGED <<disk, lastGen, excused>>
    ELSE disk' = d /\ lastGen' = g /\ excused' = (excused /\ g < cacheGen)

SaveFails(g, d) ==
    /\ ~StaleWrite(g)
    /\ disk' \in {disk, d}
    /\ excused' = TRUE
    /\ UNCHANGED lastGen

(* The worker that completed the recheck restores the guard when its flush *)
(* fails; the other writers report or ignore the error.                    *)
Save(w) ==
    /\ writer[w].phase = "saving"
    /\ \/ /\ SaveSucceeds(writer[w].gen, writer[w].data)
          /\ UNCHANGED live
       \/ /\ SaveFails(writer[w].gen, writer[w].data)
          /\ live' = [live EXCEPT !.pending = @ \/ writer[w].completes]
    /\ writer' = [writer EXCEPT ![w] = NoWrite]
    /\ UNCHANGED <<judging, cacheGen, timer, del, storeCrit, gone>>

-----------------------------------------------------------------------------
(* Persist, then publish: ClearUnavailable, RemoveKeys and                 *)
(* commitFullHealthRecheckContext, serialised by deleteMu.                 *)
StartRequest(kind, want, crit) ==
    del' = [NoDelete EXCEPT !.phase = "plan",
              !.req = [kind |-> kind, want |-> want, crit |-> crit]]

DeleteRequest ==
    /\ del.phase = "idle"
    /\ \/ \E w \in [Node -> {"keep", "remove"}] : StartRequest("keys", w, 0)
       \/ StartRequest("clear", NoRequest.want, 0)
       \/ \E w \in [Node -> Want] :
             /\ \A n \in Node : w[n] # "keep" <=> n \in Present(live)
             /\ StartRequest("full", w, judging)
    /\ UNCHANGED <<live, judging, cacheGen, timer, writer, disk, lastGen, storeCrit,
                   history>>

(* The members of pool d that a request concerns, and those it removes:    *)
(* wanted keys, every node not available, nodes at their third strike.     *)
Concerned(req, d) ==
    {n \in Present(d) : IF req.kind = "clear" THEN d.nodes[n].st # "up"
                        ELSE req.want[n] # "keep"}
Removed(req, d) ==
    {n \in Concerned(req, d) : req.kind = "clear" \/ req.want[n] = "remove"}

(* The pool a request turns d into.                                        *)
Planned(req, d) ==
    [n \in Node |-> CASE n \in Removed(req, d) -> Absent
                     [] n \in Concerned(req, d) \ Removed(req, d) ->
                          Judged(req.want[n], req.crit)
                     [] OTHER -> d.nodes[n]]

RequestCurrent(req) == req.kind = "full" => req.crit = judging

(* Leave the protocol, repairing the disk first if an attempt was written. *)
Repair == [NoDelete EXCEPT !.phase = "repair"]

Leave == IF del.dirty THEN Repair ELSE NoDelete

(* Nothing left to do: a deletion repairs the disk, an exhaustive commit   *)
(* that finds none of its nodes returns as it is.                          *)
LeaveEmpty == IF del.req.kind = "full" THEN NoDelete ELSE Leave

buildDeletePlan ==
    /\ del.phase = "plan"
    /\ IF RequestCurrent(del.req) /\ Concerned(del.req, live) # {}
       THEN /\ ownGeneration
            /\ del' = [del EXCEPT !.phase = "saving", !.gen = cacheGen',
                         !.data = [Snapshot(live) EXCEPT !.nodes = Planned(del.req, live)]]
       ELSE /\ del' = IF RequestCurrent(del.req) THEN LeaveEmpty ELSE Leave
            /\ UNCHANGED <<cacheGen, timer>>
    /\ UNCHANGED <<live, judging, writer, disk, lastGen, storeCrit, history>>

(* Wrong on purpose: the write that the plan took over is forgotten. *)
RequeueMutant == UNCHANGED <<cacheGen, timer>>

(* requeuePersistenceAfterDeleteFailure: the plan cancelled the debounce   *)
(* timer, so an abandoned plan must arm it again.                          *)
requeuePersistence ==
    IF cacheGen = del.gen THEN queuePersistence ELSE UNCHANGED <<cacheGen, timer>>

(* The context of an exhaustive commit is cancelled: seen before a plan,   *)
(* before its save, or before its publication.                             *)
CancelFull ==
    /\ del.req.kind = "full"
    /\ \/ /\ del.phase \in {"plan", "saved"}
          /\ UNCHANGED <<cacheGen, timer>>
       \/ /\ del.phase = "saving"
          /\ requeuePersistence
    /\ del' = Leave
    /\ UNCHANGED <<live, judging, writer, disk, lastGen, storeCrit, history>>

DeleteSave ==
    /\ del.phase = "saving"
    /\ \/ /\ SaveSucceeds(del.gen, del.data)
          /\ del' = [del EXCEPT !.phase = "saved", !.dirty = TRUE]
          /\ UNCHANGED <<cacheGen, timer>>
       \/ /\ SaveFails(del.gen, del.data)
          /\ requeuePersistence
          /\ del' = Repair
    /\ UNCHANGED <<live, judging, writer, storeCrit, gone>>

(* Wrong on purpose: publishes over concurrent changes. *)
PublishMutant == TRUE

(* Publish only what was persisted from the state that is still current.   *)
PublishCurrent == cacheGen = del.gen /\ RequestCurrent(del.req)

(* Wrong on purpose: one attempt too many. *)
AttemptsMutant == del.tries < DeleteAttempts

(* The loop over maxPoolDeletePersistAttempts.                             *)
AttemptsLeft == del.tries + 1 < DeleteAttempts

publishDeletePlan ==
    /\ del.phase = "saved"
    /\ IF PublishCurrent
       THEN /\ live' = [live EXCEPT !.nodes = del.data.nodes]
            /\ gone' = gone \cup Removed(del.req, live)
            /\ del' = NoDelete
       ELSE /\ del' = IF AttemptsLeft
                      THEN [NoDelete EXCEPT !.phase = "plan", !.req = del.req,
                              !.tries = del.tries + 1, !.dirty = TRUE]
                      ELSE Repair
            /\ UNCHANGED <<live, gone>>
    /\ UNCHANGED <<judging, cacheGen, timer, writer, disk, lastGen, storeCrit, excused>>

(* restoreLiveStateToCaches: rewrite the live pool over an abandoned       *)
(* attempt; it bumps the generation but does not touch the timer.          *)
restoreLiveState ==
    /\ del.phase = "repair"
    /\ cacheGen < MaxCacheGen
    /\ cacheGen' = cacheGen + 1
    /\ del' = [del EXCEPT !.phase = "restoring", !.gen = cacheGen',
                 !.data = Snapshot(live)]
    /\ UNCHANGED <<live, judging, timer, writer, disk, lastGen, storeCrit, history>>

RestoreSave ==
    /\ del.phase = "restoring"
    /\ SaveSucceeds(del.gen, del.data) \/ SaveFails(del.gen, del.data)
    /\ del' = NoDelete
    /\ UNCHANGED <<live, judging, cacheGen, timer, writer, storeCrit, gone>>

-----------------------------------------------------------------------------
(* Wrong on purpose: trusts a cache whose recheck was still pending. *)
NormalizeMutant(d) ==
    [n \in Node |->
        CASE d.nodes[n].st = "down" -> Absent
          [] d.nodes[n].st = "owed" -> [d.nodes[n] EXCEPT !.st = "soft"]
          [] OTHER -> d.nodes[n]]

(* loadWithHealthState: terminal nodes are dropped, and a non-terminal     *)
(* invalidation of a completed recheck becomes plain unavailability.       *)
Normalize(d) ==
    [n \in Node |->
        CASE d.nodes[n].st = "down" -> Absent
          [] d.nodes[n].st = "owed" /\ ~d.pending -> [d.nodes[n] EXCEPT !.st = "soft"]
          [] OTHER -> d.nodes[n]]

(* Startup: prime from the cache, invalidate when it was measured under    *)
(* another criterion, else restore its guard; in both cases flush.         *)
(* A flush for retired sources is a FlushCache.                            *)
Primed(d) == [d EXCEPT !.nodes = Normalize(d), !.crit = storeCrit]
CriterionChanged(d) == Present(Primed(d)) # {} /\ d.crit # storeCrit
Startup(d) ==
    CASE Present(Primed(d)) = {} -> [EmptyData EXCEPT !.crit = storeCrit]
      [] CriterionChanged(d) -> Invalidated(Primed(d), storeCrit)
      [] OTHER -> Primed(d)
MustFlush(d) == CriterionChanged(d) \/ Startup(d).pending

(* The process dies, and its successor loads the cache.                    *)
Restart ==
    /\ live' = Startup(disk)
    /\ judging' = storeCrit
    /\ cacheGen' = IF CriterionChanged(disk) THEN 1 ELSE 0
    /\ timer' = FALSE
    /\ \E W \in SUBSET Writer :
          /\ Cardinality(W) <= 1
          /\ MustFlush(disk) <=> W # {}
          /\ writer' = [w \in Writer |->
                IF w \in W THEN [NoWrite EXCEPT !.phase = "toflush"] ELSE NoWrite]
    /\ del' = NoDelete
    /\ lastGen' = 0
    /\ excused' = TRUE
    /\ UNCHANGED <<disk, storeCrit, gone>>

-----------------------------------------------------------------------------
Next ==
    \/ \E n \in Node : Observe(n)
    \/ \E w \in Writer : \/ \E n \in Node : Update(w, n)
                         \/ CompleteHealthRecheck(w)
                         \/ FlushCache(w)
                         \/ flushScheduledPersistence(w)
                         \/ Save(w)
    \/ ChangeCriterion \/ SetRequireIPChangePolicy \/ InvalidateHealth
    \/ DeleteRequest \/ buildDeletePlan \/ DeleteSave \/ publishDeletePlan
    \/ CancelFull \/ restoreLiveState \/ RestoreSave
    \/ Restart

Spec == Init /\ [][Next]_vars

-----------------------------------------------------------------------------
(* Properties.                                                             *)

WriterType(g) == [phase : {"idle", "toflush", "saving"}, gen : 0 .. g,
                  data : Data, completes : BOOLEAN]
RequestType == [kind : {"none", "keys", "clear", "full"}, want : [Node -> Want],
                crit : 0 .. MaxCrit]
DelType(g) == [phase : {"idle", "plan", "saving", "saved", "repair", "restoring"},
               req : RequestType, gen : 0 .. g, data : Data,
               tries : 0 .. DeleteAttempts - 1, dirty : BOOLEAN]

(* The shape of the state; a saved generation was handed out by the pool.  *)
TypeOK ==
    /\ live \in Data /\ disk \in Data
    /\ cacheGen \in 0 .. MaxCacheGen
    /\ timer \in BOOLEAN
    /\ writer \in [Writer -> WriterType(cacheGen)]
    /\ del \in DelType(cacheGen)
    /\ lastGen \in 0 .. cacheGen
    /\ judging \in 0 .. MaxCrit /\ storeCrit \in 0 .. MaxCrit
    /\ gone \subseteq Node /\ excused \in BOOLEAN

(* A deletion the operator was told succeeded is final: no debounced       *)
(* write, racing flush, older snapshot, failed save or crash brings the    *)
(* node back, in memory or on disk.                                        *)
DeletedStaysDeleted ==
    \A n \in gone : n \notin Present(live) /\ n \notin Present(disk)

(* Whatever was on disk when the process died, a routable node was judged  *)
(* under the criterion that is in force.  Two windows of the code are      *)
(* excused: a node that a pass of this criterion ended without judging     *)
(* (CompleteHealthRecheck asks nothing of the nodes), and a process that   *)
(* started from a snapshot captured between SetRequireIPChangePolicy and   *)
(* InvalidateHealth, until its next invalidation.                          *)
RoutableAfterRestart ==
    \A n \in Node : live.nodes[n].st \in {"up", "soft"} =>
        \/ live.nodes[n].crit = judging
        \/ live.nodes[n].spared
        \/ live.torn

(* Publishing a plan loses no observation, admission or criterion change   *)
(* made while the plan was being written: the result is the request        *)
(* applied to the pool as it is now.                                       *)
PublishLosesNothing ==
    [][del.phase = "saved" /\ live'.nodes # live.nodes /\ lastGen' = lastGen
         /\ writer' = writer /\ cacheGen' = cacheGen
         => live'.nodes = Planned(del.req, live)]_vars

(* No change is forgotten: once no timer is armed and no write is under    *)
(* way, the disk holds the live pool, unless a save has failed since or    *)
(* the process has only just started.  (The guard is left out:             *)
(* RestoreHealthRecheckPending raises it without queueing a write; so is   *)
(* a criterion whose invalidation is still to come, for the same reason.)  *)
ChangesReachDisk ==
    /\ ~timer
    /\ ~excused
    /\ del.phase = "idle"
    /\ \A w \in Writer : writer[w].phase = "idle"
    => disk.nodes = live.nodes /\ (live.crit = judging => disk.crit = judging)
=============================================================================
