----------------------------- MODULE ProxyPool -----------------------------
(***************************************************************************)
(* The retained forwarding pool of pool.go: which endpoints it holds, the  *)
(* routing bits and durable health statistics of each, and every worker    *)
(* and handler that reads or writes them: the exhaustive and the bounded   *)
(* recheck, the two refreshes and the candidate batch of main.go and       *)
(* candidate_check_operation.go, the candidate speed test, manual          *)
(* verification, the proxy server's failure feedback, the criterion        *)
(* change, the source toggle and the two operator deletions.               *)
(*                                                                         *)
(* A network check takes time and holds no pool lock, so a worker reads    *)
(* the health generation, probes, and publishes later under p.mu.  Each    *)
(* worker is a record of what it captured; p.mu makes one action of each   *)
(* critical section.  Workers that hold healthCycleMu share "cycle".       *)
(*                                                                         *)
(* Left to other modules: persistence (PoolCache), the queue of recheck    *)
(* operations (HealthRecheck), candidate leases.  Here any endpoint the    *)
(* pool does not know may be pending, and any of FailedNode may be in the  *)
(* failed collection.  Time-dependent eligibility (the 24 h cooldown) is   *)
(* a free choice; cancelling a worker is the Abandon action.               *)
(***************************************************************************)
EXTENDS Naturals, FiniteSets

CONSTANTS Node,       \* endpoints, identified by Proxy.Key()
          SpeedNode,  \* the endpoints an operator speed-tests as candidates
          FailedNode, \* endpoints whose key may sit in the failed collection
          Source,     \* configured source IDs
          Observer,   \* concurrent per-node observers (connections, verifies)
          MaxGen      \* bound on criterion changes

ASSUME SpeedNodeAssumption == SpeedNode \subseteq Node
ASSUME FailedNodeAssumption == FailedNode \subseteq Node
ASSUME MaxGenAssumption == MaxGen \in Nat

VARIABLES
    pool,       \* keys of p.proxies
    px,         \* routing bits and SourceIDs of each pool member
    stats,      \* health part of p.stats: terminal failure, full-recheck streak
    tracked,    \* keys of p.stats
    gen,        \* p.healthGeneration
    pending,    \* p.healthRecheckPending, the destructive-maintenance guard
    enabled,    \* enabled sources of the ConfigStore
    lagging,    \* history: disabled since the pool last applied the sources
    editing,    \* a source change between store and pool: sourceLifecycleMu
    cycle,      \* the worker that holds healthCycleMu
    planned,    \* bounded-recheck targets chosen before healthCycleMu
    refresh,    \* a refresh that has leased candidates, before healthCycleMu
    speed,      \* the candidate speed test in flight
    obs,        \* the per-node observers
    clearing,   \* a clear-unavailable request past its guard
    evid        \* history: generation of each node's last usable success

health == <<pool, px, stats, tracked, evid>>
criterion == <<gen, pending>>
sources == <<enabled, lagging, editing>>
workers == <<cycle, planned, refresh, speed, obs, clearing>>
vars == <<health, criterion, sources, workers>>

-----------------------------------------------------------------------------
(* Outcomes of one network check: usable, reachable but excluded by the    *)
(* require-ip-change policy, unreachable.                                  *)
Outcome == {"alive", "policy", "down"}

fullRecheckFailureRemovalThreshold == 3

Proxy == [available : BOOLEAN, retired : BOOLEAN, invalidated : BOOLEAN,
          excluded : BOOLEAN, srcs : SUBSET Source]
NoProxy == [available |-> FALSE, retired |-> FALSE, invalidated |-> FALSE,
            excluded |-> FALSE, srcs |-> {}]

NodeStats == [terminal : BOOLEAN,
              fullFails : 0 .. fullRecheckFailureRemovalThreshold - 1]
NoStats == [terminal |-> FALSE, fullFails |-> 0]

proxyHardRoutable(p) == ~p.retired /\ ~p.invalidated /\ ~p.excluded

(* The routing bits a completed check writes into an existing entry.       *)
Unreachable(p) ==
    [p EXCEPT !.available = FALSE, !.invalidated = TRUE, !.excluded = FALSE]
(* Wrong on purpose: forgets retirement and the terminal failure. *)
ReachableMutant(p, allowed, terminal) ==
    [p EXCEPT !.available = allowed,
              !.invalidated = terminal, !.excluded = ~allowed]
Reachable(p, allowed, terminal) ==
    [p EXCEPT !.available = allowed /\ ~p.retired /\ ~terminal,
              !.invalidated = terminal, !.excluded = ~allowed]
PolicyFiltered(p) ==
    [p EXCEPT !.available = FALSE, !.invalidated = FALSE, !.excluded = TRUE]

(* A freshly admitted entry, owned by the sources S.                       *)
Fresh(S) == [available |-> TRUE, retired |-> FALSE, invalidated |-> FALSE,
             excluded |-> FALSE, srcs |-> S]

(* Wrong on purpose: one enabled source is enough to keep the entry.       *)
ApplySourcesMutant(p, S) ==
    IF p.srcs \cap S # {} THEN p
    ELSE [p EXCEPT !.retired = TRUE, !.available = FALSE]

(* applyEnabledSourcesLocked: one missing source retires the entry.        *)
ApplySources(p, S) ==
    IF p.srcs \subseteq S THEN p
    ELSE [p EXCEPT !.retired = TRUE, !.available = FALSE]

(* Wrong on purpose: skips terminal nodes, as the bounded recheck does.    *)
FullRecheckCandidatesMutant == {n \in pool : ~px[n].retired /\ ~stats[n].terminal}

(* Every node of an enabled source, whatever its health.                   *)
FullRecheckCandidates == {n \in pool : ~px[n].retired}

(* The nodes an automatic recheck may probe, cooldown aside.               *)
RecheckCandidates == {n \in pool : ~px[n].retired /\ ~stats[n].terminal}

CycleKind == {"idle", "bounded", "snapshot", "full", "committed", "flushing",
              "refresh", "source", "batch"}
NoProv == [n \in Node |-> {}]
Idle == [kind |-> "idle", gen |-> 0, targets |-> {}, prov |-> NoProv,
         srcs |-> {}]
NoRefresh == [kind |-> "idle", targets |-> {}, prov |-> NoProv, srcs |-> {}]
NoSpeed == [on |-> FALSE, nodes |-> {}, prov |-> {}, gen |-> 0]
NoObs == [kind |-> "idle", nodes |-> {}, gen |-> 0]

Init ==
    /\ pool = {}
    /\ px = [n \in Node |-> NoProxy]
    /\ stats = [n \in Node |-> NoStats]
    /\ tracked = {}
    /\ gen = 0
    /\ pending = FALSE
    /\ enabled = Source
    /\ lagging = {}
    /\ editing = FALSE
    /\ cycle = Idle
    /\ planned = {}
    /\ refresh = NoRefresh
    /\ speed = NoSpeed
    /\ obs = [o \in Observer |-> NoObs]
    /\ clearing = FALSE
    /\ evid = [n \in Node |-> 0]

-----------------------------------------------------------------------------
(* The pool's own critical sections, as updates of "health".               *)

(* Delete the members S.  A plan that removes something keeps only the     *)
(* statistics of the members that stay.                                    *)
Drop(S) ==
    /\ pool' = pool \ S
    /\ px' = [n \in Node |-> IF n \in S THEN NoProxy ELSE px[n]]
    /\ stats' = [n \in Node |-> IF n \in S THEN NoStats ELSE stats[n]]
    /\ tracked' = IF S = {} THEN tracked ELSE tracked \cap pool'
    /\ evid' = [n \in Node |-> IF n \in S THEN 0 ELSE evid[n]]

(* RecordResult: count the use of the nodes S.  It creates a missing entry *)
(* of p.stats and does not ask whether the pool still holds the key; the   *)
(* counters themselves only feed the score.                                *)
RecordResult(S) ==
    /\ tracked' = tracked \cup S
    /\ UNCHANGED <<pool, px, stats, evid>>

(* Wrong on purpose: accepts a result of an older generation. *)
StaleObservationMutant(n, out, g, manual) ==
    /\ n \in pool
    /\ out # "down" /\ stats[n].terminal => manual

(* Wrong on purpose: applies to a key the pool no longer holds. *)
OrphanObservationMutant(n, out, g, manual) ==
    /\ gen = g
    /\ out # "down" /\ stats[n].terminal => manual

(* Wrong on purpose: lets an automatic success revive a terminal node. *)
AutoReviveMutant(n, out, g, manual) ==
    /\ gen = g
    /\ n \in pool

(* observeHealthOutcome: an observation of node n under generation g.  A   *)
(* stale generation, an unknown key, or an automatic success on a terminal *)
(* node is ignored.                                                        *)
ObservationApplies(n, out, g, manual) ==
    /\ gen = g
    /\ n \in pool
    /\ out # "down" /\ stats[n].terminal => manual

observeHealthOutcome(n, out, g, manual) ==
    IF ObservationApplies(n, out, g, manual)
    THEN LET terminal == \/ out = "down"
                         \/ stats[n].terminal /\ out # "alive"
         IN  /\ px' = [px EXCEPT ![n] = IF out = "down" THEN Unreachable(@)
                                  ELSE Reachable(@, out = "alive", terminal)]
             /\ stats' = [stats EXCEPT ![n].terminal = terminal]
             /\ tracked' = tracked \cup {n}
             /\ evid' = [evid EXCEPT ![n] = IF out = "alive" THEN g ELSE @]
             /\ UNCHANGED pool
    ELSE UNCHANGED health

(* Wrong on purpose: one failure too many before removal. *)
FullRemovedMutant(T, out) ==
    {n \in T \cap pool : /\ out[n] = "down"
                         /\ stats[n].fullFails + 1
                              > fullRecheckFailureRemovalThreshold}

(* commitFullHealthRecheckContext: all observations out of the cycle at    *)
(* once; the third consecutive failure removes the node.                   *)
FullRemoved(T, out) ==
    {n \in T \cap pool : /\ out[n] = "down"
                         /\ stats[n].fullFails + 1
                              >= fullRecheckFailureRemovalThreshold}

commitFullHealthRecheck(T, out, g) ==
    LET removed == FullRemoved(T, out)
        observed == (T \cap pool) \ removed
    IN  /\ pool' = pool \ removed
        /\ px' = [n \in Node |->
              CASE n \in removed -> NoProxy
                [] n \in observed -> IF out[n] = "down" THEN Unreachable(px[n])
                                     ELSE Reachable(px[n], out[n] = "alive", FALSE)
                [] OTHER -> px[n]]
        /\ stats' = [n \in Node |->
              CASE n \in removed -> NoStats
                [] n \in observed -> IF out[n] = "down"
                       THEN [terminal |-> TRUE,
                             fullFails |-> stats[n].fullFails + 1]
                       ELSE NoStats
                [] OTHER -> stats[n]]
        /\ tracked' = (tracked \cup observed) \ removed
        /\ evid' = [n \in Node |->
              CASE n \in removed -> 0
                [] n \in observed /\ out[n] = "alive" -> g
                [] OTHER -> evid[n]]

(* update: publish one refresh or batch.  A terminal endpoint is not       *)
(* revived, an unreachable member is deleted, a policy-filtered member is  *)
(* excluded, and source retirement is applied under the same lock.         *)
update(T, out, prov, g) ==
    LET fresh == {n \in T : out[n] = "alive" /\ ~stats[n].terminal}
        removed == {n \in T \cap pool : out[n] = "down"}
        filtered == {n \in T \cap pool : out[n] = "policy"}
        merged(n) == CASE n \in fresh -> Fresh(prov[n])
                       [] n \in filtered -> PolicyFiltered(px[n])
                       [] OTHER -> px[n]
    IN  /\ pool' = (pool \cup fresh) \ removed
        /\ px' = [n \in Node |-> IF n \in pool'
                                 THEN ApplySources(merged(n), enabled)
                                 ELSE NoProxy]
        /\ stats' = [n \in Node |-> IF n \in removed THEN NoStats ELSE stats[n]]
        /\ tracked' = (tracked \cup fresh) \ removed
        /\ evid' = [n \in Node |-> CASE n \in fresh -> g
                                 [] n \in removed -> 0
                                 [] OTHER -> evid[n]]

-----------------------------------------------------------------------------
(* The exhaustive recheck: reCheckAllAliveContextWithWake.                 *)

(* Take healthCycleMu and list the nodes to probe.                         *)
FullSnapshot ==
    /\ cycle.kind = "idle"
    /\ cycle' = [Idle EXCEPT !.kind = "snapshot", !.targets = FullRecheckCandidates]
    /\ UNCHANGED <<health, criterion, sources, planned, refresh, speed, obs, clearing>>

(* Claim the operation: the generation is read only now.                   *)
FullClaim ==
    /\ cycle.kind = "snapshot"
    /\ cycle' = [cycle EXCEPT !.kind = "full", !.gen = gen]
    /\ UNCHANGED <<health, criterion, sources, planned, refresh, speed, obs, clearing>>

(* Every worker has returned and the generation is still current.          *)
FullCommit ==
    /\ cycle.kind = "full"
    /\ gen = cycle.gen
    /\ \E out \in [cycle.targets -> Outcome] :
          commitFullHealthRecheck(cycle.targets, out, cycle.gen)
    /\ cycle' = [Idle EXCEPT !.kind = "committed", !.gen = cycle.gen]
    /\ UNCHANGED <<criterion, sources, planned, refresh, speed, obs, clearing>>

(* Wrong on purpose: clears the guard whatever the generation. *)
FullCompleteMutant ==
    /\ cycle.kind = "committed"
    /\ pending' = FALSE
    /\ cycle' = [Idle EXCEPT !.kind = "flushing"]
    /\ UNCHANGED <<health, gen, sources, planned, refresh, speed, obs, clearing>>

(* CompleteHealthRecheck, a later critical section: clear the guard if the *)
(* generation is still the one of the pass.                                *)
FullComplete ==
    /\ cycle.kind = "committed"
    /\ IF gen = cycle.gen
       THEN /\ pending' = FALSE
            /\ cycle' = [Idle EXCEPT !.kind = "flushing"]
       ELSE /\ cycle' = Idle
            /\ UNCHANGED pending
    /\ UNCHANGED <<health, gen, sources, planned, refresh, speed, obs, clearing>>

(* FlushCache after the pass; its failure restores the guard.              *)
FullFlush ==
    /\ cycle.kind = "flushing"
    /\ pending' \in {pending, TRUE}
    /\ cycle' = Idle
    /\ UNCHANGED <<health, gen, sources, planned, refresh, speed, obs, clearing>>

-----------------------------------------------------------------------------
(* The bounded recheck: reCheckAliveContext evaluates its targets before   *)
(* it waits for healthCycleMu, and publishes node by node.                 *)
BoundedPlan ==
    /\ planned = {}
    /\ \E T \in SUBSET RecheckCandidates : T # {} /\ planned' = T
    /\ UNCHANGED <<health, criterion, sources, cycle, refresh, speed, obs, clearing>>

BoundedStart ==
    /\ cycle.kind = "idle"
    /\ planned # {}
    /\ cycle' = [Idle EXCEPT !.kind = "bounded", !.gen = gen, !.targets = planned]
    /\ planned' = {}
    /\ UNCHANGED <<health, criterion, sources, refresh, speed, obs, clearing>>

BoundedObserve ==
    /\ cycle.kind = "bounded"
    /\ \E n \in cycle.targets, out \in Outcome :
          /\ observeHealthOutcome(n, out, cycle.gen, FALSE)
          /\ cycle' = IF cycle.targets = {n} THEN Idle
                      ELSE [cycle EXCEPT !.targets = @ \ {n}]
    /\ UNCHANGED <<criterion, sources, planned, refresh, speed, obs, clearing>>

-----------------------------------------------------------------------------
(* Candidate checks: refreshPoolContext, refreshSourceContext and          *)
(* runSingleCandidateBatch.                                                *)

(* The sources a leased candidate is attributed to in the catalog.         *)
Provenance(T, S) ==
    {p \in [Node -> SUBSET S] : \A n \in Node : (p[n] # {}) = (n \in T)}

(* Fetch, publish the inventory, lease endpoints the pool does not know.   *)
(* A full refresh attributes to sources still enabled; a single-source     *)
(* refresh keeps attributions of every other configured source.            *)
RefreshLease ==
    /\ refresh.kind = "idle"
    /\ ~editing
    /\ enabled # {}
    /\ \E T \in SUBSET (Node \ pool) :
          /\ T # {}
          /\ \/ \E p \in Provenance(T, enabled) :
                   refresh' = [kind |-> "refresh", targets |-> T, prov |-> p,
                               srcs |-> {}]
             \/ \E s \in enabled, p \in Provenance(T, Source) :
                   /\ \A n \in T : s \in p[n]
                   /\ refresh' = [kind |-> "source", targets |-> T, prov |-> p,
                                  srcs |-> {s}]
    /\ UNCHANGED <<health, criterion, sources, cycle, planned, speed, obs, clearing>>

(* Obtain healthCycleMu and read the generation.                           *)
RefreshStart ==
    /\ cycle.kind = "idle"
    /\ refresh.kind # "idle"
    /\ cycle' = [kind |-> refresh.kind, gen |-> gen, targets |-> refresh.targets,
                 prov |-> refresh.prov, srcs |-> refresh.srcs]
    /\ refresh' = NoRefresh
    /\ UNCHANGED <<health, criterion, sources, planned, speed, obs, clearing>>

(* A batch leases under healthCycleMu: pending endpoints, or (failed_retry) *)
(* members of the failed collection, which the pool may know.              *)
BatchStart ==
    /\ cycle.kind = "idle"
    /\ ~editing
    /\ \E T \in (SUBSET (Node \ pool)) \cup (SUBSET FailedNode) :
       \E p \in Provenance(T, Source) :
          /\ T # {}
          /\ cycle' = [kind |-> "batch", gen |-> gen, targets |-> T, prov |-> p,
                       srcs |-> enabled]
    /\ UNCHANGED <<health, criterion, sources, planned, refresh, speed, obs, clearing>>

(* Final validation under sourceLifecycleMu, then the pool update.  A full *)
(* refresh withdraws attributions to sources no longer enabled; a source   *)
(* refresh needs its source, a batch the very same sources.                *)
ValidTargets ==
    {n \in cycle.targets : cycle.kind = "refresh" => cycle.prov[n] \cap enabled # {}}
ValidProv ==
    [n \in Node |-> IF cycle.kind = "refresh" THEN cycle.prov[n] \cap enabled
                    ELSE cycle.prov[n]]
SourcesStillValid ==
    /\ cycle.kind = "source" => cycle.srcs \subseteq enabled
    /\ cycle.kind = "batch" => cycle.srcs = enabled

CandidatePublish ==
    /\ cycle.kind \in {"refresh", "source", "batch"}
    /\ ~editing
    /\ gen = cycle.gen
    /\ SourcesStillValid
    /\ \E out \in [ValidTargets -> Outcome] :
          update(ValidTargets, out, ValidProv, cycle.gen)
    /\ cycle' = Idle
    /\ lagging' = {}
    /\ UNCHANGED <<criterion, enabled, editing, planned, refresh, speed, obs, clearing>>

(* A pass that is cancelled, superseded by a criterion or source change,   *)
(* or whose commit cannot be persisted publishes nothing and releases      *)
(* healthCycleMu.                                                          *)
CycleAbandon ==
    /\ cycle.kind \in {"snapshot", "full", "bounded", "refresh", "source", "batch"}
    /\ cycle' = Idle
    /\ UNCHANGED <<health, criterion, sources, planned, refresh, speed, obs, clearing>>

-----------------------------------------------------------------------------
(* speedtestCandidate: no healthCycleMu; reads the generation after the    *)
(* lease and promotes under sourceLifecycleMu.                             *)
SpeedStart ==
    /\ ~speed.on
    /\ \E n \in SpeedNode \ pool, S \in SUBSET Source :
          /\ S # {}
          /\ speed' = [on |-> TRUE, nodes |-> {n}, prov |-> S, gen |-> gen]
    /\ UNCHANGED <<health, criterion, sources, cycle, planned, refresh, obs, clearing>>

(* PromoteCandidateSpeed.                                                  *)
PromotionValid == speed.prov \subseteq enabled /\ gen = speed.gen

SpeedPromote ==
    /\ speed.on
    /\ ~editing
    /\ PromotionValid
    /\ pool' = pool \cup speed.nodes
    /\ px' = [n \in Node |-> IF n \in speed.nodes THEN Fresh(speed.prov) ELSE px[n]]
    /\ stats' = [n \in Node |-> IF n \in speed.nodes
                                THEN [stats[n] EXCEPT !.terminal = FALSE]
                                ELSE stats[n]]
    /\ tracked' = tracked \cup speed.nodes
    /\ evid' = [n \in Node |-> IF n \in speed.nodes THEN speed.gen ELSE evid[n]]
    /\ speed' = NoSpeed
    /\ UNCHANGED <<criterion, sources, cycle, planned, refresh, obs, clearing>>

(* The check failed, or the promotion was refused.                         *)
SpeedEnd ==
    /\ speed.on
    /\ speed' = NoSpeed
    /\ UNCHANGED <<health, criterion, sources, cycle, planned, refresh, obs, clearing>>

-----------------------------------------------------------------------------
(* Per-node observers.  A connection picks a routable node, then reads the *)
(* generation and dials; only a failure is a health observation.  A manual *)
(* verification reads the generation first and may recover a node.         *)
ServerPick(o) ==
    /\ obs[o].kind = "idle"
    /\ \E n \in pool :
          /\ proxyHardRoutable(px[n])
          /\ obs' = [obs EXCEPT ![o] = [kind |-> "picked", nodes |-> {n}, gen |-> 0]]
    /\ UNCHANGED <<health, criterion, sources, cycle, planned, refresh, speed, clearing>>

ServerDial(o) ==
    /\ obs[o].kind = "picked"
    /\ obs' = [obs EXCEPT ![o] = [@ EXCEPT !.kind = "dialing", !.gen = gen]]
    /\ UNCHANGED <<health, criterion, sources, cycle, planned, refresh, speed, clearing>>

(* The dial succeeded, or failed through the upstream's fault: record the  *)
(* use.  A failure goes on to its health observation, in a critical        *)
(* section of its own.                                                     *)
ServerRecord(o) ==
    /\ obs[o].kind = "dialing"
    /\ RecordResult(obs[o].nodes)
    /\ \/ obs' = [obs EXCEPT ![o] = NoObs]
       \/ obs' = [obs EXCEPT ![o].kind = "failed"]
    /\ UNCHANGED <<criterion, sources, cycle, planned, refresh, speed, clearing>>

ServerFail(o) ==
    /\ obs[o].kind = "failed"
    /\ \E n \in obs[o].nodes : observeHealthOutcome(n, "down", obs[o].gen, FALSE)
    /\ obs' = [obs EXCEPT ![o] = NoObs]
    /\ UNCHANGED <<criterion, sources, cycle, planned, refresh, speed, clearing>>

VerifyStart(o) ==
    /\ obs[o].kind = "idle"
    /\ \E n \in pool :
          obs' = [obs EXCEPT ![o] = [kind |-> "verify", nodes |-> {n}, gen |-> gen]]
    /\ UNCHANGED <<health, criterion, sources, cycle, planned, refresh, speed, clearing>>

VerifyFinish(o) ==
    /\ obs[o].kind = "verify"
    /\ \E n \in obs[o].nodes, out \in Outcome :
          observeHealthOutcome(n, out, obs[o].gen, TRUE)
    /\ obs' = [obs EXCEPT ![o] = NoObs]
    /\ UNCHANGED <<criterion, sources, cycle, planned, refresh, speed, clearing>>

(* A target-side refusal, a server that stops, a cancelled verification.   *)
ObserverEnd(o) ==
    /\ obs[o].kind \in {"dialing", "verify"}
    /\ obs' = [obs EXCEPT ![o] = NoObs]
    /\ UNCHANGED <<health, criterion, sources, cycle, planned, refresh, speed, clearing>>

-----------------------------------------------------------------------------
(* InvalidateHealth with a check URL, from a criterion or policy change.   *)
InvalidateHealth ==
    /\ gen < MaxGen
    /\ gen' = gen + 1
    /\ pending' = TRUE
    /\ px' = [n \in Node |-> IF n \in pool
                THEN [px[n] EXCEPT !.invalidated = TRUE, !.available = FALSE]
                ELSE px[n]]
    /\ stats' = [n \in Node |-> [stats[n] EXCEPT !.fullFails = 0]]
    /\ UNCHANGED <<pool, tracked, evid, sources, workers>>

(* Toggle or delete a source, holding sourceLifecycleMu.  The store's write *)
(* succeeds and the handler goes on to the pool, or its durability is      *)
(* uncertain: the configuration has changed and the handler returns the    *)
(* error.                                                                  *)
ToggleSource(s) ==
    /\ ~editing
    /\ enabled' = IF s \in enabled THEN enabled \ {s} ELSE enabled \cup {s}
    /\ lagging' = (lagging \cup {s}) \ enabled'
    /\ editing' \in BOOLEAN
    /\ UNCHANGED <<health, criterion, workers>>

ApplyEnabledSources ==
    /\ editing
    /\ px' = [n \in Node |-> IF n \in pool THEN ApplySources(px[n], enabled)
                             ELSE px[n]]
    /\ lagging' = {}
    /\ editing' = FALSE
    /\ UNCHANGED <<pool, stats, tracked, evid, enabled, criterion, workers>>

RemoveKeys ==
    /\ \E n \in pool : Drop({n})
    /\ UNCHANGED <<criterion, sources, workers>>

(* handleNodesClearUnavailable: the guard and the purge are two critical   *)
(* sections.                                                               *)
ClearCheck ==
    /\ ~clearing
    /\ ~pending
    /\ clearing' = TRUE
    /\ UNCHANGED <<health, criterion, sources, cycle, planned, refresh, speed, obs>>

ClearUnavailable ==
    /\ clearing
    /\ clearing' = FALSE
    /\ Drop({n \in pool : ~px[n].available})
    /\ UNCHANGED <<criterion, sources, cycle, planned, refresh, speed, obs>>

-----------------------------------------------------------------------------
Next ==
    \/ FullSnapshot \/ FullClaim \/ FullCommit \/ FullComplete \/ FullFlush
    \/ BoundedPlan \/ BoundedStart \/ BoundedObserve
    \/ RefreshLease \/ RefreshStart \/ BatchStart \/ CandidatePublish
    \/ CycleAbandon
    \/ SpeedStart \/ SpeedPromote \/ SpeedEnd
    \/ \E o \in Observer : \/ ServerPick(o) \/ ServerDial(o)
                           \/ ServerRecord(o) \/ ServerFail(o)
                           \/ VerifyStart(o) \/ VerifyFinish(o)
                           \/ ObserverEnd(o)
    \/ InvalidateHealth
    \/ \E s \in Source : ToggleSource(s)
    \/ ApplyEnabledSources
    \/ RemoveKeys \/ ClearCheck \/ ClearUnavailable

Spec == Init /\ [][Next]_vars

-----------------------------------------------------------------------------
(* Properties.                                                             *)

(* Every variable has the shape the code gives it; in particular a retained *)
(* node's full-recheck streak stays below the removal threshold and no     *)
(* worker holds a generation the pool has not reached.                     *)
TypeOK ==
    /\ pool \subseteq Node
    /\ px \in [Node -> Proxy]
    /\ stats \in [Node -> NodeStats]
    /\ tracked \subseteq Node
    /\ \A n \in Node \ tracked : stats[n] = NoStats
    /\ gen \in 0 .. MaxGen
    /\ pending \in BOOLEAN
    /\ enabled \subseteq Source /\ lagging \subseteq Source
    /\ editing \in BOOLEAN
    /\ cycle \in [kind : CycleKind, gen : 0 .. gen, targets : SUBSET Node,
                  prov : [Node -> SUBSET Source], srcs : SUBSET Source]
    /\ planned \subseteq Node
    /\ refresh \in [kind : {"idle", "refresh", "source"}, targets : SUBSET Node,
                    prov : [Node -> SUBSET Source], srcs : SUBSET Source]
    /\ speed \in [on : BOOLEAN, nodes : SUBSET SpeedNode, prov : SUBSET Source,
                  gen : 0 .. gen]
    /\ obs \in [Observer -> [kind : {"idle", "picked", "dialing", "failed", "verify"},
                             nodes : SUBSET Node, gen : 0 .. gen]]
    /\ clearing \in BOOLEAN
    /\ evid \in [Node -> 0 .. gen]

(* InvalidateHealth's promise: a success measured against an older health  *)
(* criterion never makes a node routable, whichever worker publishes it    *)
(* and however late.                                                       *)
EvidenceIsCurrent ==
    \A n \in pool : proxyHardRoutable(px[n]) => evid[n] = gen

(* The three routing bits agree with the durable state: an available node  *)
(* is hard routable, a terminal failure is not, for every interleaving of  *)
(* the workers that write only some of them.                               *)
RoutingBitsAgree ==
    \A n \in pool : /\ px[n].available => proxyHardRoutable(px[n])
                    /\ stats[n].terminal => ~proxyHardRoutable(px[n])

(* A node with a disabled source is retired, also when the source was      *)
(* disabled while a check of that node was in flight.  The one exception   *)
(* is a source disabled since the pool last applied the configuration: its *)
(* handler has yet to do so, or the store reported an uncertain write and  *)
(* the handler returned.  The next toggle, refresh or batch that succeeds  *)
(* retires its nodes.                                                      *)
DisabledSourceRetires ==
    \A n \in pool : ~px[n].retired => px[n].srcs \subseteq enabled \cup lagging

(* A deleted endpoint carries no verdict.  A connection that ends after    *)
(* the deletion recreates its entry of p.stats to count the use, and its   *)
(* health observation comes later still; neither leaves a terminal flag,   *)
(* which would make update refuse the endpoint for ever, nor a strike.     *)
NoOrphanVerdict ==
    \A n \in tracked \ pool : stats[n] = NoStats

(* A node whose result an exhaustive recheck still owes it.                *)
Owed(n) == /\ n \in pool
           /\ px[n].invalidated
           /\ ~px[n].retired
           /\ ~stats[n].terminal

(* When the maintenance guard is down, no endpoint admitted by a refresh   *)
(* or a batch is still waiting to be judged under the current criterion;   *)
(* this is what makes the cache's normalisation of completed state sound.  *)
GuardCoversChecked == ~pending => \A n \in Node \ SpeedNode : ~Owed(n)

(* Why: from the snapshot of its targets to its commit, a full recheck     *)
(* holds every such endpoint that is not retired, whatever deletions,      *)
(* verifications, toggles and criterion changes happen meanwhile; and once *)
(* it has committed under the current criterion it owes none.              *)
RecheckCoverage ==
    /\ cycle.kind \in {"snapshot", "full"} =>
          \A n \in pool \ SpeedNode : px[n].retired \/ n \in cycle.targets
    /\ cycle.kind = "committed" /\ cycle.gen = gen =>
          \A n \in Node \ SpeedNode : ~Owed(n)

(* The work that may recover node n from a terminal failure.               *)
ExplicitRecovery(n) ==
    \/ cycle.kind = "full"
    \/ \E o \in Observer : obs[o].kind = "verify" /\ n \in obs[o].nodes
    \/ n \in speed.nodes

(* Automatic work never revives a terminal failure: only the exhaustive    *)
(* recheck, a manual verification or a candidate speed test of that node   *)
(* makes it routable again.                                                *)
TerminalSurvivesAutomation ==
    [][\A n \in pool \cap pool' :
          stats[n].terminal /\ proxyHardRoutable(px'[n]) => ExplicitRecovery(n)]_vars

(* The purge of unavailable nodes never deletes while a criterion change   *)
(* still has its exhaustive recheck pending.                               *)
ClearRespectsGuard ==
    [][clearing /\ ~clearing' /\ pool' # pool => ~pending]_vars

(* Fairness for the background workers: each keeps being scheduled, and a  *)
(* refresh, a bounded recheck and a full recheck keep completing.          *)
Fairness ==
    /\ SF_vars(FullSnapshot) /\ SF_vars(FullClaim)
    /\ SF_vars(FullCommit) /\ WF_vars(FullComplete) /\ WF_vars(FullFlush)
    /\ WF_vars(BoundedPlan) /\ SF_vars(BoundedStart) /\ SF_vars(BoundedObserve)
    /\ WF_vars(RefreshLease) /\ SF_vars(RefreshStart)
    /\ SF_vars(CandidatePublish) /\ WF_vars(CycleAbandon)

FairSpec == Spec /\ Fairness

(* A retired endpoint all of whose sources are enabled again does not stay *)
(* retired for ever: some later refresh restores it (or it is deleted).    *)
(* Not kept by the code: README, section 3.                                *)
RetirementIsLifted ==
    \A n \in Node :
       ~<>[](n \in pool /\ px[n].retired /\ px[n].srcs \subseteq enabled)
=============================================================================
