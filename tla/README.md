# A TLA+ model of socks5-pool-pro

socks5-pool-pro scrapes SOCKS5/HTTP proxies from configured sources, checks
them, keeps the usable ones in a *forwarding pool*, and serves connections
through that pool. This directory models the parts in which concurrent workers,
request handlers, crashes and criterion changes meet. TLC checks small
instances; TLAPS proves every safety property of the runs for every instance.
Line numbers are those of `src/`.

    tlc -workers 2 -config PoolHealth.cfg MCProxyPool     # one run
    tlapm ProxyPoolProofs.tla                             # one proof module

## 1. Inventory

| Component | State | Operations | Correct when |
|---|---|---|---|
| Forwarding pool (`pool.go`) | `proxies`, `stats`, `healthGeneration`, `healthRecheckPending`, all under `p.mu` | `update`, `observeHealthOutcome`, `commitFullHealthRecheck`, `InvalidateHealth`, `CompleteHealthRecheck`, `ApplyEnabledSources`, `RemoveKeys`, `ClearUnavailable`, `PromoteCandidateSpeed` | a node is routable only on evidence measured under the criterion in force, from enabled sources, and not against a terminal failure |
| Pool persistence (`pool.go`, `poolcache.go`) | `cacheGeneration`, debounce timer, `lastGeneration`, `pool_cache.json` | debounced write, flush, save, persist-then-publish, load and normalise | a reported deletion is final; no change is forgotten; a restart never trusts evidence of another criterion |
| Exhaustive recheck queue (`refresh_coordinator.go`, `main.go`) | one pending and one active operation, a one-token channel | `triggerFullRecheck`, claim, finish, shutdown | no lost wake-up; the newest criterion gets its recheck; shutdown is final |
| Manual candidate checks (`candidate_check_operation.go`) | one slot, one cancel function, a one-token channel | enqueue, cancel, begin, register, chunk, finish, shutdown | the polled status is the slot's; accepted operations end; cancel interrupts |
| Refresh and source refresh (`refresh_coordinator.go`, `main.go`) | request queues, `sourceLifecycleMu`, `healthCycleMu` | fetch, lease, check, final validation, publish | nothing measured under revoked sources is published |
| Candidate catalog (`candidate_catalog.go`, `candidatecache.go`) | published snapshot, pending and failed records, leases | begin/complete refresh, lease, commit, release, restore | every lease ends exactly once; a checked candidate is not lost |
| Automatic rotation (`candidate_auto_check.go`) | cursor, pacing | one batch at a time | yields to operator work |
| Group selection (`pool.go`, `status_snapshot.go`) | a cursor per group: sticky key, pin, round-robin index, last node | `pick`, `forceSticky`, `SetAuto`, `rotateSticky`, cleaning by deletions | every pick is what one atomic pick would have answered; traffic never moves a pin |
| SOCKS5 server (`server.go`, `dial.go`) | connections | negotiate, pick, dial, retry, relay, shutdown | a failure is charged to the node under the generation it was dialled in |
| Listeners (`listener_manager.go`, `server.go`) | a server per listener, stop callbacks, fatal events | add, update, delete, reconcile, start, late stop, shutdown | the ports served are the ports configured; a late stop never marks a newer server dead |
| Configuration store (`sourcestore.go`, `rules.go`, `sourceimport.go`) | configuration in memory, in the file and on disk; the files of uploads | mutations of sources, uploads, rules, groups, listeners, options; load and migrate | what the caller was told holds; the file can always be loaded again |
| Sampler, geosite (`sampler.go`, `geosite.go`) | - | pure selection and matching | equals its reference definition |
| Checker, verification, speed tests | in-flight probes | network I/O | abstracted to the outcome |
| Parsing, import, export, status API, dashboard | - | text and HTTP | handlers that change state are actions of the component they change |

**How they interact.** Background workers (refresh, bounded recheck, full
recheck, candidate checks, rotation) and HTTP handlers share the pool. A probe
takes seconds and holds no pool lock: a worker reads the health generation under
`p.mu`, probes, and publishes under `p.mu` later. `healthCycleMu` admits one
checking worker at a time; `sourceLifecycleMu` orders source changes against the
final validation of a refresh; `deleteMu` admits one persist-then-publish
transaction; each coordinator queue has a mutex of its own and a channel that
only wakes its worker.

**What is hard.** Results applied after the criterion, the sources or the
membership changed; values read in one critical section and used in another;
tokens coalesced in one-slot channels; cancels and shutdown between any two
steps; snapshots written in another order than they were captured; a save that
fails before or after its rename; a crash between two durable writes. The
`hazards` of `PROJECT.json` list them line by line with the property aimed at
each.

## 2. Modules

| Module | Models | Composes / instantiated by |
|---|---|---|
| `ProxyPool` | the live pool and every worker and handler that writes it | `MCProxyPool`, `ProxyPoolProofs` |
| `PoolCache` | persistence of the pool, crash and startup | `MCPoolCache`, `PoolCacheProofs` |
| `HealthRecheck` | the queue of exhaustive rechecks | `MCHealthRecheck`, `HealthRecheckProofs` |
| `CandidateCheck` | the slot of manual candidate checks | `MCCandidateCheck`, `CandidateCheckProofs` |
| `CandidateCatalog` | the candidate catalog, its leases, its cache file, crash and load | `MCCandidateCatalog`, `CandidateCatalogProofs` |
| `PickSpec` | abstract specification: a pick answered at one instant | instantiated by `PoolPick` |
| `PoolPick` | scan and commit of `pick`, group cursors, the retry loop of a connection | implements `PickSpec`; `MCPoolPick`, `PoolPickProofs` |
| `ConfigStore` | the configuration store, uploads, rules and groups, the source handlers | `MCConfigStore`, `ConfigStoreProofs` |
| `ListenerManager` | the additional ports and the life of the process | extends `ConfigStore`; `MCListenerManager`, `ListenerManagerProofs` |

The MC modules only add symmetry sets and the values of structured constants;
`MCCandidateCatalog` also adds `WarmInit`, a second kind of initial state (see the
bounds). Definitions marked as mutants or "wrong on purpose" stand next to the
definition they distort, show that the property they belong to can fail, and are
used by no specification.

### ProxyPool

`pool`, `px`, `stats`, `gen` and `pending` are `p.proxies`, the routing bits and
`SourceIDs` of each entry, `p.stats`, `p.healthGeneration` and
`p.healthRecheckPending`; `stats` holds the health verdict of an entry and
`tracked` says which keys have an entry at all. `enabled` is the enabled part of
the configuration. A source change is two steps, as in `handleSourceToggle` and
`handleSourceDelete`: `ToggleSource` changes the configuration, and either holds
`sourceLifecycleMu` (`editing`) until `ApplyEnabledSources` tells the pool, or
returns at once because the store called the write uncertain. `lagging` is
history: the sources disabled since the pool last applied the configuration.
Every worker is a record of what it captured: `cycle` for whoever holds
`healthCycleMu`, `planned` for a bounded recheck that chose its targets before
taking it, `refresh` for a refresh that has leased its candidates, `speed` for a
candidate speed test, `obs` for connections and manual verifications, `clearing`
for a purge that has passed its guard. `evid` is history: the generation of each
node's last usable result. One action is one critical section of `p.mu`; the
exhaustive pass is therefore five (`FullSnapshot`, `FullClaim`, `FullCommit`,
`FullComplete`, `FullFlush`), and a failed connection two: `ServerRecord`
(`RecordResult`, which creates a missing entry of `p.stats` whether or not the
pool still holds the key) and `ServerFail` (the health observation). A deleted
endpoint may therefore have statistics again; what `NoOrphanVerdict` says is that
they hold no terminal flag and no strike of the full recheck.

Abstracted: probe timing and retries (an outcome is `alive`, `policy` or
`down`), the cooldown (any subset of the eligible nodes may be due), the
candidate catalog (any endpoint the pool does not know may be leased, any of
`FailedNode` may be in the failed collection), latency, geo and speed metadata,
credentials.

### PoolCache

`live`, `cacheGen`, `timer` are the pool in memory, `p.cacheGeneration` and the
armed debounce timer; `writer` holds the snapshots captured and not yet saved;
`del` is the transaction under `deleteMu` (plan, save, compare generations,
publish, or give up and restore); `disk`, `lastGen` are `pool_cache.json` and
`poolCache.lastGeneration`; `storeCrit` the criterion in the configuration
store. A save may succeed, be skipped as stale, fail before the rename, or fail
after it (the directory sync). `Restart` may happen in every state: the volatile
state is lost and `Normalize`, the criterion comparison and the flush of `main`
rebuild it. `gone` and `excused` are history.

A criterion change is up to four steps: the store (`ChangeCriterion`), the policy
fingerprint (`SetRequireIPChangePolicy`, `pool.go:784`), the nodes
(`InvalidateHealth`) and the flush. `live.crit` is the fingerprint a snapshot
saves, `judging` the criterion of the running generation; they differ between the
second step and the third. Criterion numbers grow; a criterion the operator
returns to counts as a new one. `CompleteHealthRecheck` lowers the guard without
looking at the nodes, as the code does.

`RoutableAfterRestart` says of every routable node that its verdict was measured
under `judging`, and excuses two windows the code leaves open, each marked in the
history:

* `spared`: the guard was lowered over a node still owed a verdict. The
  exhaustive pass lists its nodes before it reads the generation it claims
  (`main.go:537`), so a candidate promoted by a speed test and a criterion change,
  both in between, leave a node outside the pass. Startup then takes a node of a
  completed recheck for plainly unavailable (`poolcache.go:148`).
  `GuardCoversChecked` of `ProxyPool` shows that no node outside `SpeedNode` is
  concerned.
* `torn`: the process started from a snapshot captured between
  `SetRequireIPChangePolicy` and `InvalidateHealth`. It pairs the verdicts of the
  old policy with the fingerprint of the new one, so the comparison of startup
  (`main.go:246`) finds nothing to invalidate. The excuse ends with the next
  invalidation.

TLC refutes the property without either excuse (section 3).

### HealthRecheck

`queued`, `active`, `token` are `healthRecheckPending`, `healthRecheckActive`
and the one-slot `fullRecheckChan`. `caller` is each handler, or the worker
itself after a baseline change, on its way through *invalidate, reset the
outcomes of the catalog, flush, read the generation, queue, send*; `worker` goes through *wait, look, baseline, claim,
run, complete, flush, finish*. Reading a generation (under `p.mu`) and using it
(under `healthRecheckOpMu`) are separate steps, as in the code. `held` is the set
of mutexes some other goroutine holds: `healthCycleMu`, which the worker needs
for its cycle, and the `publicationMu` of the catalog, which a caller needs to
reset outcomes. `Acquire` and `Release` are the other goroutines; nothing obliges
them to release.

### CandidateCheck

`queued`, `active`, `cancelFn`, `token` are the slot, its cancel function and
its channel; `request` is the number of chunks a queued retry-all walk has (0 for
a single batch); `status` is what a client polls. The worker claims, registers its
cancel function, and runs chunks of *start, lease, check, final validation,
publish*, each of which may end the operation. `held` holds, as in
`HealthRecheck`, the mutexes of other goroutines: `healthCycleMu`,
`sourceLifecycleMu` and `publicationMu`, at the steps that take them. `stop` follows `coordinator.shutdown` and the
cancellation of the worker's context.

### CandidateCatalog

`live` is the published snapshot: the pending and the failed records (each the
set of sources it is attributed to), its generation, revision and phase. `lease`
is `pendingLeases` and `failedLeases`; `pub` is `publicationMu` where it is held
across steps; `disk` and `saved` are the cache file and
`savedGeneration`/`savedRevision`. `job` holds the workers with leases: the
refresh (`begin`, lease, probe, final validation, reconcile, update the pool,
`complete`, persist, commit, release), the candidate batch, and each speed test,
which takes no lock of the coordinator. `known` is the index of the pool's keys a
worker has read (`candidateKnownSnapshot`) and not used yet: the pool may change
between that read and the lease drawn with it. `rm` is the removal under `removalMu`
(build, precheck, save, publish, or restore the live snapshot and try again).
`CommitLeaseOutcomes` is five actions, because `complete` mutates the published
snapshot under its own mutex only and so falls between any two of them.
`removed` and `excused` are history.

Abstracted: a captured snapshot pointer is a member of `based`, which every swap
empties; the connection data a lease is bound to is `job[h].same`, the keys whose
declaration has not changed since; `job[h].srcs` holds the sources a worker has
read and that have not been edited since, and which sources are enabled is
chosen where it is read; the pool is the set of keys it knows (any of them may
be dropped, see `ProxyPool`). Generations and revisions are counted from the
start of the process.

### PickSpec and PoolPick

`status` is what routing may do with a node (absent, barred, down, up), `member`
the nodes each named group matches, `metric` what the latency, speed and score
strategies compare, `cursor` is `p.groupState`, `plan` a deletion between
`buildDeletePlanLocked` and its publication, `conn` the connections in
`handleConn`. A pick is *scan* (read lock), *commit* (write lock; on any
difference scan again) and, after the last attempt, one scan under the write
lock. `routingRevision`, `statsRevision` and `cacheGeneration` are only ever
compared for equality, so a scan or a plan holds a flag that a change of the
revision clears.

`PickSpec` is what callers may rely on: a request is answered in one step with a
node that is right for the pool of that instant, stated by what makes a node
right (preferred, first in pool order, best measured, the turn of the cursor)
and not by a loop. `PicksAreAtomic` is the refinement: `conn` is mapped to the
request a caller is waiting for, the pool and the cursors to themselves.

A dial that fails through the upstream is two critical sections, `RecordFailure`
and `ObserveFailure`; one the target refuses only excludes the node from the
next try.

A connection that a rule sends DIRECT never picks and is left out. A group's
strategy and whether its listener may fall back to ANY are read once per
connection; `Traffic` chooses them.

### ConfigStore

`cfg`, `file` and `durable` are the configuration in memory, as the path shows it
and as the disk holds it for certain; `uploads` the private files of imported
sources; `handler` the source request that holds `sourceLifecycleMu`; `applied`
the sources the pool last took for enabled. `mutate` is one step with three
outcomes: saved, failed before the rename (nothing changes), failed after it
(*uncertain*: file and memory are new, a crash may bring the old file back).
`Crash` chooses between the two versions of the file; `NewConfigStore` validates,
migrates and writes. `promise` and `defaulted` are history: what the operator was
last told about each source and about the default route.

A source has an exact URL and the key `sourceURLKey` makes of it (two sources may
differ in the first and agree in the second); a rule covers a set of hosts, and
`GFWPreset` is the rule list of the preset with the group of each; the
sources of the shipped catalog are three kinds: always there, added by
catalog 1, retired by it. Input a validator refuses changes nothing and is not
enumerated.

### ListenerManager

Extends `ConfigStore`: the listener operations are `mutate` steps of the same
store, with groups changed by other requests between them. `runtime` is
`m.listeners`, `live` the open sockets, `stopped` the stop callbacks that wait
for `m.mu`, `mgr` the operation that holds it, `events` the channel of fatal
events. An operation takes one step per effect: save, stop, start, and each part
of a rollback, because between any two the groups may change and sockets may
die. `fault` is history: for which listener a failed rollback was reported, and
whether a later update was nevertheless answered with success.

## 3. Runs

| Run | Checks | Shows |
|---|---|---|
| `pool_health` | `TypeOK`, `EvidenceIsCurrent`, `RoutingBitsAgree`, `NoOrphanVerdict`, `TerminalSurvivesAutomation` | no late or stale result makes a node routable; the routing bits never contradict the durable state; a deleted endpoint carries no verdict, although a late connection recreates its statistics; only explicit work revives a terminal failure |
| `pool_sources` | `DisabledSourceRetires`, `GuardCoversChecked`, `RecheckCoverage` | a node of a disabled source is retired even if it was being checked, unless the pool has not been told of the change; the maintenance guard falls only after every such node was judged |
| `pool_cache` | `TypeOK`, `DeletedStaysDeleted`, `RoutableAfterRestart`, `ChangesReachDisk`, `PublishLosesNothing` | the generation filter and persist-then-publish survive racing writers, failed saves and crashes; a restart trusts evidence of another criterion in the two excused windows only |
| `health_recheck` | `TypeOK`, `NoLostWakeup`, `ShutdownIsFinal`, `QueueDrains` | coalesced tokens never strand a queued recheck, as long as other goroutines release their mutexes |
| `candidate_check` | `TypeOK`, `StatusMatchesSlot`, `CancelIsForActive`, `NoLostWakeup`, `TerminalIsFinal`, `OperationsEnd` | the slot, the status and the channel stay consistent under cancels and shutdown; accepted operations end as long as other goroutines release their mutexes |
| `candidate_catalog` | `OneHome`, `LeaseExclusive`, `FailureIsMeasured`, `RemovedStaysRemoved`, `DiskCatchesUp` | leases exclude each other although each is released twice; a failure is measured on the current declaration and never pending at the same time; a reported removal survives late writers and restarts; the file catches up with the catalog |
| `pool_pick` | `PicksAreAtomic`, `PinSurvivesTraffic`, `CursorsLive`, `DashboardAgrees`, `ConnectionsEnd` | scan-and-commit implements the atomic pick; neither traffic nor the rotation timer moves a pin; cursors never name a deleted node; the status API and routing agree on the node a group uses; no connection starves |
| `config_store` | `Restartable`, `UploadsStored`, `PromisesKept`, `RulesReachable` | whichever file a crash leaves can be loaded; uploads and configuration never part; what was answered holds through failed writes, crashes and migrations; no rule is shadowed by MATCH. This run has no listeners: `Restartable` with listeners is the theorem `PortsRestartable` |
| `listeners` | `RuntimeMatches`, `ServersAccounted`, `DeathIsHandled` | servers and configuration agree through uncertain writes and rollbacks, unless a failed rollback was reported; late callbacks condemn nobody; a dead port is replaced or ends the process |

Three further runs each check one statement the repository makes and the code
does not keep (`findings` in `PROJECT.json` quotes them):

* `pool_clear_guard`: the purge tests the recheck-pending guard and deletes in
  two critical sections; a criterion change in between lets it delete every
  node that waits for its recheck.
* `catalog_leases`: a refresh that completes while a speed test persists its
  outcome makes the commit conflict; the commit then restores the live snapshot,
  which read-locks the `publicationMu` that the commit itself holds, so the
  commit never returns and the lease never ends. Nor does anything that needs
  `publicationMu`, or the `healthCycleMu` of a refresh that waits for it: this is
  why `QueueDrains` and `OperationsEnd` are stated under `LocksReleased`.
* `source_removal`: after a toggle or deletion whose durability is uncertain, or
  a deletion that cannot unlink its upload, the handler returns before
  `ApplyEnabledSources` although the configuration has changed. In `ProxyPool`
  these are the sources in `lagging`.

Five more statements are kept as definitions; put alone into a cfg as shown, TLC
refutes each of them too:

| Statement | Configuration | What happens |
|---|---|---|
| `ProxyPool!RetirementIsLifted` (`pool.go:952`) | `PoolHealth.cfg` with `SpeedNode`, `FailedNode`, `Observer` empty, `MaxGen = 0`, `FairSpec` | the pool knows a retired member, so no refresh leases or restores it once its sources are enabled again |
| `HealthRecheck!RecheckScheduled` (`status_handlers.go:131`) | `HealthRecheck.cfg` with two handlers and `Spec` | `triggerFullRecheck` reads the generation before it locks: an older trigger replaces a newer one and is then superseded |
| `CandidateCheck!CancelInterrupts` (`candidate_check_operation.go:209`) | `CandidateCheck.cfg` with `MaxOps = 1` and `Spec` | a cancel between the claim and the registration of the cancel function is forgotten |
| `CandidateCatalog!FailuresStay` (`candidate_catalog.go:1149`) | `CatalogLeases.cfg` with two sources, `MaxGen = 2` and `Spec` | one invalid source makes `reconcileFullRefreshCatalog` rebuild the snapshot from its pending records: all failures are dropped |
| `ListenerManager!UpdateTakesEffect` (`README.md:355`) | `Listeners.cfg` | a port change fails and so does the save of its rollback, so the old port serves on; a later update to the new port compares it with the store (`listener_manager.go:193`), not with the server, changes only the policy and answers success |

The premises of four properties are needed: with the premise taken out TLC refutes
each under the cfg of its run.

| Property | Taken out | What happens |
|---|---|---|
| `QueueDrains`, `OperationsEnd` | `LocksReleased` | a goroutine keeps `healthCycleMu` and the worker waits at `main.go:533`, or at `candidate_check_operation.go:363`, for ever |
| `RoutableAfterRestart` | `spared` | an invalidated node is not in the pass; the guard falls, the flush saves it as waiting, and startup makes it routable |
| `RoutableAfterRestart` | `torn` | the policy fingerprint changes, a writer saves it with the old verdicts, and the process dies before `InvalidateHealth` |
| `DisabledSourceRetires` | `lagging` | the trace of `source_removal`, seen from the pool |

**Bounds.** Nodes of the pool do not influence one another (every critical
section treats each key by itself), so one node per run keeps the state space
for the interleavings; the proofs hold for any number. `MaxGen = 2` lets a
result be one and two generations late and a recheck be superseded twice. Two
sources give an endpoint with mixed provenance. One observer overlaps with all
six background workers in `pool_health`; `pool_sources` has none, to leave room
for two sources whose change takes two steps (its theorems hold for any number). In `PoolCache`, two writers plus the deletion allow any
reordering of two captures, `DeleteAttempts = 2` (4 in the code) reaches the
give-up and repair path, `MaxCacheGen = 4` lets an attempt be invalidated on
each try, `MaxCrit = 1` gives an old and a new criterion. Two handlers race in
`HealthRecheck`, with the worker as a third caller. Three operations in
`CandidateCheck` let one be refused, one cancelled and one run; two chunks let a
cancel fall between batches. In `CandidateCatalog` records of different keys meet
only in the revision of their snapshot, which the four kinds of actors (one
refresh, one batch, one speed test, one removal) already contend for with one
key; `MaxGen = 1` refreshes start either from nothing or, with `WarmInit`, from
the catalog a completed refresh has left, pending or failed, so work of the
previous generation meets the new one; `MaxRev = 3` leaves two publications after
that of the refresh, enough for every conflict of two of them;
`RemovalAttempts = 2` (4 in the code) reaches the retry and the give-up.

In `PoolPick` two connections and one change from outside (`MaxChanges = 1`; a
health pass that only moves the revision is not counted) give every race of a
commit with a pick, a pin, a rotation, a deletion or a result; two nodes give a
best and a second; `MaxAttempts = 1` (8 in the code) reaches the serialized
scan, `MaxRetries = 2` (3 in the code) the exclusion of a failed node and the
fallback to ANY. `Traffic` holds the mixes of strategies that share a cursor. In
`ConfigStore`, `MaxOps = 3` requests in any order with every outcome and
`MaxCrashes = 1`; the limits on sources (3) and rules (3) are met, and old
configurations hold any set of sources. In `ListenerManager`, two listeners
compete for two ports; three requests reach an update whose rollback meets a
deleted group.

**Deadlock** is checked in the pool and cache runs. The other cfgs switch it off:
there the system really stops, after shutdown or when the bounded supply of
requests or connections is used up.

**Fairness.** `HealthRecheck` and `CandidateCheck` assume weak fairness of the
worker goroutine (every probe has a timeout), of the steps of a request that has
begun, of taking a token that is there, and of a shutdown that has begun. A step
that waits for a mutex of another goroutine is strongly fair: the waiter gets a
mutex that is free again and again, because Go hands it to a waiter that has
starved. That the others release it is not assumed by the specification; it is the
explicit premise `LocksReleased` of `QueueDrains` and `OperationsEnd`, and
`catalog_leases` shows that the code does not guarantee it. The interval timer, hours long, is
not assumed to fire: `QueueDrains` holds without it. Handlers are never obliged to
start.
`ProxyPool!FairSpec` (only for `RetirementIsLifted`) makes the background workers
run and publish again and again; strong fairness stands for `healthCycleMu`
being handed to every waiter eventually. `CandidateCatalog!FairSpec` (only for
`catalog_leases`) is weak fairness of every worker that has begun; nobody is
obliged to begin. `PoolPick!FairSpec` is weak fairness of each accepted
connection (a dial has a timeout, `p.mu` is handed on); the disturbance by health
passes is not limited. `ListenerManager!FairManagerSpec` is weak fairness of the
operation that holds the mutex, of a waiting stop callback, and of `main` from
the fatal event to its exit; requests, signals and failures are never due.

## 4. Proofs

Every invariant and every action property of the passing runs is also a theorem,
and so is the refinement of `PickSpec`. The theorems hold for every number of
nodes, sources, groups, listeners, observers, writers and handlers and for every
bound. They use only the named assumptions on the constants:

* the bounds are naturals, positive where the code's limit is (`DeleteAttempts`,
  `RemovalAttempts`, `MaxAttempts`, `MaxRetries`), and the actors have different
  names (`Worker \notin Handler`, `TesterAssumption`);
* `PoolPick`: the pool's slice lists every node once (`OrderAssumption`), the
  strategies are the six `AddGroup` and `SetGroupStrategy` accept
  (`rules.go:236-268`), ANY is not a configured group and is always sticky, and a
  pin found at the start names a node;
* `ConfigStore`: the catalog of built-ins is consistent and fits the limit,
  `MatchId` and the reserved references differ from everything an operator
  chooses, sources, presets, groups and listeners are finite (they are entries of
  one file), and `None` is neither a configuration nor a port
  (`NoneAssumption`); `ListenerManager` adds that the groups an earlier run
  has left fit their limit.

The `TypeOK` of `PoolPick`, `CandidateCatalog`, `ConfigStore` and
`ManagerTypeOK` are in no run: they are the first conjunct of the inductive
invariant and are proved.

* `ProxyPoolProofs`. `PoolInv` conjoins `TypeOK`, `HealthInv` (the four
  invariants on nodes), the guard and `RecheckCoverage`. `GuardCoversChecked`
  is not inductive by itself: lowering the guard in `FullComplete` is sound only
  because of `RecheckCoverage`, which follows the targets of the pass from its
  snapshot to its commit through every concurrent deletion, verification, toggle
  and criterion change; and all of them rest on the types, in particular on no
  worker holding a generation the pool has not reached. The health
  lemmas (`...KeepsHealth`) treat each critical section once; `PoolStep` has one
  step per action. Results: `PoolTypeCorrect`, `PoolEvidenceCurrent`,
  `PoolRoutingBits`, `PoolSourcesRetire`, `PoolNoOrphans`,
  `PoolRecheckCoverage`, `PoolGuardCovers`, and the action property
  `PoolTerminalSurvives`.
* `HealthRecheckProofs`. `QueueInv` adds to the three invariants `NoLateSender`:
  after shutdown has emptied the queue nobody is left about to send. Without it
  `ShutdownIsFinal` is not inductive. Results: `RecheckTypeCorrect`,
  `RecheckNoLostWakeup`, `RecheckShutdownFinal`.
* `CandidateCheckProofs`. `SlotInv` adds `Owner` (where the worker is determines
  whether the active operation is its own) and `Unrequested` (operations beyond
  `seq` have no status). Results: `CandidateTypeCorrect`,
  `CandidateStatusMatches`, `CandidateCancelActive`, `CandidateNoLostWakeup`,
  and the action property `CandidateTerminalFinal`.
* `PoolCacheProofs`. What a write may put on disk depends on what its snapshot
  held when it was captured, so `CacheInv` says for every snapshot of a writer,
  for the plan of the deletion and for the file how it relates to the pool, by
  its generation. A capture of the current generation equals the pool, a plan of
  it is the request applied to the pool, a write that the generation filter would
  still take holds no deleted node, and until the current generation is on disk
  somebody is about to save it (timer, writer, transaction, repair). `JudgedInv` states separately
  that each of them carries only verdicts of its own criterion, or an excuse; the
  pool in memory is compared with the generation's criterion, which follows the
  fingerprint and never leads it (`CritsOrdered`). Results:
  `PoolCacheTypes`, `DeletionsAreFinal`, `ChangesAreWritten`, `RoutableIsJudged`
  and the action property `NothingIsLost`.
* `CandidateCatalogProofs`. `CatalogInv` records who holds `publicationMu`, that
  the refresh owns its generation, and on which revision each commit and each
  removal is based; `SaveInv`, `DiskInv` and `RemovedInv` add what their images
  hold compared with the published snapshot and with the file. `DiskCatchesUp` needs
  `SomeoneSaves`: once a refresh is complete the file is right or some worker is
  on its way to put it right. `RemovedStaysRemoved` needs `RemovedImages`: no
  image that may still be written holds a removed key, also not after the forced
  save of a removal that gives up. Results:
  `CatalogTypes`, `FailuresAreIsolated`, `LeasesAreExclusive`,
  `FileCatchesUp`, `RemovalsAreFinal` and the action property
  `FailuresAreMeasured`.
* `PoolPickProofs`. The loop of the scan is described by positions in the
  slice; the lemmas on it take the place of an induction over sequences and rest
  on the least-number principle. `CursorsLive` is inductive only together with
  `PlanLive`: the cursors of a deletion's plan fit the pool it will publish, not
  the one in force. The refinement needs `Scans`: as long as no revision has
  cleared its flag, the choice of a scan is one the pool still gives for the
  cursor the scan saw, so a commit that finds the flag and the cursor unchanged is
  the atomic pick. Every other step of a
  connection is a stutter of `PickSpec`. Results: `PoolPickTypes`,
  `CursorsStayLive`, `DashboardIsRight`, the action property `PinsSurvive` and
  `PickImplementsPickSpec`, which covers the whole specification `PickSpec`,
  a safety property.
* `ConfigStoreProofs`. Each step is one of five kinds: a change of one source,
  of the rule table, of anything else, a load, a crash. `StoreInv` conjoins
  `TypeOK`; `CopyInv` (memory mirrors the file; both copies a crash can leave
  pass validation and end in their only MATCH); `Handled` (the upload a handler
  is about to unlink or publish is in neither copy); `UploadsStored`; and `Kept`
  for every source and for the default route: what was told is in the file, what
  was told for good also in the durable copy, and nothing was told about a file
  still to be created or migrated. `PromisesKept` alone is not inductive: it does
  not exclude that a migration changes a source someone was told about. Results:
  `StoreTypes`, `UploadsAreStored`, `AnswersAreKept`, `AlwaysRestartable`,
  `RulesStayReachable`.
* `ListenerManagerProofs`. `RuntimeMatches` speaks of the moments when the mutex
  is free. `ManagerInv` also says what holds in between: `Servers` (generations
  grow; a pending callback is never that of an open socket), `Phases`, `Holding`
  (what each step of the operation that holds the mutex can rely on),
  `Siting` (a server runs only for a bound listener; its sockets are on its
  binding's port unless `fault` says otherwise) and `Matching` (every listener but
  the operation's own agrees with the configuration, and during an update the old
  server still agrees with the old binding). The frame lemmas `OneListener`,
  `Quiet` and `AllIdle` leave one listener to consider per step. Results:
  `ManagerTypes`, `ServersAreAccounted`, `ServersMatch`, and `PortsRestartable`:
  the store keeps `StoreInv` under the manager, so the file can be loaded again
  at any point of a listener operation. They are stated for `ManagerSpec`; the
  run's `FairManagerSpec` is that specification with fairness.

Only model-checked: the liveness properties `QueueDrains`, `OperationsEnd`,
`ConnectionsEnd`, `DeathIsHandled`, `RetirementIsLifted` and `LeasesEnd`:
fairness and ENABLED are out of the prover's reach. The statements the code does
not keep (section 3) are refuted by TLC and have no theorem.

## 5. Not modelled

Text parsing, export, rendering, paging, authentication, the JSON and gzip codec
of the caches and of the configuration, ProxyIP records, geo lookup, protocol
negotiation, direct connections and the relaying of bytes: they are I/O or pure
text conversion without shared state of their own. Probes are reduced to
outcomes. The migrations of source metadata and of the auto-refresh flag change
no field the model keeps. `ReplaceListeners` has no caller outside the tests.

## 6. Plan

1. Proofs: that `CandidateCatalog` never loses a candidate (next item) and the
   composition of `PoolCache` with the guard of `ProxyPool` (which nodes may be
   `spared`) as a refinement instead of an argument in prose.
2. An abstract specification of the catalog (every candidate is pending, leased,
   failed or known to the pool, and what may move it) that `CandidateCatalog`
   implements.
3. `RefreshQueue`: refresh and per-source request queues, coalescing, the auto
   rotation that yields to them, shutdown.
4. Pure algorithms against reference definitions: the sampler's rotation, the
   text of a single rule, deduplication and merging of candidates.
