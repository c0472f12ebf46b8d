-------------------------- MODULE CandidateCatalog --------------------------
(***************************************************************************)
(* The candidate catalog of candidate_catalog.go and candidatecache.go:    *)
(* the published snapshot of pending and failed records, the lease table,  *)
(* the workers that lease, probe and commit (refreshes, candidate batches, *)
(* speed tests), candidate removal, the disk cache with its generation     *)
(* filter, crashes and the load at startup.                                *)
(*                                                                         *)
(* Locks.  publicationMu is "pub"; healthCycleMu and sourceLifecycleMu     *)
(* follow from where the workers are; the other mutexes make one action of *)
(* each critical section.  "based" holds the actors whose captured         *)
(* snapshot pointer is still the live one: every swap empties it.  A       *)
(* lease token is unique to the call that drew it, and every call ends     *)
(* before its worker makes another, so the worker stands for the token.    *)
(* begin retries until its compare-and-swap meets the snapshot it read,    *)
(* so it is one action.  The declaration of a record is its connection     *)
(* data, the lease fingerprint; only whether it has changed since a lease  *)
(* was drawn matters, and job[h].same holds the keys where it has not.     *)
(* complete is always called without checked nodes, and no pending record  *)
(* carries a check time, so ResetHealthOutcomesSoft changes nothing.       *)
(* ProxyIP resources, which are never leased, facets and page views are    *)
(* left out.  Which sources are enabled is left open: it is chosen where   *)
(* it is read, and a change shows in the workers that have read it.        *)
(***************************************************************************)
EXTENDS Naturals, FiniteSets

CONSTANTS Node,             \* candidate keys
          Source,           \* configured source IDs
          Tester,           \* concurrent candidate speed tests
          RemovalAttempts,  \* candidateRemovalMaxAttempts
          MaxGen,           \* bound on refreshes within one process life
          MaxRev            \* bound on the revisions of one generation

ASSUME RemovalAttemptsAssumption == RemovalAttempts \in Nat \ {0}
ASSUME CatalogBoundsAssumption == MaxGen \in Nat /\ MaxRev \in Nat \ {0}
ASSUME TesterAssumption == Tester \cap {"refresh", "batch", "remove", "none"} = {}

VARIABLES
    live,       \* the published snapshot
    based,      \* actors whose captured snapshot pointer is still published
    pub,        \* who holds publicationMu across steps, or "none"
    lease,      \* pendingLeases and failedLeases, by kind
    job,        \* the workers that hold leases
    rm,         \* the RemoveKeys call that holds removalMu
    disk,       \* candidate_catalog.cache
    saved,      \* savedGeneration and savedRevision
    pool,       \* keys known to the forwarding pool
    known,      \* the index of them a worker has read and leases by, if any
    removed,    \* history: removals reported successful, not advertised since
    excused     \* history: a save failed and the catalog has not been saved since

Holder == {"refresh", "batch"} \cup Tester
Actor == Holder \cup {"remove"}
Kind == {"candidate", "failed"}
Outcome == {"none", "alive", "down"}   \* "down" also stands for policy_filtered

cache == <<disk, saved, excused>>
vars == <<live, based, pub, lease, job, rm, cache, pool, known, removed>>

-----------------------------------------------------------------------------
(* Snapshots.  A record is the set of sources it is attributed to, empty   *)
(* when there is none.                                                     *)
NoRecords == [n \in Node |-> {}]
Snapshot == [pend : [Node -> SUBSET Source], fail : [Node -> SUBSET Source],
             gen : 0 .. MaxGen, rev : 0 .. MaxRev,
             phase : {"restored", "checking", "complete"}]
NoSnapshot == [pend |-> NoRecords, fail |-> NoRecords,
               gen |-> 0, rev |-> 0, phase |-> "restored"]
Image(s) == [pend |-> s.pend, fail |-> s.fail]

Declared(s, kind) ==
    {n \in Node : (IF kind = "failed" THEN s.fail[n] ELSE s.pend[n]) # {}}

(* What LeasePending and LeaseFailed may lease: pending records that are   *)
(* not in the index K of known keys, failed records known or not.          *)
LeasePending(K) == {n \in Declared(live, "candidate") \ K : lease["candidate"][n] = "none"}
LeaseFailed == {n \in Declared(live, "failed") : lease["failed"][n] = "none"}

NoJob == [pc |-> "idle", kind |-> "candidate", keys |-> {},
          same |-> {}, att |-> NoRecords, srcs |-> {},
          out |-> [n \in Node |-> "none"], gen |-> 0, rev |-> 0,
          full |-> FALSE, img |-> NoSnapshot]
NoRemoval == [pc |-> "idle", keys |-> {}, rev |-> 0, tries |-> 0, restores |-> 0,
              failed |-> FALSE, img |-> NoSnapshot]

Init ==
    /\ live = NoSnapshot
    /\ based = {}
    /\ pub = "none"
    /\ lease = [k \in Kind |-> [n \in Node |-> "none"]]
    /\ job = [h \in Holder |-> NoJob]
    /\ rm = NoRemoval
    /\ disk = Image(NoSnapshot)
    /\ saved = [gen |-> 0, rev |-> 0]
    /\ pool = {}
    /\ known = [h \in Holder |-> {}]
    /\ removed = {}
    /\ excused = FALSE

-----------------------------------------------------------------------------
(* Locks that follow from where the workers are.                           *)

(* sourceLifecycleMu is held from the final validation to the commit, and  *)
(* by a batch (for reading) from its index to its leases.                  *)
Committing == {"commit", "save", "check", "swap", "restore", "relock"}
Publishing == {"reconcile", "update", "completing", "persisting",
               "discarding", "dropping"} \cup Committing
lifecycleFree == /\ \A h \in {"refresh", "batch"} : job[h].pc \notin Publishing
                 /\ known["batch"] = {}

(* healthCycleMu: a refresh gives it up before its deferred lease release, *)
(* a batch after it.                                                       *)
Probing == {"probing", "aborting", "leaving"}
cycleFree == /\ job["refresh"].pc \notin Probing \cup Publishing
             /\ job["batch"].pc = "idle" /\ known["batch"] = {}

publicationFree == pub = "none"

Goto(h, pc) == job' = [job EXCEPT ![h].pc = pc]

(* Return, with the deferred ReleaseLeases still to run.                   *)
Leave(h) == job' = [job EXCEPT ![h] =
    [NoJob EXCEPT !.pc = "release", !.kind = job[h].kind, !.keys = job[h].keys]]

(* A swap of the published snapshot.                                       *)
Publish(s) == live' = s /\ based' = {}

-----------------------------------------------------------------------------
(* The disk cache.                                                         *)

(* Wrong on purpose: writes whatever comes last.                           *)
StaleImageMutant(s) == FALSE
StaleImage(s) == \/ s.gen < saved.gen
                 \/ s.gen = saved.gen /\ s.rev <= saved.rev

(* The encoder refuses a snapshot that no refresh has republished.         *)
validateCandidateSnapshot(s) == s.phase # "restored"

SaveSucceeds(s) ==
    /\ validateCandidateSnapshot(s)
    /\ disk' = Image(s)
    /\ saved' = [gen |-> s.gen, rev |-> s.rev]
    /\ excused' = (excused /\ (s.gen # live.gen \/ s.rev < live.rev))

(* Fails before the rename, or after it when the directory sync fails.     *)
SaveFails(s) ==
    /\ disk' \in {disk} \cup (IF validateCandidateSnapshot(s) THEN {Image(s)} ELSE {})
    /\ excused' = TRUE
    /\ UNCHANGED saved

-----------------------------------------------------------------------------
(* Refreshes.                                                              *)

(* What the fetched sources advertise; attributions to feeds that were not *)
(* fetched successfully are kept.                                          *)
mergeCandidateSnapshots(adv, kept) ==
    [n \in Node |-> adv[n] \cup (live.pend[n] \cap kept)]

(* Wrong on purpose: rediscovered failures become pending again.           *)
ReconciledMutant(found) == [live EXCEPT !.pend = found]

(* Failures are kept, rediscovered or not, and are not pending.            *)
reconcileCandidateFailures(found) ==
    [live EXCEPT
       !.pend = [n \in Node |-> IF live.fail[n] # {} THEN {} ELSE found[n]],
       !.fail = [n \in Node |-> IF live.fail[n] # {}
                                THEN live.fail[n] \cup found[n] ELSE {}]]

(* The catalog of what the sources S may advertise.                        *)
buildCandidateSnapshot(S) == [Node -> SUBSET S]

(* A full refresh fetched V, of which F failed; a source refresh fetched   *)
(* V = {s} and keeps the attributions of every other source.  Any key that *)
(* is advertised may be so with another declaration (C).                   *)
begin ==
    /\ job["refresh"].pc = "idle"
    /\ lifecycleFree /\ publicationFree
    /\ live.gen < MaxGen
    /\ \E full \in BOOLEAN, V \in SUBSET Source, F \in SUBSET Source :
       \E adv \in buildCandidateSnapshot(V \ F) : \E C \in SUBSET {n \in Node : adv[n] # {}} :
          /\ IF full THEN F \subseteq V ELSE Cardinality(V) = 1 /\ F = {}
          /\ LET kept == IF full THEN F ELSE Source \ V
                 s == reconcileCandidateFailures(mergeCandidateSnapshots(adv, kept))
             IN  /\ Publish([s EXCEPT !.gen = live.gen + 1, !.rev = 1,
                                      !.phase = "checking"])
                 /\ removed' = {n \in removed : s.pend[n] = {} /\ s.fail[n] = {}}
          /\ job' = [h \in Holder |-> IF h = "refresh"
                THEN [NoJob EXCEPT !.pc = "begun", !.srcs = V, !.full = full,
                                   !.gen = live.gen + 1]
                ELSE [job[h] EXCEPT !.same = @ \ C]]
    /\ UNCHANGED <<pub, lease, rm, cache, known, pool>>

(* candidateKnownSnapshot, read under p.mu before the leases are drawn.  A *)
(* speed test that finds every key known is refused and changes nothing.   *)
candidateKnownSnapshot(h) ==
    /\ known[h] = {}
    /\ h \in Tester => pool # Node
    /\ job[h].pc = IF h = "refresh" THEN "begun" ELSE "idle"
    /\ h = "batch" => live.phase # "restored" /\ cycleFree /\ lifecycleFree
    /\ known' = [known EXCEPT ![h] = {pool}]
    /\ UNCHANGED <<live, based, pub, lease, job, rm, cache, pool, removed>>

(* Lease T for h: the declaration is what will be probed.                  *)
Lease(h, kind, T) ==
    /\ lease' = [lease EXCEPT ![kind] =
                    [n \in Node |-> IF n \in T THEN h ELSE lease[kind][n]]]
    /\ job' = [job EXCEPT ![h].kind = kind, ![h].keys = T, ![h].same = T,
                  ![h].att = [n \in Node |-> IF n \in T /\ h = "refresh"
                                             THEN live.pend[n] ELSE {}],
                  ![h].rev = IF h \in Tester THEN live.rev ELSE 0,
                  ![h].srcs = IF h = "batch" THEN Source ELSE @,
                  ![h].pc = IF h = "refresh" THEN "leased" ELSE "probing"]

LeasePendingKeys ==
    /\ job["refresh"].pc = "begun"
    /\ \E K \in known["refresh"] : \E T \in SUBSET LeasePending(K) :
          Lease("refresh", "candidate", T)
    /\ known' = [known EXCEPT !["refresh"] = {}]
    /\ UNCHANGED <<live, based, pub, rm, cache, pool, removed>>

RefreshStart ==
    /\ job["refresh"].pc = "leased"
    /\ cycleFree
    /\ Goto("refresh", "probing")
    /\ UNCHANGED <<live, based, pub, lease, rm, cache, known, pool, removed>>

(* Cancelled or superseded before the final validation: a full refresh     *)
(* completes its snapshot, a source refresh only releases its leases.      *)
RefreshAbort ==
    /\ job["refresh"].pc = "probing"
    /\ IF job["refresh"].full
       THEN job' = [job EXCEPT !["refresh"].pc = "aborting", !["refresh"].srcs = {},
                               !["refresh"].full = FALSE, !["refresh"].att = NoRecords]
       ELSE Leave("refresh")
    /\ UNCHANGED <<live, based, pub, lease, rm, cache, known, pool, removed>>

(* The outcomes a check of the keys K may have.                            *)
Outcomes(K) == {o \in [Node -> Outcome] : \A n \in Node \ K : o[n] = "none"}

(* Final validation, under sourceLifecycleMu from here on.  A full refresh *)
(* keeps the outcomes of keys that still have a valid source.              *)
RefreshFinal ==
    /\ job["refresh"].pc = "probing"
    /\ lifecycleFree
    /\ LET j == job["refresh"]
           valid == {n \in j.keys : j.att[n] \cap j.srcs # {}}
       IN  IF j.full \/ j.srcs # {}
           THEN \E o \in Outcomes(IF j.full THEN valid ELSE j.keys) :
                   job' = [job EXCEPT !["refresh"] =
                     [j EXCEPT !.pc = IF j.full THEN "reconcile" ELSE "update",
                               !.out = o, !.att = NoRecords, !.full = FALSE,
                               !.srcs = IF j.full THEN j.srcs ELSE {}]]
           ELSE Leave("refresh")
    /\ UNCHANGED <<live, based, pub, lease, rm, cache, known, pool, removed>>

(* Withdraw attributions to sources that are no longer valid.  The rebuilt *)
(* snapshot is given the pending records only.                             *)
Withdrawn(S) ==
    [live EXCEPT !.pend = [n \in Node |-> live.pend[n] \cap S],
                 !.fail = NoRecords, !.rev = live.rev + 1]
SourceKeys == UNION {live.pend[n] \cup live.fail[n] : n \in Node}

reconcileFullRefreshCatalog ==
    /\ job["refresh"].pc = "reconcile"
    /\ publicationFree
    /\ LET S == job["refresh"].srcs
       IN  IF live.gen = job["refresh"].gen /\ ~(SourceKeys \subseteq S)
           THEN live.rev < MaxRev /\ Publish(Withdrawn(S))
           ELSE UNCHANGED <<live, based>>
    /\ job' = [job EXCEPT !["refresh"].pc = "update", !["refresh"].srcs = {}]
    /\ UNCHANGED <<pub, lease, rm, cache, known, pool, removed>>

(* UpdateWithEnabledSourcesAndPolicy: admits what was found alive, drops   *)
(* known keys that were unreachable and keeps those the policy filtered.   *)
(* It refuses once the criterion has changed.                              *)
PoolUpdate(h) ==
    /\ job[h].pc = "update"
    /\ \/ /\ \E D \in SUBSET {n \in job[h].keys : job[h].out[n] = "down"} :
                pool' = (pool \cup {n \in job[h].keys : job[h].out[n] = "alive"}) \ D
          /\ Goto(h, IF h = "refresh" THEN "completing" ELSE "commit")
       \/ /\ IF h = "refresh" THEN Goto(h, "discarding") ELSE Leave(h)
          /\ UNCHANGED pool
    /\ UNCHANGED <<live, based, pub, lease, rm, cache, known, removed>>

Completed == [live EXCEPT !.phase = "complete", !.rev = live.rev + 1]

(* complete mutates the published snapshot in place, if it is still of     *)
(* this refresh, holding nothing but the mutex of the snapshot; that       *)
(* object is what is persisted next.                                       *)
Persisting == [completing |-> "persisting", discarding |-> "dropping",
               aborting |-> "leaving"]

complete ==
    /\ job["refresh"].pc \in DOMAIN Persisting
    /\ IF live.gen = job["refresh"].gen
       THEN /\ live.rev < MaxRev
            /\ live' = Completed
            /\ job' = [job EXCEPT !["refresh"].pc = Persisting[@],
                                  !["refresh"].img = Completed]
       ELSE /\ IF job["refresh"].pc = "completing" THEN Goto("refresh", "commit")
               ELSE Leave("refresh")
            /\ UNCHANGED live
    /\ UNCHANGED <<based, pub, lease, rm, cache, known, pool, removed>>

persistCompletedSnapshot ==
    /\ job["refresh"].pc \in {"persisting", "dropping", "leaving"}
    /\ LET img == job["refresh"].img
       IN  IF StaleImage(img) THEN UNCHANGED cache
           ELSE SaveSucceeds(img) \/ SaveFails(img)
    /\ IF job["refresh"].pc = "persisting"
       THEN job' = [job EXCEPT !["refresh"].pc = "commit", !["refresh"].img = NoSnapshot]
       ELSE Leave("refresh")
    /\ UNCHANGED <<live, based, pub, lease, rm, known, pool, removed>>

-----------------------------------------------------------------------------
(* Candidate batches and retries of failures.                              *)

(* A batch that finds nothing to check is complete.                        *)
BatchLease ==
    /\ job["batch"].pc = "idle"
    /\ \E K \in known["batch"] :
          \/ \E T \in SUBSET LeasePending(K) : T # {} /\ Lease("batch", "candidate", T)
          \/ LeasePending(K) = {} /\ UNCHANGED <<lease, job>>
    /\ known' = [known EXCEPT !["batch"] = {}]
    /\ UNCHANGED <<live, based, pub, rm, cache, pool, removed>>

RetryLease ==
    /\ live.phase # "restored"
    /\ cycleFree /\ lifecycleFree
    /\ \E T \in SUBSET LeaseFailed : T # {} /\ Lease("batch", "failed", T)
    /\ UNCHANGED <<live, based, pub, rm, cache, known, pool, removed>>

(* Cancelled or superseded.                                                *)
BatchAbort ==
    /\ job["batch"].pc = "probing"
    /\ Leave("batch")
    /\ UNCHANGED <<live, based, pub, lease, rm, cache, known, pool, removed>>

BatchFinal ==
    /\ job["batch"].pc = "probing"
    /\ lifecycleFree
    /\ IF job["batch"].srcs = Source
       THEN \E o \in Outcomes(job["batch"].keys) :
               job' = [job EXCEPT !["batch"].pc = "update", !["batch"].out = o,
                                  !["batch"].srcs = {}]
       ELSE Leave("batch")
    /\ UNCHANGED <<live, based, pub, lease, rm, cache, known, pool, removed>>

-----------------------------------------------------------------------------
(* Candidate speed tests, which hold no lock of the coordinator.           *)

SpeedLease(t) ==
    /\ job[t].pc = "idle"
    /\ \E K \in known[t] : \E n \in LeasePending(K) : Lease(t, "candidate", {n})
    /\ known' = [known EXCEPT ![t] = {}]
    /\ based' = based \cup {t}
    /\ UNCHANGED <<live, pub, rm, cache, pool, removed>>

(* The key asked for is not to be leased.                                  *)
SpeedRefuse(t) ==
    /\ known[t] # {}
    /\ known' = [known EXCEPT ![t] = {}]
    /\ UNCHANGED <<live, based, pub, lease, job, rm, cache, pool, removed>>

(* An unusable candidate is committed; a request that is cancelled, or a   *)
(* measurement that fails, only releases the lease.                        *)
SpeedEnd(t) ==
    /\ job[t].pc = "probing"
    /\ \/ job' = [job EXCEPT ![t].pc = "commit", ![t].rev = 0,
                     ![t].out = [n \in Node |-> IF n \in job[t].keys THEN "down"
                                                ELSE "none"]]
       \/ Leave(t)
    /\ based' = based \ {t}
    /\ UNCHANGED <<live, pub, lease, rm, cache, known, pool, removed>>

(* withCandidateLease: the snapshot, its revision, the declaration and the *)
(* lease are those of the test.                                            *)
LeaseHolds(t) ==
    /\ t \in based /\ live.rev = job[t].rev
    /\ job[t].keys \subseteq job[t].same \cap Declared(live, "candidate")
    /\ \A n \in job[t].keys : lease["candidate"][n] = t

SpeedPromote(t) ==
    /\ job[t].pc = "probing"
    /\ lifecycleFree /\ publicationFree
    /\ \/ /\ LeaseHolds(t)
          /\ pool' = pool \cup job[t].keys
       \/ UNCHANGED pool                \* refused: lease, source or criterion
    /\ Leave(t)
    /\ based' = based \ {t}
    /\ UNCHANGED <<live, pub, lease, rm, cache, known, removed>>

-----------------------------------------------------------------------------
(* CommitLeaseOutcomes.  publicationMu is held from CommitBegin to the end.*)

(* Wrong on purpose: releases every lease of the keys, whoever holds it.   *)
ReleasedMutant(h) ==
    [lease EXCEPT ![job[h].kind] =
        [n \in Node |-> IF n \in job[h].keys THEN "none" ELSE @[n]]]

(* ReleaseLeases: only while the token is still the one that was drawn.    *)
Released(h) ==
    [lease EXCEPT ![job[h].kind] =
        [n \in Node |-> IF n \in job[h].keys /\ @[n] = h THEN "none" ELSE @[n]]]

(* Wrong on purpose: does not compare declarations.                        *)
LeasesCurrentMutant(h) ==
    /\ \A n \in job[h].keys : lease[job[h].kind][n] = h
    /\ job[h].keys \subseteq Declared(live, job[h].kind)
LeasesCurrent(h) ==
    /\ \A n \in job[h].keys : lease[job[h].kind][n] = h
    /\ job[h].keys \subseteq job[h].same \cap Declared(live, job[h].kind)

(* The keys whose record the outcomes change, and the resulting snapshot.  *)
Changed(h) == {n \in job[h].keys : \/ job[h].out[n] = "down"
                                   \/ job[h].out[n] = "alive" /\ job[h].kind = "failed"}
Committed(h) ==
    LET moved == {n \in Changed(h) : job[h].kind = "candidate"}
        cured == {n \in Changed(h) : job[h].out[n] = "alive"}
    IN  [live EXCEPT
          !.pend = [n \in Node |-> IF n \in moved THEN {} ELSE live.pend[n]],
          !.fail = [n \in Node |-> IF n \in moved THEN live.pend[n]
                                   ELSE IF n \in cured THEN {} ELSE live.fail[n]],
          !.rev = live.rev + 1]

CommitBegin(h) ==
    /\ job[h].pc = "commit"
    /\ publicationFree
    /\ IF LeasesCurrent(h) /\ Changed(h) # {}
       THEN /\ live.rev < MaxRev
            /\ pub' = h
            /\ based' = based \cup {h}
            /\ job' = [job EXCEPT ![h].pc = "save", ![h].rev = live.rev,
                                  ![h].img = Committed(h)]
            /\ UNCHANGED lease
       ELSE /\ lease' = Released(h)
            /\ Leave(h)
            /\ UNCHANGED <<pub, based>>
    /\ UNCHANGED <<live, rm, cache, known, pool, removed>>

(* Return from CommitLeaseOutcomes, unlocking and releasing.               *)
CommitReturn(h) ==
    /\ pub' = "none"
    /\ lease' = Released(h)
    /\ Leave(h)

(* A stale image is not written, and that is no error.                     *)
CommitSave(h) ==
    /\ job[h].pc = "save"
    /\ \/ /\ \/ StaleImage(job[h].img) /\ UNCHANGED cache
             \/ ~StaleImage(job[h].img) /\ SaveSucceeds(job[h].img)
          /\ Goto(h, "check")
          /\ UNCHANGED <<pub, lease>>
       \/ /\ ~StaleImage(job[h].img) /\ SaveFails(job[h].img)
          /\ CommitReturn(h)
    /\ UNCHANGED <<live, based, rm, known, pool, removed>>

(* The revision is compared under the mutex of the snapshot, the pointer   *)
(* once more by the compare-and-swap after it.                             *)
CommitCheck(h) ==
    /\ job[h].pc = "check"
    /\ Goto(h, IF h \in based /\ live.rev = job[h].rev THEN "swap" ELSE "restore")
    /\ UNCHANGED <<live, based, pub, lease, rm, cache, known, pool, removed>>

CommitSwap(h) ==
    /\ job[h].pc = "swap"
    /\ IF h \in based
       THEN Publish(job[h].img) /\ CommitReturn(h)
       ELSE Goto(h, "restore") /\ UNCHANGED <<live, based, pub, lease>>
    /\ UNCHANGED <<rm, cache, known, pool, removed>>

(* restoreLiveSnapshot saves the published snapshot whatever its revision  *)
(* and then read-locks publicationMu, which h itself holds: "relock" is    *)
(* never left.                                                             *)
CommitRestore(h) ==
    /\ job[h].pc = "restore"
    /\ \/ /\ SaveSucceeds(live)
          /\ Goto(h, "relock")
          /\ UNCHANGED <<pub, lease>>
       \/ SaveFails(live) /\ CommitReturn(h)
    /\ UNCHANGED <<live, based, rm, known, pool, removed>>

(* The ReleaseLeases the caller deferred.                                  *)
ReleaseLeases(h) ==
    /\ job[h].pc = "release"
    /\ lease' = Released(h)
    /\ job' = [job EXCEPT ![h] = NoJob]
    /\ based' = based \ {h}
    /\ UNCHANGED <<live, pub, rm, cache, known, pool, removed>>

-----------------------------------------------------------------------------
(* RemoveKeys, serialised by removalMu.  The set of keys under removal is  *)
(* read only by withPromotionLease, which has no caller, and is left out.  *)

AttemptsLeft(n) == n < RemovalAttempts

RemovalCurrent == "remove" \in based /\ live.rev = rm.rev

(* Return, build again, or put the published snapshot back on disk.        *)
RemoveEnd == rm' = NoRemoval /\ based' = based \ {"remove"}
RemoveRetry ==
    IF AttemptsLeft(rm.tries)
    THEN /\ rm' = [NoRemoval EXCEPT !.pc = "build", !.keys = rm.keys, !.tries = rm.tries + 1]
         /\ based' = based \ {"remove"}
    ELSE RemoveEnd
RemoveRestore(failed) ==
    /\ rm' = [rm EXCEPT !.pc = "restore", !.failed = failed, !.restores = @ + 1,
                        !.rev = 0, !.img = NoSnapshot]
    /\ based' = based \ {"remove"}

RemoveStart ==
    /\ rm.pc = "idle"
    /\ publicationFree
    /\ \E K \in SUBSET Node \ {{}} :
          rm' = [NoRemoval EXCEPT !.pc = "build", !.keys = K, !.tries = 1]
    /\ UNCHANGED <<live, based, pub, lease, job, cache, known, pool, removed>>

(* A snapshot without the keys; failures are kept.                         *)
RemoveBuild ==
    /\ rm.pc = "build"
    /\ IF rm.keys \cap Declared(live, "candidate") = {} THEN RemoveEnd
       ELSE /\ live.rev < MaxRev
            /\ rm' = [rm EXCEPT !.pc = "precheck", !.rev = live.rev,
                        !.img = [live EXCEPT !.rev = live.rev + 1,
                           !.pend = [n \in Node |-> IF n \in rm.keys THEN {}
                                                    ELSE live.pend[n]]]]
            /\ based' = based \cup {"remove"}
    /\ UNCHANGED <<live, pub, lease, job, cache, known, pool, removed>>

RemovePrecheck ==
    /\ rm.pc = "precheck"
    /\ publicationFree
    /\ IF RemovalCurrent THEN rm' = [rm EXCEPT !.pc = "save"] /\ UNCHANGED based
       ELSE RemoveRetry
    /\ UNCHANGED <<live, pub, lease, job, cache, known, pool, removed>>

RemoveSave ==
    /\ rm.pc = "save"
    /\ \/ /\ \/ StaleImage(rm.img) /\ UNCHANGED cache
             \/ ~StaleImage(rm.img) /\ SaveSucceeds(rm.img)
          /\ rm' = [rm EXCEPT !.pc = "publish"]
          /\ UNCHANGED based
       \/ ~StaleImage(rm.img) /\ SaveFails(rm.img) /\ RemoveRestore(TRUE)
    /\ UNCHANGED <<live, pub, lease, job, known, pool, removed>>

RemovePublish ==
    /\ rm.pc = "publish"
    /\ publicationFree
    /\ IF RemovalCurrent
       THEN /\ removed' = removed \cup (rm.keys \cap Declared(live, "candidate"))
            /\ Publish(rm.img)
            /\ rm' = NoRemoval
       ELSE RemoveRestore(FALSE) /\ UNCHANGED <<live, removed>>
    /\ UNCHANGED <<pub, lease, job, cache, known, pool>>

(* restoreLiveSnapshot: clone, save whatever the revision, compare.        *)
RestoreClone ==
    /\ rm.pc = "restore"
    /\ rm' = [rm EXCEPT !.pc = "force", !.rev = live.rev, !.img = live]
    /\ based' = based \cup {"remove"}
    /\ UNCHANGED <<live, pub, lease, job, cache, known, pool, removed>>

(* Wrong on purpose: does not force the save.                              *)
RestoreSaveMutant ==
    /\ rm.pc = "force"
    /\ IF StaleImage(rm.img) THEN UNCHANGED cache ELSE SaveSucceeds(rm.img)
    /\ rm' = [rm EXCEPT !.pc = "verify", !.img = NoSnapshot]
    /\ UNCHANGED <<live, based, pub, lease, job, known, pool, removed>>

RestoreSave ==
    /\ rm.pc = "force"
    /\ \/ /\ SaveSucceeds(rm.img)
          /\ rm' = [rm EXCEPT !.pc = "verify", !.img = NoSnapshot]
          /\ UNCHANGED based
       \/ SaveFails(rm.img) /\ RemoveEnd
    /\ UNCHANGED <<live, pub, lease, job, known, pool, removed>>

RestoreVerify ==
    /\ rm.pc = "verify"
    /\ publicationFree
    /\ \/ /\ RemovalCurrent
          /\ IF rm.failed THEN RemoveEnd ELSE RemoveRetry
          /\ UNCHANGED excused
       \/ /\ ~RemovalCurrent
          /\ AttemptsLeft(rm.restores)
          /\ RemoveRestore(rm.failed)
          /\ UNCHANGED excused
       \/ /\ ~RemovalCurrent
          /\ ~AttemptsLeft(rm.restores)
          /\ RemoveEnd
          /\ excused' = TRUE
    /\ UNCHANGED <<live, pub, lease, job, disk, saved, known, pool, removed>>

-----------------------------------------------------------------------------
(* The environment.                                                        *)

(* The pool forgets a node: see ProxyPool.                                 *)
PoolDrop ==
    /\ \E n \in pool : pool' = pool \ {n}
    /\ UNCHANGED <<live, based, pub, lease, job, rm, cache, known, removed>>

(* A source is switched on or off or edited, which gives it a new revision:*)
(* srcs holds the sources a worker has read that are still what it read.   *)
ChangeSource(s) ==
    /\ lifecycleFree
    /\ job' = [h \in Holder |-> [job[h] EXCEPT !.srcs = @ \ {s}]]
    /\ UNCHANGED <<live, based, pub, lease, rm, cache, known, pool, removed>>

(* What decoding the cache yields.  The loaded snapshot has a generation   *)
(* of its own, and ResetHealthOutcomes gives it the phase "restored" and   *)
(* one more revision; both are counted from what was loaded.               *)
Loaded(image) == [pend |-> image.pend, fail |-> image.fail,
                  gen |-> 0, rev |-> 1, phase |-> "restored"]

(* The process dies and starts again from the cache.                       *)
Restart ==
    /\ live' = Loaded(disk)
    /\ saved' = [gen |-> 0, rev |-> 0]
    /\ based' = {} /\ pub' = "none" /\ rm' = NoRemoval
    /\ lease' = [k \in Kind |-> [n \in Node |-> "none"]]
    /\ job' = [h \in Holder |-> NoJob] /\ known' = [h \in Holder |-> {}]
    /\ excused' = FALSE
    /\ UNCHANGED <<disk, pool, removed>>

RefreshNext == \/ LeasePendingKeys \/ RefreshStart \/ RefreshAbort \/ RefreshFinal
               \/ reconcileFullRefreshCatalog \/ PoolUpdate("refresh")
               \/ complete \/ persistCompletedSnapshot
BatchNext == BatchLease \/ BatchAbort \/ BatchFinal \/ PoolUpdate("batch")
SpeedNext(t) == SpeedLease(t) \/ SpeedRefuse(t) \/ SpeedEnd(t) \/ SpeedPromote(t)
CommitNext(h) == \/ CommitBegin(h) \/ CommitSave(h) \/ CommitCheck(h)
                 \/ CommitSwap(h) \/ CommitRestore(h) \/ ReleaseLeases(h)
RemoveNext == \/ RemoveBuild \/ RemovePrecheck \/ RemoveSave \/ RemovePublish
              \/ RestoreClone \/ RestoreSave \/ RestoreVerify

Next ==
    \/ begin \/ RefreshNext
    \/ RetryLease \/ BatchNext
    \/ \E t \in Tester : SpeedNext(t)
    \/ \E h \in Holder : candidateKnownSnapshot(h) \/ CommitNext(h)
    \/ RemoveStart \/ RemoveNext
    \/ PoolDrop
    \/ \E s \in Source : ChangeSource(s)
    \/ Restart

Spec == Init /\ [][Next]_vars

(* Workers and handlers that have begun go on.                             *)
FairSpec == /\ Spec
            /\ WF_vars(candidateKnownSnapshot("refresh") \/ RefreshNext)
            /\ WF_vars(BatchNext) /\ WF_vars(RemoveNext)
            /\ \A t \in Tester : WF_vars(SpeedNext(t))
            /\ \A h \in Holder : WF_vars(CommitNext(h))

-----------------------------------------------------------------------------
(* Properties.                                                             *)

(* Every variable has the shape the code gives it; a removal never makes   *)
(* more attempts, nor more restores, than candidateRemovalMaxAttempts.     *)
JobPc == {"idle", "begun", "leased", "release"} \cup Probing \cup Publishing
JobType ==
    [pc : JobPc, kind : Kind, keys : SUBSET Node, same : SUBSET Node,
     att : [Node -> SUBSET Source], srcs : SUBSET Source,
     out : [Node -> Outcome], gen : 0 .. MaxGen, rev : 0 .. MaxRev,
     full : BOOLEAN, img : Snapshot]
RemovalType ==
    [pc : {"idle", "build", "precheck", "save", "publish", "restore", "force", "verify"},
     keys : SUBSET Node, rev : 0 .. MaxRev,
     tries : 0 .. RemovalAttempts, restores : 0 .. RemovalAttempts,
     failed : BOOLEAN, img : Snapshot]
TypeOK ==
    /\ live \in Snapshot
    /\ based \subseteq Actor
    /\ pub \in Holder \cup {"none"}
    /\ lease \in [Kind -> [Node -> Holder \cup {"none"}]]
    /\ job \in [Holder -> JobType]
    /\ rm \in RemovalType
    /\ disk \in [pend : [Node -> SUBSET Source], fail : [Node -> SUBSET Source]]
    /\ saved \in [gen : 0 .. MaxGen, rev : 0 .. MaxRev]
    /\ known \in [Holder -> SUBSET SUBSET Node]
    /\ pool \subseteq Node /\ removed \subseteq Node /\ excused \in BOOLEAN

(* A node that failed its check is isolated: however refreshes, batches,   *)
(* speed tests, removals, failed saves and restarts interleave, no node is *)
(* pending and failed at once, neither in memory nor in the file.          *)
OneHome ==
    \A n \in Node : /\ live.pend[n] = {} \/ live.fail[n] = {}
                    /\ disk.pend[n] = {} \/ disk.fail[n] = {}

(* From the lease to its own release a worker is the only one that probes  *)
(* the record, although every call releases twice: once by itself and once *)
(* by the deferred release of its caller.                                  *)
Working(h) == job[h].pc \notin {"idle", "begun", "release"}
LeaseExclusive ==
    \A h \in Holder : Working(h) =>
        \A n \in job[h].keys : lease[job[h].kind][n] = h

(* A pending record becomes a failure only by an unusable outcome that was *)
(* measured on the declaration it has at that moment (a restart loads what *)
(* was measured before it).                                                *)
MeasuredFailure ==
    \A n \in Node : live.pend[n] # {} /\ live'.fail[n] # {} /\ live'.phase # "restored" =>
        \E h \in Holder : n \in job[h].same /\ job[h].out[n] = "down"
FailureIsMeasured == [][MeasuredFailure]_vars

(* A removal that was reported successful is durable: until a source       *)
(* advertises the key again it is in no snapshot, in memory or on disk,    *)
(* whatever writer is late and wherever the process restarts.              *)
RemovedStaysRemoved == \A n \in removed : live.pend[n] = {} /\ disk.pend[n] = {}

(* Once a refresh has completed and nothing is under way, the file holds   *)
(* the published catalog, unless the last save was reported to have failed.*)
Quiet == rm.pc = "idle" /\ \A h \in Holder : job[h].pc \in {"idle", "probing", "begun", "leased"}
DiskCatchesUp ==
    live.phase = "complete" /\ Quiet /\ ~excused => disk = Image(live)

(* Every lease of a speed test ends: commit, cancellation, conflict and    *)
(* failure all lead to its release.                                        *)
LeasesEnd == \A t \in Tester, n \in Node :
                 lease["candidate"][n] = t ~> lease["candidate"][n] # t

(* Automatic work never takes a failure out of its collection while one of *)
(* its sources is still valid: only a retry that finds it alive does, or a *)
(* restart that loads an older file.  Not kept by the code: README, 3.     *)
Cured(n) == \E h \in Holder : /\ n \in job[h].keys /\ job[h].kind = "failed"
                              /\ job[h].out[n] = "alive"
Withdraws(n) == /\ job["refresh"].pc = "reconcile"
                /\ live.fail[n] \cap job["refresh"].srcs = {}
FailuresStay ==
    [][\A n \in Node : live.fail[n] # {} /\ live'.fail[n] = {} =>
          Cured(n) \/ Withdraws(n) \/ live'.phase = "restored"]_vars
====
