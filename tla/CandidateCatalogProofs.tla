----------------------- MODULE CandidateCatalogProofs -----------------------
(* The candidate catalog, its leases and its disk cache, for any number of *)
(* nodes, sources, speed tests, refreshes and revisions.                   *)
EXTENDS CandidateCatalog, TLAPS

-----------------------------------------------------------------------------
(* Isolation: no snapshot that is published, stored or about to be holds a *)
(* node twice.                                                             *)
Disjoint(s) == \A n \in Node : s.pend[n] = {} \/ s.fail[n] = {}
AllDisjoint ==
    /\ Disjoint(live) /\ Disjoint(disk)
    /\ \A h \in Holder : Disjoint(job[h].img)
    /\ Disjoint(rm.img)

-----------------------------------------------------------------------------
(* publicationMu is held exactly by the worker that is inside              *)
(* CommitLeaseOutcomes.                                                    *)
Held == {"save", "check", "swap", "restore", "relock"}
PubHeld == \A h \in Holder : pub = h <=> job[h].pc \in Held

(* A refresh owns its generation: until it has completed the snapshot, the *)
(* published one is of its generation and "checking".                      *)
BeforeComplete == {"begun", "leased", "probing", "reconcile", "update"} \cup DOMAIN Persisting
Persists == {"persisting", "dropping", "leaving"}
Refresh == job["refresh"]
RefreshOwns ==
    /\ Refresh.pc \in BeforeComplete => live.gen = Refresh.gen /\ live.phase = "checking"
    /\ Refresh.pc \in Persists => Refresh.img.gen = live.gen /\ Refresh.img.rev <= live.rev

(* The image of a commit is the published snapshot with the outcomes.  The *)
(* snapshot itself stays until the swap, except that a refresh may mark it *)
(* complete meanwhile, which is one more revision of it.                   *)
CommitStage == {"save", "check", "swap"}
CommitPend(h) == [n \in Node |-> IF n \in Changed(h) /\ job[h].kind = "candidate" THEN {}
                                 ELSE live.pend[n]]
CommitFail(h) == [n \in Node |-> IF n \in Changed(h) /\ job[h].kind = "candidate"
                                 THEN live.pend[n]
                                 ELSE IF n \in Changed(h) /\ job[h].out[n] = "alive" THEN {}
                                 ELSE live.fail[n]]
CommitBase(h) ==
    /\ h \in based
    /\ job[h].keys \subseteq job[h].same
    /\ job[h].img.pend = CommitPend(h) /\ job[h].img.fail = CommitFail(h)
    /\ job[h].img.gen = live.gen /\ job[h].img.rev = job[h].rev + 1
    /\ \/ live.rev = job[h].rev /\ job[h].img.phase = live.phase
       \/ /\ live.rev = job[h].rev + 1
          /\ job[h].img.phase = "checking" /\ Refresh.pc \notin BeforeComplete
CommitsBased == \A h \in Holder : job[h].pc \in CommitStage => CommitBase(h)

(* Versions of the catalog within one life of the process.                 *)
Before(s, t) == s.gen < t.gen \/ (s.gen = t.gen /\ s.rev < t.rev)
UpTo(s, t) == s.gen < t.gen \/ (s.gen = t.gen /\ s.rev <= t.rev)

(* The image of a removal is the published snapshot without its keys while *)
(* its capture is current, and not newer than the published one once it is *)
(* not; while it is current, a commit under way started from the same      *)
(* revision.                                                               *)
RemovalBuilt ==
    [live EXCEPT !.rev = live.rev + 1,
       !.pend = [n \in Node |-> IF n \in rm.keys THEN {} ELSE live.pend[n]]]
RemovalBased ==
    /\ "remove" \in based => rm.rev <= live.rev
    /\ rm.pc \in {"precheck", "save", "publish"} /\ RemovalCurrent => rm.img = RemovalBuilt
    /\ rm.pc \in {"save", "publish"} =>
          IF RemovalCurrent
          THEN \A h \in Holder : pub = h => job[h].pc \in CommitStage /\ job[h].rev = rm.rev
          ELSE UpTo(rm.img, live)
    /\ rm.pc = "force" => UpTo(rm.img, live) /\ rm.img.rev = rm.rev
                          /\ (RemovalCurrent => rm.img = live)

CatalogInv == PubHeld /\ RefreshOwns /\ CommitsBased /\ RemovalBased

-----------------------------------------------------------------------------
(* The file.  A commit whose image was saved and is still to be published. *)
CommitSaved(h) == pub = h /\ job[h].pc \in {"check", "swap"} /\ job[h].rev = live.rev
SomeCommitSaved == \E h \in Holder : CommitSaved(h)

(* What was saved last is not newer than the published snapshot, except    *)
(* for the one revision that a commit or a removal saves first.            *)
SavedBound ==
    \/ UpTo(saved, live)
    \/ /\ saved.gen = live.gen /\ saved.rev = live.rev + 1
       /\ SomeCommitSaved \/ (rm.pc = "publish" /\ RemovalCurrent)

(* A removal about to publish has its image on disk, unless a commit that  *)
(* will overtake it was saved first.                                       *)
RemovalSaved ==
    rm.pc = "publish" /\ RemovalCurrent =>
       /\ saved.gen = rm.img.gen /\ saved.rev = rm.img.rev
       /\ disk = Image(rm.img) \/ SomeCommitSaved

(* A forced save that is current has put the published snapshot on disk.   *)
Settled == saved.gen = live.gen /\ saved.rev = live.rev /\ disk = Image(live)
RestoreSaved ==
    rm.pc = "verify" /\ RemovalCurrent =>
       \/ Settled
       \/ excused /\ saved.gen = live.gen /\ saved.rev = live.rev
       \/ SomeCommitSaved

SaveInv == SavedBound /\ RemovalSaved /\ RestoreSaved

(* Once a refresh is complete the file is right, or somebody will put it   *)
(* right: the refresh itself, a commit, or a removal and its restores.     *)
RemovalWill == rm.pc \in {"publish", "restore", "force", "verify"}
CommitWill == \E h \in Holder : job[h].pc \in {"check", "swap", "restore"}
RefreshWill == Refresh.pc \in Persists /\ Refresh.img.rev = live.rev /\ Before(saved, live)
CommitOnDisk ==
    \A h \in Holder :
       job[h].pc \in {"check", "swap"} /\ job[h].img.phase = "complete" =>
         \/ rm.pc \in {"publish", "verify"}
         \/ /\ saved.gen = job[h].img.gen /\ saved.rev = job[h].img.rev
            /\ disk = Image(job[h].img) \/ excused
CompletedImage ==
    live.phase = "complete" /\ Refresh.pc \in Persists /\ Refresh.img.rev = live.rev =>
       Image(Refresh.img) = Image(live)
SomeoneSaves ==
    live.phase = "complete" /\ ~excused =>
       Settled \/ RefreshWill \/ CommitWill \/ RemovalWill

DiskInv == CommitOnDisk /\ CompletedImage /\ SomeoneSaves

-----------------------------------------------------------------------------
(* Removals.  No image that may still be written holds a removed key: not  *)
(* the one a removal has built or cloned, nor the one a refresh is about   *)
(* to persist unless it is stale, now or after the forced save under way.  *)
RemovedImages ==
    \A n \in removed :
       /\ rm.pc \in {"precheck", "save", "publish", "force"} => rm.img.pend[n] = {}
       /\ Refresh.pc \in Persists =>
             \/ Refresh.img.pend[n] = {}
             \/ StaleImage(Refresh.img) /\ ~(rm.pc = "force" /\ Before(rm.img, Refresh.img))
RemovedInv == RemovedStaysRemoved /\ RemovedImages
-----------------------------------------------------------------------------
(* Type correctness.                                                       *)
LEMMA Empties ==
    /\ NoRecords \in [Node -> SUBSET Source]
    /\ NoSnapshot \in Snapshot /\ NoJob \in JobType /\ NoRemoval \in RemovalType
<1> USE CatalogBoundsAssumption, RemovalAttemptsAssumption
<1>1. NoRecords \in [Node -> SUBSET Source]
  BY DEF NoRecords
<1>2. NoSnapshot \in Snapshot
  BY <1>1 DEF NoSnapshot, Snapshot
<1>3. NoJob \in JobType
  BY <1>1, <1>2 DEF NoJob, JobType, JobPc, Kind, Outcome
<1>4. NoRemoval \in RemovalType
  BY <1>2 DEF NoRemoval, RemovalType
<1> QED BY <1>1, <1>2, <1>3, <1>4

LEMMA PersistingDomain ==
    /\ DOMAIN Persisting = {"completing", "discarding", "aborting"}
    /\ Persisting["completing"] = "persisting" /\ Persisting["discarding"] = "dropping"
    /\ Persisting["aborting"] = "leaving"
BY DEF Persisting

LEMMA Pcs ==
    {"update", "commit", "save", "check", "swap", "restore", "relock", "release"} \subseteq JobPc
BY DEF JobPc, Publishing, Committing

LEMMA Holders ==
    /\ "refresh" \in Holder /\ "batch" \in Holder /\ Tester \subseteq Holder
    /\ "refresh" \notin Tester /\ "batch" \notin Tester
    /\ "none" \notin Holder /\ "remove" \notin Holder
    /\ Holder \subseteq Actor /\ "remove" \in Actor
BY TesterAssumption DEF Holder, Actor

(* A worker that moves on, leaves or starts.                               *)
LEMMA JobUpdates ==
    ASSUME NEW j \in JobType
    PROVE  /\ \A pc \in JobPc : [j EXCEPT !.pc = pc] \in JobType
           /\ \A S \in SUBSET Source : [j EXCEPT !.srcs = S] \in JobType
           /\ \A S \in SUBSET Node : [j EXCEPT !.same = S] \in JobType
           /\ [NoJob EXCEPT !.pc = "release", !.kind = j.kind, !.keys = j.keys] \in JobType
<1>1. \A pc \in JobPc : [j EXCEPT !.pc = pc] \in JobType
  BY DEF JobType
<1>2. \A S \in SUBSET Source : [j EXCEPT !.srcs = S] \in JobType
  BY DEF JobType
<1>3. \A S \in SUBSET Node : [j EXCEPT !.same = S] \in JobType
  BY DEF JobType
<1>4. [NoJob EXCEPT !.pc = "release", !.kind = j.kind, !.keys = j.keys] \in JobType
  BY Empties DEF JobType, JobPc
<1> QED BY <1>1, <1>2, <1>3, <1>4

LEMMA GotoType ==
    ASSUME job \in [Holder -> JobType], NEW h \in Holder,
           Leave(h) \/ \E pc \in JobPc : Goto(h, pc)
    PROVE  job' \in [Holder -> JobType]
<1>1. job[h] \in JobType
  OBVIOUS
<1>2. CASE Leave(h)
  BY <1>1, <1>2, JobUpdates DEF Leave
<1>3. ASSUME NEW pc \in JobPc, Goto(h, pc) PROVE job' \in [Holder -> JobType]
  <2>1. [job[h] EXCEPT !.pc = pc] \in JobType
    BY <1>1, JobUpdates
  <2> QED BY <1>3, <2>1 DEF Goto
<1> QED BY <1>2, <1>3

LEMMA ReleasedType ==
    ASSUME lease \in [Kind -> [Node -> Holder \cup {"none"}]], NEW h \in Holder,
           job \in [Holder -> JobType]
    PROVE  Released(h) \in [Kind -> [Node -> Holder \cup {"none"}]]
<1>1. job[h].kind \in Kind
  BY DEF JobType
<1> QED BY <1>1 DEF Released

LEMMA SaveTypes ==
    ASSUME TypeOK, NEW s \in Snapshot, SaveSucceeds(s) \/ SaveFails(s)
    PROVE  /\ disk' \in [pend : [Node -> SUBSET Source], fail : [Node -> SUBSET Source]]
           /\ saved' \in [gen : 0 .. MaxGen, rev : 0 .. MaxRev] /\ excused' \in BOOLEAN
<1>1. Image(s) \in [pend : [Node -> SUBSET Source], fail : [Node -> SUBSET Source]]
  BY DEF Image, Snapshot
<1>2. CASE SaveSucceeds(s)
  <2>1. excused' \in BOOLEAN
    BY <1>2, Zenon DEF SaveSucceeds
  <2> QED BY <1>1, <1>2, <2>1 DEF SaveSucceeds, Snapshot
<1>3. CASE SaveFails(s)
  BY <1>1, <1>3 DEF SaveFails, TypeOK
<1> QED BY <1>2, <1>3

LEMMA TypeInit == Init => TypeOK
<1> SUFFICES ASSUME Init PROVE TypeOK
  OBVIOUS
<1>1. Image(NoSnapshot) \in [pend : [Node -> SUBSET Source], fail : [Node -> SUBSET Source]]
  BY Empties DEF Image, NoSnapshot
<1>2. saved \in [gen : 0 .. MaxGen, rev : 0 .. MaxRev]
  BY CatalogBoundsAssumption DEF Init
<1>3. lease \in [Kind -> [Node -> Holder \cup {"none"}]]
  BY DEF Init
<1>4. known \in [Holder -> SUBSET SUBSET Node]
  BY DEF Init
<1> QED BY <1>1, <1>2, <1>3, <1>4, Empties DEF Init, TypeOK

(* Publishing a changed snapshot.                                          *)
LEMMA CommittedType ==
    ASSUME TypeOK, NEW h \in Holder, live.rev < MaxRev
    PROVE  Committed(h) \in Snapshot
<1>1. live.pend \in [Node -> SUBSET Source] /\ live.fail \in [Node -> SUBSET Source]
      /\ live.gen \in 0 .. MaxGen /\ live.rev + 1 \in 0 .. MaxRev
      /\ live.phase \in {"restored", "checking", "complete"}
  BY CatalogBoundsAssumption DEF TypeOK, Snapshot
<1> DEFINE moved == {n \in Changed(h) : job[h].kind = "candidate"}
           cured == {n \in Changed(h) : job[h].out[n] = "alive"}
           P == [n \in Node |-> IF n \in moved THEN {} ELSE live.pend[n]]
           F == [n \in Node |-> IF n \in moved THEN live.pend[n]
                                ELSE IF n \in cured THEN {} ELSE live.fail[n]]
<1>2. P \in [Node -> SUBSET Source] /\ F \in [Node -> SUBSET Source]
  BY <1>1
<1>3. Committed(h) = [live EXCEPT !.pend = P, !.fail = F, !.rev = live.rev + 1]
  BY DEF Committed
<1> HIDE DEF P, F
<1> QED BY <1>1, <1>2, <1>3 DEF TypeOK, Snapshot

(* Whoever draws leases draws them on records that nobody has leased.      *)
Drawn(h, kind) ==
    \E T \in SUBSET Node : (\A n \in T : lease[kind][n] = "none") /\ Lease(h, kind, T)

LEMMA LeaseActions ==
    /\ LeasePendingKeys => Drawn("refresh", "candidate")
    /\ BatchLease => Drawn("batch", "candidate") \/ UNCHANGED <<lease, job>>
    /\ RetryLease => Drawn("batch", "failed")
    /\ \A t \in Tester : SpeedLease(t) => Drawn(t, "candidate")
<1>1. \A K : /\ LeasePending(K) \subseteq Node
             /\ \A n \in LeasePending(K) : lease["candidate"][n] = "none"
  BY DEF LeasePending, Declared
<1>2. LeaseFailed \subseteq Node /\ \A n \in LeaseFailed : lease["failed"][n] = "none"
  BY DEF LeaseFailed, Declared
<1>3. ASSUME NEW h, NEW K, NEW T \in SUBSET LeasePending(K), Lease(h, "candidate", T)
      PROVE  Drawn(h, "candidate")
  <2>1. T \in SUBSET Node /\ \A n \in T : lease["candidate"][n] = "none"
    BY <1>1
  <2> QED BY <1>3, <2>1 DEF Drawn
<1>4. LeasePendingKeys => Drawn("refresh", "candidate")
  BY <1>3 DEF LeasePendingKeys
<1>5. BatchLease => Drawn("batch", "candidate") \/ UNCHANGED <<lease, job>>
  BY <1>3 DEF BatchLease
<1>6. ASSUME RetryLease PROVE Drawn("batch", "failed")
  <2>1. PICK T \in SUBSET LeaseFailed : Lease("batch", "failed", T)
    BY <1>6 DEF RetryLease
  <2>2. T \in SUBSET Node /\ \A n \in T : lease["failed"][n] = "none"
    BY <1>2
  <2> QED BY <2>1, <2>2 DEF Drawn
<1>7. ASSUME NEW t \in Tester, SpeedLease(t) PROVE Drawn(t, "candidate")
  <2>1. PICK K \in known[t] : \E n \in LeasePending(K) : Lease(t, "candidate", {n})
    BY <1>7 DEF SpeedLease
  <2>2. PICK n \in LeasePending(K) : Lease(t, "candidate", {n})
    BY <2>1
  <2> QED BY <1>3, <2>2
<1> QED BY <1>4, <1>5, <1>6, <1>7

(* What begin does for the sources V of which F failed, their records adv  *)
(* and the declarations C that changed.                                    *)
BeginWith(full, V, F, adv, C) ==
    /\ IF full THEN F \subseteq V ELSE Cardinality(V) = 1 /\ F = {}
    /\ LET kept == IF full THEN F ELSE Source \ V
           s == reconcileCandidateFailures(mergeCandidateSnapshots(adv, kept))
       IN  /\ Publish([s EXCEPT !.gen = live.gen + 1, !.rev = 1, !.phase = "checking"])
           /\ removed' = {n \in removed : s.pend[n] = {} /\ s.fail[n] = {}}
    /\ job' = [h \in Holder |-> IF h = "refresh"
          THEN [NoJob EXCEPT !.pc = "begun", !.srcs = V, !.full = full, !.gen = live.gen + 1]
          ELSE [job[h] EXCEPT !.same = @ \ C]]

(* Restores are counted from the attempt they belong to.                   *)
RestoresCounted == rm.pc \notin {"restore", "force", "verify"} => rm.restores = 0

LEMMA TypeStep == TypeOK /\ RestoresCounted /\ [Next]_vars => TypeOK'
<1> SUFFICES ASSUME TypeOK, RestoresCounted, [Next]_vars PROVE TypeOK'
  OBVIOUS
<1> DEFINE Records == [Node -> SUBSET Source]
<1>0. /\ live \in Snapshot /\ based \subseteq Actor /\ pub \in Holder \cup {"none"}
      /\ lease \in [Kind -> [Node -> Holder \cup {"none"}]]
      /\ job \in [Holder -> JobType] /\ rm \in RemovalType
      /\ disk \in [pend : Records, fail : Records]
      /\ saved \in [gen : 0 .. MaxGen, rev : 0 .. MaxRev]
      /\ known \in [Holder -> SUBSET SUBSET Node]
      /\ pool \subseteq Node /\ removed \subseteq Node /\ excused \in BOOLEAN
  BY DEF TypeOK
<1>a. /\ live.pend \in Records /\ live.fail \in Records
      /\ live.gen \in 0 .. MaxGen /\ live.rev \in 0 .. MaxRev
      /\ live.gen \in Nat /\ live.rev \in Nat
      /\ MaxGen \in Nat /\ MaxRev \in Nat /\ RemovalAttempts \in Nat
      /\ live.phase \in {"restored", "checking", "complete"}
      /\ \A h \in Holder : job[h] \in JobType
  BY <1>0, CatalogBoundsAssumption, RemovalAttemptsAssumption DEF Snapshot
<1>b. \A h \in Holder :
         /\ job[h].keys \subseteq Node /\ job[h].same \subseteq Node
         /\ job[h].kind \in Kind /\ job[h].out \in [Node -> Outcome]
         /\ job[h].att \in Records /\ job[h].srcs \subseteq Source
         /\ job[h].img \in Snapshot /\ job[h].gen \in 0 .. MaxGen /\ job[h].rev \in 0 .. MaxRev
  BY <1>a DEF JobType
<1>c. /\ rm.img \in Snapshot /\ rm.keys \subseteq Node /\ rm.failed \in BOOLEAN
      /\ rm.tries \in 0 .. RemovalAttempts /\ rm.restores \in 0 .. RemovalAttempts
  BY <1>0 DEF RemovalType
<1> USE Holders
<1>1. CASE begin
  <2>p. PICK full \in BOOLEAN, V \in SUBSET Source, F \in SUBSET Source :
           \E adv \in buildCandidateSnapshot(V \ F) :
           \E C \in SUBSET {n \in Node : adv[n] # {}} : BeginWith(full, V, F, adv, C)
    BY <1>1, Zenon DEF begin, BeginWith
  <2>q. PICK adv \in buildCandidateSnapshot(V \ F) :
           \E C \in SUBSET {n \in Node : adv[n] # {}} : BeginWith(full, V, F, adv, C)
    BY <2>p
  <2>r. PICK C \in SUBSET {n \in Node : adv[n] # {}} : BeginWith(full, V, F, adv, C)
    BY <2>q
  <2> DEFINE kept == IF full THEN F ELSE Source \ V
             found == mergeCandidateSnapshots(adv, kept)
             s == reconcileCandidateFailures(found)
  <2>1. found \in Records
    BY <1>a DEF mergeCandidateSnapshots, buildCandidateSnapshot
  <2>2. s \in Snapshot
    <3> HIDE DEF found
    <3> DEFINE P == [n \in Node |-> IF live.fail[n] # {} THEN {} ELSE found[n]]
               Q == [n \in Node |-> IF live.fail[n] # {} THEN live.fail[n] \cup found[n] ELSE {}]
    <3>1. P \in Records /\ Q \in Records
      BY <2>1, <1>a
    <3>2. s = [live EXCEPT !.pend = P, !.fail = Q]
      BY DEF reconcileCandidateFailures
    <3> HIDE DEF P, Q
    <3> QED BY <3>1, <3>2, <1>0 DEF Snapshot
  <2>3. live.gen + 1 \in 0 .. MaxGen /\ 1 \in 0 .. MaxRev
    BY <1>1, <1>a, CatalogBoundsAssumption DEF begin
  <2>4. live' \in Snapshot /\ based' = {}
    <3> HIDE DEF s
    <3>1. live' = [s EXCEPT !.gen = live.gen + 1, !.rev = 1, !.phase = "checking"]
      BY <2>r DEF BeginWith, Publish, s
    <3>2. based' = {}
      BY <2>r DEF BeginWith, Publish
    <3> QED BY <2>2, <2>3, <3>1, <3>2 DEF Snapshot
  <2>5. job' \in [Holder -> JobType]
    <3>1. [NoJob EXCEPT !.pc = "begun", !.srcs = V, !.full = full, !.gen = live.gen + 1] \in JobType
      BY <2>3, Empties DEF JobType, JobPc
    <3>2. \A h \in Holder : [job[h] EXCEPT !.same = @ \ C] \in JobType
      BY <1>a DEF JobType
    <3> QED BY <2>r, <3>1, <3>2 DEF BeginWith
  <2>6. removed' \subseteq Node
    BY <1>0, <2>r DEF BeginWith
  <2> QED BY <1>0, <1>1, <2>4, <2>5, <2>6 DEF TypeOK, begin, cache
<1>2. ASSUME NEW h \in Holder, NEW kind \in Kind, NEW T \in SUBSET Node, Lease(h, kind, T)
      PROVE  job' \in [Holder -> JobType] /\ lease' \in [Kind -> [Node -> Holder \cup {"none"}]]
  <2>1. lease' \in [Kind -> [Node -> Holder \cup {"none"}]]
    <3>1. [n \in Node |-> IF n \in T THEN h ELSE lease[kind][n]] \in [Node -> Holder \cup {"none"}]
      BY <1>0
    <3> QED BY <1>0, <1>2, <3>1 DEF Lease
  <2> DEFINE A == [n \in Node |-> IF n \in T /\ h = "refresh" THEN live.pend[n] ELSE {}]
             r == IF h \in Tester THEN live.rev ELSE 0
             S == IF h = "batch" THEN Source ELSE job[h].srcs
             pc == IF h = "refresh" THEN "leased" ELSE "probing"
  <2>2. A \in Records /\ r \in 0 .. MaxRev /\ S \subseteq Source /\ pc \in JobPc
    BY <1>a, <1>b DEF JobPc, Probing
  <2>3. job' = [job EXCEPT ![h] = [job[h] EXCEPT !.kind = kind, !.keys = T, !.same = T,
                                     !.att = A, !.rev = r, !.srcs = S, !.pc = pc]]
    BY <1>0, <1>2 DEF Lease
  <2>4. [job[h] EXCEPT !.kind = kind, !.keys = T, !.same = T,
                       !.att = A, !.rev = r, !.srcs = S, !.pc = pc] \in JobType
    <3> DEFINE j1 == [job[h] EXCEPT !.kind = kind, !.keys = T, !.same = T]
               j2 == [j1 EXCEPT !.att = A, !.rev = r]
               j3 == [j2 EXCEPT !.srcs = S, !.pc = pc]
    <3> HIDE DEF A, r, S, pc
    <3>1. j1 \in JobType
      BY <1>a DEF JobType
    <3>2. j2 \in JobType
      <4> HIDE DEF j1
      <4> QED BY <2>2, <3>1 DEF JobType
    <3>3. j3 \in JobType
      <4> HIDE DEF j2
      <4> QED BY <2>2, <3>2 DEF JobType
    <3>4. [job[h] EXCEPT !.kind = kind, !.keys = T, !.same = T,
                         !.att = A, !.rev = r, !.srcs = S, !.pc = pc] = j3
      BY Zenon
    <3> QED BY <3>3, <3>4
  <2> QED BY <1>0, <2>1, <2>3, <2>4
<1>d. ASSUME NEW h \in Holder, NEW kind \in Kind, Drawn(h, kind)
      PROVE  job' \in [Holder -> JobType] /\ lease' \in [Kind -> [Node -> Holder \cup {"none"}]]
  BY <1>2, <1>d DEF Drawn
<1>e. /\ "candidate" \in Kind /\ "failed" \in Kind
      /\ \A h \in Holder, K \in SUBSET SUBSET Node :
            [known EXCEPT ![h] = K] \in [Holder -> SUBSET SUBSET Node]
  BY <1>0 DEF Kind
<1>3. CASE LeasePendingKeys
  <2>1. job' \in [Holder -> JobType] /\ lease' \in [Kind -> [Node -> Holder \cup {"none"}]]
    BY <1>3, <1>d, <1>e, LeaseActions
  <2>2. known' \in [Holder -> SUBSET SUBSET Node]
    BY <1>3, <1>e DEF LeasePendingKeys
  <2> QED BY <1>0, <1>3, <2>1, <2>2 DEF TypeOK, LeasePendingKeys, cache
<1>4. CASE RefreshStart
  <2>1. job' \in [Holder -> JobType]
    BY <1>0, <1>4, GotoType DEF RefreshStart, JobPc, Probing
  <2> QED BY <1>0, <1>4, <2>1 DEF TypeOK, RefreshStart, cache
<1>5. CASE RefreshAbort
  <2>1. job' \in [Holder -> JobType]
    <3>1. [job["refresh"] EXCEPT !.pc = "aborting", !.srcs = {}, !.full = FALSE,
                                 !.att = NoRecords] \in JobType
      BY <1>a, Empties DEF JobType, JobPc, Probing
    <3>2. CASE job["refresh"].full
      BY <1>0, <1>5, <3>1, <3>2 DEF RefreshAbort
    <3>3. CASE ~job["refresh"].full
      BY <1>0, <1>5, <3>3, GotoType DEF RefreshAbort
    <3> QED BY <3>2, <3>3
  <2> QED BY <1>0, <1>5, <2>1 DEF TypeOK, RefreshAbort, cache
<1>6. CASE RefreshFinal
  <2>1. job' \in [Holder -> JobType]
    <3> DEFINE j == job["refresh"]
               valid == {n \in j.keys : j.att[n] \cap j.srcs # {}}
    <3>1. CASE j.full \/ j.srcs # {}
      <4>1. PICK o \in Outcomes(IF j.full THEN valid ELSE j.keys) :
               job' = [job EXCEPT !["refresh"] =
                 [j EXCEPT !.pc = IF j.full THEN "reconcile" ELSE "update",
                           !.out = o, !.att = NoRecords, !.full = FALSE,
                           !.srcs = IF j.full THEN j.srcs ELSE {}]]
        BY <1>6, <3>1 DEF RefreshFinal
      <4>2. o \in [Node -> Outcome]
        BY DEF Outcomes
      <4> DEFINE pc == IF j.full THEN "reconcile" ELSE "update"
                 S == IF j.full THEN j.srcs ELSE {}
      <4>3. pc \in JobPc /\ S \in SUBSET Source /\ j \in JobType
        BY <1>a, <1>b DEF JobPc, Publishing
      <4>4. [j EXCEPT !.pc = pc, !.out = o, !.att = NoRecords, !.full = FALSE,
                      !.srcs = S] \in JobType
        <5> HIDE DEF j, pc, S
        <5> QED BY <4>2, <4>3, Empties DEF JobType
      <4> QED BY <1>0, <4>1, <4>4
    <3>2. CASE ~(j.full \/ j.srcs # {})
      BY <1>0, <1>6, <3>2, GotoType DEF RefreshFinal
    <3> QED BY <3>1, <3>2
  <2> QED BY <1>0, <1>6, <2>1 DEF TypeOK, RefreshFinal, cache
<1>7. CASE reconcileFullRefreshCatalog
  <2>1. job' \in [Holder -> JobType]
    <3>1. [job["refresh"] EXCEPT !.pc = "update", !.srcs = {}] \in JobType
      BY <1>a, Pcs DEF JobType
    <3> QED BY <1>0, <1>7, <3>1 DEF reconcileFullRefreshCatalog
  <2>2. live' \in Snapshot /\ based' \subseteq Actor
    <3> DEFINE S == job["refresh"].srcs
               P == [n \in Node |-> live.pend[n] \cap S]
    <3>1. CASE live.gen = job["refresh"].gen /\ ~(SourceKeys \subseteq S)
      <4>1. live.rev + 1 \in 0 .. MaxRev
        BY <1>a, <1>7, <3>1 DEF reconcileFullRefreshCatalog
      <4>2. P \in Records
        BY <1>a
      <4>3. live' = [live EXCEPT !.pend = P, !.fail = NoRecords, !.rev = live.rev + 1] /\ based' = {}
        BY <1>7, <3>1 DEF reconcileFullRefreshCatalog, Publish, Withdrawn
      <4> HIDE DEF P
      <4> QED BY <1>0, <4>1, <4>2, <4>3, Empties DEF Snapshot
    <3>2. CASE ~(live.gen = job["refresh"].gen /\ ~(SourceKeys \subseteq S))
      BY <1>0, <1>7, <3>2 DEF reconcileFullRefreshCatalog
    <3> QED BY <3>1, <3>2
  <2> QED BY <1>0, <1>7, <2>1, <2>2 DEF TypeOK, reconcileFullRefreshCatalog, cache
<1>8. ASSUME NEW h \in Holder, PoolUpdate(h) PROVE TypeOK'
  <2>1. job' \in [Holder -> JobType]
    <3>1. {"completing", "commit", "discarding"} \subseteq JobPc
      BY DEF JobPc, Publishing, Committing
    <3> QED BY <1>0, <1>8, <3>1, GotoType DEF PoolUpdate
  <2>2. pool' \subseteq Node
    BY <1>0, <1>b, <1>8 DEF PoolUpdate
  <2> QED BY <1>0, <1>8, <2>1, <2>2 DEF TypeOK, PoolUpdate, cache
<1>9. CASE complete
  <2>1. CASE live.gen = job["refresh"].gen
    <3>1. Completed \in Snapshot
      <4>1. live.rev + 1 \in 0 .. MaxRev
        BY <1>a, <1>9, <2>1 DEF complete
      <4> QED BY <1>0, <4>1 DEF Completed, Snapshot
    <3>2. Persisting[job["refresh"].pc] \in JobPc
      BY <1>9, PersistingDomain DEF complete, JobPc, Publishing, Probing
    <3>3. [job["refresh"] EXCEPT !.pc = Persisting[@], !.img = Completed] \in JobType
      BY <1>a, <3>1, <3>2 DEF JobType
    <3>4. job' \in [Holder -> JobType]
      BY <1>0, <1>9, <2>1, <3>3 DEF complete
    <3> QED BY <1>0, <1>9, <2>1, <3>1, <3>4 DEF TypeOK, complete, cache
  <2>2. CASE live.gen # job["refresh"].gen
    <3>1. job' \in [Holder -> JobType]
      BY <1>0, <1>9, <2>2, GotoType DEF complete, JobPc, Publishing, Committing
    <3> QED BY <1>0, <1>9, <2>2, <3>1 DEF TypeOK, complete, cache
  <2> QED BY <2>1, <2>2
<1>10. CASE persistCompletedSnapshot
  <2>1. /\ disk' \in [pend : Records, fail : Records]
        /\ saved' \in [gen : 0 .. MaxGen, rev : 0 .. MaxRev] /\ excused' \in BOOLEAN
    BY <1>0, <1>b, <1>10, SaveTypes DEF persistCompletedSnapshot, cache
  <2>2. job' \in [Holder -> JobType]
    <3>1. [job["refresh"] EXCEPT !.pc = "commit", !.img = NoSnapshot] \in JobType
      BY <1>a, Empties, Pcs DEF JobType
    <3> QED BY <1>0, <1>10, <3>1, GotoType DEF persistCompletedSnapshot
  <2> QED BY <1>0, <1>10, <2>1, <2>2 DEF TypeOK, persistCompletedSnapshot
<1>11. CASE BatchLease
  <2>1. job' \in [Holder -> JobType] /\ lease' \in [Kind -> [Node -> Holder \cup {"none"}]]
    BY <1>0, <1>11, <1>d, <1>e, LeaseActions
  <2>2. known' \in [Holder -> SUBSET SUBSET Node]
    BY <1>11, <1>e DEF BatchLease
  <2> QED BY <1>0, <1>11, <2>1, <2>2 DEF TypeOK, BatchLease, cache
<1>40. CASE RetryLease
  <2>1. job' \in [Holder -> JobType] /\ lease' \in [Kind -> [Node -> Holder \cup {"none"}]]
    BY <1>40, <1>d, <1>e, LeaseActions
  <2> QED BY <1>0, <1>40, <2>1 DEF TypeOK, RetryLease, cache
<1>41. ASSUME NEW h \in Holder, candidateKnownSnapshot(h) PROVE TypeOK'
  <2>1. known' \in [Holder -> SUBSET SUBSET Node]
    BY <1>0, <1>41, <1>e DEF candidateKnownSnapshot
  <2> QED BY <1>0, <1>41, <2>1 DEF TypeOK, candidateKnownSnapshot, cache
<1>12. CASE BatchAbort
  BY <1>0, <1>12, GotoType DEF TypeOK, BatchAbort, cache
<1>13. CASE BatchFinal
  <2>1. \A o \in Outcomes(job["batch"].keys) :
           [job["batch"] EXCEPT !.pc = "update", !.out = o, !.srcs = {}] \in JobType
    <3> TAKE o \in Outcomes(job["batch"].keys)
    <3>1. o \in [Node -> Outcome] /\ "update" \in JobPc /\ job["batch"] \in JobType
      BY <1>a, Pcs DEF Outcomes
    <3> QED BY <3>1 DEF JobType
  <2>2. job' \in [Holder -> JobType]
    <3>1. CASE job["batch"].srcs = Source
      <4>1. PICK o \in Outcomes(job["batch"].keys) :
               job' = [job EXCEPT !["batch"].pc = "update", !["batch"].out = o,
                                  !["batch"].srcs = {}]
        BY <1>13, <3>1 DEF BatchFinal
      <4>2. job' = [job EXCEPT !["batch"] =
                      [job["batch"] EXCEPT !.pc = "update", !.out = o, !.srcs = {}]]
        BY <1>0, <4>1
      <4> QED BY <1>0, <2>1, <4>2
    <3>2. CASE job["batch"].srcs # Source
      BY <1>0, <1>13, <3>2, GotoType DEF BatchFinal
    <3> QED BY <3>1, <3>2
  <2> QED BY <1>0, <1>13, <2>2 DEF TypeOK, BatchFinal, cache
<1>14. ASSUME NEW t \in Tester, SpeedLease(t) PROVE TypeOK'
  <2>1. job' \in [Holder -> JobType] /\ lease' \in [Kind -> [Node -> Holder \cup {"none"}]]
    BY <1>14, <1>d, <1>e, LeaseActions
  <2>2. known' \in [Holder -> SUBSET SUBSET Node]
    BY <1>14, <1>e DEF SpeedLease
  <2>3. based' \subseteq Actor
    BY <1>0, <1>14 DEF SpeedLease
  <2> QED BY <1>0, <1>14, <2>1, <2>2, <2>3 DEF TypeOK, SpeedLease, cache
<1>42. ASSUME NEW t \in Tester, SpeedRefuse(t) PROVE TypeOK'
  <2>1. known' \in [Holder -> SUBSET SUBSET Node]
    BY <1>42, <1>e DEF SpeedRefuse
  <2> QED BY <1>0, <1>42, <2>1 DEF TypeOK, SpeedRefuse, cache
<1>15. ASSUME NEW t \in Tester, SpeedEnd(t) PROVE TypeOK'
  <2> DEFINE o == [n \in Node |-> IF n \in job[t].keys THEN "down" ELSE "none"]
  <2>1. o \in [Node -> Outcome] /\ t \in Holder
    BY DEF Outcome
  <2>c. "commit" \in JobPc /\ 0 \in 0 .. MaxRev /\ job[t] \in JobType
    BY <1>a, Pcs
  <2>2. [job[t] EXCEPT !.pc = "commit", !.rev = 0, !.out = o] \in JobType
    <3> HIDE DEF o
    <3> QED BY <1>a, <2>1, <2>c DEF JobType
  <2>3. job' \in [Holder -> JobType]
    BY <1>0, <1>15, <2>1, <2>2, GotoType DEF SpeedEnd
  <2> QED BY <1>0, <1>15, <2>3 DEF TypeOK, SpeedEnd, cache
<1>16. ASSUME NEW t \in Tester, SpeedPromote(t) PROVE TypeOK'
  <2>1. job' \in [Holder -> JobType]
    BY <1>0, <1>16, GotoType DEF SpeedPromote
  <2>2. pool' \subseteq Node
    BY <1>0, <1>b, <1>16 DEF SpeedPromote
  <2> QED BY <1>0, <1>16, <2>1, <2>2 DEF TypeOK, SpeedPromote, cache
<1>17. ASSUME NEW h \in Holder, CommitBegin(h) PROVE TypeOK'
  <2>1. CASE LeasesCurrent(h) /\ Changed(h) # {}
    <3>1. Committed(h) \in Snapshot
      BY <1>17, <2>1, CommittedType DEF CommitBegin
    <3>2. [job[h] EXCEPT !.pc = "save", !.rev = live.rev, !.img = Committed(h)] \in JobType
      BY <1>a, <3>1, Pcs DEF JobType
    <3>3. job' \in [Holder -> JobType]
      BY <1>0, <1>17, <2>1, <3>2 DEF CommitBegin
    <3>4. pub' = h /\ based' = based \cup {h} /\ UNCHANGED <<lease, live, rm, cache, known, pool, removed>>
      BY <1>17, <2>1 DEF CommitBegin
    <3> QED BY <1>0, <3>3, <3>4 DEF TypeOK, cache
  <2>2. CASE ~(LeasesCurrent(h) /\ Changed(h) # {})
    <3>1. job' \in [Holder -> JobType]
      BY <1>0, <1>17, <2>2, GotoType DEF CommitBegin
    <3>2. lease' \in [Kind -> [Node -> Holder \cup {"none"}]]
      BY <1>0, <1>17, <2>2, ReleasedType DEF CommitBegin
    <3>3. UNCHANGED <<pub, based, live, rm, cache, known, pool, removed>>
      BY <1>17, <2>2 DEF CommitBegin
    <3> QED BY <1>0, <3>1, <3>2, <3>3 DEF TypeOK, cache
  <2> QED BY <2>1, <2>2
<1>18. ASSUME NEW h \in Holder, CommitReturn(h)
       PROVE  /\ job' \in [Holder -> JobType] /\ pub' \in Holder \cup {"none"}
              /\ lease' \in [Kind -> [Node -> Holder \cup {"none"}]]
  BY <1>0, <1>18, GotoType, ReleasedType DEF CommitReturn
<1>19. ASSUME NEW h \in Holder, CommitSave(h) PROVE TypeOK'
  <2>1. /\ disk' \in [pend : Records, fail : Records]
        /\ saved' \in [gen : 0 .. MaxGen, rev : 0 .. MaxRev] /\ excused' \in BOOLEAN
    BY <1>0, <1>b, <1>19, SaveTypes DEF CommitSave, cache
  <2>2. /\ job' \in [Holder -> JobType] /\ pub' \in Holder \cup {"none"}
        /\ lease' \in [Kind -> [Node -> Holder \cup {"none"}]]
    BY <1>0, <1>18, <1>19, GotoType, Pcs DEF CommitSave
  <2> QED BY <1>0, <1>19, <2>1, <2>2 DEF TypeOK, CommitSave
<1>20. ASSUME NEW h \in Holder, CommitCheck(h) PROVE TypeOK'
  <2>1. job' \in [Holder -> JobType]
    BY <1>0, <1>20, GotoType, Pcs DEF CommitCheck
  <2> QED BY <1>0, <1>20, <2>1 DEF TypeOK, CommitCheck, cache
<1>21. ASSUME NEW h \in Holder, CommitSwap(h) PROVE TypeOK'
  <2>1. live' \in Snapshot /\ based' \subseteq Actor
    BY <1>0, <1>b, <1>21 DEF CommitSwap, Publish
  <2>2. /\ job' \in [Holder -> JobType] /\ pub' \in Holder \cup {"none"}
        /\ lease' \in [Kind -> [Node -> Holder \cup {"none"}]]
    BY <1>0, <1>18, <1>21, GotoType, Pcs DEF CommitSwap
  <2> QED BY <1>0, <1>21, <2>1, <2>2 DEF TypeOK, CommitSwap, cache
<1>22. ASSUME NEW h \in Holder, CommitRestore(h) PROVE TypeOK'
  <2>1. /\ disk' \in [pend : Records, fail : Records]
        /\ saved' \in [gen : 0 .. MaxGen, rev : 0 .. MaxRev] /\ excused' \in BOOLEAN
    BY <1>0, <1>22, SaveTypes DEF CommitRestore
  <2>2. /\ job' \in [Holder -> JobType] /\ pub' \in Holder \cup {"none"}
        /\ lease' \in [Kind -> [Node -> Holder \cup {"none"}]]
    BY <1>0, <1>18, <1>22, GotoType, Pcs DEF CommitRestore
  <2> QED BY <1>0, <1>22, <2>1, <2>2 DEF TypeOK, CommitRestore
<1>23. ASSUME NEW h \in Holder, ReleaseLeases(h) PROVE TypeOK'
  <2>1. job' \in [Holder -> JobType]
    BY <1>0, <1>23, Empties DEF ReleaseLeases
  <2> QED BY <1>0, <1>23, <2>1, ReleasedType DEF TypeOK, ReleaseLeases, cache
<1>25. RemoveEnd => rm' \in RemovalType /\ based' \subseteq Actor
  BY <1>0, Empties DEF RemoveEnd
<1>26. RemoveRetry => rm' \in RemovalType /\ based' \subseteq Actor
  <2>1. AttemptsLeft(rm.tries) =>
          [NoRemoval EXCEPT !.pc = "build", !.keys = rm.keys, !.tries = rm.tries + 1] \in RemovalType
    <3> SUFFICES ASSUME AttemptsLeft(rm.tries)
                 PROVE  [NoRemoval EXCEPT !.pc = "build", !.keys = rm.keys, !.tries = rm.tries + 1]
                           \in RemovalType
      OBVIOUS
    <3>1. rm.tries + 1 \in 0 .. RemovalAttempts
      BY <1>a, <1>c DEF AttemptsLeft
    <3> QED BY <1>c, <3>1, Empties DEF RemovalType
  <2> QED BY <1>0, <1>25, <2>1 DEF RemoveRetry
<1>27. ASSUME NEW b \in BOOLEAN, RemoveRestore(b), rm.restores < RemovalAttempts
       PROVE  rm' \in RemovalType /\ based' \subseteq Actor
  <2>1. rm.restores + 1 \in 0 .. RemovalAttempts /\ 0 \in 0 .. MaxRev
    BY <1>a, <1>c, <1>27
  <2>2. [rm EXCEPT !.pc = "restore", !.failed = b, !.restores = rm.restores + 1,
                   !.rev = 0, !.img = NoSnapshot] \in RemovalType
    BY <1>0, <2>1, Empties DEF RemovalType
  <2> QED BY <1>0, <1>27, <2>2 DEF RemoveRestore
<1>28. CASE RemoveStart
  <2>1. rm' \in RemovalType
    <3>1. PICK K \in SUBSET Node : rm' = [NoRemoval EXCEPT !.pc = "build", !.keys = K, !.tries = 1]
      BY <1>28 DEF RemoveStart
    <3>2. 1 \in 0 .. RemovalAttempts
      BY RemovalAttemptsAssumption
    <3> QED BY <3>1, <3>2, Empties DEF RemovalType
  <2> QED BY <1>0, <1>28, <2>1 DEF TypeOK, RemoveStart, cache
<1>29. CASE RemoveBuild
  <2>1. CASE rm.keys \cap Declared(live, "candidate") = {}
    BY <1>0, <1>25, <1>29, <2>1 DEF TypeOK, RemoveBuild, cache
  <2>2. CASE rm.keys \cap Declared(live, "candidate") # {}
    <3> DEFINE P == [n \in Node |-> IF n \in rm.keys THEN {} ELSE live.pend[n]]
               s == [live EXCEPT !.rev = live.rev + 1, !.pend = P]
    <3>1. P \in Records /\ live.rev + 1 \in 0 .. MaxRev
      BY <1>a, <1>29, <2>2 DEF RemoveBuild
    <3>2. s \in Snapshot
      <4> HIDE DEF P
      <4> QED BY <1>0, <3>1 DEF Snapshot
    <3>3. rm' = [rm EXCEPT !.pc = "precheck", !.rev = live.rev, !.img = s]
      BY <1>29, <2>2 DEF RemoveBuild
    <3>4. rm' \in RemovalType
      <4> HIDE DEF s
      <4> QED BY <1>0, <1>a, <3>2, <3>3 DEF RemovalType
    <3> QED BY <1>0, <1>29, <2>2, <3>4 DEF TypeOK, RemoveBuild, cache
  <2> QED BY <2>1, <2>2
<1>30. CASE RemovePrecheck
  <2>1. [rm EXCEPT !.pc = "save"] \in RemovalType
    BY <1>0 DEF RemovalType
  <2>2. rm' \in RemovalType /\ based' \subseteq Actor
    BY <1>0, <1>26, <1>30, <2>1 DEF RemovePrecheck
  <2> QED BY <1>0, <1>30, <2>2 DEF TypeOK, RemovePrecheck, cache
<1>31. CASE RemoveSave
  <2>1. [rm EXCEPT !.pc = "publish"] \in RemovalType
    BY <1>0 DEF RemovalType
  <2>2. rm.restores < RemovalAttempts
    BY <1>31, RemovalAttemptsAssumption DEF RemoveSave, RestoresCounted
  <2>3. rm' \in RemovalType /\ based' \subseteq Actor
    BY <1>0, <1>27, <1>31, <2>1, <2>2 DEF RemoveSave
  <2>4. /\ disk' \in [pend : Records, fail : Records]
        /\ saved' \in [gen : 0 .. MaxGen, rev : 0 .. MaxRev] /\ excused' \in BOOLEAN
    BY <1>0, <1>c, <1>31, SaveTypes DEF RemoveSave, cache
  <2> QED BY <1>0, <1>31, <2>3, <2>4 DEF TypeOK, RemoveSave
<1>32. CASE RemovePublish
  <2>1. rm.restores < RemovalAttempts
    BY <1>32, RemovalAttemptsAssumption DEF RemovePublish, RestoresCounted
  <2>2. CASE RemovalCurrent
    <3>1. live' = rm.img /\ based' = {} /\ rm' = NoRemoval
          /\ removed' = removed \cup (rm.keys \cap Declared(live, "candidate"))
      BY <1>32, <2>2 DEF RemovePublish, Publish
    <3>2. removed' \subseteq Node
      BY <1>0, <3>1 DEF Declared
    <3> QED BY <1>0, <1>c, <1>32, <3>1, <3>2, Empties DEF TypeOK, RemovePublish, cache
  <2>3. CASE ~RemovalCurrent
    BY <1>0, <1>27, <1>32, <2>1, <2>3 DEF TypeOK, RemovePublish, cache
  <2> QED BY <2>2, <2>3
<1>33. CASE RestoreClone
  <2>1. [rm EXCEPT !.pc = "force", !.rev = live.rev, !.img = live] \in RemovalType
    BY <1>0, <1>a DEF RemovalType
  <2> QED BY <1>0, <1>33, <2>1 DEF TypeOK, RestoreClone, cache
<1>34. CASE RestoreSave
  <2>1. [rm EXCEPT !.pc = "verify", !.img = NoSnapshot] \in RemovalType
    BY <1>0, Empties DEF RemovalType
  <2>2. rm' \in RemovalType /\ based' \subseteq Actor
    BY <1>0, <1>25, <1>34, <2>1 DEF RestoreSave
  <2>3. /\ disk' \in [pend : Records, fail : Records]
        /\ saved' \in [gen : 0 .. MaxGen, rev : 0 .. MaxRev] /\ excused' \in BOOLEAN
    BY <1>0, <1>c, <1>34, SaveTypes DEF RestoreSave
  <2> QED BY <1>0, <1>34, <2>2, <2>3 DEF TypeOK, RestoreSave
<1>35. CASE RestoreVerify
  <2>1. rm' \in RemovalType /\ based' \subseteq Actor
    BY <1>25, <1>26, <1>27, <1>c, <1>35 DEF RestoreVerify, AttemptsLeft
  <2>2. excused' \in BOOLEAN
    BY <1>0, <1>35, Zenon DEF RestoreVerify
  <2> QED BY <1>0, <1>35, <2>1, <2>2 DEF TypeOK, RestoreVerify
<1>36. CASE PoolDrop
  BY <1>0, <1>36 DEF TypeOK, PoolDrop, cache
<1>37. ASSUME NEW s \in Source, ChangeSource(s) PROVE TypeOK'
  <2>1. \A h \in Holder : [job[h] EXCEPT !.srcs = @ \ {s}] \in JobType
    BY <1>a DEF JobType
  <2> QED BY <1>0, <1>37, <2>1 DEF TypeOK, ChangeSource, cache
<1>38. CASE Restart
  <2>1. Loaded(disk) \in Snapshot
    BY <1>0, CatalogBoundsAssumption DEF Loaded, Snapshot
  <2>2. job' \in [Holder -> JobType] /\ lease' \in [Kind -> [Node -> Holder \cup {"none"}]]
    BY <1>38, Empties DEF Restart
  <2>3. saved' \in [gen : 0 .. MaxGen, rev : 0 .. MaxRev]
    BY <1>38, <1>a DEF Restart
  <2>4. known' \in [Holder -> SUBSET SUBSET Node]
    BY <1>38 DEF Restart
  <2> QED BY <1>0, <1>38, <2>1, <2>2, <2>3, <2>4, Empties DEF TypeOK, Restart
<1>39. CASE UNCHANGED vars
  BY <1>0, <1>39 DEF TypeOK, vars, cache
<1> QED
  BY <1>1, <1>3, <1>4, <1>5, <1>6, <1>7, <1>8, <1>9, <1>10, <1>11, <1>12, <1>13, <1>14,
     <1>15, <1>16, <1>17, <1>19, <1>20, <1>21, <1>22, <1>23, <1>28, <1>29, <1>30, <1>31,
     <1>32, <1>33, <1>34, <1>35, <1>36, <1>37, <1>38, <1>39,
     <1>40, <1>41, <1>42
  DEF Next, RefreshNext, BatchNext, SpeedNext, CommitNext, RemoveNext

LEMMA RestoresStep == TypeOK /\ RestoresCounted /\ [Next]_vars => RestoresCounted'
<1> SUFFICES ASSUME TypeOK, RestoresCounted, [Next]_vars PROVE RestoresCounted'
  OBVIOUS
<1>0. rm \in RemovalType
  BY DEF TypeOK
<1>1. NoRemoval.restores = 0
  BY DEF NoRemoval
<1>2. ASSUME UNCHANGED rm PROVE RestoresCounted'
  BY <1>2 DEF RestoresCounted
<1>3. RemoveEnd => RestoresCounted'
  BY <1>1 DEF RemoveEnd, RestoresCounted
<1>4. RemoveRetry => RestoresCounted'
  BY <1>3 DEF RemoveRetry, RestoresCounted, NoRemoval
<1>5. \A b \in BOOLEAN : RemoveRestore(b) => RestoresCounted'
  BY <1>0 DEF RemoveRestore, RestoresCounted, RemovalType
<1>6. CASE RemoveStart
  BY <1>6 DEF RemoveStart, RestoresCounted, NoRemoval
<1>7. CASE RemoveBuild
  <2>1. CASE rm.keys \cap Declared(live, "candidate") = {}
    BY <1>3, <1>7, <2>1 DEF RemoveBuild
  <2>2. CASE rm.keys \cap Declared(live, "candidate") # {}
    <3>1. rm'.pc = "precheck" /\ rm'.restores = rm.restores /\ rm.pc = "build"
      BY <1>0, <1>7, <2>2 DEF RemoveBuild, RemovalType
    <3> QED BY <3>1 DEF RestoresCounted
  <2> QED BY <2>1, <2>2
<1>8. CASE RemovePrecheck
  <2>1. rm' = [rm EXCEPT !.pc = "save"] => RestoresCounted'
    BY <1>0, <1>8 DEF RemovePrecheck, RestoresCounted, RemovalType
  <2> QED BY <1>4, <1>8, <2>1 DEF RemovePrecheck
<1>9. CASE RemoveSave
  <2>1. rm' = [rm EXCEPT !.pc = "publish"] => RestoresCounted'
    BY <1>0, <1>9 DEF RemoveSave, RestoresCounted, RemovalType
  <2> QED BY <1>5, <1>9, <2>1 DEF RemoveSave
<1>10. CASE RemovePublish
  BY <1>1, <1>5, <1>10 DEF RemovePublish, RestoresCounted
<1>11. CASE RestoreClone
  BY <1>0, <1>11 DEF RestoreClone, RestoresCounted, RemovalType
<1>12. CASE RestoreSave
  <2>1. rm' = [rm EXCEPT !.pc = "verify", !.img = NoSnapshot] => RestoresCounted'
    BY <1>0 DEF RestoresCounted, RemovalType
  <2> QED BY <1>3, <1>12, <2>1 DEF RestoreSave
<1>13. CASE RestoreVerify
  <2>1. rm.failed \in BOOLEAN
    BY <1>0 DEF RemovalType
  <2> QED BY <1>3, <1>4, <1>5, <1>13, <2>1 DEF RestoreVerify
<1>14. CASE Restart
  BY <1>1, <1>14 DEF Restart, RestoresCounted
<1>15. CASE RemoveNext
  BY <1>7, <1>8, <1>9, <1>10, <1>11, <1>12, <1>13, <1>15 DEF RemoveNext
<1>16. CASE begin \/ RefreshNext
  BY <1>2, <1>16 DEF begin, RefreshNext, LeasePendingKeys, RefreshStart, RefreshAbort,
     RefreshFinal, reconcileFullRefreshCatalog, PoolUpdate, complete, persistCompletedSnapshot
<1>17. CASE RetryLease \/ BatchNext
  BY <1>2, <1>17 DEF RetryLease, BatchLease, BatchNext, BatchAbort, BatchFinal, PoolUpdate
<1>18. ASSUME NEW t \in Tester, SpeedNext(t) PROVE RestoresCounted'
  BY <1>2, <1>18 DEF SpeedLease, SpeedRefuse, SpeedNext, SpeedEnd, SpeedPromote
<1>19. ASSUME NEW h \in Holder, candidateKnownSnapshot(h) \/ CommitNext(h) PROVE RestoresCounted'
  BY <1>2, <1>19 DEF candidateKnownSnapshot, CommitNext, CommitBegin, CommitSave, CommitCheck, CommitSwap,
     CommitRestore, ReleaseLeases
<1>20. CASE PoolDrop \/ (\E s \in Source : ChangeSource(s)) \/ UNCHANGED vars
  BY <1>2, <1>20 DEF PoolDrop, ChangeSource, vars
<1> QED BY <1>6, <1>14, <1>15, <1>16, <1>17, <1>18, <1>19, <1>20 DEF Next

(* Every variable keeps its shape, and a removal stays within its limits.  *)
THEOREM CatalogTypes == Spec => []TypeOK
<1>1. Init => TypeOK /\ RestoresCounted
  BY TypeInit DEF Init, RestoresCounted, NoRemoval
<1>2. TypeOK /\ RestoresCounted /\ [Next]_vars => (TypeOK /\ RestoresCounted)'
  BY TypeStep, RestoresStep
<1> QED BY <1>1, <1>2, PTL DEF Spec

-----------------------------------------------------------------------------
(* Most steps concern a worker outside CommitLeaseOutcomes and leave the   *)
(* published snapshot, the commits, the removal and what the refresh has   *)
(* still to complete or to persist alone.                                  *)
Untouched(h) ==
    /\ job'[h].pc = job[h].pc /\ job'[h].kind = job[h].kind /\ job'[h].keys = job[h].keys
    /\ job'[h].same = job[h].same /\ job'[h].out = job[h].out
    /\ job'[h].rev = job[h].rev /\ job'[h].img = job[h].img
    /\ h \in based' <=> h \in based
Calm ==
    /\ UNCHANGED <<live, pub, rm, removed>>
    /\ \A h \in Holder : job[h].pc \in Held \/ job'[h].pc \in Held => Untouched(h)
    /\ \A h \in Holder : job'[h].img \in {job[h].img, NoSnapshot}
    /\ "remove" \in based' <=> "remove" \in based
    /\ Refresh'.pc \in BeforeComplete =>
          Refresh.pc \in BeforeComplete /\ Refresh'.gen = Refresh.gen
    /\ Refresh'.pc \in Persists => Refresh'.pc = Refresh.pc /\ Refresh'.img = Refresh.img
QuietStep == Calm /\ UNCHANGED cache /\ (Refresh.pc \in Persists => Refresh'.pc = Refresh.pc)

LEMMA OneMoves ==
    ASSUME TypeOK, NEW h \in Holder, NEW j, job' = [job EXCEPT ![h] = j],
           UNCHANGED <<live, pub, rm, removed>>,
           based' \in {based, based \cup {h}, based \ {h}},
           job[h].pc \notin Held, j.pc \notin Held, j.pc \notin Persists,
           j.img \in {job[h].img, NoSnapshot},
           h = "refresh" /\ j.pc \in BeforeComplete =>
              job[h].pc \in BeforeComplete /\ j.gen = job[h].gen
    PROVE  Calm
<1>1. job'[h] = j /\ \A g \in Holder \ {h} : job'[g] = job[g]
  BY DEF TypeOK
<1>2. \A g \in Holder : job[g].pc \in Held \/ job'[g].pc \in Held => Untouched(g)
  BY <1>1 DEF Untouched
<1>3. \A g \in Holder : job'[g].img \in {job[g].img, NoSnapshot}
  BY <1>1
<1>4. "remove" \in based' <=> "remove" \in based
  BY Holders
<1>5. /\ Refresh'.pc \in BeforeComplete =>
           Refresh.pc \in BeforeComplete /\ Refresh'.gen = Refresh.gen
      /\ Refresh'.pc \in Persists => Refresh'.pc = Refresh.pc /\ Refresh'.img = Refresh.img
  <2>1. CASE h = "refresh"
    BY <1>1, <2>1 DEF Refresh
  <2>2. CASE h # "refresh"
    <3>1. job'["refresh"] = job["refresh"]
      BY <1>1, <2>2, Holders
    <3> QED BY <3>1 DEF Refresh
  <2> QED BY <2>1, <2>2
<1> QED BY <1>2, <1>3, <1>4, <1>5 DEF Calm

(* The pcs of a refresh before and after it completes its snapshot.        *)
LEMMA Stages ==
    /\ BeforeComplete = {"begun", "leased", "probing", "reconcile", "update",
                         "completing", "discarding", "aborting"}
    /\ {"idle", "release", "commit"} \cap (BeforeComplete \cup Persists \cup Held) = {}
    /\ BeforeComplete \cap (Persists \cup Held) = {} /\ Persists \cap Held = {}
<1>1. BeforeComplete = {"begun", "leased", "probing", "reconcile", "update",
                         "completing", "discarding", "aborting"}
  BY PersistingDomain DEF BeforeComplete
<1> QED BY <1>1 DEF Persists, Held

(* A worker returns.                                                       *)
LEMMA LeaveIsCalm ==
    ASSUME TypeOK, NEW h \in Holder, Leave(h), job[h].pc \notin Held,
           UNCHANGED <<live, pub, rm, removed>>,
           based' \in {based, based \cup {h}, based \ {h}}
    PROVE  Calm /\ job'[h].pc = "release"
<1> DEFINE j == [NoJob EXCEPT !.pc = "release", !.kind = job[h].kind, !.keys = job[h].keys]
<1>1. job' = [job EXCEPT ![h] = j]
  BY DEF Leave
<1>2. j.pc = "release" /\ j.img = NoSnapshot
  BY DEF NoJob
<1>3. j.pc \notin Held /\ j.pc \notin Persists /\ j.pc \notin BeforeComplete
  BY <1>2, Stages
<1>4. job'[h].pc = "release"
  BY <1>1, <1>2 DEF TypeOK
<1> HIDE DEF j
<1> QED BY <1>1, <1>2, <1>3, <1>4, OneMoves

(* A worker goes on.                                                       *)
LEMMA GotoIsCalm ==
    ASSUME TypeOK, NEW h \in Holder, NEW pc, Goto(h, pc),
           job[h].pc \notin Held, pc \notin Held, pc \notin Persists,
           h = "refresh" /\ pc \in BeforeComplete => job[h].pc \in BeforeComplete,
           UNCHANGED <<live, based, pub, rm, removed>>
    PROVE  Calm
<1> DEFINE j == [job[h] EXCEPT !.pc = pc]
<1>1. job' = [job EXCEPT ![h] = j]
  BY DEF Goto, TypeOK
<1>2. j.pc = pc /\ j.img = job[h].img /\ j.gen = job[h].gen
  BY DEF TypeOK, JobType
<1> HIDE DEF j
<1> QED BY <1>1, <1>2, OneMoves

(* A worker draws leases.                                                  *)
LEMMA LeaseIsCalm ==
    ASSUME TypeOK, NEW h \in Holder, NEW kind, NEW T, Lease(h, kind, T),
           job[h].pc = (IF h = "refresh" THEN "begun" ELSE "idle"),
           UNCHANGED <<live, pub, rm, removed>>, based' \in {based, based \cup {h}}
    PROVE  Calm
<1> DEFINE A == [n \in Node |-> IF n \in T /\ h = "refresh" THEN live.pend[n] ELSE {}]
           r == IF h \in Tester THEN live.rev ELSE 0
           S == IF h = "batch" THEN Source ELSE job[h].srcs
           pc == IF h = "refresh" THEN "leased" ELSE "probing"
           j == [job[h] EXCEPT !.kind = kind, !.keys = T, !.same = T,
                               !.att = A, !.rev = r, !.srcs = S, !.pc = pc]
<1>1. job' = [job EXCEPT ![h] = j]
  BY DEF Lease, TypeOK
<1>2. j.pc = pc /\ j.img = job[h].img /\ j.gen = job[h].gen
  <2> HIDE DEF A, r, S, pc
  <2> QED BY DEF TypeOK, JobType
<1>3. pc \notin Held /\ pc \notin Persists /\ job[h].pc \notin Held
      /\ (h = "refresh" => job[h].pc \in BeforeComplete)
  BY Stages
<1> HIDE DEF j, pc
<1> QED BY <1>1, <1>2, <1>3, OneMoves

(* The steps that are not quiet.                                           *)
WithdrawStep == /\ reconcileFullRefreshCatalog
                /\ live.gen = Refresh.gen /\ ~(SourceKeys \subseteq Refresh.srcs)
CompleteStep == complete /\ live.gen = Refresh.gen
CommitStart(h) == CommitBegin(h) /\ LeasesCurrent(h) /\ Changed(h) # {}
CommitStep(h) == \/ CommitStart(h) \/ CommitSave(h) \/ CommitCheck(h)
                 \/ CommitSwap(h) \/ CommitRestore(h)
BusyStep ==
    \/ begin \/ WithdrawStep \/ CompleteStep \/ persistCompletedSnapshot
    \/ \E h \in Holder : CommitStep(h)
    \/ RemoveStart \/ RemoveNext \/ Restart

LEMMA QuietActions ==
    ASSUME TypeOK, [Next]_vars
    PROVE  QuietStep \/ BusyStep
<1> USE Holders
<1>0. job \in [Holder -> JobType]
  BY DEF TypeOK
<1>a. ASSUME Calm, UNCHANGED cache, Refresh.pc \notin Persists PROVE QuietStep
  BY <1>a DEF QuietStep
<1>b. ASSUME NEW h \in Holder, Calm, UNCHANGED cache, h # "refresh",
             \A g \in Holder \ {h} : job'[g] = job[g]
      PROVE  QuietStep
  BY <1>b DEF QuietStep, Refresh
<1>1. CASE LeasePendingKeys
  <2>1. Calm
    BY <1>1, LeaseIsCalm, LeaseActions DEF LeasePendingKeys, Drawn
  <2> QED BY <1>1, <1>a, <2>1 DEF LeasePendingKeys, Refresh, Persists
<1>2. CASE RefreshStart
  <2>1. Calm
    BY <1>2, GotoIsCalm, Stages DEF RefreshStart, Held, Persists
  <2> QED BY <1>2, <1>a, <2>1 DEF RefreshStart, Refresh, Persists
<1>3. CASE RefreshAbort
  <2>1. Refresh.pc = "probing" /\ Refresh.pc \notin Persists /\ Refresh.pc \notin Held
    BY <1>3 DEF RefreshAbort, Refresh, Persists, Held
  <2>2. CASE Refresh.full
    <3> DEFINE j == [job["refresh"] EXCEPT !.pc = "aborting", !.srcs = {}, !.full = FALSE,
                                           !.att = NoRecords]
    <3>1. job' = [job EXCEPT !["refresh"] = j]
      BY <1>0, <1>3, <2>2 DEF RefreshAbort, Refresh
    <3>2. j.pc = "aborting" /\ j.img = job["refresh"].img /\ j.gen = job["refresh"].gen
      BY <1>0 DEF JobType
    <3>3. "aborting" \notin Held /\ "aborting" \notin Persists /\ "probing" \in BeforeComplete
      BY Stages DEF Held, Persists
    <3> HIDE DEF j
    <3>4. Calm
      BY <1>3, <2>1, <3>1, <3>2, <3>3, OneMoves DEF RefreshAbort, Refresh
    <3> QED BY <1>3, <1>a, <2>1, <3>4 DEF RefreshAbort
  <2>3. CASE ~Refresh.full
    BY <1>3, <1>a, <2>1, <2>3, LeaveIsCalm DEF RefreshAbort, Refresh
  <2> QED BY <2>2, <2>3
<1>4. CASE RefreshFinal
  <2> DEFINE j == job["refresh"]
             valid == {n \in j.keys : j.att[n] \cap j.srcs # {}}
  <2>1. Refresh.pc = "probing" /\ Refresh.pc \notin Persists /\ Refresh.pc \notin Held
    BY <1>4 DEF RefreshFinal, Refresh, Persists, Held
  <2>2. CASE j.full \/ j.srcs # {}
    <3>1. PICK o \in Outcomes(IF j.full THEN valid ELSE j.keys) :
             job' = [job EXCEPT !["refresh"] =
               [j EXCEPT !.pc = IF j.full THEN "reconcile" ELSE "update",
                         !.out = o, !.att = NoRecords, !.full = FALSE,
                         !.srcs = IF j.full THEN j.srcs ELSE {}]]
      BY <1>4, <2>2 DEF RefreshFinal
    <3> DEFINE pc == IF j.full THEN "reconcile" ELSE "update"
               S == IF j.full THEN j.srcs ELSE {}
               k == [j EXCEPT !.pc = pc, !.out = o, !.att = NoRecords, !.full = FALSE, !.srcs = S]
    <3>2. pc \notin Held /\ pc \notin Persists /\ "probing" \in BeforeComplete
      BY Stages DEF Held, Persists
    <3>3. k.pc = pc /\ k.img = j.img /\ k.gen = j.gen
      <4>1. j \in JobType
        BY <1>0
      <4> HIDE DEF j, pc, S
      <4> QED BY <4>1 DEF JobType
    <3>4. job' = [job EXCEPT !["refresh"] = k]
      BY <3>1
    <3> HIDE DEF k, pc
    <3>5. Calm
      BY <1>4, <2>1, <3>2, <3>3, <3>4, OneMoves DEF RefreshFinal, Refresh
    <3> QED BY <1>4, <1>a, <2>1, <3>5 DEF RefreshFinal
  <2>3. CASE ~(j.full \/ j.srcs # {})
    BY <1>4, <1>a, <2>1, <2>3, LeaveIsCalm DEF RefreshFinal, Refresh
  <2> QED BY <2>2, <2>3
<1>5. CASE reconcileFullRefreshCatalog /\ ~WithdrawStep
  <2>1. UNCHANGED <<live, based, pub, rm, removed>> /\ Refresh.pc = "reconcile" /\ UNCHANGED cache
    BY <1>5 DEF reconcileFullRefreshCatalog, WithdrawStep, Refresh
  <2> DEFINE j == [job["refresh"] EXCEPT !.pc = "update", !.srcs = {}]
  <2>2. job' = [job EXCEPT !["refresh"] = j]
    BY <1>0, <1>5 DEF reconcileFullRefreshCatalog
  <2>3. j.pc = "update" /\ j.img = job["refresh"].img /\ j.gen = job["refresh"].gen
    BY <1>0 DEF JobType
  <2>4. "update" \notin Held /\ "update" \notin Persists /\ "reconcile" \in BeforeComplete
        /\ "reconcile" \notin Held /\ "reconcile" \notin Persists
    BY Stages DEF Held, Persists
  <2> HIDE DEF j
  <2>5. Calm
    BY <2>1, <2>2, <2>3, <2>4, OneMoves DEF Refresh
  <2> QED BY <1>a, <2>1, <2>4, <2>5
<1>6. ASSUME NEW h \in Holder, PoolUpdate(h) PROVE QuietStep
  <2>1. job[h].pc = "update" /\ UNCHANGED <<live, based, pub, rm, cache, removed>>
        /\ job[h].pc \notin Held /\ job[h].pc \notin Persists /\ job[h].pc \in BeforeComplete
    BY <1>6, Stages DEF PoolUpdate, Held, Persists
  <2>2. \A pc \in {"completing", "commit", "discarding"} : pc \notin Held /\ pc \notin Persists
    BY DEF Held, Persists
  <2>3. Leave(h) \/ \E pc \in {"completing", "commit", "discarding"} : Goto(h, pc)
    BY <1>6 DEF PoolUpdate
  <2>4. Calm
    BY <2>1, <2>2, <2>3, GotoIsCalm, LeaveIsCalm
  <2>5. \A g \in Holder \ {h} : job'[g] = job[g]
    BY <1>0, <2>3 DEF Leave, Goto
  <2>6. CASE h = "refresh"
    BY <1>a, <2>1, <2>4, <2>6 DEF Refresh
  <2> QED BY <1>b, <2>1, <2>4, <2>5, <2>6
<1>7. CASE complete /\ ~CompleteStep
  <2>1. /\ UNCHANGED <<live, based, pub, rm, cache, removed>>
        /\ Goto("refresh", "commit") \/ Leave("refresh")
        /\ Refresh.pc \in DOMAIN Persisting
    BY <1>7 DEF complete, CompleteStep, Refresh
  <2>2. Refresh.pc \notin Held /\ Refresh.pc \notin Persists
    BY <1>7, PersistingDomain DEF complete, Refresh, Held, Persists
  <2>3. Calm
    BY <2>1, <2>2, LeaveIsCalm, GotoIsCalm, Stages DEF Refresh
  <2> QED BY <1>a, <2>1, <2>2, <2>3
<1>8. CASE BatchLease \/ RetryLease
  <2>1. job["batch"].pc = "idle" /\ UNCHANGED <<live, based, pub, rm, cache, removed>>
    BY <1>8 DEF BatchLease, RetryLease, cycleFree
  <2>2. CASE UNCHANGED job
    BY <2>1, <2>2 DEF QuietStep, Calm, Untouched, Refresh
  <2>3. CASE ~UNCHANGED job
    <3>1. PICK kind, T : Lease("batch", kind, T)
      BY <1>8, <2>3, LeaseActions DEF Drawn
    <3>2. Calm
      BY <2>1, <3>1, LeaseIsCalm
    <3>3. \A g \in Holder \ {"batch"} : job'[g] = job[g]
      BY <1>0, <3>1 DEF Lease
    <3> QED BY <1>b, <2>1, <3>2, <3>3
  <2> QED BY <2>2, <2>3
<1>9. CASE BatchAbort
  <2>1. Calm
    BY <1>9, LeaveIsCalm DEF BatchAbort, Held
  <2>2. \A g \in Holder \ {"batch"} : job'[g] = job[g]
    BY <1>0, <1>9 DEF BatchAbort, Leave
  <2> QED BY <1>9, <1>b, <2>1, <2>2 DEF BatchAbort
<1>10. CASE BatchFinal
  <2>1. job["batch"].pc = "probing" /\ job["batch"].pc \notin Held
        /\ UNCHANGED <<live, based, pub, rm, cache, removed>>
    BY <1>10 DEF BatchFinal, Held
  <2>2. CASE job["batch"].srcs = Source
    <3>1. PICK o \in Outcomes(job["batch"].keys) :
             job' = [job EXCEPT !["batch"].pc = "update", !["batch"].out = o,
                                !["batch"].srcs = {}]
      BY <1>10, <2>2 DEF BatchFinal
    <3> DEFINE j == [job["batch"] EXCEPT !.pc = "update", !.out = o, !.srcs = {}]
    <3>2. job' = [job EXCEPT !["batch"] = j]
      BY <1>0, <3>1
    <3>3. j.pc = "update" /\ j.img = job["batch"].img
      BY <1>0 DEF JobType
    <3>4. "update" \notin Held /\ "update" \notin Persists
      BY DEF Held, Persists
    <3> HIDE DEF j
    <3>5. Calm
      BY <2>1, <3>2, <3>3, <3>4, OneMoves
    <3> QED BY <1>0, <1>b, <2>1, <3>2, <3>5
  <2>3. CASE job["batch"].srcs # Source
    <3>1. Leave("batch")
      BY <1>10, <2>3 DEF BatchFinal
    <3>2. \A g \in Holder \ {"batch"} : job'[g] = job[g]
      BY <1>0, <3>1 DEF Leave
    <3> QED BY <1>b, <2>1, <3>1, <3>2, LeaveIsCalm
  <2> QED BY <2>2, <2>3
<1>11. ASSUME NEW t \in Tester, SpeedLease(t) PROVE QuietStep
  <2>1. t \in Holder /\ t # "refresh" /\ job[t].pc = "idle"
        /\ UNCHANGED <<live, pub, rm, cache, removed>> /\ based' = based \cup {t}
        /\ \E T : Lease(t, "candidate", T)
    BY <1>11, LeaseActions DEF SpeedLease, Drawn
  <2>2. Calm
    BY <2>1, LeaseIsCalm
  <2>3. \A g \in Holder \ {t} : job'[g] = job[g]
    BY <1>0, <2>1 DEF Lease
  <2> QED BY <1>b, <2>1, <2>2, <2>3
<1>12. ASSUME NEW t \in Tester, SpeedEnd(t) PROVE QuietStep
  <2>1. t \in Holder /\ t # "refresh" /\ job[t].pc = "probing" /\ job[t].pc \notin Held
        /\ UNCHANGED <<live, pub, rm, cache, removed>> /\ based' = based \ {t}
    BY <1>12 DEF SpeedEnd, Held
  <2>2. CASE Leave(t)
    <3>1. \A g \in Holder \ {t} : job'[g] = job[g]
      BY <1>0, <2>2 DEF Leave
    <3> QED BY <1>b, <2>1, <2>2, <3>1, LeaveIsCalm
  <2>3. CASE ~Leave(t)
    <3> DEFINE o == [n \in Node |-> IF n \in job[t].keys THEN "down" ELSE "none"]
               j == [job[t] EXCEPT !.pc = "commit", !.rev = 0, !.out = o]
    <3>1. job' = [job EXCEPT ![t] = j]
      BY <1>0, <1>12, <2>3 DEF SpeedEnd
    <3>2. j.pc = "commit" /\ j.img = job[t].img
      <4> HIDE DEF o
      <4> QED BY <1>0, <2>1 DEF JobType
    <3> HIDE DEF j
    <3>3. Calm
      BY <2>1, <3>1, <3>2, OneMoves, Stages
    <3> QED BY <1>0, <1>b, <2>1, <3>1, <3>3
  <2> QED BY <2>2, <2>3
<1>13. ASSUME NEW t \in Tester, SpeedPromote(t) PROVE QuietStep
  <2>1. t \in Holder /\ t # "refresh" /\ job[t].pc = "probing" /\ job[t].pc \notin Held
        /\ UNCHANGED <<live, pub, rm, cache, removed>> /\ based' = based \ {t} /\ Leave(t)
    BY <1>13 DEF SpeedPromote, Held
  <2>2. \A g \in Holder \ {t} : job'[g] = job[g]
    BY <1>0, <2>1 DEF Leave
  <2> QED BY <1>b, <2>1, <2>2, LeaveIsCalm
<1>14. ASSUME NEW h \in Holder, CommitBegin(h), ~CommitStart(h) PROVE QuietStep
  <2>1. job[h].pc = "commit" /\ Leave(h) /\ UNCHANGED <<live, based, pub, rm, cache, removed>>
    BY <1>14 DEF CommitBegin, CommitStart
  <2>2. Calm
    BY <2>1, Stages, LeaveIsCalm
  <2>3. \A g \in Holder \ {h} : job'[g] = job[g]
    BY <1>0, <2>1 DEF Leave
  <2>4. CASE h = "refresh"
    BY <1>a, <2>1, <2>2, <2>4, Stages DEF Refresh
  <2> QED BY <1>b, <2>1, <2>2, <2>3, <2>4
<1>15. ASSUME NEW h \in Holder, ReleaseLeases(h) PROVE QuietStep
  <2>1. job[h].pc = "release" /\ job' = [job EXCEPT ![h] = NoJob] /\ based' = based \ {h}
        /\ UNCHANGED <<live, pub, rm, cache, removed>>
    BY <1>15 DEF ReleaseLeases
  <2>2. NoJob.pc = "idle" /\ NoJob.img = NoSnapshot
    BY DEF NoJob
  <2>3. Calm
    BY <2>1, <2>2, Stages, OneMoves
  <2>4. \A g \in Holder \ {h} : job'[g] = job[g]
    BY <1>0, <2>1
  <2>5. CASE h = "refresh"
    BY <1>a, <2>1, <2>3, <2>5, Stages DEF Refresh
  <2> QED BY <1>b, <2>1, <2>3, <2>4, <2>5
<1>16. ASSUME PoolDrop \/ (\E t \in Tester : SpeedRefuse(t))
              \/ (\E h \in Holder : candidateKnownSnapshot(h)) \/ UNCHANGED vars
       PROVE  QuietStep
  <2>1. UNCHANGED <<live, based, pub, job, rm, cache, removed>>
    BY <1>16 DEF PoolDrop, SpeedRefuse, candidateKnownSnapshot, vars
  <2> QED BY <2>1 DEF QuietStep, Calm, Untouched, Refresh
<1>17. ASSUME NEW s \in Source, ChangeSource(s) PROVE QuietStep
  <2>1. UNCHANGED <<live, based, pub, rm, cache, removed>>
    BY <1>17 DEF ChangeSource
  <2>2. \A h \in Holder : /\ Untouched(h) /\ job'[h].img = job[h].img /\ job'[h].gen = job[h].gen
                          /\ job'[h].pc = job[h].pc
    BY <1>0, <1>17 DEF ChangeSource, Untouched, JobType
  <2>3. Refresh'.pc = Refresh.pc /\ Refresh'.gen = Refresh.gen /\ Refresh'.img = Refresh.img
    BY <2>2 DEF Refresh
  <2> QED BY <2>1, <2>2, <2>3 DEF QuietStep, Calm
<1>18. CASE RefreshNext
  BY <1>1, <1>2, <1>3, <1>4, <1>5, <1>6, <1>7, <1>18 DEF RefreshNext, BusyStep
<1>19. CASE RetryLease \/ BatchNext
  BY <1>6, <1>8, <1>9, <1>10, <1>19 DEF BatchNext
<1>20. ASSUME NEW t \in Tester, SpeedNext(t) PROVE QuietStep
  BY <1>11, <1>12, <1>13, <1>16, <1>20 DEF SpeedNext
<1>21. ASSUME NEW h \in Holder, CommitNext(h) PROVE QuietStep \/ BusyStep
  BY <1>14, <1>15, <1>21 DEF CommitNext, BusyStep, CommitStep
<1> QED BY <1>16, <1>17, <1>18, <1>19, <1>20, <1>21 DEF Next, BusyStep

-----------------------------------------------------------------------------
(* What each busy step does.                                               *)
LEMMA BeginFacts ==
    ASSUME TypeOK, begin
    PROVE  /\ UNCHANGED <<pub, lease, rm, cache, pool>> /\ pub = "none"
           /\ based' = {}
           /\ live'.gen = live.gen + 1 /\ live'.rev = 1 /\ live'.phase = "checking"
           /\ \A n \in Node : /\ live.fail[n] # {} => live'.pend[n] = {}
                              /\ live.fail[n] = {} => live'.fail[n] = {}
           /\ job["refresh"].pc = "idle" /\ job'["refresh"].pc = "begun"
           /\ job'["refresh"].gen = live.gen + 1 /\ job'["refresh"].img = NoSnapshot
           /\ \A h \in Holder \ {"refresh"} :
                 /\ job'[h].pc = job[h].pc /\ job'[h].kind = job[h].kind
                 /\ job'[h].keys = job[h].keys /\ job'[h].img = job[h].img
                 /\ job'[h].rev = job[h].rev
           /\ removed' \subseteq removed /\ \A n \in removed' : live'.pend[n] = {}
<1>1. UNCHANGED <<pub, lease, rm, cache, pool>> /\ pub = "none" /\ job["refresh"].pc = "idle"
  BY DEF begin, publicationFree
<1>p. PICK full \in BOOLEAN, V \in SUBSET Source, F \in SUBSET Source :
         \E adv \in buildCandidateSnapshot(V \ F) :
         \E C \in SUBSET {n \in Node : adv[n] # {}} : BeginWith(full, V, F, adv, C)
  BY Zenon DEF begin, BeginWith
<1>q. PICK adv \in buildCandidateSnapshot(V \ F) :
         \E C \in SUBSET {n \in Node : adv[n] # {}} : BeginWith(full, V, F, adv, C)
  BY <1>p
<1>r. PICK C \in SUBSET {n \in Node : adv[n] # {}} : BeginWith(full, V, F, adv, C)
  BY <1>q
<1> DEFINE kept == IF full THEN F ELSE Source \ V
           found == mergeCandidateSnapshots(adv, kept)
           s == reconcileCandidateFailures(found)
           P == [n \in Node |-> IF live.fail[n] # {} THEN {} ELSE found[n]]
           Q == [n \in Node |-> IF live.fail[n] # {} THEN live.fail[n] \cup found[n] ELSE {}]
<1>2. s = [live EXCEPT !.pend = P, !.fail = Q]
  BY DEF reconcileCandidateFailures
<1>3. s.pend = P /\ s.fail = Q /\ s.gen = live.gen
  <2> HIDE DEF P, Q, s
  <2> QED BY <1>2 DEF TypeOK, Snapshot
<1>4. live' = [s EXCEPT !.gen = live.gen + 1, !.rev = 1, !.phase = "checking"] /\ based' = {}
      /\ removed' = {n \in removed : s.pend[n] = {} /\ s.fail[n] = {}}
  BY <1>r DEF BeginWith, Publish
<1>5. /\ live'.gen = live.gen + 1 /\ live'.rev = 1 /\ live'.phase = "checking"
      /\ live'.pend = P /\ live'.fail = Q
  <2>1. s \in [pend : {P}, fail : {Q}, gen : {live.gen}, rev : {live.rev}, phase : {live.phase}]
    <3> HIDE DEF P, Q, s
    <3> QED BY <1>2 DEF TypeOK, Snapshot
  <2> HIDE DEF P, Q, s
  <2> QED BY <1>4, <2>1
<1>6. \A n \in Node : /\ live.fail[n] # {} => live'.pend[n] = {}
                      /\ live.fail[n] = {} => live'.fail[n] = {}
  BY <1>5
<1>7. removed' \subseteq removed /\ \A n \in removed' : live'.pend[n] = {}
  <2> HIDE DEF P, Q, s
  <2> QED BY <1>3, <1>4, <1>5
<1>8. /\ job'["refresh"].pc = "begun" /\ job'["refresh"].gen = live.gen + 1
      /\ job'["refresh"].img = NoSnapshot
  BY <1>r, Holders DEF BeginWith, NoJob
<1>9. \A h \in Holder \ {"refresh"} :
         /\ job'[h].pc = job[h].pc /\ job'[h].kind = job[h].kind
         /\ job'[h].keys = job[h].keys /\ job'[h].img = job[h].img
         /\ job'[h].rev = job[h].rev
  BY <1>r DEF BeginWith, TypeOK, JobType
<1> QED BY <1>1, <1>4, <1>5, <1>6, <1>7, <1>8, <1>9

LEMMA WithdrawFacts ==
    ASSUME TypeOK, WithdrawStep
    PROVE  /\ UNCHANGED <<pub, lease, rm, cache, pool, removed>> /\ pub = "none"
           /\ based' = {}
           /\ live'.gen = live.gen /\ live'.rev = live.rev + 1 /\ live'.phase = live.phase
           /\ \A n \in Node : live'.pend[n] \subseteq live.pend[n] /\ live'.fail[n] = {}
           /\ job["refresh"].pc = "reconcile" /\ job'["refresh"].pc = "update"
           /\ job'["refresh"].gen = job["refresh"].gen /\ job'["refresh"].img = job["refresh"].img
           /\ job'["refresh"].kind = job["refresh"].kind
           /\ job'["refresh"].keys = job["refresh"].keys
           /\ \A h \in Holder \ {"refresh"} : job'[h] = job[h]
<1> DEFINE P == [n \in Node |-> live.pend[n] \cap Refresh.srcs]
<1>1. live' = [live EXCEPT !.pend = P, !.fail = NoRecords, !.rev = live.rev + 1] /\ based' = {}
  BY DEF WithdrawStep, reconcileFullRefreshCatalog, Publish, Withdrawn, Refresh
<1>2. /\ live'.gen = live.gen /\ live'.rev = live.rev + 1 /\ live'.phase = live.phase
      /\ live'.pend = P /\ live'.fail = NoRecords
  <2> HIDE DEF P
  <2> QED BY <1>1 DEF TypeOK, Snapshot
<1>3. UNCHANGED <<pub, lease, rm, cache, pool, removed>> /\ pub = "none"
      /\ job["refresh"].pc = "reconcile"
      /\ job' = [job EXCEPT !["refresh"].pc = "update", !["refresh"].srcs = {}]
  BY DEF WithdrawStep, reconcileFullRefreshCatalog, publicationFree
<1>4. /\ job'["refresh"].pc = "update"
      /\ job'["refresh"].gen = job["refresh"].gen /\ job'["refresh"].img = job["refresh"].img
      /\ job'["refresh"].kind = job["refresh"].kind
      /\ job'["refresh"].keys = job["refresh"].keys
      /\ \A h \in Holder \ {"refresh"} : job'[h] = job[h]
  BY <1>3, Holders DEF TypeOK, JobType
<1>5. \A n \in Node : live'.pend[n] \subseteq live.pend[n] /\ live'.fail[n] = {}
  BY <1>2 DEF NoRecords
<1> QED BY <1>1, <1>2, <1>3, <1>4, <1>5

LEMMA CompleteFacts ==
    ASSUME TypeOK, CompleteStep
    PROVE  /\ UNCHANGED <<based, pub, lease, rm, cache, pool, removed>>
           /\ live.gen = Refresh.gen
           /\ live'.gen = live.gen /\ live'.rev = live.rev + 1 /\ live'.phase = "complete"
           /\ live'.pend = live.pend /\ live'.fail = live.fail
           /\ job["refresh"].pc \in {"completing", "discarding", "aborting"}
           /\ job'["refresh"].pc \in Persists /\ job'["refresh"].img = live'
           /\ job'["refresh"].kind = job["refresh"].kind
           /\ job'["refresh"].keys = job["refresh"].keys
           /\ \A h \in Holder \ {"refresh"} : job'[h] = job[h]
<1>1. /\ UNCHANGED <<based, pub, lease, rm, cache, pool, removed>> /\ live.gen = Refresh.gen
      /\ live' = Completed /\ job["refresh"].pc \in {"completing", "discarding", "aborting"}
      /\ job' = [job EXCEPT !["refresh"].pc = Persisting[@], !["refresh"].img = Completed]
  BY PersistingDomain DEF CompleteStep, complete, Refresh
<1>2. /\ live'.gen = live.gen /\ live'.rev = live.rev + 1 /\ live'.phase = "complete"
      /\ live'.pend = live.pend /\ live'.fail = live.fail
  BY <1>1 DEF Completed, TypeOK, Snapshot
<1>3. Persisting[job["refresh"].pc] \in Persists
  BY <1>1, PersistingDomain DEF Persists
<1>4. /\ job'["refresh"].pc = Persisting[job["refresh"].pc] /\ job'["refresh"].img = Completed
      /\ job'["refresh"].kind = job["refresh"].kind
      /\ job'["refresh"].keys = job["refresh"].keys
      /\ \A h \in Holder \ {"refresh"} : job'[h] = job[h]
  BY <1>1, Holders DEF TypeOK, JobType
<1> QED BY <1>1, <1>2, <1>3, <1>4

LEMMA PersistFacts ==
    ASSUME TypeOK, persistCompletedSnapshot
    PROVE  /\ Calm /\ UNCHANGED <<based, lease, pool>>
           /\ Refresh.pc \in Persists /\ Refresh'.pc \notin Persists
           /\ IF StaleImage(Refresh.img) THEN UNCHANGED cache
              ELSE SaveSucceeds(Refresh.img) \/ SaveFails(Refresh.img)
           /\ \A h \in Holder \ {"refresh"} : job'[h] = job[h]
<1>1. /\ Refresh.pc \in Persists /\ UNCHANGED <<live, based, pub, lease, rm, pool, removed>>
      /\ IF StaleImage(Refresh.img) THEN UNCHANGED cache
         ELSE SaveSucceeds(Refresh.img) \/ SaveFails(Refresh.img)
  BY DEF persistCompletedSnapshot, Refresh, Persists
<1>2. Refresh.pc \notin Held
  BY <1>1 DEF Persists, Held
<1>3. CASE Refresh.pc = "persisting"
  <2> DEFINE j == [job["refresh"] EXCEPT !.pc = "commit", !.img = NoSnapshot]
  <2>1. job' = [job EXCEPT !["refresh"] = j]
    BY <1>3, Holders DEF persistCompletedSnapshot, TypeOK, Refresh
  <2>2. j.pc = "commit" /\ j.img = NoSnapshot
    BY Holders DEF TypeOK, JobType
  <2> HIDE DEF j
  <2>3. Calm
    BY <1>1, <1>2, <2>1, <2>2, Holders, Stages, OneMoves DEF Refresh
  <2>4. Refresh'.pc = "commit" /\ \A h \in Holder \ {"refresh"} : job'[h] = job[h]
    BY <2>1, <2>2, Holders DEF TypeOK, Refresh
  <2> QED BY <1>1, <2>3, <2>4, Stages
<1>4. CASE Refresh.pc # "persisting"
  <2>1. Leave("refresh")
    BY <1>4 DEF persistCompletedSnapshot, Refresh
  <2>2. Calm /\ Refresh'.pc = "release"
    BY <1>1, <1>2, <2>1, Holders, LeaveIsCalm DEF Refresh
  <2>3. \A h \in Holder \ {"refresh"} : job'[h] = job[h]
    BY <2>1, Holders DEF Leave, TypeOK
  <2> QED BY <1>1, <2>2, <2>3, Stages
<1> QED BY <1>3, <1>4

(* A commit keeps its lock and goes on, or returns.                        *)
GoesOn(h, pc) ==
    /\ job'[h].pc = pc /\ job'[h].kind = job[h].kind /\ job'[h].keys = job[h].keys
    /\ job'[h].same = job[h].same /\ job'[h].out = job[h].out
    /\ job'[h].rev = job[h].rev /\ job'[h].img = job[h].img
    /\ pub' = pub /\ lease' = lease
Returns(h) == job'[h].pc = "release" /\ job'[h].img = NoSnapshot /\ pub' = "none"
              /\ lease' = Released(h)

LEMMA CommitMoves ==
    ASSUME TypeOK, NEW h \in Holder
    PROVE  /\ \A pc : Goto(h, pc) /\ UNCHANGED <<pub, lease>> =>
                 GoesOn(h, pc) /\ \A g \in Holder \ {h} : job'[g] = job[g]
           /\ CommitReturn(h) => Returns(h) /\ \A g \in Holder \ {h} : job'[g] = job[g]
<1>1. ASSUME NEW pc, Goto(h, pc), UNCHANGED <<pub, lease>>
      PROVE  GoesOn(h, pc) /\ \A g \in Holder \ {h} : job'[g] = job[g]
  BY <1>1 DEF Goto, GoesOn, TypeOK, JobType
<1>2. ASSUME CommitReturn(h)
      PROVE  Returns(h) /\ \A g \in Holder \ {h} : job'[g] = job[g]
  BY <1>2 DEF CommitReturn, Leave, Returns, TypeOK, NoJob
<1> QED BY <1>1, <1>2

LEMMA CommitStartFacts ==
    ASSUME TypeOK, NEW h \in Holder, CommitStart(h)
    PROVE  /\ UNCHANGED <<live, lease, rm, cache, pool, removed>>
           /\ \A g \in Holder \ {h} : job'[g] = job[g]
           /\ job[h].pc = "commit" /\ pub = "none" /\ pub' = h /\ based' = based \cup {h}
           /\ job[h].keys \subseteq job[h].same
           /\ job'[h].pc = "save" /\ job'[h].kind = job[h].kind /\ job'[h].keys = job[h].keys
           /\ job'[h].same = job[h].same /\ job'[h].out = job[h].out
           /\ job'[h].rev = live.rev
           /\ job'[h].img.pend = CommitPend(h) /\ job'[h].img.fail = CommitFail(h)
           /\ job'[h].img.gen = live.gen /\ job'[h].img.rev = live.rev + 1
           /\ job'[h].img.phase = live.phase
<1>1. /\ UNCHANGED <<live, lease, rm, cache, pool, removed>>
      /\ job[h].pc = "commit" /\ pub = "none" /\ pub' = h /\ based' = based \cup {h}
      /\ job[h].keys \subseteq job[h].same
      /\ job' = [job EXCEPT ![h].pc = "save", ![h].rev = live.rev, ![h].img = Committed(h)]
  BY DEF CommitStart, CommitBegin, publicationFree, LeasesCurrent
<1>2. /\ job'[h].pc = "save" /\ job'[h].kind = job[h].kind /\ job'[h].keys = job[h].keys
      /\ job'[h].same = job[h].same /\ job'[h].out = job[h].out
      /\ job'[h].rev = live.rev /\ job'[h].img = Committed(h)
      /\ \A g \in Holder \ {h} : job'[g] = job[g]
  BY <1>1 DEF TypeOK, JobType
<1>3. Committed(h) = [live EXCEPT !.pend = CommitPend(h), !.fail = CommitFail(h),
                                  !.rev = live.rev + 1]
  BY DEF Committed, CommitPend, CommitFail
<1>4. /\ Committed(h).pend = CommitPend(h) /\ Committed(h).fail = CommitFail(h)
      /\ Committed(h).gen = live.gen /\ Committed(h).rev = live.rev + 1
      /\ Committed(h).phase = live.phase
  BY <1>3 DEF TypeOK, Snapshot
<1> QED BY <1>1, <1>2, <1>4

LEMMA CommitSaveFacts ==
    ASSUME TypeOK, NEW h \in Holder, CommitSave(h)
    PROVE  /\ UNCHANGED <<live, based, rm, pool, removed>>
           /\ \A g \in Holder \ {h} : job'[g] = job[g]
           /\ job[h].pc = "save"
           /\ \/ GoesOn(h, "check") /\ StaleImage(job[h].img) /\ UNCHANGED cache
              \/ GoesOn(h, "check") /\ ~StaleImage(job[h].img) /\ SaveSucceeds(job[h].img)
              \/ Returns(h) /\ ~StaleImage(job[h].img) /\ SaveFails(job[h].img)
BY CommitMoves DEF CommitSave

LEMMA CommitCheckFacts ==
    ASSUME TypeOK, NEW h \in Holder, CommitCheck(h)
    PROVE  /\ UNCHANGED <<live, based, rm, cache, pool, removed>>
           /\ \A g \in Holder \ {h} : job'[g] = job[g]
           /\ job[h].pc = "check"
           /\ GoesOn(h, IF h \in based /\ live.rev = job[h].rev THEN "swap" ELSE "restore")
BY CommitMoves DEF CommitCheck

LEMMA CommitSwapFacts ==
    ASSUME TypeOK, NEW h \in Holder, CommitSwap(h)
    PROVE  /\ UNCHANGED <<rm, cache, pool, removed>>
           /\ \A g \in Holder \ {h} : job'[g] = job[g]
           /\ job[h].pc = "swap"
           /\ IF h \in based THEN live' = job[h].img /\ based' = {} /\ Returns(h)
              ELSE GoesOn(h, "restore") /\ UNCHANGED <<live, based>>
BY CommitMoves DEF CommitSwap, Publish

LEMMA CommitRestoreFacts ==
    ASSUME TypeOK, NEW h \in Holder, CommitRestore(h)
    PROVE  /\ UNCHANGED <<live, based, rm, pool, removed>>
           /\ \A g \in Holder \ {h} : job'[g] = job[g]
           /\ job[h].pc = "restore"
           /\ \/ GoesOn(h, "relock") /\ SaveSucceeds(live)
              \/ Returns(h) /\ SaveFails(live)
BY CommitMoves DEF CommitRestore

(* The steps of a removal touch no worker.                                 *)
LEMMA RemovalFrame ==
    ASSUME RemoveStart \/ RemoveNext
    PROVE  /\ UNCHANGED <<pub, lease, job, pool>>
           /\ live' # live \/ removed' # removed => RemovePublish
BY DEF RemoveStart, RemoveNext, RemoveBuild, RemovePrecheck, RemoveSave, RemovePublish,
       RestoreClone, RestoreSave, RestoreVerify

(* A removal keeps what it captured, or drops it.                          *)
Keeps(pc) == rm'.pc = pc /\ rm'.keys = rm.keys /\ rm'.rev = rm.rev /\ rm'.img = rm.img
Drops(pcs) == rm'.pc \in pcs /\ rm'.img = NoSnapshot /\ based' = based \ {"remove"}

LEMMA RemovalMoves ==
    ASSUME TypeOK
    PROVE  /\ \A pc : rm' = [rm EXCEPT !.pc = pc] => Keeps(pc)
           /\ RemoveEnd => Drops({"idle"})
           /\ RemoveRetry => Drops({"idle", "build"})
           /\ \A b : RemoveRestore(b) => Drops({"restore"})
<1>1. \A pc : rm' = [rm EXCEPT !.pc = pc] => Keeps(pc)
  BY DEF Keeps, TypeOK, RemovalType
<1>2. RemoveEnd => Drops({"idle"})
  BY DEF RemoveEnd, Drops, NoRemoval
<1>3. RemoveRetry => Drops({"idle", "build"})
  BY <1>2 DEF RemoveRetry, Drops, NoRemoval
<1>4. \A b : RemoveRestore(b) => Drops({"restore"})
  BY DEF RemoveRestore, Drops, TypeOK, RemovalType
<1> QED BY <1>1, <1>2, <1>3, <1>4

LEMMA RemoveStartFacts ==
    ASSUME TypeOK, RemoveStart
    PROVE  /\ UNCHANGED <<live, based, pub, lease, job, cache, pool, removed>>
           /\ rm.pc = "idle" /\ rm'.pc = "build" /\ rm'.img = NoSnapshot
BY DEF RemoveStart, NoRemoval

LEMMA RemoveBuildFacts ==
    ASSUME TypeOK, RemoveBuild
    PROVE  /\ UNCHANGED <<live, pub, lease, job, cache, pool, removed>>
           /\ rm.pc = "build"
           /\ \/ Drops({"idle"})
              \/ /\ rm'.pc = "precheck" /\ rm'.keys = rm.keys /\ rm'.rev = live.rev
                 /\ rm'.img = RemovalBuilt
                 /\ based' = based \cup {"remove"}
<1>1. CASE rm.keys \cap Declared(live, "candidate") = {}
  BY <1>1, RemovalMoves DEF RemoveBuild
<1>2. CASE rm.keys \cap Declared(live, "candidate") # {}
  <2>1. rm' = [rm EXCEPT !.pc = "precheck", !.rev = live.rev, !.img = RemovalBuilt]
    BY <1>2 DEF RemoveBuild, RemovalBuilt
  <2>2. rm'.pc = "precheck" /\ rm'.keys = rm.keys /\ rm'.rev = live.rev /\ rm'.img = RemovalBuilt
    BY <2>1 DEF TypeOK, RemovalType
  <2> QED BY <1>2, <2>2 DEF RemoveBuild
<1> QED BY <1>1, <1>2

LEMMA RemovePrecheckFacts ==
    ASSUME TypeOK, RemovePrecheck
    PROVE  /\ UNCHANGED <<live, pub, lease, job, cache, pool, removed>>
           /\ rm.pc = "precheck" /\ pub = "none"
           /\ \/ RemovalCurrent /\ Keeps("save") /\ based' = based
              \/ Drops({"idle", "build"})
BY RemovalMoves DEF RemovePrecheck, publicationFree

LEMMA RemoveSaveFacts ==
    ASSUME TypeOK, RemoveSave
    PROVE  /\ UNCHANGED <<live, pub, lease, job, pool, removed>>
           /\ rm.pc = "save"
           /\ \/ Keeps("publish") /\ based' = based /\ StaleImage(rm.img) /\ UNCHANGED cache
              \/ Keeps("publish") /\ based' = based /\ ~StaleImage(rm.img) /\ SaveSucceeds(rm.img)
              \/ Drops({"restore"}) /\ ~StaleImage(rm.img) /\ SaveFails(rm.img)
BY RemovalMoves DEF RemoveSave

LEMMA RemovePublishFacts ==
    ASSUME TypeOK, RemovePublish
    PROVE  /\ UNCHANGED <<pub, lease, job, cache, pool>>
           /\ rm.pc = "publish" /\ pub = "none"
           /\ \/ /\ RemovalCurrent /\ live' = rm.img /\ based' = {} /\ rm' = NoRemoval
                 /\ removed' = removed \cup (rm.keys \cap Declared(live, "candidate"))
              \/ ~RemovalCurrent /\ Drops({"restore"}) /\ UNCHANGED <<live, removed>>
BY RemovalMoves DEF RemovePublish, Publish, publicationFree

LEMMA RestoreCloneFacts ==
    ASSUME TypeOK, RestoreClone
    PROVE  /\ UNCHANGED <<live, pub, lease, job, cache, pool, removed>>
           /\ rm.pc = "restore" /\ based' = based \cup {"remove"}
           /\ rm'.pc = "force" /\ rm'.rev = live.rev /\ rm'.img = live
BY DEF RestoreClone, TypeOK, RemovalType

LEMMA RestoreSaveFacts ==
    ASSUME TypeOK, RestoreSave
    PROVE  /\ UNCHANGED <<live, pub, lease, job, pool, removed>>
           /\ rm.pc = "force"
           /\ \/ /\ SaveSucceeds(rm.img) /\ based' = based
                 /\ rm'.pc = "verify" /\ rm'.rev = rm.rev /\ rm'.img = NoSnapshot
              \/ SaveFails(rm.img) /\ Drops({"idle"})
<1>1. rm' = [rm EXCEPT !.pc = "verify", !.img = NoSnapshot] =>
         rm'.pc = "verify" /\ rm'.rev = rm.rev /\ rm'.img = NoSnapshot
  BY DEF TypeOK, RemovalType
<1> QED BY <1>1, RemovalMoves DEF RestoreSave

LEMMA RestoreVerifyFacts ==
    ASSUME TypeOK, RestoreVerify
    PROVE  /\ UNCHANGED <<live, pub, lease, job, disk, saved, pool, removed>>
           /\ rm.pc = "verify" /\ pub = "none"
           /\ \/ RemovalCurrent /\ Drops({"idle", "build"}) /\ UNCHANGED excused
              \/ ~RemovalCurrent /\ Drops({"restore"}) /\ UNCHANGED excused
              \/ Drops({"idle"}) /\ excused' = TRUE
<1>1. RemoveEnd => Drops({"idle", "build"})
  BY RemovalMoves DEF Drops
<1> QED BY <1>1, RemovalMoves DEF RestoreVerify, publicationFree

LEMMA RestartFacts ==
    ASSUME TypeOK, Restart
    PROVE  /\ live'.pend = disk.pend /\ live'.fail = disk.fail
           /\ live'.gen = 0 /\ live'.rev = 1 /\ live'.phase = "restored"
           /\ saved' = [gen |-> 0, rev |-> 0] /\ based' = {} /\ pub' = "none"
           /\ rm'.pc = "idle" /\ rm'.img = NoSnapshot
           /\ \A h \in Holder : job'[h].pc = "idle" /\ job'[h].img = NoSnapshot
           /\ excused' = FALSE /\ UNCHANGED <<disk, pool, removed>>
BY DEF Restart, Loaded, NoRemoval, NoJob

-----------------------------------------------------------------------------
(* Isolation of failures.                                                  *)
LEMMA EmptyDisjoint == Disjoint(NoSnapshot)
BY DEF Disjoint, NoSnapshot, NoRecords

LEMMA DisjointInit == Init => AllDisjoint
<1> SUFFICES ASSUME Init PROVE AllDisjoint
  OBVIOUS
<1>1. live = NoSnapshot /\ rm.img = NoSnapshot /\ \A h \in Holder : job[h].img = NoSnapshot
  BY DEF Init, NoJob, NoRemoval
<1>2. Disjoint(disk)
  BY EmptyDisjoint DEF Init, Image, Disjoint
<1> QED BY <1>1, <1>2, EmptyDisjoint DEF AllDisjoint

LEMMA DisjointStep ==
    ASSUME TypeOK, AllDisjoint, [Next]_vars
    PROVE  AllDisjoint'
<1> USE Holders, EmptyDisjoint
<1>0. /\ Disjoint(live) /\ Disjoint(disk) /\ Disjoint(rm.img)
      /\ \A h \in Holder : Disjoint(job[h].img)
  BY DEF AllDisjoint
<1>s. ASSUME NEW s, Disjoint(s), SaveSucceeds(s) \/ SaveFails(s) PROVE Disjoint(disk)'
  <2>1. disk' \in {disk, Image(s)}
    BY <1>s DEF SaveSucceeds, SaveFails
  <2> QED BY <1>0, <1>s, <2>1 DEF Disjoint, Image
<1>1. CASE Calm /\ UNCHANGED disk
  BY <1>0, <1>1 DEF Calm, AllDisjoint, Disjoint
<1>2. CASE begin
  <2>1. Disjoint(live)'
    BY <1>2, BeginFacts DEF Disjoint
  <2>2. \A h \in Holder : job'[h].img \in {job[h].img, NoSnapshot}
    BY <1>2, BeginFacts
  <2> QED BY <1>0, <1>2, <2>1, <2>2, BeginFacts DEF AllDisjoint, Disjoint, cache
<1>3. CASE WithdrawStep
  <2>1. Disjoint(live)'
    BY <1>3, WithdrawFacts DEF Disjoint
  <2>2. \A h \in Holder : job'[h].img = job[h].img
    BY <1>3, WithdrawFacts
  <2> QED BY <1>0, <1>3, <2>1, <2>2, WithdrawFacts DEF AllDisjoint, Disjoint, cache
<1>4. CASE CompleteStep
  <2>1. Disjoint(live)'
    BY <1>0, <1>4, CompleteFacts DEF Disjoint
  <2>2. \A h \in Holder : job'[h].img \in {job[h].img, live'}
    BY <1>4, CompleteFacts
  <2>3. \A h \in Holder : Disjoint(job[h].img)'
    BY <1>0, <2>1, <2>2 DEF Disjoint
  <2> QED BY <1>0, <1>4, <2>1, <2>3, CompleteFacts DEF AllDisjoint, Disjoint, cache
<1>5. CASE persistCompletedSnapshot
  <2>1. Calm /\ Disjoint(Refresh.img)
    BY <1>0, <1>5, PersistFacts DEF Refresh
  <2>2. Disjoint(disk)'
    BY <1>0, <1>5, <1>s, <2>1, PersistFacts DEF cache, Disjoint
  <2> QED BY <1>0, <2>1, <2>2 DEF Calm, AllDisjoint, Disjoint
<1>6. ASSUME NEW h \in Holder, CommitStart(h) PROVE AllDisjoint'
  <2>1. Disjoint(job[h].img)'
    <3>1. \A n \in Node : CommitPend(h)[n] = {} \/ CommitFail(h)[n] = {}
      BY <1>0 DEF Disjoint, CommitPend, CommitFail
    <3>2. job'[h].img.pend = CommitPend(h) /\ job'[h].img.fail = CommitFail(h)
      BY <1>6, CommitStartFacts
    <3> QED BY <3>1, <3>2 DEF Disjoint
  <2> QED BY <1>0, <1>6, <2>1, CommitStartFacts DEF AllDisjoint, Disjoint, cache
<1>7. ASSUME NEW h \in Holder, CommitSave(h) \/ CommitRestore(h) PROVE AllDisjoint'
  <2>1. \A g \in Holder : job'[g].img \in {job[g].img, NoSnapshot}
    BY <1>7, CommitSaveFacts, CommitRestoreFacts DEF GoesOn, Returns
  <2>2. Disjoint(disk)'
    BY <1>0, <1>7, <1>s, CommitSaveFacts, CommitRestoreFacts DEF cache, Disjoint
  <2>3. UNCHANGED <<live, rm>>
    BY <1>7, CommitSaveFacts, CommitRestoreFacts
  <2> QED BY <1>0, <2>1, <2>2, <2>3 DEF AllDisjoint, Disjoint
<1>8. ASSUME NEW h \in Holder, CommitCheck(h) \/ CommitSwap(h) PROVE AllDisjoint'
  <2>1. \A g \in Holder : job'[g].img \in {job[g].img, NoSnapshot}
    BY <1>8, CommitCheckFacts, CommitSwapFacts DEF GoesOn, Returns
  <2>2. live' \in {live, job[h].img} /\ UNCHANGED <<rm, cache>>
    BY <1>8, CommitCheckFacts, CommitSwapFacts
  <2> QED BY <1>0, <2>1, <2>2 DEF AllDisjoint, Disjoint, cache
<1>9. CASE RemoveStart \/ RemoveNext
  <2>1. UNCHANGED job
    BY <1>9, RemovalFrame
  <2>2. live' \in {live, rm.img}
    BY <1>9, RemovalFrame, RemovePublishFacts
  <2>3. Disjoint(rm.img)'
    <3>1. Disjoint(RemovalBuilt)
      <4>1. RemovalBuilt.fail = live.fail
            /\ \A n \in Node : RemovalBuilt.pend[n] \in {{}, live.pend[n]}
        <5> DEFINE P == [n \in Node |-> IF n \in rm.keys THEN {} ELSE live.pend[n]]
        <5>1. RemovalBuilt = [live EXCEPT !.rev = live.rev + 1, !.pend = P]
          BY DEF RemovalBuilt
        <5>2. RemovalBuilt.fail = live.fail /\ RemovalBuilt.pend = P
          <6> HIDE DEF P
          <6> QED BY <5>1 DEF TypeOK, Snapshot
        <5> QED BY <5>2
      <4> QED BY <1>0, <4>1 DEF Disjoint
    <3>2. rm'.img \in {rm.img, live, NoSnapshot, RemovalBuilt}
      <4>1. CASE RemoveStart
        BY <4>1, RemoveStartFacts
      <4>2. CASE RemoveBuild
        BY <4>2, RemoveBuildFacts DEF Drops
      <4>3. CASE RemovePrecheck
        BY <4>3, RemovePrecheckFacts DEF Drops, Keeps
      <4>4. CASE RemoveSave
        BY <4>4, RemoveSaveFacts DEF Drops, Keeps
      <4>5. CASE RemovePublish
        BY <4>5, RemovePublishFacts DEF Drops, NoRemoval
      <4>6. CASE RestoreClone
        BY <4>6, RestoreCloneFacts
      <4>7. CASE RestoreSave
        BY <4>7, RestoreSaveFacts DEF Drops
      <4>8. CASE RestoreVerify
        BY <4>8, RestoreVerifyFacts DEF Drops
      <4> QED BY <1>9, <4>1, <4>2, <4>3, <4>4, <4>5, <4>6, <4>7, <4>8 DEF RemoveNext
    <3> QED BY <1>0, <3>1, <3>2 DEF Disjoint
  <2>4. Disjoint(disk)'
    <3>1. \/ UNCHANGED disk
          \/ SaveSucceeds(rm.img) \/ SaveFails(rm.img)
      BY <1>9 DEF RemoveStart, RemoveNext, RemoveBuild, RemovePrecheck, RemoveSave, RemovePublish,
         RestoreClone, RestoreSave, RestoreVerify, cache
    <3> QED BY <1>0, <1>s, <3>1 DEF Disjoint
  <2> QED BY <1>0, <2>1, <2>2, <2>3, <2>4 DEF AllDisjoint, Disjoint
<1>10. CASE Restart
  BY <1>0, <1>10, RestartFacts DEF AllDisjoint, Disjoint
<1> QED
  BY <1>1, <1>2, <1>3, <1>4, <1>5, <1>6, <1>7, <1>8, <1>9, <1>10, QuietActions
  DEF QuietStep, BusyStep, CommitStep, cache

(* A node that failed its check is isolated (OneHome), in memory and in    *)
(* the file, whatever interleaves.                                         *)
THEOREM FailuresAreIsolated == Spec => []OneHome
<1>1. Init => TypeOK /\ RestoresCounted /\ AllDisjoint
  BY TypeInit, DisjointInit DEF Init, RestoresCounted, NoRemoval
<1>2. TypeOK /\ RestoresCounted /\ AllDisjoint /\ [Next]_vars =>
         (TypeOK /\ RestoresCounted /\ AllDisjoint)'
  BY TypeStep, RestoresStep, DisjointStep
<1>3. AllDisjoint => OneHome
  BY DEF AllDisjoint, Disjoint, OneHome
<1> QED BY <1>1, <1>2, <1>3, PTL DEF Spec

-----------------------------------------------------------------------------
(* Leases.                                                                 *)
LEMMA LeaseKept ==
    ASSUME TypeOK, LeaseExclusive, UNCHANGED lease, NEW h \in Holder,
           \A g \in Holder \ {h} : job'[g] = job[g],
           Working(h)' => /\ Working(h) /\ job'[h].kind = job[h].kind
                          /\ job'[h].keys = job[h].keys
    PROVE  LeaseExclusive'
<1> SUFFICES ASSUME NEW g \in Holder, Working(g)', NEW n \in job'[g].keys
             PROVE  lease'[job'[g].kind][n] = g
  BY DEF LeaseExclusive
<1>1. CASE g = h
  BY <1>1 DEF LeaseExclusive
<1>2. CASE g # h
  BY <1>2 DEF LeaseExclusive, Working
<1> QED BY <1>1, <1>2

(* A release gives up only the leases of the worker that releases.         *)
LEMMA LeaseReleased ==
    ASSUME TypeOK, LeaseExclusive, NEW h \in Holder, lease' = Released(h),
           \A g \in Holder \ {h} : job'[g] = job[g],
           job'[h].pc \in {"idle", "release"}
    PROVE  LeaseExclusive'
<1> SUFFICES ASSUME NEW g \in Holder, Working(g)', NEW n \in job'[g].keys
             PROVE  lease'[job'[g].kind][n] = g
  BY DEF LeaseExclusive
<1>1. g # h /\ job'[g] = job[g] /\ Working(g)
  BY DEF Working
<1>2. lease[job[g].kind][n] = g /\ n \in Node /\ job[g].kind \in Kind /\ job[h].kind \in Kind
  BY <1>1 DEF LeaseExclusive, TypeOK, JobType
<1>3. lease'[job[g].kind][n] = lease[job[g].kind][n]
  <2>1. CASE job[g].kind = job[h].kind
    BY <1>1, <1>2, <2>1 DEF Released, TypeOK
  <2>2. CASE job[g].kind # job[h].kind
    BY <1>1, <1>2, <2>2 DEF Released, TypeOK
  <2> QED BY <2>1, <2>2
<1> QED BY <1>1, <1>2, <1>3

(* A lease is drawn only where nobody holds one.                           *)
LEMMA LeaseDrawn ==
    ASSUME TypeOK, LeaseExclusive, NEW h \in Holder, NEW kind \in Kind, NEW T \in SUBSET Node,
           Lease(h, kind, T), \A n \in T : lease[kind][n] = "none"
    PROVE  LeaseExclusive'
<1> SUFFICES ASSUME NEW g \in Holder, Working(g)', NEW n \in job'[g].keys
             PROVE  lease'[job'[g].kind][n] = g
  BY DEF LeaseExclusive
<1>1. /\ job'[h].kind = kind /\ job'[h].keys = T
      /\ \A f \in Holder \ {h} : job'[f] = job[f]
  <2> DEFINE A == [n_1 \in Node |-> IF n_1 \in T /\ h = "refresh" THEN live.pend[n_1] ELSE {}]
             r == IF h \in Tester THEN live.rev ELSE 0
             S == IF h = "batch" THEN Source ELSE job[h].srcs
             pc == IF h = "refresh" THEN "leased" ELSE "probing"
             j == [job[h] EXCEPT !.kind = kind, !.keys = T, !.same = T,
                                 !.att = A, !.rev = r, !.srcs = S, !.pc = pc]
  <2>1. job' = [job EXCEPT ![h] = j]
    BY DEF Lease, TypeOK
  <2>2. j.kind = kind /\ j.keys = T
    <3> HIDE DEF A, r, S, pc
    <3> QED BY DEF TypeOK, JobType
  <2> HIDE DEF j
  <2> QED BY <2>1, <2>2 DEF TypeOK
<1>2. /\ \A m \in Node : lease'[kind][m] = IF m \in T THEN h ELSE lease[kind][m]
      /\ \A k \in Kind \ {kind} : lease'[k] = lease[k]
  BY DEF Lease, TypeOK
<1>3. CASE g = h
  BY <1>1, <1>2, <1>3
<1>4. CASE g # h
  <2>1. job'[g] = job[g] /\ Working(g) /\ job[g].kind \in Kind /\ n \in Node
    BY <1>1, <1>4 DEF Working, TypeOK, JobType
  <2>2. lease[job[g].kind][n] = g /\ g # "none"
    BY <2>1, Holders DEF LeaseExclusive
  <2> QED BY <1>2, <2>1, <2>2
<1> QED BY <1>3, <1>4

LEMMA LeaseStep ==
    ASSUME TypeOK, LeaseExclusive, [Next]_vars
    PROVE  LeaseExclusive'
<1> USE Holders
<1>0. job \in [Holder -> JobType] /\ \A h \in Holder : job[h] \in JobType
  BY DEF TypeOK
<1>m. ASSUME NEW h \in Holder, Leave(h), UNCHANGED lease PROVE LeaseExclusive'
  <2>1. ~Working(h)' /\ \A g \in Holder \ {h} : job'[g] = job[g]
    BY <1>0, <1>m DEF Leave, Working, NoJob
  <2> QED BY <1>m, <2>1, LeaseKept
<1>g. ASSUME NEW h \in Holder, NEW pc, Goto(h, pc), UNCHANGED lease, Working(h)
      PROVE  LeaseExclusive'
  <2>1. job'[h].kind = job[h].kind /\ job'[h].keys = job[h].keys
        /\ \A g \in Holder \ {h} : job'[g] = job[g]
    BY <1>0, <1>g DEF Goto, JobType
  <2> QED BY <1>g, <2>1, LeaseKept
<1>d. ASSUME NEW h \in Holder, NEW kind \in {"candidate", "failed"}, Drawn(h, kind)
      PROVE  LeaseExclusive'
  <2>1. PICK T \in SUBSET Node : (\A n \in T : lease[kind][n] = "none") /\ Lease(h, kind, T)
    BY <1>d DEF Drawn
  <2>2. kind \in Kind
    BY DEF Kind
  <2> QED BY <2>1, <2>2, LeaseDrawn
<1>u. ASSUME UNCHANGED <<lease, job>> PROVE LeaseExclusive'
  BY <1>u DEF LeaseExclusive, Working
<1>1. CASE begin
  <2>1. ~Working("refresh")'
    BY <1>1, BeginFacts DEF Working
  <2> QED BY <1>1, <2>1, BeginFacts DEF LeaseExclusive, Working
<1>2. CASE LeasePendingKeys
  BY <1>2, <1>d, LeaseActions
<1>3. CASE RefreshStart
  BY <1>3, <1>g DEF RefreshStart, Working
<1>4. CASE RefreshAbort
  <2>1. CASE Refresh.full
    <3>1. /\ job'["refresh"].kind = job["refresh"].kind /\ job'["refresh"].keys = job["refresh"].keys
          /\ \A g \in Holder \ {"refresh"} : job'[g] = job[g]
      BY <1>0, <1>4, <2>1 DEF RefreshAbort, JobType, Refresh
    <3> QED BY <1>4, <3>1, LeaseKept DEF RefreshAbort, Working
  <2>2. CASE ~Refresh.full
    BY <1>4, <1>m, <2>2 DEF RefreshAbort, Refresh
  <2> QED BY <2>1, <2>2
<1>5. CASE RefreshFinal
  <2> DEFINE j == job["refresh"]
             valid == {n \in j.keys : j.att[n] \cap j.srcs # {}}
  <2>1. CASE j.full \/ j.srcs # {}
    <3>1. PICK o \in Outcomes(IF j.full THEN valid ELSE j.keys) :
             job' = [job EXCEPT !["refresh"] =
               [j EXCEPT !.pc = IF j.full THEN "reconcile" ELSE "update",
                         !.out = o, !.att = NoRecords, !.full = FALSE,
                         !.srcs = IF j.full THEN j.srcs ELSE {}]]
      BY <1>5, <2>1 DEF RefreshFinal
    <3>2. /\ job'["refresh"].kind = job["refresh"].kind /\ job'["refresh"].keys = job["refresh"].keys
          /\ \A g \in Holder \ {"refresh"} : job'[g] = job[g]
      BY <1>0, <3>1 DEF JobType
    <3> QED BY <1>5, <3>2, LeaseKept DEF RefreshFinal, Working
  <2>2. CASE ~(j.full \/ j.srcs # {})
    BY <1>5, <1>m, <2>2 DEF RefreshFinal
  <2> QED BY <2>1, <2>2
<1>6. CASE reconcileFullRefreshCatalog
  <2>1. /\ job'["refresh"].kind = job["refresh"].kind /\ job'["refresh"].keys = job["refresh"].keys
        /\ \A g \in Holder \ {"refresh"} : job'[g] = job[g]
    BY <1>0, <1>6 DEF reconcileFullRefreshCatalog, JobType
  <2> QED BY <1>6, <2>1, LeaseKept DEF reconcileFullRefreshCatalog, Working
<1>7. ASSUME NEW h \in Holder, PoolUpdate(h) PROVE LeaseExclusive'
  BY <1>7, <1>g, <1>m DEF PoolUpdate, Working
<1>8. CASE complete
  <2>1. CASE live.gen = Refresh.gen
    BY <1>8, <2>1, CompleteFacts, LeaseKept DEF CompleteStep, Working
  <2>2. CASE live.gen # Refresh.gen
    <3>1. Working("refresh") /\ UNCHANGED lease
      BY <1>8, PersistingDomain DEF complete, Working
    <3> QED BY <1>8, <1>g, <1>m, <2>2, <3>1 DEF complete, Refresh
  <2> QED BY <2>1, <2>2
<1>9. CASE persistCompletedSnapshot
  <2>1. CASE Refresh.pc = "persisting"
    <3>1. /\ job'["refresh"].kind = job["refresh"].kind /\ job'["refresh"].keys = job["refresh"].keys
          /\ \A g \in Holder \ {"refresh"} : job'[g] = job[g]
      BY <1>0, <1>9, <2>1 DEF persistCompletedSnapshot, JobType, Refresh
    <3> QED BY <1>9, <2>1, <3>1, LeaseKept DEF persistCompletedSnapshot, Working, Refresh
  <2>2. CASE Refresh.pc # "persisting"
    BY <1>9, <1>m, <2>2 DEF persistCompletedSnapshot, Refresh
  <2> QED BY <2>1, <2>2
<1>10. CASE BatchLease \/ RetryLease
  BY <1>10, <1>d, <1>u, LeaseActions
<1>11. CASE BatchAbort
  BY <1>11, <1>m DEF BatchAbort
<1>12. CASE BatchFinal
  <2>1. CASE job["batch"].srcs = Source
    <3>1. PICK o \in Outcomes(job["batch"].keys) :
             job' = [job EXCEPT !["batch"].pc = "update", !["batch"].out = o,
                                !["batch"].srcs = {}]
      BY <1>12, <2>1 DEF BatchFinal
    <3>2. /\ job'["batch"].kind = job["batch"].kind /\ job'["batch"].keys = job["batch"].keys
          /\ \A g \in Holder \ {"batch"} : job'[g] = job[g]
      BY <1>0, <3>1 DEF JobType
    <3> QED BY <1>12, <3>2, LeaseKept DEF BatchFinal, Working
  <2>2. CASE job["batch"].srcs # Source
    BY <1>12, <1>m, <2>2 DEF BatchFinal
  <2> QED BY <2>1, <2>2
<1>13. ASSUME NEW t \in Tester, SpeedLease(t) PROVE LeaseExclusive'
  BY <1>13, <1>d, LeaseActions
<1>14. ASSUME NEW t \in Tester, SpeedEnd(t) PROVE LeaseExclusive'
  <2>1. CASE Leave(t)
    BY <1>14, <1>m, <2>1 DEF SpeedEnd
  <2>2. CASE ~Leave(t)
    <3>1. /\ job'[t].kind = job[t].kind /\ job'[t].keys = job[t].keys
          /\ \A g \in Holder \ {t} : job'[g] = job[g]
      BY <1>0, <1>14, <2>2 DEF SpeedEnd, JobType
    <3> QED BY <1>14, <3>1, LeaseKept DEF SpeedEnd, Working
  <2> QED BY <2>1, <2>2
<1>15. ASSUME NEW t \in Tester, SpeedPromote(t) PROVE LeaseExclusive'
  BY <1>15, <1>m DEF SpeedPromote
<1>16. ASSUME NEW h \in Holder, CommitBegin(h) PROVE LeaseExclusive'
  <2>1. CASE CommitStart(h)
    BY <1>16, <2>1, CommitStartFacts, LeaseKept DEF Working
  <2>2. CASE ~CommitStart(h)
    <3>1. lease' = Released(h) /\ Leave(h)
      BY <1>16, <2>2 DEF CommitBegin, CommitStart
    <3>2. job'[h].pc = "release" /\ \A g \in Holder \ {h} : job'[g] = job[g]
      BY <1>0, <3>1 DEF Leave, NoJob
    <3> QED BY <3>1, <3>2, LeaseReleased
  <2> QED BY <2>1, <2>2
<1>17. ASSUME NEW h \in Holder, NEW pc, GoesOn(h, pc), Working(h),
              \A g \in Holder \ {h} : job'[g] = job[g]
       PROVE  LeaseExclusive'
  BY <1>17, LeaseKept DEF GoesOn
<1>18. ASSUME NEW h \in Holder, Returns(h), \A g \in Holder \ {h} : job'[g] = job[g]
       PROVE  LeaseExclusive'
  BY <1>18, LeaseReleased DEF Returns
<1>19. ASSUME NEW h \in Holder,
              CommitSave(h) \/ CommitCheck(h) \/ CommitSwap(h) \/ CommitRestore(h)
       PROVE  LeaseExclusive'
  <2>1. Working(h)
    BY <1>19 DEF CommitSave, CommitCheck, CommitSwap, CommitRestore, Working
  <2> QED BY <1>17, <1>18, <1>19, <2>1, CommitSaveFacts, CommitCheckFacts, CommitSwapFacts,
             CommitRestoreFacts
<1>20. ASSUME NEW h \in Holder, ReleaseLeases(h) PROVE LeaseExclusive'
  <2>1. job'[h].pc = "idle" /\ \A g \in Holder \ {h} : job'[g] = job[g]
    BY <1>0, <1>20 DEF ReleaseLeases, NoJob
  <2> QED BY <1>20, <2>1, LeaseReleased DEF ReleaseLeases
<1>21. ASSUME RemoveStart \/ RemoveNext \/ PoolDrop \/ (\E t \in Tester : SpeedRefuse(t))
              \/ (\E h \in Holder : candidateKnownSnapshot(h)) \/ UNCHANGED vars
       PROVE  LeaseExclusive'
  <2>1. UNCHANGED <<lease, job>>
    BY <1>21, RemovalFrame DEF PoolDrop, SpeedRefuse, candidateKnownSnapshot, vars
  <2> QED BY <1>u, <2>1
<1>22. ASSUME NEW s \in Source, ChangeSource(s) PROVE LeaseExclusive'
  <2>1. UNCHANGED lease /\ \A h \in Holder : /\ job'[h].pc = job[h].pc
                                             /\ job'[h].kind = job[h].kind
                                             /\ job'[h].keys = job[h].keys
    BY <1>0, <1>22 DEF ChangeSource, JobType
  <2> QED BY <2>1 DEF LeaseExclusive, Working
<1>23. CASE Restart
  BY <1>23, RestartFacts DEF LeaseExclusive, Working
<1>24. CASE RefreshNext
  BY <1>2, <1>3, <1>4, <1>5, <1>6, <1>7, <1>8, <1>9, <1>24 DEF RefreshNext
<1>25. CASE RetryLease \/ BatchNext
  BY <1>7, <1>10, <1>11, <1>12, <1>25 DEF BatchNext
<1>26. ASSUME NEW t \in Tester, SpeedNext(t) PROVE LeaseExclusive'
  BY <1>13, <1>14, <1>15, <1>21, <1>26 DEF SpeedNext
<1>27. ASSUME NEW h \in Holder, CommitNext(h) PROVE LeaseExclusive'
  BY <1>16, <1>19, <1>20, <1>27 DEF CommitNext
<1> QED BY <1>1, <1>21, <1>22, <1>23, <1>24, <1>25, <1>26, <1>27 DEF Next

(* From the lease to its release a worker is alone with its records        *)
(* (LeaseExclusive), although every call releases twice.                   *)
THEOREM LeasesAreExclusive == Spec => []LeaseExclusive
<1>1. Init => TypeOK /\ RestoresCounted /\ LeaseExclusive
  BY TypeInit DEF Init, RestoresCounted, NoRemoval, LeaseExclusive, Working, NoJob
<1>2. TypeOK /\ RestoresCounted /\ LeaseExclusive /\ [Next]_vars =>
         (TypeOK /\ RestoresCounted /\ LeaseExclusive)'
  BY TypeStep, RestoresStep, LeaseStep
<1> QED BY <1>1, <1>2, PTL DEF Spec

-----------------------------------------------------------------------------
(* Who owns what while the catalog changes.                                *)
LEMMA Numbers ==
    ASSUME TypeOK
    PROVE  /\ live.gen \in Nat /\ live.rev \in Nat /\ saved.gen \in Nat /\ saved.rev \in Nat
           /\ rm.rev \in Nat /\ rm.img.gen \in Nat /\ rm.img.rev \in Nat
           /\ \A h \in Holder : /\ job[h].rev \in Nat /\ job[h].gen \in Nat
                                /\ job[h].img.gen \in Nat /\ job[h].img.rev \in Nat
           /\ Refresh.img.gen \in Nat /\ Refresh.img.rev \in Nat
<1>1. 0 .. MaxGen \subseteq Nat /\ 0 .. MaxRev \subseteq Nat
  BY CatalogBoundsAssumption
<1>2. \A s \in Snapshot : s.gen \in Nat /\ s.rev \in Nat
  BY <1>1 DEF Snapshot
<1>3. live.gen \in Nat /\ live.rev \in Nat /\ saved.gen \in Nat /\ saved.rev \in Nat
  BY <1>1, <1>2 DEF TypeOK
<1>4. rm.rev \in Nat /\ rm.img \in Snapshot
  BY <1>1 DEF TypeOK, RemovalType
<1>5. \A h \in Holder : job[h].rev \in Nat /\ job[h].gen \in Nat /\ job[h].img \in Snapshot
  BY <1>1 DEF TypeOK, JobType
<1> QED BY <1>2, <1>3, <1>4, <1>5, Holders DEF Refresh

LEMMA RemovalBuiltFields ==
    ASSUME TypeOK
    PROVE  /\ RemovalBuilt.gen = live.gen /\ RemovalBuilt.rev = live.rev + 1
           /\ RemovalBuilt.phase = live.phase /\ RemovalBuilt.fail = live.fail
           /\ \A n \in Node : RemovalBuilt.pend[n] = IF n \in rm.keys THEN {} ELSE live.pend[n]
<1> DEFINE P == [n \in Node |-> IF n \in rm.keys THEN {} ELSE live.pend[n]]
<1>1. RemovalBuilt = [live EXCEPT !.rev = live.rev + 1, !.pend = P]
  BY DEF RemovalBuilt
<1>2. /\ RemovalBuilt.gen = live.gen /\ RemovalBuilt.rev = live.rev + 1
      /\ RemovalBuilt.phase = live.phase /\ RemovalBuilt.fail = live.fail /\ RemovalBuilt.pend = P
  <2> HIDE DEF P
  <2> QED BY <1>1 DEF TypeOK, Snapshot
<1> QED BY <1>2

LEMMA PubStep ==
    ASSUME TypeOK, PubHeld, [Next]_vars
    PROVE  PubHeld'
<1> USE Holders, Stages
<1>1. CASE Calm
  BY <1>1 DEF Calm, PubHeld, Untouched
<1>2. CASE begin
  BY <1>2, BeginFacts DEF PubHeld
<1>3. CASE WithdrawStep
  BY <1>3, WithdrawFacts DEF PubHeld
<1>4. CASE CompleteStep
  BY <1>4, CompleteFacts DEF PubHeld
<1>5. ASSUME NEW h \in Holder, CommitStart(h) PROVE PubHeld'
  BY <1>5, CommitStartFacts DEF PubHeld, Held
<1>6. ASSUME NEW h \in Holder, NEW pc \in Held, GoesOn(h, pc), job[h].pc \in Held,
             \A g \in Holder \ {h} : job'[g] = job[g]
      PROVE  PubHeld'
  BY <1>6 DEF GoesOn, PubHeld
<1>7. ASSUME NEW h \in Holder, Returns(h), job[h].pc \in Held,
             \A g \in Holder \ {h} : job'[g] = job[g]
      PROVE  PubHeld'
  BY <1>7 DEF Returns, PubHeld
<1>8. ASSUME NEW h \in Holder,
             CommitSave(h) \/ CommitCheck(h) \/ CommitSwap(h) \/ CommitRestore(h)
      PROVE  PubHeld'
  <2>1. job[h].pc \in Held /\ {"check", "swap", "restore", "relock"} \subseteq Held
    BY <1>8 DEF CommitSave, CommitCheck, CommitSwap, CommitRestore, Held
  <2> QED BY <1>6, <1>7, <1>8, <2>1, CommitSaveFacts, CommitCheckFacts, CommitSwapFacts,
             CommitRestoreFacts
<1>9. CASE RemoveStart \/ RemoveNext
  BY <1>9, RemovalFrame DEF PubHeld
<1>10. CASE Restart
  BY <1>10, RestartFacts DEF PubHeld
<1> QED BY <1>1, <1>2, <1>3, <1>4, <1>5, <1>8, <1>9, <1>10, QuietActions, PersistFacts
    DEF QuietStep, BusyStep, CommitStep

(* A commit under way has the published snapshot to itself.                *)
LEMMA CommitAlone ==
    ASSUME PubHeld
    PROVE  /\ pub = "none" => \A h \in Holder : job[h].pc \notin Held
           /\ \A h \in Holder : job[h].pc \in Held =>
                 /\ pub = h /\ \A g \in Holder \ {h} : job[g].pc \notin Held
BY Holders DEF PubHeld

LEMMA OwnsStep ==
    ASSUME TypeOK, CatalogInv, [Next]_vars
    PROVE  RefreshOwns'
<1> USE Holders, Stages, Numbers
<1>0. PubHeld /\ RefreshOwns /\ CommitsBased /\ RemovalBased
  BY DEF CatalogInv
<1>1. CASE Calm
  BY <1>0, <1>1 DEF Calm, RefreshOwns
<1>2. CASE begin
  BY <1>2, BeginFacts DEF RefreshOwns, Refresh
<1>3. CASE WithdrawStep
  BY <1>0, <1>3, WithdrawFacts DEF RefreshOwns, Refresh
<1>4. CASE CompleteStep
  BY <1>4, CompleteFacts DEF RefreshOwns, Refresh
<1>5. ASSUME NEW h \in Holder, UNCHANGED live, \A g \in Holder \ {h} : job'[g] = job[g],
             job'[h].pc \in Held \cup {"release"}
      PROVE  RefreshOwns'
  <2>1. CASE h = "refresh"
    BY <1>5, <2>1 DEF RefreshOwns, Refresh
  <2>2. CASE h # "refresh"
    <3>1. UNCHANGED Refresh
      BY <1>5, <2>2 DEF Refresh
    <3> QED BY <1>0, <1>5, <3>1 DEF RefreshOwns
  <2> QED BY <2>1, <2>2
<1>6. ASSUME NEW h \in Holder, CommitStart(h) PROVE RefreshOwns'
  BY <1>5, <1>6, CommitStartFacts DEF Held
<1>7. ASSUME NEW h \in Holder, CommitSave(h) \/ CommitCheck(h) \/ CommitRestore(h)
      PROVE  RefreshOwns'
  BY <1>5, <1>7, CommitSaveFacts, CommitCheckFacts, CommitRestoreFacts DEF GoesOn, Returns, Held
<1>8. ASSUME NEW h \in Holder, CommitSwap(h) PROVE RefreshOwns'
  <2>1. job[h].pc = "swap" /\ CommitBase(h)
    BY <1>0, <1>8, CommitSwapFacts DEF CommitsBased, CommitStage
  <2>2. live' = job[h].img /\ Returns(h) /\ \A g \in Holder \ {h} : job'[g] = job[g]
    BY <1>8, <2>1, CommitSwapFacts DEF CommitBase
  <2>3. live'.gen = live.gen /\ live'.rev \in Nat /\ live.rev <= live'.rev
        /\ (Refresh.pc \in BeforeComplete => live'.phase = live.phase)
    BY <2>1, <2>2 DEF CommitBase
  <2>4. CASE h = "refresh"
    BY <2>2, <2>4 DEF RefreshOwns, Refresh, Returns
  <2>5. CASE h # "refresh"
    <3>1. UNCHANGED Refresh
      BY <2>2, <2>5 DEF Refresh
    <3> QED BY <1>0, <2>3, <3>1 DEF RefreshOwns
  <2> QED BY <2>4, <2>5
<1>9. CASE RemoveStart \/ RemoveNext
  <2>1. UNCHANGED Refresh
    BY <1>9, RemovalFrame DEF Refresh
  <2>2. CASE UNCHANGED live
    BY <1>0, <2>1, <2>2 DEF RefreshOwns
  <2>3. CASE live' # live
    <3>1. rm.pc = "publish" /\ RemovalCurrent /\ live' = rm.img
      BY <1>9, <2>3, RemovalFrame, RemovePublishFacts
    <3>2. rm.img = RemovalBuilt
      BY <1>0, <3>1 DEF RemovalBased
    <3> QED BY <1>0, <2>1, <3>1, <3>2, RemovalBuiltFields DEF RefreshOwns
  <2> QED BY <2>2, <2>3
<1>10. CASE Restart
  BY <1>10, RestartFacts DEF RefreshOwns, Refresh
<1> QED BY <1>1, <1>2, <1>3, <1>4, <1>6, <1>7, <1>8, <1>9, <1>10, QuietActions, PersistFacts
    DEF QuietStep, BusyStep, CommitStep

LEMMA CommitsStep ==
    ASSUME TypeOK, CatalogInv, [Next]_vars
    PROVE  CommitsBased'
<1> USE Holders, Stages, Numbers
<1>0. PubHeld /\ RefreshOwns /\ CommitsBased /\ RemovalBased /\ CommitStage \subseteq Held
  BY DEF CatalogInv, CommitStage, Held
<1>n. ASSUME \A h \in Holder : job'[h].pc \notin Held PROVE CommitsBased'
  BY <1>0, <1>n DEF CommitsBased
<1>k. ASSUME NEW h \in Holder, CommitBase(h), UNCHANGED live, h \in based',
             job'[h].keys = job[h].keys, job'[h].same = job[h].same, job'[h].kind = job[h].kind,
             job'[h].out = job[h].out, job'[h].rev = job[h].rev, job'[h].img = job[h].img,
             Refresh'.pc \in BeforeComplete => Refresh.pc \in BeforeComplete
      PROVE  CommitBase(h)'
  <2>1. Changed(h)' = Changed(h)
    BY <1>k DEF Changed
  <2>2. CommitPend(h)' = CommitPend(h) /\ CommitFail(h)' = CommitFail(h)
    BY <1>k, <2>1 DEF CommitPend, CommitFail
  <2> QED BY <1>k, <2>2 DEF CommitBase
<1>1. CASE Calm
  <2> SUFFICES ASSUME NEW h \in Holder, job'[h].pc \in CommitStage PROVE CommitBase(h)'
    BY DEF CommitsBased
  <2>1. Untouched(h) /\ UNCHANGED live
    BY <1>0, <1>1 DEF Calm
  <2>2. CommitBase(h)
    BY <1>0, <2>1 DEF Untouched, CommitsBased
  <2>3. h \in based'
    BY <2>1, <2>2 DEF Untouched, CommitBase
  <2> QED BY <1>1, <1>k, <2>1, <2>2, <2>3 DEF Untouched, Calm
<1>2. CASE begin
  BY <1>0, <1>2, <1>n, BeginFacts, CommitAlone
<1>3. CASE WithdrawStep
  BY <1>0, <1>3, <1>n, WithdrawFacts, CommitAlone
<1>4. CASE CompleteStep
  <2> SUFFICES ASSUME NEW h \in Holder, job'[h].pc \in CommitStage PROVE CommitBase(h)'
    BY DEF CommitsBased
  <2>1. h # "refresh" /\ job'[h] = job[h] /\ CommitBase(h)
    BY <1>0, <1>4, CompleteFacts DEF CommitsBased
  <2>2. Changed(h)' = Changed(h)
    BY <2>1 DEF Changed
  <2>3. CommitPend(h)' = CommitPend(h) /\ CommitFail(h)' = CommitFail(h)
    BY <1>4, <2>1, <2>2, CompleteFacts DEF CommitPend, CommitFail
  <2>4. live.rev = job[h].rev /\ job[h].img.phase = "checking"
    BY <1>0, <1>4, <2>1, CompleteFacts DEF CommitBase, RefreshOwns, Refresh
  <2>5. Refresh'.pc \notin BeforeComplete
    BY <1>4, CompleteFacts DEF Refresh
  <2> QED BY <1>4, <2>1, <2>3, <2>4, <2>5, CompleteFacts DEF CommitBase
<1>5. ASSUME NEW h \in Holder, CommitStart(h) PROVE CommitsBased'
  <2>1. \A g \in Holder \ {h} : job'[g].pc \notin Held
    BY <1>0, <1>5, CommitStartFacts, CommitAlone
  <2>2. Changed(h)' = Changed(h)
    BY <1>5, CommitStartFacts DEF Changed
  <2>3. CommitPend(h)' = CommitPend(h) /\ CommitFail(h)' = CommitFail(h)
    <3>1. UNCHANGED live /\ job'[h].kind = job[h].kind /\ job'[h].out = job[h].out
      BY <1>5, CommitStartFacts
    <3> QED BY <2>2, <3>1 DEF CommitPend, CommitFail
  <2>4. CommitBase(h)'
    BY <1>5, <2>3, CommitStartFacts DEF CommitBase
  <2> QED BY <1>0, <2>1, <2>4 DEF CommitsBased
<1>6. ASSUME NEW h \in Holder, NEW pc, GoesOn(h, pc), job[h].pc \in CommitStage,
             UNCHANGED <<live, based>>, \A g \in Holder \ {h} : job'[g] = job[g]
      PROVE  CommitsBased'
  <2>1. \A g \in Holder \ {h} : job'[g].pc \notin Held
    BY <1>0, <1>6, CommitAlone
  <2>2. CommitBase(h)
    BY <1>0, <1>6 DEF CommitsBased
  <2>3. Refresh'.pc \in BeforeComplete => Refresh.pc \in BeforeComplete
          \/ (h = "refresh" /\ pc \in BeforeComplete)
    BY <1>6 DEF Refresh, GoesOn
  <2>4. CASE pc \in CommitStage
    <3>1. pc \notin BeforeComplete
      BY <1>0, <2>4
    <3>2. CommitBase(h)'
      BY <1>6, <1>k, <2>2, <2>3, <3>1 DEF GoesOn, CommitBase
    <3> QED BY <1>0, <2>1, <3>2 DEF CommitsBased
  <2>5. CASE pc \notin CommitStage
    BY <1>0, <1>6, <2>1, <2>5 DEF CommitsBased, GoesOn
  <2> QED BY <2>4, <2>5
<1>7. ASSUME NEW h \in Holder, Returns(h), job[h].pc \in Held,
             \A g \in Holder \ {h} : job'[g] = job[g]
      PROVE  CommitsBased'
  <2>1. \A g \in Holder : job'[g].pc \notin Held
    BY <1>0, <1>7, CommitAlone DEF Returns
  <2> QED BY <1>n, <2>1
<1>8. ASSUME NEW h \in Holder, CommitSave(h) \/ CommitCheck(h) \/ CommitSwap(h)
      PROVE  CommitsBased'
  <2>1. job[h].pc \in CommitStage
    BY <1>8 DEF CommitSave, CommitCheck, CommitSwap, CommitStage
  <2> QED BY <1>0, <1>6, <1>7, <1>8, <2>1, CommitSaveFacts, CommitCheckFacts, CommitSwapFacts
<1>9. ASSUME NEW h \in Holder, CommitRestore(h) PROVE CommitsBased'
  <2>1. job[h].pc \in Held /\ \A g \in Holder \ {h} : job'[g] = job[g]
    BY <1>9, CommitRestoreFacts DEF Held
  <2>2. CASE Returns(h)
    BY <1>7, <2>1, <2>2
  <2>3. CASE GoesOn(h, "relock")
    <3>1. \A g \in Holder : job'[g].pc \notin CommitStage
      BY <1>0, <2>1, <2>3, CommitAlone DEF GoesOn, CommitStage
    <3> QED BY <3>1 DEF CommitsBased
  <2> QED BY <1>9, <2>2, <2>3, CommitRestoreFacts
<1>10. CASE RemoveStart \/ RemoveNext
  <2>1. UNCHANGED job
    BY <1>10, RemovalFrame
  <2>2. CASE RemovePublish
    BY <1>0, <1>n, <2>1, <2>2, RemovePublishFacts, CommitAlone
  <2>3. CASE ~RemovePublish
    <3>1. UNCHANGED live
      BY <1>10, <2>3, RemovalFrame
    <3>2. based' \in {based, based \cup {"remove"}, based \ {"remove"}}
      BY <1>10, <2>3 DEF RemoveStart, RemoveNext, RemoveBuild, RemovePrecheck, RemoveSave,
         RestoreClone, RestoreSave, RestoreVerify, RemoveEnd, RemoveRetry, RemoveRestore
    <3>3. UNCHANGED Refresh
      BY <2>1 DEF Refresh
    <3>4. ASSUME NEW h \in Holder, job[h].pc \in CommitStage PROVE CommitBase(h)'
      <4>1. CommitBase(h) /\ h \in based
        BY <1>0, <3>4 DEF CommitsBased, CommitBase
      <4>2. h \in based'
        BY <3>2, <4>1
      <4> QED BY <1>k, <2>1, <3>1, <3>3, <4>1, <4>2
    <3> QED BY <2>1, <3>4 DEF CommitsBased
  <2> QED BY <2>2, <2>3
<1>11. CASE Restart
  BY <1>11, <1>n, RestartFacts
<1> QED BY <1>1, <1>2, <1>3, <1>4, <1>5, <1>8, <1>9, <1>10, <1>11, QuietActions, PersistFacts
    DEF QuietStep, BusyStep, CommitStep

LEMMA RemovalStep ==
    ASSUME TypeOK, CatalogInv, [Next]_vars
    PROVE  RemovalBased'
<1> USE Holders, Stages, Numbers
<1>0. PubHeld /\ RefreshOwns /\ CommitsBased /\ CommitStage \subseteq Held
  BY DEF CatalogInv, CommitStage, Held
<1>b. /\ "remove" \in based => rm.rev <= live.rev
      /\ rm.pc \in {"precheck", "save", "publish"} /\ RemovalCurrent => rm.img = RemovalBuilt
      /\ rm.pc \in {"save", "publish"} /\ RemovalCurrent =>
            \A h \in Holder : pub = h => job[h].pc \in CommitStage /\ job[h].rev = rm.rev
      /\ rm.pc \in {"save", "publish"} /\ ~RemovalCurrent => UpTo(rm.img, live)
      /\ rm.pc = "force" => /\ UpTo(rm.img, live) /\ rm.img.rev = rm.rev
                            /\ RemovalCurrent => rm.img = live
  BY DEF CatalogInv, RemovalBased
(* The removal stands still while the catalog moves on.                    *)
<1>m. ASSUME UNCHANGED rm, ~RemovalCurrent', "remove" \notin based' \/ rm.rev <= live'.rev,
             rm.pc \in {"save", "publish"} => UpTo(rm.img, live'),
             rm.pc = "force" => UpTo(rm.img, live')
      PROVE  RemovalBased'
  <2>1. /\ rm.pc = "force" => rm.img.rev = rm.rev
        /\ rm'.pc = rm.pc /\ rm'.img = rm.img /\ rm'.rev = rm.rev
    BY <1>b, <1>m
  <2> QED BY <1>m, <2>1 DEF RemovalBased, UpTo
(* The catalog stands still and so does the removal.                       *)
<1>k. ASSUME UNCHANGED <<live, rm>>, "remove" \in based' <=> "remove" \in based,
             rm.pc \in {"save", "publish"} /\ RemovalCurrent =>
                \A h \in Holder : pub' = h => job'[h].pc \in CommitStage /\ job'[h].rev = rm.rev
      PROVE  RemovalBased'
  <2>1. RemovalCurrent' <=> RemovalCurrent
    BY <1>k DEF RemovalCurrent
  <2>2. RemovalBuilt' = RemovalBuilt
    BY <1>k DEF RemovalBuilt
  <2> QED BY <1>k, <1>b, <2>1, <2>2 DEF RemovalBased, UpTo
<1>c. rm.pc \in {"save", "publish"} /\ RemovalCurrent =>
         rm.img.gen = live.gen /\ rm.img.rev = live.rev + 1
  BY <1>b, RemovalBuiltFields
<1>1. CASE Calm
  <2>1. \A h \in Holder : pub' = h => Untouched(h)
    BY <1>0, <1>1 DEF Calm, PubHeld
  <2> QED BY <1>1, <1>b, <1>k, <2>1 DEF Calm, Untouched
<1>2. CASE begin
  <2>1. UNCHANGED rm /\ based' = {} /\ ~RemovalCurrent' /\ live'.gen = live.gen + 1
    BY <1>2, BeginFacts DEF RemovalCurrent
  <2>2. /\ rm.pc \in {"save", "publish"} => UpTo(rm.img, live')
        /\ rm.pc = "force" => UpTo(rm.img, live')
    BY <1>b, <1>c, <2>1 DEF UpTo
  <2> QED BY <1>m, <2>1, <2>2
<1>3. CASE WithdrawStep
  <2>1. UNCHANGED rm /\ based' = {} /\ ~RemovalCurrent' /\ live'.gen = live.gen
        /\ live'.rev = live.rev + 1
    BY <1>3, WithdrawFacts DEF RemovalCurrent
  <2>2. /\ rm.pc \in {"save", "publish"} => UpTo(rm.img, live')
        /\ rm.pc = "force" => UpTo(rm.img, live')
    BY <1>b, <1>c, <2>1 DEF UpTo
  <2> QED BY <1>m, <2>1, <2>2
<1>4. CASE CompleteStep
  <2>1. UNCHANGED <<rm, based>> /\ live'.gen = live.gen /\ live'.rev = live.rev + 1
    BY <1>4, CompleteFacts
  <2>2. ~RemovalCurrent'
    BY <1>b, <2>1 DEF RemovalCurrent
  <2>3. /\ rm.pc \in {"save", "publish"} => UpTo(rm.img, live')
        /\ rm.pc = "force" => UpTo(rm.img, live')
    BY <1>b, <1>c, <2>1 DEF UpTo
  <2>4. "remove" \notin based' \/ rm.rev <= live'.rev
    BY <1>b, <2>1
  <2> QED BY <1>m, <2>1, <2>2, <2>3, <2>4
<1>5. ASSUME NEW h \in Holder, CommitStart(h) PROVE RemovalBased'
  <2>1. UNCHANGED <<live, rm>> /\ based' = based \cup {h} /\ pub' = h
        /\ job'[h].pc = "save" /\ job'[h].rev = live.rev
    BY <1>5, CommitStartFacts
  <2>2. RemovalCurrent => rm.rev = live.rev
    BY DEF RemovalCurrent
  <2> QED BY <1>k, <2>1, <2>2 DEF CommitStage
<1>6. ASSUME NEW h \in Holder, CommitSave(h) \/ CommitCheck(h) \/ CommitRestore(h)
      PROVE  RemovalBased'
  <2>1. /\ UNCHANGED <<live, based, rm>> /\ job[h].pc \in Held
        /\ pub' = "none" \/ /\ pub' = pub /\ job'[h].rev = job[h].rev
                            /\ \/ job'[h].pc = "check"
                               \/ CommitCheck(h)
                               \/ job[h].pc = "restore"
    BY <1>6, CommitSaveFacts, CommitCheckFacts, CommitRestoreFacts DEF GoesOn, Returns, Held
  <2>2. pub = h
    BY <1>0, <2>1, CommitAlone
  <2>3. CommitCheck(h) /\ rm.pc \in {"save", "publish"} /\ RemovalCurrent => job'[h].pc = "swap"
    <3> SUFFICES ASSUME CommitCheck(h), rm.pc \in {"save", "publish"}, RemovalCurrent
                 PROVE  job'[h].pc = "swap"
      OBVIOUS
    <3>1. job[h].rev = live.rev
      BY <1>b, <2>2 DEF RemovalCurrent
    <3>2. h \in based
      BY <1>0, CommitCheckFacts DEF CommitsBased, CommitBase, CommitStage
    <3> QED BY <3>1, <3>2, CommitCheckFacts DEF GoesOn
  <2>4. job[h].pc = "restore" => job[h].pc \notin CommitStage
    BY DEF CommitStage
  <2> QED BY <1>b, <1>k, <2>1, <2>2, <2>3, <2>4 DEF CommitStage
<1>7. ASSUME NEW h \in Holder, CommitSwap(h) PROVE RemovalBased'
  <2>1. job[h].pc = "swap" /\ CommitBase(h) /\ pub = h
    BY <1>0, <1>7, CommitSwapFacts, CommitAlone DEF CommitsBased, CommitStage, Held
  <2>2. live' = job[h].img /\ based' = {} /\ UNCHANGED rm
    BY <1>7, <2>1, CommitSwapFacts DEF CommitBase
  <2>3. live'.gen = live.gen /\ live'.rev \in Nat /\ live.rev <= live'.rev
        /\ live'.rev = job[h].rev + 1
    BY <2>1, <2>2 DEF CommitBase
  <2>4. rm.pc \in {"save", "publish"} /\ RemovalCurrent => job[h].rev = live.rev
    BY <1>b, <2>1 DEF RemovalCurrent
  <2>5. /\ rm.pc \in {"save", "publish"} => UpTo(rm.img, live')
        /\ rm.pc = "force" => UpTo(rm.img, live')
    BY <1>b, <1>c, <2>3, <2>4 DEF UpTo
  <2>6. ~RemovalCurrent'
    BY <2>2 DEF RemovalCurrent
  <2> QED BY <1>m, <2>2, <2>5, <2>6
<1>8. ASSUME rm'.pc \in {"idle", "build", "restore"}, "remove" \notin based' PROVE RemovalBased'
  BY <1>8 DEF RemovalBased
<1>9. \A S \in SUBSET {"idle", "build", "restore"} : Drops(S) => RemovalBased'
  BY <1>8 DEF Drops
<1>10. CASE RemoveStart
  <2>1. UNCHANGED <<live, based>> /\ rm'.pc = "build" /\ rm'.rev = 0
    BY <1>10, RemoveStartFacts DEF RemoveStart, NoRemoval
  <2> QED BY <2>1 DEF RemovalBased
<1>11. CASE RemoveBuild
  <2>1. CASE Drops({"idle"})
    BY <1>9, <2>1
  <2>2. CASE ~Drops({"idle"})
    <3>1. /\ UNCHANGED live /\ rm'.pc = "precheck" /\ rm'.keys = rm.keys /\ rm'.rev = live.rev
          /\ rm'.img = RemovalBuilt
      BY <1>11, <2>2, RemoveBuildFacts
    <3>2. RemovalBuilt' = RemovalBuilt
      BY <3>1 DEF RemovalBuilt
    <3> QED BY <3>1, <3>2 DEF RemovalBased
  <2> QED BY <2>1, <2>2
<1>12. CASE RemovePrecheck
  <2>1. CASE Drops({"idle", "build"})
    BY <1>9, <2>1
  <2>2. CASE ~Drops({"idle", "build"})
    <3>1. UNCHANGED <<live, based, pub>> /\ pub = "none" /\ RemovalCurrent
          /\ rm.pc = "precheck" /\ rm'.pc = "save"
          /\ rm'.keys = rm.keys /\ rm'.rev = rm.rev /\ rm'.img = rm.img
      BY <1>12, <2>2, RemovePrecheckFacts DEF Keeps
    <3>2. RemovalBuilt' = RemovalBuilt /\ RemovalCurrent'
      BY <3>1 DEF RemovalBuilt, RemovalCurrent
    <3> QED BY <1>b, <3>1, <3>2 DEF RemovalBased
  <2> QED BY <2>1, <2>2
<1>13. CASE RemoveSave
  <2>1. CASE Drops({"restore"})
    BY <1>9, <2>1
  <2>2. CASE ~Drops({"restore"})
    <3>1. UNCHANGED <<live, based, pub, job>> /\ rm.pc = "save" /\ rm'.pc = "publish"
          /\ rm'.keys = rm.keys /\ rm'.rev = rm.rev /\ rm'.img = rm.img
      BY <1>13, <2>2, RemoveSaveFacts DEF Keeps
    <3>2. RemovalBuilt' = RemovalBuilt /\ (RemovalCurrent' <=> RemovalCurrent)
      BY <3>1 DEF RemovalBuilt, RemovalCurrent
    <3>3. UpTo(rm.img, live) => UpTo(rm.img, live)'
      BY <3>1 DEF UpTo
    <3> QED BY <1>b, <3>1, <3>2, <3>3 DEF RemovalBased
  <2> QED BY <2>1, <2>2
<1>14. CASE RemovePublish
  <2>1. CASE Drops({"restore"})
    BY <1>9, <2>1
  <2>2. CASE ~Drops({"restore"})
    <3>1. rm'.pc = "idle" /\ based' = {}
      BY <1>14, <2>2, RemovePublishFacts DEF NoRemoval
    <3> QED BY <1>8, <3>1
  <2> QED BY <2>1, <2>2
<1>15. CASE RestoreClone
  BY <1>15, RestoreCloneFacts DEF RemovalBased, UpTo
<1>16. CASE RestoreSave
  <2>1. CASE Drops({"idle"})
    BY <1>9, <2>1
  <2>2. CASE ~Drops({"idle"})
    <3>1. UNCHANGED <<live, based>> /\ rm'.pc = "verify" /\ rm'.rev = rm.rev
      BY <1>16, <2>2, RestoreSaveFacts
    <3> QED BY <1>b, <3>1 DEF RemovalBased
  <2> QED BY <2>1, <2>2
<1>17. CASE RestoreVerify
  BY <1>9, <1>17, RestoreVerifyFacts
<1>18. CASE Restart
  BY <1>8, <1>18, RestartFacts
<1>19. CASE RemoveNext
  BY <1>11, <1>12, <1>13, <1>14, <1>15, <1>16, <1>17, <1>19 DEF RemoveNext
<1> QED BY <1>1, <1>2, <1>3, <1>4, <1>5, <1>6, <1>7, <1>10, <1>18, <1>19, QuietActions,
           PersistFacts DEF QuietStep, BusyStep, CommitStep

LEMMA CatalogInvInit == Init => CatalogInv
<1> SUFFICES ASSUME Init PROVE CatalogInv
  OBVIOUS
<1> USE Holders, Stages
<1>1. /\ pub = "none" /\ based = {} /\ rm.pc = "idle"
      /\ \A h \in Holder : job[h].pc = "idle"
  BY DEF Init, NoJob, NoRemoval
<1>2. PubHeld
  BY <1>1 DEF PubHeld
<1>3. RefreshOwns
  BY <1>1 DEF RefreshOwns, Refresh
<1>4. CommitsBased
  BY <1>1 DEF CommitsBased, CommitStage
<1>5. RemovalBased
  BY <1>1 DEF RemovalBased
<1> QED BY <1>2, <1>3, <1>4, <1>5 DEF CatalogInv

LEMMA CatalogInvStep ==
    ASSUME TypeOK, CatalogInv, [Next]_vars
    PROVE  CatalogInv'
<1>1. PubHeld'
  BY PubStep DEF CatalogInv
<1> QED BY <1>1, OwnsStep, CommitsStep, RemovalStep DEF CatalogInv

(* publicationMu, the generation a refresh owns, and the base of every     *)
(* commit and of every removal, in every reachable state.                  *)
THEOREM CatalogInvariant == Spec => []CatalogInv
<1>1. Init => TypeOK /\ RestoresCounted /\ CatalogInv
  BY TypeInit, CatalogInvInit DEF Init, RestoresCounted, NoRemoval
<1>2. TypeOK /\ RestoresCounted /\ CatalogInv /\ [Next]_vars =>
         (TypeOK /\ RestoresCounted /\ CatalogInv)'
  BY TypeStep, RestoresStep, CatalogInvStep
<1> QED BY <1>1, <1>2, PTL DEF Spec

LEMMA MeasuredStep ==
    ASSUME TypeOK, AllDisjoint, CatalogInv, [Next]_vars
    PROVE  MeasuredFailure
<1> USE Holders, Stages
<1>0. CommitsBased /\ RemovalBased /\ Disjoint(live)
  BY DEF CatalogInv, AllDisjoint
<1> SUFFICES ASSUME NEW n \in Node, live.pend[n] # {}, live'.fail[n] # {},
                    live'.phase # "restored"
             PROVE  \E h \in Holder : n \in job[h].same /\ job[h].out[n] = "down"
  BY DEF MeasuredFailure
<1>1. live.fail[n] = {} /\ live' # live
  BY <1>0 DEF Disjoint
<1>2. CASE Calm
  BY <1>1, <1>2 DEF Calm
<1>3. CASE begin
  BY <1>1, <1>3, BeginFacts
<1>4. CASE WithdrawStep
  BY <1>4, WithdrawFacts
<1>5. CASE CompleteStep
  BY <1>1, <1>5, CompleteFacts
<1>6. ASSUME NEW h \in Holder, CommitStart(h) \/ CommitSave(h) \/ CommitCheck(h)
                               \/ CommitRestore(h)
      PROVE  UNCHANGED live
  BY <1>6, CommitStartFacts, CommitSaveFacts, CommitCheckFacts, CommitRestoreFacts
<1>7. ASSUME NEW h \in Holder, CommitSwap(h)
      PROVE  n \in job[h].same /\ job[h].out[n] = "down"
  <2>1. CommitBase(h) /\ live' = job[h].img
    BY <1>0, <1>1, <1>7, CommitSwapFacts DEF CommitsBased, CommitStage
  <2>2. live'.fail[n] = CommitFail(h)[n] /\ job[h].keys \subseteq job[h].same
    BY <2>1 DEF CommitBase
  <2>3. n \in Changed(h) /\ job[h].kind = "candidate"
    BY <1>1, <2>2 DEF CommitFail
  <2> QED BY <2>2, <2>3 DEF Changed
<1>8. CASE RemoveStart \/ RemoveNext
  <2>1. rm.pc = "publish" /\ RemovalCurrent /\ live' = rm.img
    BY <1>1, <1>8, RemovalFrame, RemovePublishFacts
  <2>2. rm.img = RemovalBuilt
    BY <1>0, <2>1 DEF RemovalBased
  <2> QED BY <1>1, <2>1, <2>2, RemovalBuiltFields
<1>9. CASE Restart
  BY <1>9, RestartFacts
<1> QED BY <1>1, <1>2, <1>3, <1>4, <1>5, <1>6, <1>7, <1>8, <1>9, QuietActions, PersistFacts
    DEF QuietStep, BusyStep, CommitStep

(* A pending record becomes a failure only by an unusable outcome measured *)
(* on the declaration it has at that moment (FailureIsMeasured): the image *)
(* that CommitLeaseOutcomes swaps in was built from the published records  *)
(* and from outcomes whose declarations were compared.                     *)
THEOREM FailuresAreMeasured == Spec => FailureIsMeasured
<1> DEFINE Inv == TypeOK /\ RestoresCounted /\ AllDisjoint /\ CatalogInv
<1>1. Init => Inv
  BY TypeInit, DisjointInit, CatalogInvInit DEF Init, RestoresCounted, NoRemoval
<1>2. Inv /\ [Next]_vars => Inv'
  BY TypeStep, RestoresStep, DisjointStep, CatalogInvStep
<1>3. Inv /\ [Next]_vars => [MeasuredFailure]_vars
  BY MeasuredStep
<1> QED BY <1>1, <1>2, <1>3, PTL DEF Spec, FailureIsMeasured

-----------------------------------------------------------------------------
(* What was saved last, and who is about to publish it.                    *)
LEMMA SaveFacts ==
    ASSUME NEW s
    PROVE  /\ SaveSucceeds(s) => /\ saved'.gen = s.gen /\ saved'.rev = s.rev
                                 /\ disk' = Image(s) /\ s.phase # "restored"
           /\ SaveFails(s) => saved' = saved /\ excused' = TRUE
                              /\ (disk' = disk \/ disk' = Image(s))
BY DEF SaveSucceeds, SaveFails, validateCandidateSnapshot

(* Only the worker that holds publicationMu can be a saved commit.         *)
LEMMA SavedCommit ==
    ASSUME PubHeld
    PROVE  /\ pub = "none" => ~SomeCommitSaved
           /\ \A h \in Holder : job[h].pc \in Held => (SomeCommitSaved <=> CommitSaved(h))
<1>1. pub = "none" => ~SomeCommitSaved
  BY Holders DEF SomeCommitSaved, CommitSaved
<1>2. ASSUME NEW h \in Holder, job[h].pc \in Held PROVE SomeCommitSaved <=> CommitSaved(h)
  BY <1>2, CommitAlone DEF SomeCommitSaved, CommitSaved
<1> QED BY <1>1, <1>2

LEMMA SaveInvInit == Init => SaveInv
<1> SUFFICES ASSUME Init PROVE SaveInv
  OBVIOUS
<1>1. rm.pc = "idle" /\ live.gen = 0 /\ live.rev = 0 /\ saved.gen = 0 /\ saved.rev = 0
  BY DEF Init, NoSnapshot, NoRemoval
<1> QED BY <1>1 DEF SaveInv, SavedBound, UpTo, RemovalSaved, RestoreSaved

LEMMA SaveInvStep ==
    ASSUME TypeOK, CatalogInv, SaveInv, [Next]_vars
    PROVE  SaveInv'
<1> USE Holders, Stages, Numbers
<1>0. /\ PubHeld /\ RefreshOwns /\ CommitsBased /\ CommitStage \subseteq Held
      /\ SavedBound /\ RemovalSaved /\ RestoreSaved
  BY DEF CatalogInv, SaveInv, CommitStage, Held
<1>b. /\ "remove" \in based => rm.rev <= live.rev
      /\ rm.pc \in {"precheck", "save", "publish"} /\ RemovalCurrent => rm.img = RemovalBuilt
      /\ rm.pc \in {"save", "publish"} /\ RemovalCurrent =>
            \A h \in Holder : pub = h => job[h].pc \in CommitStage /\ job[h].rev = rm.rev
      /\ rm.pc \in {"save", "publish"} /\ ~RemovalCurrent => UpTo(rm.img, live)
      /\ rm.pc = "force" => /\ UpTo(rm.img, live) /\ rm.img.rev = rm.rev
                            /\ RemovalCurrent => rm.img = live
  BY DEF CatalogInv, RemovalBased
<1>c. rm.pc \in {"save", "publish"} /\ RemovalCurrent =>
         rm.img.gen = live.gen /\ rm.img.rev = live.rev + 1
  BY <1>b, RemovalBuiltFields
(* The catalog, the file and the removal stand still.                      *)
<1>k. ASSUME UNCHANGED <<live, disk, saved, excused, rm>>, "remove" \in based' <=> "remove" \in based,
             SomeCommitSaved => SomeCommitSaved'
      PROVE  SaveInv'
  <2>1. RemovalCurrent' <=> RemovalCurrent
    BY <1>k DEF RemovalCurrent
  <2>2. Settled' <=> Settled
    BY <1>k DEF Settled
  <2>3. SavedBound'
    BY <1>0, <1>k, <2>1 DEF SavedBound, UpTo
  <2>4. RemovalSaved'
    BY <1>0, <1>k, <2>1 DEF RemovalSaved
  <2>5. RestoreSaved'
    BY <1>0, <1>k, <2>1, <2>2 DEF RestoreSaved
  <2> QED BY <2>3, <2>4, <2>5 DEF SaveInv
(* The published snapshot is replaced, by a newer one than was saved.      *)
<1>m. ASSUME ~RemovalCurrent', UpTo(saved', live') PROVE SaveInv'
  BY <1>m DEF SaveInv, SavedBound, RemovalSaved, RestoreSaved, UpTo
<1>n. ASSUME live'.gen = live.gen + 1 \/ (live'.gen = live.gen /\ live'.rev = live.rev + 1),
             live'.rev \in Nat, UNCHANGED saved
      PROVE  UpTo(saved', live')
  BY <1>0, <1>n DEF SavedBound, UpTo
<1>1. ASSUME Calm PROVE SomeCommitSaved => SomeCommitSaved'
  <2> SUFFICES ASSUME NEW h \in Holder, CommitSaved(h) PROVE CommitSaved(h)'
    BY DEF SomeCommitSaved
  <2>1. job[h].pc \in Held
    BY DEF CommitSaved, Held
  <2> QED BY <1>1, <2>1 DEF Calm, Untouched, CommitSaved
<1>2. CASE QuietStep
  BY <1>1, <1>2, <1>k DEF QuietStep, Calm, cache
<1>3. CASE begin
  <2>1. based' = {} /\ live'.gen = live.gen + 1 /\ live'.rev = 1 /\ UNCHANGED saved
    BY <1>3, BeginFacts DEF cache
  <2> QED BY <1>m, <1>n, <2>1 DEF RemovalCurrent
<1>4. CASE WithdrawStep
  <2>1. based' = {} /\ live'.gen = live.gen /\ live'.rev = live.rev + 1 /\ UNCHANGED saved
    BY <1>4, WithdrawFacts DEF cache
  <2> QED BY <1>m, <1>n, <2>1 DEF RemovalCurrent
<1>5. CASE CompleteStep
  <2>1. UNCHANGED <<based, rm, saved>> /\ live'.gen = live.gen /\ live'.rev = live.rev + 1
    BY <1>5, CompleteFacts DEF cache
  <2>2. ~RemovalCurrent'
    BY <1>b, <2>1 DEF RemovalCurrent
  <2> QED BY <1>m, <1>n, <2>1, <2>2
<1>6. CASE persistCompletedSnapshot
  <2>1. /\ UNCHANGED <<live, rm, pub>> /\ (SomeCommitSaved => SomeCommitSaved')
        /\ "remove" \in based' <=> "remove" \in based
    BY <1>1, <1>6, PersistFacts DEF Calm
  <2>2. Refresh.img.gen = live.gen /\ Refresh.img.rev <= live.rev
    BY <1>0, <1>6, PersistFacts DEF RefreshOwns
  <2>3. CASE StaleImage(Refresh.img)
    BY <1>6, <1>k, <2>1, <2>3, PersistFacts DEF cache
  <2>4. CASE ~StaleImage(Refresh.img)
    <3>1. saved.gen < live.gen \/ (saved.gen = live.gen /\ saved.rev < live.rev)
      BY <2>2, <2>4 DEF StaleImage
    <3>2. ~(rm.pc = "publish" /\ RemovalCurrent)
      BY <1>0, <1>c, <3>1 DEF RemovalSaved
    <3>3. rm.pc = "verify" /\ RemovalCurrent => SomeCommitSaved
      BY <1>0, <3>1 DEF RestoreSaved, Settled
    <3>4. RemovalCurrent' <=> RemovalCurrent
      BY <2>1 DEF RemovalCurrent
    <3>5. saved' = saved \/ (saved'.gen = Refresh.img.gen /\ saved'.rev = Refresh.img.rev)
      BY <1>6, <2>4, PersistFacts, SaveFacts
    <3>6. UpTo(saved', live')
      BY <2>1, <2>2, <3>1, <3>5 DEF UpTo
    <3> QED BY <2>1, <3>2, <3>3, <3>4, <3>6 DEF SaveInv, SavedBound, RemovalSaved, RestoreSaved, UpTo
  <2> QED BY <2>3, <2>4
<1>7. ASSUME NEW h \in Holder, CommitStart(h) PROVE SaveInv'
  <2>1. UNCHANGED <<live, rm, cache>> /\ based' = based \cup {h} /\ pub = "none"
    BY <1>7, CommitStartFacts
  <2> QED BY <1>0, <1>k, <2>1, SavedCommit DEF cache
<1>8. ASSUME NEW h \in Holder, CommitSave(h) PROVE SaveInv'
  <2>1. /\ UNCHANGED <<live, based, rm>> /\ job[h].pc = "save" /\ CommitBase(h)
        /\ pub = h /\ ~SomeCommitSaved
    BY <1>0, <1>8, CommitSaveFacts, CommitAlone, SavedCommit
    DEF CommitsBased, CommitStage, Held, CommitSaved
  <2>2. /\ job[h].img.gen = live.gen /\ job[h].img.rev = job[h].rev + 1
        /\ live.rev = job[h].rev \/ live.rev = job[h].rev + 1
    BY <2>1 DEF CommitBase
  <2>3. RemovalCurrent' <=> RemovalCurrent
    BY <2>1 DEF RemovalCurrent
  <2>4. GoesOn(h, "check") /\ live.rev = job[h].rev => SomeCommitSaved'
    BY <2>1 DEF GoesOn, SomeCommitSaved, CommitSaved
(* A removal about to publish has saved the same revision.                 *)
  <2>5. rm.pc = "publish" /\ RemovalCurrent =>
           StaleImage(job[h].img) /\ live.rev = job[h].rev
    BY <1>0, <1>b, <1>c, <2>1, <2>2 DEF RemovalSaved, RemovalCurrent, StaleImage
  <2>6. rm.pc = "verify" /\ RemovalCurrent =>
           /\ saved.gen = live.gen /\ saved.rev = live.rev
           /\ live.rev = job[h].rev \/ StaleImage(job[h].img)
           /\ Settled \/ excused
    BY <1>0, <2>1, <2>2 DEF RestoreSaved, Settled, StaleImage
  <2>7. CASE GoesOn(h, "check") /\ StaleImage(job[h].img) /\ UNCHANGED cache
    BY <1>k, <2>1, <2>7 DEF cache
  <2>8. CASE GoesOn(h, "check") /\ ~StaleImage(job[h].img) /\ SaveSucceeds(job[h].img)
    <3>1. saved'.gen = live.gen /\ saved'.rev = job[h].rev + 1
      BY <2>2, <2>8, SaveFacts
    <3>2. SavedBound'
      BY <2>1, <2>2, <2>4, <2>8, <3>1 DEF SavedBound, UpTo
    <3>3. RemovalSaved'
      BY <2>1, <2>3, <2>5, <2>8 DEF RemovalSaved
    <3>4. RestoreSaved'
      BY <2>1, <2>3, <2>4, <2>6, <2>8 DEF RestoreSaved
    <3> QED BY <3>2, <3>3, <3>4 DEF SaveInv
  <2>9. CASE Returns(h) /\ ~StaleImage(job[h].img) /\ SaveFails(job[h].img)
    <3>1. UNCHANGED saved /\ excused' = TRUE
      BY <2>9, SaveFacts
    <3>2. SavedBound'
      BY <1>0, <2>1, <2>3, <3>1 DEF SavedBound, UpTo
    <3>3. RemovalSaved'
      BY <2>1, <2>3, <2>5, <2>9 DEF RemovalSaved
    <3>4. RestoreSaved'
      BY <2>1, <2>3, <2>6, <3>1 DEF RestoreSaved
    <3> QED BY <3>2, <3>3, <3>4 DEF SaveInv
  <2> QED BY <1>8, <2>7, <2>8, <2>9, CommitSaveFacts
<1>9. ASSUME NEW h \in Holder, CommitCheck(h) PROVE SaveInv'
  <2>1. /\ UNCHANGED <<live, based, rm, cache>> /\ job[h].pc = "check" /\ h \in based
    BY <1>0, <1>9, CommitCheckFacts DEF CommitsBased, CommitStage, CommitBase
  <2>2. SomeCommitSaved => SomeCommitSaved'
    <3> SUFFICES ASSUME CommitSaved(h) PROVE CommitSaved(h)'
      BY <1>0, <2>1, SavedCommit DEF Held, SomeCommitSaved
    <3>1. GoesOn(h, "swap")
      BY <1>9, <2>1, CommitCheckFacts DEF CommitSaved
    <3> QED BY <2>1, <3>1 DEF GoesOn, CommitSaved
  <2> QED BY <1>k, <2>1, <2>2 DEF cache
<1>10. ASSUME NEW h \in Holder, CommitSwap(h) PROVE SaveInv'
  <2>1. job[h].pc = "swap" /\ CommitBase(h) /\ pub = h
    BY <1>0, <1>10, CommitSwapFacts, CommitAlone DEF CommitsBased, CommitStage, Held
  <2>2. live' = job[h].img /\ based' = {} /\ UNCHANGED saved
    BY <1>10, <2>1, CommitSwapFacts DEF CommitBase, cache
  <2>3. /\ live'.gen = live.gen /\ live'.rev = job[h].rev + 1
        /\ live.rev = job[h].rev \/ live.rev = job[h].rev + 1
    BY <2>1, <2>2 DEF CommitBase
  <2>4. CASE live.rev = job[h].rev
    BY <1>m, <1>n, <2>2, <2>3, <2>4 DEF RemovalCurrent
  <2>5. CASE live.rev = job[h].rev + 1
    <3>1. ~SomeCommitSaved
      BY <1>0, <2>1, <2>5, SavedCommit DEF CommitSaved, Held
    <3>2. ~(rm.pc = "publish" /\ RemovalCurrent)
      BY <1>b, <2>1, <2>5 DEF RemovalCurrent
    <3>3. UpTo(saved, live)
      BY <1>0, <3>1, <3>2 DEF SavedBound
    <3> QED BY <1>m, <2>2, <2>3, <2>5, <3>3 DEF RemovalCurrent, UpTo
  <2> QED BY <2>3, <2>4, <2>5
<1>11. ASSUME NEW h \in Holder, CommitRestore(h) PROVE SaveInv'
  <2>1. /\ UNCHANGED <<live, based, rm>> /\ pub = h /\ job[h].pc = "restore" /\ ~SomeCommitSaved
    BY <1>0, <1>11, CommitRestoreFacts, CommitAlone, SavedCommit DEF Held, CommitSaved
  <2>2. RemovalCurrent' <=> RemovalCurrent
    BY <2>1 DEF RemovalCurrent
  <2>3. ~(rm.pc = "publish" /\ RemovalCurrent)
    BY <1>b, <2>1 DEF CommitStage
  <2>4. RemovalSaved'
    BY <2>1, <2>2, <2>3 DEF RemovalSaved
  <2>5. CASE SaveSucceeds(live)
    <3>1. Settled'
      BY <2>1, <2>5, SaveFacts DEF Settled
    <3> QED BY <2>1, <2>4, <3>1 DEF SaveInv, SavedBound, UpTo, RestoreSaved, Settled
  <2>6. CASE SaveFails(live)
    <3>1. UNCHANGED saved /\ excused' = TRUE
      BY <2>6, SaveFacts
    <3>2. SavedBound'
      BY <1>0, <2>1, <2>2, <2>3, <3>1 DEF SavedBound, UpTo
    <3>3. RestoreSaved'
      BY <1>0, <2>1, <2>2, <3>1 DEF RestoreSaved, Settled
    <3> QED BY <2>4, <3>2, <3>3 DEF SaveInv
  <2> QED BY <1>11, <2>5, <2>6, CommitRestoreFacts
(* The removal moves while the catalog and the file stand still.           *)
<1>12. ASSUME UNCHANGED <<live, pub, job, saved>>, rm.pc # "publish" \/ ~RemovalCurrent,
              rm'.pc \notin {"publish", "verify"}
       PROVE  SaveInv'
  <2>1. SomeCommitSaved' <=> SomeCommitSaved
    BY <1>12 DEF SomeCommitSaved, CommitSaved
  <2>2. SavedBound'
    BY <1>0, <1>12, <2>1 DEF SavedBound, UpTo
  <2> QED BY <1>12, <2>2 DEF SaveInv, RemovalSaved, RestoreSaved
<1>13. CASE RemoveStart
  BY <1>12, <1>13, RemoveStartFacts DEF cache
<1>14. CASE RemoveBuild
  <2>1. UNCHANGED <<live, pub, job, cache>> /\ rm.pc = "build" /\ rm'.pc \in {"idle", "precheck"}
    BY <1>14, RemoveBuildFacts DEF Drops
  <2> QED BY <1>12, <2>1 DEF cache
<1>15. CASE RemovePrecheck
  <2>1. /\ UNCHANGED <<live, pub, job, cache>> /\ rm.pc = "precheck"
        /\ rm'.pc \in {"save", "idle", "build"}
    BY <1>15, RemovePrecheckFacts DEF Drops, Keeps
  <2> QED BY <1>12, <2>1 DEF cache
<1>16. CASE RemoveSave
  <2>1. UNCHANGED <<live, pub, job>> /\ rm.pc = "save"
    BY <1>16, RemoveSaveFacts
  <2>2. SomeCommitSaved' <=> SomeCommitSaved
    BY <2>1 DEF SomeCommitSaved, CommitSaved
  <2>3. ASSUME Keeps("publish"), based' = based
        PROVE  /\ RemovalCurrent' <=> RemovalCurrent
               /\ rm'.pc = "publish" /\ rm'.img = rm.img
    BY <2>1, <2>3 DEF RemovalCurrent, Keeps
  <2>4. CASE Keeps("publish") /\ based' = based /\ StaleImage(rm.img) /\ UNCHANGED cache
    <3>1. UNCHANGED <<saved, disk, excused>>
      BY <2>4 DEF cache
    <3>2. SavedBound'
      BY <1>0, <2>1, <2>2, <3>1 DEF SavedBound, UpTo
    <3>3. RemovalCurrent => SomeCommitSaved /\ saved.gen = rm.img.gen /\ saved.rev = rm.img.rev
      BY <1>0, <1>c, <2>1, <2>4 DEF SavedBound, UpTo, StaleImage
    <3>4. RemovalSaved' /\ RestoreSaved'
      BY <2>2, <2>3, <2>4, <3>1, <3>3 DEF RemovalSaved, RestoreSaved
    <3> QED BY <3>2, <3>4 DEF SaveInv
  <2>5. CASE Keeps("publish") /\ based' = based /\ ~StaleImage(rm.img) /\ SaveSucceeds(rm.img)
    <3>1. saved'.gen = rm.img.gen /\ saved'.rev = rm.img.rev /\ disk' = Image(rm.img)
      BY <2>5, SaveFacts
    <3>2. SavedBound'
      <4>1. CASE RemovalCurrent
        BY <1>c, <2>1, <2>3, <2>5, <3>1, <4>1 DEF SavedBound
      <4>2. CASE ~RemovalCurrent
        BY <1>b, <2>1, <3>1, <4>2 DEF SavedBound, UpTo
      <4> QED BY <4>1, <4>2
    <3>3. RemovalSaved' /\ RestoreSaved'
      BY <2>3, <2>5, <3>1 DEF RemovalSaved, RestoreSaved
    <3> QED BY <3>2, <3>3 DEF SaveInv
  <2>6. CASE Drops({"restore"}) /\ ~StaleImage(rm.img) /\ SaveFails(rm.img)
    BY <1>12, <2>1, <2>6, SaveFacts DEF Drops
  <2> QED BY <1>16, <2>4, <2>5, <2>6, RemoveSaveFacts
<1>17. CASE RemovePublish
  <2>1. CASE RemovalCurrent
    <3>1. live' = rm.img /\ based' = {} /\ rm.pc = "publish" /\ UNCHANGED saved
      BY <1>17, <2>1, RemovePublishFacts DEF cache
    <3> QED BY <1>c, <1>m, <1>n, <2>1, <3>1 DEF RemovalCurrent
  <2>2. CASE ~RemovalCurrent
    BY <1>12, <1>17, <2>2, RemovePublishFacts DEF cache, Drops
  <2> QED BY <2>1, <2>2
<1>18. CASE RestoreClone
  BY <1>12, <1>18, RestoreCloneFacts DEF cache
<1>19. CASE RestoreSave
  <2>1. UNCHANGED <<live, pub, job>> /\ rm.pc = "force"
    BY <1>19, RestoreSaveFacts
  <2>2. CASE SaveFails(rm.img) /\ Drops({"idle"})
    BY <1>12, <2>1, <2>2, SaveFacts DEF Drops
  <2>3. CASE /\ SaveSucceeds(rm.img) /\ based' = based
             /\ rm'.pc = "verify" /\ rm'.rev = rm.rev /\ rm'.img = NoSnapshot
    <3>1. saved'.gen = rm.img.gen /\ saved'.rev = rm.img.rev /\ disk' = Image(rm.img)
      BY <2>3, SaveFacts
    <3>2. UpTo(saved', live')
      BY <1>b, <2>1, <3>1 DEF UpTo
    <3>3. RemovalCurrent' => Settled'
      BY <1>b, <2>1, <2>3, <3>1 DEF RemovalCurrent, Settled
    <3> QED BY <2>3, <3>2, <3>3 DEF SaveInv, SavedBound, UpTo, RemovalSaved, RestoreSaved
  <2> QED BY <1>19, <2>2, <2>3, RestoreSaveFacts
<1>20. CASE RestoreVerify
  <2>1. UNCHANGED <<live, pub, job, saved>> /\ rm.pc = "verify" /\ rm'.pc \in {"idle", "build", "restore"}
    BY <1>20, RestoreVerifyFacts DEF Drops
  <2> QED BY <1>12, <2>1
<1>21. CASE Restart
  <2>1. /\ rm'.pc = "idle" /\ live'.gen = 0 /\ live'.rev = 1
        /\ saved'.gen = 0 /\ saved'.rev = 0
    BY <1>21, RestartFacts
  <2> QED BY <2>1 DEF SaveInv, SavedBound, UpTo, RemovalSaved, RestoreSaved
<1>22. CASE RemoveNext
  BY <1>14, <1>15, <1>16, <1>17, <1>18, <1>19, <1>20, <1>22 DEF RemoveNext
<1> QED BY <1>2, <1>3, <1>4, <1>5, <1>6, <1>7, <1>8, <1>9, <1>10, <1>11, <1>13, <1>21, <1>22,
           QuietActions DEF BusyStep, CommitStep

-----------------------------------------------------------------------------
(* The file catches up with a completed refresh.                           *)
LEMMA DiskInvInit == Init => DiskInv
<1> SUFFICES ASSUME Init PROVE DiskInv
  OBVIOUS
<1>1. live.phase = "restored" /\ \A h \in Holder : job[h].pc = "idle"
  BY DEF Init, NoSnapshot, NoJob
<1> QED BY <1>1 DEF DiskInv, CommitOnDisk, CompletedImage, SomeoneSaves

LEMMA CommitOnDiskStep ==
    ASSUME TypeOK, CatalogInv, SaveInv, CommitOnDisk, [Next]_vars
    PROVE  CommitOnDisk'
<1> USE Holders, Stages, Numbers
<1>0. PubHeld /\ RefreshOwns /\ CommitsBased /\ SavedBound /\ CommitStage \subseteq Held
  BY DEF CatalogInv, SaveInv, CommitStage, Held
<1>a. {"check", "swap"} \subseteq Held /\ {"check", "swap"} \subseteq CommitStage
  BY DEF Held, CommitStage
(* The image of such a commit is one revision ahead of the published one.  *)
<1>b. \A h \in Holder : job[h].pc \in CommitStage /\ job[h].img.phase = "complete" =>
         job[h].img.gen = live.gen /\ job[h].img.rev = live.rev + 1 /\ live.rev = job[h].rev
  BY <1>0 DEF CommitsBased, CommitBase
<1>n. ASSUME \A h \in Holder : job'[h].pc \notin {"check", "swap"} PROVE CommitOnDisk'
  BY <1>n DEF CommitOnDisk
<1>k. ASSUME UNCHANGED saved, UNCHANGED <<disk, excused>> \/ excused',
             rm.pc \notin {"publish", "verify"} \/ rm' = rm,
             \A h \in Holder : job'[h].pc \in {"check", "swap"} =>
                job[h].pc \in {"check", "swap"} /\ job'[h].img = job[h].img
      PROVE  CommitOnDisk'
  BY <1>k DEF CommitOnDisk
<1>1. CASE QuietStep
  <2>1. \A h \in Holder : job'[h].pc \in {"check", "swap"} =>
           job[h].pc \in {"check", "swap"} /\ job'[h].img = job[h].img
    BY <1>1, <1>a DEF QuietStep, Calm, Untouched
  <2> QED BY <1>1, <1>k, <2>1 DEF QuietStep, Calm, cache
<1>2. CASE begin
  BY <1>0, <1>2, <1>a, <1>n, BeginFacts, CommitAlone
<1>3. CASE WithdrawStep
  BY <1>0, <1>3, <1>a, <1>n, WithdrawFacts, CommitAlone
<1>4. CASE CompleteStep
  BY <1>4, <1>a, <1>k, CompleteFacts DEF cache
<1>5. CASE persistCompletedSnapshot
  <2>1. UNCHANGED rm /\ Refresh.img.gen = live.gen /\ Refresh.img.rev <= live.rev
    BY <1>0, <1>5, PersistFacts DEF RefreshOwns, Calm
  <2>2. \A h \in Holder : job'[h].pc \in {"check", "swap"} =>
           job[h].pc \in {"check", "swap"} /\ job'[h].img = job[h].img
    BY <1>5, <1>a, PersistFacts DEF Calm, Untouched
  <2>3. CASE StaleImage(Refresh.img)
    BY <1>5, <1>k, <2>1, <2>2, <2>3, PersistFacts DEF cache
  <2>4. CASE ~StaleImage(Refresh.img)
    <3>1. \A h \in Holder : job[h].pc \in {"check", "swap"} /\ job[h].img.phase = "complete" =>
             rm.pc \in {"publish", "verify"}
      <4> SUFFICES ASSUME NEW h \in Holder, job[h].pc \in {"check", "swap"},
                          job[h].img.phase = "complete", rm.pc \notin {"publish", "verify"}
                   PROVE  FALSE
        OBVIOUS
      <4>1. saved.gen = live.gen /\ saved.rev = live.rev + 1
        BY <1>a, <1>b DEF CommitOnDisk
      <4> QED BY <2>1, <2>4, <4>1 DEF StaleImage
    <3> QED BY <2>1, <2>2, <3>1 DEF CommitOnDisk
  <2> QED BY <2>3, <2>4
<1>6. ASSUME NEW h \in Holder, CommitStart(h) PROVE CommitOnDisk'
  BY <1>0, <1>6, <1>a, <1>n, CommitStartFacts, CommitAlone
<1>7. ASSUME NEW h \in Holder, CommitSave(h) PROVE CommitOnDisk'
  <2>1. /\ UNCHANGED <<live, rm>> /\ job[h].pc = "save" /\ ~SomeCommitSaved
        /\ \A g \in Holder \ {h} : job'[g].pc \notin {"check", "swap"}
    BY <1>0, <1>7, <1>a, CommitSaveFacts, CommitAlone, SavedCommit DEF Held, CommitSaved
  <2>2. CASE Returns(h)
    BY <1>n, <2>1, <2>2 DEF Returns
  <2>3. CASE GoesOn(h, "check") /\ ~StaleImage(job[h].img) /\ SaveSucceeds(job[h].img)
    <3>1. saved'.gen = job[h].img.gen /\ saved'.rev = job[h].img.rev /\ disk' = Image(job[h].img)
      BY <2>3, SaveFacts
    <3> QED BY <2>1, <2>3, <3>1 DEF GoesOn, CommitOnDisk
  <2>4. CASE GoesOn(h, "check") /\ StaleImage(job[h].img) /\ UNCHANGED cache
    <3>1. job[h].img.phase = "complete" => rm.pc = "publish"
      BY <1>0, <1>b, <2>1, <2>4 DEF CommitStage, StaleImage, SavedBound, UpTo
    <3> QED BY <2>1, <2>4, <3>1 DEF GoesOn, CommitOnDisk
  <2> QED BY <1>7, <2>2, <2>3, <2>4, CommitSaveFacts
<1>8. ASSUME NEW h \in Holder, CommitCheck(h) PROVE CommitOnDisk'
  BY <1>8, <1>k, CommitCheckFacts DEF GoesOn, cache
<1>9. ASSUME NEW h \in Holder, CommitSwap(h) PROVE CommitOnDisk'
  <2>1. /\ job[h].pc \in Held /\ job'[h].pc \notin {"check", "swap"}
        /\ \A g \in Holder \ {h} : job'[g] = job[g]
    BY <1>9, CommitSwapFacts DEF Held, GoesOn, Returns
  <2> QED BY <1>0, <1>a, <1>n, <2>1, CommitAlone
<1>10. ASSUME NEW h \in Holder, CommitRestore(h) PROVE CommitOnDisk'
  <2>1. /\ job[h].pc \in Held /\ job'[h].pc \notin {"check", "swap"}
        /\ \A g \in Holder \ {h} : job'[g] = job[g]
    BY <1>10, CommitRestoreFacts DEF Held, GoesOn, Returns
  <2> QED BY <1>0, <1>a, <1>n, <2>1, CommitAlone
<1>11. ASSUME RemoveStart \/ RemoveNext, pub = "none" PROVE CommitOnDisk'
  BY <1>0, <1>11, <1>a, <1>n, RemovalFrame, CommitAlone
<1>12. CASE RemoveStart \/ RemovePrecheck \/ RemovePublish \/ RestoreVerify
  <2>1. pub = "none"
    <3>1. RemoveStart => pub = "none"
      BY DEF RemoveStart, publicationFree
    <3> QED BY <1>12, <3>1, RemovePrecheckFacts, RemovePublishFacts, RestoreVerifyFacts
  <2> QED BY <1>11, <1>12, <2>1 DEF RemoveNext
<1>13. CASE RemoveBuild \/ RestoreClone
  BY <1>13, <1>k, RemoveBuildFacts, RestoreCloneFacts DEF cache
<1>14. CASE RemoveSave
  <2>1. UNCHANGED job /\ rm.pc = "save"
    BY <1>14, RemoveSaveFacts
  <2>2. CASE Keeps("publish")
    BY <2>2 DEF Keeps, CommitOnDisk
  <2>3. CASE SaveFails(rm.img)
    <3>1. UNCHANGED saved /\ excused'
      BY <2>3, SaveFacts
    <3> QED BY <1>k, <2>1, <3>1
  <2> QED BY <1>14, <2>2, <2>3, RemoveSaveFacts
<1>15. CASE RestoreSave
  <2>1. UNCHANGED job /\ rm.pc = "force"
    BY <1>15, RestoreSaveFacts
  <2>2. CASE rm'.pc = "verify"
    BY <2>2 DEF CommitOnDisk
  <2>3. CASE SaveFails(rm.img)
    <3>1. UNCHANGED saved /\ excused'
      BY <2>3, SaveFacts
    <3> QED BY <1>k, <2>1, <3>1
  <2> QED BY <1>15, <2>2, <2>3, RestoreSaveFacts
<1>16. CASE Restart
  BY <1>16, <1>n, RestartFacts
<1>17. CASE RemoveNext
  BY <1>12, <1>13, <1>14, <1>15, <1>17 DEF RemoveNext
<1> QED BY <1>1, <1>2, <1>3, <1>4, <1>5, <1>6, <1>7, <1>8, <1>9, <1>10, <1>12, <1>16, <1>17,
           QuietActions DEF BusyStep, CommitStep

LEMMA CompletedImageStep ==
    ASSUME TypeOK, CatalogInv, CompletedImage, [Next]_vars
    PROVE  CompletedImage'
<1> USE Holders, Stages, Numbers
<1>0. RefreshOwns /\ CommitsBased /\ RemovalBased
  BY DEF CatalogInv
<1>k. ASSUME UNCHANGED live, Refresh'.pc \in Persists =>
             Refresh.pc \in Persists /\ Refresh'.img = Refresh.img
      PROVE  CompletedImage'
  BY <1>k DEF CompletedImage
<1>j. ASSUME NEW h \in Holder, \A g \in Holder \ {h} : job'[g] = job[g],
             job'[h].pc \in Held \cup {"release"}
      PROVE  Refresh'.pc \in Persists => Refresh.pc \in Persists /\ Refresh'.img = Refresh.img
  BY <1>j DEF Refresh
<1>1. CASE Calm
  BY <1>1, <1>k DEF Calm
<1>2. CASE begin \/ WithdrawStep \/ Restart
  <2>1. Refresh'.pc \in {"begun", "update", "idle"}
    BY <1>2, BeginFacts, WithdrawFacts, RestartFacts DEF Refresh
  <2> QED BY <2>1 DEF CompletedImage, Persists
<1>3. CASE CompleteStep
  <2>1. Refresh'.img = live'
    BY <1>3, CompleteFacts DEF Refresh
  <2> QED BY <2>1 DEF CompletedImage
<1>4. ASSUME NEW h \in Holder, CommitStart(h) PROVE CompletedImage'
  BY <1>4, <1>j, <1>k, CommitStartFacts DEF Held
<1>5. ASSUME NEW h \in Holder, CommitSave(h) \/ CommitCheck(h) \/ CommitRestore(h)
      PROVE  CompletedImage'
  <2>1. /\ UNCHANGED live /\ \A g \in Holder \ {h} : job'[g] = job[g]
        /\ job'[h].pc \in Held \cup {"release"}
    BY <1>5, CommitSaveFacts, CommitCheckFacts, CommitRestoreFacts DEF GoesOn, Returns, Held
  <2> QED BY <1>j, <1>k, <2>1
<1>6. ASSUME NEW h \in Holder, CommitSwap(h) PROVE CompletedImage'
  <2>1. job[h].pc = "swap" /\ CommitBase(h)
    BY <1>0, <1>6, CommitSwapFacts DEF CommitsBased, CommitStage
  <2>2. live' = job[h].img /\ Returns(h) /\ \A g \in Holder \ {h} : job'[g] = job[g]
    BY <1>6, <2>1, CommitSwapFacts DEF CommitBase
  <2>3. live'.phase = "complete" => live'.rev = live.rev + 1
    BY <2>1, <2>2 DEF CommitBase
  <2>4. Refresh'.pc \in Persists => Refresh.pc \in Persists /\ Refresh'.img = Refresh.img
    BY <1>j, <2>2 DEF Returns
  <2>5. Refresh.pc \in Persists => Refresh.img.rev <= live.rev
    BY <1>0 DEF RefreshOwns
  <2> QED BY <2>3, <2>4, <2>5 DEF CompletedImage
<1>7. CASE RemoveStart \/ RemoveNext
  <2>1. UNCHANGED Refresh
    BY <1>7, RemovalFrame DEF Refresh
  <2>2. CASE UNCHANGED live
    BY <1>k, <2>1, <2>2
  <2>3. CASE live' # live
    <3>1. rm.pc = "publish" /\ RemovalCurrent /\ live' = rm.img
      BY <1>7, <2>3, RemovalFrame, RemovePublishFacts
    <3>2. live'.rev = live.rev + 1
      BY <1>0, <3>1, RemovalBuiltFields DEF RemovalBased
    <3> QED BY <1>0, <2>1, <3>2 DEF CompletedImage, RefreshOwns
  <2> QED BY <2>2, <2>3
<1> QED BY <1>1, <1>2, <1>3, <1>4, <1>5, <1>6, <1>7, QuietActions, PersistFacts
    DEF QuietStep, BusyStep, CommitStep

LEMMA SomeoneSavesStep ==
    ASSUME TypeOK, CatalogInv, SaveInv, DiskInv, [Next]_vars
    PROVE  SomeoneSaves'
<1> USE Holders, Stages, Numbers
<1>0. /\ PubHeld /\ RefreshOwns /\ CommitsBased /\ RemovalBased
      /\ SavedBound /\ RemovalSaved /\ RestoreSaved
      /\ CommitOnDisk /\ CompletedImage /\ SomeoneSaves
  BY DEF CatalogInv, SaveInv, DiskInv
<1>a. {"check", "swap", "restore"} \subseteq Held
  BY DEF Held
<1>p. ASSUME live'.phase # "complete" \/ excused' \/ Settled' \/ RefreshWill' \/ CommitWill'
             \/ RemovalWill'
      PROVE  SomeoneSaves'
  BY <1>p DEF SomeoneSaves
<1>k. ASSUME UNCHANGED <<live, disk, saved, excused>>,
             RefreshWill => RefreshWill' \/ CommitWill', CommitWill => CommitWill',
             RemovalWill => RemovalWill'
      PROVE  SomeoneSaves'
  <2>1. Settled' <=> Settled
    BY <1>k DEF Settled
  <2> QED BY <1>0, <1>k, <1>p, <2>1 DEF SomeoneSaves
<1>j. ASSUME UNCHANGED <<live, saved, Refresh>> PROVE RefreshWill' <=> RefreshWill
  BY <1>j DEF RefreshWill, Before
<1>c. ASSUME Calm
      PROVE  (CommitWill => CommitWill') /\ (RemovalWill => RemovalWill') /\ UNCHANGED live
  <2>1. CommitWill => CommitWill'
    BY <1>c, <1>a DEF Calm, Untouched, CommitWill
  <2> QED BY <1>c, <2>1 DEF Calm, RemovalWill
<1>1. CASE QuietStep
  <2>1. UNCHANGED <<disk, saved, excused, live>> /\ Calm
    BY <1>1 DEF QuietStep, cache, Calm
  <2>2. RefreshWill => RefreshWill'
    BY <1>1, <2>1 DEF QuietStep, Calm, RefreshWill, Before
  <2> QED BY <1>c, <1>k, <2>1, <2>2
<1>2. CASE begin \/ Restart
  BY <1>2, <1>p, BeginFacts, RestartFacts
<1>3. CASE WithdrawStep
  <2>1. live'.phase = live.phase /\ Refresh.pc = "reconcile"
    BY <1>3, WithdrawFacts DEF Refresh
  <2> QED BY <1>0, <1>p, <2>1 DEF RefreshOwns
<1>4. CASE CompleteStep
  <2>1. /\ UNCHANGED <<based, pub, rm, saved>>
        /\ live'.gen = live.gen /\ live'.rev = live.rev + 1
        /\ Refresh'.pc \in Persists /\ Refresh'.img = live' /\ Refresh.pc \notin Held
        /\ \A h \in Holder \ {"refresh"} : job'[h] = job[h]
    BY <1>4, CompleteFacts DEF Refresh, cache
  <2>2. CASE UpTo(saved, live)
    <3>1. Before(saved, live)'
      BY <2>1, <2>2 DEF UpTo, Before
    <3> QED BY <1>p, <2>1, <3>1 DEF RefreshWill
  <2>3. CASE SomeCommitSaved
    <3>1. CommitWill'
      BY <1>a, <2>1, <2>3 DEF SomeCommitSaved, CommitSaved, CommitWill, Refresh
    <3> QED BY <1>p, <3>1
  <2>4. CASE rm.pc = "publish"
    BY <1>p, <2>1, <2>4 DEF RemovalWill
  <2> QED BY <1>0, <2>2, <2>3, <2>4 DEF SavedBound
<1>5. CASE persistCompletedSnapshot
  <2>1. /\ Refresh.img.gen = live.gen /\ Refresh.img.rev <= live.rev /\ Refresh.pc \in Persists
        /\ UNCHANGED live /\ (CommitWill => CommitWill') /\ (RemovalWill => RemovalWill')
    BY <1>0, <1>5, <1>c, PersistFacts DEF RefreshOwns
  <2>2. CASE StaleImage(Refresh.img)
    <3>1. ~RefreshWill
      BY <2>1, <2>2 DEF StaleImage, RefreshWill, Before
    <3>2. UNCHANGED <<disk, saved, excused>>
      BY <1>5, <2>2, PersistFacts DEF cache
    <3> QED BY <1>k, <2>1, <3>1, <3>2
  <2>3. CASE ~StaleImage(Refresh.img) /\ SaveFails(Refresh.img)
    BY <1>p, <2>3, SaveFacts
  <2>4. CASE ~StaleImage(Refresh.img) /\ SaveSucceeds(Refresh.img)
    <3>1. CASE Refresh.img.rev = live.rev
      <4>1. saved'.gen = live'.gen /\ saved'.rev = live'.rev /\ disk' = Image(Refresh.img)
        BY <2>1, <2>4, <3>1, SaveFacts
      <4>2. live'.phase = "complete" => Settled'
        BY <1>0, <2>1, <3>1, <4>1 DEF CompletedImage, Settled
      <4> QED BY <1>p, <4>2
    <3>2. CASE Refresh.img.rev # live.rev
      <4>1. Refresh.img.rev < live.rev
        BY <2>1, <3>2
      <4>2. ~Settled /\ ~RefreshWill
        BY <2>1, <2>4, <4>1 DEF StaleImage, Settled, RefreshWill
      <4>3. excused' <=> excused
        BY <2>4, <4>1 DEF SaveSucceeds
      <4> QED BY <1>0, <1>p, <2>1, <4>2, <4>3 DEF SomeoneSaves
    <3> QED BY <3>1, <3>2
  <2> QED BY <1>5, <2>2, <2>3, <2>4, PersistFacts
<1>6. ASSUME NEW h \in Holder, CommitStart(h) PROVE SomeoneSaves'
  <2>1. /\ UNCHANGED <<live, rm, cache>> /\ pub = "none" /\ job[h].pc = "commit"
        /\ \A g \in Holder \ {h} : job'[g] = job[g]
    BY <1>6, CommitStartFacts
  <2>2. ~CommitWill
    BY <1>0, <1>a, <2>1, CommitAlone DEF CommitWill
  <2>3. RefreshWill => RefreshWill'
    <3>1. CASE h = "refresh"
      BY <2>1, <3>1 DEF RefreshWill, Refresh
    <3>2. CASE h # "refresh"
      BY <1>j, <2>1, <3>2 DEF Refresh, cache
    <3> QED BY <3>1, <3>2
  <2> QED BY <1>k, <2>1, <2>2, <2>3 DEF RemovalWill, cache
<1>7. ASSUME NEW h \in Holder, CommitSave(h) PROVE SomeoneSaves'
  <2>1. CASE GoesOn(h, "check")
    BY <1>p, <2>1 DEF GoesOn, CommitWill
  <2>2. CASE SaveFails(job[h].img)
    BY <1>p, <2>2, SaveFacts
  <2> QED BY <1>7, <2>1, <2>2, CommitSaveFacts
<1>8. ASSUME NEW h \in Holder, CommitCheck(h) PROVE SomeoneSaves'
  <2>1. job'[h].pc \in {"swap", "restore"}
    BY <1>8, CommitCheckFacts DEF GoesOn
  <2> QED BY <1>p, <2>1 DEF CommitWill
<1>9. ASSUME NEW h \in Holder, CommitSwap(h) PROVE SomeoneSaves'
  <2>1. job[h].pc = "swap" /\ CommitBase(h)
    BY <1>0, <1>9, CommitSwapFacts DEF CommitsBased, CommitStage
  <2>2. live' = job[h].img /\ UNCHANGED <<rm, disk, saved, excused>>
    BY <1>9, <2>1, CommitSwapFacts DEF CommitBase, cache
  <2>3. live'.phase = "complete" => RemovalWill' \/ Settled' \/ excused'
    BY <1>0, <2>1, <2>2 DEF CommitOnDisk, RemovalWill, Settled
  <2> QED BY <1>p, <2>3
<1>10. ASSUME NEW h \in Holder, CommitRestore(h) PROVE SomeoneSaves'
  <2>1. UNCHANGED live
    BY <1>10, CommitRestoreFacts
  <2>2. CASE SaveSucceeds(live)
    BY <1>p, <2>1, <2>2, SaveFacts DEF Settled
  <2>3. CASE SaveFails(live)
    BY <1>p, <2>3, SaveFacts
  <2> QED BY <1>10, <2>2, <2>3, CommitRestoreFacts
<1>11. CASE RemoveStart \/ RemoveBuild \/ RemovePrecheck
  <2>1. UNCHANGED <<live, job, cache>> /\ rm.pc \in {"idle", "build", "precheck"}
    BY <1>11, RemoveStartFacts, RemoveBuildFacts, RemovePrecheckFacts
  <2>2. RefreshWill' <=> RefreshWill
    BY <1>j, <2>1 DEF Refresh, cache
  <2>3. CommitWill' <=> CommitWill
    BY <2>1 DEF CommitWill
  <2> QED BY <1>k, <2>1, <2>2, <2>3 DEF RemovalWill, cache
<1>12. CASE RemoveSave \/ RestoreClone
  <2>1. rm'.pc \in {"publish", "restore", "force"}
    BY <1>12, RemoveSaveFacts, RestoreCloneFacts DEF Keeps, Drops
  <2> QED BY <1>p, <2>1 DEF RemovalWill
<1>13. CASE RemovePublish
  <2>1. CASE RemovalCurrent
    <3>1. live' = rm.img /\ pub = "none" /\ rm.pc = "publish" /\ UNCHANGED <<disk, saved>>
      BY <1>13, <2>1, RemovePublishFacts DEF cache
    <3>2. ~SomeCommitSaved
      BY <1>0, <3>1, SavedCommit
    <3>3. Settled'
      BY <1>0, <2>1, <3>1, <3>2 DEF RemovalSaved, Settled
    <3> QED BY <1>p, <3>3
  <2>2. CASE ~RemovalCurrent
    BY <1>13, <1>p, <2>2, RemovePublishFacts DEF RemovalWill, Drops
  <2> QED BY <2>1, <2>2
<1>14. CASE RestoreSave
  <2>1. CASE rm'.pc = "verify"
    BY <1>p, <2>1 DEF RemovalWill
  <2>2. CASE SaveFails(rm.img)
    BY <1>p, <2>2, SaveFacts
  <2> QED BY <1>14, <2>1, <2>2, RestoreSaveFacts
<1>15. CASE RestoreVerify
  <2>1. UNCHANGED <<live, disk, saved>> /\ rm.pc = "verify" /\ pub = "none"
    BY <1>15, RestoreVerifyFacts
  <2>2. CASE RemovalCurrent /\ UNCHANGED excused
    <3>1. Settled \/ excused
      BY <1>0, <2>1, <2>2, SavedCommit DEF RestoreSaved
    <3>2. Settled' <=> Settled
      BY <2>1 DEF Settled
    <3> QED BY <1>p, <2>2, <3>1, <3>2
  <2>3. CASE Drops({"restore"})
    BY <1>p, <2>3 DEF Drops, RemovalWill
  <2>4. CASE excused' = TRUE
    BY <1>p, <2>4
  <2> QED BY <1>15, <2>2, <2>3, <2>4, RestoreVerifyFacts
<1>16. CASE RemoveNext
  BY <1>11, <1>12, <1>13, <1>14, <1>15, <1>16 DEF RemoveNext
<1> QED BY <1>1, <1>2, <1>3, <1>4, <1>5, <1>6, <1>7, <1>8, <1>9, <1>10, <1>11, <1>16,
           QuietActions DEF BusyStep, CommitStep

LEMMA DiskInvStep ==
    ASSUME TypeOK, CatalogInv, SaveInv, DiskInv, [Next]_vars
    PROVE  DiskInv'
<1>1. CommitOnDisk'
  BY CommitOnDiskStep DEF DiskInv
<1>2. CompletedImage'
  BY CompletedImageStep DEF DiskInv
<1> QED BY <1>1, <1>2, SomeoneSavesStep DEF DiskInv

(* Once a refresh has completed and nothing is under way the file holds    *)
(* the published catalog, unless the last save was reported to have failed *)
(* (DiskCatchesUp): commits and removals save before they publish, late    *)
(* images are refused as stale, and a removal that was overtaken puts the  *)
(* published snapshot back.                                                *)
THEOREM FileCatchesUp == Spec => []DiskCatchesUp
<1> DEFINE Inv == TypeOK /\ RestoresCounted /\ CatalogInv /\ SaveInv /\ DiskInv
<1>1. Init => Inv
  BY TypeInit, CatalogInvInit, SaveInvInit, DiskInvInit DEF Init, RestoresCounted, NoRemoval
<1>2. Inv /\ [Next]_vars => Inv'
  BY TypeStep, RestoresStep, CatalogInvStep, SaveInvStep, DiskInvStep
<1>3. Inv => DiskCatchesUp
  <2> SUFFICES ASSUME Inv, live.phase = "complete", Quiet, ~excused PROVE disk = Image(live)
    BY DEF DiskCatchesUp
  <2>1. ~CommitWill /\ ~RemovalWill
    BY DEF Quiet, CommitWill, RemovalWill
  <2>2. ~RefreshWill
    BY Holders DEF Quiet, RefreshWill, Refresh, Persists
  <2> QED BY <2>1, <2>2 DEF DiskInv, SomeoneSaves, Settled
<1> QED BY <1>1, <1>2, <1>3, PTL DEF Spec

-----------------------------------------------------------------------------
(* Removed keys stay removed.                                              *)
LEMMA RemovedInvInit == Init => RemovedInv
BY DEF Init, RemovedInv, RemovedStaysRemoved, RemovedImages

LEMMA RemovedInvStep ==
    ASSUME TypeOK, CatalogInv, SaveInv, RemovedInv, [Next]_vars
    PROVE  RemovedInv'
<1> USE Holders, Stages, Numbers
<1>0. /\ PubHeld /\ RefreshOwns /\ CommitsBased /\ RemovalBased
      /\ SavedBound /\ RemovalSaved /\ RemovedStaysRemoved /\ RemovedImages
  BY DEF CatalogInv, SaveInv, RemovedInv
<1> DEFINE Clean(s) == \A n \in removed : s.pend[n] = {}
           Late == StaleImage(Refresh.img) /\ ~(rm.pc = "force" /\ Before(rm.img, Refresh.img))
           Forward == UpTo(saved, saved') /\ saved'.gen \in Nat /\ saved'.rev \in Nat
<1>a. /\ Clean(live) /\ Clean(disk)
      /\ rm.pc \in {"precheck", "save", "publish", "force"} => Clean(rm.img)
      /\ Refresh.pc \in Persists => Late \/ Clean(Refresh.img)
  BY <1>0 DEF RemovedStaysRemoved, RemovedImages
<1>b. \A h \in Holder : job[h].pc \in CommitStage => Clean(job[h].img)
  <2>1. \A h \in Holder : job[h].pc \in CommitStage => job[h].img.pend = CommitPend(h)
    BY <1>0 DEF CommitsBased, CommitBase
  <2>2. removed \subseteq Node /\ \A h \in Holder : Clean([pend |-> CommitPend(h)])
    BY <1>a DEF TypeOK, CommitPend
  <2> QED BY <2>1, <2>2
<1>c. \A s : Clean(s) <=> Clean(Image(s))
  BY DEF Image
<1>d. /\ Refresh.pc \in Persists => Refresh.img.gen = live.gen /\ Refresh.img.rev <= live.rev
      /\ rm.pc = "publish" /\ RemovalCurrent =>
            saved.gen = live.gen /\ saved.rev = live.rev + 1
  BY <1>0, RemovalBuiltFields DEF RefreshOwns, RemovalBased, RemovalSaved
<1>u. UNCHANGED saved => Forward
  BY DEF UpTo
<1> HIDE DEF Late, Forward
(* A step that ends no removal: what it publishes and stores is clean.     *)
<1>p. ASSUME removed' \subseteq removed,
             \A n \in removed' : live'.pend[n] = {}, Clean(disk'),
             rm'.pc \in {"precheck", "save", "publish", "force"} => Clean(rm'.img),
             Refresh'.pc \in Persists => Late' \/ Clean(Refresh'.img)
      PROVE  RemovedInv'
  BY <1>p DEF RemovedInv, RemovedStaysRemoved, RemovedImages, Late
<1>l. ASSUME Late, UNCHANGED <<Refresh, rm>>,
             Forward
      PROVE  Late'
  <2>1. StaleImage(Refresh.img)' /\ (Before(rm.img, Refresh.img)' <=> Before(rm.img, Refresh.img))
    BY <1>l DEF Late, StaleImage, Before, Forward, UpTo
  <2> QED BY <1>l, <2>1 DEF Late
<1>s. ASSUME NEW s, Clean(s), SaveSucceeds(s) \/ SaveFails(s) PROVE Clean(disk')
  <2>1. disk' = disk \/ disk' = Image(s)
    BY <1>s, SaveFacts
  <2> QED BY <1>a, <1>c, <1>s, <2>1
(* A save that is not stale, or that nothing newer preceded.               *)
<1>t. ASSUME NEW s, s.gen \in Nat, s.rev \in Nat, SaveSucceeds(s) \/ SaveFails(s),
             ~StaleImage(s) \/ UpTo(saved, s)
      PROVE  Forward
  <2>1. CASE SaveFails(s)
    BY <1>u, <2>1, SaveFacts
  <2>2. CASE SaveSucceeds(s)
    <3>1. saved'.gen = s.gen /\ saved'.rev = s.rev
      BY <2>2, SaveFacts
    <3> QED BY <1>t, <3>1 DEF StaleImage, UpTo, Forward
  <2> QED BY <1>t, <2>1, <2>2
<1>1. CASE QuietStep
  <2>1. UNCHANGED <<live, rm, removed, disk, saved>>
    BY <1>1 DEF QuietStep, Calm, cache
  <2>2. Refresh'.pc \in Persists => Refresh.pc \in Persists /\ Refresh'.img = Refresh.img
    BY <1>1 DEF QuietStep, Calm
  <2>3. Refresh'.pc \in Persists /\ Late => Late'
    BY <2>1, <2>2 DEF Late, StaleImage, Before
  <2>4. Refresh'.pc \in Persists => Late' \/ Clean(Refresh'.img)
    BY <1>a, <2>2, <2>3
  <2> QED BY <1>a, <1>p, <2>1, <2>4
<1>2. CASE begin
  <2>1. /\ UNCHANGED <<rm, disk>> /\ removed' \subseteq removed
        /\ \A n \in removed' : live'.pend[n] = {}
        /\ Refresh'.pc = "begun"
    BY <1>2, BeginFacts DEF cache, Refresh
  <2> QED BY <1>a, <1>p, <2>1
<1>3. CASE WithdrawStep
  <2>1. /\ UNCHANGED <<rm, disk, removed>> /\ Refresh'.pc = "update"
        /\ \A n \in Node : live'.pend[n] \subseteq live.pend[n]
    BY <1>3, WithdrawFacts DEF cache, Refresh
  <2>2. removed \subseteq Node
    BY DEF TypeOK
  <2> QED BY <1>a, <1>p, <2>1, <2>2
<1>4. CASE CompleteStep
  <2>1. UNCHANGED <<rm, disk, removed>> /\ live'.pend = live.pend /\ Refresh'.img = live'
    BY <1>4, CompleteFacts DEF cache, Refresh
  <2> QED BY <1>a, <1>p, <2>1
<1>5. CASE persistCompletedSnapshot
  <2>1. UNCHANGED <<rm, live, removed>> /\ Refresh.pc \in Persists /\ Refresh'.pc \notin Persists
    BY <1>5, PersistFacts DEF Calm
  <2>2. Clean(disk')
    <3>1. CASE StaleImage(Refresh.img)
      BY <1>5, <1>a, <3>1, PersistFacts DEF cache
    <3>2. CASE ~StaleImage(Refresh.img)
      BY <1>5, <1>a, <1>s, <2>1, <3>2, PersistFacts DEF Late
    <3> QED BY <3>1, <3>2
  <2> QED BY <1>a, <1>p, <2>1, <2>2
(* The refresh a commit is not of stands still.                            *)
<1>j. ASSUME NEW h \in Holder, \A g \in Holder \ {h} : job'[g] = job[g],
             job'[h].pc \in Held \cup {"release"}, Refresh'.pc \in Persists
      PROVE  UNCHANGED Refresh
  BY <1>j DEF Refresh
<1>q. ASSUME NEW h \in Holder, \A g \in Holder \ {h} : job'[g] = job[g],
             job'[h].pc \in Held \cup {"release"},
             UNCHANGED <<rm, removed>>, Clean(live'), Clean(disk'),
             Forward
      PROVE  RemovedInv'
  <2>1. Refresh'.pc \in Persists => UNCHANGED Refresh
    BY <1>j, <1>q
  <2>2. Refresh'.pc \in Persists => Late' \/ Clean(Refresh'.img)
    BY <1>a, <1>l, <1>q, <2>1
  <2> QED BY <1>a, <1>p, <1>q, <2>2
<1>6. ASSUME NEW h \in Holder, CommitStart(h) PROVE RemovedInv'
  <2>1. /\ UNCHANGED <<live, rm, disk, saved, removed>> /\ job'[h].pc = "save"
        /\ \A g \in Holder \ {h} : job'[g] = job[g]
    BY <1>6, CommitStartFacts DEF cache
  <2> QED BY <1>a, <1>q, <1>u, <2>1 DEF Held
<1>7. ASSUME NEW h \in Holder, CommitSave(h) PROVE RemovedInv'
  <2>1. /\ UNCHANGED <<live, rm, removed>> /\ job[h].pc = "save"
        /\ job'[h].pc \in Held \cup {"release"} /\ \A g \in Holder \ {h} : job'[g] = job[g]
        /\ \/ UNCHANGED cache
           \/ ~StaleImage(job[h].img) /\ (SaveSucceeds(job[h].img) \/ SaveFails(job[h].img))
    BY <1>7, CommitSaveFacts DEF GoesOn, Returns, Held
  <2>2. CASE UNCHANGED cache
    BY <1>a, <1>q, <1>u, <2>1, <2>2 DEF cache
  <2>3. CASE ~StaleImage(job[h].img) /\ (SaveSucceeds(job[h].img) \/ SaveFails(job[h].img))
    <3>1. Clean(job[h].img) /\ job[h].img.gen \in Nat /\ job[h].img.rev \in Nat
      BY <1>b, <2>1 DEF CommitStage
    <3>2. Clean(disk')
      BY <1>s, <2>3, <3>1
    <3>3. Forward
      BY <1>t, <2>3, <3>1
    <3> QED BY <1>a, <1>q, <2>1, <3>2, <3>3
  <2> QED BY <2>1, <2>2, <2>3
<1>8. ASSUME NEW h \in Holder, CommitCheck(h) PROVE RemovedInv'
  <2>1. /\ UNCHANGED <<live, rm, disk, saved, removed>>
        /\ job'[h].pc \in Held \cup {"release"} /\ \A g \in Holder \ {h} : job'[g] = job[g]
    BY <1>8, CommitCheckFacts DEF GoesOn, Held, cache
  <2> QED BY <1>a, <1>q, <1>u, <2>1
<1>9. ASSUME NEW h \in Holder, CommitSwap(h) PROVE RemovedInv'
  <2>1. /\ UNCHANGED <<rm, disk, saved, removed>> /\ job[h].pc = "swap"
        /\ job'[h].pc \in Held \cup {"release"} /\ \A g \in Holder \ {h} : job'[g] = job[g]
        /\ live' \in {live, job[h].img}
    BY <1>9, CommitSwapFacts DEF GoesOn, Returns, Held, cache
  <2>2. Clean(live')
    BY <1>a, <1>b, <2>1 DEF CommitStage
  <2> QED BY <1>a, <1>q, <1>u, <2>1, <2>2
<1>10. ASSUME NEW h \in Holder, CommitRestore(h) PROVE RemovedInv'
  <2>1. /\ UNCHANGED <<live, rm, removed>> /\ job[h].pc = "restore" /\ pub = h
        /\ job'[h].pc \in Held \cup {"release"} /\ \A g \in Holder \ {h} : job'[g] = job[g]
        /\ SaveSucceeds(live) \/ SaveFails(live)
    BY <1>0, <1>10, CommitRestoreFacts, CommitAlone DEF GoesOn, Returns, Held
  <2>2. ~SomeCommitSaved
    BY <1>0, <2>1, SavedCommit DEF Held, CommitSaved
  <2>3. ~(rm.pc = "publish" /\ RemovalCurrent)
    BY <1>0, <2>1 DEF RemovalBased, CommitStage
  <2>4. UpTo(saved, live)
    BY <1>0, <2>2, <2>3 DEF SavedBound
  <2>5. Clean(disk')
    BY <1>a, <1>s, <2>1
  <2>6. Forward
    BY <1>t, <2>1, <2>4
  <2> QED BY <1>a, <1>q, <2>1, <2>5, <2>6
(* The removal moves, and forces no save.                                  *)
<1>11. ASSUME UNCHANGED <<live, job, removed>>, Clean(disk'),
              rm'.pc \in {"precheck", "save", "publish"} => Clean(rm'.img), rm'.pc # "force",
              Forward
       PROVE  RemovedInv'
  <2>1. UNCHANGED Refresh
    BY <1>11 DEF Refresh
  <2>2. Late => Late'
    BY <1>11, <2>1 DEF Late, StaleImage, Forward, UpTo
  <2> QED BY <1>a, <1>11, <1>p, <2>1, <2>2
<1>12. CASE RemoveStart
  BY <1>a, <1>11, <1>u, <1>12, RemoveStartFacts DEF cache
<1>13. CASE RemoveBuild
  <2>1. UNCHANGED <<live, job, removed, disk, saved>>
    BY <1>13, RemoveBuildFacts DEF cache
  <2>2. rm'.pc = "idle" \/ (rm'.pc = "precheck" /\ rm'.img = RemovalBuilt)
    BY <1>13, RemoveBuildFacts DEF Drops
  <2>3. Clean(RemovalBuilt)
    BY <1>a, RemovalBuiltFields DEF TypeOK
  <2> QED BY <1>a, <1>11, <1>u, <2>1, <2>2, <2>3
<1>14. CASE RemovePrecheck
  <2>1. UNCHANGED <<live, job, removed, disk, saved>> /\ rm.pc = "precheck"
    BY <1>14, RemovePrecheckFacts DEF cache
  <2>2. rm'.pc \in {"idle", "build"} \/ (rm'.pc = "save" /\ rm'.img = rm.img)
    BY <1>14, RemovePrecheckFacts DEF Drops, Keeps
  <2> QED BY <1>a, <1>11, <1>u, <2>1, <2>2
<1>15. CASE RemoveSave
  <2>1. /\ UNCHANGED <<live, job, removed>> /\ rm.pc = "save"
        /\ rm'.pc = "restore" \/ (rm'.pc = "publish" /\ rm'.img = rm.img)
        /\ \/ UNCHANGED cache
           \/ ~StaleImage(rm.img) /\ (SaveSucceeds(rm.img) \/ SaveFails(rm.img))
    BY <1>15, RemoveSaveFacts DEF Drops, Keeps
  <2>2. CASE UNCHANGED cache
    BY <1>a, <1>11, <1>u, <2>1, <2>2 DEF cache
  <2>3. CASE ~StaleImage(rm.img) /\ (SaveSucceeds(rm.img) \/ SaveFails(rm.img))
    <3>1. Clean(disk')
      BY <1>a, <1>s, <2>1, <2>3
    <3>2. Forward
      BY <1>t, <2>3
    <3> QED BY <1>a, <1>11, <2>1, <3>1, <3>2
  <2> QED BY <2>1, <2>2, <2>3
(* A removal that publishes: its image is on disk, and what a refresh has  *)
(* still to persist is older.                                              *)
<1>16. CASE RemovePublish
  <2>1. CASE ~RemovalCurrent
    <3>1. UNCHANGED <<live, job, removed, disk, saved>> /\ rm'.pc = "restore"
      BY <1>16, <2>1, RemovePublishFacts DEF cache, Drops
    <3> QED BY <1>a, <1>11, <1>u, <3>1
  <2>2. CASE RemovalCurrent
    <3>1. /\ UNCHANGED <<job, disk, saved>> /\ live' = rm.img /\ rm'.pc = "idle"
          /\ rm.pc = "publish" /\ pub = "none"
          /\ removed' = removed \cup (rm.keys \cap Declared(live, "candidate"))
      BY <1>16, <2>2, RemovePublishFacts DEF cache, NoRemoval
    <3>2. rm.img = RemovalBuilt /\ disk = Image(rm.img)
      BY <1>0, <2>2, <3>1, SavedCommit DEF RemovalBased, RemovalSaved
    <3>3. \A n \in removed' : rm.img.pend[n] = {}
      BY <1>a, <3>1, <3>2, RemovalBuiltFields DEF Declared
    <3>4. Refresh' = Refresh /\ (Refresh.pc \in Persists => StaleImage(Refresh.img))
      BY <1>d, <2>2, <3>1 DEF Refresh, StaleImage
    <3>5. Refresh'.pc \in Persists => StaleImage(Refresh.img)'
      BY <3>1, <3>4 DEF StaleImage
    <3>6. \A n \in removed' : live'.pend[n] = {} /\ disk'.pend[n] = {}
      BY <3>1, <3>2, <3>3 DEF Image
    <3> QED BY <3>1, <3>5, <3>6 DEF RemovedInv, RemovedStaysRemoved, RemovedImages
  <2> QED BY <2>1, <2>2
<1>17. CASE RestoreClone
  <2>1. UNCHANGED <<live, job, removed, disk, saved>> /\ rm'.pc = "force" /\ rm'.img = live
    BY <1>17, RestoreCloneFacts DEF cache
  <2>2. UNCHANGED Refresh
    BY <2>1 DEF Refresh
  <2>3. Refresh.pc \in Persists => ~Before(live, Refresh.img)
    BY <1>d DEF Before
  <2>4. Refresh.pc \in Persists /\ Late => Late'
    BY <2>1, <2>2, <2>3 DEF Late, StaleImage, Before
  <2> QED BY <1>a, <1>p, <2>1, <2>2, <2>4
(* The forced save may go back to an older revision; what a refresh then   *)
(* may persist on top of it is clean.                                      *)
<1>18. CASE RestoreSave
  <2>1. UNCHANGED <<live, job, removed>> /\ rm.pc = "force" /\ UNCHANGED Refresh
    BY <1>18, RestoreSaveFacts DEF Refresh
  <2>2. CASE SaveFails(rm.img) /\ rm'.pc = "idle"
    <3>1. UNCHANGED saved /\ Clean(disk')
      BY <1>a, <1>s, <2>1, <2>2, SaveFacts
    <3> QED BY <1>11, <1>u, <2>1, <2>2, <3>1
  <2>3. CASE SaveSucceeds(rm.img) /\ rm'.pc = "verify"
    <3>1. saved'.gen = rm.img.gen /\ saved'.rev = rm.img.rev /\ Clean(disk')
      BY <1>a, <1>s, <2>1, <2>3, SaveFacts
    <3>2. Refresh.pc \in Persists /\ ~Clean(Refresh.img) => ~Before(rm.img, Refresh.img)
      BY <1>a, <2>1 DEF Late
    <3>3. Refresh.pc \in Persists => Late' \/ Clean(Refresh.img)
      BY <2>1, <2>3, <3>1, <3>2 DEF Late, StaleImage, Before
    <3> QED BY <1>a, <1>p, <2>1, <2>3, <3>1, <3>3
  <2> QED BY <1>18, <2>2, <2>3, RestoreSaveFacts DEF Drops
<1>19. CASE RestoreVerify
  <2>1. /\ UNCHANGED <<live, job, removed, disk, saved>>
        /\ rm'.pc \in {"idle", "build", "restore"}
    BY <1>19, RestoreVerifyFacts DEF Drops
  <2> QED BY <1>a, <1>11, <1>u, <2>1
<1>20. CASE Restart
  <2>1. /\ UNCHANGED <<disk, removed>> /\ live'.pend = disk.pend /\ rm'.pc = "idle"
        /\ Refresh'.pc = "idle"
    BY <1>20, RestartFacts DEF Refresh
  <2> QED BY <1>a, <1>p, <2>1
<1>21. CASE RemoveNext
  BY <1>13, <1>14, <1>15, <1>16, <1>17, <1>18, <1>19, <1>21 DEF RemoveNext
<1> QED BY <1>1, <1>2, <1>3, <1>4, <1>5, <1>6, <1>7, <1>8, <1>9, <1>10, <1>12, <1>20, <1>21,
           QuietActions DEF BusyStep, CommitStep

(* A removal that was reported successful is durable (RemovedStaysRemoved):*)
(* until a source advertises the key again neither the published catalog   *)
(* nor the file holds it, although refreshes, commits and restores write   *)
(* the file concurrently and a forced save may lower the saved revision.   *)
THEOREM RemovalsAreFinal == Spec => []RemovedStaysRemoved
<1> DEFINE Inv == TypeOK /\ RestoresCounted /\ CatalogInv /\ SaveInv /\ RemovedInv
<1>1. Init => Inv
  BY TypeInit, CatalogInvInit, SaveInvInit, RemovedInvInit DEF Init, RestoresCounted, NoRemoval
<1>2. Inv /\ [Next]_vars => Inv'
  BY TypeStep, RestoresStep, CatalogInvStep, SaveInvStep, RemovedInvStep
<1>3. Inv => RemovedStaysRemoved
  BY DEF RemovedInv
<1> QED BY <1>1, <1>2, <1>3, PTL DEF Spec
=============================================================================
