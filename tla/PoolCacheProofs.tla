-------------------------- MODULE PoolCacheProofs --------------------------
(* Persistence of the live pool, for any number of nodes, writers,         *)
(* generations, criterion changes and crashes.                             *)
EXTENDS PoolCache, TLAPS

(* A pool whose routable nodes were judged under criterion c, or are       *)
(* excused, and whose nodes wait for a recheck only while its guard is up  *)
(* or a pass has ended without them.                                       *)
JudgedBy(d, c) ==
    \A n \in Node :
       /\ d.nodes[n].st \in {"up", "soft"} =>
             d.nodes[n].crit = c \/ d.nodes[n].spared \/ d.torn
       /\ d.nodes[n].st = "owed" => d.pending \/ d.nodes[n].spared
Own(d) == JudgedBy(d, d.crit)

AllJudged == /\ JudgedBy(live, judging) /\ Own(disk)
             /\ \A w \in Writer : Own(writer[w].data)
             /\ Own(del.data)

(* Only an exhaustive commit asks for verdicts; the deletions remove.      *)
RequestShape ==
    del.req.kind # "full" => \A n \in Node : del.req.want[n] \in {"keep", "remove"}

JudgedInv == AllJudged /\ RequestShape

(* The criterion only moves forward: the configuration leads, the pool's   *)
(* fingerprint follows, and the generation comes last.                     *)
CritsOrdered == judging <= live.crit /\ live.crit <= storeCrit

(* A snapshot that holds the live nodes and, unless an invalidation is     *)
(* still to come, the criterion.                                           *)
Criterial(d) == live.crit = judging => d.crit = judging
Current(d) == d.nodes = live.nodes /\ Criterial(d)

Saving(w) == writer[w].phase = "saving"
Planning == del.phase \in {"saving", "saved"}
CurrentPlan == Planning /\ del.gen = cacheGen

(* Generation zero is never written.                                       *)
GensPositive ==
    /\ timer => cacheGen > 0
    /\ \A w \in Writer : Saving(w) => writer[w].gen > 0
    /\ del.phase \in {"saving", "saved", "restoring"} => del.gen > 0
    /\ del.phase = "saved" => lastGen > 0 /\ lastGen >= del.gen /\ del.dirty

(* Whoever captured the current generation holds the current pool: every   *)
(* change of the nodes or of their criterion takes a new one.              *)
CapturesCurrent ==
    /\ \A w \in Writer : Saving(w) /\ writer[w].gen = cacheGen => Current(writer[w].data)
    /\ del.phase = "restoring" /\ del.gen = cacheGen => Current(del.data)

(* A plan of the current generation is the request applied to the current  *)
(* pool, and nothing else has or will have its generation; once saved it   *)
(* is what the disk holds.                                                 *)
PlanIsCurrent ==
    CurrentPlan =>
      /\ RequestCurrent(del.req)
      /\ del.data.nodes = Planned(del.req, live) /\ Criterial(del.data)
      /\ ~timer /\ \A w \in Writer : Saving(w) => writer[w].gen < cacheGen
      /\ IF del.phase = "saving" THEN lastGen < cacheGen
         ELSE lastGen = cacheGen /\ disk = del.data

(* No write that would still be taken carries a deleted node.              *)
WritesClean ==
    /\ \A w \in Writer : Saving(w) /\ ~StaleWrite(writer[w].gen) =>
                            gone \cap Present(writer[w].data) = {}
    /\ del.phase \in {"saving", "restoring"} /\ ~StaleWrite(del.gen) =>
          gone \cap Present(del.data) = {}

(* The current generation was saved, or somebody is about to save it.      *)
SomeoneWrites ==
    \/ timer \/ excused \/ lastGen = cacheGen
    \/ \E w \in Writer : Saving(w) /\ writer[w].gen = cacheGen
    \/ del.phase \in {"saving", "saved", "restoring"} /\ del.gen = cacheGen
    \/ del.phase = "repair"
DiskCurrent ==
    /\ lastGen = cacheGen /\ ~excused
    /\ del.phase # "repair" /\ ~CurrentPlan
    => Current(disk)

CacheInv ==
    /\ CritsOrdered /\ GensPositive /\ CapturesCurrent /\ PlanIsCurrent
    /\ DeletedStaysDeleted /\ WritesClean
    /\ SomeoneWrites /\ DiskCurrent

-----------------------------------------------------------------------------
(* What the operators of the model return.                                 *)

(* The empty pool, no write and no deletion have their types.              *)
LEMMA EmptyTypes ==
    /\ EmptyData \in Data
    /\ \A g \in Nat : NoWrite \in WriterType(g) /\ NoDelete \in DelType(g)
                     /\ Repair \in DelType(g)
<1> USE BoundsAssumption, DeleteAttemptsAssumption
<1>1. EmptyData \in Data
  BY DEF EmptyData, Data, NoNodes, Absent, Entry, Status
<1>2. \A g \in Nat : NoWrite \in WriterType(g)
  BY <1>1 DEF NoWrite, WriterType
<1>3. NoRequest \in RequestType
  BY DEF NoRequest, RequestType, Want
<1>4. \A g \in Nat : NoDelete \in DelType(g)
  BY <1>1, <1>3 DEF NoDelete, DelType
<1>5. \A g \in Nat : Repair \in DelType(g)
  BY <1>4 DEF Repair, DelType
<1> QED BY <1>1, <1>2, <1>4, <1>5

(* A later generation only widens the types.                               *)
LEMMA TypesGrow ==
    ASSUME NEW g \in Nat, NEW h \in Nat, g <= h
    PROVE  WriterType(g) \subseteq WriterType(h) /\ DelType(g) \subseteq DelType(h)
<1>1. 0 .. g \subseteq 0 .. h
  OBVIOUS
<1>2. WriterType(g) \subseteq WriterType(h)
  BY <1>1 DEF WriterType
<1>3. DelType(g) \subseteq DelType(h)
  BY <1>1 DEF DelType
<1> QED BY <1>2, <1>3

(* Replacing nodes, criterion or guard of a pool gives a pool.             *)
LEMMA DataUpdates ==
    ASSUME NEW d \in Data
    PROVE  /\ \A n \in Node, e \in Entry : [d EXCEPT !.nodes[n] = e] \in Data
           /\ \A f \in [Node -> Entry] : [d EXCEPT !.nodes = f] \in Data
           /\ \A b \in BOOLEAN : [d EXCEPT !.pending = b] \in Data
           /\ \A c \in 0 .. MaxCrit : [d EXCEPT !.crit = c] \in Data
           /\ Snapshot(d) \in Data /\ Completed(d) \in Data
           /\ \A c \in 0 .. MaxCrit : Invalidated(d, c) \in Data
<1>1. \A n \in Node, e \in Entry : [d EXCEPT !.nodes[n] = e] \in Data
  BY DEF Data
<1>2. \A f \in [Node -> Entry] : [d EXCEPT !.nodes = f] \in Data
  BY DEF Data
<1>3. \A b \in BOOLEAN : [d EXCEPT !.pending = b] \in Data
  BY DEF Data
<1>4. ASSUME NEW c \in 0 .. MaxCrit PROVE Invalidated(d, c) \in Data
  <2>1. \A n \in Node : /\ [d.nodes[n] EXCEPT !.st = "owed", !.spared = FALSE] \in Entry
                        /\ d.nodes[n] \in Entry
    BY DEF Data, Entry, Status
  <2> QED BY <2>1 DEF Invalidated, Data
<1>5. \A c \in 0 .. MaxCrit : [d EXCEPT !.crit = c] \in Data
  BY DEF Data
<1>6. Snapshot(d) \in Data
  <2>1. (d.torn \/ d.crit # judging) \in BOOLEAN
    BY DEF Data
  <2> QED BY <2>1 DEF Snapshot, Data
<1>7. Completed(d) \in Data
  <2>1. \A n \in Node : [d.nodes[n] EXCEPT !.spared = @ \/ d.nodes[n].st = "owed"] \in Entry
    <3> TAKE n \in Node
    <3>1. d.nodes[n] \in Entry BY DEF Data
    <3>2. (d.nodes[n].spared \/ d.nodes[n].st = "owed") \in BOOLEAN
      BY <3>1 DEF Entry
    <3> QED BY <3>1, <3>2 DEF Entry
  <2>2. [n \in Node |-> [d.nodes[n] EXCEPT !.spared = @ \/ d.nodes[n].st = "owed"]]
           \in [Node -> Entry]
    BY <2>1
  <2> QED BY <2>2 DEF Completed, Data
<1> QED BY <1>1, <1>2, <1>3, <1>4, <1>5, <1>6, <1>7

(* What a snapshot and a completed pass keep of a pool.                    *)
LEMMA SnapshotKeeps ==
    ASSUME NEW d \in Data
    PROVE  /\ Snapshot(d).nodes = d.nodes /\ Snapshot(d).crit = d.crit
           /\ Snapshot(d).pending <=> d.pending
           /\ Snapshot(d).torn <=> (d.torn \/ d.crit # judging)
           /\ Completed(d).crit = d.crit /\ Completed(d).torn <=> d.torn
           /\ ~Completed(d).pending
           /\ \A n \in Node :
                 /\ Completed(d).nodes[n].st = d.nodes[n].st
                 /\ Completed(d).nodes[n].crit = d.nodes[n].crit
                 /\ Completed(d).nodes[n].spared <=>
                       (d.nodes[n].spared \/ d.nodes[n].st = "owed")
<1>1. \A n \in Node : Completed(d).nodes[n] =
            [d.nodes[n] EXCEPT !.spared = @ \/ d.nodes[n].st = "owed"]
  BY DEF Completed, Data
<1>2. \A n \in Node : d.nodes[n] \in Entry
  BY DEF Data
<1>3. \A n \in Node : /\ Completed(d).nodes[n].st = d.nodes[n].st
                      /\ Completed(d).nodes[n].crit = d.nodes[n].crit
                      /\ Completed(d).nodes[n].spared <=>
                            (d.nodes[n].spared \/ d.nodes[n].st = "owed")
  <2> TAKE n \in Node
  <2>1. PICK e : e = d.nodes[n]
    OBVIOUS
  <2>2. PICK b : b = (d.nodes[n].spared \/ d.nodes[n].st = "owed")
    OBVIOUS
  <2>3. e \in Entry /\ Completed(d).nodes[n] = [e EXCEPT !.spared = b]
    BY <1>1, <1>2, <2>1, <2>2
  <2>4. [e EXCEPT !.spared = b].st = e.st /\ [e EXCEPT !.spared = b].crit = e.crit
        /\ [e EXCEPT !.spared = b].spared = b
    BY <2>3 DEF Entry
  <2> QED BY <2>1, <2>2, <2>3, <2>4
<1>4. /\ Completed(d).crit = d.crit /\ Completed(d).torn <=> d.torn
      /\ ~Completed(d).pending
  BY DEF Completed, Data
<1>5. /\ Snapshot(d).nodes = d.nodes /\ Snapshot(d).crit = d.crit
      /\ Snapshot(d).pending <=> d.pending
      /\ Snapshot(d).torn <=> (d.torn \/ d.crit # judging)
  BY DEF Snapshot, Data
<1> QED BY <1>3, <1>4, <1>5

(* An invalidation leaves no node routable and raises the guard.           *)
LEMMA InvalidatedKeeps ==
    ASSUME NEW d \in Data, NEW c
    PROVE  /\ Invalidated(d, c).crit = c /\ Invalidated(d, c).pending
           /\ \A n \in Node :
                 /\ Invalidated(d, c).nodes[n].st \notin {"up", "soft"}
                 /\ d.nodes[n].st = "absent" => Invalidated(d, c).nodes[n].st = "absent"
<1>1. ASSUME NEW n \in Node
      PROVE  /\ Invalidated(d, c).nodes[n].st \notin {"up", "soft"}
             /\ d.nodes[n].st = "absent" => Invalidated(d, c).nodes[n].st = "absent"
  <2>1. Invalidated(d, c).nodes[n] =
           IF d.nodes[n].st \in {"up", "soft", "owed"}
           THEN [d.nodes[n] EXCEPT !.st = "owed", !.spared = FALSE]
           ELSE d.nodes[n]
    BY DEF Invalidated
  <2>2. [d.nodes[n] EXCEPT !.st = "owed", !.spared = FALSE].st = "owed"
    <3>1. PICK e : e = d.nodes[n]
      OBVIOUS
    <3>2. e \in Entry
      BY <3>1 DEF Data
    <3>3. [e EXCEPT !.st = "owed", !.spared = FALSE].st = "owed"
      BY <3>2 DEF Entry
    <3> QED BY <3>1, <3>3
  <2> QED BY <2>1, <2>2
<1> QED BY <1>1 DEF Invalidated

(* A plan concerns members of the pool and yields a pool.                  *)
LEMMA PlannedType ==
    ASSUME NEW req \in RequestType, NEW d \in Data
    PROVE  Planned(req, d) \in [Node -> Entry]
<1> SUFFICES ASSUME NEW n \in Node PROVE Planned(req, d)[n] \in Entry
  BY DEF Planned
<1>1. d.nodes[n] \in Entry /\ Absent \in Entry
  BY BoundsAssumption DEF Data, Absent, Entry, Status
<1>2. CASE n \in Removed(req, d)
  BY <1>1, <1>2 DEF Planned
<1>3. CASE n \in Concerned(req, d) \ Removed(req, d)
  <2>1. req.want[n] \in {"up", "down"} /\ req.crit \in 0 .. MaxCrit
    BY <1>3 DEF Concerned, Removed, RequestType, Want
  <2> QED BY <1>3, <2>1 DEF Planned, Judged, Entry, Status
<1>4. CASE n \notin Concerned(req, d)
  <2>1. n \notin Removed(req, d)
    BY <1>4 DEF Removed
  <2> QED BY <1>1, <1>4, <2>1 DEF Planned
<1> QED BY <1>2, <1>3, <1>4

(* What a process starts with is a pool.                                   *)
LEMMA StartupType ==
    ASSUME NEW d \in Data, storeCrit \in 0 .. MaxCrit
    PROVE  Startup(d) \in Data /\ Primed(d) \in Data
<1>1. \A n \in Node : Normalize(d)[n] \in Entry
  <2> TAKE n \in Node
  <2>1. /\ d.nodes[n] \in Entry /\ Absent \in Entry
        /\ [d.nodes[n] EXCEPT !.st = "soft"] \in Entry
    BY BoundsAssumption DEF Data, Absent, Entry, Status
  <2> QED BY <2>1 DEF Normalize
<1>2. Normalize(d) \in [Node -> Entry]
  BY <1>1 DEF Normalize
<1>3. Primed(d) \in Data
  BY <1>2 DEF Primed, Data
<1>4. [EmptyData EXCEPT !.crit = storeCrit] \in Data
  BY EmptyTypes DEF Data
<1>5. Invalidated(Primed(d), storeCrit) \in Data
  BY <1>3, DataUpdates
<1> QED BY <1>3, <1>4, <1>5 DEF Startup

-----------------------------------------------------------------------------
(* Type correctness.                                                       *)
(* A new generation keeps what was captured under the earlier ones.        *)
LEMMA NewGeneration ==
    ASSUME TypeOK, queuePersistence \/ ownGeneration
    PROVE  /\ cacheGen' \in 0 .. MaxCacheGen /\ cacheGen' = cacheGen + 1
           /\ timer' \in BOOLEAN
           /\ writer \in [Writer -> WriterType(cacheGen')]
           /\ del \in DelType(cacheGen')
           /\ lastGen \in 0 .. cacheGen'
<1>1. /\ cacheGen \in Nat /\ cacheGen' \in Nat /\ cacheGen' = cacheGen + 1
      /\ cacheGen' \in 0 .. MaxCacheGen /\ lastGen \in 0 .. cacheGen'
  BY BoundsAssumption DEF TypeOK, queuePersistence, ownGeneration
<1>2. timer' \in BOOLEAN
  BY DEF queuePersistence, ownGeneration
<1>3. WriterType(cacheGen) \subseteq WriterType(cacheGen') /\ DelType(cacheGen) \subseteq DelType(cacheGen')
  BY <1>1, TypesGrow
<1> QED BY <1>1, <1>2, <1>3 DEF TypeOK

(* A save leaves on disk what was there or what it writes.                 *)
LEMMA SaveTypes ==
    ASSUME TypeOK, NEW g \in 0 .. cacheGen, NEW d \in Data,
           SaveSucceeds(g, d) \/ SaveFails(g, d)
    PROVE  disk' \in Data /\ lastGen' \in 0 .. cacheGen /\ excused' \in BOOLEAN
<1>1. CASE SaveSucceeds(g, d)
  <2>1. CASE StaleWrite(g) BY <1>1, <2>1 DEF TypeOK, SaveSucceeds
  <2>2. CASE ~StaleWrite(g)
    <3>1. excused' \in BOOLEAN BY <1>1, <2>2, Zenon DEF SaveSucceeds
    <3> QED BY <1>1, <2>2, <3>1 DEF SaveSucceeds
  <2> QED BY <2>1, <2>2
<1>2. CASE SaveFails(g, d)
  BY <1>2 DEF TypeOK, SaveFails
<1> QED BY <1>1, <1>2

LEMMA CaptureType ==
    ASSUME NEW g \in Nat, NEW d \in Data, NEW b \in BOOLEAN
    PROVE  Capture(g, d, b) \in WriterType(g)
BY DataUpdates DEF Capture, WriterType

LEMMA TypeInit == Init => TypeOK
<1> SUFFICES ASSUME Init PROVE TypeOK
  OBVIOUS
<1>1. /\ cacheGen = 0 /\ lastGen = 0 /\ storeCrit = 0 /\ judging = 0 /\ 0 \in 0 .. MaxCrit
      /\ 0 \in 0 .. MaxCacheGen
  BY BoundsAssumption DEF Init
<1>2. EmptyData \in Data /\ NoWrite \in WriterType(0) /\ NoDelete \in DelType(0)
  BY EmptyTypes
<1>3. writer \in [Writer -> WriterType(0)] /\ del \in DelType(0)
  BY <1>2 DEF Init
<1>4. live \in Data /\ disk \in Data /\ timer \in BOOLEAN /\ excused \in BOOLEAN /\ gone \subseteq Node
  BY <1>2, Zenon DEF Init
<1> QED BY <1>1, <1>3, <1>4 DEF TypeOK

LEMMA TypeStep == TypeOK /\ [Next]_vars => TypeOK'
<1> SUFFICES ASSUME TypeOK, [Next]_vars PROVE TypeOK'
  OBVIOUS
<1>0. /\ live \in Data /\ disk \in Data /\ cacheGen \in 0 .. MaxCacheGen
      /\ cacheGen \in Nat /\ timer \in BOOLEAN
      /\ writer \in [Writer -> WriterType(cacheGen)] /\ del \in DelType(cacheGen)
      /\ lastGen \in 0 .. cacheGen /\ storeCrit \in 0 .. MaxCrit /\ judging \in 0 .. MaxCrit
      /\ gone \subseteq Node /\ excused \in BOOLEAN
      /\ Absent \in Entry /\ live.crit \in 0 .. MaxCrit
      /\ NoWrite \in WriterType(cacheGen) /\ NoDelete \in DelType(cacheGen)
  BY BoundsAssumption, EmptyTypes DEF TypeOK, Absent, Entry, Status, Data
<1>1. ASSUME NEW n \in Node, Observe(n) PROVE TypeOK'
  <2>1. \A st \in {"up", "down"} : Judged(st, judging) \in Entry
    BY <1>0 DEF Judged, Entry, Status
  <2>2. live' \in Data
    BY <1>0, <1>1, <2>1, DataUpdates DEF Observe
  <2> QED BY <1>0, <1>1, <2>2, NewGeneration DEF TypeOK, Observe, history
<1>2. ASSUME NEW w \in Writer, NEW n \in Node, Update(w, n) PROVE TypeOK'
  <2>1. Judged("up", judging) \in Entry
    BY <1>0 DEF Judged, Entry, Status
  <2>2. live' \in Data
    BY <1>0, <1>2, <2>1, DataUpdates DEF Update
  <2>3. ownGeneration BY <1>2 DEF Update
  <2>4. Capture(cacheGen', live', FALSE) \in WriterType(cacheGen')
    <3>1. cacheGen' \in Nat BY <2>3, NewGeneration, BoundsAssumption
    <3> QED BY <2>2, <3>1, CaptureType
  <2>5. gone' \subseteq Node BY <1>0, <1>2 DEF Update
  <2> QED BY <1>2, <1>0, <2>2, <2>3, <2>4, <2>5, NewGeneration DEF TypeOK, Update
<1>3. ASSUME NEW w \in Writer, CompleteHealthRecheck(w) PROVE TypeOK'
  <2>1. live' \in Data
    BY <1>0, <1>3, DataUpdates DEF CompleteHealthRecheck
  <2>2. \A g \in Nat : writer \in [Writer -> WriterType(g)] =>
           [writer EXCEPT ![w].phase = "toflush", ![w].completes = TRUE]
              \in [Writer -> WriterType(g)]
    BY DEF WriterType
  <2>3. CASE live.pending
    <3>1. queuePersistence BY <1>3, <2>3 DEF CompleteHealthRecheck
    <3>2. cacheGen' \in Nat BY <3>1, <1>0 DEF queuePersistence
    <3> QED BY <1>3, <1>0, <2>1, <2>2, <3>1, <3>2, NewGeneration
        DEF TypeOK, CompleteHealthRecheck, history
  <2>4. CASE ~live.pending
    BY <1>3, <1>0, <2>1, <2>2, <2>4 DEF TypeOK, CompleteHealthRecheck, history
  <2> QED BY <2>3, <2>4
<1>4. ASSUME NEW w \in Writer, FlushCache(w) PROVE TypeOK'
  <2>1. ownGeneration BY <1>4 DEF FlushCache
  <2>2. writer[w].completes \in BOOLEAN BY <1>0 DEF WriterType
  <2>3. Capture(cacheGen', live, writer[w].completes) \in WriterType(cacheGen')
    BY <1>0, <2>1, <2>2, NewGeneration, CaptureType, BoundsAssumption
  <2> QED BY <1>4, <1>0, <2>1, <2>3, NewGeneration DEF TypeOK, FlushCache, history
<1>5. ASSUME NEW w \in Writer, flushScheduledPersistence(w) PROVE TypeOK'
  <2>1. Capture(cacheGen, live, FALSE) \in WriterType(cacheGen)
    BY <1>0, CaptureType
  <2> QED BY <1>5, <1>0, <2>1 DEF TypeOK, flushScheduledPersistence, history
<1>6. ASSUME NEW w \in Writer, Save(w) PROVE TypeOK'
  <2>1. writer[w].gen \in 0 .. cacheGen /\ writer[w].data \in Data
    BY <1>0 DEF WriterType
  <2>2. live.pending \in BOOLEAN /\ writer[w].completes \in BOOLEAN
    BY <1>0 DEF Data, WriterType
  <2>3. (live.pending \/ writer[w].completes) \in BOOLEAN
    BY <2>2
  <2>4. live' \in Data
    BY <1>0, <1>6, <2>3, DataUpdates DEF Save
  <2>5. disk' \in Data /\ lastGen' \in 0 .. cacheGen /\ excused' \in BOOLEAN
    BY <1>6, <2>1, SaveTypes DEF Save
  <2> QED BY <1>6, <1>0, <2>4, <2>5 DEF TypeOK, Save
<1>7. CASE ChangeCriterion
  BY <1>7, <1>0, BoundsAssumption DEF TypeOK, ChangeCriterion, history
<1>8. CASE InvalidateHealth
  <2>1. live' \in Data /\ judging' \in 0 .. MaxCrit
    BY <1>8, <1>0, DataUpdates DEF InvalidateHealth
  <2> QED BY <1>8, <1>0, <2>1, NewGeneration DEF TypeOK, InvalidateHealth, history
<1>9. CASE DeleteRequest
  <2>1. \A kind \in {"keys", "clear", "full"}, want \in [Node -> Want], crit \in 0 .. MaxCrit :
           StartRequest(kind, want, crit) => del' \in DelType(cacheGen)
    <3> SUFFICES ASSUME NEW kind \in {"keys", "clear", "full"}, NEW want \in [Node -> Want],
                        NEW crit \in 0 .. MaxCrit, StartRequest(kind, want, crit)
                 PROVE  del' \in DelType(cacheGen)
      OBVIOUS
    <3>1. [kind |-> kind, want |-> want, crit |-> crit] \in RequestType
      BY DEF RequestType
    <3> QED BY <1>0, <3>1 DEF StartRequest, DelType
  <2>2. 0 \in 0 .. MaxCrit /\ NoRequest.want \in [Node -> Want]
        /\ [Node -> {"keep", "remove"}] \subseteq [Node -> Want]
    BY BoundsAssumption DEF NoRequest, Want
  <2>3. del' \in DelType(cacheGen)
    BY <1>9, <1>0, <2>1, <2>2 DEF DeleteRequest
  <2> QED BY <1>9, <1>0, <2>3 DEF TypeOK, DeleteRequest, history
<1>10. CASE buildDeletePlan
  <2>1. del.req \in RequestType BY <1>0 DEF DelType
  <2>2. [Snapshot(live) EXCEPT !.nodes = Planned(del.req, live)] \in Data
    BY <1>0, <2>1, PlannedType, DataUpdates
  <2>3. CASE RequestCurrent(del.req) /\ Concerned(del.req, live) # {}
    <3>1. ownGeneration BY <1>10, <2>3 DEF buildDeletePlan
    <3>2. cacheGen' \in 0 .. cacheGen' BY <3>1, <1>0 DEF ownGeneration
    <3>3. del' \in DelType(cacheGen')
      BY <1>10, <2>2, <2>3, <3>1, <3>2, NewGeneration DEF buildDeletePlan, DelType
    <3> QED BY <1>10, <1>0, <3>1, <3>3, NewGeneration DEF TypeOK, buildDeletePlan, history
  <2>4. CASE ~(RequestCurrent(del.req) /\ Concerned(del.req, live) # {})
    <3>1. Leave \in DelType(cacheGen) /\ LeaveEmpty \in DelType(cacheGen)
      <4>1. Leave \in DelType(cacheGen) BY <1>0, EmptyTypes DEF Leave
      <4> QED BY <1>0, <4>1 DEF LeaveEmpty
    <3>2. del' \in DelType(cacheGen) BY <1>10, <2>4, <3>1 DEF buildDeletePlan
    <3> QED BY <1>10, <1>0, <2>4, <3>2 DEF TypeOK, buildDeletePlan, history
  <2> QED BY <2>3, <2>4
<1>11. CASE DeleteSave
  <2>1. del.gen \in 0 .. cacheGen /\ del.data \in Data BY <1>0 DEF DelType
  <2>2. disk' \in Data /\ lastGen' \in 0 .. cacheGen /\ excused' \in BOOLEAN
    BY <1>11, <2>1, SaveTypes DEF DeleteSave
  <2>3. UNCHANGED <<cacheGen, timer>> \/ queuePersistence
    BY <1>11 DEF DeleteSave, requeuePersistence
  <2>4. \A g \in Nat : del \in DelType(g) =>
           /\ [del EXCEPT !.phase = "saved", !.dirty = TRUE] \in DelType(g)
           /\ Repair \in DelType(g)
    BY EmptyTypes DEF DelType
  <2>5. CASE UNCHANGED <<cacheGen, timer>>
    BY <1>11, <1>0, <2>2, <2>4, <2>5 DEF TypeOK, DeleteSave
  <2>6. CASE queuePersistence
    <3>1. cacheGen' \in Nat /\ lastGen' \in 0 .. cacheGen'
      BY <1>0, <2>2, <2>6 DEF queuePersistence
    <3> QED BY <1>11, <1>0, <2>2, <2>4, <2>6, <3>1, NewGeneration DEF TypeOK, DeleteSave
  <2> QED BY <2>3, <2>5, <2>6
<1>12. CASE publishDeletePlan
  <2>1. del.data.nodes \in [Node -> Entry] BY <1>0 DEF DelType, Data
  <2>2. live' \in Data BY <1>12, <1>0, <2>1, DataUpdates DEF publishDeletePlan
  <2>3. gone' \subseteq Node
    BY <1>12, <1>0 DEF publishDeletePlan, Removed, Concerned, Present
  <2>4. del' \in DelType(cacheGen)
    <3>1. Repair \in DelType(cacheGen) BY <1>0, EmptyTypes
    <3>2. AttemptsLeft => [NoDelete EXCEPT !.phase = "plan", !.req = del.req,
                             !.tries = del.tries + 1, !.dirty = TRUE] \in DelType(cacheGen)
      <4>1. del.tries \in 0 .. DeleteAttempts - 1 BY <1>0 DEF DelType
      <4>2. AttemptsLeft => del.tries + 1 \in 0 .. DeleteAttempts - 1
        BY <4>1, DeleteAttemptsAssumption DEF AttemptsLeft
      <4> QED BY <1>0, <4>2, EmptyTypes DEF DelType
    <3> QED BY <1>12, <1>0, <3>1, <3>2 DEF publishDeletePlan
  <2> QED BY <1>12, <1>0, <2>2, <2>3, <2>4 DEF TypeOK, publishDeletePlan
<1>13. CASE CancelFull
  <2>1. UNCHANGED <<cacheGen, timer>> \/ queuePersistence
    BY <1>13 DEF CancelFull, requeuePersistence
  <2>2. \A g \in Nat : del \in DelType(g) => Leave \in DelType(g)
    BY EmptyTypes DEF Leave
  <2>3. CASE UNCHANGED <<cacheGen, timer>>
    BY <1>13, <1>0, <2>2, <2>3 DEF TypeOK, CancelFull, history
  <2>4. CASE queuePersistence
    <3>1. cacheGen' \in Nat BY <1>0, <2>4 DEF queuePersistence
    <3> QED BY <1>13, <1>0, <2>2, <2>4, <3>1, NewGeneration DEF TypeOK, CancelFull, history
  <2> QED BY <2>1, <2>3, <2>4
<1>14. CASE restoreLiveState
  <2>1. /\ cacheGen' \in 0 .. MaxCacheGen /\ cacheGen' \in Nat /\ cacheGen' \in 0 .. cacheGen'
        /\ cacheGen <= cacheGen' /\ lastGen \in 0 .. cacheGen'
    BY <1>14, <1>0, BoundsAssumption DEF restoreLiveState
  <2>2. del \in DelType(cacheGen') /\ writer \in [Writer -> WriterType(cacheGen')]
    BY <1>0, <2>1, TypesGrow
  <2>3. del' \in DelType(cacheGen')
    BY <1>14, <1>0, <2>1, <2>2, DataUpdates DEF restoreLiveState, DelType
  <2> QED BY <1>14, <1>0, <2>1, <2>2, <2>3 DEF TypeOK, restoreLiveState, history
<1>15. CASE RestoreSave
  <2>1. del.gen \in 0 .. cacheGen /\ del.data \in Data BY <1>0 DEF DelType
  <2>2. disk' \in Data /\ lastGen' \in 0 .. cacheGen /\ excused' \in BOOLEAN
    BY <1>15, <2>1, SaveTypes DEF RestoreSave
  <2> QED BY <1>15, <1>0, <2>2 DEF TypeOK, RestoreSave
<1>16. CASE Restart
  <2>1. live' \in Data BY <1>16, <1>0, StartupType DEF Restart
  <2>2. cacheGen' \in 0 .. MaxCacheGen /\ cacheGen' \in Nat /\ 0 \in 0 .. cacheGen'
    BY <1>16, BoundsAssumption DEF Restart
  <2>3. /\ NoWrite \in WriterType(cacheGen') /\ NoDelete \in DelType(cacheGen')
        /\ [NoWrite EXCEPT !.phase = "toflush"] \in WriterType(cacheGen')
    BY <2>2, EmptyTypes DEF WriterType
  <2>4. writer' \in [Writer -> WriterType(cacheGen')]
    BY <1>16, <2>3 DEF Restart
  <2> QED BY <1>16, <1>0, <2>1, <2>2, <2>3, <2>4 DEF TypeOK, Restart
<1>17. CASE UNCHANGED vars
  BY <1>17, <1>0 DEF TypeOK, vars, history
<1>18. CASE SetRequireIPChangePolicy
  <2>1. live' \in Data BY <1>18, <1>0, DataUpdates DEF SetRequireIPChangePolicy
  <2> QED BY <1>18, <1>0, <2>1 DEF TypeOK, SetRequireIPChangePolicy, history
<1> QED
  BY <1>1, <1>2, <1>3, <1>4, <1>5, <1>6, <1>7, <1>8, <1>9, <1>10, <1>11, <1>12,
     <1>13, <1>14, <1>15, <1>16, <1>17, <1>18 DEF Next

(* Every variable keeps its type, and no snapshot, plan or saved file has  *)
(* a generation the pool has not handed out yet.                           *)
THEOREM PoolCacheTypes == Spec => []TypeOK
BY TypeInit, TypeStep, PTL DEF Spec

-----------------------------------------------------------------------------
(* Generations, plans and the file.                                        *)

(* Loading a file brings back no node it does not hold.                    *)
LEMMA StartupPresent ==
    ASSUME NEW d \in Data, storeCrit \in 0 .. MaxCrit
    PROVE  Present(Startup(d)) \subseteq Present(d)
<1>1. \A n \in Node : d.nodes[n].st = "absent" => Primed(d).nodes[n].st = "absent"
  BY DEF Primed, Normalize, Absent
<1>2. CASE Present(Primed(d)) = {}
  BY <1>2 DEF Startup, CriterionChanged, EmptyData, NoNodes, Absent, Present
<1>3. CASE Present(Primed(d)) # {} /\ CriterionChanged(d)
  <2>1. Startup(d) = Invalidated(Primed(d), storeCrit)
    BY <1>3 DEF Startup
  <2>2. \A n \in Node : Primed(d).nodes[n].st = "absent" => Startup(d).nodes[n].st = "absent"
    BY <2>1, StartupType, InvalidatedKeeps
  <2> QED BY <1>1, <2>2 DEF Present
<1>4. CASE Present(Primed(d)) # {} /\ ~CriterionChanged(d)
  BY <1>1, <1>4 DEF Startup, Present
<1> QED BY <1>2, <1>3, <1>4

(* A plan adds no node to the pool it was made from, and drops those it    *)
(* reports as removed.                                                     *)
LEMMA PlannedPresent ==
    ASSUME NEW d \in Data, NEW e \in Data, NEW req \in RequestType,
           e.nodes = Planned(req, d)
    PROVE  Present(e) \subseteq Present(d) \ Removed(req, d)
<1>1. \A n \in Node : n \in Removed(req, d) => e.nodes[n].st = "absent"
  BY DEF Planned, Absent
<1>2. \A n \in Node : n \notin Present(d) => e.nodes[n].st = "absent"
  <2> TAKE n \in Node
  <2> HAVE n \notin Present(d)
  <2>1. n \notin Concerned(req, d) /\ n \notin Removed(req, d)
    BY DEF Concerned, Removed
  <2> QED BY <2>1 DEF Planned, Present
<1> QED BY <1>1, <1>2 DEF Present

LEMMA CacheInit == Init => CacheInv
BY BoundsAssumption
   DEF Init, CacheInv, GensPositive, CapturesCurrent, PlanIsCurrent, DeletedStaysDeleted,
       WritesClean, SomeoneWrites, DiskCurrent, Saving, Planning, CurrentPlan, Current,
       Criterial, CritsOrdered, EmptyData, NoWrite, NoDelete

(* What is known of the generations before a step.                         *)
LEMMA GenFacts ==
    ASSUME TypeOK
    PROVE  /\ cacheGen \in Nat /\ lastGen \in Nat /\ lastGen <= cacheGen
           /\ del.gen \in Nat /\ del.gen <= cacheGen
           /\ \A w \in Writer : writer[w].gen \in Nat /\ writer[w].gen <= cacheGen
           /\ live \in Data /\ disk \in Data /\ del.data \in Data /\ del.req \in RequestType
           /\ \A w \in Writer : writer[w].data \in Data
           /\ gone \subseteq Node
           /\ judging \in Nat /\ live.crit \in Nat /\ storeCrit \in Nat
<1>1. \A g \in Nat : \A x \in WriterType(g) : x.gen \in 0 .. g /\ x.data \in Data
  BY DEF WriterType
<1>2. \A g \in Nat : \A x \in DelType(g) : x.gen \in 0 .. g /\ x.data \in Data /\ x.req \in RequestType
  BY DEF DelType
<1>3. live.crit \in 0 .. MaxCrit
  BY DEF TypeOK, Data
<1> QED BY <1>1, <1>2, <1>3, BoundsAssumption DEF TypeOK

(* A change of the pool that takes a new generation and makes sure that    *)
(* somebody writes it.                                                     *)
LEMMA ChangeKeeps ==
    ASSUME TypeOK, CacheInv,
           cacheGen' = cacheGen + 1,
           timer' \/ \E w \in Writer : Saving(w)' /\ writer'[w].gen = cacheGen',
           \A w \in Writer :
              \/ writer'[w].phase # "saving"
              \/ /\ writer'[w].gen = cacheGen' /\ writer'[w].data.nodes = live'.nodes
                 /\ writer'[w].data.crit = live'.crit
              \/ writer'[w] = writer[w],
           UNCHANGED <<del, disk, lastGen, excused>>,
           gone' \subseteq gone, gone' \cap Present(live') = {},
           CritsOrdered'
    PROVE  CacheInv'
<1> USE GenFacts DEF CacheInv, Saving, Planning, CurrentPlan, Current, Criterial
<1>1. GensPositive' BY DEF GensPositive
<1>2. CapturesCurrent' BY DEF CapturesCurrent
<1>3. PlanIsCurrent' BY DEF PlanIsCurrent
<1>4. DeletedStaysDeleted' BY DEF DeletedStaysDeleted, Present
<1>5. WritesClean'
  <2>1. ASSUME NEW w \in Writer, writer'[w].phase = "saving", ~StaleWrite(writer[w].gen)'
        PROVE  gone' \cap Present(writer'[w].data) = {}
    BY <2>1 DEF WritesClean, StaleWrite, Present
  <2>2. /\ (del.phase \in {"saving", "restoring"} /\ ~StaleWrite(del.gen))'
        => gone' \cap Present(del'.data) = {}
    BY DEF WritesClean, StaleWrite, Present
  <2> QED BY <2>1, <2>2 DEF WritesClean, Present
<1>6. SomeoneWrites' BY DEF SomeoneWrites
<1>7. DiskCurrent' BY DEF DiskCurrent
<1> QED BY <1>1, <1>2, <1>3, <1>4, <1>5, <1>6, <1>7

(* A step that touches neither nodes nor generations; it may leave the     *)
(* pool with a criterion whose invalidation is still to come.              *)
LEMMA QuietKeeps ==
    ASSUME TypeOK, CacheInv, live'.nodes = live.nodes, judging' = judging,
           live'.crit = live.crit \/ live'.crit # judging, CritsOrdered',
           \A w \in Writer : \/ writer'[w] = writer[w]
                             \/ writer[w].phase # "saving" /\ writer'[w].phase # "saving",
           UNCHANGED <<cacheGen, timer, del, disk, lastGen, gone, excused>>
    PROVE  CacheInv'
<1> USE GenFacts DEF CacheInv, Saving, Planning, CurrentPlan, Current, Criterial
<1>0. \A req : Planned(req, live)' = Planned(req, live) /\ RequestCurrent(req)' = RequestCurrent(req)
               /\ Present(live)' = Present(live)
  BY DEF Planned, Removed, Concerned, RequestCurrent, Present
<1>1. GensPositive' BY DEF GensPositive
<1>2. CapturesCurrent' BY DEF CapturesCurrent
<1>3. PlanIsCurrent' BY <1>0 DEF PlanIsCurrent
<1>4. DeletedStaysDeleted' BY <1>0 DEF DeletedStaysDeleted, Present
<1>5. WritesClean' BY DEF WritesClean, StaleWrite, Present
<1>6. SomeoneWrites' BY DEF SomeoneWrites
<1>7. DiskCurrent' BY DEF DiskCurrent
<1> QED BY <1>1, <1>2, <1>3, <1>4, <1>5, <1>6, <1>7

(* A save, whether the file takes it, ignores it or fails.                 *)
LEMMA SaveEffect ==
    ASSUME TypeOK, CacheInv, NEW g \in Nat, g > 0, g <= cacheGen, NEW d \in Data,
           ~StaleWrite(g) => gone \cap Present(d) = {},
           SaveSucceeds(g, d) \/ SaveFails(g, d)
    PROVE  /\ \A n \in gone : n \notin Present(disk')
           /\ lastGen' \in {lastGen, g} /\ lastGen' \in Nat
           /\ lastGen <= lastGen' /\ lastGen' <= cacheGen
           /\ lastGen = cacheGen => UNCHANGED <<disk, lastGen, excused>>
           /\ \A h \in Nat : StaleWrite(h) => StaleWrite(h)'
           /\ \/ excused' = TRUE
              \/ lastGen' = lastGen /\ disk' = disk /\ excused' = excused /\ g <= lastGen
              \/ /\ lastGen' = g /\ disk' = d /\ lastGen < g
                 /\ g < cacheGen => excused' = excused
                 /\ g = cacheGen => excused' = FALSE
           /\ SaveSucceeds(g, d) => lastGen' > 0 /\ lastGen' >= g
           /\ SaveFails(g, d) => excused' = TRUE
<1> USE GenFacts
<1>0. \A n \in gone : n \notin Present(disk)
  BY DEF CacheInv, DeletedStaysDeleted
<1>1. CASE SaveSucceeds(g, d) /\ StaleWrite(g)
  BY <1>0, <1>1 DEF SaveSucceeds, SaveFails, StaleWrite
<1>2. CASE SaveSucceeds(g, d) /\ ~StaleWrite(g)
  <2>1. disk' = d /\ lastGen' = g /\ lastGen < g
    BY <1>2 DEF SaveSucceeds, StaleWrite
  <2>2. excused' = (excused /\ g < cacheGen) /\ excused \in BOOLEAN
    BY <1>2 DEF SaveSucceeds, TypeOK
  <2>a. g = cacheGen => ~(g < cacheGen)
    OBVIOUS
  <2>3. (g < cacheGen => excused' = excused) /\ (g = cacheGen => excused' = FALSE)
    BY <2>2, <2>a, Zenon
  <2>4. \A n \in gone : n \notin Present(disk')
    BY <1>2, <2>1
  <2>5. ~SaveFails(g, d) \/ excused' = TRUE BY DEF SaveFails
  <2> QED BY <2>1, <2>3, <2>4, <2>5 DEF StaleWrite
<1>3. CASE SaveFails(g, d)
  <2>1. lastGen' = lastGen /\ disk' \in {disk, d} /\ excused' = TRUE /\ ~StaleWrite(g)
    BY <1>3 DEF SaveFails
  <2>2. g > lastGen
    BY <2>1 DEF StaleWrite
  <2>3. SaveSucceeds(g, d) => lastGen' = g
    BY <2>1 DEF SaveSucceeds
  <2>4. \A n \in gone : n \notin Present(disk')
    BY <1>0, <2>1
  <2>5. lastGen # cacheGen /\ lastGen' \in Nat /\ lastGen <= lastGen' /\ lastGen' <= cacheGen
    BY <2>1, <2>2
  <2>6. \A h \in Nat : StaleWrite(h) => StaleWrite(h)'
    BY <2>1 DEF StaleWrite
  <2>7. SaveSucceeds(g, d) => lastGen' > 0 /\ lastGen' >= g
    BY <2>3
  <2>8. lastGen' \in {lastGen, g}
    BY <2>1
  <2> QED BY <2>1, <2>4, <2>5, <2>6, <2>7, <2>8, Zenon
<1> QED BY <1>1, <1>2, <1>3

(* The debounced writer captures the generation it finds; a writer that    *)
(* saves makes way.                                                        *)
LEMMA WriterKeeps ==
    ASSUME TypeOK, CacheInv, NEW w \in Writer, flushScheduledPersistence(w) \/ Save(w), CritsOrdered'
    PROVE  CacheInv'
<1> USE GenFacts DEF CacheInv, Saving, Planning, CurrentPlan, Current, Criterial
<1>w. writer \in [Writer -> WriterType(cacheGen)] BY DEF TypeOK
<1>1. CASE flushScheduledPersistence(w)
  <2>0. /\ writer'[w] = Capture(cacheGen, live, FALSE)
        /\ \A v \in Writer \ {w} : writer'[v] = writer[v]
        /\ timer /\ ~timer' /\ cacheGen > 0
        /\ UNCHANGED <<live, cacheGen, del, disk, lastGen, gone, excused>>
    BY <1>1, <1>w DEF flushScheduledPersistence, GensPositive, history
  <2>a. /\ writer'[w].phase = "saving" /\ writer'[w].gen = cacheGen
        /\ writer'[w].data.nodes = live.nodes /\ writer'[w].data.crit = live.crit
        /\ judging' = judging
    BY <2>0, <1>1, SnapshotKeeps DEF Capture, flushScheduledPersistence
  <2>1. GensPositive' BY <2>0, <2>a DEF GensPositive
  <2>2. CapturesCurrent' BY <2>0, <2>a DEF CapturesCurrent
  <2>3. PlanIsCurrent' BY <2>0 DEF PlanIsCurrent
  <2>4. DeletedStaysDeleted' BY <2>0 DEF DeletedStaysDeleted
  <2>5. WritesClean'
    <3>1. gone \cap Present(live) = {} BY DEF DeletedStaysDeleted
    <3>w. Present(writer'[w].data) = Present(live) BY <2>a DEF Present
    <3>2. ASSUME NEW v \in Writer, (Saving(v) /\ ~StaleWrite(writer[v].gen))'
          PROVE  gone' \cap Present(writer'[v].data) = {}
      <4>1. CASE v = w BY <2>0, <3>1, <3>w, <4>1
      <4>2. CASE v # w BY <2>0, <3>2, <4>2 DEF WritesClean, StaleWrite
      <4> QED BY <4>1, <4>2
    <3>3. (del.phase \in {"saving", "restoring"} /\ ~StaleWrite(del.gen))' =>
             gone' \cap Present(del'.data) = {}
      BY <2>0 DEF WritesClean, StaleWrite
    <3> QED BY <3>2, <3>3 DEF WritesClean, Present
  <2>6. SomeoneWrites' BY <2>0, <2>a DEF SomeoneWrites
  <2>7. DiskCurrent' BY <2>0, <2>a DEF DiskCurrent
  <2> QED BY <2>1, <2>2, <2>3, <2>4, <2>5, <2>6, <2>7
<1>2. CASE Save(w)
  <2> DEFINE g == writer[w].gen
             d == writer[w].data
  <2>0. /\ writer[w].phase = "saving" /\ g \in Nat /\ g > 0 /\ g <= cacheGen /\ d \in Data
        /\ SaveSucceeds(g, d) \/ SaveFails(g, d)
        /\ ~StaleWrite(g) => gone \cap Present(d) = {}
        /\ UNCHANGED <<cacheGen, timer, del, gone, judging>>
        /\ g = cacheGen => Current(d)
    BY <1>2 DEF Save, GensPositive, WritesClean, CapturesCurrent
  <2>a. /\ writer'[w] = NoWrite /\ writer'[w].phase # "saving"
        /\ \A v \in Writer \ {w} : writer'[v] = writer[v]
    BY <1>2, <1>w DEF Save, NoWrite
  <2>b. live'.nodes = live.nodes /\ live'.crit = live.crit
    BY <1>2 DEF Save, Data
  <2>c. \A req : Planned(req, live)' = Planned(req, live) /\ RequestCurrent(req)' = RequestCurrent(req)
                 /\ Present(live)' = Present(live)
    BY <2>0, <2>b DEF Planned, Removed, Concerned, RequestCurrent, Present
  <2>e. /\ \A n \in gone : n \notin Present(disk')
        /\ lastGen' \in {lastGen, g} /\ lastGen' \in Nat
        /\ lastGen <= lastGen' /\ lastGen' <= cacheGen
        /\ lastGen = cacheGen => UNCHANGED <<disk, lastGen, excused>>
        /\ \A h \in Nat : StaleWrite(h) => StaleWrite(h)'
        /\ \/ excused' = TRUE
           \/ lastGen' = lastGen /\ disk' = disk /\ excused' = excused /\ g <= lastGen
           \/ /\ lastGen' = g /\ disk' = d /\ lastGen < g
              /\ g < cacheGen => excused' = excused
              /\ g = cacheGen => excused' = FALSE
    <3> HIDE DEF g, d, CacheInv
    <3> QED BY <2>0, SaveEffect
  <2>1. GensPositive' BY <2>0, <2>a, <2>e DEF GensPositive
  <2>2. CapturesCurrent' BY <2>0, <2>a, <2>b DEF CapturesCurrent
  <2>3. PlanIsCurrent' BY <2>0, <2>a, <2>c, <2>e, <2>b DEF PlanIsCurrent
  <2>4. DeletedStaysDeleted' BY <2>0, <2>c, <2>e DEF DeletedStaysDeleted
  <2>5. WritesClean' BY <2>0, <2>a, <2>e DEF WritesClean, Present
  <2>6. SomeoneWrites' BY <2>0, <2>a, <2>e DEF SomeoneWrites
  <2>7. DiskCurrent' BY <2>0, <2>b, <2>e DEF DiskCurrent
  <2> QED BY <2>1, <2>2, <2>3, <2>4, <2>5, <2>6, <2>7
<1> QED BY <1>1, <1>2

(* Starting a request, making its plan, and giving up before a write.      *)
LEMMA PlanKeeps ==
    ASSUME TypeOK, CacheInv, DeleteRequest \/ buildDeletePlan, CritsOrdered'
    PROVE  CacheInv'
<1> USE GenFacts DEF CacheInv, Saving, Planning, CurrentPlan, Current, Criterial
<1>d. del \in DelType(cacheGen) BY DEF TypeOK
<1>1. ASSUME del'.phase \notin {"saving", "saved", "restoring"},
             del.phase \notin {"saving", "saved", "restoring", "repair"},
             UNCHANGED <<live, judging, cacheGen, timer, writer, disk, lastGen, storeCrit, history>>
      PROVE  CacheInv'
  <2>1. GensPositive' BY <1>1 DEF GensPositive
  <2>2. CapturesCurrent' BY <1>1 DEF CapturesCurrent
  <2>3. PlanIsCurrent' BY <1>1 DEF PlanIsCurrent
  <2>4. DeletedStaysDeleted' BY <1>1 DEF DeletedStaysDeleted, history
  <2>5. WritesClean' BY <1>1 DEF WritesClean, StaleWrite, Present, history
  <2>6. SomeoneWrites' BY <1>1 DEF SomeoneWrites, history
  <2>7. DiskCurrent' BY <1>1 DEF DiskCurrent, history
  <2> QED BY <2>1, <2>2, <2>3, <2>4, <2>5, <2>6, <2>7
<1>2. CASE DeleteRequest
  <2>1. \A kind, want, crit : StartRequest(kind, want, crit) => del'.phase = "plan"
    BY DEF StartRequest, NoDelete
  <2>2. del'.phase = "plan" BY <1>2, <2>1 DEF DeleteRequest
  <2> QED BY <1>1, <1>2, <2>2 DEF DeleteRequest
<1>3. CASE buildDeletePlan /\ ~(RequestCurrent(del.req) /\ Concerned(del.req, live) # {})
  <2>1. Leave.phase \in {"idle", "repair"} /\ LeaveEmpty.phase \in {"idle", "repair"}
    BY DEF Leave, LeaveEmpty, Repair, NoDelete
  <2>2. del'.phase \in {"idle", "repair"}
    BY <1>3, <2>1 DEF buildDeletePlan
  <2> QED BY <1>1, <1>3, <2>2 DEF buildDeletePlan
<1>4. CASE buildDeletePlan /\ RequestCurrent(del.req) /\ Concerned(del.req, live) # {}
  <2> DEFINE d == [Snapshot(live) EXCEPT !.nodes = Planned(del.req, live)]
  <2>0. /\ del'.phase = "saving" /\ del'.gen = cacheGen' /\ del'.req = del.req /\ del'.data = d
        /\ cacheGen' = cacheGen + 1 /\ ~timer'
        /\ UNCHANGED <<live, judging, writer, disk, lastGen, gone, excused>>
    BY <1>4, <1>d DEF buildDeletePlan, ownGeneration, DelType, history
  <2>a. d.nodes = Planned(del.req, live) /\ d.crit = live.crit
    <3>1. Snapshot(live) \in Data /\ Snapshot(live).crit = live.crit
      BY SnapshotKeeps, DataUpdates
    <3> QED BY <3>1 DEF Data
  <2>b. \A req : Planned(req, live)' = Planned(req, live) /\ RequestCurrent(req)' = RequestCurrent(req)
    BY <2>0 DEF Planned, Removed, Concerned, RequestCurrent, Present
  <2>1. GensPositive' BY <2>0 DEF GensPositive
  <2>2. CapturesCurrent' BY <2>0 DEF CapturesCurrent
  <2>3. PlanIsCurrent' BY <2>0, <2>a, <2>b, <1>4 DEF PlanIsCurrent
  <2>4. DeletedStaysDeleted' BY <2>0 DEF DeletedStaysDeleted
  <2>5. WritesClean'
    <3>1. d \in Data BY PlannedType, DataUpdates
    <3>2. gone \cap Present(d) = {}
      BY <2>a, <3>1, PlannedPresent DEF DeletedStaysDeleted
    <3>3. \A v \in Writer : (Saving(v) /\ ~StaleWrite(writer[v].gen))' =>
             gone' \cap Present(writer'[v].data) = {}
      BY <2>0 DEF WritesClean, StaleWrite
    <3>4. gone' \cap Present(del'.data) = {}
      <4> HIDE DEF d
      <4> QED BY <2>0, <3>2
    <3> QED BY <3>3, <3>4 DEF WritesClean, Present
  <2>6. SomeoneWrites' BY <2>0 DEF SomeoneWrites
  <2>7. DiskCurrent' BY <2>0 DEF DiskCurrent
  <2> QED BY <2>1, <2>2, <2>3, <2>4, <2>5, <2>6, <2>7
<1> QED BY <1>2, <1>3, <1>4

(* The file takes the plan, or the plan is given up.                       *)
LEMMA PlanSaveKeeps ==
    ASSUME TypeOK, CacheInv, DeleteSave, CritsOrdered'
    PROVE  CacheInv'
<1> USE GenFacts DEF CacheInv, Saving, Planning, CurrentPlan, Current, Criterial
<1>d. del \in DelType(cacheGen) BY DEF TypeOK
<1> DEFINE g == del.gen
           d == del.data
<1>0. /\ del.phase = "saving" /\ g \in Nat /\ g > 0 /\ g <= cacheGen /\ d \in Data
      /\ SaveSucceeds(g, d) \/ SaveFails(g, d)
      /\ ~StaleWrite(g) => gone \cap Present(d) = {}
      /\ UNCHANGED <<live, judging, writer, gone>>
      /\ \/ /\ SaveSucceeds(g, d) /\ del'.phase = "saved" /\ UNCHANGED <<cacheGen, timer>>
            /\ del'.gen = g /\ del'.data = d /\ del'.req = del.req /\ del'.dirty
         \/ /\ SaveFails(g, d) /\ del'.phase = "repair"
            /\ \/ cacheGen' = cacheGen + 1 /\ timer'
               \/ UNCHANGED <<cacheGen, timer>>
  BY <1>d DEF DeleteSave, GensPositive, WritesClean, requeuePersistence, queuePersistence, DelType,
              Repair, NoDelete
<1>b. \A req : Planned(req, live)' = Planned(req, live) /\ RequestCurrent(req)' = RequestCurrent(req)
               /\ Present(live)' = Present(live)
  BY <1>0 DEF Planned, Removed, Concerned, RequestCurrent, Present
<1>e. /\ \A n \in gone : n \notin Present(disk')
      /\ lastGen' \in {lastGen, g} /\ lastGen' \in Nat
      /\ lastGen <= lastGen' /\ lastGen' <= cacheGen
      /\ lastGen = cacheGen => UNCHANGED <<disk, lastGen, excused>>
      /\ \A h \in Nat : StaleWrite(h) => StaleWrite(h)'
      /\ \/ excused' = TRUE
         \/ lastGen' = lastGen /\ disk' = disk /\ excused' = excused /\ g <= lastGen
         \/ /\ lastGen' = g /\ disk' = d /\ lastGen < g
            /\ g < cacheGen => excused' = excused
            /\ g = cacheGen => excused' = FALSE
      /\ SaveSucceeds(g, d) => lastGen' > 0 /\ lastGen' >= g
      /\ SaveFails(g, d) => excused' = TRUE
  <2> HIDE DEF g, d, CacheInv
  <2> QED BY <1>0, SaveEffect
<1>1. GensPositive' BY <1>0, <1>e DEF GensPositive
<1>2. CapturesCurrent' BY <1>0 DEF CapturesCurrent
<1>3. PlanIsCurrent'
  <2>1. CASE SaveSucceeds(g, d) /\ del'.phase = "saved" /\ UNCHANGED <<cacheGen, timer>> /\ g = cacheGen
    <3>1. lastGen < g BY <1>0, <2>1 DEF PlanIsCurrent
    <3>2. ~StaleWrite(g) BY <3>1 DEF StaleWrite
    <3>3. lastGen' = g /\ disk' = d BY <2>1, <3>2 DEF SaveSucceeds
    <3> QED BY <1>0, <1>b, <2>1, <3>3 DEF PlanIsCurrent
  <2>2. CASE del'.phase = "repair" \/ (UNCHANGED cacheGen /\ g # cacheGen)
    BY <1>0, <2>2 DEF PlanIsCurrent
  <2> QED BY <1>0, <2>1, <2>2
<1>4. DeletedStaysDeleted' BY <1>0, <1>b, <1>e DEF DeletedStaysDeleted
<1>5. WritesClean'
  <2>1. \A v \in Writer : (Saving(v) /\ ~StaleWrite(writer[v].gen))' =>
           gone' \cap Present(writer'[v].data) = {}
    BY <1>0, <1>e DEF WritesClean
  <2> QED BY <1>0, <2>1 DEF WritesClean, Present
<1>6. SomeoneWrites' BY <1>0, <1>e DEF SomeoneWrites
<1>7. DiskCurrent'
  BY <1>0, <1>e DEF DiskCurrent, PlanIsCurrent
<1> QED BY <1>1, <1>2, <1>3, <1>4, <1>5, <1>6, <1>7

(* A published plan is what the disk holds, and every other snapshot is    *)
(* too old to be written.                                                  *)
LEMMA PublishKeeps ==
    ASSUME TypeOK, CacheInv, publishDeletePlan, CritsOrdered'
    PROVE  CacheInv'
<1> USE GenFacts DEF CacheInv, Saving, Planning, CurrentPlan, Current, Criterial
<1>d. del \in DelType(cacheGen) BY DEF TypeOK
<1>0. del.phase = "saved" /\ UNCHANGED <<judging, cacheGen, timer, writer, disk, lastGen, excused>>
  BY DEF publishDeletePlan
<1>1. CASE PublishCurrent
  <2>0. /\ del.gen = cacheGen /\ lastGen = cacheGen /\ disk = del.data /\ ~timer
        /\ \A w \in Writer : writer[w].phase = "saving" => writer[w].gen < cacheGen
        /\ del.data.nodes = Planned(del.req, live) /\ Criterial(del.data)
        /\ lastGen > 0
    BY <1>0, <1>1 DEF PublishCurrent, PlanIsCurrent, GensPositive
  <2>a. live'.nodes = del.data.nodes /\ live'.crit = live.crit /\ del' = NoDelete
        /\ gone' = gone \cup Removed(del.req, live)
    BY <1>1 DEF publishDeletePlan, Data
  <2>b. del'.phase = "idle" BY <2>a DEF NoDelete
  <2>c. Present(del.data) \subseteq Present(live) \ Removed(del.req, live)
    BY <2>0, PlannedPresent
  <2>1. GensPositive' BY <1>0, <2>b DEF GensPositive
  <2>2. CapturesCurrent' BY <1>0, <2>0, <2>b DEF CapturesCurrent
  <2>3. PlanIsCurrent' BY <2>b DEF PlanIsCurrent
  <2>4. DeletedStaysDeleted'
    <3>1. Present(live') = Present(del.data) BY <2>a DEF Present
    <3>2. \A n \in gone' : n \notin Present(del.data)
      BY <2>a, <2>c DEF DeletedStaysDeleted
    <3> QED BY <1>0, <2>0, <3>1, <3>2 DEF DeletedStaysDeleted
  <2>5. WritesClean' BY <1>0, <2>0, <2>b DEF WritesClean, StaleWrite
  <2>6. SomeoneWrites' BY <1>0, <2>0 DEF SomeoneWrites
  <2>7. DiskCurrent' BY <1>0, <2>0, <2>a DEF DiskCurrent
  <2> QED BY <2>1, <2>2, <2>3, <2>4, <2>5, <2>6, <2>7
<1>2. CASE ~PublishCurrent
  <2>0. /\ del'.phase \in {"plan", "repair"} /\ UNCHANGED <<live, gone>>
        /\ del.gen # cacheGen
    BY <1>2, <1>d, <1>0 DEF publishDeletePlan, PublishCurrent, PlanIsCurrent, DelType,
                            Repair, NoDelete
  <2>1. GensPositive' BY <1>0, <2>0 DEF GensPositive
  <2>2. CapturesCurrent' BY <1>0, <2>0 DEF CapturesCurrent
  <2>3. PlanIsCurrent' BY <2>0 DEF PlanIsCurrent
  <2>4. DeletedStaysDeleted' BY <1>0, <2>0 DEF DeletedStaysDeleted
  <2>5. WritesClean' BY <1>0, <2>0 DEF WritesClean, StaleWrite, Present
  <2>6. SomeoneWrites' BY <1>0, <2>0 DEF SomeoneWrites
  <2>7. DiskCurrent' BY <1>0, <2>0 DEF DiskCurrent
  <2> QED BY <2>1, <2>2, <2>3, <2>4, <2>5, <2>6, <2>7
<1> QED BY <1>1, <1>2

(* A plan given up before its save leaves its generation to the timer; one *)
(* that was written is repaired under a new generation.                    *)
LEMMA AbandonKeeps ==
    ASSUME TypeOK, CacheInv, CancelFull \/ restoreLiveState, CritsOrdered'
    PROVE  CacheInv'
<1> USE GenFacts DEF CacheInv, Saving, Planning, CurrentPlan, Current, Criterial
<1>d. del \in DelType(cacheGen) BY DEF TypeOK
<1>1. CASE CancelFull
  <2>0. /\ UNCHANGED <<live, judging, writer, disk, lastGen, gone, excused>>
        /\ del.phase \in {"plan", "saving", "saved"}
        /\ del'.phase \in {"idle", "repair"}
        /\ del.phase = "saved" => del'.phase = "repair"
        /\ \/ cacheGen' = cacheGen + 1 /\ timer' /\ del.phase = "saving" /\ del.gen = cacheGen
           \/ /\ UNCHANGED <<cacheGen, timer>>
              /\ del.phase = "saving" => del.gen # cacheGen
    BY <1>1, <1>d DEF CancelFull, Leave, Repair, NoDelete, requeuePersistence, queuePersistence,
                      GensPositive, DelType, history
  <2>1. GensPositive' BY <2>0 DEF GensPositive
  <2>2. CapturesCurrent' BY <2>0 DEF CapturesCurrent
  <2>3. PlanIsCurrent' BY <2>0 DEF PlanIsCurrent
  <2>4. DeletedStaysDeleted' BY <2>0 DEF DeletedStaysDeleted
  <2>5. WritesClean' BY <2>0 DEF WritesClean, StaleWrite, Present
  <2>6. SomeoneWrites' BY <2>0 DEF SomeoneWrites
  <2>7. DiskCurrent' BY <2>0 DEF DiskCurrent
  <2> QED BY <2>1, <2>2, <2>3, <2>4, <2>5, <2>6, <2>7
<1>2. CASE restoreLiveState
  <2>0. /\ UNCHANGED <<live, judging, timer, writer, disk, lastGen, gone, excused>>
        /\ cacheGen' = cacheGen + 1 /\ del'.gen = cacheGen'
        /\ del'.data.nodes = live.nodes /\ del'.data.crit = live.crit
        /\ del'.phase = "restoring"
    BY <1>2, <1>d, SnapshotKeeps DEF restoreLiveState, DelType, history
  <2>1. GensPositive' BY <2>0 DEF GensPositive
  <2>2. CapturesCurrent' BY <2>0 DEF CapturesCurrent
  <2>3. PlanIsCurrent' BY <2>0 DEF PlanIsCurrent
  <2>4. DeletedStaysDeleted' BY <2>0 DEF DeletedStaysDeleted
  <2>5. WritesClean'
    <3>1. gone' \cap Present(del'.data) = {} BY <2>0 DEF DeletedStaysDeleted, Present
    <3>2. \A v \in Writer : (Saving(v) /\ ~StaleWrite(writer[v].gen))' =>
             gone' \cap Present(writer'[v].data) = {}
      BY <2>0 DEF WritesClean, StaleWrite
    <3> QED BY <3>1, <3>2 DEF WritesClean, Present
  <2>6. SomeoneWrites' BY <2>0 DEF SomeoneWrites
  <2>7. DiskCurrent' BY <2>0 DEF DiskCurrent
  <2> QED BY <2>1, <2>2, <2>3, <2>4, <2>5, <2>6, <2>7
<1> QED BY <1>1, <1>2

LEMMA RestoreSaveKeeps ==
    ASSUME TypeOK, CacheInv, RestoreSave, CritsOrdered'
    PROVE  CacheInv'
<1> USE GenFacts DEF CacheInv, Saving, Planning, CurrentPlan, Current, Criterial
<1> DEFINE g == del.gen
           d == del.data
<1>0. /\ del.phase = "restoring" /\ g \in Nat /\ g > 0 /\ g <= cacheGen /\ d \in Data
      /\ SaveSucceeds(g, d) \/ SaveFails(g, d)
      /\ ~StaleWrite(g) => gone \cap Present(d) = {}
      /\ g = cacheGen => Current(d)
      /\ UNCHANGED <<live, judging, cacheGen, timer, writer, gone>> /\ del' = NoDelete
  BY DEF RestoreSave, GensPositive, WritesClean, CapturesCurrent
<1>a. del'.phase = "idle" BY <1>0 DEF NoDelete
<1>e. /\ \A n \in gone : n \notin Present(disk')
      /\ lastGen' \in {lastGen, g} /\ lastGen' \in Nat
      /\ lastGen <= lastGen' /\ lastGen' <= cacheGen
      /\ \A h \in Nat : StaleWrite(h) => StaleWrite(h)'
      /\ \/ excused' = TRUE
         \/ lastGen' = lastGen /\ disk' = disk /\ excused' = excused /\ g <= lastGen
         \/ /\ lastGen' = g /\ disk' = d /\ lastGen < g
            /\ g < cacheGen => excused' = excused
            /\ g = cacheGen => excused' = FALSE
  <2> HIDE DEF g, d, CacheInv
  <2> QED BY <1>0, SaveEffect
<1>1. GensPositive' BY <1>0, <1>a DEF GensPositive
<1>2. CapturesCurrent' BY <1>0, <1>a DEF CapturesCurrent
<1>3. PlanIsCurrent' BY <1>a DEF PlanIsCurrent
<1>4. DeletedStaysDeleted' BY <1>0, <1>e DEF DeletedStaysDeleted
<1>5. WritesClean' BY <1>0, <1>a, <1>e DEF WritesClean
<1>6. SomeoneWrites' BY <1>0, <1>e DEF SomeoneWrites
<1>7. DiskCurrent' BY <1>0, <1>e DEF DiskCurrent
<1> QED BY <1>1, <1>2, <1>3, <1>4, <1>5, <1>6, <1>7

(* A crash leaves only the file, which holds no deleted node.              *)
LEMMA RestartKeeps ==
    ASSUME TypeOK, CacheInv, Restart, CritsOrdered'
    PROVE  CacheInv'
<1> USE GenFacts DEF CacheInv, Saving, Planning, CurrentPlan, Current, Criterial
<1>0. /\ \A w \in Writer : writer'[w].phase # "saving"
      /\ ~timer' /\ del' = NoDelete /\ del'.phase = "idle" /\ excused' /\ UNCHANGED <<disk, gone>>
      /\ live' = Startup(disk)
  BY DEF Restart, NoWrite, NoDelete
<1>1. GensPositive' BY <1>0 DEF GensPositive
<1>2. CapturesCurrent' BY <1>0 DEF CapturesCurrent
<1>3. PlanIsCurrent' BY <1>0 DEF PlanIsCurrent
<1>4. DeletedStaysDeleted'
  BY <1>0, StartupPresent DEF DeletedStaysDeleted, TypeOK
<1>5. WritesClean' BY <1>0 DEF WritesClean
<1>6. SomeoneWrites' BY <1>0 DEF SomeoneWrites
<1>7. DiskCurrent' BY <1>0 DEF DiskCurrent
<1> QED BY <1>1, <1>2, <1>3, <1>4, <1>5, <1>6, <1>7

(* The order of the criteria: each follows the one before it.              *)
LEMMA CritsStep ==
    ASSUME TypeOK, CritsOrdered, [Next]_vars
    PROVE  CritsOrdered'
<1> USE GenFacts DEF CritsOrdered
<1>1. ASSUME UNCHANGED <<judging, storeCrit>>, live'.crit = live.crit PROVE CritsOrdered'
  BY <1>1
<1>2. ASSUME NEW n \in Node, Observe(n) PROVE CritsOrdered'
  BY <1>1, <1>2 DEF Observe, Data
<1>3. ASSUME NEW w \in Writer, NEW n \in Node, Update(w, n) PROVE CritsOrdered'
  BY <1>1, <1>3 DEF Update, Data
<1>4. ASSUME NEW w \in Writer, CompleteHealthRecheck(w) PROVE CritsOrdered'
  <2>0. live \in Data
    BY DEF TypeOK
  <2>1. Completed(live).crit = live.crit
    BY <2>0 DEF Completed, Data
  <2> QED BY <1>1, <1>4, <2>1 DEF CompleteHealthRecheck
<1>5. ASSUME NEW w \in Writer, Save(w) PROVE CritsOrdered'
  BY <1>1, <1>5 DEF Save, Data
<1>6. CASE ChangeCriterion
  BY <1>6 DEF ChangeCriterion
<1>7. CASE SetRequireIPChangePolicy
  BY <1>7 DEF SetRequireIPChangePolicy, Data
<1>8. CASE InvalidateHealth
  <2>1. live'.crit = judging' /\ judging' \in {live.crit, storeCrit} /\ storeCrit' = storeCrit
    BY <1>8, InvalidatedKeeps DEF InvalidateHealth, TypeOK
  <2> QED BY <2>1
<1>9. CASE publishDeletePlan
  BY <1>1, <1>9 DEF publishDeletePlan, Data
<1>10. CASE Restart
  <2>1. live'.crit = storeCrit
    BY <1>10 DEF Restart, Startup, Invalidated, Primed, EmptyData, Data, TypeOK
  <2> QED BY <1>10, <2>1 DEF Restart
<1>11. \A w \in Writer : FlushCache(w) \/ flushScheduledPersistence(w) => CritsOrdered'
  BY <1>1 DEF FlushCache, flushScheduledPersistence
<1>12. (\/ DeleteRequest \/ buildDeletePlan \/ DeleteSave \/ CancelFull \/ restoreLiveState
        \/ RestoreSave \/ UNCHANGED vars) => CritsOrdered'
  BY <1>1 DEF DeleteRequest, buildDeletePlan, DeleteSave, CancelFull, restoreLiveState,
              RestoreSave, vars
<1> QED
  BY <1>2, <1>3, <1>4, <1>5, <1>6, <1>7, <1>8, <1>9, <1>10, <1>11, <1>12 DEF Next

LEMMA CacheStep == TypeOK /\ CacheInv /\ [Next]_vars => CacheInv'
<1> SUFFICES ASSUME TypeOK, CacheInv, [Next]_vars PROVE CacheInv'
  OBVIOUS
<1>w. writer \in [Writer -> WriterType(cacheGen)] /\ live \in Data /\ gone \cap Present(live) = {}
  BY DEF TypeOK, CacheInv, DeletedStaysDeleted
<1>c. CritsOrdered'
  BY CritsStep DEF CacheInv
<1>1. ASSUME NEW n \in Node, Observe(n) PROVE CacheInv'
  <2>1. gone' \cap Present(live') = {}
    <3>1. n \in Present(live) BY <1>1 DEF Observe, Present
    <3>2. \A m \in Node \ {n} : live'.nodes[m] = live.nodes[m]
      BY <1>1, <1>w DEF Observe, Data
    <3> QED BY <1>1, <1>w, <3>1, <3>2 DEF Observe, Present, history
  <2> QED BY <1>1, <1>c, <2>1, ChangeKeeps DEF Observe, queuePersistence, history
<1>2. ASSUME NEW w \in Writer, NEW n \in Node, Update(w, n) PROVE CacheInv'
  <2>0. /\ cacheGen' = cacheGen + 1 /\ writer'[w] = Capture(cacheGen', live', FALSE)
        /\ \A v \in Writer \ {w} : writer'[v] = writer[v]
        /\ UNCHANGED <<del, disk, lastGen, excused>>
    BY <1>2, <1>w DEF Update, ownGeneration
  <2>1. gone' \subseteq gone /\ gone' \cap Present(live') = {}
    <3>1. \A m \in Node \ {n} : live'.nodes[m] = live.nodes[m]
      BY <1>2, <1>w DEF Update, Data
    <3>2. n \notin gone' \/ live'.nodes[n].st = "absent"
      BY <1>2, <1>w DEF Update, Data, Absent
    <3> QED BY <1>2, <1>w, <3>1, <3>2 DEF Update, Present
  <2>2. writer'[w].phase = "saving" /\ writer'[w].gen = cacheGen' /\ writer'[w].data.nodes = live'.nodes
        /\ writer'[w].data.crit = live'.crit
    <3>1. live' \in Data BY <1>2, TypeStep DEF Next, TypeOK
    <3> QED BY <2>0, <3>1, SnapshotKeeps DEF Capture
  <2> QED BY <1>c, <2>0, <2>1, <2>2, ChangeKeeps DEF Saving
<1>3. ASSUME NEW w \in Writer, CompleteHealthRecheck(w) PROVE CacheInv'
  <2>0. /\ writer'[w].phase = "toflush" /\ writer[w].phase = "idle"
        /\ \A v \in Writer \ {w} : writer'[v] = writer[v]
        /\ UNCHANGED <<del, disk, lastGen, gone, excused>>
    BY <1>3, <1>w DEF CompleteHealthRecheck, WriterType, history
  <2>1. \A n \in Node : live'.nodes[n].st = live.nodes[n].st
    BY <1>3, <1>w, SnapshotKeeps DEF CompleteHealthRecheck
  <2>2. gone' \cap Present(live') = {} BY <1>w, <2>0, <2>1 DEF Present
  <2>3. CASE live.pending
    <3>1. cacheGen' = cacheGen + 1 /\ timer' BY <1>3, <2>3 DEF CompleteHealthRecheck, queuePersistence
    <3> QED BY <1>c, <2>0, <2>2, <3>1, ChangeKeeps
  <2>4. CASE ~live.pending
    <3>1. UNCHANGED <<live, judging, cacheGen, timer>> BY <1>3, <2>4 DEF CompleteHealthRecheck
    <3> QED BY <1>c, <2>0, <3>1, QuietKeeps
  <2> QED BY <2>3, <2>4
<1>4. ASSUME NEW w \in Writer, FlushCache(w) PROVE CacheInv'
  <2>0. /\ cacheGen' = cacheGen + 1 /\ writer'[w] = Capture(cacheGen', live, writer[w].completes)
        /\ \A v \in Writer \ {w} : writer'[v] = writer[v]
        /\ UNCHANGED <<live, del, disk, lastGen, gone, excused>>
    BY <1>4, <1>w DEF FlushCache, ownGeneration, history
  <2>1. gone' \cap Present(live') = {} BY <1>w, <2>0
  <2>2. writer'[w].phase = "saving" /\ writer'[w].gen = cacheGen' /\ writer'[w].data.nodes = live'.nodes
        /\ writer'[w].data.crit = live'.crit
    BY <1>w, <2>0, SnapshotKeeps DEF Capture
  <2> QED BY <1>c, <2>0, <2>1, <2>2, ChangeKeeps DEF Saving
<1>5. ASSUME NEW w \in Writer, flushScheduledPersistence(w) \/ Save(w) PROVE CacheInv'
  BY <1>5, <1>c, WriterKeeps
<1>6. CASE ChangeCriterion
  BY <1>6, <1>c, QuietKeeps DEF ChangeCriterion, history
<1>9. CASE SetRequireIPChangePolicy
  <2>1. live'.nodes = live.nodes /\ live'.crit = storeCrit /\ live.crit # storeCrit
    BY <1>9, <1>w DEF SetRequireIPChangePolicy, Data
  <2>2. live'.crit # judging
    BY <2>1, GenFacts DEF CacheInv, CritsOrdered
  <2> QED BY <1>9, <1>c, <2>1, <2>2, QuietKeeps DEF SetRequireIPChangePolicy, history
<1>7. CASE InvalidateHealth
  <2>1. \A n \in Node : live.nodes[n].st = "absent" => live'.nodes[n].st = "absent"
    BY <1>7, <1>w, InvalidatedKeeps DEF InvalidateHealth
  <2>2. gone' \cap Present(live') = {} BY <1>7, <1>w, <2>1 DEF InvalidateHealth, Present, history
  <2> QED BY <1>7, <1>c, <2>2, ChangeKeeps DEF InvalidateHealth, queuePersistence, history
<1>8. CASE UNCHANGED vars
  BY <1>8, <1>c, QuietKeeps DEF vars, history
<1> QED
  BY <1>c, <1>1, <1>2, <1>3, <1>4, <1>5, <1>6, <1>7, <1>8, <1>9, PlanKeeps, PlanSaveKeeps, PublishKeeps,
     AbandonKeeps, RestoreSaveKeeps, RestartKeeps DEF Next

(* What every snapshot, plan and file may hold, given its generation, and  *)
(* who still owes the disk a write (queuePersistence, saveWithHealthState).*)
THEOREM PoolCacheInvariant == Spec => [](TypeOK /\ CacheInv)
<1>1. Init => TypeOK /\ CacheInv
  BY TypeInit, CacheInit
<1>2. TypeOK /\ CacheInv /\ [Next]_vars => TypeOK' /\ CacheInv'
  BY TypeStep, CacheStep
<1> QED BY <1>1, <1>2, PTL DEF Spec

(* A deletion reported as successful is final in memory and on disk,       *)
(* whatever debounced write, racing flush, older snapshot, failed save or  *)
(* crash follows (publishDeletePlanLocked, saveWithHealthState).           *)
THEOREM DeletionsAreFinal == Spec => []DeletedStaysDeleted
<1>1. CacheInv => DeletedStaysDeleted
  BY DEF CacheInv
<1> QED BY <1>1, PoolCacheInvariant, PTL

(* No change of the pool is forgotten: when no timer is armed and no write *)
(* is under way the disk holds it, unless a save has failed since.         *)
THEOREM ChangesAreWritten == Spec => []ChangesReachDisk
<1>1. TypeOK /\ CacheInv => ChangesReachDisk
  <2> SUFFICES ASSUME TypeOK, CacheInv, ~timer, ~excused, del.phase = "idle",
                      \A w \in Writer : writer[w].phase = "idle"
               PROVE  disk.nodes = live.nodes /\ (live.crit = judging => disk.crit = judging)
    BY DEF ChangesReachDisk
  <2>1. lastGen = cacheGen
    BY DEF CacheInv, SomeoneWrites, Saving
  <2> QED BY <2>1 DEF CacheInv, DiskCurrent, CurrentPlan, Planning, Current, Criterial
<1> QED BY <1>1, PoolCacheInvariant, PTL

(* Publishing a plan applies its request to the pool as it is now: no      *)
(* observation, admission or criterion change made during the write is     *)
(* lost (the generation comparison of publishDeletePlanLocked).            *)
THEOREM NothingIsLost == Spec => PublishLosesNothing
<1>1. ASSUME TypeOK, CacheInv, [Next]_vars, del.phase = "saved",
             live'.nodes # live.nodes, lastGen' = lastGen, writer' = writer, cacheGen' = cacheGen
      PROVE  live'.nodes = Planned(del.req, live)
  <2>1. lastGen > 0 BY <1>1 DEF CacheInv, GensPositive
  <2>w. writer \in [Writer -> WriterType(cacheGen)] /\ cacheGen \in Nat
    BY <1>1, GenFacts DEF TypeOK
  <2>2. ~Restart BY <1>1, <2>1 DEF Restart
  <2>g. cacheGen + 1 # cacheGen BY <2>w
  <2>o. \A n \in Node : ~Observe(n)
    BY <1>1, <2>g DEF Observe, queuePersistence
  <2>3. \A w \in Writer : \A n \in Node : ~Update(w, n)
    BY <1>1, <2>g DEF Update, ownGeneration
  <2>4. \A w \in Writer : ~CompleteHealthRecheck(w) /\ ~Save(w)
    <3> TAKE w \in Writer
    <3>1. ~CompleteHealthRecheck(w)
      BY <1>1, <2>w DEF CompleteHealthRecheck, WriterType
    <3>2. ~Save(w)
      BY <1>1, <2>w DEF Save, NoWrite
    <3> QED BY <3>1, <3>2
  <2>5. ~InvalidateHealth BY <1>1, <2>w DEF InvalidateHealth, queuePersistence
  <2>s. \A w \in Writer : FlushCache(w) \/ flushScheduledPersistence(w) => live' = live
    BY DEF FlushCache, flushScheduledPersistence
  <2>c. ~SetRequireIPChangePolicy
    <3>1. SetRequireIPChangePolicy => live'.nodes = live.nodes
      BY <1>1 DEF SetRequireIPChangePolicy, TypeOK, Data
    <3> QED BY <1>1, <3>1
  <2>k. (\/ ChangeCriterion \/ DeleteRequest \/ buildDeletePlan \/ DeleteSave
         \/ CancelFull \/ restoreLiveState \/ RestoreSave \/ UNCHANGED vars)
           => live' = live
    BY DEF vars, ChangeCriterion, DeleteRequest, buildDeletePlan, DeleteSave, CancelFull,
           restoreLiveState, RestoreSave
  <2>6. publishDeletePlan
    BY <1>1, <2>2, <2>o, <2>3, <2>4, <2>5, <2>c, <2>s, <2>k DEF Next
  <2>7. PublishCurrent /\ live' = [live EXCEPT !.nodes = del.data.nodes]
    BY <1>1, <2>6 DEF publishDeletePlan
  <2>8. CurrentPlan BY <1>1, <2>7 DEF PublishCurrent, CurrentPlan, Planning
  <2>9. live \in Data BY <1>1 DEF TypeOK
  <2> QED BY <1>1, <2>7, <2>8, <2>9 DEF CacheInv, PlanIsCurrent, Data
<1>2. TypeOK /\ CacheInv /\ [Next]_vars =>
        [del.phase = "saved" /\ live'.nodes # live.nodes /\ lastGen' = lastGen
           /\ writer' = writer /\ cacheGen' = cacheGen
           => live'.nodes = Planned(del.req, live)]_vars
  BY <1>1
<1> QED BY <1>2, PoolCacheInvariant, PTL DEF Spec, PublishLosesNothing

-----------------------------------------------------------------------------
(* Routable nodes are judged under the criterion in force.                 *)

(* A verdict of the current generation, a new guard, the end of a pass and *)
(* an invalidation keep a pool judged.                                     *)
LEMMA JudgedUpdates ==
    ASSUME NEW d \in Data, NEW c, JudgedBy(d, c)
    PROVE  /\ \A n \in Node, st \in {"up", "down"} :
                JudgedBy([d EXCEPT !.nodes[n] = Judged(st, c)], c)
           /\ \A n \in Node : JudgedBy([d EXCEPT !.nodes[n] = Absent], c)
           /\ JudgedBy([d EXCEPT !.pending = TRUE], c)
           /\ \A k : JudgedBy([d EXCEPT !.crit = k], c)
           /\ JudgedBy(Completed(d), c)
           /\ \A k, e : JudgedBy(Invalidated(d, k), e)
<1> USE DEF JudgedBy, Data, Entry
<1>d. d \in Data
  OBVIOUS
<1>1. ASSUME NEW n \in Node, NEW st \in {"up", "down"}
      PROVE  JudgedBy([d EXCEPT !.nodes[n] = Judged(st, c)], c)
  BY DEF Judged
<1>2. ASSUME NEW n \in Node PROVE JudgedBy([d EXCEPT !.nodes[n] = Absent], c)
  BY DEF Absent
<1>3. JudgedBy([d EXCEPT !.pending = TRUE], c)
  OBVIOUS
<1>4. JudgedBy(Completed(d), c)
  BY SnapshotKeeps
<1>5. ASSUME NEW k, NEW e PROVE JudgedBy(Invalidated(d, k), e)
  BY InvalidatedKeeps
<1>6. ASSUME NEW k PROVE JudgedBy([d EXCEPT !.crit = k], c)
  OBVIOUS
<1> QED BY <1>1, <1>2, <1>3, <1>4, <1>5, <1>6

(* A snapshot of the live pool is judged by its own criterion, or torn.    *)
LEMMA JudgedSnapshot ==
    ASSUME NEW d \in Data, JudgedBy(d, judging)
    PROVE  Own(Snapshot(d))
BY SnapshotKeeps DEF Own, JudgedBy, Data

(* A request that fits the pool turns it into a judged one.                *)
LEMMA JudgedPlan ==
    ASSUME NEW d \in Data, NEW req \in RequestType, NEW c, JudgedBy(d, c),
           req.kind = "full" => req.crit = c,
           req.kind # "full" => \A n \in Node : req.want[n] \in {"keep", "remove"}
    PROVE  JudgedBy([d EXCEPT !.nodes = Planned(req, d)], c)
<1> SUFFICES ASSUME NEW n \in Node
             PROVE  /\ Planned(req, d)[n].st \in {"up", "soft"} =>
                          \/ Planned(req, d)[n].crit = c
                          \/ Planned(req, d)[n].spared
                          \/ d.torn
                    /\ Planned(req, d)[n].st = "owed" => d.pending \/ Planned(req, d)[n].spared
  BY DEF JudgedBy, Data
<1>1. CASE n \in Removed(req, d)
  BY <1>1 DEF Planned, Absent
<1>2. CASE n \in Concerned(req, d) \ Removed(req, d)
  <2>1. req.want[n] \in {"up", "down"} /\ req.kind = "full"
    BY <1>2 DEF Concerned, Removed, RequestType, Want
  <2> QED BY <1>2, <2>1 DEF Planned, Judged
<1>3. CASE n \notin Concerned(req, d)
  <2>1. n \notin Removed(req, d) BY <1>3 DEF Removed
  <2> QED BY <1>3, <2>1 DEF Planned, JudgedBy
<1> QED BY <1>1, <1>2, <1>3

(* A judged file loads into a judged pool, whichever criterion it was      *)
(* written under.                                                          *)
LEMMA JudgedStartup ==
    ASSUME NEW d \in Data, Own(d), storeCrit \in 0 .. MaxCrit
    PROVE  JudgedBy(Startup(d), storeCrit)
<1>1. \A n \in Node :
        \/ Normalize(d)[n] \in {Absent, d.nodes[n]}
        \/ /\ d.nodes[n].st = "owed" /\ d.nodes[n].spared
           /\ Normalize(d)[n].st = "soft" /\ Normalize(d)[n].spared
  <2> TAKE n \in Node
  <2>1. /\ d.nodes[n] \in Entry
        /\ Normalize(d)[n] = CASE d.nodes[n].st = "down" -> Absent
                               [] d.nodes[n].st = "owed" /\ ~d.pending ->
                                    [d.nodes[n] EXCEPT !.st = "soft"]
                               [] OTHER -> d.nodes[n]
    BY DEF Normalize, Data
  <2>2. d.nodes[n].st = "owed" => d.pending \/ d.nodes[n].spared
    BY DEF Own, JudgedBy
  <2>3. d.nodes[n].spared \in BOOLEAN
    BY <2>1 DEF Entry
  <2> QED BY <2>1, <2>2, <2>3 DEF Entry
<1>3. CASE Present(Primed(d)) = {}
  <2>1. Startup(d) = [EmptyData EXCEPT !.crit = storeCrit]
    BY <1>3 DEF Startup, CriterionChanged
  <2>2. \A n \in Node : Startup(d).nodes[n].st = "absent"
    BY <2>1 DEF EmptyData, NoNodes, Absent
  <2> QED BY <2>2 DEF JudgedBy
<1>4. CASE Present(Primed(d)) # {} /\ CriterionChanged(d)
  <2>1. Startup(d) = Invalidated(Primed(d), storeCrit)
    BY <1>4 DEF Startup
  <2>2. \A n \in Node : Startup(d).nodes[n].st \notin {"up", "soft"}
    BY <2>1, StartupType, InvalidatedKeeps
  <2>3. Startup(d).pending
    BY <2>1, StartupType, InvalidatedKeeps
  <2> QED BY <2>2, <2>3 DEF JudgedBy
<1>5. CASE Present(Primed(d)) # {} /\ ~CriterionChanged(d)
  <2>1. Startup(d) = Primed(d) /\ d.crit = storeCrit
    BY <1>5 DEF Startup, CriterionChanged
  <2>2. /\ Primed(d).nodes = Normalize(d) /\ Primed(d).torn = d.torn
        /\ Primed(d).pending = d.pending
    BY DEF Primed, Data
  <2>3. \A n \in Node : /\ d.nodes[n].st \in {"up", "soft"} =>
                              d.nodes[n].crit = storeCrit \/ d.nodes[n].spared \/ d.torn
                        /\ d.nodes[n].st = "owed" => d.pending \/ d.nodes[n].spared
    BY <2>1 DEF Own, JudgedBy
  <2>4. Absent.st = "absent"
    BY DEF Absent
  <2>5. JudgedBy(Primed(d), storeCrit)
    BY <1>1, <2>2, <2>3, <2>4 DEF JudgedBy
  <2> QED BY <2>1, <2>5
<1> QED BY <1>3, <1>4, <1>5

LEMMA JudgedInit == Init => JudgedInv
BY DEF Init, JudgedInv, AllJudged, RequestShape, Own, JudgedBy, EmptyData, NoNodes, Absent,
       NoWrite, NoDelete, NoRequest

(* A save writes a judged pool or leaves the file.                         *)
LEMMA JudgedSave ==
    ASSUME Own(disk), NEW g, NEW d, Own(d), SaveSucceeds(g, d) \/ SaveFails(g, d)
    PROVE  Own(disk')
<1>1. disk' \in {disk, d}
  BY DEF SaveSucceeds, SaveFails
<1> QED BY <1>1

LEMMA JudgedStep == TypeOK /\ PlanIsCurrent /\ JudgedInv /\ [Next]_vars => JudgedInv'
<1> SUFFICES ASSUME TypeOK, PlanIsCurrent, JudgedInv, [Next]_vars PROVE JudgedInv'
  OBVIOUS
<1> USE DEF JudgedInv, AllJudged
<1>0. /\ live \in Data /\ disk \in Data /\ storeCrit \in 0 .. MaxCrit
      /\ del.req \in RequestType /\ del \in DelType(cacheGen)
      /\ Own(EmptyData) /\ Own(Snapshot(live))
  <2>1. Own(EmptyData) BY DEF Own, JudgedBy, EmptyData, NoNodes, Absent
  <2>2. Own(Snapshot(live)) BY JudgedSnapshot DEF TypeOK
  <2> QED BY <2>1, <2>2 DEF TypeOK, DelType
<1>0a. Own(NoWrite.data) /\ Own(NoDelete.data) /\ Own(Leave.data)
       /\ (RequestShape => \A d \in {NoDelete, Repair, Leave, LeaveEmpty} : Own(d.data) /\
             (d.req.kind # "full" => \A n \in Node : d.req.want[n] \in {"keep", "remove"}))
  BY <1>0 DEF NoWrite, NoDelete, NoRequest, Repair, Leave, LeaveEmpty, RequestShape, DelType
<1>1. ASSUME NEW n \in Node, Observe(n) PROVE JudgedInv'
  <2>0. PICK st \in {"up", "down"} :
          live' = [live EXCEPT !.nodes[n] = Judged(st, judging)]
    BY <1>1 DEF Observe
  <2>1. JudgedBy(live', judging') BY <1>0, <1>1, <2>0, JudgedUpdates DEF Observe
  <2> QED BY <1>1, <2>1 DEF Observe, RequestShape
<1>2. ASSUME NEW w \in Writer, NEW n \in Node, Update(w, n) PROVE JudgedInv'
  <2>1. JudgedBy(live', judging') BY <1>0, <1>2, JudgedUpdates DEF Update
  <2>2. Own(Snapshot(live'))
    <3>1. live' \in Data BY <1>2, TypeStep DEF Next, TypeOK
    <3>2. JudgedBy(live', judging) BY <1>2, <2>1 DEF Update
    <3> QED BY <3>1, <3>2, JudgedSnapshot
  <2>3. \A v \in Writer : Own(writer'[v].data)
    BY <1>2, <2>2 DEF Update, Capture, TypeOK
  <2> QED BY <1>2, <2>1, <2>3 DEF Update, RequestShape
<1>3. ASSUME NEW w \in Writer, CompleteHealthRecheck(w) PROVE JudgedInv'
  <2>1. JudgedBy(live', judging') BY <1>0, <1>3, JudgedUpdates DEF CompleteHealthRecheck
  <2>2. \A v \in Writer : writer'[v].data = writer[v].data
    BY <1>3 DEF CompleteHealthRecheck, TypeOK, WriterType
  <2> QED BY <1>3, <2>1, <2>2 DEF CompleteHealthRecheck, RequestShape
<1>4. ASSUME NEW w \in Writer, FlushCache(w) PROVE JudgedInv'
  <2>1. \A v \in Writer : Own(writer'[v].data)
    BY <1>4, <1>0 DEF FlushCache, Capture, TypeOK
  <2> QED BY <1>4, <2>1 DEF FlushCache, RequestShape
<1>5. ASSUME NEW w \in Writer, flushScheduledPersistence(w) PROVE JudgedInv'
  <2>1. \A v \in Writer : Own(writer'[v].data)
    BY <1>5, <1>0 DEF flushScheduledPersistence, Capture, TypeOK
  <2> QED BY <1>5, <2>1 DEF flushScheduledPersistence, RequestShape
<1>6. ASSUME NEW w \in Writer, Save(w) PROVE JudgedInv'
  <2>1. \A v \in Writer : Own(writer'[v].data)
    BY <1>6, <1>0a DEF Save, TypeOK
  <2>2. Own(disk') BY <1>6, JudgedSave DEF Save
  <2>3. JudgedBy(live', judging')
    <3>1. live.pending \in BOOLEAN /\ writer[w].completes \in BOOLEAN
      BY <1>0 DEF Data, TypeOK, WriterType
    <3>2. CASE live' = live BY <1>6, <3>2 DEF Save
    <3>3. CASE live' = [live EXCEPT !.pending = @ \/ writer[w].completes]
      <4>1. CASE live' = live BY <1>6, <4>1 DEF Save
      <4>2. CASE live' = [live EXCEPT !.pending = TRUE]
        BY <1>0, <1>6, <4>2, JudgedUpdates DEF Save
      <4> QED BY <1>0, <3>1, <3>3, <4>1, <4>2 DEF Data
    <3> QED BY <1>6, <3>2, <3>3 DEF Save
  <2> QED BY <1>6, <2>1, <2>2, <2>3 DEF Save, RequestShape
<1>7. CASE ChangeCriterion
  BY <1>7 DEF ChangeCriterion, RequestShape
<1>8. CASE InvalidateHealth
  <2>1. PICK c : live' = Invalidated(live, c) /\ judging' = c
    BY <1>8 DEF InvalidateHealth
  <2>2. JudgedBy(Invalidated(live, c), c) BY <1>0, JudgedUpdates
  <2>3. JudgedBy(live', judging') BY <2>1, <2>2
  <2> QED BY <1>8, <2>3 DEF InvalidateHealth, RequestShape
<1>9. CASE DeleteRequest
  <2>1. Own(del'.data) /\ RequestShape'
    <3>1. ASSUME NEW kind, NEW want, NEW crit, StartRequest(kind, want, crit)
          PROVE  del'.data = EmptyData /\ del'.req.kind = kind /\ del'.req.want = want
      BY <3>1 DEF StartRequest, NoDelete
    <3>2. CASE \E w \in [Node -> {"keep", "remove"}] : StartRequest("keys", w, 0)
      BY <1>0, <3>1, <3>2 DEF RequestShape
    <3>3. CASE StartRequest("clear", NoRequest.want, 0)
      BY <1>0, <3>1, <3>3 DEF RequestShape, NoRequest
    <3>4. CASE \E w \in [Node -> Want] : StartRequest("full", w, judging)
      BY <1>0, <3>1, <3>4 DEF RequestShape
    <3> QED BY <1>9, <3>2, <3>3, <3>4 DEF DeleteRequest
  <2> QED BY <1>9, <2>1 DEF DeleteRequest
<1>10. CASE buildDeletePlan
  <2>1. CASE RequestCurrent(del.req) /\ Concerned(del.req, live) # {}
    <3>1. Own([Snapshot(live) EXCEPT !.nodes = Planned(del.req, live)])
      <4> DEFINE p == [live EXCEPT !.nodes = Planned(del.req, live)]
      <4>1. JudgedBy(p, judging) /\ p \in Data
        BY <1>0, <2>1, JudgedPlan, PlannedType, DataUpdates DEF RequestCurrent, RequestShape
      <4>2. [Snapshot(live) EXCEPT !.nodes = Planned(del.req, live)] = Snapshot(p)
        BY <1>0 DEF Snapshot, Data
      <4>3. Own(Snapshot(p))
        <5> HIDE DEF p
        <5> QED BY <4>1, JudgedSnapshot
      <4> QED BY <4>2, <4>3
    <3>2. /\ del'.data = [Snapshot(live) EXCEPT !.nodes = Planned(del.req, live)]
          /\ del'.req = del.req
      BY <1>10, <1>0, <2>1 DEF buildDeletePlan, DelType
    <3> QED BY <1>10, <3>1, <3>2 DEF buildDeletePlan, RequestShape
  <2>2. CASE ~(RequestCurrent(del.req) /\ Concerned(del.req, live) # {})
    <3>1. del' \in {Leave, LeaveEmpty} BY <1>10, <2>2 DEF buildDeletePlan
    <3>2. Own(del'.data) /\ RequestShape' BY <1>0a, <3>1 DEF RequestShape
    <3> QED BY <1>10, <3>2 DEF buildDeletePlan
  <2> QED BY <2>1, <2>2
<1>11. CASE DeleteSave
  <2>1. \/ del'.data = del.data /\ del'.req = del.req
        \/ del' = Repair
    BY <1>11, <1>0 DEF DeleteSave, DelType
  <2>2. Own(disk') BY <1>11, JudgedSave DEF DeleteSave
  <2>3. Own(del'.data) /\ RequestShape' BY <1>0a, <2>1 DEF RequestShape
  <2> QED BY <1>11, <2>2, <2>3 DEF DeleteSave
<1>12. CASE publishDeletePlan
  <2>1. Own(del'.data) /\ RequestShape'
    <3>1. \/ del' \in {NoDelete, Repair}
          \/ del'.data = NoDelete.data /\ del'.req = del.req
      BY <1>12 DEF publishDeletePlan, NoDelete
    <3> QED BY <1>0a, <3>1 DEF RequestShape
  <2>2. JudgedBy(live', judging')
    <3>1. CASE PublishCurrent
      <4>1. CurrentPlan BY <1>12, <3>1 DEF publishDeletePlan, PublishCurrent, CurrentPlan, Planning
      <4>2. live' = [live EXCEPT !.nodes = Planned(del.req, live)]
        BY <1>12, <3>1, <4>1 DEF publishDeletePlan, PlanIsCurrent
      <4>3. JudgedBy([live EXCEPT !.nodes = Planned(del.req, live)], judging)
        BY <1>0, <3>1, JudgedPlan DEF PublishCurrent, RequestCurrent, RequestShape
      <4> QED BY <1>12, <4>2, <4>3 DEF publishDeletePlan
    <3>2. CASE ~PublishCurrent BY <1>12, <3>2 DEF publishDeletePlan
    <3> QED BY <3>1, <3>2
  <2> QED BY <1>12, <2>1, <2>2 DEF publishDeletePlan
<1>13. CASE CancelFull
  <2>1. Own(del'.data) /\ RequestShape'
    BY <1>13, <1>0a DEF CancelFull, RequestShape
  <2> QED BY <1>13, <2>1 DEF CancelFull
<1>14. CASE restoreLiveState
  <2>1. del'.data = Snapshot(live) /\ del'.req = del.req
    BY <1>14, <1>0 DEF restoreLiveState, DelType
  <2> QED BY <1>14, <1>0, <2>1 DEF restoreLiveState, RequestShape
<1>15. CASE RestoreSave
  <2>1. Own(disk') BY <1>15, JudgedSave DEF RestoreSave
  <2>2. Own(del'.data) /\ RequestShape'
    BY <1>15, <1>0a DEF RestoreSave, RequestShape
  <2> QED BY <1>15, <2>1, <2>2 DEF RestoreSave
<1>16. CASE Restart
  <2>1. JudgedBy(live', judging') BY <1>16, <1>0, JudgedStartup DEF Restart
  <2>2. \A w \in Writer : writer'[w].data = EmptyData
    BY <1>16 DEF Restart, NoWrite
  <2>3. Own(del'.data) /\ RequestShape'
    BY <1>16, <1>0a DEF Restart, RequestShape
  <2> QED BY <1>16, <1>0, <2>1, <2>2, <2>3 DEF Restart
<1>17. CASE UNCHANGED vars
  BY <1>17 DEF vars, RequestShape
<1>18. CASE SetRequireIPChangePolicy
  <2>1. JudgedBy(live', judging')
    BY <1>18, <1>0, JudgedUpdates DEF SetRequireIPChangePolicy
  <2> QED BY <1>18, <2>1 DEF SetRequireIPChangePolicy, RequestShape
<1> QED
  BY <1>1, <1>2, <1>3, <1>4, <1>5, <1>6, <1>7, <1>8, <1>9, <1>10, <1>11, <1>12,
     <1>13, <1>14, <1>15, <1>16, <1>17, <1>18 DEF Next

(* Whatever was on disk when the process died, and whichever criterion is  *)
(* in force now, a routable node was judged under it, unless a pass under  *)
(* it ended without that node or the process started from a snapshot taken *)
(* between SetRequireIPChangePolicy and InvalidateHealth                   *)
(* (loadWithHealthState, commitFullHealthRecheckContext).                  *)
THEOREM RoutableIsJudged == Spec => []RoutableAfterRestart
<1>1. Init => JudgedInv
  BY JudgedInit
<1>2. TypeOK /\ CacheInv /\ JudgedInv /\ [Next]_vars => JudgedInv'
  BY JudgedStep DEF CacheInv
<1>3. JudgedInv => RoutableAfterRestart
  BY DEF JudgedInv, AllJudged, JudgedBy, RoutableAfterRestart
<1> QED BY <1>1, <1>2, <1>3, PoolCacheInvariant, PTL DEF Spec
=============================================================================
