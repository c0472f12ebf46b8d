-------------------------- MODULE ProxyPoolProofs --------------------------
(***************************************************************************)
(* Proofs about ProxyPool for every set of nodes, sources and observers    *)
(* and every bound on criterion changes.                                   *)
(***************************************************************************)
EXTENDS ProxyPool, TLAPS

(* The part of TypeOK about the pool's own tables.                         *)
HealthType ==
    /\ pool \subseteq Node
    /\ px \in [Node -> Proxy]
    /\ stats \in [Node -> NodeStats]
    /\ tracked \subseteq Node
    /\ \A n \in Node \ tracked : stats[n] = NoStats
    /\ evid \in [Node -> 0 .. gen]

(* The safety conditions on those tables.                                  *)
HealthInv ==
    /\ EvidenceIsCurrent
    /\ RoutingBitsAgree
    /\ DisabledSourceRetires
    /\ NoOrphanVerdict

(* The inductive invariant.                                                *)
PoolInv ==
    /\ TypeOK
    /\ HealthInv
    /\ GuardCoversChecked
    /\ RecheckCoverage

(* What every critical section except the criterion change guarantees:     *)
(* nothing becomes owed, and outside speed tests and candidate checks no   *)
(* endpoint joins the non-retired part of the pool.                        *)
NothingNewOwed == \A n \in Node : Owed(n)' => Owed(n)
NothingJoins ==
    \A n \in pool' \ SpeedNode : px'[n].retired \/ (n \in pool /\ ~px[n].retired)

-----------------------------------------------------------------------------
(* What a check writes into an entry.                                      *)
LEMMA ReachableFields ==
    ASSUME NEW p \in Proxy, NEW allowed \in BOOLEAN, NEW terminal \in BOOLEAN
    PROVE  /\ Reachable(p, allowed, terminal) \in Proxy
           /\ Reachable(p, allowed, terminal).available =
                 (allowed /\ ~p.retired /\ ~terminal)
           /\ Reachable(p, allowed, terminal).invalidated = terminal
           /\ Reachable(p, allowed, terminal).excluded = ~allowed
           /\ Reachable(p, allowed, terminal).retired = p.retired
           /\ Reachable(p, allowed, terminal).srcs = p.srcs
BY DEF Proxy, Reachable

(* What a failed or policy-filtered check writes into an entry.            *)
LEMMA NotUsableFields ==
    ASSUME NEW p \in Proxy
    PROVE  /\ Unreachable(p) \in Proxy
           /\ Unreachable(p).available = FALSE
           /\ Unreachable(p).invalidated = TRUE
           /\ Unreachable(p).retired = p.retired
           /\ Unreachable(p).srcs = p.srcs
           /\ PolicyFiltered(p) \in Proxy
           /\ PolicyFiltered(p).available = FALSE
           /\ PolicyFiltered(p).invalidated = FALSE
           /\ PolicyFiltered(p).excluded = TRUE
           /\ PolicyFiltered(p).retired = p.retired
           /\ PolicyFiltered(p).srcs = p.srcs
BY DEF Proxy, Unreachable, PolicyFiltered

(* observeHealthOutcome, whoever calls it, keeps the tables sound: the     *)
(* generation test is what makes the evidence current.                     *)
LEMMA ObserveKeepsHealth ==
    ASSUME TypeOK, HealthInv, UNCHANGED <<gen, enabled, lagging>>,
           NEW n \in Node, NEW out \in Outcome, NEW g \in 0 .. gen,
           NEW manual \in BOOLEAN, observeHealthOutcome(n, out, g, manual)
    PROVE  HealthType' /\ HealthInv' /\ NothingNewOwed /\ NothingJoins
<1>1. CASE ~ObservationApplies(n, out, g, manual)
  <2>1. UNCHANGED <<pool, px, stats, tracked, evid>>
    BY <1>1 DEF observeHealthOutcome, health
  <2>2. QED
    BY <2>1 DEF TypeOK, HealthType, HealthInv, EvidenceIsCurrent,
       RoutingBitsAgree, DisabledSourceRetires, NoOrphanVerdict, Owed,
       NothingNewOwed, NothingJoins, proxyHardRoutable
<1>2. CASE ObservationApplies(n, out, g, manual)
  <2> DEFINE terminal == \/ out = "down"
                         \/ stats[n].terminal /\ out # "alive"
             p == IF out = "down" THEN Unreachable(px[n])
                  ELSE Reachable(px[n], out = "alive", terminal)
  <2>1. /\ n \in pool /\ gen = g
        /\ pool' = pool
        /\ px' = [px EXCEPT ![n] = p]
        /\ stats' = [stats EXCEPT ![n].terminal = terminal]
        /\ tracked' = tracked \cup {n}
        /\ evid' = [evid EXCEPT ![n] = IF out = "alive" THEN g ELSE @]
    BY <1>2 DEF observeHealthOutcome, ObservationApplies
  <2>2. terminal \in BOOLEAN
    BY DEF TypeOK, NodeStats
  <2>a. px[n] \in Proxy /\ (out = "alive") \in BOOLEAN
    BY DEF TypeOK
  <2>3. /\ p \in Proxy
        /\ p.srcs = px[n].srcs /\ p.retired = px[n].retired
        /\ p.available => proxyHardRoutable(p)
        /\ terminal => ~proxyHardRoutable(p)
        /\ proxyHardRoutable(p) => out = "alive"
        /\ p.invalidated => terminal
    BY <2>2, <2>a, ReachableFields, NotUsableFields DEF proxyHardRoutable
  <2> HIDE DEF p, terminal
  <2>4. HealthType'
    BY <2>1, <2>2, <2>3 DEF HealthType, TypeOK, NodeStats
  <2>5. HealthInv'
    BY <2>1, <2>2, <2>3 DEF HealthInv, TypeOK, EvidenceIsCurrent, NodeStats,
       RoutingBitsAgree, DisabledSourceRetires, NoOrphanVerdict, proxyHardRoutable
  <2>6. NothingNewOwed /\ NothingJoins
    BY <2>1, <2>2, <2>3 DEF NothingNewOwed, NothingJoins, Owed, TypeOK, NodeStats
  <2>7. QED
    BY <2>4, <2>5, <2>6
<1>3. QED
  BY <1>1, <1>2

(* Deletion drops the statistics with the entry.                           *)
LEMMA DropKeepsHealth ==
    ASSUME TypeOK, HealthInv, UNCHANGED <<gen, enabled, lagging>>,
           NEW S \in SUBSET Node, Drop(S)
    PROVE  HealthType' /\ HealthInv' /\ NothingNewOwed /\ NothingJoins
<1>1. NoProxy \in Proxy /\ NoStats \in NodeStats
  BY DEF NoProxy, Proxy, NoStats, NodeStats, fullRecheckFailureRemovalThreshold
<1>2. HealthType'
  BY <1>1 DEF TypeOK, HealthType, Drop, HealthInv, NoOrphanVerdict
<1>3. HealthInv'
  BY DEF TypeOK, HealthInv, Drop, EvidenceIsCurrent, RoutingBitsAgree,
     DisabledSourceRetires, NoOrphanVerdict, proxyHardRoutable
<1>4. NothingNewOwed /\ NothingJoins
  BY DEF TypeOK, Drop, NothingNewOwed, NothingJoins, Owed
<1>5. QED
  BY <1>2, <1>3, <1>4

(* Recording a use touches the counters only, so an entry it creates for a *)
(* deleted key carries no verdict.                                         *)
LEMMA RecordKeepsHealth ==
    ASSUME TypeOK, HealthInv, UNCHANGED <<gen, enabled, lagging>>,
           NEW S \in SUBSET Node, RecordResult(S)
    PROVE  HealthType' /\ HealthInv' /\ NothingNewOwed /\ NothingJoins
<1>1. HealthType' /\ NothingNewOwed /\ NothingJoins
  BY DEF RecordResult, TypeOK, HealthType, NothingNewOwed, NothingJoins, Owed
<1>2. HealthInv'
  BY DEF RecordResult, TypeOK, HealthInv, EvidenceIsCurrent, RoutingBitsAgree,
     DisabledSourceRetires, NoOrphanVerdict, proxyHardRoutable
<1>3. QED
  BY <1>1, <1>2

(* The exhaustive commit keeps the tables sound and leaves none of its     *)
(* targets owed: each is reachable, terminal, retired or gone.             *)
LEMMA FullCommitKeepsHealth ==
    ASSUME TypeOK, HealthInv, UNCHANGED <<gen, enabled, lagging>>,
           NEW T \in SUBSET Node, NEW out \in [T -> Outcome],
           commitFullHealthRecheck(T, out, gen)
    PROVE  /\ HealthType' /\ HealthInv' /\ NothingNewOwed /\ NothingJoins
           /\ \A n \in T : ~Owed(n)'
<1> DEFINE removed == FullRemoved(T, out)
           observed == (T \cap pool) \ removed
           p(n) == CASE n \in removed -> NoProxy
                     [] n \in observed -> IF out[n] = "down" THEN Unreachable(px[n])
                            ELSE Reachable(px[n], out[n] = "alive", FALSE)
                     [] OTHER -> px[n]
           st(n) == CASE n \in removed -> NoStats
                      [] n \in observed -> IF out[n] = "down"
                            THEN [terminal |-> TRUE,
                                  fullFails |-> stats[n].fullFails + 1]
                            ELSE NoStats
                      [] OTHER -> stats[n]
<1>1. /\ pool' = pool \ removed
      /\ px' = [n \in Node |-> p(n)]
      /\ stats' = [n \in Node |-> st(n)]
      /\ tracked' = (tracked \cup observed) \ removed
      /\ evid' = [n \in Node |-> CASE n \in removed -> 0
                                   [] n \in observed /\ out[n] = "alive" -> gen
                                   [] OTHER -> evid[n]]
  BY DEF commitFullHealthRecheck
<1>2. /\ removed \subseteq pool /\ observed \subseteq pool
      /\ removed \cap observed = {}
      /\ T \cap pool = removed \cup observed
      /\ \A n \in observed : out[n] = "down" => stats[n].fullFails + 1 < 3
  <2>1. /\ removed \subseteq pool /\ observed \subseteq pool
        /\ removed \cap observed = {}
        /\ T \cap pool = removed \cup observed
    BY DEF FullRemoved
  <2>2. \A n \in observed : stats[n].fullFails \in Nat
    BY DEF TypeOK, NodeStats
  <2>3. \A n \in observed : out[n] = "down" => stats[n].fullFails + 1 < 3
    BY <2>2 DEF FullRemoved, fullRecheckFailureRemovalThreshold
  <2>4. QED
    BY <2>1, <2>3
<1>3. ASSUME NEW n \in Node
      PROVE  /\ p(n) \in Proxy /\ st(n) \in NodeStats
             /\ n \in removed => p(n) = NoProxy /\ st(n) = NoStats
             /\ n \notin removed /\ n \notin observed =>
                   p(n) = px[n] /\ st(n) = stats[n]
             /\ n \in observed =>
                   /\ p(n).srcs = px[n].srcs /\ p(n).retired = px[n].retired
                   /\ p(n).available => proxyHardRoutable(p(n))
                   /\ st(n).terminal => ~proxyHardRoutable(p(n))
                   /\ proxyHardRoutable(p(n)) => out[n] = "alive"
                   /\ p(n).invalidated => st(n).terminal
  <2>1. NoProxy \in Proxy /\ NoStats \in NodeStats /\ NoStats.terminal = FALSE
    BY DEF NoProxy, Proxy, NoStats, NodeStats, fullRecheckFailureRemovalThreshold
  <2>2. /\ px[n] \in Proxy /\ stats[n] \in NodeStats
        /\ (out[n] = "alive") \in BOOLEAN /\ FALSE \in BOOLEAN
    BY DEF TypeOK
  <2>3. n \in removed => p(n) = NoProxy /\ st(n) = NoStats
    OBVIOUS
  <2>4. n \notin removed /\ n \notin observed => p(n) = px[n] /\ st(n) = stats[n]
    OBVIOUS
  <2>5. CASE n \in observed /\ out[n] = "down"
    <3>1. /\ p(n) = Unreachable(px[n])
          /\ st(n) = [terminal |-> TRUE, fullFails |-> stats[n].fullFails + 1]
      BY <1>2, <2>5
    <3>2. st(n) \in NodeStats /\ st(n).terminal
      BY <3>1, <1>2, <2>2, <2>5 DEF NodeStats, fullRecheckFailureRemovalThreshold
    <3>3. QED
      BY <3>1, <3>2, <1>2, <2>2, <2>5, NotUsableFields DEF proxyHardRoutable
  <2>6. CASE n \in observed /\ out[n] # "down"
    <3>1. /\ p(n) = Reachable(px[n], out[n] = "alive", FALSE)
          /\ st(n) = NoStats
      BY <1>2, <2>6
    <3>2. QED
      BY <3>1, <1>2, <2>1, <2>2, <2>6, ReachableFields DEF proxyHardRoutable
  <2>7. QED
    BY <1>2, <2>1, <2>2, <2>3, <2>4, <2>5, <2>6
<1> HIDE DEF p, st, removed, observed
<1>4. HealthType'
  BY <1>1, <1>2, <1>3 DEF HealthType, TypeOK
<1>5. EvidenceIsCurrent'
  BY <1>1, <1>2, <1>3 DEF HealthInv, TypeOK, EvidenceIsCurrent
<1>6. RoutingBitsAgree'
  BY <1>1, <1>2, <1>3 DEF HealthInv, TypeOK, RoutingBitsAgree
<1>7. DisabledSourceRetires' /\ NoOrphanVerdict'
  BY <1>1, <1>2, <1>3 DEF HealthInv, TypeOK, DisabledSourceRetires, NoOrphanVerdict
<1>8. NothingNewOwed /\ NothingJoins /\ \A n \in T : ~Owed(n)'
  BY <1>1, <1>2, <1>3 DEF NothingNewOwed, NothingJoins, Owed, TypeOK
<1>9. QED
  BY <1>4, <1>5, <1>6, <1>7, <1>8 DEF HealthInv

(* Retirement writes only two bits, and leaves an entry non-retired only   *)
(* when all its sources are in S.                                          *)
LEMMA RetiredFields ==
    ASSUME NEW p \in Proxy, NEW S \in SUBSET Source
    PROVE  /\ ApplySources(p, S) \in Proxy
           /\ ApplySources(p, S).srcs = p.srcs
           /\ ApplySources(p, S).invalidated = p.invalidated
           /\ ApplySources(p, S).excluded = p.excluded
           /\ ~ApplySources(p, S).retired => p.srcs \subseteq S /\ ~p.retired
           /\ ApplySources(p, S).available =>
                 p.available /\ ApplySources(p, S).retired = p.retired
BY DEF Proxy, ApplySources

(* A newly admitted entry is routable and not retired.                     *)
LEMMA FreshFields ==
    ASSUME NEW S \in SUBSET Source
    PROVE  /\ Fresh(S) \in Proxy /\ proxyHardRoutable(Fresh(S))
           /\ Fresh(S).srcs = S /\ ~Fresh(S).invalidated /\ ~Fresh(S).retired
BY DEF Fresh, Proxy, proxyHardRoutable

(* A refresh or batch publication keeps the tables sound.                  *)
LEMMA UpdateKeepsHealth ==
    ASSUME TypeOK, HealthInv, UNCHANGED <<gen, enabled>>,
           NEW T \in SUBSET Node, NEW out \in [T -> Outcome],
           NEW prov \in [Node -> SUBSET Source],
           update(T, out, prov, gen)
    PROVE  HealthType' /\ HealthInv' /\ NothingNewOwed
<1> DEFINE fresh == {n \in T : out[n] = "alive" /\ ~stats[n].terminal}
           removed == {n \in T \cap pool : out[n] = "down"}
           filtered == {n \in T \cap pool : out[n] = "policy"}
           m(n) == CASE n \in fresh -> Fresh(prov[n])
                     [] n \in filtered -> PolicyFiltered(px[n])
                     [] OTHER -> px[n]
           p(n) == ApplySources(m(n), enabled)
<1>1. /\ pool' = (pool \cup fresh) \ removed
      /\ px' = [n \in Node |-> IF n \in pool' THEN p(n) ELSE NoProxy]
      /\ stats' = [n \in Node |-> IF n \in removed THEN NoStats ELSE stats[n]]
      /\ tracked' = (tracked \cup fresh) \ removed
      /\ evid' = [n \in Node |-> CASE n \in fresh -> gen
                                   [] n \in removed -> 0
                                   [] OTHER -> evid[n]]
  BY DEF update
<1>2. /\ fresh \subseteq Node /\ removed \subseteq pool /\ filtered \subseteq pool
      /\ fresh \cap removed = {} /\ fresh \cap filtered = {}
      /\ \A n \in fresh : ~stats[n].terminal
  BY DEF TypeOK
<1>3. ASSUME NEW n \in Node
      PROVE  /\ m(n) \in Proxy
             /\ n \in fresh => m(n) = Fresh(prov[n])
             /\ n \notin fresh /\ n \in filtered => m(n) = PolicyFiltered(px[n])
             /\ n \notin fresh /\ n \notin filtered => m(n) = px[n]
  BY <1>2, FreshFields, NotUsableFields DEF TypeOK
<1> HIDE DEF m, fresh, removed, filtered
<1>4. ASSUME NEW n \in Node
      PROVE  /\ p(n) \in Proxy
             /\ ~p(n).retired => p(n).srcs \subseteq enabled
             /\ p(n).available => m(n).available /\ p(n).retired = m(n).retired
             /\ p(n).invalidated = m(n).invalidated
             /\ p(n).excluded = m(n).excluded
             /\ ~p(n).retired => ~m(n).retired
  <2>1. m(n) \in Proxy /\ enabled \in SUBSET Source
    BY <1>3 DEF TypeOK
  <2>2. QED
    BY <2>1, RetiredFields
<1> HIDE DEF p
<1>5. NoProxy \in Proxy /\ NoStats \in NodeStats
  BY DEF NoProxy, Proxy, NoStats, NodeStats, fullRecheckFailureRemovalThreshold
<1>6. HealthType'
  BY <1>1, <1>2, <1>4, <1>5 DEF HealthType, TypeOK
<1>7. ASSUME NEW n \in pool'
      PROVE  /\ n \in Node
             /\ px'[n] = p(n) /\ stats'[n] = stats[n]
             /\ n \in fresh => evid'[n] = gen
             /\ n \notin fresh => n \in pool /\ evid'[n] = evid[n]
  BY <1>1, <1>2 DEF TypeOK
<1>8. ASSUME NEW n \in pool', n \in fresh
      PROVE  /\ evid'[n] = gen /\ ~stats'[n].terminal
             /\ p(n).available => proxyHardRoutable(p(n))
             /\ ~p(n).invalidated
  <2>1. prov[n] \in SUBSET Source
    BY <1>7
  <2>2. QED
    BY <1>2, <1>3, <1>4, <1>7, <1>8, <2>1, FreshFields DEF proxyHardRoutable
<1>9. ASSUME NEW n \in pool', n \notin fresh, n \in filtered
      PROVE  /\ ~proxyHardRoutable(p(n)) /\ ~p(n).available
             /\ ~p(n).invalidated
  <2>1. px[n] \in Proxy /\ n \in Node
    BY <1>7 DEF TypeOK
  <2>2. QED
    BY <1>3, <1>4, <1>9, <2>1, NotUsableFields DEF proxyHardRoutable
<1>10. ASSUME NEW n \in pool', n \notin fresh, n \notin filtered
       PROVE  /\ n \in pool /\ evid'[n] = evid[n] /\ stats'[n] = stats[n]
              /\ proxyHardRoutable(p(n)) => proxyHardRoutable(px[n])
              /\ p(n).available => px[n].available /\ p(n).retired = px[n].retired
              /\ p(n).invalidated = px[n].invalidated
              /\ p(n).excluded = px[n].excluded
              /\ ~p(n).retired => ~px[n].retired
  BY <1>3, <1>4, <1>7, <1>10 DEF proxyHardRoutable
<1>11. EvidenceIsCurrent'
  <2>1. SUFFICES ASSUME NEW n \in pool', proxyHardRoutable(px'[n])
                 PROVE  evid'[n] = gen
    BY DEF EvidenceIsCurrent, proxyHardRoutable
  <2>2. QED
    BY <2>1, <1>7, <1>8, <1>9, <1>10 DEF HealthInv, EvidenceIsCurrent
<1>12. RoutingBitsAgree'
  <2>1. SUFFICES ASSUME NEW n \in pool'
                 PROVE  /\ px'[n].available => proxyHardRoutable(px'[n])
                        /\ stats'[n].terminal => ~proxyHardRoutable(px'[n])
    BY DEF RoutingBitsAgree, proxyHardRoutable
  <2>2. CASE n \in fresh
    BY <2>2, <1>7, <1>8
  <2>3. CASE n \notin fresh /\ n \in filtered
    BY <2>3, <1>7, <1>9
  <2>4. CASE n \notin fresh /\ n \notin filtered
    BY <2>4, <1>7, <1>10 DEF HealthInv, RoutingBitsAgree, proxyHardRoutable
  <2>5. QED
    BY <2>2, <2>3, <2>4
<1>13. DisabledSourceRetires'
  BY <1>4, <1>7 DEF DisabledSourceRetires
<1>14. NoOrphanVerdict'
  BY <1>1, <1>2 DEF NoOrphanVerdict, HealthInv, TypeOK
<1>15. NothingNewOwed
  <2>1. SUFFICES ASSUME NEW n \in pool', px'[n].invalidated, ~px'[n].retired,
                        ~stats'[n].terminal
                 PROVE  Owed(n)
    BY DEF NothingNewOwed, Owed
  <2>2. QED
    BY <2>1, <1>7, <1>8, <1>9, <1>10 DEF Owed
<1>16. QED
  BY <1>6, <1>11, <1>12, <1>13, <1>14, <1>15 DEF HealthInv

(* A promotion is a fresh success under the current generation, owned by   *)
(* enabled sources.                                                        *)
LEMMA PromoteKeepsHealth ==
    ASSUME TypeOK, HealthInv, SpeedPromote
    PROVE  HealthType' /\ HealthInv' /\ NothingNewOwed /\ NothingJoins
<1>1. /\ speed.nodes \subseteq SpeedNode /\ speed.nodes \subseteq Node
      /\ speed.prov \in SUBSET Source /\ speed.prov \subseteq enabled
      /\ speed.gen = gen /\ gen \in Nat
      /\ gen' = gen /\ enabled' = enabled /\ lagging' = lagging
  BY SpeedNodeAssumption, MaxGenAssumption
     DEF TypeOK, SpeedPromote, PromotionValid, criterion, sources
<1>2. /\ Fresh(speed.prov) \in Proxy /\ proxyHardRoutable(Fresh(speed.prov))
      /\ Fresh(speed.prov).srcs = speed.prov
      /\ ~Fresh(speed.prov).invalidated /\ ~Fresh(speed.prov).retired
  BY <1>1, FreshFields
<1>3. ASSUME NEW n \in Node
      PROVE  /\ [stats[n] EXCEPT !.terminal = FALSE] \in NodeStats
             /\ ~[stats[n] EXCEPT !.terminal = FALSE].terminal
  <2>1. stats[n] \in NodeStats
    BY DEF TypeOK
  <2>2. QED
    BY <2>1 DEF NodeStats, fullRecheckFailureRemovalThreshold
<1>4. /\ pool' = pool \cup speed.nodes /\ tracked' = tracked \cup speed.nodes
      /\ \A n \in Node : /\ n \in speed.nodes =>
                              /\ px'[n] = Fresh(speed.prov)
                              /\ ~stats'[n].terminal
                              /\ evid'[n] = gen
                         /\ n \notin speed.nodes =>
                              /\ px'[n] = px[n]
                              /\ stats'[n] = stats[n]
                              /\ evid'[n] = evid[n]
  BY <1>1, <1>3 DEF SpeedPromote
<1>5. HealthType'
  BY <1>1, <1>2, <1>3 DEF SpeedPromote, HealthType, TypeOK
<1>6. HealthInv'
  BY <1>1, <1>2, <1>4 DEF HealthInv, TypeOK, EvidenceIsCurrent, RoutingBitsAgree,
     DisabledSourceRetires, NoOrphanVerdict, proxyHardRoutable
<1>7. NothingNewOwed /\ NothingJoins
  BY <1>1, <1>2, <1>4 DEF NothingNewOwed, NothingJoins, Owed, TypeOK
<1>8. QED
  BY <1>5, <1>6, <1>7

(* A criterion change makes every member unroutable at once.               *)
LEMMA InvalidateKeepsHealth ==
    ASSUME TypeOK, HealthInv, InvalidateHealth
    PROVE  /\ HealthType' /\ HealthInv'
           /\ \A n \in pool' : px'[n].retired = px[n].retired
<1>1. /\ gen \in Nat /\ gen' = gen + 1 /\ enabled' = enabled /\ pool' = pool
      /\ evid' = evid /\ tracked' = tracked /\ lagging' = lagging
  <2>1. gen \in Nat
    BY MaxGenAssumption DEF TypeOK
  <2>2. QED
    BY <2>1 DEF InvalidateHealth, workers, sources
<1>2. ASSUME NEW n \in Node
      PROVE  /\ [px[n] EXCEPT !.invalidated = TRUE, !.available = FALSE] \in Proxy
             /\ [stats[n] EXCEPT !.fullFails = 0] \in NodeStats
             /\ LET q == [px[n] EXCEPT !.invalidated = TRUE, !.available = FALSE]
                IN  /\ q.invalidated /\ ~q.available
                    /\ q.retired = px[n].retired /\ q.srcs = px[n].srcs
  <2>1. px[n] \in Proxy /\ stats[n] \in NodeStats
    BY DEF TypeOK
  <2>2. [stats[n] EXCEPT !.fullFails = 0] \in NodeStats
    BY <2>1 DEF NodeStats, fullRecheckFailureRemovalThreshold
  <2>3. QED
    BY <2>1, <2>2 DEF Proxy
<1>3. HealthType'
  <2>1. evid' \in [Node -> 0 .. gen']
    BY <1>1 DEF TypeOK
  <2>2. stats' = [n \in Node |-> [stats[n] EXCEPT !.fullFails = 0]]
    BY DEF InvalidateHealth
  <2>6. [NoStats EXCEPT !.fullFails = 0] = NoStats
    BY DEF NoStats
  <2>3. /\ \A n \in Node \ tracked : stats'[n] = NoStats
        /\ stats' \in [Node -> NodeStats]
    BY <1>2, <2>2, <2>6 DEF TypeOK
  <2>4. px' \in [Node -> Proxy]
    BY <1>2 DEF TypeOK, InvalidateHealth
  <2>5. QED
    BY <1>1, <2>1, <2>3, <2>4 DEF HealthType, TypeOK
<1>4. \A n \in pool : /\ px'[n].invalidated /\ ~px'[n].available
                      /\ px'[n].retired = px[n].retired
                      /\ px'[n].srcs = px[n].srcs
  <2>1. \A n \in pool : n \in Node /\ px'[n] =
           [px[n] EXCEPT !.invalidated = TRUE, !.available = FALSE]
    BY DEF TypeOK, InvalidateHealth
  <2>2. QED
    BY <2>1, <1>2
<1>5. \A n \in Node \ pool : px'[n] = px[n] /\ stats'[n] = [stats[n] EXCEPT !.fullFails = 0]
  BY DEF TypeOK, InvalidateHealth
<1>6. [NoStats EXCEPT !.fullFails = 0] = NoStats
  BY DEF NoStats
<1>7. NoOrphanVerdict'
  BY <1>1, <1>5, <1>6 DEF NoOrphanVerdict, HealthInv, TypeOK
<1>8. EvidenceIsCurrent' /\ RoutingBitsAgree' /\ DisabledSourceRetires'
  BY <1>1, <1>4 DEF HealthInv, EvidenceIsCurrent, RoutingBitsAgree,
     DisabledSourceRetires, proxyHardRoutable
<1>9. QED
  BY <1>1, <1>3, <1>4, <1>7, <1>8 DEF HealthInv

(* A change of the sources leaves the tables alone; what it disables lags. *)
LEMMA ToggleKeepsHealth ==
    ASSUME TypeOK, HealthInv, NEW s \in Source, ToggleSource(s)
    PROVE  /\ HealthType' /\ HealthInv' /\ NothingNewOwed /\ NothingJoins
           /\ enabled' \subseteq Source /\ lagging' \subseteq Source
           /\ editing' \in BOOLEAN
<1>1. /\ UNCHANGED <<pool, px, stats, tracked, evid, gen>>
      /\ enabled' \subseteq Source /\ lagging' \subseteq Source
      /\ editing' \in BOOLEAN
      /\ enabled \cup lagging \subseteq enabled' \cup lagging'
  BY DEF TypeOK, ToggleSource, health, criterion
<1>2. HealthType' /\ NothingNewOwed /\ NothingJoins
  BY <1>1 DEF TypeOK, HealthType, NothingNewOwed, NothingJoins, Owed
<1>3. EvidenceIsCurrent' /\ RoutingBitsAgree' /\ NoOrphanVerdict'
  BY <1>1 DEF HealthInv, EvidenceIsCurrent, RoutingBitsAgree, NoOrphanVerdict,
     proxyHardRoutable
<1>4. DisabledSourceRetires'
  BY <1>1 DEF HealthInv, DisabledSourceRetires
<1>5. QED
  BY <1>1, <1>2, <1>3, <1>4 DEF HealthInv

(* Applying the sources retires every member with a disabled one.          *)
LEMMA ApplyKeepsHealth ==
    ASSUME TypeOK, HealthInv, ApplyEnabledSources
    PROVE  HealthType' /\ HealthInv' /\ NothingNewOwed /\ NothingJoins
<1>1. /\ enabled \in SUBSET Source /\ enabled' = enabled /\ gen' = gen
      /\ pool' = pool /\ stats' = stats /\ tracked' = tracked /\ evid' = evid
  BY DEF TypeOK, ApplyEnabledSources, criterion
<1>2. ASSUME NEW n \in Node
      PROVE  /\ ApplySources(px[n], enabled) \in Proxy
             /\ ApplySources(px[n], enabled).srcs = px[n].srcs
             /\ ApplySources(px[n], enabled).invalidated = px[n].invalidated
             /\ ApplySources(px[n], enabled).excluded = px[n].excluded
             /\ ~ApplySources(px[n], enabled).retired =>
                   px[n].srcs \subseteq enabled /\ ~px[n].retired
             /\ ApplySources(px[n], enabled).available => px[n].available /\
                   ApplySources(px[n], enabled).retired = px[n].retired
  <2>1. px[n] \in Proxy
    BY DEF TypeOK
  <2>2. QED
    BY <1>1, <2>1, RetiredFields
<1>3. /\ \A n \in pool : px'[n] = ApplySources(px[n], enabled)
      /\ \A n \in Node \ pool : px'[n] = px[n]
  BY DEF ApplyEnabledSources, TypeOK
<1>4. HealthType'
  BY <1>1, <1>2 DEF HealthType, TypeOK, ApplyEnabledSources
<1>5. HealthInv'
  <2>1. \A n \in pool : n \in Node
    BY DEF TypeOK
  <2>2. EvidenceIsCurrent'
    BY <1>1, <1>2, <1>3, <2>1 DEF HealthInv, EvidenceIsCurrent, proxyHardRoutable
  <2>3. RoutingBitsAgree'
    <3>1. SUFFICES ASSUME NEW n \in pool
                   PROVE  /\ px'[n].available => proxyHardRoutable(px'[n])
                          /\ stats'[n].terminal => ~proxyHardRoutable(px'[n])
      BY <1>1 DEF RoutingBitsAgree, proxyHardRoutable
    <3>2. QED
      BY <1>1, <1>2, <1>3, <2>1 DEF HealthInv, RoutingBitsAgree, proxyHardRoutable
  <2>4. DisabledSourceRetires' /\ NoOrphanVerdict'
    BY <1>1, <1>2, <1>3, <2>1 DEF HealthInv, DisabledSourceRetires, NoOrphanVerdict
  <2>5. QED
    BY <2>2, <2>3, <2>4 DEF HealthInv
<1>6. NothingNewOwed /\ NothingJoins
  BY <1>1, <1>2, <1>3 DEF TypeOK, NothingNewOwed, NothingJoins, Owed
<1>7. QED
  BY <1>1, <1>4, <1>5, <1>6

-----------------------------------------------------------------------------
(* Types of what the workers capture.                                      *)
WorkerType ==
    /\ cycle \in [kind : CycleKind, gen : 0 .. gen, targets : SUBSET Node,
                  prov : [Node -> SUBSET Source], srcs : SUBSET Source]
    /\ planned \subseteq Node
    /\ refresh \in [kind : {"idle", "refresh", "source"}, targets : SUBSET Node,
                    prov : [Node -> SUBSET Source], srcs : SUBSET Source]
    /\ speed \in [on : BOOLEAN, nodes : SUBSET SpeedNode, prov : SUBSET Source,
                  gen : 0 .. gen]
    /\ obs \in [Observer -> [kind : {"idle", "picked", "dialing", "failed", "verify"},
                             nodes : SUBSET Node, gen : 0 .. gen]]
    /\ clearing \in BOOLEAN

SourceType ==
    enabled \subseteq Source /\ lagging \subseteq Source /\ editing \in BOOLEAN

(* The type invariant splits into the tables and the workers.              *)
LEMMA TypeParts ==
    TypeOK <=> /\ HealthType /\ WorkerType
               /\ gen \in 0 .. MaxGen /\ pending \in BOOLEAN
               /\ SourceType
BY DEF TypeOK, HealthType, WorkerType, SourceType

(* The idle records have the types of the workers they stand for.          *)
LEMMA IdleTypes ==
    ASSUME gen \in Nat
    PROVE  /\ Idle \in [kind : CycleKind, gen : 0 .. gen, targets : SUBSET Node,
                        prov : [Node -> SUBSET Source], srcs : SUBSET Source]
           /\ NoRefresh \in [kind : {"idle", "refresh", "source"},
                             targets : SUBSET Node,
                             prov : [Node -> SUBSET Source], srcs : SUBSET Source]
           /\ NoSpeed \in [on : BOOLEAN, nodes : SUBSET SpeedNode,
                           prov : SUBSET Source, gen : 0 .. gen]
           /\ NoObs \in [kind : {"idle", "picked", "dialing", "failed", "verify"},
                         nodes : SUBSET Node, gen : 0 .. gen]
           /\ Idle.kind = "idle"
BY DEF Idle, NoRefresh, NoSpeed, NoObs, NoProv, CycleKind

(* The inductive invariant holds in every initial state.                   *)
THEOREM PoolInit == Init => PoolInv
<1> SUFFICES ASSUME Init PROVE PoolInv
  OBVIOUS
<1>1. gen \in Nat /\ gen \in 0 .. MaxGen
  BY MaxGenAssumption DEF Init
<1>2. HealthType
  <2>1. NoProxy \in Proxy /\ NoStats \in NodeStats
    BY DEF NoProxy, Proxy, NoStats, NodeStats, fullRecheckFailureRemovalThreshold
  <2>2. QED
    BY <1>1, <2>1 DEF Init, HealthType
<1>3. WorkerType
  BY <1>1, IdleTypes DEF Init, WorkerType
<1>4. TypeOK
  BY <1>1, <1>2, <1>3, TypeParts DEF Init, SourceType
<1>5. HealthInv
  BY DEF Init, HealthInv, EvidenceIsCurrent, RoutingBitsAgree,
     DisabledSourceRetires, NoOrphanVerdict
<1>6. GuardCoversChecked /\ RecheckCoverage
  BY DEF Init, GuardCoversChecked, RecheckCoverage, Owed, Idle
<1>7. QED
  BY <1>4, <1>5, <1>6 DEF PoolInv

-----------------------------------------------------------------------------
(* How a step's parts make up the invariant.                               *)

(* A step that leaves the tables alone keeps what is said about them.      *)
LEMMA UnchangedKeepsHealth ==
    ASSUME PoolInv, UNCHANGED <<health, gen, enabled, lagging>>
    PROVE  HealthType' /\ HealthInv' /\ NothingNewOwed /\ NothingJoins
BY DEF PoolInv, health, TypeOK, HealthType, HealthInv, EvidenceIsCurrent,
   RoutingBitsAgree, DisabledSourceRetires, NoOrphanVerdict, Owed,
   NothingNewOwed, NothingJoins, proxyHardRoutable

(* The coverage of a running exhaustive pass survives every step that      *)
(* owes nothing new and lets nothing join.                                 *)
LEMMA CoverageKept ==
    ASSUME PoolInv, NothingNewOwed, NothingJoins, cycle' = cycle, gen' = gen
    PROVE  RecheckCoverage'
BY DEF PoolInv, RecheckCoverage, NothingNewOwed, NothingJoins

(* Outside an exhaustive pass there is no coverage to keep.                *)
LEMMA CoverageElsewhere ==
    ASSUME cycle'.kind \notin {"snapshot", "full", "committed"}
    PROVE  RecheckCoverage'
BY DEF RecheckCoverage

(* Assembling the invariant of the next state.                             *)
LEMMA Assemble ==
    ASSUME PoolInv, HealthType', HealthInv', WorkerType', RecheckCoverage',
           gen' = gen, SourceType',
           NothingNewOwed, pending' \in {pending, TRUE}
    PROVE  PoolInv'
<1>1. gen' \in 0 .. MaxGen /\ pending' \in BOOLEAN
  BY DEF PoolInv, TypeOK
<1>2. TypeOK'
  BY <1>1 DEF TypeOK, HealthType, WorkerType, SourceType
<1>3. GuardCoversChecked'
  BY DEF PoolInv, GuardCoversChecked, NothingNewOwed, TypeOK
<1>4. QED
  BY <1>2, <1>3 DEF PoolInv

(* Every step of the specification preserves the inductive invariant.      *)
THEOREM PoolStep == PoolInv /\ [Next]_vars => PoolInv'
<1> SUFFICES ASSUME PoolInv, [Next]_vars PROVE PoolInv'
  OBVIOUS
<1> USE DEF vars, workers, criterion, sources, SourceType
<1>t. /\ TypeOK /\ HealthInv /\ WorkerType /\ gen \in Nat
      /\ gen \in 0 .. gen /\ gen \in 0 .. MaxGen /\ SourceType
      /\ pool \subseteq Node
  BY MaxGenAssumption DEF PoolInv, TypeOK, WorkerType
<1>i. /\ Idle \in [kind : CycleKind, gen : 0 .. gen, targets : SUBSET Node,
                   prov : [Node -> SUBSET Source], srcs : SUBSET Source]
      /\ NoRefresh \in [kind : {"idle", "refresh", "source"},
                        targets : SUBSET Node,
                        prov : [Node -> SUBSET Source], srcs : SUBSET Source]
      /\ NoSpeed \in [on : BOOLEAN, nodes : SUBSET SpeedNode,
                      prov : SUBSET Source, gen : 0 .. gen]
      /\ NoObs \in [kind : {"idle", "picked", "dialing", "failed", "verify"},
                    nodes : SUBSET Node, gen : 0 .. gen]
      /\ Idle.kind = "idle"
  BY <1>t, IdleTypes
<1>1. CASE FullSnapshot
  <2>1. HealthType' /\ HealthInv' /\ NothingNewOwed
    BY <1>1, UnchangedKeepsHealth DEF FullSnapshot
  <2>2. FullRecheckCandidates \subseteq Node
    BY <1>t DEF FullRecheckCandidates
  <2>3. WorkerType' /\ cycle'.kind = "snapshot" /\ cycle'.targets = FullRecheckCandidates
    BY <1>1, <1>t, <1>i, <2>2 DEF FullSnapshot, WorkerType, CycleKind
  <2>4. RecheckCoverage'
    BY <1>1, <2>3 DEF FullSnapshot, RecheckCoverage, FullRecheckCandidates, health
  <2>5. QED
    BY <1>1, <1>t, <2>1, <2>3, <2>4, Assemble DEF FullSnapshot
<1>2. CASE FullClaim
  <2>1. HealthType' /\ HealthInv' /\ NothingNewOwed /\ NothingJoins
    BY <1>2, UnchangedKeepsHealth DEF FullClaim
  <2>2. /\ WorkerType' /\ cycle'.kind = "full" /\ cycle.kind = "snapshot"
        /\ cycle'.targets = cycle.targets
    BY <1>2, <1>t DEF FullClaim, WorkerType, CycleKind
  <2>3. RecheckCoverage'
    BY <2>1, <2>2 DEF PoolInv, RecheckCoverage, NothingJoins
  <2>4. QED
    BY <1>2, <1>t, <2>1, <2>2, <2>3, Assemble DEF FullClaim
<1>3. CASE FullCommit
  <2>1. PICK out \in [cycle.targets -> Outcome] :
           commitFullHealthRecheck(cycle.targets, out, gen)
    BY <1>3 DEF FullCommit
  <2>2. /\ cycle.targets \in SUBSET Node /\ cycle.kind = "full"
        /\ UNCHANGED <<gen, enabled, lagging>>
    BY <1>3, <1>t DEF FullCommit, WorkerType
  <2>3. /\ HealthType' /\ HealthInv' /\ NothingNewOwed /\ NothingJoins
        /\ \A n \in cycle.targets : ~Owed(n)'
    BY <1>t, <2>1, <2>2, FullCommitKeepsHealth
  <2>4. /\ WorkerType' /\ cycle'.kind = "committed"
    BY <1>3, <1>t, <2>2 DEF FullCommit, WorkerType, CycleKind, Idle, NoProv
  <2>5. RecheckCoverage'
    <3>1. SUFFICES ASSUME NEW n \in Node \ SpeedNode PROVE ~Owed(n)'
      BY <2>4 DEF RecheckCoverage
    <3>2. n \in pool => px[n].retired \/ n \in cycle.targets
      BY <2>2 DEF PoolInv, RecheckCoverage
    <3>3. QED
      BY <2>3, <3>2 DEF NothingNewOwed, Owed
  <2>6. QED
    BY <1>3, <1>t, <2>2, <2>3, <2>4, <2>5, Assemble DEF FullCommit
<1>4. CASE FullComplete
  <2>1. HealthType' /\ HealthInv' /\ NothingNewOwed
    BY <1>4, UnchangedKeepsHealth DEF FullComplete
  <2>2. WorkerType' /\ cycle'.kind \in {"idle", "flushing"}
    BY <1>4, <1>t, <1>i DEF FullComplete, WorkerType, CycleKind
  <2>3. RecheckCoverage'
    BY <2>2, CoverageElsewhere
  <2>4. CASE gen # cycle.gen
    BY <1>4, <1>t, <2>1, <2>2, <2>3, <2>4, Assemble DEF FullComplete
  <2>5. CASE gen = cycle.gen
    <3>1. \A n \in Node \ SpeedNode : ~Owed(n)
      BY <1>4, <2>5 DEF FullComplete, PoolInv, RecheckCoverage
    <3>2. GuardCoversChecked'
      BY <3>1, <2>1 DEF GuardCoversChecked, NothingNewOwed
    <3>3. pending' \in BOOLEAN /\ gen' = gen /\ UNCHANGED <<enabled, lagging, editing>>
      BY <1>4, <2>5 DEF FullComplete
    <3>4. TypeOK'
      BY <1>t, <2>1, <2>2, <3>3 DEF TypeOK, HealthType, WorkerType
    <3>5. QED
      BY <2>1, <2>3, <3>2, <3>4 DEF PoolInv
  <2>6. QED
    BY <2>4, <2>5
<1>5. CASE FullFlush
  <2>1. HealthType' /\ HealthInv' /\ NothingNewOwed
    BY <1>5, UnchangedKeepsHealth DEF FullFlush
  <2>2. WorkerType' /\ cycle'.kind = "idle"
    BY <1>5, <1>t, <1>i DEF FullFlush, WorkerType
  <2>3. QED
    BY <1>5, <1>t, <2>1, <2>2, CoverageElsewhere, Assemble DEF FullFlush
<1>6. CASE BoundedPlan
  <2>1. HealthType' /\ HealthInv' /\ NothingNewOwed /\ NothingJoins
    BY <1>6, UnchangedKeepsHealth DEF BoundedPlan
  <2>2. WorkerType'
    BY <1>6, <1>t DEF BoundedPlan, WorkerType, RecheckCandidates
  <2>3. QED
    BY <1>6, <1>t, <2>1, <2>2, CoverageKept, Assemble DEF BoundedPlan
<1>7. CASE BoundedStart
  <2>1. HealthType' /\ HealthInv' /\ NothingNewOwed
    BY <1>7, UnchangedKeepsHealth DEF BoundedStart
  <2>2. WorkerType' /\ cycle'.kind = "bounded"
    BY <1>7, <1>t, <1>i DEF BoundedStart, WorkerType, CycleKind
  <2>3. QED
    BY <1>7, <1>t, <2>1, <2>2, CoverageElsewhere, Assemble DEF BoundedStart
<1>8. CASE BoundedObserve
  <2>1. PICK n \in cycle.targets, out \in Outcome :
           /\ observeHealthOutcome(n, out, cycle.gen, FALSE)
           /\ cycle' = IF cycle.targets = {n} THEN Idle
                       ELSE [cycle EXCEPT !.targets = @ \ {n}]
    BY <1>8 DEF BoundedObserve
  <2>2. n \in Node /\ cycle.gen \in 0 .. gen /\ FALSE \in BOOLEAN
    BY <1>t DEF WorkerType
  <2>3. HealthType' /\ HealthInv' /\ NothingNewOwed
    BY <1>8, <1>t, <2>1, <2>2, ObserveKeepsHealth DEF BoundedObserve
  <2>4. WorkerType' /\ cycle'.kind \in {"idle", "bounded"}
    BY <1>8, <1>t, <1>i, <2>1 DEF BoundedObserve, WorkerType, CycleKind
  <2>5. QED
    BY <1>8, <1>t, <2>3, <2>4, CoverageElsewhere, Assemble DEF BoundedObserve
<1>9. CASE RefreshLease
  <2>1. HealthType' /\ HealthInv' /\ NothingNewOwed /\ NothingJoins
    BY <1>9, UnchangedKeepsHealth DEF RefreshLease
  <2>2. \A T, S : S \subseteq Source => Provenance(T, S) \subseteq [Node -> SUBSET Source]
    BY DEF Provenance
  <2>3. WorkerType'
    BY <1>9, <1>t, <2>2 DEF RefreshLease, WorkerType
  <2>4. QED
    BY <1>9, <1>t, <2>1, <2>3, CoverageKept, Assemble DEF RefreshLease
<1>10. CASE RefreshStart
  <2>1. HealthType' /\ HealthInv' /\ NothingNewOwed
    BY <1>10, UnchangedKeepsHealth DEF RefreshStart
  <2>2. WorkerType' /\ cycle'.kind \in {"refresh", "source"}
    BY <1>10, <1>t, <1>i DEF RefreshStart, WorkerType, CycleKind
  <2>3. QED
    BY <1>10, <1>t, <2>1, <2>2, CoverageElsewhere, Assemble DEF RefreshStart
<1>11. CASE BatchStart
  <2>1. HealthType' /\ HealthInv' /\ NothingNewOwed
    BY <1>11, UnchangedKeepsHealth DEF BatchStart
  <2>2. \A T : Provenance(T, Source) \subseteq [Node -> SUBSET Source]
    BY DEF Provenance
  <2>3. WorkerType' /\ cycle'.kind = "batch"
    BY <1>11, <1>t, <2>2, FailedNodeAssumption DEF BatchStart, WorkerType, CycleKind
  <2>4. QED
    BY <1>11, <1>t, <2>1, <2>3, CoverageElsewhere, Assemble DEF BatchStart
<1>12. CASE CandidatePublish
  <2>1. PICK out \in [ValidTargets -> Outcome] :
           update(ValidTargets, out, ValidProv, gen)
    BY <1>12 DEF CandidatePublish
  <2>2. ValidTargets \in SUBSET Node /\ ValidProv \in [Node -> SUBSET Source]
    BY <1>t DEF ValidTargets, ValidProv, WorkerType
  <2>3. HealthType' /\ HealthInv' /\ NothingNewOwed
    BY <1>12, <1>t, <2>1, <2>2, UpdateKeepsHealth DEF CandidatePublish
  <2>4. WorkerType' /\ cycle'.kind = "idle"
    BY <1>12, <1>t, <1>i DEF CandidatePublish, WorkerType
  <2>5. QED
    BY <1>12, <1>t, <2>3, <2>4, CoverageElsewhere, Assemble DEF CandidatePublish
<1>13. CASE CycleAbandon
  <2>1. HealthType' /\ HealthInv' /\ NothingNewOwed
    BY <1>13, UnchangedKeepsHealth DEF CycleAbandon
  <2>2. WorkerType' /\ cycle'.kind = "idle"
    BY <1>13, <1>t, <1>i DEF CycleAbandon, WorkerType
  <2>3. QED
    BY <1>13, <1>t, <2>1, <2>2, CoverageElsewhere, Assemble DEF CycleAbandon
<1>14. CASE SpeedStart
  <2>1. HealthType' /\ HealthInv' /\ NothingNewOwed /\ NothingJoins
    BY <1>14, UnchangedKeepsHealth DEF SpeedStart
  <2>2. WorkerType'
    BY <1>14, <1>t DEF SpeedStart, WorkerType
  <2>3. QED
    BY <1>14, <1>t, <2>1, <2>2, CoverageKept, Assemble DEF SpeedStart
<1>15. CASE SpeedPromote
  <2>1. HealthType' /\ HealthInv' /\ NothingNewOwed /\ NothingJoins
    BY <1>15, <1>t, PromoteKeepsHealth
  <2>2. WorkerType'
    BY <1>15, <1>t, <1>i DEF SpeedPromote, WorkerType
  <2>3. QED
    BY <1>15, <1>t, <2>1, <2>2, CoverageKept, Assemble DEF SpeedPromote
<1>16. CASE SpeedEnd
  <2>1. HealthType' /\ HealthInv' /\ NothingNewOwed /\ NothingJoins
    BY <1>16, UnchangedKeepsHealth DEF SpeedEnd
  <2>2. WorkerType'
    BY <1>16, <1>t, <1>i DEF SpeedEnd, WorkerType
  <2>3. QED
    BY <1>16, <1>t, <2>1, <2>2, CoverageKept, Assemble DEF SpeedEnd
<1>17. ASSUME NEW o \in Observer,
              ServerPick(o) \/ ServerDial(o) \/ VerifyStart(o) \/ ObserverEnd(o)
       PROVE  PoolInv'
  <2>1. HealthType' /\ HealthInv' /\ NothingNewOwed /\ NothingJoins
    BY <1>17, UnchangedKeepsHealth DEF ServerPick, ServerDial, VerifyStart, ObserverEnd
  <2>2. WorkerType'
    <3>1. obs[o] \in [kind : {"idle", "picked", "dialing", "failed", "verify"},
                      nodes : SUBSET Node, gen : 0 .. gen]
      BY <1>t DEF WorkerType
    <3>2. CASE ServerPick(o)
      BY <3>2, <1>t DEF ServerPick, WorkerType
    <3>3. CASE ServerDial(o)
      <4>1. [obs[o] EXCEPT !.kind = "dialing", !.gen = gen] \in
               [kind : {"idle", "picked", "dialing", "failed", "verify"},
                nodes : SUBSET Node, gen : 0 .. gen]
        BY <3>1, <1>t
      <4>2. QED
        BY <3>3, <4>1, <1>t DEF ServerDial, WorkerType
    <3>4. CASE VerifyStart(o)
      BY <3>4, <1>t DEF VerifyStart, WorkerType
    <3>5. CASE ObserverEnd(o)
      BY <3>5, <1>t, <1>i DEF ObserverEnd, WorkerType
    <3>6. QED
      BY <1>17, <3>2, <3>3, <3>4, <3>5
  <2>3. UNCHANGED <<gen, pending, enabled, lagging, editing, cycle>>
    BY <1>17 DEF ServerPick, ServerDial, VerifyStart, ObserverEnd
  <2>4. QED
    BY <1>t, <2>1, <2>2, <2>3, CoverageKept, Assemble
<1>18. ASSUME NEW o \in Observer, ServerFail(o) PROVE PoolInv'
  <2>1. PICK n \in obs[o].nodes : observeHealthOutcome(n, "down", obs[o].gen, FALSE)
    BY <1>18 DEF ServerFail
  <2>2. n \in Node /\ obs[o].gen \in 0 .. gen /\ FALSE \in BOOLEAN /\ "down" \in Outcome
    BY <1>t DEF WorkerType, Outcome
  <2>3. HealthType' /\ HealthInv' /\ NothingNewOwed /\ NothingJoins
    BY <1>18, <1>t, <2>1, <2>2, ObserveKeepsHealth DEF ServerFail
  <2>4. WorkerType'
    BY <1>18, <1>t, <1>i DEF ServerFail, WorkerType
  <2>5. QED
    BY <1>18, <1>t, <2>3, <2>4, CoverageKept, Assemble DEF ServerFail
<1>r. ASSUME NEW o \in Observer, ServerRecord(o) PROVE PoolInv'
  <2>1. obs[o] \in [kind : {"idle", "picked", "dialing", "failed", "verify"},
                    nodes : SUBSET Node, gen : 0 .. gen]
    BY <1>t DEF WorkerType
  <2>2. HealthType' /\ HealthInv' /\ NothingNewOwed /\ NothingJoins
    BY <1>r, <1>t, <2>1, RecordKeepsHealth DEF ServerRecord
  <2>3. WorkerType'
    <3>1. [obs[o] EXCEPT !.kind = "failed"] \in
             [kind : {"idle", "picked", "dialing", "failed", "verify"},
              nodes : SUBSET Node, gen : 0 .. gen]
      BY <2>1
    <3>2. obs' \in [Observer -> [kind : {"idle", "picked", "dialing", "failed", "verify"},
                                 nodes : SUBSET Node, gen : 0 .. gen]]
      <4>1. CASE obs' = [obs EXCEPT ![o] = NoObs]
        BY <1>t, <1>i, <4>1 DEF WorkerType
      <4>2. CASE obs' = [obs EXCEPT ![o].kind = "failed"]
        BY <1>t, <3>1, <4>2 DEF WorkerType
      <4>3. QED
        BY <1>r, <4>1, <4>2 DEF ServerRecord
    <3>3. QED
      BY <1>r, <1>t, <3>2 DEF ServerRecord, WorkerType
  <2>4. QED
    BY <1>r, <1>t, <2>2, <2>3, CoverageKept, Assemble DEF ServerRecord
<1>19. ASSUME NEW o \in Observer, VerifyFinish(o) PROVE PoolInv'
  <2>1. PICK n \in obs[o].nodes, out \in Outcome :
           observeHealthOutcome(n, out, obs[o].gen, TRUE)
    BY <1>19 DEF VerifyFinish
  <2>2. n \in Node /\ obs[o].gen \in 0 .. gen /\ TRUE \in BOOLEAN
    BY <1>t DEF WorkerType
  <2>3. HealthType' /\ HealthInv' /\ NothingNewOwed /\ NothingJoins
    BY <1>19, <1>t, <2>1, <2>2, ObserveKeepsHealth DEF VerifyFinish
  <2>4. WorkerType'
    BY <1>19, <1>t, <1>i DEF VerifyFinish, WorkerType
  <2>5. QED
    BY <1>19, <1>t, <2>3, <2>4, CoverageKept, Assemble DEF VerifyFinish
<1>20. CASE InvalidateHealth
  <2>1. HealthType' /\ HealthInv' /\ \A n \in pool' : px'[n].retired = px[n].retired
    BY <1>20, <1>t, InvalidateKeepsHealth
  <2>2. /\ gen' = gen + 1 /\ gen' \in 0 .. MaxGen /\ pending' = TRUE
        /\ pool' = pool /\ cycle' = cycle
        /\ UNCHANGED <<enabled, lagging, editing>>
    <3>1. /\ gen < MaxGen /\ gen' = gen + 1 /\ pending' = TRUE
          /\ pool' = pool /\ cycle' = cycle
          /\ UNCHANGED <<enabled, lagging, editing>>
      BY <1>20 DEF InvalidateHealth
    <3>2. gen + 1 \in 0 .. MaxGen
      BY <1>t, <3>1, MaxGenAssumption
    <3>3. QED
      BY <3>1, <3>2
  <2>3. WorkerType'
    <3>1. UNCHANGED <<cycle, planned, refresh, speed, obs, clearing>>
      BY <1>20 DEF InvalidateHealth
    <3>2. 0 .. gen \subseteq 0 .. gen'
      BY <1>t, <2>2
    <3>3. QED
      BY <1>t, <3>1, <3>2 DEF WorkerType
  <2>4. TypeOK'
    BY <1>t, <2>1, <2>2, <2>3 DEF TypeOK, HealthType, WorkerType
  <2>5. cycle.gen # gen'
    BY <1>t, <2>2 DEF WorkerType
  <2>6. RecheckCoverage'
    BY <2>1, <2>2, <2>5 DEF PoolInv, RecheckCoverage
  <2>7. GuardCoversChecked'
    BY <2>2 DEF GuardCoversChecked
  <2>8. QED
    BY <2>1, <2>4, <2>6, <2>7 DEF PoolInv
<1>a. CASE ApplyEnabledSources
  <2>1. HealthType' /\ HealthInv' /\ NothingNewOwed /\ NothingJoins
    BY <1>a, <1>t, ApplyKeepsHealth
  <2>2. WorkerType'
    BY <1>a, <1>t DEF ApplyEnabledSources, WorkerType
  <2>3. QED
    BY <1>a, <1>t, <2>1, <2>2, CoverageKept, Assemble DEF ApplyEnabledSources
<1>21. ASSUME NEW s \in Source, ToggleSource(s) PROVE PoolInv'
  <2>1. /\ HealthType' /\ HealthInv' /\ NothingNewOwed /\ NothingJoins
        /\ SourceType'
    BY <1>21, <1>t, ToggleKeepsHealth
  <2>2. WorkerType'
    BY <1>21, <1>t DEF ToggleSource, WorkerType
  <2>3. QED
    BY <1>21, <1>t, <2>1, <2>2, CoverageKept, Assemble DEF ToggleSource
<1>22. CASE RemoveKeys
  <2>1. PICK n \in pool : Drop({n})
    BY <1>22 DEF RemoveKeys
  <2>2. HealthType' /\ HealthInv' /\ NothingNewOwed /\ NothingJoins
    BY <1>22, <1>t, <2>1, DropKeepsHealth DEF RemoveKeys
  <2>3. WorkerType'
    BY <1>22, <1>t DEF RemoveKeys, WorkerType
  <2>4. QED
    BY <1>22, <1>t, <2>2, <2>3, CoverageKept, Assemble DEF RemoveKeys
<1>23. CASE ClearCheck
  <2>1. HealthType' /\ HealthInv' /\ NothingNewOwed /\ NothingJoins
    BY <1>23, UnchangedKeepsHealth DEF ClearCheck
  <2>2. WorkerType'
    BY <1>23, <1>t DEF ClearCheck, WorkerType
  <2>3. QED
    BY <1>23, <1>t, <2>1, <2>2, CoverageKept, Assemble DEF ClearCheck
<1>24. CASE ClearUnavailable
  <2>1. {n \in pool : ~px[n].available} \in SUBSET Node
    BY <1>t
  <2>2. HealthType' /\ HealthInv' /\ NothingNewOwed /\ NothingJoins
    BY <1>24, <1>t, <2>1, DropKeepsHealth DEF ClearUnavailable
  <2>3. WorkerType'
    BY <1>24, <1>t DEF ClearUnavailable, WorkerType
  <2>4. QED
    BY <1>24, <1>t, <2>2, <2>3, CoverageKept, Assemble DEF ClearUnavailable
<1>25. CASE UNCHANGED vars
  <2>1. HealthType' /\ HealthInv' /\ NothingNewOwed /\ NothingJoins
    BY <1>25, UnchangedKeepsHealth
  <2>2. WorkerType'
    BY <1>25, <1>t DEF WorkerType
  <2>3. QED
    BY <1>25, <1>t, <2>1, <2>2, CoverageKept, Assemble
<1>26. QED
  BY <1>1, <1>2, <1>3, <1>4, <1>5, <1>6, <1>7, <1>8, <1>9, <1>10, <1>11, <1>12,
     <1>13, <1>14, <1>15, <1>16, <1>17, <1>18, <1>19, <1>20, <1>21, <1>22,
     <1>23, <1>24, <1>25, <1>r, <1>a DEF Next

(* The inductive invariant holds in every reachable state.                 *)
THEOREM PoolInvariant == Spec => []PoolInv
<1>1. Init => PoolInv
  BY PoolInit
<1>2. PoolInv /\ [Next]_vars => PoolInv'
  BY PoolStep
<1>3. QED
  BY <1>1, <1>2, PTL DEF Spec

(* Type correctness, with the removal threshold as a bound on the streak.  *)
THEOREM PoolTypeCorrect == Spec => []TypeOK
BY PoolInvariant, PTL DEF PoolInv

(* No late or stale result makes a node routable.                          *)
THEOREM PoolEvidenceCurrent == Spec => []EvidenceIsCurrent
BY PoolInvariant, PTL DEF PoolInv, HealthInv

(* The routing bits never contradict the durable health state.             *)
THEOREM PoolRoutingBits == Spec => []RoutingBitsAgree
BY PoolInvariant, PTL DEF PoolInv, HealthInv

(* A non-retired node has no disabled source, but one that was disabled    *)
(* since the pool last applied the configuration.                          *)
THEOREM PoolSourcesRetire == Spec => []DisabledSourceRetires
BY PoolInvariant, PTL DEF PoolInv, HealthInv

(* An entry of p.stats that outlives its endpoint, or that a connection     *)
(* recreates, carries no terminal flag and no strike.                      *)
THEOREM PoolNoOrphans == Spec => []NoOrphanVerdict
BY PoolInvariant, PTL DEF PoolInv, HealthInv

(* An exhaustive pass still covers every member it owes a verdict.         *)
THEOREM PoolRecheckCoverage == Spec => []RecheckCoverage
BY PoolInvariant, PTL DEF PoolInv

(* With the guard down, every node not admitted by a speed test is judged. *)
THEOREM PoolGuardCovers == Spec => []GuardCoversChecked
BY PoolInvariant, PTL DEF PoolInv

-----------------------------------------------------------------------------
(* An observation changes the entry of its own node only, and an automatic *)
(* one leaves a terminal node unroutable.                                  *)
LEMMA ObserveTerminal ==
    ASSUME TypeOK, NEW m \in Node, NEW out \in Outcome, NEW g \in 0 .. gen,
           NEW manual \in BOOLEAN, observeHealthOutcome(m, out, g, manual),
           NEW n \in pool, stats[n].terminal, ~proxyHardRoutable(px[n]),
           proxyHardRoutable(px'[n])
    PROVE  n = m /\ manual
<1>1. px' # px
  OBVIOUS
<1>2. ObservationApplies(m, out, g, manual)
  BY <1>1 DEF observeHealthOutcome, health
<1>3. n = m
  BY <1>2 DEF observeHealthOutcome, TypeOK
<1>4. px[m] \in Proxy /\ m \in Node
  BY DEF TypeOK
<1>5. out # "down"
  <2>1. SUFFICES ASSUME out = "down" PROVE FALSE
    OBVIOUS
  <2>2. px'[m] = Unreachable(px[m])
    BY <1>2, <2>1 DEF observeHealthOutcome, TypeOK
  <2>3. QED
    BY <1>3, <1>4, <2>2, NotUsableFields DEF proxyHardRoutable
<1>6. QED
  BY <1>2, <1>3, <1>5 DEF ObservationApplies

(* A refresh or batch leaves a terminal member unroutable.                 *)
LEMMA UpdateTerminal ==
    ASSUME TypeOK, NEW T \in SUBSET Node, NEW out \in [T -> Outcome],
           NEW prov, update(T, out, prov, gen),
           NEW n \in pool \cap pool', stats[n].terminal,
           ~proxyHardRoutable(px[n])
    PROVE  ~proxyHardRoutable(px'[n])
<1>1. n \in Node /\ px[n] \in Proxy /\ enabled \in SUBSET Source
  BY DEF TypeOK
<1>2. CASE n \in T /\ out[n] = "policy"
  <2>1. px'[n] = ApplySources(PolicyFiltered(px[n]), enabled)
    BY <1>1, <1>2 DEF update
  <2>2. PolicyFiltered(px[n]) \in Proxy /\ PolicyFiltered(px[n]).excluded
    BY <1>1, NotUsableFields
  <2>3. QED
    BY <1>1, <2>1, <2>2, RetiredFields DEF proxyHardRoutable
<1>3. CASE ~(n \in T /\ out[n] = "policy")
  <2>1. px'[n] = ApplySources(px[n], enabled)
    BY <1>1, <1>3 DEF update
  <2>2. QED
    BY <1>1, <2>1, RetiredFields DEF proxyHardRoutable
<1>4. QED
  BY <1>2, <1>3

(* Only explicit work makes a terminal failure routable again.             *)
THEOREM PoolTerminalSurvives == Spec => TerminalSurvivesAutomation
<1>1. ASSUME PoolInv, [Next]_vars,
             NEW n \in pool \cap pool', stats[n].terminal,
             proxyHardRoutable(px'[n])
      PROVE  ExplicitRecovery(n)
  <2>1. /\ TypeOK /\ n \in Node /\ px[n] \in Proxy
        /\ ~proxyHardRoutable(px[n]) /\ px' # px
    BY <1>1 DEF PoolInv, TypeOK, HealthInv, RoutingBitsAgree
  <2>2. CASE BoundedObserve
    <3>1. PICK m \in cycle.targets, out \in Outcome :
             observeHealthOutcome(m, out, cycle.gen, FALSE)
      BY <2>2 DEF BoundedObserve
    <3>2. m \in Node /\ cycle.gen \in 0 .. gen /\ FALSE \in BOOLEAN
      BY <2>1 DEF TypeOK
    <3>3. QED
      BY <1>1, <2>1, <3>1, <3>2, ObserveTerminal
  <2>3. CASE CandidatePublish
    <3>1. PICK out \in [ValidTargets -> Outcome] :
             update(ValidTargets, out, ValidProv, gen)
      BY <2>3 DEF CandidatePublish
    <3>2. ValidTargets \in SUBSET Node
      BY <2>1 DEF ValidTargets, TypeOK
    <3>3. QED
      BY <1>1, <2>1, <3>1, <3>2, UpdateTerminal
  <2>4. ASSUME NEW o \in Observer, ServerFail(o) PROVE ExplicitRecovery(n)
    <3>1. PICK m \in obs[o].nodes : observeHealthOutcome(m, "down", obs[o].gen, FALSE)
      BY <2>4 DEF ServerFail
    <3>2. m \in Node /\ obs[o].gen \in 0 .. gen /\ FALSE \in BOOLEAN /\ "down" \in Outcome
      BY <2>1 DEF TypeOK, Outcome
    <3>3. QED
      BY <1>1, <2>1, <3>1, <3>2, ObserveTerminal
  <2>5. ASSUME NEW o \in Observer, VerifyFinish(o) PROVE ExplicitRecovery(n)
    <3>1. PICK m \in obs[o].nodes, out \in Outcome :
             observeHealthOutcome(m, out, obs[o].gen, TRUE)
      BY <2>5 DEF VerifyFinish
    <3>2. m \in Node /\ obs[o].gen \in 0 .. gen /\ TRUE \in BOOLEAN
      BY <2>1 DEF TypeOK
    <3>3. n \in obs[o].nodes
      BY <1>1, <2>1, <3>1, <3>2, ObserveTerminal
    <3>4. QED
      BY <2>5, <3>3 DEF VerifyFinish, ExplicitRecovery
  <2>6. CASE SpeedPromote
    BY <2>1, <2>6, <1>1 DEF SpeedPromote, ExplicitRecovery
  <2>7. CASE FullCommit
    BY <2>7 DEF FullCommit, ExplicitRecovery
  <2>8. CASE InvalidateHealth
    <3>1. px'[n] = [px[n] EXCEPT !.invalidated = TRUE, !.available = FALSE]
      BY <1>1, <2>1, <2>8 DEF InvalidateHealth
    <3>2. QED
      BY <1>1, <2>1, <3>1 DEF proxyHardRoutable, Proxy
  <2>9. CASE ApplyEnabledSources
    <3>1. px'[n] = ApplySources(px[n], enabled) /\ enabled \in SUBSET Source
      BY <1>1, <2>1, <2>9 DEF ApplyEnabledSources, TypeOK
    <3>2. QED
      BY <1>1, <2>1, <3>1, RetiredFields DEF proxyHardRoutable
  <2>10. CASE RemoveKeys \/ ClearUnavailable
    <3>1. PICK S : Drop(S)
      BY <2>10 DEF RemoveKeys, ClearUnavailable
    <3>2. px'[n] = px[n]
      BY <1>1, <2>1, <3>1 DEF Drop
    <3>3. QED
      BY <1>1, <2>1, <3>2
  <2>11. CASE \/ FullSnapshot \/ FullClaim \/ FullComplete \/ FullFlush
              \/ BoundedPlan \/ BoundedStart \/ RefreshLease \/ RefreshStart
              \/ BatchStart \/ CycleAbandon \/ SpeedStart \/ SpeedEnd \/ ClearCheck
              \/ UNCHANGED vars
              \/ \E o \in Observer : \/ ServerPick(o) \/ ServerDial(o)
                                     \/ ServerRecord(o)
                                     \/ VerifyStart(o) \/ ObserverEnd(o)
              \/ \E s \in Source : ToggleSource(s)
    <3>1. px' = px
      BY <2>11 DEF FullSnapshot, FullClaim, FullComplete, FullFlush, BoundedPlan,
         BoundedStart, RefreshLease, RefreshStart, BatchStart, CycleAbandon,
         SpeedStart, SpeedEnd, ClearCheck, ServerPick, ServerDial, VerifyStart,
         ServerRecord, RecordResult, ToggleSource, ObserverEnd, vars, health
    <3>2. QED
      BY <2>1, <3>1
  <2>12. QED
    BY <1>1, <2>2, <2>3, <2>4, <2>5, <2>6, <2>7, <2>8, <2>9, <2>10, <2>11 DEF Next
<1>2. PoolInv /\ [Next]_vars =>
         [\A n \in pool \cap pool' :
             stats[n].terminal /\ proxyHardRoutable(px'[n]) => ExplicitRecovery(n)]_vars
  BY <1>1
<1>3. QED
  BY PoolInvariant, <1>2, PTL DEF Spec, TerminalSurvivesAutomation
=============================================================================
