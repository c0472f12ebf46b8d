------------------------------ MODULE PoolPick ------------------------------
(***************************************************************************)
(* Choosing an upstream: pick's optimistic scan and commit, its serialized *)
(* last resort, the group cursors with pins and rotation, the retry loop   *)
(* of Server.handleConn that uses them, the deletion plans that replace    *)
(* the cursors (pool.go, server.go), and the three ways the status API     *)
(* computes the node a group uses right now.                               *)
(*                                                                         *)
(* The pool's mutex makes each read-locked or write-locked section one     *)
(* step.  routingRevision and statsRevision are only ever compared for     *)
(* equality with the value a scan read: a scan keeps a flag that a later   *)
(* change of the revision clears.  A plan is compared with cacheGeneration *)
(* the same way.  A named group's strategy is chosen when the connection   *)
(* reads the configuration.                                                *)
(***************************************************************************)
EXTENDS Naturals, FiniteSets, Sequences

CONSTANTS Nodes, Order, GroupAny, Named, Turns, Conns, None,
          Primed,       \* states in which the cache may hand over a node
          Pinned,       \* nodes that may be pinned to begin with
          Traffic,      \* the loads: what each connection asks for
          Strategies,   \* strategies named groups may be configured with
          Metrics,      \* measured values, zero for unmeasured
          MaxAttempts,  \* optimistic attempts of a pick (8 in the code)
          MaxRetries,   \* picks per connection (3 in the code)
          MaxChanges    \* bound on changes made to the pool from outside

(* The pool's slice lists every node once; an empty key names no node.     *)
ASSUME OrderAssumption ==
    /\ Order \in Seq(Nodes)
    /\ \A n \in Nodes : \E i \in 1 .. Len(Order) : Order[i] = n
    /\ \A i, j \in 1 .. Len(Order) : Order[i] = Order[j] => i = j
    /\ None \notin Nodes
(* ANY is built in; a group's strategy is one of the six that AddGroup and *)
(* SetGroupStrategy accept; an unmeasured value is zero.                   *)
ASSUME GroupAssumption ==
    /\ GroupAny \notin Named
    /\ Strategies \subseteq {"sticky", "round-robin", "random",
                             "latency", "speed", "score"}
    /\ Metrics \subseteq Nat /\ 0 \in Metrics
(* A restart hands over nodes it found in the cache, and at most one pin.  *)
ASSUME StartAssumption ==
    Primed \subseteq {"absent", "up", "down", "barred"} /\ Pinned \subseteq Nodes
(* A request names a group, its strategy when the configuration was read   *)
(* (ANY is sticky) and whether the rules of its listener allow ANY instead. *)
ASSUME TrafficAssumption ==
    \A load \in Traffic : \A c \in Conns : LET r == load[c] IN
        /\ r.fallback \in BOOLEAN /\ r.group \in {GroupAny} \cup Named
        /\ r.strategy \in IF r.group = GroupAny THEN {"sticky"} ELSE Strategies
ASSUME BoundsAssumption ==
    {Turns, MaxAttempts, MaxRetries} \subseteq Nat \ {0} /\ MaxChanges \in Nat

VARIABLES status, member, metric, cursor,
          plan,     \* a deletion being written before it is published
          conn,     \* the client connections
          changes   \* number of outside changes so far

pool == <<status, member, metric, cursor>>
vars == <<pool, plan, conn, changes>>

Group == {GroupAny} \cup Named
Measured == Strategies \cap {"latency", "speed", "score"}
EmptyCursor == [sticky |-> None, last |-> None, rr |-> 0, pinned |-> FALSE]
NoPlan == [state |-> "none", next |-> None, cursor |-> None]
StalePlan == [NoPlan EXCEPT !.state = "stale"]
Idle == [pc |-> "idle", fallback |-> TRUE, group |-> GroupAny, strategy |-> "sticky",
         exclude |-> {}, tries |-> 0, attempt |-> 0, choice |-> None,
         keep |-> FALSE, seen |-> EmptyCursor, fresh |-> FALSE,
         dialable |-> FALSE]
Ended == [Idle EXCEPT !.pc = "ended"]

proxyHardRoutable(n) == status[n] \in {"up", "down"}
Available(n) == status[n] = "up"
matches(g, n) == g # GroupAny => n \in member[g]
Live == {n \in Nodes : status[n] # "absent"}

(* The pool between two connections: no cursor yet, or ANY pinned by the   *)
(* operator to an available node.                                          *)
Pins == {EmptyCursor} \cup
        {[EmptyCursor EXCEPT !.sticky = n, !.last = n, !.pinned = TRUE] :
            n \in Pinned}

Init ==
    /\ status \in [Nodes -> Primed]
    /\ member = [g \in Named |-> Nodes]
    /\ metric = [s \in Measured |-> [n \in Nodes |-> 0]]
    /\ \E pin \in {p \in Pins : p.pinned => Available(p.sticky)} :
          cursor = [g \in Group |-> IF g = GroupAny THEN pin ELSE EmptyCursor]
    /\ plan = NoPlan
    /\ \E load \in Traffic : conn = [c \in Conns |-> [Idle EXCEPT
          !.fallback = load[c].fallback, !.group = load[c].group,
          !.strategy = load[c].strategy]]
    /\ changes = 0

-----------------------------------------------------------------------------
(* The two scans of selectProxyLocked over the positions of the pool: the  *)
(* first finds the members the group may use, only available ones as soon  *)
(* as there is one; the second applies the strategy.                       *)
Positions == 1 .. Len(Order)
Eligible(g, exclude) ==
    LET usable == {i \in Positions : /\ proxyHardRoutable(Order[i])
                                     /\ matches(g, Order[i])
                                     /\ Order[i] \notin exclude}
        up == {i \in usable : Available(Order[i])}
    IN  IF up # {} THEN up ELSE usable

(* metric beats best in the running comparison of the scan.                *)
Beats(strategy, new, best) ==
    new # 0 /\ (best = 0 \/ IF strategy = "latency" THEN new < best ELSE new > best)

(* The position of the best member so far, zero before the first one.      *)
BestOf(E, strategy, value) ==
    LET best[i \in 0 .. Len(Order)] ==
          IF i = 0 THEN 0
          ELSE IF i \in E /\ (\/ best[i - 1] = 0
                              \/ Beats(strategy, value[Order[i]], value[Order[best[i - 1]]]))
               THEN i ELSE best[i - 1]
    IN  best[Len(Order)]

First(E) == CHOOSE i \in E : \A j \in E : i <= j

(* The nodes the scan may return (several only for a random choice).       *)
selectProxyLocked(g, strategy, cur, exclude) ==
    LET E == Eligible(g, exclude)
        seen(i) == Cardinality({j \in E : j < i})
    IN  CASE E = {} -> {}
          [] E # {} /\ strategy = "round-robin" ->
               {Order[i] : i \in {i \in E : seen(i) = cur.rr % Cardinality(E)}}
          [] E # {} /\ strategy = "random" -> {Order[i] : i \in E}
          [] E # {} /\ strategy = "sticky" ->
               {IF \E i \in E : Order[i] = cur.sticky THEN cur.sticky
                                                      ELSE Order[First(E)]}
          [] OTHER -> {Order[BestOf(E, strategy, metric[strategy])]}

(* A pinned node that the scan did not find keeps its pin.                 *)
preservePin(cur, chosen) == cur.pinned /\ chosen # cur.sticky

proxySelectableAtCommit(c) ==
    LET k == conn[c]
        usable(n) == /\ proxyHardRoutable(n) /\ matches(k.group, n)
                     /\ n \notin k.exclude
    IN  /\ usable(k.choice)
        /\ Available(k.choice) \/ ~\E n \in Nodes : usable(n) /\ Available(n)

(* The cursor of a pick that hands out n.                                  *)
Advance(cur, n, strategy, keep) ==
    [cur EXCEPT !.last = n,
                !.rr = IF strategy = "round-robin" THEN (@ + 1) % Turns ELSE @,
                !.sticky = IF strategy = "sticky" /\ ~keep THEN n ELSE @]

(* Every change of routingRevision invalidates the scans under way; a      *)
(* change of statsRevision alone only those that compare scores.  Both     *)
(* kinds of change also move cacheGeneration.                              *)
RoutingRevised(cs) == [c \in Conns |-> [cs[c] EXCEPT !.fresh = FALSE]]
StatsRevised(cs) ==
    [c \in Conns |-> [cs[c] EXCEPT !.fresh = @ /\ cs[c].strategy # "score"]]
GenerationMoved == plan' = IF plan.state = "built" THEN StalePlan ELSE plan

-----------------------------------------------------------------------------
(* handleConn: the connection reads its group and the configuration.       *)
Accept(c) ==
    /\ conn[c].pc = "idle"
    /\ conn' = [conn EXCEPT ![c].pc = "scan", ![c].tries = 1]
    /\ UNCHANGED <<pool, plan, changes>>

(* An optimistic attempt: scan under the read lock.                        *)
PickScan(c) ==
    LET k == conn[c]
        cur == cursor[k.group]
        found == selectProxyLocked(k.group, k.strategy, cur, k.exclude)
    IN  /\ k.pc = "scan" /\ k.attempt < MaxAttempts
        /\ \/ found = {} /\ conn' = [conn EXCEPT ![c].pc = "none"]
           \/ \E n \in found :
                 conn' = [conn EXCEPT ![c] = [k EXCEPT
                            !.pc = "commit", !.choice = n, !.fresh = TRUE,
                            !.keep = preservePin(cur, n),
                            !.seen = [cur EXCEPT !.last = None]]]
        /\ UNCHANGED <<pool, plan, changes>>

(* Mutants: two connections may take the same turn; a pin that arrives     *)
(* with the same key goes unnoticed.                                       *)
SharedTurnMutant(k) ==
    k.strategy = "sticky" =>
        /\ cursor[k.group].sticky = k.seen.sticky
        /\ cursor[k.group].pinned = k.seen.pinned
UnseenPinMutant(k) ==
    LET cur == cursor[k.group]
    IN  CASE k.strategy = "round-robin" -> cur.rr = k.seen.rr
          [] k.strategy = "sticky" -> cur.sticky = k.seen.sticky
          [] OTHER -> TRUE

CursorUnmoved(k) ==
    LET cur == cursor[k.group]
    IN  CASE k.strategy = "round-robin" -> cur.rr = k.seen.rr
          [] k.strategy = "sticky" -> /\ cur.sticky = k.seen.sticky
                                      /\ cur.pinned = k.seen.pinned
          [] OTHER -> TRUE

CommitValid(c) ==
    conn[c].fresh /\ CursorUnmoved(conn[c]) /\ proxySelectableAtCommit(c)

(* Mutant: attempts that lost a race are not counted.                      *)
LostMutant(k) == [k EXCEPT !.pc = "scan", !.choice = None]
Lost(k) == [k EXCEPT !.pc = "scan", !.attempt = @ + 1, !.choice = None]
Scanned(k) == [k EXCEPT !.keep = FALSE, !.seen = EmptyCursor, !.fresh = FALSE]

(* ... and commit under the write lock, or start over.                     *)
PickCommit(c) ==
    LET k == conn[c]
    IN  /\ k.pc = "commit"
        /\ \/ /\ CommitValid(c)
              /\ conn' = [conn EXCEPT ![c] = [Scanned(k) EXCEPT
                            !.pc = "picked", !.attempt = 0,
                            !.dialable = k.fallback \/ Available(k.choice)]]
              /\ cursor' = [cursor EXCEPT ![k.group] =
                              Advance(@, k.choice, k.strategy, k.keep)]
           \/ /\ ~CommitValid(c)
              /\ conn' = [conn EXCEPT ![c] = Lost(Scanned(k))]
              /\ UNCHANGED cursor
        /\ UNCHANGED <<status, member, metric, plan, changes>>

(* After the last attempt, one scan that holds the write lock.             *)
PickSerialized(c) ==
    LET k == conn[c]
        cur == cursor[k.group]
        found == selectProxyLocked(k.group, k.strategy, cur, k.exclude)
    IN  /\ k.pc = "scan" /\ k.attempt = MaxAttempts
        /\ \/ /\ found = {}
              /\ conn' = [conn EXCEPT ![c].pc = "none"]
              /\ UNCHANGED cursor
           \/ \E n \in found :
                 /\ conn' = [conn EXCEPT ![c].pc = "picked", ![c].attempt = 0,
                                         ![c].choice = n,
                                         ![c].dialable = k.fallback \/ Available(n)]
                 /\ cursor' = [cursor EXCEPT ![k.group] =
                      Advance(@, n, k.strategy, preservePin(cur, n))]
        /\ UNCHANGED <<status, member, metric, plan, changes>>

(* The next round of the retry loop, if there is one.                      *)
NextTry(k) ==
    IF k.tries = MaxRetries THEN Ended
    ELSE [k EXCEPT !.pc = "scan", !.tries = @ + 1, !.attempt = 0, !.choice = None,
                     !.dialable = FALSE]

(* The group has no usable member: fall back to ANY, or give up.           *)
NoMember(c) ==
    LET k == conn[c]
    IN  /\ k.pc = "none"
        /\ conn' = [conn EXCEPT ![c] =
             IF k.fallback /\ k.group # GroupAny
             THEN NextTry([k EXCEPT !.group = GroupAny, !.strategy = "sticky"])
             ELSE Ended]
        /\ UNCHANGED <<pool, plan, changes>>

(* A listener with a policy of its own refuses an unavailable upstream.    *)
RefuseUnavailable(c) ==
    /\ conn[c].pc = "picked" /\ ~conn[c].dialable
    /\ conn' = [conn EXCEPT ![c] = Ended]
    /\ UNCHANGED <<pool, plan, changes>>

MayDial(c) == conn[c].pc = "picked" /\ conn[c].dialable

(* The server generation stops during the dial: no result is recorded.     *)
DialAborted(c) ==
    /\ MayDial(c)
    /\ conn' = [conn EXCEPT ![c] = Ended]
    /\ UNCHANGED <<pool, plan, changes>>

(* RecordResult: a new score, if the pool still measures scores.           *)
RecordResult(n, v) ==
    metric' = IF "score" \in Measured THEN [metric EXCEPT !["score"][n] = v]
                                      ELSE metric

DialSucceeds(c) ==
    /\ MayDial(c)
    /\ \E v \in Metrics : RecordResult(conn[c].choice, v)
    /\ conn' = StatsRevised([conn EXCEPT ![c] = Ended])
    /\ GenerationMoved
    /\ UNCHANGED <<status, member, cursor, changes>>

(* A failed dial excludes the node for this connection.                    *)
Excluding(c) ==
    LET k == conn[c]
    IN  [conn EXCEPT ![c] = NextTry([k EXCEPT !.exclude = @ \cup {k.choice}])]

(* The target refused: a matter of this request alone.                     *)
DialFails(c) ==
    /\ MayDial(c)
    /\ conn' = Excluding(c)
    /\ UNCHANGED <<pool, plan, changes>>

(* The upstream itself failed: RecordResult, in a section of its own ...   *)
RecordFailure(c) ==
    /\ MayDial(c)
    /\ \E v \in Metrics : RecordResult(conn[c].choice, v)
    /\ conn' = StatsRevised([conn EXCEPT ![c].pc = "failed"])
    /\ GenerationMoved
    /\ UNCHANGED <<status, member, cursor, changes>>

(* ... and ObserveHealthResultAtGeneration takes the node out of automatic *)
(* routing, unless the criterion changed or the node left meanwhile.       *)
ObserveFailure(c) ==
    LET n == conn[c].choice
    IN  /\ conn[c].pc = "failed"
        /\ \/ conn' = Excluding(c) /\ UNCHANGED <<status, plan>>
           \/ /\ proxyHardRoutable(n)
              /\ status' = [status EXCEPT ![n] = "down"]
              /\ conn' = RoutingRevised(Excluding(c))
              /\ GenerationMoved
        /\ UNCHANGED <<member, metric, cursor, changes>>

-----------------------------------------------------------------------------
(* Changes of the pool from outside: health results, policy and source     *)
(* changes, new nodes; measurements; the exit country a group matches.     *)
Changing == changes < MaxChanges /\ changes' = changes + 1

SetStatus(n, s) ==
    /\ Changing
    /\ s # status[n]
    /\ status' = [status EXCEPT ![n] = s]
    /\ conn' = RoutingRevised(conn)
    /\ GenerationMoved
    /\ UNCHANGED <<member, metric, cursor>>

Measure(n, strategy, v) ==
    /\ Changing
    /\ n \in Live
    /\ metric' = [metric EXCEPT ![strategy][n] = v]
    /\ conn' = IF strategy = "score" THEN StatsRevised(conn)
                                     ELSE RoutingRevised(conn)
    /\ GenerationMoved
    /\ UNCHANGED <<status, member, cursor>>

UpdateGeo(n, g) ==
    /\ Changing
    /\ n \in Live
    /\ member' = [member EXCEPT ![g] = (@ \cup {n}) \ (@ \cap {n})]
    /\ conn' = RoutingRevised(conn)
    /\ GenerationMoved
    /\ UNCHANGED <<status, metric, cursor>>

(* mutateProxyLocked moves the revision whatever field it writes: a health *)
(* pass can disturb every scan without changing what routing sees.         *)
MutateProxy ==
    /\ Live # {}
    /\ conn' = RoutingRevised(conn)
    /\ GenerationMoved
    /\ UNCHANGED <<pool, changes>>

cleanedGroupState(cur, live) ==
    [g \in Group |->
        LET gone == cur[g].sticky \notin live
            next == [cur[g] EXCEPT
                       !.sticky = IF gone THEN None ELSE @,
                       !.pinned = @ /\ ~(gone /\ cur[g].sticky # None),
                       !.last = IF @ \in live THEN @ ELSE None]
        IN  IF next.sticky = None /\ next.last = None THEN EmptyCursor ELSE next]

(* update: a refresh removes the nodes it found dead and cleans the        *)
(* cursors in the same critical section.                                   *)
UpdateRemoves(D) ==
    /\ Changing
    /\ D # {} /\ D \subseteq Live
    /\ status' = [n \in Nodes |-> IF n \in D THEN "absent" ELSE status[n]]
    /\ cursor' = cleanedGroupState(cursor, Live \ D)
    /\ conn' = RoutingRevised(conn)
    /\ GenerationMoved
    /\ UNCHANGED <<member, metric>>

(* ClearUnavailable, RemoveKeys and the exhaustive recheck detach the pool *)
(* without D (and with the verdicts U of the recheck), write it to disk    *)
(* and publish it if no generation was taken meanwhile.                    *)
BuildPlan(D, U) ==
    /\ plan.state = "none"
    /\ Changing
    /\ D \cup U # {} /\ D \cup U \subseteq Live /\ D \cap U = {}
    /\ plan' = [state |-> "built",
                next |-> [n \in Nodes |-> CASE n \in D -> "absent"
                                            [] n \in U -> "up"
                                            [] OTHER -> status[n]],
                cursor |-> cleanedGroupState(cursor, Live \ D)]
    /\ UNCHANGED <<pool, conn>>

(* Mutant: the cursors are left as they are.                               *)
PublishPlanMutant ==
    /\ plan.state = "built"
    /\ status' = plan.next
    /\ conn' = RoutingRevised(conn)
    /\ plan' = NoPlan
    /\ UNCHANGED <<member, metric, cursor, changes>>

PublishPlan ==
    /\ plan.state = "built"
    /\ status' = plan.next
    /\ cursor' = plan.cursor
    /\ conn' = RoutingRevised(conn)
    /\ plan' = NoPlan
    /\ UNCHANGED <<member, metric, changes>>

(* The write failed, or the pool changed during it.                        *)
DropPlan ==
    /\ plan.state # "none"
    /\ plan' = NoPlan
    /\ UNCHANGED <<pool, conn, changes>>

-----------------------------------------------------------------------------
(* The dashboard's switch, rotate and automatic buttons and the rotation   *)
(* timer, all for ANY.                                                     *)
forceSticky(n) ==
    /\ Changing
    /\ Available(n)
    /\ cursor' = [cursor EXCEPT ![GroupAny] = [@ EXCEPT !.sticky = n, !.last = n,
                                                  !.pinned = TRUE]]
    /\ UNCHANGED <<status, member, metric, plan, conn>>

SetAuto ==
    /\ Changing
    /\ cursor' = [cursor EXCEPT ![GroupAny].pinned = FALSE]
    /\ UNCHANGED <<status, member, metric, plan, conn>>

(* The first node at a position of E after that of n, wrapping around.     *)
NextInPool(n, E) ==
    LET later == {i \in E : \E j \in Positions : j < i /\ Order[j] = n}
    IN  Order[First(IF later = {} THEN E ELSE later)]

rotateSticky(force) ==
    LET E == Eligible(GroupAny, {})
        next == NextInPool(cursor[GroupAny].sticky, E)
    IN  /\ Changing
        /\ E # {}
        /\ force \/ ~cursor[GroupAny].pinned
        /\ cursor' = [cursor EXCEPT ![GroupAny] = [@ EXCEPT !.sticky = next,
                                                      !.last = next]]
        /\ UNCHANGED <<status, member, metric, plan, conn>>

RotateSticky == rotateSticky(FALSE)
RotateStickyForced == rotateSticky(TRUE)

ConnStep(c) ==
    \/ PickScan(c) \/ PickCommit(c) \/ PickSerialized(c) \/ NoMember(c)
    \/ RefuseUnavailable(c) \/ DialAborted(c) \/ DialSucceeds(c) \/ DialFails(c)
    \/ RecordFailure(c) \/ ObserveFailure(c)

Next ==
    \/ \E c \in Conns : Accept(c) \/ ConnStep(c)
    \/ \E n \in Nodes, s \in {"up", "down", "barred"} : SetStatus(n, s)
    \/ \E n \in Nodes, s \in Measured, v \in Metrics : Measure(n, s, v)
    \/ \E n \in Nodes, g \in Named : UpdateGeo(n, g)
    \/ MutateProxy
    \/ \E D \in SUBSET Nodes : UpdateRemoves(D)
    \/ \E D, U \in SUBSET Nodes : BuildPlan(D, U)
    \/ PublishPlan \/ DropPlan
    \/ \E n \in Nodes : forceSticky(n)
    \/ SetAuto \/ RotateSticky \/ RotateStickyForced

Spec == Init /\ [][Next]_vars
FairSpec == Spec /\ \A c \in Conns : WF_vars(ConnStep(c))

-----------------------------------------------------------------------------
(* The status API's single pass over the pool: a running selection among   *)
(* the routable members and one among the available ones.                  *)
NoSelection == [count |-> 0, current |-> None, matched |-> FALSE]

(* Mutant: the last node handed out is shown for every strategy.           *)
ObserveMutant(sel, n, strategy, cur) ==
    LET hit == ~sel.matched /\ n = cur.last
        better == Beats(strategy, metric[strategy][n],
                                  metric[strategy][sel.current])
        take == sel.count = 0 \/ IF strategy \in Measured THEN better ELSE hit
    IN  [count |-> sel.count + 1,
         current |-> IF take THEN n ELSE sel.current,
         matched |-> sel.matched \/ hit]

observe(sel, n, strategy, cur) ==
    LET key == IF strategy \in {"round-robin", "random"} THEN cur.last
                                                         ELSE cur.sticky
        hit == ~sel.matched /\ n = key
        better == Beats(strategy, metric[strategy][n],
                                  metric[strategy][sel.current])
        take == sel.count = 0 \/ IF strategy \in Measured THEN better ELSE hit
    IN  [count |-> sel.count + 1,
         current |-> IF take THEN n ELSE sel.current,
         matched |-> sel.matched \/ hit]

StreamingCurrent(g, strategy) ==
    LET run[i \in 0 .. Len(Order)] ==
          IF i = 0 THEN [routable |-> NoSelection, available |-> NoSelection]
          ELSE LET n == Order[i]
                   sofar == run[i - 1]
                   seen(sel) == observe(sel, n, strategy, cursor[g])
               IN  IF ~proxyHardRoutable(n) \/ ~matches(g, n) THEN sofar
                   ELSE [routable |-> seen(sofar.routable),
                         available |-> IF Available(n) THEN seen(sofar.available)
                                                       ELSE sofar.available]
        end == run[Len(Order)]
    IN  IF end.available.count > 0 THEN end.available.current
                                   ELSE end.routable.current

-----------------------------------------------------------------------------
Cursor == [sticky : Nodes \cup {None}, last : Nodes \cup {None},
           rr : 0 .. Turns - 1, pinned : BOOLEAN]
Status == {"absent", "up", "down", "barred"}
Conn == [pc : {"idle", "scan", "commit", "none", "picked", "failed", "ended"},
         fallback : BOOLEAN, group : Group, strategy : Strategies \cup {"sticky"},
         exclude : SUBSET Nodes, tries : 0 .. MaxRetries,
         attempt : 0 .. MaxAttempts, choice : Nodes \cup {None},
         keep : BOOLEAN, seen : Cursor, fresh : BOOLEAN, dialable : BOOLEAN]
Plan == {NoPlan, StalePlan} \cup
        [state : {"built"}, next : [Nodes -> Status], cursor : [Group -> Cursor]]

(* The state of the pool, the cursors, the plan and the connections.       *)
TypeOK ==
    /\ status \in [Nodes -> Status]
    /\ member \in [Named -> SUBSET Nodes]
    /\ metric \in [Measured -> [Nodes -> Metrics]]
    /\ cursor \in [Group -> Cursor]
    /\ plan \in Plan
    /\ conn \in [Conns -> Conn]
    /\ changes \in 0 .. MaxChanges

(* The pick a connection is waiting for, as PickSpec sees it.              *)
Request(c) ==
    LET k == conn[c]
        phase == CASE k.pc \in {"scan", "commit"} -> "asked"
                   [] k.pc = "picked" -> "answered"
                   [] k.pc = "none" -> "none"
                   [] OTHER -> "free"
    IN  [phase |-> phase, group |-> k.group, strategy |-> k.strategy,
         exclude |-> k.exclude,
         choice |-> IF phase = "answered" THEN k.choice ELSE None]

Atomic == INSTANCE PickSpec WITH request <- [c \in Conns |-> Request(c)]

(* pick scans under the read lock and commits under the write lock, with   *)
(* health results, deletions, pins, rotation and other picks in between;   *)
(* still every answer is the one a pick computed at a single instant would *)
(* have given, and moves the cursor as that pick would have.               *)
PicksAreAtomic == Atomic!Spec

(* A group cursor never names a node that has left the pool, although a    *)
(* pick may commit it while a plan that deletes the node is being written. *)
CursorsLive ==
    \A g \in Group : {cursor[g].sticky, cursor[g].last} \subseteq Live \cup {None}

(* Neither a connection nor the rotation timer moves or drops the node an  *)
(* operator pinned (gc.pinned: "auto-rotation must not override it").      *)
PinSurvivesTraffic ==
    [][(\E c \in Conns : ConnStep(c)) \/ RotateSticky =>
          (cursor[GroupAny].pinned =>
             /\ cursor'[GroupAny].pinned
             /\ cursor'[GroupAny].sticky = cursor[GroupAny].sticky)]_vars

(* The node the status API shows for a group is the node the next pick     *)
(* would choose, for every strategy that has one.                          *)
DashboardAgrees ==
    \A g \in Group : \A s \in {"sticky"} \cup (IF g = GroupAny THEN {} ELSE Measured) :
        selectProxyLocked(g, s, cursor[g], {}) =
            {StreamingCurrent(g, s)} \ {None}

(* Whatever keeps disturbing the scans, a connection gets its answer: the  *)
(* attempts are counted and the last one cannot be disturbed.              *)
ConnectionsEnd ==
    \A c \in Conns : conn[c].pc = "scan" ~> conn[c].pc = "ended"
=============================================================================
