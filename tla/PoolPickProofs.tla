--------------------------- MODULE PoolPickProofs ---------------------------
(***************************************************************************)
(* Proofs about PoolPick: its types, the life of its cursors, the pins,    *)
(* the node the dashboard shows, and that the optimistic pick implements   *)
(* the atomic one of PickSpec.                                             *)
(***************************************************************************)
EXTENDS PoolPick, FiniteSetTheorems, WellFoundedInduction, TLAPS

-----------------------------------------------------------------------------
(* Induction along the pool's slice, from the least-number principle.      *)

(* A nonempty set of numbers has a least element.                          *)
LEMMA LeastElement ==
    ASSUME NEW T, T \subseteq Nat, T # {}
    PROVE  \E x \in T : \A y \in T : x <= y
<1> DEFINE R == OpToRel(<, Nat)
<1>1. IsWellFoundedOn(R, Nat)
  BY NatLessThanWellFounded
<1>2. PICK x \in T : \A y \in T : ~(<<y, x>> \in R)
  <2> HIDE DEF R
  <2> QED BY <1>1, WFMin
<1>3. ASSUME NEW y \in T, y < x PROVE FALSE
  <2>1. <<y, x>> \in R
    BY <1>3 DEF OpToRel
  <2> QED BY <2>1, <1>2
<1> QED BY <1>3

(* A set of numbers with zero and every successor holds them all.          *)
LEMMA Induction ==
    ASSUME NEW S \in SUBSET Nat, 0 \in S, \A k \in S : k + 1 \in S
    PROVE  S = Nat
<1> SUFFICES ASSUME Nat \ S # {} PROVE FALSE
  OBVIOUS
<1>1. PICK x \in Nat \ S : \A y \in Nat \ S : x <= y
  BY LeastElement
<1> QED BY <1>1

(* f[i] is the accumulator of a loop over 1 .. N after its i-th round; the *)
(* loop starts with a and goes through step.                               *)
IsLoop(f, D, N, a, step) ==
    /\ f \in [0 .. N -> D]
    /\ f[0] = a
    /\ \A i \in 1 .. N : f[i] = step[<<f[i - 1], i>>]

(* Every loop has one: its recursive definition means something.           *)
LEMMA LoopExists ==
    ASSUME NEW D, NEW N \in Nat, NEW a \in D, NEW step \in [D \X (1 .. N) -> D]
    PROVE  \E f : IsLoop(f, D, N, a, step)
<1> DEFINE S == {k \in Nat : k <= N => \E f : IsLoop(f, D, k, a, step)}
<1>1. 0 \in S
  <2>1. IsLoop([i \in 0 .. 0 |-> a], D, 0, a, step)
    BY DEF IsLoop
  <2> QED BY <2>1
<1>2. ASSUME NEW k \in S PROVE k + 1 \in S
  <2> SUFFICES ASSUME k + 1 <= N PROVE \E f : IsLoop(f, D, k + 1, a, step)
    OBVIOUS
  <2>1. PICK f : IsLoop(f, D, k, a, step)
    OBVIOUS
  <2> DEFINE h == [i \in 0 .. k + 1 |-> IF i <= k THEN f[i] ELSE step[<<f[k], k + 1>>]]
  <2>2. step[<<f[k], k + 1>>] \in D
    BY <2>1 DEF IsLoop
  <2>3. h \in [0 .. k + 1 -> D] /\ h[0] = a
    BY <2>1, <2>2 DEF IsLoop
  <2>4. ASSUME NEW i \in 1 .. k + 1 PROVE h[i] = step[<<h[i - 1], i>>]
    <3>1. CASE i <= k
      <4>1. h[i] = f[i] /\ h[i - 1] = f[i - 1]
        BY <3>1
      <4> QED BY <4>1, <3>1, <2>1 DEF IsLoop
    <3>2. CASE i = k + 1
      <4>1. h[i] = step[<<f[k], k + 1>>] /\ h[i - 1] = f[k]
        BY <3>2
      <4> QED BY <4>1, <3>2
    <3> QED BY <3>1, <3>2
  <2>5. IsLoop(h, D, k + 1, a, step)
    BY <2>3, <2>4 DEF IsLoop
  <2> QED BY <2>5
<1>3. S = Nat
  <2>1. S \in SUBSET Nat /\ \A k \in S : k + 1 \in S
    BY <1>2
  <2> HIDE DEF S
  <2> QED BY <1>1, <2>1, Induction
<1>4. N \in S
  BY <1>3
<1> QED BY <1>4

-----------------------------------------------------------------------------
(* The scan.                                                               *)

(* The pool's slice and its positions.                                     *)
LEMMA OrderFacts ==
    /\ Len(Order) \in Nat
    /\ \A i \in Positions : i \in Nat /\ Order[i] \in Nodes
    /\ \A E \in SUBSET Positions : IsFiniteSet(E) /\ Cardinality(E) \in Nat
<1>1. Len(Order) \in Nat /\ \A i \in Positions : i \in Nat /\ Order[i] \in Nodes
  BY OrderAssumption DEF Positions
<1>2. ASSUME NEW E \in SUBSET Positions PROVE IsFiniteSet(E) /\ Cardinality(E) \in Nat
  <2>1. IsFiniteSet(Positions)
    BY <1>1, FS_Interval DEF Positions
  <2> QED BY <2>1, FS_Subset, FS_CardinalityType
<1> QED BY <1>1, <1>2

(* The first position of a nonempty set.                                   *)
LEMMA FirstIsLeast ==
    ASSUME NEW E \in SUBSET Positions, E # {}
    PROVE  First(E) \in E /\ \A j \in E : First(E) <= j
<1>1. E \subseteq Nat
  BY OrderFacts
<1>2. \E i \in E : \A j \in E : i <= j
  BY <1>1, LeastElement
<1> QED BY <1>2 DEF First

(* Every turn below the number of eligible positions belongs to one.       *)
LEMMA TurnExists ==
    ASSUME NEW E \in SUBSET Positions, NEW t \in Nat, t < Cardinality(E)
    PROVE  \E i \in E : Cardinality({j \in E : j < i}) = t
<1> DEFINE N == Len(Order)
           before(i) == {j \in E : j < i}
           T == {i \in 1 .. N + 1 : Cardinality(before(i)) > t}
<1>p. N \in Nat /\ \A j \in E : j \in Nat /\ 1 <= j /\ j <= N
  BY OrderFacts DEF Positions
<1> HIDE DEF N
<1>f. \A i : IsFiniteSet(before(i)) /\ Cardinality(before(i)) \in Nat
  BY OrderFacts
<1>1. N + 1 \in T
  <2>1. before(N + 1) = E
    BY <1>p
  <2> QED BY <2>1, <1>p
<1>2. PICK m \in T : \A y \in T : m <= y
  <2>1. T \subseteq Nat
    BY <1>p
  <2> HIDE DEF T
  <2> QED BY <1>1, <2>1, LeastElement
<1>3. m # 1
  <2>1. before(1) = {}
    BY <1>p
  <2>2. ~(Cardinality({}) > t)
    BY FS_EmptySet
  <2> QED BY <2>1, <2>2
<1>4. m - 1 \in 1 .. N /\ m - 1 \notin T
  BY <1>2, <1>3, <1>p
<1>6. before(m) = IF m - 1 \in E THEN before(m - 1) \cup {m - 1} ELSE before(m - 1)
  BY <1>4, <1>p
<1>7. m - 1 \notin before(m - 1)
  BY <1>4
<1>8. Cardinality(before(m)) > t /\ ~(Cardinality(before(m - 1)) > t)
  BY <1>4, <1>p
<1> HIDE DEF before
<1>9. Cardinality(before(m - 1) \cup {m - 1}) = Cardinality(before(m - 1)) + 1
  BY <1>f, <1>7, FS_AddElement
<1>10. m - 1 \in E /\ Cardinality(before(m - 1)) = t
  BY <1>6, <1>8, <1>9, <1>f
<1> QED BY <1>10 DEF before

(* The running comparison of the scan is the order of PickSpec: it takes a *)
(* value exactly when the one it holds is worse, and being worse is a      *)
(* strict order that never ranks two values both ways.                     *)
LEMMA BeatsIsOrder ==
    ASSUME NEW s, NEW u \in Nat, NEW v \in Nat, NEW w \in Nat
    PROVE  /\ Beats(s, v, u) <=> Atomic!Worse(s, u, v)
           /\ ~Atomic!Worse(s, u, u)
           /\ Atomic!Worse(s, u, v) => ~Atomic!Worse(s, v, u)
           /\ ~Atomic!Worse(s, u, v) /\ Atomic!Worse(s, u, w) => Atomic!Worse(s, v, w)
           /\ ~Atomic!Worse(s, u, v) /\ ~Atomic!Worse(s, v, w) => ~Atomic!Worse(s, u, w)
BY DEF Beats, Atomic!Worse

(* The scan's best: no eligible node is better and every earlier one is    *)
(* worse.                                                                  *)
LEMMA BestIsBest ==
    ASSUME NEW E \in SUBSET Positions, E # {}, NEW s, NEW v \in [Nodes -> Nat]
    PROVE  LET b == BestOf(E, s, v)
           IN  /\ b \in E
               /\ \A j \in E \ {b} :
                    /\ ~Atomic!Worse(s, v[Order[b]], v[Order[j]])
                    /\ j < b => Atomic!Worse(s, v[Order[j]], v[Order[b]])
<1> DEFINE N == Len(Order)
           value(i) == v[Order[i]]
           takes(i, b) == i \in E /\ (b = 0 \/ Beats(s, value(i), value(b)))
           next(i, b) == IF takes(i, b) THEN i ELSE b
           best == CHOOSE f : f = [i \in 0 .. N |-> IF i = 0 THEN 0 ELSE next(i, f[i - 1])]
<1>1. BestOf(E, s, v) = best[N]
  BY DEF BestOf
<1>2. N \in Nat /\ \A j \in E : j \in Nat /\ 1 <= j /\ j <= N
  BY OrderFacts DEF Positions
<1>3. \A j \in E : value(j) \in Nat
  BY OrderFacts
<1> HIDE DEF value, N
<1>4. /\ best[0] = 0
      /\ \A i \in 1 .. N : best[i] = next(i, best[i - 1])
  <2> DEFINE D == 0 .. N
             step == [p \in D \X (1 .. N) |-> next(p[2], p[1])]
  <2>1. 0 \in D /\ step \in [D \X (1 .. N) -> D]
    BY <1>2
  <2>2. PICK f : IsLoop(f, D, N, 0, step)
    <3> HIDE DEF step, D
    <3> QED BY <2>1, <1>2, LoopExists
  <2> HIDE DEF next, best
  <2>3. ASSUME NEW i \in 1 .. N PROVE f[i] = next(i, f[i - 1])
    <3>1. f[i] = step[<<f[i - 1], i>>] /\ f[i - 1] \in D
      <4> HIDE DEF step
      <4> QED BY <2>2, <1>2 DEF IsLoop
    <3> QED BY <3>1
  <2>4. f = [i \in 0 .. N |-> IF i = 0 THEN 0 ELSE next(i, f[i - 1])]
    <3>1. f \in [0 .. N -> D] /\ f[0] = 0
      BY <2>2 DEF IsLoop
    <3>2. \A i \in 0 .. N : f[i] = IF i = 0 THEN 0 ELSE next(i, f[i - 1])
      BY <2>3, <3>1, <1>2
    <3> QED BY <3>1, <3>2
  <2>5. best = [i \in 0 .. N |-> IF i = 0 THEN 0 ELSE next(i, best[i - 1])]
    BY <2>4 DEF best
  <2>6. ASSUME NEW i \in 1 .. N PROVE best[i] = next(i, best[i - 1])
    <3>1. i \in 0 .. N /\ i # 0
      BY <1>2
    <3> QED BY <2>5, <3>1, Zenon
  <2>7. best[0] = 0
    <3>1. 0 \in 0 .. N
      BY <1>2
    <3> QED BY <2>5, <3>1, Zenon
  <2> QED BY <2>6, <2>7
<1> HIDE DEF best
<1> DEFINE Good(i) ==
             /\ best[i] \in {0} \cup {j \in E : j <= i}
             /\ best[i] = 0 => \A j \in E : ~(j <= i)
             /\ best[i] # 0 => \A j \in E :
                  j <= i /\ j # best[i] =>
                     /\ ~Atomic!Worse(s, value(best[i]), value(j))
                     /\ j < best[i] => Atomic!Worse(s, value(j), value(best[i]))
           S == {i \in Nat : i <= N => Good(i)}
<1>5. 0 \in S
  BY <1>2, <1>4
<1>6. ASSUME NEW k \in S PROVE k + 1 \in S
  <2> SUFFICES ASSUME k + 1 <= N PROVE Good(k + 1)
    OBVIOUS
  <2>1. Good(k) /\ best[k + 1] = next(k + 1, best[k])
    BY <1>2, <1>4
  <2>2. CASE k + 1 \notin E
    <3>1. best[k + 1] = best[k] /\ \A j \in E : j <= k + 1 => j <= k
      BY <2>1, <2>2, <1>2
    <3> QED BY <2>1, <3>1, <1>2
  <2>3. CASE k + 1 \in E /\ best[k] = 0
    BY <2>1, <2>3, <1>2, <1>3, BeatsIsOrder
  <2>4. CASE k + 1 \in E /\ best[k] # 0 /\ Beats(s, value(k + 1), value(best[k]))
    <3>1. best[k + 1] = k + 1 /\ best[k] \in E
      BY <2>1, <2>4
    <3>2. ASSUME NEW j \in E, j <= k PROVE Atomic!Worse(s, value(j), value(k + 1))
      <4>1. Atomic!Worse(s, value(best[k]), value(k + 1))
        BY <2>4, <3>1, <1>3, BeatsIsOrder
      <4>2. j # best[k] => ~Atomic!Worse(s, value(best[k]), value(j))
        BY <2>1, <2>4, <3>2
      <4> QED BY <4>1, <4>2, <3>1, <2>4, <1>3, BeatsIsOrder
    <3>3. ASSUME NEW j \in E, j <= k PROVE ~Atomic!Worse(s, value(k + 1), value(j))
      BY <3>2, <3>3, <2>4, <1>3, BeatsIsOrder
    <3> QED BY <3>1, <3>2, <3>3, <2>4, <1>2
  <2>5. CASE k + 1 \in E /\ best[k] # 0 /\ ~Beats(s, value(k + 1), value(best[k]))
    <3>1. best[k + 1] = best[k] /\ best[k] \in E /\ best[k] <= k
      BY <2>1, <2>5
    <3>2. ~Atomic!Worse(s, value(best[k]), value(k + 1))
      BY <2>5, <3>1, <1>3, BeatsIsOrder
    <3> QED BY <3>1, <3>2, <2>1, <2>5, <1>2
  <2> QED BY <2>2, <2>3, <2>4, <2>5
<1>7. N \in S
  <2>1. S \in SUBSET Nat /\ \A k \in S : k + 1 \in S
    BY <1>6
  <2> HIDE DEF S
  <2> QED BY <1>5, <2>1, <1>2, Induction
<1>8. Good(N)
  BY <1>2, <1>7
<1>9. best[N] \in E
  BY <1>2, <1>8
<1> QED BY <1>1, <1>2, <1>8, <1>9 DEF value

(* Eligible positions hold the nodes a group prefers.                      *)
LEMMA EligibleIsPreferred ==
    ASSUME NEW g, NEW exclude
    PROVE  /\ Eligible(g, exclude) \in SUBSET Positions
           /\ Atomic!Preferred(g, exclude) = {Order[i] : i \in Eligible(g, exclude)}
<1> DEFINE usable == {i \in Positions : /\ proxyHardRoutable(Order[i])
                                        /\ matches(g, Order[i])
                                        /\ Order[i] \notin exclude}
           up == {i \in usable : Available(Order[i])}
           atUp == {n \in Atomic!Usable(g, exclude) : status[n] = "up"}
<1>1. Eligible(g, exclude) = IF up # {} THEN up ELSE usable
  BY DEF Eligible
<1>2. Atomic!Preferred(g, exclude) = IF atUp # {} THEN atUp ELSE Atomic!Usable(g, exclude)
  BY DEF Atomic!Preferred
<1>3. \A n \in Nodes : \E i \in Positions : Order[i] = n
  BY OrderAssumption DEF Positions
<1>4. Atomic!Usable(g, exclude) = {Order[i] : i \in usable}
  BY <1>3, OrderFacts DEF Atomic!Usable, proxyHardRoutable, matches
<1>5. atUp = {Order[i] : i \in up}
  BY <1>4 DEF Available
<1>6. up # {} <=> atUp # {}
  BY <1>5
<1> QED BY <1>1, <1>2, <1>4, <1>5, <1>6

(* Before orders nodes by position, and no node stands at two positions.   *)
LEMMA PositionsAreOrdered ==
    /\ \A i, j \in Positions : Atomic!Before(Order[i], Order[j]) <=> i < j
    /\ \A i, j \in Positions : Order[i] = Order[j] => i = j
BY OrderAssumption DEF Positions, Atomic!Before

(* Nodes and their positions are equally many.                             *)
LEMMA NodesOfPositions ==
    ASSUME NEW E \in SUBSET Positions
    PROVE  Cardinality({Order[i] : i \in E}) = Cardinality(E)
<1> DEFINE T == {Order[i] : i \in E}
           f == [i \in E |-> Order[i]]
<1>1. f \in Bijection(E, T)
  <2>1. f \in [E -> T] /\ \A n \in T : \E i \in E : f[i] = n
    OBVIOUS
  <2>2. \A i, j \in E : f[i] = f[j] => i = j
    BY PositionsAreOrdered
  <2> QED BY <2>1, <2>2 DEF Bijection, Injection, Surjection, IsInjective
<1>2. ExistsBijection(E, T)
  BY <1>1 DEF ExistsBijection
<1> QED BY <1>2, OrderFacts, FS_Bijection

(* PickSpec counts with the same cardinality.                              *)
LEMMA SameCardinality == \A S : Atomic!Cardinality(S) = Cardinality(S)
BY DEF Atomic!Cardinality, Cardinality

(* The scan finds nothing only if the group prefers nothing, and what it   *)
(* finds is a right answer.                                                *)
LEMMA ScanIsRight ==
    ASSUME NEW g, NEW s \in Strategies \cup {"sticky"}, NEW cur, cur.rr \in Nat,
           NEW exclude, metric \in [Measured -> [Nodes -> Metrics]]
    PROVE  LET found == selectProxyLocked(g, s, cur, exclude)
               P == Atomic!Preferred(g, exclude)
           IN  /\ found = {} <=> P = {}
               /\ found \subseteq P
               /\ \A n \in found : Atomic!RightChoice(n, s, P, cur)
<1> DEFINE E == Eligible(g, exclude)
           P == Atomic!Preferred(g, exclude)
           found == selectProxyLocked(g, s, cur, exclude)
<1> SUFFICES /\ found = {} <=> P = {}
             /\ found \subseteq P
             /\ \A n \in found : Atomic!RightChoice(n, s, P, cur)
  OBVIOUS
<1>1. E \in SUBSET Positions /\ P = {Order[i] : i \in E}
  BY EligibleIsPreferred
<1>2. CASE E = {}
  <2>1. found = {} /\ P = {}
    BY <1>1, <1>2 DEF selectProxyLocked
  <2> QED BY <2>1
<1>3. CASE E # {} /\ s = "round-robin"
  <2> DEFINE seen(i) == Cardinality({j \in E : j < i})
             t == cur.rr % Cardinality(E)
  <2>1. found = {Order[i] : i \in {i \in E : seen(i) = t}}
    BY <1>3 DEF selectProxyLocked
  <2>2. Cardinality(E) \in Nat \ {0} /\ Cardinality(P) = Cardinality(E)
    BY <1>1, <1>3, OrderFacts, FS_EmptySet, NodesOfPositions
  <2>3. t \in Nat /\ t < Cardinality(E)
    BY <2>2
  <2>4. \E i \in E : seen(i) = t
    <3> HIDE DEF t, E
    <3> QED BY <1>1, <2>3, TurnExists
  <2>5. ASSUME NEW i \in E, seen(i) = t
        PROVE  Atomic!RightChoice(Order[i], s, P, cur)
    <3> DEFINE B == {j \in E : j < i}
    <3>1. {m \in P : Atomic!Before(m, Order[i])} = {Order[j] : j \in B}
      BY <1>1, PositionsAreOrdered
    <3>2. Cardinality({Order[j] : j \in B}) = Cardinality(B)
      BY <1>1, NodesOfPositions
    <3>3. Cardinality({m \in P : Atomic!Before(m, Order[i])}) = cur.rr % Cardinality(P)
      BY <2>2, <2>5, <3>1, <3>2
    <3>4. Order[i] \in P
      BY <1>1
    <3> HIDE DEF P
    <3>5. s # "sticky"
      BY <1>3
    <3> QED BY <1>3, <3>3, <3>4, <3>5, SameCardinality, Zenon DEF Atomic!RightChoice
  <2>6. P # {}
    BY <1>1, <1>3
  <2> HIDE DEF P, seen, t, found, E
  <2> QED BY <1>1, <2>1, <2>4, <2>5, <2>6
<1>4. CASE E # {} /\ s = "random"
  <2>1. found = P /\ P # {}
    BY <1>1, <1>4 DEF selectProxyLocked
  <2>2. \A n \in P : Atomic!RightChoice(n, s, P, cur)
    <3> HIDE DEF P
    <3> QED BY <1>4 DEF Atomic!RightChoice
  <2> QED BY <2>1, <2>2
<1>5. CASE E # {} /\ s = "sticky"
  <2> DEFINE n == IF \E i \in E : Order[i] = cur.sticky THEN cur.sticky
                  ELSE Order[First(E)]
  <2>1. found = {n}
    BY <1>5 DEF selectProxyLocked
  <2>2. First(E) \in E /\ \A j \in E : First(E) <= j
    BY <1>1, <1>5, FirstIsLeast
  <2>3. n \in P /\ (cur.sticky \in P => n = cur.sticky)
    BY <1>1, <2>2
  <2>4. cur.sticky \notin P => \A m \in P : ~Atomic!Before(m, n)
    <3> SUFFICES ASSUME cur.sticky \notin P, NEW j \in E
                 PROVE  ~Atomic!Before(Order[j], n)
      BY <1>1
    <3>1. n = Order[First(E)]
      BY <1>1
    <3>2. j \in Nat /\ First(E) \in Nat /\ First(E) <= j
      BY <1>1, <2>2, OrderFacts
    <3> QED BY <1>1, <2>2, <3>1, <3>2, PositionsAreOrdered
  <2>5. Atomic!RightChoice(n, s, P, cur)
    <3> HIDE DEF P, n
    <3> QED BY <1>5, <2>3, <2>4 DEF Atomic!RightChoice
  <2> HIDE DEF n, P, found
  <2> QED BY <2>1, <2>3, <2>5
<1>6. CASE E # {} /\ s \notin {"round-robin", "random", "sticky"}
  <2> DEFINE b == BestOf(E, s, metric[s])
  <2>1. metric[s] \in [Nodes -> Nat]
    <3>1. s \in Measured
      BY <1>6, GroupAssumption DEF Measured
    <3> QED BY <3>1, GroupAssumption
  <2>2. found = {Order[b]}
    BY <1>6 DEF selectProxyLocked
  <2>3. /\ b \in E
        /\ \A j \in E \ {b} :
             /\ ~Atomic!Worse(s, metric[s][Order[b]], metric[s][Order[j]])
             /\ j < b => Atomic!Worse(s, metric[s][Order[j]], metric[s][Order[b]])
    <3> HIDE DEF E
    <3> QED BY <1>1, <1>6, <2>1, BestIsBest
  <2> HIDE DEF b
  <2>4. Order[b] \in P
    BY <1>1, <2>3
  <2>5. ASSUME NEW m \in P \ {Order[b]}
        PROVE  /\ ~Atomic!Worse(s, metric[s][Order[b]], metric[s][m])
               /\ Atomic!Before(m, Order[b])
                    => Atomic!Worse(s, metric[s][m], metric[s][Order[b]])
    <3>1. PICK j \in E : m = Order[j]
      BY <1>1
    <3>2. j # b
      BY <3>1
    <3> QED BY <1>1, <2>3, <3>1, <3>2, PositionsAreOrdered
  <2>6. Atomic!RightChoice(Order[b], s, P, cur)
    <3> HIDE DEF P
    <3> QED BY <1>6, <2>4, <2>5 DEF Atomic!RightChoice
  <2> HIDE DEF P, found
  <2> QED BY <2>2, <2>4, <2>6
<1> QED BY <1>2, <1>3, <1>4, <1>5, <1>6

(* Everything the scan returns is a routable node of the pool.             *)
LEMMA ScanIsLive ==
    ASSUME NEW g, NEW s \in Strategies \cup {"sticky"}, NEW cur, cur.rr \in Nat,
           NEW exclude, metric \in [Measured -> [Nodes -> Metrics]],
           NEW n \in selectProxyLocked(g, s, cur, exclude)
    PROVE  n \in Nodes /\ n \in Live
<1>1. n \in Atomic!Preferred(g, exclude)
  BY ScanIsRight
<1>2. n \in Atomic!Usable(g, exclude)
  BY <1>1 DEF Atomic!Preferred
<1> QED BY <1>2 DEF Atomic!Usable, Live

-----------------------------------------------------------------------------
(* Types.  An attempt that waits for its commit is not the last one, and a *)
(* connection with a choice has a node.                                    *)
ConnShape(k) ==
    /\ k.pc \in {"commit", "picked", "failed"} => k.choice \in Nodes
    /\ k.pc = "commit" => k.attempt < MaxAttempts
Shapes == \A c \in Conns : ConnShape(conn[c])

(* The cursors a pick, a plan and a start leave behind.                    *)
LEMMA CursorTypes ==
    /\ EmptyCursor \in Cursor
    /\ \A cur \in Cursor : cur.rr \in Nat
    /\ \A s, keep : \A cur \in Cursor, n \in Nodes : Advance(cur, n, s, keep) \in Cursor
    /\ \A cur \in [Group -> Cursor], L \in SUBSET Nodes :
          cleanedGroupState(cur, L) \in [Group -> Cursor]
<1> USE BoundsAssumption DEF Cursor
<1>1. EmptyCursor \in Cursor
  BY DEF EmptyCursor
<1>2. \A cur \in Cursor : cur.rr \in Nat
  OBVIOUS
<1>3. ASSUME NEW cur \in Cursor, NEW n \in Nodes, NEW s, NEW keep
      PROVE  Advance(cur, n, s, keep) \in Cursor
  <2>1. (cur.rr + 1) % Turns \in 0 .. Turns - 1
    OBVIOUS
  <2> QED BY <2>1 DEF Advance
<1>4. ASSUME NEW cur \in [Group -> Cursor], NEW L \in SUBSET Nodes
      PROVE  cleanedGroupState(cur, L) \in [Group -> Cursor]
  BY <1>1 DEF cleanedGroupState
<1> QED BY <1>1, <1>2, <1>3, <1>4

(* What the connection's own steps make of it.                             *)
LEMMA ConnTypes ==
    /\ Ended \in Conn /\ ConnShape(Ended)
    /\ \A k \in Conn : /\ Scanned(k) \in Conn
                       /\ NextTry(k) \in Conn /\ ConnShape(NextTry(k))
                       /\ k.attempt < MaxAttempts =>
                            Lost(Scanned(k)) \in Conn /\ ConnShape(Lost(Scanned(k)))
    /\ \A cs \in [Conns -> Conn] : /\ RoutingRevised(cs) \in [Conns -> Conn]
                                   /\ StatsRevised(cs) \in [Conns -> Conn]
    /\ \A cs \in [Conns -> Conn] : \A c \in Conns : ConnShape(cs[c]) =>
          /\ ConnShape(RoutingRevised(cs)[c])
          /\ ConnShape(StatsRevised(cs)[c])
<1>b. MaxAttempts \in Nat \ {0} /\ MaxRetries \in Nat \ {0}
  BY BoundsAssumption
<1>e. EmptyCursor \in Cursor
  BY CursorTypes
<1>i. Idle \in Conn
  BY <1>b, <1>e DEF Idle, Group, Conn
<1>1. Ended \in Conn /\ ConnShape(Ended)
  BY <1>i DEF Ended, Conn, ConnShape
<1>2. ASSUME NEW k \in Conn PROVE Scanned(k) \in Conn
  BY <1>e DEF Scanned, Conn
<1>3. ASSUME NEW k \in Conn PROVE NextTry(k) \in Conn /\ ConnShape(NextTry(k))
  <2> DEFINE r == [k EXCEPT !.pc = "scan", !.tries = @ + 1, !.attempt = 0, !.choice = None,
                            !.dialable = FALSE]
  <2>1. CASE k.tries = MaxRetries
    BY <1>1, <2>1 DEF NextTry
  <2>2. CASE k.tries # MaxRetries
    <3>1. k.tries + 1 \in 0 .. MaxRetries /\ 0 \in 0 .. MaxAttempts
      BY <1>b, <2>2 DEF Conn
    <3>2. r \in Conn /\ r.pc = "scan"
      BY <3>1 DEF Conn
    <3> QED BY <2>2, <3>2 DEF NextTry, ConnShape
  <2> QED BY <2>1, <2>2
<1>4. ASSUME NEW k \in Conn, k.attempt < MaxAttempts
      PROVE  Lost(Scanned(k)) \in Conn /\ ConnShape(Lost(Scanned(k)))
  <2> DEFINE q == Scanned(k)
  <2>1. q \in Conn /\ q.attempt = k.attempt
    BY <1>2 DEF Scanned, Conn
  <2> HIDE DEF q
  <2>2. q.attempt + 1 \in 0 .. MaxAttempts
    BY <1>b, <1>4, <2>1 DEF Conn
  <2>3. Lost(q) \in Conn /\ Lost(q).pc = "scan"
    BY <2>1, <2>2 DEF Lost, Conn
  <2> QED BY <2>3 DEF ConnShape, q
<1>5. ASSUME NEW cs \in [Conns -> Conn]
      PROVE  /\ RoutingRevised(cs) \in [Conns -> Conn]
             /\ StatsRevised(cs) \in [Conns -> Conn]
  <2>1. \A k \in Conn, f \in BOOLEAN : [k EXCEPT !.fresh = f] \in Conn
    BY DEF Conn
  <2>2. \A c \in Conns : cs[c] \in Conn /\ cs[c].fresh \in BOOLEAN
    BY DEF Conn
  <2> QED BY <2>1, <2>2 DEF RoutingRevised, StatsRevised
<1>6. ASSUME NEW cs \in [Conns -> Conn], NEW c \in Conns, ConnShape(cs[c])
      PROVE  ConnShape(RoutingRevised(cs)[c]) /\ ConnShape(StatsRevised(cs)[c])
  BY <1>6 DEF RoutingRevised, StatsRevised, ConnShape, Conn
<1> QED BY <1>1, <1>2, <1>3, <1>4, <1>5, <1>6

(* A plan that the pool outran is dropped.                                 *)
LEMMA PlanTypes ==
    ASSUME plan \in Plan, GenerationMoved \/ UNCHANGED plan
    PROVE  plan' \in Plan
BY DEF GenerationMoved, Plan

(* Types and shapes hold to begin with.                                    *)
LEMMA TypesInit == Init => TypeOK /\ Shapes
<1> SUFFICES ASSUME Init PROVE TypeOK /\ Shapes
  OBVIOUS
<1>1. status \in [Nodes -> Status] /\ member \in [Named -> SUBSET Nodes]
  BY StartAssumption DEF Init, Status
<1>2. metric \in [Measured -> [Nodes -> Metrics]] /\ plan \in Plan
  BY GroupAssumption DEF Init, Plan
<1>3. cursor \in [Group -> Cursor]
  <2>1. \A n \in Nodes : [EmptyCursor EXCEPT !.sticky = n, !.last = n, !.pinned = TRUE] \in Cursor
    BY CursorTypes DEF Cursor
  <2>2. Pins \subseteq Cursor
    BY <2>1, CursorTypes, StartAssumption DEF Pins
  <2> QED BY <2>2, CursorTypes DEF Init
<1>4. changes \in 0 .. MaxChanges
  <2>1. changes = 0
    BY DEF Init
  <2> QED BY <2>1, BoundsAssumption
<1>5. PICK load \in Traffic : conn = [c \in Conns |-> [Idle EXCEPT
          !.fallback = load[c].fallback, !.group = load[c].group,
          !.strategy = load[c].strategy]]
  BY DEF Init
<1>6. ASSUME NEW c \in Conns PROVE conn[c] \in Conn /\ ConnShape(conn[c])
  <2>1. /\ load[c].fallback \in BOOLEAN /\ load[c].group \in Group
        /\ load[c].strategy \in Strategies \cup {"sticky"}
    BY TrafficAssumption DEF Group
  <2>2. Idle \in Conn /\ Idle.pc = "idle"
    BY BoundsAssumption, CursorTypes DEF Idle, Group, Conn
  <2> HIDE DEF Idle
  <2> QED BY <1>5, <2>1, <2>2 DEF Conn, ConnShape
<1> QED BY <1>1, <1>2, <1>3, <1>4, <1>5, <1>6 DEF TypeOK, Shapes

(* A step of the connections keeps them.                                   *)
LEMMA TypesConn ==
    ASSUME TypeOK, Shapes, NEW c \in Conns, Accept(c) \/ ConnStep(c)
    PROVE  TypeOK' /\ Shapes'
<1> DEFINE k == conn[c]
<1>k. k \in Conn /\ ConnShape(k) /\ k.attempt \in Nat /\ cursor[k.group] \in Cursor
  BY BoundsAssumption DEF TypeOK, Shapes, Conn
<1>b. 0 \in 0 .. MaxAttempts /\ 1 \in 0 .. MaxRetries
  BY BoundsAssumption
<1>u. ASSUME NEW r, r \in Conn, ConnShape(r)
      PROVE  /\ [conn EXCEPT ![c] = r] \in [Conns -> Conn]
             /\ \A d \in Conns : ConnShape([conn EXCEPT ![c] = r][d])
  BY <1>u DEF TypeOK, Shapes
<1>s. ASSUME NEW r, r \in Conn, ConnShape(r), conn' = [conn EXCEPT ![c] = r],
             UNCHANGED <<status, member, metric, plan, changes>>,
             cursor' \in [Group -> Cursor]
      PROVE  TypeOK' /\ Shapes'
  <2>1. conn' \in [Conns -> Conn] /\ \A d \in Conns : ConnShape(conn'[d])
    BY <1>s, <1>u
  <2> QED BY <1>s, <2>1 DEF TypeOK, Shapes, ConnShape
<1>t. ASSUME NEW r, r \in Conn, ConnShape(r), NEW cs, cs = [conn EXCEPT ![c] = r],
             conn' = cs \/ conn' = RoutingRevised(cs) \/ conn' = StatsRevised(cs),
             status' \in [Nodes -> Status], metric' \in [Measured -> [Nodes -> Metrics]],
             GenerationMoved \/ UNCHANGED plan, UNCHANGED <<member, cursor, changes>>
      PROVE  TypeOK' /\ Shapes'
  <2>1. cs \in [Conns -> Conn] /\ \A d \in Conns : ConnShape(cs[d])
    BY <1>t, <1>u
  <2>2. conn' \in [Conns -> Conn] /\ \A d \in Conns : ConnShape(conn'[d])
    BY <1>t, <2>1, ConnTypes
  <2>3. plan' \in Plan
    BY <1>t, PlanTypes DEF TypeOK
  <2> QED BY <1>t, <2>2, <2>3 DEF TypeOK, Shapes, ConnShape
<1>f. \A n \in selectProxyLocked(k.group, k.strategy, cursor[k.group], k.exclude) : n \in Nodes
  BY <1>k, CursorTypes, ScanIsLive DEF TypeOK, Conn
<1>1. CASE Accept(c)
  <2> DEFINE r == [k EXCEPT !.pc = "scan", !.tries = 1]
  <2>2. r \in Conn /\ r.pc = "scan"
    BY <1>k, <1>b DEF Conn
  <2>3. conn' = [conn EXCEPT ![c] = r]
    BY <1>1 DEF Accept, TypeOK
  <2> HIDE DEF r
  <2> QED BY <1>1, <1>s, <2>2, <2>3 DEF Accept, pool, TypeOK, ConnShape
<1>2. CASE PickScan(c)
  <2>1. CASE conn' = [conn EXCEPT ![c].pc = "none"]
    <3> DEFINE r == [k EXCEPT !.pc = "none"]
    <3>1. r \in Conn /\ r.pc = "none" /\ conn' = [conn EXCEPT ![c] = r]
      BY <1>k, <2>1 DEF Conn, TypeOK
    <3> HIDE DEF r
    <3> QED BY <1>2, <1>s, <3>1 DEF PickScan, pool, TypeOK, ConnShape
  <2>2. ASSUME NEW n \in selectProxyLocked(k.group, k.strategy, cursor[k.group], k.exclude),
               conn' = [conn EXCEPT ![c] = [k EXCEPT
                          !.pc = "commit", !.choice = n, !.fresh = TRUE,
                          !.keep = preservePin(cursor[k.group], n),
                          !.seen = [cursor[k.group] EXCEPT !.last = None]]]
        PROVE  TypeOK' /\ Shapes'
    <3> DEFINE r == [k EXCEPT !.pc = "commit", !.choice = n, !.fresh = TRUE,
                              !.keep = preservePin(cursor[k.group], n),
                              !.seen = [cursor[k.group] EXCEPT !.last = None]]
    <3>1. /\ [cursor[k.group] EXCEPT !.last = None] \in Cursor
          /\ preservePin(cursor[k.group], n) \in BOOLEAN
      BY <1>k DEF Cursor, preservePin
    <3>2. r \in Conn /\ r.choice = n /\ r.attempt = k.attempt
      BY <1>k, <1>f, <3>1 DEF Conn
    <3>3. ConnShape(r)
      BY <1>2, <1>f, <3>2 DEF ConnShape, PickScan
    <3> HIDE DEF r
    <3> QED BY <1>2, <1>s, <2>2, <3>2, <3>3 DEF PickScan, pool, TypeOK, r
  <2> QED BY <1>2, <2>1, <2>2 DEF PickScan
<1>3. CASE PickCommit(c)
  <2>1. CASE /\ conn' = [conn EXCEPT ![c] = [Scanned(k) EXCEPT
                            !.pc = "picked", !.attempt = 0,
                            !.dialable = k.fallback \/ Available(k.choice)]]
             /\ cursor' = [cursor EXCEPT ![k.group] =
                              Advance(@, k.choice, k.strategy, k.keep)]
             /\ k.pc = "commit"
    <3> DEFINE q == Scanned(k)
               b == k.fallback \/ Available(k.choice)
               r == [q EXCEPT !.pc = "picked", !.attempt = 0, !.dialable = b]
    <3>1. q \in Conn /\ q.choice = k.choice /\ b \in BOOLEAN /\ k.choice \in Nodes
      BY <1>k, <2>1, ConnTypes DEF Conn, Scanned, ConnShape
    <3>2. Advance(cursor[k.group], k.choice, k.strategy, k.keep) \in Cursor
      BY <1>k, <3>1, CursorTypes
    <3>3. conn' = [conn EXCEPT ![c] = r] /\ cursor' \in [Group -> Cursor]
      BY <2>1, <3>2 DEF TypeOK
    <3> HIDE DEF q, b
    <3>4. r \in Conn /\ r.pc = "picked" /\ r.choice = k.choice
      BY <1>b, <3>1 DEF Conn
    <3> HIDE DEF r
    <3> QED BY <1>3, <1>s, <3>1, <3>3, <3>4 DEF PickCommit, ConnShape
  <2>2. CASE conn' = [conn EXCEPT ![c] = Lost(Scanned(k))] /\ UNCHANGED cursor
    BY <1>3, <1>s, <1>k, <2>2, ConnTypes DEF PickCommit, TypeOK, ConnShape
  <2> QED BY <1>3, <2>1, <2>2 DEF PickCommit
<1>4. CASE PickSerialized(c)
  <2>1. CASE conn' = [conn EXCEPT ![c].pc = "none"] /\ UNCHANGED cursor
    <3> DEFINE r == [k EXCEPT !.pc = "none"]
    <3>1. r \in Conn /\ r.pc = "none" /\ conn' = [conn EXCEPT ![c] = r]
      BY <1>k, <2>1 DEF Conn, TypeOK
    <3> HIDE DEF r
    <3> QED BY <1>4, <1>s, <2>1, <3>1 DEF PickSerialized, TypeOK, ConnShape
  <2>2. ASSUME NEW n \in selectProxyLocked(k.group, k.strategy, cursor[k.group], k.exclude),
               conn' = [conn EXCEPT ![c].pc = "picked", ![c].attempt = 0, ![c].choice = n,
                                    ![c].dialable = k.fallback \/ Available(n)],
               cursor' = [cursor EXCEPT ![k.group] =
                            Advance(@, n, k.strategy, preservePin(cursor[k.group], n))]
        PROVE  TypeOK' /\ Shapes'
    <3> DEFINE b == k.fallback \/ Available(n)
               r == [k EXCEPT !.pc = "picked", !.attempt = 0, !.choice = n, !.dialable = b]
    <3>1. n \in Nodes /\ b \in BOOLEAN
      BY <1>k, <1>f DEF Conn
    <3>2. conn' = [conn EXCEPT ![c] = r]
      BY <2>2 DEF TypeOK
    <3>3. cursor' \in [Group -> Cursor]
      BY <1>k, <2>2, <3>1, CursorTypes DEF TypeOK
    <3> HIDE DEF b
    <3>4. r \in Conn /\ r.pc = "picked" /\ r.choice = n
      BY <1>k, <1>b, <3>1 DEF Conn
    <3> HIDE DEF r
    <3> QED BY <1>4, <1>s, <3>1, <3>2, <3>3, <3>4 DEF PickSerialized, ConnShape
  <2> QED BY <1>4, <2>1, <2>2 DEF PickSerialized
<1>5. CASE NoMember(c)
  <2> DEFINE q == [k EXCEPT !.group = GroupAny, !.strategy = "sticky"]
  <2>1. q \in Conn
    BY <1>k DEF Conn, Group
  <2> HIDE DEF q
  <2>2. conn' = [conn EXCEPT ![c] = NextTry(q)] \/ conn' = [conn EXCEPT ![c] = Ended]
    BY <1>5 DEF NoMember, q
  <2> QED BY <1>5, <1>s, <2>1, <2>2, ConnTypes DEF NoMember, pool, TypeOK
<1>6. CASE RefuseUnavailable(c) \/ DialAborted(c)
  BY <1>6, <1>s, ConnTypes DEF RefuseUnavailable, DialAborted, pool, TypeOK
<1>r. ASSUME NEW n, NEW v \in Metrics, RecordResult(n, v)
      PROVE  metric' \in [Measured -> [Nodes -> Metrics]]
  BY <1>r DEF TypeOK, RecordResult
<1>7. CASE DialSucceeds(c)
  <2>1. metric' \in [Measured -> [Nodes -> Metrics]]
    BY <1>7, <1>r DEF DialSucceeds
  <2> DEFINE cs == [conn EXCEPT ![c] = Ended]
  <2>2. conn' = StatsRevised(cs)
    BY <1>7 DEF DialSucceeds
  <2> HIDE DEF cs
  <2> QED BY <1>7, <1>t, <2>1, <2>2, ConnTypes DEF DialSucceeds, TypeOK, cs
<1>8. CASE DialFails(c) \/ ObserveFailure(c)
  <2> DEFINE q == [k EXCEPT !.exclude = @ \cup {k.choice}]
             next == [conn EXCEPT ![c] = NextTry(q)]
  <2>1. q \in Conn
    BY <1>8, <1>k DEF Conn, ConnShape, DialFails, ObserveFailure, MayDial
  <2>2. next = Excluding(c)
    BY DEF Excluding
  <2> HIDE DEF q, next
  <2>3. UNCHANGED status \/ status' = [status EXCEPT ![k.choice] = "down"]
    BY <1>8 DEF DialFails, ObserveFailure, pool
  <2>4. status' \in [Nodes -> Status]
    BY <2>3 DEF TypeOK, Status
  <2>5. /\ conn' = next \/ conn' = RoutingRevised(next)
        /\ GenerationMoved \/ UNCHANGED plan
        /\ UNCHANGED <<member, metric, cursor, changes>>
    BY <1>8, <2>2 DEF DialFails, ObserveFailure, pool
  <2>6. NextTry(q) \in Conn /\ ConnShape(NextTry(q))
    BY <2>1, ConnTypes
  <2>7. metric' \in [Measured -> [Nodes -> Metrics]]
    BY <2>5 DEF TypeOK
  <2> QED BY <1>t, <2>4, <2>5, <2>6, <2>7 DEF next
<1>9. CASE RecordFailure(c)
  <2>1. metric' \in [Measured -> [Nodes -> Metrics]]
    BY <1>9, <1>r DEF RecordFailure
  <2> DEFINE q == [k EXCEPT !.pc = "failed"]
             cs == [conn EXCEPT ![c] = q]
  <2>2. q \in Conn /\ q.pc = "failed" /\ q.choice = k.choice /\ k.choice \in Nodes
    BY <1>9, <1>k DEF Conn, ConnShape, RecordFailure, MayDial
  <2>3. conn' = StatsRevised(cs)
    BY <1>9 DEF RecordFailure, TypeOK
  <2> HIDE DEF q
  <2>4. ConnShape(q)
    BY <2>2 DEF ConnShape
  <2> HIDE DEF cs
  <2> QED BY <1>9, <1>t, <2>1, <2>2, <2>3, <2>4 DEF RecordFailure, TypeOK, cs
<1> QED BY <1>1, <1>2, <1>3, <1>4, <1>5, <1>6, <1>7, <1>8, <1>9 DEF ConnStep

(* A set of positions to rotate to holds the node rotation chooses.        *)
LEMMA NextIsEligible ==
    ASSUME NEW n, NEW E \in SUBSET Positions, E # {}
    PROVE  \E i \in E : NextInPool(n, E) = Order[i]
<1> DEFINE later == {i \in E : \E j \in Positions : j < i /\ Order[j] = n}
           L == IF later = {} THEN E ELSE later
<1>1. L \in SUBSET Positions /\ L # {} /\ L \subseteq E
  OBVIOUS
<1>2. NextInPool(n, E) = Order[First(L)]
  BY DEF NextInPool
<1> HIDE DEF L
<1> QED BY <1>1, <1>2, FirstIsLeast

LEMMA RotationIsLive ==
    ASSUME NEW n, Eligible(GroupAny, {}) # {}
    PROVE  /\ NextInPool(n, Eligible(GroupAny, {})) \in Nodes
           /\ NextInPool(n, Eligible(GroupAny, {})) \in Live
<1> DEFINE E == Eligible(GroupAny, {})
           m == NextInPool(n, E)
<1>1. E \in SUBSET Positions /\ Atomic!Preferred(GroupAny, {}) = {Order[i] : i \in E}
  BY EligibleIsPreferred
<1>2. \E i \in E : m = Order[i]
  <2> HIDE DEF E
  <2> QED BY <1>1, NextIsEligible DEF E
<1>3. m \in Atomic!Preferred(GroupAny, {})
  BY <1>1, <1>2
<1> HIDE DEF m
<1>4. m \in Atomic!Usable(GroupAny, {})
  BY <1>3 DEF Atomic!Preferred
<1> QED BY <1>4 DEF Atomic!Usable, Live, m

(* The dashboard and the timer keep the type of ANY's cursor.              *)
LEMMA AnyTypes ==
    ASSUME TypeOK,
           \/ \E n \in Nodes : forceSticky(n)
           \/ SetAuto \/ RotateSticky \/ RotateStickyForced
    PROVE  cursor' \in [Group -> Cursor]
<1>g. GroupAny \in Group /\ cursor[GroupAny] \in Cursor
  BY DEF TypeOK, Group
<1>u. ASSUME NEW r, r \in Cursor, cursor' = [cursor EXCEPT ![GroupAny] = r]
      PROVE  cursor' \in [Group -> Cursor]
  BY <1>u DEF TypeOK
<1>1. ASSUME NEW n \in Nodes, forceSticky(n) PROVE cursor' \in [Group -> Cursor]
  <2> DEFINE r == [cursor[GroupAny] EXCEPT !.sticky = n, !.last = n, !.pinned = TRUE]
  <2>1. r \in Cursor
    BY <1>g DEF Cursor
  <2>2. cursor' = [cursor EXCEPT ![GroupAny] = r]
    BY <1>1 DEF forceSticky
  <2> QED BY <1>u, <2>1, <2>2
<1>2. CASE SetAuto
  <2> DEFINE r == [cursor[GroupAny] EXCEPT !.pinned = FALSE]
  <2>1. r \in Cursor
    BY <1>g DEF Cursor
  <2>2. cursor' = [cursor EXCEPT ![GroupAny] = r]
    BY <1>2, <1>g DEF SetAuto, TypeOK
  <2> QED BY <1>u, <2>1, <2>2
<1>3. CASE RotateSticky \/ RotateStickyForced
  <2> DEFINE n == NextInPool(cursor[GroupAny].sticky, Eligible(GroupAny, {}))
             r == [cursor[GroupAny] EXCEPT !.sticky = n, !.last = n]
  <2>1. n \in Nodes
    BY <1>3, RotationIsLive DEF RotateSticky, RotateStickyForced, rotateSticky
  <2>2. cursor' = [cursor EXCEPT ![GroupAny] = r]
    BY <1>3 DEF RotateSticky, RotateStickyForced, rotateSticky
  <2> HIDE DEF n
  <2>3. r \in Cursor
    BY <1>g, <2>1 DEF Cursor
  <2> QED BY <1>u, <2>2, <2>3
<1> QED BY <1>1, <1>2, <1>3

(* Changes of the pool keep types and shapes.                              *)
LEMMA TypesOutside ==
    ASSUME TypeOK, Shapes, Next, ~\E c \in Conns : Accept(c) \/ ConnStep(c)
    PROVE  TypeOK' /\ Shapes'
<1>c. ASSUME conn' = conn \/ conn' = RoutingRevised(conn) \/ conn' = StatsRevised(conn)
      PROVE  conn' \in [Conns -> Conn] /\ Shapes'
  <2>1. conn' \in [Conns -> Conn] /\ \A d \in Conns : ConnShape(conn'[d])
    BY <1>c, ConnTypes DEF TypeOK, Shapes
  <2> QED BY <2>1 DEF Shapes, ConnShape
<1>h. Changing => changes' \in 0 .. MaxChanges
  BY BoundsAssumption DEF Changing, TypeOK
<1>1. ASSUME NEW n \in Nodes, NEW s \in {"up", "down", "barred"}, SetStatus(n, s)
      PROVE  TypeOK' /\ Shapes'
  BY <1>1, <1>c, <1>h, PlanTypes DEF SetStatus, TypeOK, Status
<1>2. ASSUME NEW n \in Nodes, NEW s \in Measured, NEW v \in Metrics, Measure(n, s, v)
      PROVE  TypeOK' /\ Shapes'
  <2>1. metric' \in [Measured -> [Nodes -> Metrics]]
    BY <1>2 DEF Measure, TypeOK
  <2> QED BY <1>2, <1>c, <1>h, <2>1, PlanTypes DEF Measure, TypeOK
<1>3. ASSUME NEW n \in Nodes, NEW g \in Named, UpdateGeo(n, g)
      PROVE  TypeOK' /\ Shapes'
  <2>1. member' \in [Named -> SUBSET Nodes]
    BY <1>3 DEF UpdateGeo, TypeOK
  <2> QED BY <1>3, <1>c, <1>h, <2>1, PlanTypes DEF UpdateGeo, TypeOK
<1>4. CASE MutateProxy
  BY <1>4, <1>c, PlanTypes DEF MutateProxy, TypeOK, pool
<1>l. Live \subseteq Nodes
  BY DEF Live
<1>5. ASSUME NEW D \in SUBSET Nodes, UpdateRemoves(D)
      PROVE  TypeOK' /\ Shapes'
  <2>1. status' \in [Nodes -> Status]
    BY <1>5 DEF UpdateRemoves, TypeOK, Status
  <2>2. cursor' \in [Group -> Cursor]
    BY <1>5, <1>l, CursorTypes DEF UpdateRemoves, TypeOK
  <2> QED BY <1>5, <1>c, <1>h, <2>1, <2>2, PlanTypes DEF UpdateRemoves, TypeOK
<1>6. ASSUME NEW D \in SUBSET Nodes, NEW U \in SUBSET Nodes, BuildPlan(D, U)
      PROVE  TypeOK' /\ Shapes'
  <2>1. cleanedGroupState(cursor, Live \ D) \in [Group -> Cursor]
    BY <1>l, CursorTypes DEF TypeOK
  <2>2. [n \in Nodes |-> CASE n \in D -> "absent" [] n \in U -> "up" [] OTHER -> status[n]]
          \in [Nodes -> Status]
    BY DEF TypeOK, Status
  <2>3. plan' \in Plan
    BY <1>6, <2>1, <2>2 DEF BuildPlan, Plan
  <2> QED BY <1>6, <1>c, <1>h, <2>3 DEF BuildPlan, TypeOK, pool
<1>7. CASE PublishPlan
  <2>1. plan.next \in [Nodes -> Status] /\ plan.cursor \in [Group -> Cursor]
    BY <1>7 DEF PublishPlan, TypeOK, Plan, NoPlan, StalePlan
  <2> QED BY <1>7, <1>c, <2>1 DEF PublishPlan, TypeOK, Plan
<1>8. CASE DropPlan
  BY <1>8, <1>c DEF DropPlan, TypeOK, Plan, pool
<1>9. CASE \/ \E n \in Nodes : forceSticky(n)
           \/ SetAuto \/ RotateSticky \/ RotateStickyForced
  <2>1. Changing /\ UNCHANGED <<status, member, metric, plan, conn>>
    BY <1>9 DEF forceSticky, SetAuto, RotateSticky, RotateStickyForced, rotateSticky
  <2>2. cursor' \in [Group -> Cursor]
    BY <1>9, AnyTypes
  <2> QED BY <1>c, <1>h, <2>1, <2>2 DEF TypeOK
<1> QED BY <1>1, <1>2, <1>3, <1>4, <1>5, <1>6, <1>7, <1>8, <1>9 DEF Next

LEMMA TypesStep == TypeOK /\ Shapes /\ [Next]_vars => TypeOK' /\ Shapes'
<1>1. CASE UNCHANGED vars
  BY <1>1 DEF TypeOK, Shapes, ConnShape, vars, pool
<1>2. CASE Next
  BY <1>2, TypesConn, TypesOutside
<1> QED BY <1>1, <1>2

(* Every record, cursor and plan keeps its type, whatever races.           *)
THEOREM PoolPickTypes == Spec => [](TypeOK /\ Shapes)
BY TypesInit, TypesStep, PTL DEF Spec

-----------------------------------------------------------------------------
(* Cursors and the pool.  A plan carries cursors of its own, which fit the *)
(* pool it will publish and not the one in force.                          *)
PlanLive ==
    plan.state = "built" =>
        \A g \in Group : {plan.cursor[g].sticky, plan.cursor[g].last}
            \subseteq {n \in Nodes : plan.next[n] # "absent"} \cup {None}
LiveInv == CursorsLive /\ PlanLive

(* Cleaned cursors name only nodes that stay.                              *)
LEMMA CleanedIsLive ==
    ASSUME NEW cur \in [Group -> Cursor], NEW L \in SUBSET Nodes, NEW g \in Group
    PROVE  {cleanedGroupState(cur, L)[g].sticky, cleanedGroupState(cur, L)[g].last}
             \subseteq L \cup {None}
BY DEF cleanedGroupState, EmptyCursor, Cursor

(* Handing out a live node keeps a cursor live.                            *)
LEMMA AdvanceIsLive ==
    ASSUME NEW cur \in Cursor, NEW n, NEW s, NEW keep, NEW L, n \in L,
           {cur.sticky, cur.last} \subseteq L \cup {None}
    PROVE  {Advance(cur, n, s, keep).sticky, Advance(cur, n, s, keep).last} \subseteq L \cup {None}
BY DEF Advance, Cursor

LEMMA LiveInit == Init => LiveInv
<1> SUFFICES ASSUME Init PROVE LiveInv
  OBVIOUS
<1>1. PlanLive
  BY DEF Init, PlanLive, NoPlan
<1>2. PICK pin \in {p \in Pins : p.pinned => Available(p.sticky)} :
         cursor = [g \in Group |-> IF g = GroupAny THEN pin ELSE EmptyCursor]
  BY DEF Init
<1>3. {pin.sticky, pin.last} \subseteq Live \cup {None}
  <2>1. CASE pin = EmptyCursor
    BY <2>1 DEF EmptyCursor
  <2>2. ASSUME NEW n \in Pinned,
               pin = [EmptyCursor EXCEPT !.sticky = n, !.last = n, !.pinned = TRUE]
        PROVE  {pin.sticky, pin.last} \subseteq Live \cup {None}
    <3>1. pin.sticky = n /\ pin.last = n /\ pin.pinned
      BY <2>2 DEF EmptyCursor
    <3> QED BY <1>2, <3>1, StartAssumption DEF Available, Live
  <2> QED BY <2>1, <2>2 DEF Pins
<1>4. CursorsLive
  BY <1>2, <1>3 DEF CursorsLive, EmptyCursor
<1> QED BY <1>1, <1>4 DEF LiveInv

LEMMA LiveStep == TypeOK /\ Shapes /\ LiveInv /\ [Next]_vars => LiveInv'
<1> SUFFICES ASSUME TypeOK, Shapes, LiveInv, [Next]_vars PROVE LiveInv'
  OBVIOUS
<1>p. (GenerationMoved \/ UNCHANGED plan) => PlanLive'
  BY DEF LiveInv, PlanLive, GenerationMoved, StalePlan, NoPlan
<1>c. ASSUME UNCHANGED cursor, \A n \in Nodes : status[n] # "absent" => status'[n] # "absent"
      PROVE  CursorsLive'
  BY <1>c DEF LiveInv, CursorsLive, Live
<1>a. ASSUME NEW g \in Group, NEW n \in Live, NEW s, NEW keep,
             cursor' = [cursor EXCEPT ![g] = Advance(@, n, s, keep)], UNCHANGED status
      PROVE  CursorsLive'
  <2> SUFFICES ASSUME NEW h \in Group
               PROVE  {cursor'[h].sticky, cursor'[h].last} \subseteq Live \cup {None}
    BY <1>a DEF CursorsLive, Live
  <2>1. {cursor[h].sticky, cursor[h].last} \subseteq Live \cup {None} /\ cursor[h] \in Cursor
    BY DEF LiveInv, CursorsLive, TypeOK
  <2>2. CASE h = g
    <3>1. cursor'[h] = Advance(cursor[h], n, s, keep)
      BY <1>a, <2>2 DEF TypeOK
    <3> QED BY <3>1, <2>1, AdvanceIsLive
  <2>3. CASE h # g
    BY <1>a, <2>1, <2>3 DEF TypeOK
  <2> QED BY <2>2, <2>3
<1>m. ASSUME NEW r, {r.sticky, r.last} \subseteq Live \cup {None},
             cursor' = [cursor EXCEPT ![GroupAny] = r], UNCHANGED status
      PROVE  CursorsLive'
  BY <1>m DEF LiveInv, CursorsLive, TypeOK, Live
<1>1. ASSUME NEW c \in Conns,
             \/ Accept(c) \/ PickScan(c) \/ NoMember(c) \/ RefuseUnavailable(c)
             \/ DialAborted(c) \/ DialSucceeds(c) \/ DialFails(c) \/ RecordFailure(c)
      PROVE  LiveInv'
  <2>1. UNCHANGED <<status, cursor>> /\ (GenerationMoved \/ UNCHANGED plan)
    BY <1>1 DEF Accept, PickScan, NoMember, RefuseUnavailable, DialAborted, DialSucceeds, DialFails,
                RecordFailure, pool
  <2> QED BY <1>c, <1>p, <2>1 DEF LiveInv
<1>2. ASSUME NEW c \in Conns, ObserveFailure(c) PROVE LiveInv'
  <2>1. /\ UNCHANGED cursor /\ (GenerationMoved \/ UNCHANGED plan)
        /\ UNCHANGED status \/ status' = [status EXCEPT ![conn[c].choice] = "down"]
    BY <1>2 DEF ObserveFailure
  <2>2. \A n \in Nodes : status[n] # "absent" => status'[n] # "absent"
    BY <2>1 DEF TypeOK
  <2> QED BY <1>c, <1>p, <2>1, <2>2 DEF LiveInv
<1>3. ASSUME NEW c \in Conns, PickCommit(c) PROVE LiveInv'
  <2>1. CASE UNCHANGED cursor
    BY <1>3, <1>c, <1>p, <2>1 DEF PickCommit, LiveInv
  <2>2. CASE CommitValid(c) /\ cursor' = [cursor EXCEPT ![conn[c].group] =
                 Advance(@, conn[c].choice, conn[c].strategy, conn[c].keep)]
    <3>1. conn[c].choice \in Nodes
      BY <1>3 DEF PickCommit, Shapes, ConnShape
    <3>2. conn[c].choice \in Live /\ conn[c].group \in Group
      BY <2>2, <3>1 DEF CommitValid, proxySelectableAtCommit, proxyHardRoutable, Live, TypeOK, Conn
    <3> QED BY <1>3, <1>a, <1>p, <2>2, <3>2 DEF PickCommit, LiveInv
  <2> QED BY <1>3, <2>1, <2>2 DEF PickCommit
<1>4. ASSUME NEW c \in Conns, PickSerialized(c) PROVE LiveInv'
  <2> DEFINE k == conn[c]
  <2>1. CASE UNCHANGED cursor
    BY <1>4, <1>c, <1>p, <2>1 DEF PickSerialized, LiveInv
  <2>2. ASSUME NEW n \in selectProxyLocked(k.group, k.strategy, cursor[k.group], k.exclude),
               cursor' = [cursor EXCEPT ![k.group] =
                            Advance(@, n, k.strategy, preservePin(cursor[k.group], n))]
        PROVE  LiveInv'
    <3>1. k.group \in Group /\ k.strategy \in Strategies \cup {"sticky"}
      BY DEF TypeOK, Conn
    <3>2. n \in Live
      BY <3>1, CursorTypes, ScanIsLive DEF TypeOK
    <3> QED BY <1>4, <1>a, <1>p, <2>2, <3>1, <3>2 DEF PickSerialized, LiveInv
  <2> QED BY <1>4, <2>1, <2>2 DEF PickSerialized
<1>5. ASSUME NEW n \in Nodes, NEW s \in {"up", "down", "barred"}, SetStatus(n, s)
      PROVE  LiveInv'
  BY <1>5, <1>c, <1>p DEF SetStatus, LiveInv, TypeOK
<1>6. CASE \/ \E n \in Nodes, s \in Measured, v \in Metrics : Measure(n, s, v)
           \/ \E n \in Nodes, g \in Named : UpdateGeo(n, g)
           \/ MutateProxy
  <2>1. UNCHANGED <<status, cursor>> /\ GenerationMoved
    BY <1>6 DEF Measure, UpdateGeo, MutateProxy, pool
  <2> QED BY <1>c, <1>p, <2>1 DEF LiveInv
<1>7. ASSUME NEW D \in SUBSET Nodes, UpdateRemoves(D) PROVE LiveInv'
  <2>1. Live' = Live \ D /\ cursor' = cleanedGroupState(cursor, Live \ D)
    BY <1>7 DEF UpdateRemoves, Live, TypeOK
  <2>2. Live \ D \in SUBSET Nodes
    BY DEF Live
  <2>3. CursorsLive'
    BY <2>1, <2>2, CleanedIsLive DEF CursorsLive, TypeOK
  <2> QED BY <1>7, <1>p, <2>3 DEF UpdateRemoves, LiveInv
<1>8. ASSUME NEW D \in SUBSET Nodes, NEW U \in SUBSET Nodes, BuildPlan(D, U) PROVE LiveInv'
  <2>1. /\ plan'.cursor = cleanedGroupState(cursor, Live \ D)
        /\ \A n \in Live \ D : plan'.next[n] # "absent"
    BY <1>8 DEF BuildPlan, Live
  <2>2. Live \ D \in SUBSET Nodes
    BY DEF Live
  <2>3. PlanLive'
    BY <2>1, <2>2, CleanedIsLive DEF PlanLive, TypeOK
  <2> QED BY <1>8, <1>c, <2>3 DEF BuildPlan, LiveInv, pool
<1>9. CASE PublishPlan
  <2>1. CursorsLive'
    BY <1>9 DEF PublishPlan, LiveInv, PlanLive, CursorsLive, Live
  <2>2. PlanLive'
    BY <1>9 DEF PublishPlan, PlanLive, NoPlan
  <2> QED BY <2>1, <2>2 DEF LiveInv
<1>10. CASE DropPlan
  <2>1. PlanLive'
    BY <1>10 DEF DropPlan, PlanLive, NoPlan
  <2> QED BY <1>10, <1>c, <2>1 DEF DropPlan, LiveInv, pool
<1>11. CASE \/ \E n \in Nodes : forceSticky(n)
            \/ SetAuto \/ RotateSticky \/ RotateStickyForced
  <2> DEFINE cur == cursor[GroupAny]
  <2>g. cur \in Cursor /\ {cur.sticky, cur.last} \subseteq Live \cup {None}
    BY DEF LiveInv, CursorsLive, TypeOK, Group
  <2>u. UNCHANGED <<status, plan>>
    BY <1>11 DEF forceSticky, SetAuto, RotateSticky, RotateStickyForced, rotateSticky
  <2>1. ASSUME NEW n \in Nodes, forceSticky(n) PROVE CursorsLive'
    <3> DEFINE r == [cur EXCEPT !.sticky = n, !.last = n, !.pinned = TRUE]
    <3>1. r.sticky = n /\ r.last = n /\ n \in Live
      BY <2>1, <2>g DEF forceSticky, Available, Live, Cursor
    <3>2. cursor' = [cursor EXCEPT ![GroupAny] = r]
      BY <2>1 DEF forceSticky
    <3> HIDE DEF r
    <3> QED BY <1>m, <2>u, <3>1, <3>2
  <2>2. ASSUME SetAuto PROVE CursorsLive'
    <3> DEFINE r == [cur EXCEPT !.pinned = FALSE]
    <3>1. r.sticky = cur.sticky /\ r.last = cur.last
      BY <2>g DEF Cursor
    <3>2. cursor' = [cursor EXCEPT ![GroupAny] = r]
      BY <2>2 DEF SetAuto, TypeOK, Group
    <3> HIDE DEF r, cur
    <3>3. {r.sticky, r.last} \subseteq Live \cup {None}
      BY <2>g, <3>1
    <3> QED BY <1>m, <2>u, <3>2, <3>3
  <2>3. ASSUME RotateSticky \/ RotateStickyForced PROVE CursorsLive'
    <3> DEFINE n == NextInPool(cur.sticky, Eligible(GroupAny, {}))
               r == [cur EXCEPT !.sticky = n, !.last = n]
    <3>1. n \in Live
      BY <2>3, RotationIsLive DEF RotateSticky, RotateStickyForced, rotateSticky
    <3>2. cursor' = [cursor EXCEPT ![GroupAny] = r]
      BY <2>3 DEF RotateSticky, RotateStickyForced, rotateSticky
    <3> HIDE DEF n
    <3>3. r.sticky = n /\ r.last = n
      BY <2>g DEF Cursor
    <3> HIDE DEF r, cur
    <3>4. {r.sticky, r.last} \subseteq Live \cup {None}
      BY <3>1, <3>3
    <3> QED BY <1>m, <2>u, <3>2, <3>4
  <2>4. CursorsLive'
    <3>1. CASE \E n \in Nodes : forceSticky(n)
      BY <2>1, <3>1
    <3> QED BY <1>11, <2>2, <2>3, <3>1
  <2> QED BY <1>p, <2>u, <2>4 DEF LiveInv
<1>12. CASE UNCHANGED vars
  BY <1>12, <1>c, <1>p DEF vars, pool, LiveInv
<1> QED BY <1>1, <1>2, <1>3, <1>4, <1>5, <1>6, <1>7, <1>8, <1>9, <1>10, <1>11, <1>12 DEF Next, ConnStep

(* No cursor names a node that left the pool, although a pick may commit   *)
(* to it while a deletion of that node is being written to disk.           *)
THEOREM CursorsStayLive == Spec => []CursorsLive
<1>1. Init => TypeOK /\ Shapes /\ LiveInv
  BY TypesInit, LiveInit
<1>2. TypeOK /\ Shapes /\ LiveInv /\ [Next]_vars => (TypeOK /\ Shapes /\ LiveInv)'
  BY TypesStep, LiveStep
<1>3. LiveInv => CursorsLive
  BY DEF LiveInv
<1> QED BY <1>1, <1>2, <1>3, PTL DEF Spec

-----------------------------------------------------------------------------
(* Scans under way.  As long as no revision cleared its flag, the choice a *)
(* scan made is the one the pool still gives for the cursor it saw.        *)
ScanHolds(k) ==
    k.pc = "commit" /\ k.fresh =>
        /\ k.choice \in selectProxyLocked(k.group, k.strategy, k.seen, k.exclude)
        /\ k.keep = preservePin(k.seen, k.choice)
Scans == \A c \in Conns : ScanHolds(conn[c])

(* Of a cursor the scan reads only what its strategy needs.                *)
LEMMA ScanReads ==
    ASSUME NEW g, NEW s, NEW cur, NEW seen, NEW exclude,
           s = "round-robin" => cur.rr = seen.rr,
           s = "sticky" => cur.sticky = seen.sticky
    PROVE  selectProxyLocked(g, s, cur, exclude) = selectProxyLocked(g, s, seen, exclude)
<1> DEFINE E == Eligible(g, exclude)
<1> HIDE DEF E
<1>1. CASE E = {}
  BY <1>1 DEF selectProxyLocked, E
<1>2. CASE E # {} /\ s = "round-robin"
  BY <1>2 DEF selectProxyLocked, E
<1>3. CASE E # {} /\ s = "sticky"
  BY <1>3 DEF selectProxyLocked, E
<1>4. CASE E # {} /\ s \notin {"round-robin", "sticky"}
  BY <1>4 DEF selectProxyLocked, E
<1> QED BY <1>1, <1>2, <1>3, <1>4

(* Of the pool it reads the routing state and its strategy's metric.       *)
LEMMA ScanStable ==
    ASSUME NEW g, NEW s, NEW cur, NEW exclude, UNCHANGED <<status, member>>,
           s \in {"round-robin", "random", "sticky"} \/ metric'[s] = metric[s]
    PROVE  selectProxyLocked(g, s, cur, exclude)' = selectProxyLocked(g, s, cur, exclude)
<1>1. Eligible(g, exclude)' = Eligible(g, exclude)
  BY DEF Eligible, proxyHardRoutable, matches, Available
<1> DEFINE E == Eligible(g, exclude)
<1>2. CASE s \in {"round-robin", "random", "sticky"}
  BY <1>1, <1>2 DEF selectProxyLocked
<1>3. CASE metric'[s] = metric[s]
  BY <1>1, <1>3 DEF selectProxyLocked
<1> QED BY <1>2, <1>3

(* A scan that keeps its flag keeps its promise.                           *)
LEMMA ScanKept ==
    ASSUME NEW d \in Conns, ScanHolds(conn[d]),
           conn'[d].pc = "commit" /\ conn'[d].fresh =>
              /\ conn'[d] = conn[d]
              /\ UNCHANGED <<status, member>>
              /\ \/ conn[d].strategy \in {"round-robin", "random", "sticky"}
                 \/ metric'[conn[d].strategy] = metric[conn[d].strategy]
    PROVE  ScanHolds(conn[d])'
<1> SUFFICES ASSUME conn'[d].pc = "commit", conn'[d].fresh
             PROVE  /\ conn'[d].choice \in selectProxyLocked(conn[d].group, conn[d].strategy,
                                                             conn[d].seen, conn[d].exclude)'
                    /\ conn'[d].keep = preservePin(conn[d].seen, conn[d].choice)'
  BY DEF ScanHolds
<1> DEFINE k == conn[d]
<1>1. conn'[d] = k
  OBVIOUS
<1>2. /\ k.choice \in selectProxyLocked(k.group, k.strategy, k.seen, k.exclude)
      /\ k.keep = preservePin(k.seen, k.choice)
  BY <1>1 DEF ScanHolds
<1>3. selectProxyLocked(k.group, k.strategy, k.seen, k.exclude)'
        = selectProxyLocked(k.group, k.strategy, k.seen, k.exclude)
  BY <1>1, ScanStable
<1> QED BY <1>1, <1>2, <1>3 DEF preservePin

(* Revisions leave a connection as it was, or without its flag.            *)
LEMMA Revisions ==
    ASSUME NEW cs \in [Conns -> Conn], NEW d \in Conns
    PROVE  /\ ~RoutingRevised(cs)[d].fresh
           /\ StatsRevised(cs)[d].fresh =>
                StatsRevised(cs)[d] = cs[d] /\ cs[d].strategy # "score"
<1>1. ~RoutingRevised(cs)[d].fresh
  BY DEF RoutingRevised, Conn
<1>2. ASSUME StatsRevised(cs)[d].fresh
      PROVE  StatsRevised(cs)[d] = cs[d] /\ cs[d].strategy # "score"
  <2> DEFINE k == cs[d]
             b == k.fresh /\ k.strategy # "score"
  <2>1. k \in Conn /\ StatsRevised(cs)[d] = [k EXCEPT !.fresh = b]
    BY DEF StatsRevised
  <2>2. b /\ k.fresh = TRUE
    BY <1>2, <2>1 DEF Conn
  <2>3. b = TRUE
    BY <2>2
  <2> HIDE DEF b
  <2>4. [k EXCEPT !.fresh = b] = k
    BY <2>1, <2>2, <2>3 DEF Conn
  <2> QED BY <2>1, <2>2, <2>4 DEF b
<1> QED BY <1>1, <1>2

(* New scores disturb only the scans that compare scores.                  *)
LEMMA ScoresApart ==
    ASSUME TypeOK, NEW n, NEW v, NEW d \in Conns, conn[d].strategy # "score",
           RecordResult(n, v) \/ metric' = [metric EXCEPT !["score"][n] = v]
    PROVE  \/ conn[d].strategy \in {"round-robin", "random", "sticky"}
           \/ metric'[conn[d].strategy] = metric[conn[d].strategy]
<1>1. CASE conn[d].strategy \notin {"round-robin", "random", "sticky"}
  <2>1. conn[d].strategy \in Measured
    BY <1>1, GroupAssumption DEF TypeOK, Conn, Measured
  <2> QED BY <2>1 DEF RecordResult, TypeOK
<1> QED BY <1>1

LEMMA ScansInit == Init => Scans
<1> SUFFICES ASSUME Init PROVE Scans
  OBVIOUS
<1>1. PICK load \in Traffic : conn = [c \in Conns |-> [Idle EXCEPT
          !.fallback = load[c].fallback, !.group = load[c].group,
          !.strategy = load[c].strategy]]
  BY DEF Init
<1>2. \A c \in Conns : conn[c].pc = "idle"
  BY <1>1 DEF Idle
<1> QED BY <1>2 DEF Scans, ScanHolds

LEMMA ScansStep == TypeOK /\ Shapes /\ Scans /\ [Next]_vars => Scans'
<1> SUFFICES ASSUME TypeOK, Shapes, Scans, [Next]_vars, NEW d \in Conns
             PROVE  ScanHolds(conn[d])'
  BY DEF Scans
<1>d. ScanHolds(conn[d]) /\ conn[d] \in Conn
  BY DEF Scans, TypeOK
<1>r. ASSUME NEW cs \in [Conns -> Conn], conn' = RoutingRevised(cs) PROVE ScanHolds(conn[d])'
  <2>1. ~conn'[d].fresh
    BY <1>r, Revisions
  <2> QED BY <1>d, <2>1, ScanKept
<1>s. ASSUME NEW cs \in [Conns -> Conn], conn' = StatsRevised(cs),
             cs[d] = conn[d] \/ cs[d].pc # "commit",
             UNCHANGED <<status, member>>,
             \E n, v : RecordResult(n, v) \/ metric' = [metric EXCEPT !["score"][n] = v]
      PROVE  ScanHolds(conn[d])'
  <2>1. conn'[d].fresh => conn'[d] = cs[d] /\ cs[d].strategy # "score"
    BY <1>s, Revisions
  <2>2. CASE cs[d] = conn[d]
    <3>1. conn[d].strategy # "score" =>
            \/ conn[d].strategy \in {"round-robin", "random", "sticky"}
            \/ metric'[conn[d].strategy] = metric[conn[d].strategy]
      BY <1>s, ScoresApart
    <3> QED BY <1>d, <1>s, <2>1, <2>2, <3>1, ScanKept
  <2>3. CASE cs[d].pc # "commit"
    BY <1>d, <2>1, <2>3, ScanKept
  <2> QED BY <1>s, <2>2, <2>3
<1>p. ASSUME UNCHANGED <<status, member, metric>>,
             conn'[d] = conn[d] \/ conn'[d].pc # "commit"
      PROVE  ScanHolds(conn[d])'
  BY <1>d, <1>p, ScanKept
<1>e. Ended.pc = "ended" /\ Ended \in Conn
  BY ConnTypes DEF Ended, Idle
<1>n. ASSUME NEW k \in Conn PROVE NextTry(k).pc # "commit" /\ NextTry(k) \in Conn
  <2>1. NextTry(k).pc # "commit"
    BY <1>e DEF NextTry, Conn
  <2> QED BY <2>1, ConnTypes
<1>1. ASSUME NEW c \in Conns, PickScan(c) PROVE ScanHolds(conn[d])'
  <2> DEFINE k == conn[c]
             cur == cursor[k.group]
  <2>u. UNCHANGED <<status, member, metric>>
    BY <1>1 DEF PickScan, pool
  <2>k. k \in Conn /\ cur \in Cursor
    BY DEF TypeOK, Conn
  <2>1. CASE d # c
    <3>1. conn'[d] = conn[d]
      BY <1>1, <2>1 DEF PickScan, TypeOK
    <3> QED BY <1>p, <2>u, <3>1
  <2>3. CASE conn' = [conn EXCEPT ![c].pc = "none"]
    <3>1. conn'[d] = conn[d] \/ conn'[d].pc = "none"
      BY <2>3, <2>k DEF TypeOK, Conn
    <3> QED BY <1>p, <2>u, <3>1
  <2>2. ASSUME d = c, NEW n \in selectProxyLocked(k.group, k.strategy, cur, k.exclude),
               conn' = [conn EXCEPT ![c] = [k EXCEPT
                          !.pc = "commit", !.choice = n, !.fresh = TRUE,
                          !.keep = preservePin(cur, n), !.seen = [cur EXCEPT !.last = None]]]
        PROVE  ScanHolds(conn[d])'
    <3> DEFINE seen == [cur EXCEPT !.last = None]
               r == conn'[d]
    <3>1. /\ r.choice = n /\ r.keep = preservePin(cur, n) /\ r.seen = seen
          /\ r.group = k.group /\ r.strategy = k.strategy /\ r.exclude = k.exclude
      BY <2>2, <2>k DEF TypeOK, Conn
    <3>2. seen.rr = cur.rr /\ seen.sticky = cur.sticky /\ seen.pinned = cur.pinned
      BY <2>k DEF Cursor
    <3> HIDE DEF seen, r, cur
    <3>3. n \in selectProxyLocked(k.group, k.strategy, seen, k.exclude)
      BY <2>2, <3>2, ScanReads
    <3>4. \A g, s, x, e : selectProxyLocked(g, s, x, e)' = selectProxyLocked(g, s, x, e)
      BY <2>u, ScanStable
    <3>5. r.choice \in selectProxyLocked(conn[d].group, conn[d].strategy, conn[d].seen,
                                         conn[d].exclude)'
      BY <3>1, <3>3, <3>4 DEF r
    <3>6. r.keep = preservePin(conn[d].seen, conn[d].choice)'
      BY <3>1, <3>2 DEF preservePin, r
    <3> QED BY <3>5, <3>6 DEF ScanHolds, r
  <2> QED BY <1>1, <2>1, <2>2, <2>3 DEF PickScan
<1>2. ASSUME NEW c \in Conns, \/ Accept(c) \/ PickCommit(c) \/ PickSerialized(c) \/ NoMember(c)
                              \/ RefuseUnavailable(c) \/ DialAborted(c)
      PROVE  ScanHolds(conn[d])'
  <2> DEFINE k == conn[c]
  <2>u. UNCHANGED <<status, member, metric>>
    BY <1>2 DEF Accept, PickCommit, PickSerialized, NoMember, RefuseUnavailable, DialAborted, pool
  <2>k. k \in Conn
    BY DEF TypeOK
  <2>1. CASE Accept(c)
    <3>1. conn'[d] = conn[d] \/ conn'[d].pc # "commit"
      BY <2>1, <2>k DEF Accept, TypeOK, Conn
    <3> QED BY <1>p, <2>u, <3>1
  <2>2. CASE PickCommit(c)
    <3> DEFINE q == Scanned(k)
               b == k.fallback \/ Available(k.choice)
               r == [q EXCEPT !.pc = "picked", !.attempt = 0, !.dialable = b]
    <3>1. q \in Conn
      BY <2>k, ConnTypes
    <3>2. conn' = [conn EXCEPT ![c] = r] \/ conn' = [conn EXCEPT ![c] = Lost(q)]
      BY <2>2 DEF PickCommit
    <3> HIDE DEF q, b
    <3>3. r.pc = "picked" /\ Lost(q).pc = "scan"
      BY <3>1 DEF Lost, Conn
    <3> HIDE DEF r
    <3>4. conn'[d] = conn[d] \/ conn'[d].pc # "commit"
      BY <3>2, <3>3 DEF TypeOK
    <3> QED BY <1>p, <2>u, <3>4
  <2>3. CASE PickSerialized(c)
    <3>1. CASE conn' = [conn EXCEPT ![c].pc = "none"]
      <4>1. conn'[d] = conn[d] \/ conn'[d].pc = "none"
        BY <3>1, <2>k DEF TypeOK, Conn
      <4> QED BY <1>p, <2>u, <4>1
    <3>2. ASSUME NEW n, NEW b,
                 conn' = [conn EXCEPT ![c].pc = "picked", ![c].attempt = 0,
                                      ![c].choice = n, ![c].dialable = b]
          PROVE  ScanHolds(conn[d])'
      <4>1. conn'[d] = conn[d] \/ conn'[d].pc = "picked"
        BY <3>2, <2>k DEF TypeOK, Conn
      <4> QED BY <1>p, <2>u, <4>1
    <3> QED BY <2>3, <3>1, <3>2 DEF PickSerialized
  <2>4. CASE NoMember(c)
    <3> DEFINE q == [k EXCEPT !.group = GroupAny, !.strategy = "sticky"]
    <3>1. q \in Conn
      BY <2>k DEF Conn, Group
    <3>2. conn' = [conn EXCEPT ![c] = NextTry(q)] \/ conn' = [conn EXCEPT ![c] = Ended]
      BY <2>4 DEF NoMember
    <3> HIDE DEF q
    <3>3. conn'[d] = conn[d] \/ conn'[d].pc # "commit"
      BY <1>e, <1>n, <3>1, <3>2 DEF TypeOK
    <3> QED BY <1>p, <2>u, <3>3
  <2>5. CASE RefuseUnavailable(c) \/ DialAborted(c)
    <3>1. conn'[d] = conn[d] \/ conn'[d].pc # "commit"
      BY <1>e, <2>5 DEF RefuseUnavailable, DialAborted, TypeOK
    <3> QED BY <1>p, <2>u, <3>1
  <2> QED BY <1>2, <2>1, <2>2, <2>3, <2>4, <2>5
<1>3. ASSUME NEW c \in Conns, DialSucceeds(c) \/ RecordFailure(c) PROVE ScanHolds(conn[d])'
  <2> DEFINE f == [conn[c] EXCEPT !.pc = "failed"]
  <2>1. f \in Conn /\ f.pc = "failed"
    BY DEF TypeOK, Conn
  <2>2. /\ \E r \in {Ended, f} : conn' = StatsRevised([conn EXCEPT ![c] = r])
        /\ UNCHANGED <<status, member>> /\ \E n, v : RecordResult(n, v)
    BY <1>3 DEF DialSucceeds, RecordFailure, TypeOK
  <2> HIDE DEF f
  <2>3. PICK r \in {Ended, f} : conn' = StatsRevised([conn EXCEPT ![c] = r])
    BY <2>2
  <2> DEFINE cs == [conn EXCEPT ![c] = r]
  <2>4. cs \in [Conns -> Conn] /\ (cs[d] = conn[d] \/ cs[d].pc # "commit")
    BY <1>e, <2>1 DEF TypeOK
  <2>5. conn' = StatsRevised(cs)
    BY <2>3
  <2> HIDE DEF cs
  <2> QED BY <1>s, <2>2, <2>4, <2>5
<1>4. ASSUME NEW c \in Conns, DialFails(c) \/ ObserveFailure(c) PROVE ScanHolds(conn[d])'
  <2> DEFINE q == [conn[c] EXCEPT !.exclude = @ \cup {conn[c].choice}]
             cs == [conn EXCEPT ![c] = NextTry(q)]
  <2>0. conn[c] \in Conn /\ conn[c].choice \in Nodes
    BY <1>4 DEF ConnShape, Shapes, DialFails, ObserveFailure, MayDial, TypeOK
  <2>1. q \in Conn /\ cs = Excluding(c)
    BY <2>0 DEF Conn, Excluding
  <2> HIDE DEF q, cs
  <2>2. \/ conn' = cs /\ UNCHANGED <<status, member, metric>>
        \/ conn' = RoutingRevised(cs)
    BY <1>4, <2>1 DEF DialFails, ObserveFailure, pool
  <2>3. cs \in [Conns -> Conn] /\ (cs[d] = conn[d] \/ cs[d].pc # "commit")
    BY <1>n, <2>1 DEF TypeOK, cs
  <2> QED BY <1>p, <1>r, <2>2, <2>3
<1>5. CASE \/ \E n \in Nodes, s \in {"up", "down", "barred"} : SetStatus(n, s)
           \/ \E n \in Nodes, g \in Named : UpdateGeo(n, g)
           \/ MutateProxy \/ (\E D \in SUBSET Nodes : UpdateRemoves(D)) \/ PublishPlan
  <2>1. conn' = RoutingRevised(conn)
    BY <1>5 DEF SetStatus, UpdateGeo, MutateProxy, UpdateRemoves, PublishPlan
  <2> QED BY <1>r, <2>1 DEF TypeOK
<1>6. ASSUME NEW n \in Nodes, NEW s \in Measured, NEW v \in Metrics, Measure(n, s, v)
      PROVE  ScanHolds(conn[d])'
  <2>1. CASE s = "score"
    BY <1>6, <1>s, <2>1 DEF Measure, TypeOK
  <2>2. CASE s # "score"
    BY <1>6, <1>r, <2>2 DEF Measure, TypeOK
  <2> QED BY <2>1, <2>2
<1>7. CASE \/ \E D, U \in SUBSET Nodes : BuildPlan(D, U)
           \/ DropPlan \/ \E n \in Nodes : forceSticky(n)
           \/ SetAuto \/ RotateSticky \/ RotateStickyForced \/ UNCHANGED vars
  <2>1. UNCHANGED <<status, member, metric, conn>>
    BY <1>7 DEF BuildPlan, DropPlan, forceSticky, SetAuto, RotateSticky, RotateStickyForced,
                rotateSticky, vars, pool
  <2> QED BY <1>p, <2>1
<1> QED BY <1>1, <1>2, <1>3, <1>4, <1>5, <1>6, <1>7 DEF Next, ConnStep

-----------------------------------------------------------------------------
(* Answers.                                                                *)
PickInv == TypeOK /\ Shapes /\ Scans

LEMMA PickInvariant == Spec => []PickInv
<1>1. Init => PickInv
  BY TypesInit, ScansInit DEF PickInv
<1>2. PickInv /\ [Next]_vars => PickInv'
  BY TypesStep, ScansStep DEF PickInv
<1> QED BY <1>1, <1>2, PTL DEF Spec

(* What a commit that passes its checks hands out is what a scan would     *)
(* find at that instant, and it treats the pin as that scan would.         *)
LEMMA CommitIsRight ==
    ASSUME PickInv, NEW c \in Conns, conn[c].pc = "commit", CommitValid(c)
    PROVE  LET k == conn[c]
               cur == cursor[k.group]
           IN  /\ k.choice \in selectProxyLocked(k.group, k.strategy, cur, k.exclude)
               /\ k.strategy = "sticky" => k.keep = preservePin(cur, k.choice)
<1> DEFINE k == conn[c]
           cur == cursor[k.group]
<1>1. /\ k.choice \in selectProxyLocked(k.group, k.strategy, k.seen, k.exclude)
      /\ k.keep = preservePin(k.seen, k.choice)
  BY DEF PickInv, Scans, ScanHolds, CommitValid
<1>2. /\ k.strategy = "round-robin" => cur.rr = k.seen.rr
      /\ k.strategy = "sticky" => cur.sticky = k.seen.sticky /\ cur.pinned = k.seen.pinned
  BY DEF CommitValid, CursorUnmoved
<1> HIDE DEF k, cur
<1>3. k.choice \in selectProxyLocked(k.group, k.strategy, cur, k.exclude)
  BY <1>1, <1>2, ScanReads
<1>4. k.strategy = "sticky" => k.keep = preservePin(cur, k.choice)
  BY <1>1, <1>2 DEF preservePin
<1> QED BY <1>3, <1>4 DEF k, cur

(* A pick that treats the pin as its scan found it moves the cursor as the *)
(* atomic pick does.                                                       *)
LEMMA AdvanceIsMoved ==
    ASSUME TypeOK, NEW g, NEW s \in Strategies \cup {"sticky"}, NEW cur \in Cursor, NEW exclude,
           NEW n \in selectProxyLocked(g, s, cur, exclude), NEW keep,
           s = "sticky" => keep = preservePin(cur, n)
    PROVE  Advance(cur, n, s, keep) = Atomic!Moved(cur, n, s, Atomic!Preferred(g, exclude))
<1> DEFINE P == Atomic!Preferred(g, exclude)
<1>1. n \in P /\ Atomic!RightChoice(n, s, P, cur)
  BY ScanIsRight, CursorTypes DEF TypeOK
<1> HIDE DEF P
<1>2. CASE s = "sticky"
  <2>1. n = cur.sticky \/ cur.sticky \notin P
    BY <1>1, <1>2 DEF Atomic!RightChoice
  <2>2. keep <=> (cur.pinned /\ cur.sticky \notin P)
    BY <1>1, <1>2, <2>1 DEF preservePin
  <2> QED BY <1>2, <2>2 DEF Advance, Atomic!Moved, Cursor, P
<1>3. CASE s # "sticky"
  BY <1>3 DEF Advance, Atomic!Moved, Cursor, P
<1> QED BY <1>2, <1>3

(* Neither a connection nor the rotation timer moves or drops a pin.       *)
THEOREM PinsSurvive == Spec => PinSurvivesTraffic
<1>1. ASSUME PickInv, (\E c \in Conns : ConnStep(c)) \/ RotateSticky, cursor[GroupAny].pinned
      PROVE  cursor'[GroupAny].pinned /\ cursor'[GroupAny].sticky = cursor[GroupAny].sticky
  <2> DEFINE cur == cursor[GroupAny]
  <2>t. GroupAny \in Group /\ cur \in Cursor
    BY <1>1 DEF PickInv, TypeOK, Group
  <2>a. ASSUME NEW g \in Group, NEW n, NEW s, NEW keep,
               cursor' = [cursor EXCEPT ![g] = Advance(@, n, s, keep)],
               s = "sticky" => keep = preservePin(cursor[g], n)
        PROVE  cursor'[GroupAny].pinned /\ cursor'[GroupAny].sticky = cur.sticky
    <3>1. CASE g # GroupAny
      BY <1>1, <2>a, <3>1 DEF PickInv, TypeOK, Group
    <3>2. CASE g = GroupAny
      <4>1. cursor'[GroupAny] = Advance(cur, n, s, keep)
        BY <1>1, <2>a, <2>t, <3>2 DEF PickInv, TypeOK
      <4>2. s = "sticky" => (keep <=> n # cur.sticky)
        BY <1>1, <2>a, <3>2 DEF preservePin
      <4> HIDE DEF cur
      <4>3. Advance(cur, n, s, keep).pinned = cur.pinned
        BY <2>t DEF Advance, Cursor
      <4>4. Advance(cur, n, s, keep).sticky = cur.sticky
        BY <2>t, <4>2 DEF Advance, Cursor
      <4> QED BY <1>1, <4>1, <4>3, <4>4 DEF cur
    <3> QED BY <3>1, <3>2
  <2>1. ~RotateSticky
    BY <1>1 DEF RotateSticky, rotateSticky
  <2>2. PICK c \in Conns : ConnStep(c)
    BY <1>1, <2>1
  <2>4. CASE PickCommit(c)
    <3>1. conn[c].group \in Group
      BY <1>1 DEF PickInv, TypeOK, Conn
    <3>2. CASE CommitValid(c)
      <4> DEFINE k == conn[c]
      <4>1. cursor' = [cursor EXCEPT ![k.group] = Advance(@, k.choice, k.strategy, k.keep)]
        BY <2>4, <3>2 DEF PickCommit
      <4>2. k.strategy = "sticky" => k.keep = preservePin(cursor[k.group], k.choice)
        BY <1>1, <2>4, <3>2, CommitIsRight DEF PickCommit
      <4> HIDE DEF k
      <4> QED BY <2>a, <3>1, <4>1, <4>2 DEF k
    <3> QED BY <1>1, <2>4, <3>2 DEF PickCommit
  <2>5. CASE PickSerialized(c)
    <3>1. conn[c].group \in Group
      BY <1>1 DEF PickInv, TypeOK, Conn
    <3>2. CASE UNCHANGED cursor
      BY <1>1, <3>2
    <3>3. ASSUME NEW n, cursor' = [cursor EXCEPT ![conn[c].group] =
                    Advance(@, n, conn[c].strategy, preservePin(cursor[conn[c].group], n))]
          PROVE  cursor'[GroupAny].pinned /\ cursor'[GroupAny].sticky = cur.sticky
      BY <2>a, <3>1, <3>3
    <3> QED BY <2>5, <3>2, <3>3 DEF PickSerialized
  <2>6. CASE \/ PickScan(c) \/ NoMember(c) \/ RefuseUnavailable(c)
             \/ DialAborted(c) \/ DialSucceeds(c) \/ DialFails(c)
             \/ RecordFailure(c) \/ ObserveFailure(c)
    <3>1. UNCHANGED cursor
      BY <2>6 DEF PickScan, NoMember, RefuseUnavailable, DialAborted, DialSucceeds, DialFails,
                  RecordFailure, ObserveFailure, pool
    <3> QED BY <1>1, <3>1
  <2> QED BY <2>2, <2>4, <2>5, <2>6 DEF ConnStep
<1>2. PickInv /\ [Next]_vars =>
        [(\E c \in Conns : ConnStep(c)) \/ RotateSticky =>
          (cursor[GroupAny].pinned =>
             /\ cursor'[GroupAny].pinned
             /\ cursor'[GroupAny].sticky = cursor[GroupAny].sticky)]_vars
  BY <1>1
<1> QED BY <1>2, PickInvariant, PTL DEF Spec, PinSurvivesTraffic

-----------------------------------------------------------------------------
(* The optimistic pick implements the atomic one.                          *)

(* A connection whose request fields stand still is, for PickSpec, still   *)
(* waiting for the same pick, or done with it.                             *)
LEMMA RequestKept ==
    ASSUME NEW d \in Conns,
           conn'[d] = conn[d] \/ /\ conn'[d].pc = conn[d].pc
                                 /\ conn'[d].group = conn[d].group
                                 /\ conn'[d].strategy = conn[d].strategy
                                 /\ conn'[d].exclude = conn[d].exclude
                                 /\ conn'[d].choice = conn[d].choice
    PROVE  Request(d)' = Request(d)
BY DEF Request

(* Revisions do not touch the request.                                     *)
LEMMA RevisionKeepsRequest ==
    ASSUME NEW cs \in [Conns -> Conn], NEW d \in Conns, cs[d] = conn[d],
           conn' = cs \/ conn' = RoutingRevised(cs) \/ conn' = StatsRevised(cs)
    PROVE  Request(d)' = Request(d)
<1> DEFINE k == conn[d]
<1>1. k \in Conn
  OBVIOUS
<1>2. conn'[d] = k \/ \E b : conn'[d] = [k EXCEPT !.fresh = b]
  BY DEF RoutingRevised, StatsRevised
<1>3. CASE conn'[d] = k
  BY <1>3, RequestKept
<1>4. ASSUME NEW b, conn'[d] = [k EXCEPT !.fresh = b] PROVE Request(d)' = Request(d)
  BY <1>1, <1>4, RequestKept DEF Conn
<1> QED BY <1>2, <1>3, <1>4

(* A caller that is not waiting takes its turn.                            *)
LEMMA TurnTaken ==
    ASSUME NEW c \in Conns, conn[c].pc \notin {"scan", "commit"},
           \A d \in Conns \ {c} : Request(d)' = Request(d)
    PROVE  Atomic!Turn(c)
<1> DEFINE R == [e \in Conns |-> Request(e)]
<1>1. R[c].phase # "asked"
  BY DEF Request
<1>2. ~Atomic!Asking(c)
  BY <1>1 DEF Atomic!Asking
<1>3. \A d \in Conns \ {c} : R'[d] = R[d]
  OBVIOUS
<1> QED BY <1>2, <1>3 DEF Atomic!Turn

(* Setting two fields of one entry sets the entry.                         *)
LEMMA TwoFields ==
    ASSUME NEW S, NEW R, R = [e \in S |-> R[e]], NEW c \in S, NEW p, NEW n
    PROVE  [R EXCEPT ![c].phase = p, ![c].choice = n]
             = [R EXCEPT ![c] = [R[c] EXCEPT !.phase = p, !.choice = n]]
OBVIOUS

(* The instant at which a waiting caller gets node n: PickSpec's answer.   *)
LEMMA AnswerGiven ==
    ASSUME PickInv, NEW c \in Conns, conn[c].pc \in {"scan", "commit"},
           NEW n \in selectProxyLocked(conn[c].group, conn[c].strategy,
                                       cursor[conn[c].group], conn[c].exclude),
           NEW keep, conn[c].strategy = "sticky" => keep = preservePin(cursor[conn[c].group], n),
           cursor' = [cursor EXCEPT ![conn[c].group] = Advance(@, n, conn[c].strategy, keep)],
           UNCHANGED <<status, member, metric>>,
           \A d \in Conns \ {c} : conn'[d] = conn[d],
           conn'[c].pc = "picked", conn'[c].choice = n, conn'[c].group = conn[c].group,
           conn'[c].strategy = conn[c].strategy, conn'[c].exclude = conn[c].exclude
    PROVE  Atomic!Answer(c)
<1> DEFINE k == conn[c]
           P == Atomic!Preferred(k.group, k.exclude)
           R == [e \in Conns |-> Request(e)]
<1>k. k.group \in Group /\ k.strategy \in Strategies \cup {"sticky"} /\ cursor[k.group] \in Cursor
  BY DEF PickInv, TypeOK, Conn
<1>1. /\ R[c].phase = "asked" /\ R[c].group = k.group /\ R[c].strategy = k.strategy
      /\ R[c].exclude = k.exclude
  BY DEF Request
<1>2. n \in P /\ Atomic!RightChoice(n, k.strategy, P, cursor[k.group])
  BY <1>k, ScanIsRight, CursorTypes DEF PickInv, TypeOK
<1>3. cursor' = [cursor EXCEPT ![k.group] = Atomic!Moved(@, n, k.strategy, P)]
  <2>1. Advance(cursor[k.group], n, k.strategy, keep)
          = Atomic!Moved(cursor[k.group], n, k.strategy, P)
    BY <1>k, AdvanceIsMoved DEF PickInv
  <2> QED BY <2>1
<1>4. R' = [R EXCEPT ![c].phase = "answered", ![c].choice = n]
  <2>1. \A d \in Conns \ {c} : R'[d] = R[d]
    BY RequestKept
  <2>2. R'[c] = [phase |-> "answered", group |-> k.group, strategy |-> k.strategy,
                 exclude |-> k.exclude, choice |-> n]
    BY DEF Request
  <2>3. R[c] = [phase |-> "asked", group |-> k.group, strategy |-> k.strategy,
                exclude |-> k.exclude, choice |-> None]
    BY DEF Request
  <2>4. [R[c] EXCEPT !.phase = "answered", !.choice = n] = R'[c]
    <3> DEFINE rec(p, m) == [phase |-> p, group |-> k.group, strategy |-> k.strategy,
                             exclude |-> k.exclude, choice |-> m]
    <3>1. [rec("asked", None) EXCEPT !.phase = "answered"] = rec("answered", None)
      OBVIOUS
    <3>2. [rec("answered", None) EXCEPT !.choice = n] = rec("answered", n)
      OBVIOUS
    <3>3. [rec("asked", None) EXCEPT !.phase = "answered", !.choice = n]
            = [[rec("asked", None) EXCEPT !.phase = "answered"] EXCEPT !.choice = n]
      <4> HIDE DEF rec
      <4> QED OBVIOUS
    <3>4. R'[c] = rec("answered", n) /\ R[c] = rec("asked", None)
      BY <2>2, <2>3
    <3> HIDE DEF R, rec
    <3> QED BY <3>1, <3>2, <3>3, <3>4
  <2>5. R' = [R EXCEPT ![c] = R'[c]]
    BY <2>1
  <2>6. [R EXCEPT ![c].phase = "answered", ![c].choice = n] = [R EXCEPT ![c] = R'[c]]
    BY <2>4, TwoFields
  <2> QED BY <2>5, <2>6
<1>5. /\ Atomic!Preferred(R[c].group, R[c].exclude) = P
      /\ Atomic!RightChoice(n, R[c].strategy, P, cursor[R[c].group])
      /\ cursor' = [cursor EXCEPT ![R[c].group] = Atomic!Moved(@, n, R[c].strategy, P)]
  BY <1>1, <1>2, <1>3
<1> HIDE DEF P
<1> QED BY <1>1, <1>2, <1>4, <1>5 DEF Atomic!Answer, Atomic!Asking

(* The instant at which a waiting caller learns that nobody can serve it.  *)
LEMMA NobodyFound ==
    ASSUME PickInv, NEW c \in Conns, conn[c].pc \in {"scan", "commit"},
           selectProxyLocked(conn[c].group, conn[c].strategy,
                             cursor[conn[c].group], conn[c].exclude) = {},
           UNCHANGED <<status, member, metric, cursor>>,
           conn' = [conn EXCEPT ![c].pc = "none"]
    PROVE  Atomic!Answer(c)
<1> DEFINE k == conn[c]
           R == [e \in Conns |-> Request(e)]
<1>k. k \in Conn /\ k.strategy \in Strategies \cup {"sticky"} /\ cursor[k.group] \in Cursor
  BY DEF PickInv, TypeOK, Conn
<1>1. R[c].phase = "asked" /\ R[c].group = k.group /\ R[c].exclude = k.exclude
  BY DEF Request
<1>2. Atomic!Preferred(R[c].group, R[c].exclude) = {}
  BY <1>1, <1>k, ScanIsRight, CursorTypes DEF PickInv, TypeOK
<1>3. R' = [R EXCEPT ![c].phase = "none"]
  <2>1. \A d \in Conns \ {c} : conn'[d] = conn[d]
    BY DEF PickInv, TypeOK
  <2>2. \A d \in Conns \ {c} : Request(d)' = Request(d)
    BY <2>1, RequestKept
  <2>3. /\ conn'[c].pc = "none" /\ conn'[c].group = k.group
        /\ conn'[c].strategy = k.strategy /\ conn'[c].exclude = k.exclude
    BY <1>k DEF PickInv, TypeOK, Conn
  <2>4. Request(c)' = [phase |-> "none", group |-> k.group, strategy |-> k.strategy,
                       exclude |-> k.exclude, choice |-> None]
    BY <2>3 DEF Request
  <2>5. Request(c) = [phase |-> "asked", group |-> k.group, strategy |-> k.strategy,
                      exclude |-> k.exclude, choice |-> None]
    BY DEF Request
  <2>6. [Request(c) EXCEPT !.phase = "none"] = Request(c)'
    BY <2>4, <2>5
  <2> QED BY <2>2, <2>6
<1> QED BY <1>1, <1>2, <1>3 DEF Atomic!Answer, Atomic!Asking

LEMMA Simulation == PickInv /\ [Next]_vars => [Atomic!Next]_(Atomic!vars)
<1> SUFFICES ASSUME PickInv, [Next]_vars PROVE Atomic!Next \/ UNCHANGED Atomic!vars
  OBVIOUS
<1>t. conn \in [Conns -> Conn]
  BY DEF PickInv, TypeOK
<1>e. ASSUME \A d \in Conns : Request(d)' = Request(d) PROVE Atomic!Next
  BY <1>e DEF Atomic!Next, Atomic!Elsewhere
<1>r. ASSUME NEW c \in Conns, conn[c].pc \notin {"scan", "commit"}, NEW r, r \in Conn,
             NEW cs, cs = [conn EXCEPT ![c] = r],
             conn' = cs \/ conn' = RoutingRevised(cs) \/ conn' = StatsRevised(cs)
      PROVE  Atomic!Next
  <2>1. cs \in [Conns -> Conn] /\ \A d \in Conns \ {c} : cs[d] = conn[d]
    BY <1>r, <1>t
  <2>2. \A d \in Conns \ {c} : Request(d)' = Request(d)
    BY <1>r, <2>1, RevisionKeepsRequest
  <2> QED BY <1>r, <2>2, TurnTaken DEF Atomic!Next
<1>o. ASSUME conn' = conn \/ conn' = RoutingRevised(conn) \/ conn' = StatsRevised(conn)
      PROVE  Atomic!Next
  BY <1>e, <1>o, <1>t, RevisionKeepsRequest
<1>1. ASSUME NEW c \in Conns, Accept(c) PROVE Atomic!Next
  <2>1. \A d \in Conns \ {c} : conn'[d] = conn[d]
    BY <1>1, <1>t DEF Accept
  <2>2. \A d \in Conns \ {c} : Request(d)' = Request(d)
    BY <2>1, RequestKept
  <2> QED BY <1>1, <2>2, TurnTaken DEF Accept, Atomic!Next
<1>2. ASSUME NEW c \in Conns, PickScan(c) PROVE Atomic!Next
  <2> DEFINE k == conn[c]
             found == selectProxyLocked(k.group, k.strategy, cursor[k.group], k.exclude)
  <2>u. k.pc = "scan" /\ UNCHANGED <<status, member, metric, cursor>>
    BY <1>2 DEF PickScan, pool
  <2>1. CASE found = {} /\ conn' = [conn EXCEPT ![c].pc = "none"]
    BY <2>u, <2>1, NobodyFound DEF Atomic!Next
  <2>2. ASSUME NEW n \in found, NEW keep, NEW seen,
               conn' = [conn EXCEPT ![c] = [k EXCEPT
                          !.pc = "commit", !.choice = n, !.fresh = TRUE,
                          !.keep = keep, !.seen = seen]]
        PROVE  Atomic!Next
    <3>1. \A d \in Conns \ {c} : Request(d)' = Request(d)
      BY <2>2, <1>t, RequestKept
    <3>2. /\ conn'[c].pc = "commit" /\ conn'[c].group = k.group
          /\ conn'[c].strategy = k.strategy /\ conn'[c].exclude = k.exclude
      BY <2>2, <1>t DEF Conn
    <3>3. Request(c)' = Request(c)
      BY <2>u, <3>2 DEF Request
    <3> QED BY <1>e, <3>1, <3>3
  <2> QED BY <1>2, <2>1, <2>2 DEF PickScan
<1>3. ASSUME NEW c \in Conns, PickCommit(c) PROVE Atomic!Next
  <2> DEFINE k == conn[c]
             q == Scanned(k)
             b == k.fallback \/ Available(k.choice)
             r == [q EXCEPT !.pc = "picked", !.attempt = 0, !.dialable = b]
  <2>u. k.pc = "commit" /\ UNCHANGED <<status, member, metric>>
    BY <1>3 DEF PickCommit
  <2>q. /\ q \in Conn /\ q.choice = k.choice /\ q.group = k.group
        /\ q.strategy = k.strategy /\ q.exclude = k.exclude
    <3>1. k \in Conn
      BY <1>t
    <3> HIDE DEF k
    <3>2. q \in Conn
      BY <3>1, ConnTypes
    <3> QED BY <3>1, <3>2 DEF Scanned, Conn
  <2>1. CASE ~CommitValid(c)
    <3>1. conn' = [conn EXCEPT ![c] = Lost(q)]
      BY <1>3, <2>1 DEF PickCommit
    <3> HIDE DEF q
    <3>2. /\ Lost(q).pc = "scan" /\ Lost(q).group = q.group
          /\ Lost(q).strategy = q.strategy /\ Lost(q).exclude = q.exclude
      BY <2>q DEF Lost, Conn
    <3>3. \A d \in Conns \ {c} : Request(d)' = Request(d)
      BY <3>1, <1>t, RequestKept
    <3>4. Request(c)' = Request(c)
      BY <2>u, <2>q, <3>1, <3>2, <1>t DEF Request
    <3> QED BY <1>e, <3>3, <3>4
  <2>2. CASE CommitValid(c)
    <3>1. /\ conn' = [conn EXCEPT ![c] = r]
          /\ cursor' = [cursor EXCEPT ![k.group] = Advance(@, k.choice, k.strategy, k.keep)]
      BY <1>3, <2>2 DEF PickCommit
    <3> HIDE DEF q, b
    <3>2. /\ r.pc = "picked" /\ r.choice = k.choice /\ r.group = k.group
          /\ r.strategy = k.strategy /\ r.exclude = k.exclude
      BY <2>q DEF Conn
    <3> HIDE DEF r
    <3>3. conn'[c] = r /\ \A d \in Conns \ {c} : conn'[d] = conn[d]
      BY <3>1, <1>t
    <3>4. /\ k.choice \in selectProxyLocked(k.group, k.strategy, cursor[k.group], k.exclude)
          /\ k.strategy = "sticky" => k.keep = preservePin(cursor[k.group], k.choice)
      BY <2>2, <2>u, CommitIsRight
    <3>5. Atomic!Answer(c)
      BY <2>u, <3>1, <3>2, <3>3, <3>4, AnswerGiven
    <3> QED BY <3>5 DEF Atomic!Next
  <2> QED BY <2>1, <2>2
<1>4. ASSUME NEW c \in Conns, PickSerialized(c) PROVE Atomic!Next
  <2> DEFINE k == conn[c]
             found == selectProxyLocked(k.group, k.strategy, cursor[k.group], k.exclude)
  <2>u. k.pc = "scan" /\ UNCHANGED <<status, member, metric>>
    BY <1>4 DEF PickSerialized
  <2>1. CASE found = {} /\ conn' = [conn EXCEPT ![c].pc = "none"] /\ UNCHANGED cursor
    BY <2>u, <2>1, NobodyFound DEF Atomic!Next
  <2>2. ASSUME NEW n \in found, NEW b,
               conn' = [conn EXCEPT ![c].pc = "picked", ![c].attempt = 0,
                                    ![c].choice = n, ![c].dialable = b],
               cursor' = [cursor EXCEPT ![k.group] =
                            Advance(@, n, k.strategy, preservePin(cursor[k.group], n))]
        PROVE  Atomic!Next
    <3>1. /\ conn'[c].pc = "picked" /\ conn'[c].choice = n /\ conn'[c].group = k.group
          /\ conn'[c].strategy = k.strategy /\ conn'[c].exclude = k.exclude
      BY <2>2, <1>t DEF Conn
    <3>2. \A d \in Conns \ {c} : conn'[d] = conn[d]
      BY <2>2, <1>t
    <3>3. Atomic!Answer(c)
      BY <2>u, <2>2, <3>1, <3>2, AnswerGiven
    <3> QED BY <3>3 DEF Atomic!Next
  <2> QED BY <1>4, <2>1, <2>2 DEF PickSerialized
<1>5. ASSUME NEW c \in Conns, NoMember(c) PROVE Atomic!Next
  <2> DEFINE k == conn[c]
             q == [k EXCEPT !.group = GroupAny, !.strategy = "sticky"]
  <2>1. q \in Conn
    BY <1>t DEF Conn, Group
  <2>2. k.pc = "none" /\ \E r \in {NextTry(q), Ended} : conn' = [conn EXCEPT ![c] = r]
    BY <1>5 DEF NoMember
  <2> HIDE DEF q
  <2> QED BY <1>r, <2>1, <2>2, ConnTypes
<1>6. ASSUME NEW c \in Conns, RefuseUnavailable(c) \/ DialAborted(c) \/ DialSucceeds(c)
      PROVE  Atomic!Next
  <2> DEFINE cs == [conn EXCEPT ![c] = Ended]
  <2>1. conn[c].pc = "picked" /\ (conn' = cs \/ conn' = StatsRevised(cs))
    BY <1>6 DEF RefuseUnavailable, DialAborted, DialSucceeds, MayDial
  <2> HIDE DEF cs
  <2> QED BY <1>r, <2>1, ConnTypes DEF cs
<1>7. ASSUME NEW c \in Conns, DialFails(c) \/ ObserveFailure(c) PROVE Atomic!Next
  <2> DEFINE q == [conn[c] EXCEPT !.exclude = @ \cup {conn[c].choice}]
             cs == [conn EXCEPT ![c] = NextTry(q)]
  <2>0. /\ conn[c] \in Conn /\ conn[c].pc \in {"picked", "failed"}
        /\ conn[c].choice \in Nodes
    BY <1>7, <1>t DEF ConnShape, Shapes, DialFails, ObserveFailure, MayDial, PickInv
  <2>1. q \in Conn /\ cs = Excluding(c)
    BY <2>0 DEF Conn, Excluding
  <2> HIDE DEF q, cs
  <2>2. conn' = cs \/ conn' = RoutingRevised(cs)
    BY <1>7, <2>1 DEF DialFails, ObserveFailure
  <2>3. NextTry(q) \in Conn
    BY <2>1, ConnTypes
  <2> QED BY <1>r, <2>0, <2>2, <2>3 DEF cs
<1>9. ASSUME NEW c \in Conns, RecordFailure(c) PROVE Atomic!Next
  <2> DEFINE f == [conn[c] EXCEPT !.pc = "failed"]
             cs == [conn EXCEPT ![c] = f]
  <2>1. f \in Conn
    BY <1>t DEF Conn
  <2>2. conn[c].pc = "picked" /\ conn' = StatsRevised(cs)
    BY <1>9, <1>t DEF RecordFailure, MayDial
  <2> HIDE DEF f, cs
  <2> QED BY <1>r, <2>1, <2>2 DEF cs
<1>8. ASSUME \/ \E n \in Nodes, s \in {"up", "down", "barred"} : SetStatus(n, s)
             \/ \E n \in Nodes, s \in Measured, v \in Metrics : Measure(n, s, v)
             \/ \E n \in Nodes, g \in Named : UpdateGeo(n, g)
             \/ MutateProxy
             \/ \E D \in SUBSET Nodes : UpdateRemoves(D)
             \/ \E D, U \in SUBSET Nodes : BuildPlan(D, U)
             \/ PublishPlan \/ DropPlan
             \/ \E n \in Nodes : forceSticky(n)
             \/ SetAuto \/ RotateSticky \/ RotateStickyForced \/ UNCHANGED vars
      PROVE  Atomic!Next
  <2>1. conn' = conn \/ conn' = RoutingRevised(conn) \/ conn' = StatsRevised(conn)
    BY <1>8 DEF SetStatus, Measure, UpdateGeo, MutateProxy, UpdateRemoves, BuildPlan, PublishPlan,
                DropPlan, forceSticky, SetAuto, RotateSticky, RotateStickyForced, rotateSticky,
                vars, pool
  <2> QED BY <1>o, <2>1
<1> QED BY <1>1, <1>2, <1>3, <1>4, <1>5, <1>6, <1>7, <1>8, <1>9 DEF Next, ConnStep

LEMMA SimulationInit == Init => Atomic!Init
<1> SUFFICES ASSUME Init, NEW c \in Conns PROVE ~Atomic!Asking(c)
  BY DEF Atomic!Init
<1>1. PICK load \in Traffic : conn = [d \in Conns |-> [Idle EXCEPT
          !.fallback = load[d].fallback, !.group = load[d].group,
          !.strategy = load[d].strategy]]
  BY DEF Init
<1>2. conn[c].pc = "idle"
  BY <1>1 DEF Idle
<1>3. [d \in Conns |-> Request(d)][c].phase # "asked"
  BY <1>2 DEF Request
<1> QED BY <1>3 DEF Atomic!Asking

(* The scan under the read lock and the commit under the write lock, with  *)
(* everything that may come between them, implement the pick that is       *)
(* computed and committed at one instant: pick keeps PickSpec's promise.   *)
THEOREM PickImplementsPickSpec == Spec => PicksAreAtomic
<1>1. Init => Atomic!Init
  BY SimulationInit
<1>2. PickInv /\ [Next]_vars => [Atomic!Next]_(Atomic!vars)
  BY Simulation
<1> QED BY <1>1, <1>2, PickInvariant, PTL DEF Spec, PicksAreAtomic, Atomic!Spec

-----------------------------------------------------------------------------
(* The node the status API shows.  Its one pass keeps a selection for the  *)
(* routable members and one for the available ones.                        *)
Selection == [count : Nat, current : Nodes \cup {None}, matched : BOOLEAN]

(* b is the position the scan would choose in U by the metric v.           *)
Wins(b, U, s, v) ==
    /\ b \in U
    /\ \A j \in U \ {b} : /\ ~Atomic!Worse(s, v[Order[b]], v[Order[j]])
                          /\ j < b => Atomic!Worse(s, v[Order[j]], v[Order[b]])

(* sel is the selection of a pass over U: empty like U; the winner if the  *)
(* strategy compares values; the sticky node, if U holds it, or the first  *)
(* position otherwise.                                                     *)
Tracks(sel, U, s, key) ==
    /\ sel \in Selection
    /\ sel.count = 0 <=> U = {}
    /\ U = {} => sel.current = None /\ ~sel.matched
    /\ U # {} /\ s \in Measured => \E b : Wins(b, U, s, metric[s]) /\ sel.current = Order[b]
    /\ U # {} /\ s = "sticky" =>
         /\ sel.matched <=> \E j \in U : Order[j] = key
         /\ sel.matched => sel.current = key
         /\ ~sel.matched => sel.current = Order[First(U)]

(* Two winners are the same position.                                      *)
LEMMA OneWinner ==
    ASSUME NEW U \in SUBSET Positions, NEW s, NEW v, NEW a, NEW b,
           Wins(a, U, s, v), Wins(b, U, s, v)
    PROVE  a = b
<1>1. a \in Nat /\ b \in Nat
  BY OrderFacts DEF Wins
<1>2. ASSUME a < b PROVE FALSE
  BY <1>1, <1>2 DEF Wins
<1>3. ASSUME b < a PROVE FALSE
  BY <1>1, <1>3 DEF Wins
<1> QED BY <1>1, <1>2, <1>3

(* A later position wins or leaves the winner as it is.                    *)
LEMMA WinnerMoves ==
    ASSUME NEW U \in SUBSET Positions, NEW i \in Positions, \A j \in U : j < i,
           NEW s, NEW v \in [Nodes -> Nat], NEW b, Wins(b, U, s, v)
    PROVE  Wins(IF Beats(s, v[Order[i]], v[Order[b]]) THEN i ELSE b, U \cup {i}, s, v)
<1>1. b \in U /\ b \in Nat /\ i \in Nat /\ b < i
  BY OrderFacts DEF Wins
<1>2. \A j \in U \cup {i} : v[Order[j]] \in Nat
  BY OrderFacts
<1>3. CASE Beats(s, v[Order[i]], v[Order[b]])
  <2>1. Atomic!Worse(s, v[Order[b]], v[Order[i]])
    BY <1>1, <1>2, <1>3, BeatsIsOrder
  <2>2. ASSUME NEW j \in U PROVE Atomic!Worse(s, v[Order[j]], v[Order[i]])
    <3>1. j # b => ~Atomic!Worse(s, v[Order[b]], v[Order[j]])
      BY DEF Wins
    <3> QED BY <1>1, <1>2, <2>1, <3>1, BeatsIsOrder
  <2>3. ASSUME NEW j \in U PROVE ~Atomic!Worse(s, v[Order[i]], v[Order[j]])
    BY <1>2, <2>2, BeatsIsOrder
  <2> QED BY <1>3, <2>2, <2>3 DEF Wins
<1>4. CASE ~Beats(s, v[Order[i]], v[Order[b]])
  <2>1. ~Atomic!Worse(s, v[Order[b]], v[Order[i]])
    BY <1>1, <1>2, <1>4, BeatsIsOrder
  <2> QED BY <1>1, <1>4, <2>1 DEF Wins
<1> QED BY <1>3, <1>4

(* One more member of the pass.                                            *)
LEMMA ObserveTracks ==
    ASSUME metric \in [Measured -> [Nodes -> Metrics]],
           NEW U \in SUBSET Positions, NEW i \in Positions, \A j \in U : j < i,
           NEW s \in Measured \cup {"sticky"}, NEW cur, NEW sel, Tracks(sel, U, s, cur.sticky)
    PROVE  Tracks(observe(sel, Order[i], s, cur), U \cup {i}, s, cur.sticky)
<1> DEFINE n == Order[i]
           hit == ~sel.matched /\ n = cur.sticky
           better == Beats(s, metric[s][n], metric[s][sel.current])
           take == sel.count = 0 \/ IF s \in Measured THEN better ELSE hit
           new == observe(sel, n, s, cur)
           W == U \cup {i}
<1>1. new = [count |-> sel.count + 1, current |-> IF take THEN n ELSE sel.current,
             matched |-> sel.matched \/ hit]
  BY DEF observe, Measured
<1>2. n \in Nodes /\ sel \in Selection /\ i \in Nat /\ \A j \in U : j \in Nat
  BY OrderFacts DEF Tracks
<1>3. /\ new.count = sel.count + 1 /\ new.current = (IF take THEN n ELSE sel.current)
      /\ new.matched = (sel.matched \/ hit) /\ new \in Selection
  <2> HIDE DEF take, n, hit
  <2>1. (sel.matched \/ hit) \in BOOLEAN
    OBVIOUS
  <2> QED BY <1>1, <1>2, <2>1 DEF Selection
<1> HIDE DEF new
<1>4. (new.count = 0 <=> W = {}) /\ W # {}
  BY <1>2, <1>3 DEF Selection
<1>5. ASSUME s \in Measured PROVE \E b : Wins(b, W, s, metric[s]) /\ new.current = Order[b]
  <2>v. metric[s] \in [Nodes -> Nat]
    BY <1>5, GroupAssumption
  <2>1. CASE U = {}
    <3>1. Wins(i, W, s, metric[s])
      BY <2>1 DEF Wins
    <3>2. new.current = n
      BY <1>3, <2>1 DEF Tracks
    <3> QED BY <3>1, <3>2
  <2>2. CASE U # {}
    <3>1. PICK b : Wins(b, U, s, metric[s]) /\ sel.current = Order[b]
      BY <1>5, <2>2 DEF Tracks
    <3>2. sel.count # 0
      BY <2>2 DEF Tracks
    <3>3. new.current = Order[IF Beats(s, metric[s][n], metric[s][Order[b]]) THEN i ELSE b]
      BY <1>3, <1>5, <3>1, <3>2
    <3>4. Wins(IF Beats(s, metric[s][n], metric[s][Order[b]]) THEN i ELSE b, W, s, metric[s])
      BY <2>v, <3>1, WinnerMoves
    <3> QED BY <3>3, <3>4
  <2> QED BY <2>1, <2>2
<1>6. ASSUME s = "sticky"
      PROVE  /\ new.matched <=> \E j \in W : Order[j] = cur.sticky
             /\ new.matched => new.current = cur.sticky
             /\ ~new.matched => new.current = Order[First(W)]
  <2>0. s \notin Measured
    BY <1>6 DEF Measured
  <2>1. new.matched <=> \E j \in W : Order[j] = cur.sticky
    BY <1>3, <1>6 DEF Tracks
  <2>2. new.matched => new.current = cur.sticky
    BY <1>3, <1>6, <2>0 DEF Tracks
  <2>3. ASSUME ~new.matched PROVE new.current = Order[First(W)]
    <3>1. W \in SUBSET Positions
      OBVIOUS
    <3>2. First(W) \in W /\ \A j \in W : First(W) <= j
      BY <1>4, <3>1, FirstIsLeast
    <3>3. CASE U = {}
      BY <1>3, <3>2, <3>3 DEF Tracks
    <3>4. CASE U # {}
      <4>1. First(U) \in U /\ \A j \in U : First(U) <= j
        BY <3>4, FirstIsLeast
      <4>2. First(W) = First(U)
        <5>1. First(W) <= First(U) /\ First(U) < i /\ First(U) \in Nat /\ First(W) \in Nat
          BY <1>2, <3>2, <4>1
        <5>2. First(W) \in U
          BY <1>2, <3>2, <5>1
        <5> QED BY <4>1, <5>1, <5>2
      <4>3. new.current = sel.current /\ ~sel.matched
        BY <1>3, <2>0, <2>3, <3>4 DEF Tracks
      <4> QED BY <1>6, <3>4, <4>2, <4>3 DEF Tracks
    <3> QED BY <3>3, <3>4
  <2> QED BY <2>1, <2>2, <2>3
<1>7. Tracks(new, W, s, cur.sticky)
  BY <1>3, <1>4, <1>5, <1>6 DEF Tracks
<1> QED BY <1>7 DEF new

(* The pass ends with the selections of the routable and of the available  *)
(* members.                                                                *)
LEMMA PassTracks ==
    ASSUME TypeOK, NEW g \in Group, NEW s \in Measured \cup {"sticky"}
    PROVE  LET usable == {i \in Positions : /\ proxyHardRoutable(Order[i])
                                            /\ matches(g, Order[i])
                                            /\ Order[i] \notin {}}
               up == {i \in usable : Available(Order[i])}
           IN  \E r, a : /\ Tracks(r, usable, s, cursor[g].sticky)
                         /\ Tracks(a, up, s, cursor[g].sticky)
                         /\ StreamingCurrent(g, s) =
                              IF a.count > 0 THEN a.current ELSE r.current
<1> DEFINE N == Len(Order)
           cur == cursor[g]
           usable == {i \in Positions : /\ proxyHardRoutable(Order[i])
                                        /\ matches(g, Order[i])
                                        /\ Order[i] \notin {}}
           up == {i \in usable : Available(Order[i])}
           start == [routable |-> NoSelection, available |-> NoSelection]
           both(i, a) == [routable |-> observe(a.routable, Order[i], s, cur),
                          available |-> IF Available(Order[i])
                                        THEN observe(a.available, Order[i], s, cur)
                                        ELSE a.available]
           next(i, a) == IF ~proxyHardRoutable(Order[i]) \/ ~matches(g, Order[i]) THEN a
                         ELSE both(i, a)
           run == CHOOSE f : f = [i \in 0 .. N |-> IF i = 0 THEN start ELSE next(i, f[i - 1])]
<1>1. StreamingCurrent(g, s) = IF run[N].available.count > 0 THEN run[N].available.current
                                                             ELSE run[N].routable.current
  BY DEF StreamingCurrent
<1>2. N \in Nat /\ Positions = 1 .. N /\ \A i \in Positions : Order[i] \in Nodes
  BY OrderFacts DEF Positions
<1>3. start \in [routable : Selection, available : Selection]
  BY DEF Selection, NoSelection
<1> HIDE DEF N, start, cur
<1> DEFINE D == [routable : Selection, available : Selection]
<1>4. ASSUME NEW sel \in Selection, NEW n \in Nodes
      PROVE  observe(sel, n, s, cur) \in Selection
  <2>1. ASSUME NEW b PROVE (sel.matched \/ b) \in BOOLEAN
    OBVIOUS
  <2>2. \E take, b : observe(sel, n, s, cur) =
          [count |-> sel.count + 1, current |-> IF take THEN n ELSE sel.current,
           matched |-> sel.matched \/ b]
    BY DEF observe
  <2>3. ASSUME NEW x \in Nodes \cup {None}, NEW m \in BOOLEAN
        PROVE  [count |-> sel.count + 1, current |-> x, matched |-> m] \in Selection
    BY DEF Selection
  <2> QED BY <2>1, <2>2, <2>3 DEF Selection
<1>5. ASSUME NEW i \in 1 .. N, NEW a \in D PROVE next(i, a) \in D
  <2>1. Order[i] \in Nodes /\ a.routable \in Selection /\ a.available \in Selection
    BY <1>2
  <2>2. both(i, a) \in D
    BY <1>4, <2>1
  <2> QED BY <2>2
<1>6. /\ run[0] = start
      /\ \A i \in 1 .. N : run[i] = next(i, run[i - 1])
  <2> DEFINE step == [p \in D \X (1 .. N) |-> next(p[2], p[1])]
  <2>1. start \in D /\ step \in [D \X (1 .. N) -> D]
    <3> HIDE DEF next, D
    <3> QED BY <1>3, <1>5 DEF D
  <2>2. PICK f : IsLoop(f, D, N, start, step)
    <3> HIDE DEF step, D
    <3> QED BY <2>1, <1>2, LoopExists
  <2> HIDE DEF next, run, D
  <2>3. ASSUME NEW i \in 1 .. N PROVE f[i] = next(i, f[i - 1])
    <3>1. f[i] = step[<<f[i - 1], i>>] /\ f[i - 1] \in D
      <4> HIDE DEF step
      <4> QED BY <2>2, <1>2 DEF IsLoop
    <3> QED BY <3>1
  <2>4. f = [i \in 0 .. N |-> IF i = 0 THEN start ELSE next(i, f[i - 1])]
    <3>1. f \in [0 .. N -> D] /\ f[0] = start
      BY <2>2 DEF IsLoop
    <3>2. \A i \in 0 .. N : f[i] = IF i = 0 THEN start ELSE next(i, f[i - 1])
      BY <2>3, <3>1, <1>2
    <3> QED BY <3>1, <3>2
  <2>5. run = [i \in 0 .. N |-> IF i = 0 THEN start ELSE next(i, run[i - 1])]
    BY <2>4 DEF run
  <2>6. ASSUME NEW i \in 1 .. N PROVE run[i] = next(i, run[i - 1])
    <3>1. i \in 0 .. N /\ i # 0
      BY <1>2
    <3> QED BY <2>5, <3>1, Zenon
  <2>7. run[0] = start
    <3>1. 0 \in 0 .. N
      BY <1>2
    <3> QED BY <2>5, <3>1, Zenon
  <2> QED BY <2>6, <2>7
<1> HIDE DEF run
<1> DEFINE to(U, i) == {j \in U : j <= i}
           Good(i) == /\ Tracks(run[i].routable, to(usable, i), s, cur.sticky)
                      /\ Tracks(run[i].available, to(up, i), s, cur.sticky)
           S == {i \in Nat : i <= N => Good(i)}
<1>u. usable \in SUBSET Positions /\ up \in SUBSET Positions
  OBVIOUS
<1>7. 0 \in S
  <2>1. to(usable, 0) = {} /\ to(up, 0) = {}
    BY <1>2, <1>u
  <2>2. Tracks(NoSelection, {}, s, cur.sticky)
    BY DEF Tracks, Selection, NoSelection
  <2>3. run[0].routable = NoSelection /\ run[0].available = NoSelection
    BY <1>6 DEF start
  <2>4. Good(0)
    BY <2>1, <2>2, <2>3
  <2> QED BY <2>4
<1>8. ASSUME NEW k \in S PROVE k + 1 \in S
  <2> SUFFICES ASSUME k + 1 <= N PROVE Good(k + 1)
    OBVIOUS
  <2> DEFINE i == k + 1
             a == run[k]
  <2>1. Good(k) /\ i \in Positions /\ run[i] = next(i, a)
    BY <1>2, <1>6
  <2>2. ASSUME NEW U \in SUBSET Positions
        PROVE  /\ to(U, i) = IF i \in U THEN to(U, k) \cup {i} ELSE to(U, k)
               /\ to(U, k) \in SUBSET Positions /\ \A j \in to(U, k) : j < i
    <3>1. \A j \in U : j \in Nat /\ (j <= i <=> j <= k \/ j = i)
      BY <1>2
    <3>2. to(U, i) = IF i \in U THEN to(U, k) \cup {i} ELSE to(U, k)
      BY <3>1
    <3>3. \A j \in to(U, k) : j < i
      BY <3>1
    <3> QED BY <3>2, <3>3
  <2>3. ASSUME NEW U \in SUBSET Positions, NEW sel, Tracks(sel, to(U, k), s, cur.sticky), i \in U
        PROVE  Tracks(observe(sel, Order[i], s, cur), to(U, i), s, cur.sticky)
    <3>1. Tracks(observe(sel, Order[i], s, cur), to(U, k) \cup {i}, s, cur.sticky)
      <4> HIDE DEF to, i
      <4> QED BY <2>1, <2>2, <2>3, ObserveTracks DEF TypeOK
    <3> QED BY <2>2, <2>3, <3>1
  <2> HIDE DEF to, i, a
  <2>4. CASE i \notin usable
    <3>1. i \notin up /\ run[i] = a
      BY <2>1, <2>4
    <3>2. to(usable, i) = to(usable, k) /\ to(up, i) = to(up, k)
      BY <1>u, <2>2, <2>4, <3>1
    <3> QED BY <2>1, <3>1, <3>2 DEF i, a
  <2>5. CASE i \in usable
    <3>1. run[i] = both(i, a)
      BY <2>1, <2>5
    <3>2. /\ run[i].routable = observe(a.routable, Order[i], s, cur)
          /\ run[i].available = IF Available(Order[i])
                                THEN observe(a.available, Order[i], s, cur) ELSE a.available
      BY <3>1
    <3>3. i \in up <=> Available(Order[i])
      BY <2>5
    <3> HIDE DEF usable, up
    <3>4. Tracks(run[i].routable, to(usable, i), s, cur.sticky)
      BY <1>u, <2>1, <2>3, <2>5, <3>2 DEF a
    <3>5. Tracks(run[i].available, to(up, i), s, cur.sticky)
      <4>1. CASE i \in up
        BY <1>u, <2>1, <2>3, <3>2, <3>3, <4>1 DEF a
      <4>2. CASE i \notin up
        BY <1>u, <2>1, <2>2, <3>2, <3>3, <4>2 DEF a
      <4> QED BY <4>1, <4>2
    <3> QED BY <3>4, <3>5 DEF i
  <2> QED BY <2>4, <2>5
<1>9. Good(N)
  <2>1. S \in SUBSET Nat /\ \A k \in S : k + 1 \in S
    BY <1>8
  <2>2. N \in S
    <3> HIDE DEF S
    <3> QED BY <1>2, <1>7, <2>1, Induction
  <2> QED BY <1>2, <2>2
<1>10. to(usable, N) = usable /\ to(up, N) = up
  BY <1>2
<1>11. /\ Tracks(run[N].routable, usable, s, cursor[g].sticky)
       /\ Tracks(run[N].available, up, s, cursor[g].sticky)
  BY <1>9, <1>10 DEF cur
<1> QED BY <1>1, <1>11

(* What the status API shows for a group is what the next pick would       *)
(* choose: the streaming pass and the scan agree, in every state.          *)
LEMMA ShownIsPicked == TypeOK => DashboardAgrees
<1> SUFFICES ASSUME TypeOK, NEW g \in Group, NEW s \in Measured \cup {"sticky"}
             PROVE  selectProxyLocked(g, s, cursor[g], {}) = {StreamingCurrent(g, s)} \ {None}
  BY DEF DashboardAgrees
<1> DEFINE usable == {i \in Positions : /\ proxyHardRoutable(Order[i])
                                        /\ matches(g, Order[i])
                                        /\ Order[i] \notin {}}
           up == {i \in usable : Available(Order[i])}
           E == Eligible(g, {})
           cur == cursor[g]
           found == selectProxyLocked(g, s, cur, {})
           shown == StreamingCurrent(g, s)
<1>1. E = (IF up # {} THEN up ELSE usable) /\ E \in SUBSET Positions
  BY DEF Eligible
<1>2. PICK r, a : /\ Tracks(r, usable, s, cur.sticky)
                  /\ Tracks(a, up, s, cur.sticky)
                  /\ shown = IF a.count > 0 THEN a.current ELSE r.current
  BY PassTracks
<1>3. PICK sel : Tracks(sel, E, s, cur.sticky) /\ shown = sel.current
  <2> HIDE DEF usable, up, shown, E, cur
  <2>1. CASE up = {}
    <3>1. E = usable /\ a.count = 0
      BY <1>1, <1>2, <2>1 DEF Tracks
    <3> QED BY <1>2, <3>1
  <2>2. CASE up # {}
    <3>1. E = up /\ a.count \in Nat /\ a.count # 0
      BY <1>1, <1>2, <2>2 DEF Tracks, Selection
    <3> QED BY <1>2, <3>1
  <2> QED BY <2>1, <2>2
<1>n. \A i \in E : Order[i] \in Nodes /\ Order[i] # None
  BY <1>1, OrderFacts, OrderAssumption
<1>4. CASE E = {}
  <2>1. found = {} /\ shown = None
    BY <1>3, <1>4 DEF selectProxyLocked, Tracks
  <2> QED BY <2>1
<1>5. CASE E # {} /\ s = "sticky"
  <2>1. found = {IF \E i \in E : Order[i] = cur.sticky THEN cur.sticky ELSE Order[First(E)]}
    BY <1>5 DEF selectProxyLocked
  <2>2. First(E) \in E
    BY <1>1, <1>5, FirstIsLeast
  <2> HIDE DEF E, cur, shown, found
  <2>3. shown = IF \E i \in E : Order[i] = cur.sticky THEN cur.sticky ELSE Order[First(E)]
    BY <1>3, <1>5 DEF Tracks
  <2>4. shown # None
    BY <1>n, <2>2, <2>3
  <2> QED BY <2>1, <2>3, <2>4 DEF found, shown, cur
<1>6. CASE E # {} /\ s # "sticky"
  <2>1. s \in Measured /\ s \notin {"sticky", "round-robin", "random"}
    BY <1>6 DEF Measured
  <2>2. metric[s] \in [Nodes -> Nat]
    <3>1. metric \in [Measured -> [Nodes -> Metrics]]
      BY DEF TypeOK
    <3> QED BY <2>1, <3>1, GroupAssumption
  <2>3. found = {Order[BestOf(E, s, metric[s])]}
    BY <1>6, <2>1 DEF selectProxyLocked
  <2> HIDE DEF E, cur, shown, found
  <2>4. Wins(BestOf(E, s, metric[s]), E, s, metric[s])
    BY <1>1, <1>6, <2>2, BestIsBest DEF Wins
  <2>5. PICK b : Wins(b, E, s, metric[s]) /\ shown = Order[b]
    BY <1>3, <1>6, <2>1 DEF Tracks
  <2>6. b = BestOf(E, s, metric[s]) /\ b \in E
    <3>1. b = BestOf(E, s, metric[s])
      BY <1>1, <2>4, <2>5, OneWinner
    <3> QED BY <2>5, <3>1 DEF Wins
  <2>7. shown # None
    BY <1>n, <2>5, <2>6
  <2> QED BY <2>3, <2>5, <2>6, <2>7 DEF found, shown, cur
<1> QED BY <1>4, <1>5, <1>6

(* ... and so for every reachable state.                                   *)
THEOREM DashboardIsRight == Spec => []DashboardAgrees
<1>1. PickInv => DashboardAgrees
  BY ShownIsPicked DEF PickInv
<1> QED BY <1>1, PickInvariant, PTL
=============================================================================
