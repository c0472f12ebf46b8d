-------------------------- MODULE ConfigStoreProofs --------------------------
(***************************************************************************)
(* Proofs about ConfigStore: the configuration can always be loaded again, *)
(* uploads and configuration never part, what the operator was told holds, *)
(* and the routing table keeps its meaning, for any catalog of sources,    *)
(* any rules, groups and listeners, and any number of requests and crashes.*)
(*                                                                         *)
(* Every step that writes the file is one of three changes (a source, the  *)
(* rule table, anything else), a load or a crash; each invariant is proved *)
(* once for each of them.                                                  *)
(***************************************************************************)
EXTENDS ConfigStore, FiniteSetTheorems, SequenceTheorems, NaturalsInduction,
        WellFoundedInduction, TLAPS

(* The least-number principle, and what Min of FiniteSetsExt returns.      *)
LEMMA LeastNumber ==
    ASSUME NEW T, T \subseteq Nat, T # {}
    PROVE  Min(T) \in T /\ \A y \in T : Min(T) <= y
<1> DEFINE R == OpToRel(<, Nat)
<1>1. IsWellFoundedOn(R, Nat)
  BY NatLessThanWellFounded
<1>2. PICK x \in T : \A y \in T : ~(<<y, x>> \in R)
  <2> HIDE DEF R
  <2> QED BY <1>1, WFMin
<1>3. ASSUME NEW y \in T, y < x PROVE FALSE
  <2>1. <<y, x>> \in R
    BY <1>3 DEF OpToRel
  <2> QED BY <2>1, <1>2
<1>4. \E m \in T : \A y \in T : m <= y
  BY <1>3
<1> QED BY <1>4 DEF Min

(* IndexOf is the first rule with the ID, 0 without one.                   *)
LEMMA FirstIndex ==
    ASSUME NEW rules \in Seq(Rule), NEW id
    PROVE  LET at == IndexOf(rules, id)
           IN  /\ at \in 0 .. Len(rules)
               /\ at = 0 => \A i \in 1 .. Len(rules) : rules[i].id # id
               /\ at # 0 => rules[at].id = id
<1> DEFINE I == {i \in 1 .. Len(rules) : rules[i].id = id}
<1>1. IndexOf(rules, id) = IF I # {} THEN Min(I) ELSE 0
  BY DEF IndexOf, SelectInSeq
<1>2. I \subseteq Nat
  OBVIOUS
<1>3. I # {} => Min(I) \in I
  BY LeastNumber, <1>2
<1>4. Len(rules) \in Nat
  OBVIOUS
<1> QED BY <1>1, <1>3, <1>4

-----------------------------------------------------------------------------
(* A routing table as AddRule, MoveRule and the others keep it: MATCH is   *)
(* its last rule and no other one is.                                      *)
Table(rules) ==
    /\ rules \in Seq(Rule) /\ Len(rules) > 0
    /\ \A i \in 1 .. Len(rules) : rules[i].id = MatchId <=> i = Len(rules)
DefaultOf(rules) == rules[Len(rules)].group

LEMMA MatchPosition ==
    ASSUME NEW rules, Table(rules)
    PROVE  IndexOf(rules, MatchId) = Len(rules)
<1>1. Len(rules) \in Nat
  BY DEF Table
<1>2. rules[Len(rules)].id = MatchId
  BY <1>1 DEF Table
<1> QED BY FirstIndex, <1>1, <1>2 DEF Table

LEMMA InsertedTable ==
    ASSUME NEW rules, Table(rules), NEW r \in Rule, r.id # MatchId
    PROVE  LET new == InsertAt(rules, Len(rules), r)
           IN  Table(new) /\ DefaultOf(new) = DefaultOf(rules)
<1> DEFINE n == Len(rules)
           a == SubSeq(rules, 1, n - 1)
           z == SubSeq(rules, n, n)
           new == InsertAt(rules, n, r)
<1>1. rules \in Seq(Rule) /\ n \in Nat /\ n > 0
  BY DEF Table
<1>2. /\ a \in Seq(Rule) /\ Len(a) = n - 1 /\ \A i \in 1 .. n - 1 : a[i] = rules[i]
  <2>1. \A i \in 1 .. n - 1 : rules[i] \in Rule
    BY <1>1
  <2>2. /\ a \in Seq(Rule) /\ Len(a) = IF 1 <= n - 1 THEN n - 1 - 1 + 1 ELSE 0
        /\ \A i \in 1 .. n - 1 - 1 + 1 : a[i] = rules[1 + i - 1]
    BY <1>1, <2>1, SubSeqProperties
  <2>3. n - 1 - 1 + 1 = n - 1 /\ (~(1 <= n - 1) => n - 1 = 0)
    <3> HIDE DEF n
    <3> QED BY <1>1
  <2>4. \A i \in 1 .. n - 1 : 1 + i - 1 = i
    BY <1>1
  <2> HIDE DEF a
  <2> QED BY <2>2, <2>3, <2>4
<1>3. z \in Seq(Rule) /\ Len(z) = 1 /\ z[1] = rules[n]
  <2>1. \A i \in n .. n : rules[i] \in Rule
    BY <1>1
  <2>2. /\ z \in Seq(Rule) /\ Len(z) = n - n + 1
        /\ \A i \in 1 .. n - n + 1 : z[i] = rules[n + i - 1]
    BY <1>1, <2>1, SubSeqProperties
  <2> QED BY <1>1, <2>2
<1>4. new = (a \o <<r>>) \o z
  BY DEF InsertAt
<1> HIDE DEF a, z, new, n
<1>5. a \o <<r>> \in Seq(Rule) /\ Len(a \o <<r>>) = n
      /\ \A i \in 1 .. n : (a \o <<r>>)[i] = IF i = n THEN r ELSE rules[i]
  BY <1>1, <1>2
<1>6. new \in Seq(Rule) /\ Len(new) = n + 1
      /\ \A i \in 1 .. n + 1 : new[i] = IF i = n THEN r ELSE IF i < n THEN rules[i] ELSE rules[n]
  <2>1. /\ new \in Seq(Rule) /\ Len(new) = n + 1
        /\ \A i \in 1 .. n + 1 : new[i] = IF i <= n THEN (a \o <<r>>)[i] ELSE z[i - n]
    <3> DEFINE b == a \o <<r>>
    <3>1. b \in Seq(Rule) /\ Len(b) = n
      BY <1>5
    <3> HIDE DEF b
    <3>2. new = b \o z
      BY <1>4 DEF b
    <3>3. /\ new \in Seq(Rule) /\ Len(new) = n + 1
          /\ \A i \in 1 .. n + 1 : new[i] = IF i <= n THEN b[i] ELSE z[i - n]
      <4>1. \A i \in 1 .. Len(b) + Len(z) :
                 (b \o z)[i] = IF i <= Len(b) THEN b[i] ELSE z[i - Len(b)]
        BY <1>3, <3>1, ConcatProperties
      <4>2. b \o z \in Seq(Rule) /\ Len(b \o z) = Len(b) + Len(z)
        BY <1>3, <3>1, ConcatProperties
      <4> QED BY <1>3, <3>1, <3>2, <4>1, <4>2
    <3> QED BY <3>3 DEF b
  <2> QED BY <1>1, <1>3, <1>5, <2>1
<1>7. Table(rules) <=> (rules \in Seq(Rule) /\ n > 0
                        /\ \A i \in 1 .. n : rules[i].id = MatchId <=> i = n)
  BY DEF Table, n
<1>8. Table(new)
  BY <1>1, <1>6, <1>7 DEF Table
<1>9. DefaultOf(new) = DefaultOf(rules)
  BY <1>1, <1>6 DEF DefaultOf, n
<1> QED BY <1>8, <1>9 DEF new, n

LEMMA RemovedTable ==
    ASSUME NEW rules, Table(rules), NEW at \in 1 .. Len(rules), rules[at].id # MatchId
    PROVE  LET new == RemoveAt(rules, at)
           IN  Table(new) /\ DefaultOf(new) = DefaultOf(rules)
<1> DEFINE n == Len(rules)
           a == SubSeq(rules, 1, at - 1)
           z == SubSeq(rules, at + 1, n)
           new == RemoveAt(rules, at)
<1>1. rules \in Seq(Rule) /\ n \in Nat /\ at \in 1 .. n - 1
  BY DEF Table
<1>2. /\ a \in Seq(Rule) /\ Len(a) = at - 1 /\ \A i \in 1 .. at - 1 : a[i] = rules[i]
  BY <1>1, SubSeqProperties
<1>3. z \in Seq(Rule) /\ Len(z) = n - at /\ \A i \in 1 .. n - at : z[i] = rules[at + i]
  BY <1>1, SubSeqProperties
<1>4. new = a \o z
  BY DEF RemoveAt
<1>7. Table(rules) <=> (rules \in Seq(Rule) /\ n > 0
                        /\ \A i \in 1 .. n : rules[i].id = MatchId <=> i = n)
  BY DEF Table
<1> HIDE DEF a, z, new, n
<1>6. new \in Seq(Rule) /\ Len(new) = n - 1
      /\ \A i \in 1 .. n - 1 : new[i] = IF i < at THEN rules[i] ELSE rules[i + 1]
  <2>1. /\ new \in Seq(Rule) /\ Len(new) = (at - 1) + (n - at)
        /\ \A i \in 1 .. (at - 1) + (n - at) : new[i] = IF i <= at - 1 THEN a[i] ELSE z[i - (at - 1)]
    BY <1>2, <1>3, <1>4, ConcatProperties
  <2>2. ASSUME NEW i \in 1 .. n - 1
        PROVE  new[i] = IF i < at THEN rules[i] ELSE rules[i + 1]
    <3>1. CASE i < at
      BY <1>1, <1>2, <2>1, <3>1
    <3>2. CASE ~(i < at)
      <4>1. i - (at - 1) \in 1 .. n - at /\ at + (i - (at - 1)) = i + 1
        BY <1>1, <3>2
      <4>2. new[i] = z[i - (at - 1)]
        BY <1>1, <2>1, <3>2
      <4> QED BY <1>3, <3>2, <4>1, <4>2
    <3> QED BY <3>1, <3>2
  <2> QED BY <1>1, <2>1, <2>2
<1>8. Table(new)
  <2>1. Len(new) \in Nat /\ Len(new) > 0 /\ Len(new) = n - 1
    BY <1>1, <1>6
  <2>2. ASSUME NEW i \in 1 .. n - 1
        PROVE  new[i].id = MatchId <=> i = n - 1
    BY <1>1, <1>6, <1>7, <2>2
  <2> QED BY <1>6, <2>1, <2>2 DEF Table
<1>9. DefaultOf(new) = DefaultOf(rules)
  BY <1>1, <1>6 DEF DefaultOf, n
<1> QED BY <1>8, <1>9 DEF new

LEMMA SwappedTable ==
    ASSUME NEW rules, Table(rules), NEW i \in 1 .. Len(rules), NEW j \in 1 .. Len(rules),
           rules[i].id # MatchId, rules[j].id # MatchId
    PROVE  LET new == [rules EXCEPT ![i] = rules[j], ![j] = rules[i]]
           IN  Table(new) /\ DefaultOf(new) = DefaultOf(rules)
<1> DEFINE n == Len(rules)
           new == [rules EXCEPT ![i] = rules[j], ![j] = rules[i]]
<1>1. rules \in Seq(Rule) /\ n \in Nat /\ i \in 1 .. n - 1 /\ j \in 1 .. n - 1
  BY DEF Table
<1>2. new \in Seq(Rule) /\ Len(new) = n
      /\ \A k \in 1 .. n : new[k] = IF k = j THEN rules[i] ELSE IF k = i THEN rules[j] ELSE rules[k]
  BY <1>1
<1>3. Table(new)
  <2> HIDE DEF new
  <2> QED BY <1>1, <1>2 DEF Table
<1>4. DefaultOf(new) = DefaultOf(rules)
  <2> HIDE DEF new
  <2> QED BY <1>1, <1>2 DEF DefaultOf
<1> QED BY <1>3, <1>4

LEMMA RetargetedTable ==
    ASSUME NEW rules, Table(rules), NEW g \in Refs
    PROVE  LET new == [rules EXCEPT ![Len(rules)].group = g]
           IN  Table(new) /\ DefaultOf(new) = g
<1> DEFINE n == Len(rules)
           new == [rules EXCEPT ![n].group = g]
<1>1. rules \in Seq(Rule) /\ n \in Nat /\ n > 0
  BY DEF Table
<1>2. rules[n] \in Rule /\ [rules[n] EXCEPT !.group = g] \in Rule
      /\ [rules[n] EXCEPT !.group = g].id = rules[n].id
      /\ [rules[n] EXCEPT !.group = g].group = g
  <2>1. rules[n] \in Rule
    BY <1>1
  <2> DEFINE r == rules[n]
  <2> HIDE DEF r
  <2>2. r \in Rule
    BY <2>1 DEF r
  <2>3. [r EXCEPT !.group = g] \in Rule /\ [r EXCEPT !.group = g].id = r.id
        /\ [r EXCEPT !.group = g].group = g
    BY <2>2 DEF Rule
  <2> QED BY <2>1, <2>3 DEF r
<1>3. new \in Seq(Rule) /\ Len(new) = n
      /\ \A k \in 1 .. n : new[k] = IF k = n THEN [rules[n] EXCEPT !.group = g] ELSE rules[k]
  BY <1>1, <1>2
<1>4. Table(new)
  <2> HIDE DEF new
  <2> QED BY <1>1, <1>2, <1>3 DEF Table
<1>5. DefaultOf(new) = g
  <2> HIDE DEF new
  <2>1. n \in 1 .. n
    BY <1>1
  <2>2. Len(new) = n /\ new[n] = [rules[n] EXCEPT !.group = g]
    BY <1>3, <2>1
  <2>3. new[n].group = g
    BY <1>2, <2>2, Zenon
  <2> QED BY <2>2, <2>3 DEF DefaultOf
<1> QED BY <1>4, <1>5

LEMMA DefaultTable == Table(<<Match(GroupAny)>>) /\ DefaultOf(<<Match(GroupAny)>>) = GroupAny
BY RoutingAssumption DEF Table, DefaultOf, Match, Rule, Refs

(* InstallGFWPreset: the preset's own rules, and MATCH after them.         *)
LEMMA PresetTable ==
    LET new == GFWPreset \o <<Match(GroupAny)>>
    IN  Table(new) /\ DefaultOf(new) = GroupAny
<1> DEFINE n == Len(GFWPreset)
           new == GFWPreset \o <<Match(GroupAny)>>
<1>1. n \in Nat /\ GFWPreset \in Seq([id : Presets, group : {GroupAny, GroupDirect}])
  BY RoutingAssumption
<1>2. \A i \in 1 .. n : GFWPreset[i] \in Rule /\ GFWPreset[i].id # MatchId
  <2> TAKE i \in 1 .. n
  <2>1. GFWPreset[i] \in [id : Presets, group : {GroupAny, GroupDirect}]
    BY <1>1, ElementOfSeq
  <2> QED BY <2>1, RoutingAssumption DEF Rule, Refs
<1>3. Match(GroupAny) \in Rule /\ Match(GroupAny).id = MatchId /\ Match(GroupAny).group = GroupAny
  BY RoutingAssumption DEF Match, Rule, Refs
<1>4. Len(new) = n + 1 /\ \A i \in 1 .. n + 1 : new[i] = IF i <= n THEN GFWPreset[i] ELSE Match(GroupAny)
  BY <1>1
<1>5. new \in Seq(Rule)
  <2>1. GFWPreset \in Seq(Rule)
    BY <1>1, <1>2, SeqDef, LenProperties
  <2> QED BY <1>3, <2>1
<1> HIDE DEF new
<1>6. Table(new) /\ DefaultOf(new) = GroupAny
  BY <1>1, <1>2, <1>3, <1>4, <1>5 DEF Table, DefaultOf
<1> QED BY <1>6 DEF new

-----------------------------------------------------------------------------
(* Configurations that differ in one field.                                *)
LEMMA WithSource ==
    ASSUME NEW c \in Config, NEW s \in Sources, NEW v \in State
    PROVE  LET n == [c EXCEPT !.sources[s] = v]
           IN  /\ n \in Config /\ n.sources = [c.sources EXCEPT ![s] = v]
               /\ n.catalog = c.catalog /\ n.rules = c.rules
BY DEF Config

LEMMA WithRules ==
    ASSUME NEW c \in Config, NEW rules \in Seq(Rule)
    PROVE  LET n == [c EXCEPT !.rules = rules]
           IN  /\ n \in Config /\ n.rules = rules
               /\ n.catalog = c.catalog /\ n.sources = c.sources
BY DEF Config

LEMMA WithOptions ==
    ASSUME NEW c \in Config, NEW o \in Options
    PROVE  LET n == [c EXCEPT !.options = o]
           IN  /\ n \in Config /\ n.rules = c.rules /\ n.catalog = c.catalog
               /\ n.sources = c.sources /\ n.groups = c.groups /\ n.listeners = c.listeners
BY DEF Config

LEMMA WithGroup ==
    ASSUME NEW c \in Config, NEW g \in Groups, NEW v \in {"absent"} \cup Strategies
    PROVE  LET n == [c EXCEPT !.groups[g] = v]
           IN  /\ n \in Config /\ n.rules = c.rules
               /\ n.catalog = c.catalog /\ n.sources = c.sources
BY DEF Config

LEMMA WithListener ==
    ASSUME NEW c \in Config, NEW l \in Listeners, NEW b \in Binding
    PROVE  LET n == [c EXCEPT !.listeners[l] = b]
           IN  /\ n \in Config /\ n.rules = c.rules
               /\ n.catalog = c.catalog /\ n.sources = c.sources
               /\ n.listeners = [c.listeners EXCEPT ![l] = b]
BY DEF Config

(* A configuration that can be loaded, with MATCH at the end of its rules. *)
Sound(c) == c \in Config /\ Table(c.rules) /\ validatePersistedPoolConfig(c)

LEMMA FinitePresent ==
    ASSUME NEW c
    PROVE  /\ IsFiniteSet(Present(c)) /\ Cardinality(Present(c)) \in Nat
           /\ Present(c) \subseteq Sources
<1>1. Present(c) \subseteq Sources
  BY DEF Present
<1>2. IsFiniteSet(Present(c))
  BY <1>1, FS_Subset, FiniteAssumption
<1> QED BY <1>1, <1>2, FS_CardinalityType

LEMMA DefaultStates ==
    /\ \A s \in Sources : DefaultState(s) \in State
    /\ \A s \in Sources : DefaultState(s) # "absent" <=> s \in Builtins
BY CatalogAssumption DEF DefaultState, State, Sources

(* The default configuration is sound.                                     *)
LEMMA DefaultSound ==
    /\ Sound(defaultPoolConfig)
    /\ defaultPoolConfig.catalog = 1
    /\ \A u \in Uploads : defaultPoolConfig.sources[u] = "absent"
<1> DEFINE d == defaultPoolConfig
<1>1. /\ d.sources = [s \in Sources |-> DefaultState(s)] /\ d.catalog = 1
      /\ d.rules = <<Match(GroupAny)>> /\ d.groups = [g \in Groups |-> "absent"]
      /\ d.listeners = [l \in Listeners |-> NoBinding] /\ d.options = DefaultURL
  BY DEF defaultPoolConfig
<1>2. Table(d.rules)
  BY <1>1, DefaultTable
<1>3. d \in Config
  <2>1. d.rules \in Seq(Rule)
    BY <1>2 DEF Table
  <2>2. d.sources \in [Sources -> State]
    BY <1>1, DefaultStates
  <2> QED BY <1>1, <2>1, <2>2, OptionsAssumption DEF Config, Binding, defaultPoolConfig
<1>4. \A u \in Uploads : d.sources[u] = "absent"
  BY <1>1, DefaultStates, CatalogAssumption DEF Sources
<1>5. Present(d) = Builtins
  BY <1>1, DefaultStates DEF Present, Sources
<1>6. Named(d) = {} /\ Bound(d) = {}
  BY <1>1 DEF Named, Bound
<1>7. Len(d.rules) = 1 /\ d.rules[1].group = GroupAny
  BY <1>1 DEF Match
<1>8. Len(GFWPreset) \in Nat
  BY RoutingAssumption
<1>9. validatePersistedPoolConfig(d)
  <2> HIDE DEF d
  <2>1. Len(d.rules) <= MaxRules
    BY <1>7, <1>8, LimitAssumption
  <2>2. Cardinality(Present(d)) <= MaxSources
    BY <1>5, LimitAssumption
  <2>3. Cardinality(Named(d)) <= MaxGroups /\ Cardinality(Bound(d)) <= MaxListeners
    BY <1>6, FS_EmptySet, LimitAssumption
  <2>4. \A i \in 1 .. Len(d.rules) : resolveGroupReference(d.rules[i].group, d)
    BY <1>7, RoutingAssumption DEF resolveGroupReference
  <2> QED BY <1>6, <2>1, <2>2, <2>3, <2>4 DEF validatePersistedPoolConfig
<1> QED BY <1>1, <1>2, <1>3, <1>4, <1>9 DEF Sound

(* validatePersistedPoolConfig looks at the sources only to count them.    *)
LEMMA SameChecks ==
    ASSUME NEW c, NEW n, validatePersistedPoolConfig(c), Cardinality(Present(n)) <= MaxSources,
           n.rules = c.rules, n.groups = c.groups, n.listeners = c.listeners
    PROVE  validatePersistedPoolConfig(n)
<1>1. Named(n) = Named(c) /\ Bound(n) = Bound(c)
  BY DEF Named, Bound
<1>2. \A ref : resolveGroupReference(ref, n) <=> resolveGroupReference(ref, c)
  BY <1>1 DEF resolveGroupReference
<1>3. \A b : validateListenerBinding(b, n) <=> validateListenerBinding(b, c)
  BY <1>2 DEF validateListenerBinding
<1> QED BY <1>1, <1>2, <1>3 DEF validatePersistedPoolConfig

(* Migration 1 adds what there is room for, and touches neither uploads    *)
(* nor anything but the sources.                                           *)
LEMMA Migrated ==
    ASSUME NEW c \in Config, NEW n \in migrateBuiltinSourceCatalog(c)
    PROVE  /\ n \in Config /\ n.catalog = 1 /\ (c.catalog = 1 => n = c)
           /\ n.rules = c.rules /\ n.groups = c.groups /\ n.listeners = c.listeners
           /\ \A u \in Uploads : n.sources[u] = c.sources[u]
           /\ validatePersistedPoolConfig(c) => validatePersistedPoolConfig(n)
<1>1. CASE c.catalog = 1
  BY <1>1 DEF migrateBuiltinSourceCatalog
<1>2. CASE c.catalog # 1
  <2> DEFINE room == MaxSources - Cardinality(Present(c))
             src(I) == [s \in Sources |->
                  IF s \in I THEN DefaultState(s)
                  ELSE IF c.sources[s] = "on" /\
                          (s \in Retired \/ \E b \in I \cup Present(c) : Duplicates(s, b))
                       THEN "off" ELSE c.sources[s]]
  <2>1. PICK I \in Inserted(c, room) : n = [c EXCEPT !.catalog = 1, !.sources = src(I)]
    BY <1>2 DEF migrateBuiltinSourceCatalog, Migrate
  <2>2. I \subseteq Wanted(c) /\ Cardinality(I) <= room
    BY DEF Inserted
  <2>3. I \subseteq Builtins /\ I \cap Present(c) = {}
    BY <2>2, CatalogAssumption DEF Wanted
  <2>4. src(I) \in [Sources -> State]
    BY DefaultStates DEF Config, State
  <2>5. /\ n \in Config /\ n.catalog = 1 /\ n.sources = src(I)
        /\ n.rules = c.rules /\ n.groups = c.groups /\ n.listeners = c.listeners
    <3> HIDE DEF src
    <3> QED BY <2>1, <2>4 DEF Config
  <2>6. ASSUME NEW u \in Uploads PROVE n.sources[u] = c.sources[u]
    <3>1. u \in Sources /\ u \notin I /\ u \notin Retired /\ u \notin Customs
      BY <2>3, CatalogAssumption DEF Sources
    <3> QED BY <2>5, <3>1 DEF Duplicates
  <2>7. Present(n) = Present(c) \cup I
    <3>1. ASSUME NEW s \in Sources
          PROVE  n.sources[s] # "absent" <=> (c.sources[s] # "absent" \/ s \in I)
      <4>1. CASE s \in I
        BY <2>3, <2>5, <4>1, DefaultStates
      <4>2. CASE s \notin I
        BY <2>5, <4>2
      <4> QED BY <4>1, <4>2
    <3>2. I \subseteq Sources
      BY <2>3 DEF Sources
    <3> HIDE DEF src
    <3> QED BY <3>1, <3>2 DEF Present
  <2>8. Cardinality(Present(n)) <= MaxSources
    <3>1. IsFiniteSet(I)
      BY <2>3, FS_Subset, FiniteAssumption DEF Sources
    <3>2. Cardinality(I) \in Nat
      BY <3>1, FS_CardinalityType
    <3>3. Cardinality(Present(c) \cup I) = Cardinality(Present(c)) + Cardinality(I) - Cardinality({})
      <4>1. Present(c) \cap I = {}
        BY <2>3
      <4> QED BY <3>1, <4>1, FinitePresent, FS_Union
    <3>4. Cardinality(Present(c)) \in Nat
      BY FinitePresent
    <3>5. MaxSources \in Nat
      BY LimitAssumption
    <3> QED BY <2>2, <2>7, <3>2, <3>3, <3>4, <3>5, FS_EmptySet
  <2> HIDE DEF src
  <2> QED BY <1>2, <2>5, <2>6, <2>8, SameChecks
<1> QED BY <1>1, <1>2

(* What NewConfigStore loads.                                              *)
Loads(f) == IF f = None THEN {defaultPoolConfig}
            ELSE {migrateCheckURL(c) : c \in migrateBuiltinSourceCatalog(f)}

LEMMA LoadedConfig ==
    ASSUME NEW f \in Config, f # None, NEW n \in Loads(f)
    PROVE  /\ n \in Config /\ n.catalog = 1 /\ n.rules = f.rules
           /\ f.catalog = 1 => n.sources = f.sources
           /\ \A u \in Uploads : n.sources[u] = f.sources[u]
<1>1. PICK c \in migrateBuiltinSourceCatalog(f) : n = migrateCheckURL(c)
  BY DEF Loads
<1>2. /\ c \in Config /\ c.catalog = 1 /\ (f.catalog = 1 => c = f) /\ c.rules = f.rules
      /\ \A u \in Uploads : c.sources[u] = f.sources[u]
  BY Migrated
<1>3. n = [c EXCEPT !.options = IF c.options = LegacyURL THEN DefaultURL ELSE c.options]
  BY <1>1 DEF migrateCheckURL
<1>4. (IF c.options = LegacyURL THEN DefaultURL ELSE c.options) \in Options
  BY <1>2, OptionsAssumption DEF Config
<1> QED BY <1>2, <1>3, <1>4, WithOptions

-----------------------------------------------------------------------------
(* Types.                                                                  *)
LEMMA ToldType ==
    ASSUME NEW S, NEW p \in Promise(S), NEW v \in S, NEW out
    PROVE  Told(out, v, p) \in Promise(S)
BY DEF Told, Promise

LEMMA CrashType ==
    ASSUME NEW S, NEW p \in Promise(S)
    PROVE  AfterCrash(p) \in Promise(S)
BY DEF AfterCrash, Promise, Untold

(* mutate writes configurations only.                                      *)
LEMMA MutateTypes ==
    ASSUME TypeOK, NEW next \in Config, NEW out, mutate(next, out)
    PROVE  {cfg', file', durable'} \subseteq {None} \cup Config
BY DEF mutate, TypeOK

(* A change of one source, as AddSource, ToggleSource, DeleteSource and    *)
(* ImportSource make it.                                                   *)
SourceChange(s, v, out) ==
    /\ Up /\ mutate([cfg EXCEPT !.sources[s] = v], out)
    /\ SourceTold(s, v, out) /\ defaulted' = defaulted

(* A change of the routing table; the operator is told of a new default.   *)
RulesChange(rules, out) ==
    /\ Up /\ Table(rules) /\ mutate([cfg EXCEPT !.rules = rules], out)
    /\ promise' = promise
    /\ \/ defaulted' = defaulted /\ DefaultOf(rules) = DefaultOf(cfg.rules)
       \/ defaulted' = Told(out, DefaultOf(rules), defaulted)

(* A change that touches neither of them.                                  *)
OtherChange(next, out) ==
    /\ Up /\ next \in Config /\ mutate(next, out)
    /\ next.sources = cfg.sources /\ next.catalog = cfg.catalog /\ next.rules = cfg.rules
    /\ UNCHANGED told

SourceStep == \E s \in Sources, v \in State, out \in Outcome : SourceChange(s, v, out)
RulesStep == \E out \in Outcome : \E rules : RulesChange(rules, out)
OtherStep == \E out \in Outcome : \E next : OtherChange(next, out)
Written == SourceStep \/ RulesStep \/ OtherStep

(* The table in memory, where it matters.                                  *)
Routed == Up => Table(cfg.rules)

LEMMA SourceSteps ==
    ASSUME NEW out \in Outcome, SourceNext(out), TypeOK,
           handler.stage = "stored" => handler.source \in Uploads
    PROVE  SourceStep \/ OtherStep
<1>1. Up /\ cfg \in Config
  BY DEF SourceNext, AddSource, ToggleSource, DeleteSource, PublishUpload, SetOptions, Asked,
         TypeOK, Up
<1>2. ASSUME NEW s \in Customs, AddSource(s, out) PROVE SourceStep
  BY <1>1, <1>2 DEF AddSource, SourceStep, SourceChange, Sources, State
<1>3. ASSUME NEW s \in Sources, NEW v \in {"off", "on"}, ToggleSource(s, v, out)
      PROVE  SourceStep
  BY <1>1, <1>3 DEF ToggleSource, SourceStep, SourceChange, State
<1>4. ASSUME NEW s \in Sources, DeleteSource(s, out) PROVE SourceStep
  BY <1>1, <1>4 DEF DeleteSource, SourceStep, SourceChange, State
<1>5. ASSUME PublishUpload(out) PROVE SourceStep
  <2> DEFINE u == handler.source
  <2>1. u \in Sources /\ mutate([cfg EXCEPT !.sources[u] = "on"], out)
        /\ SourceTold(u, "on", out) /\ defaulted' = defaulted
    BY <1>5 DEF PublishUpload, Sources
  <2> HIDE DEF u
  <2> QED BY <1>1, <2>1 DEF SourceStep, SourceChange, State
<1>6. ASSUME NEW o \in Options, SetOptions(o, out) PROVE OtherStep
  <2> DEFINE n == [cfg EXCEPT !.options = o]
  <2>1. n \in Config /\ n.rules = cfg.rules /\ n.catalog = cfg.catalog /\ n.sources = cfg.sources
    BY <1>1, WithOptions
  <2>2. mutate(n, out) /\ UNCHANGED told
    BY <1>6 DEF SetOptions, told
  <2> HIDE DEF n
  <2> QED BY <1>1, <2>1, <2>2 DEF OtherStep, OtherChange
<1> QED BY <1>2, <1>3, <1>4, <1>5, <1>6 DEF SourceNext

LEMMA RuleSteps ==
    ASSUME NEW out \in Outcome, RuleNext(out), TypeOK, Routed
    PROVE  RulesStep \/ OtherStep
<1>1. Up /\ cfg \in Config /\ Table(cfg.rules) /\ cfg.rules \in Seq(Rule)
  BY DEF RuleNext, AddRule, DeleteRule, MoveRule, SetDefaultGroup, InstallGFWPreset, RouteChange,
         Asked, TypeOK, Up, Routed, Table
<1> DEFINE R == cfg.rules
<1>2. IndexOf(R, MatchId) = Len(R) /\ Len(R) \in Nat /\ Len(R) # 0
  BY <1>1, MatchPosition DEF Table
<1>3. ASSUME NEW rules, Table(rules), RouteChange([cfg EXCEPT !.rules = rules], out),
             \/ defaulted' = defaulted /\ DefaultOf(rules) = DefaultOf(cfg.rules)
             \/ defaulted' = Told(out, DefaultOf(rules), defaulted)
      PROVE  RulesStep
  BY <1>1, <1>3 DEF RouteChange, RulesStep, RulesChange
<1>4. ASSUME NEW id \in RuleIds, NEW g \in Refs, AddRule(id, g, out) PROVE RulesStep
  <2> DEFINE r == [id |-> id, group |-> g]
             new == InsertAt(R, Len(R), r)
  <2>1. r \in Rule /\ r.id # MatchId
    BY RoutingAssumption DEF Rule
  <2>2. Table(new) /\ DefaultOf(new) = DefaultOf(R)
    BY <1>1, <2>1, InsertedTable
  <2>3. RouteChange([cfg EXCEPT !.rules = new], out) /\ defaulted' = defaulted
    BY <1>2, <1>4 DEF AddRule
  <2> HIDE DEF new
  <2> QED BY <1>3, <2>2, <2>3
<1>5. ASSUME NEW id, DeleteRule(id, out) PROVE RulesStep
  <2> DEFINE at == IndexOf(R, id)
             new == RemoveAt(R, at)
  <2>1. at \in 1 .. Len(R) /\ R[at].id # MatchId
    BY <1>1, <1>2, <1>5, FirstIndex DEF DeleteRule
  <2>2. Table(new) /\ DefaultOf(new) = DefaultOf(R)
    BY <1>1, <2>1, RemovedTable
  <2>3. RouteChange([cfg EXCEPT !.rules = new], out) /\ defaulted' = defaulted
    BY <1>5 DEF DeleteRule
  <2> HIDE DEF new
  <2> QED BY <1>3, <2>2, <2>3
<1>6. ASSUME NEW id, NEW delta \in Deltas, MoveRule(id, delta, out) PROVE RulesStep \/ OtherStep
  <2> DEFINE from == IndexOf(R, id)
             onto == from + delta
             new == [R EXCEPT ![from] = R[onto], ![onto] = R[from]]
  <2>1. from \in 1 .. Len(R) /\ R[from].id = id
    BY <1>1, <1>2, <1>6, FirstIndex DEF MoveRule
  <2>2. CASE onto \notin 1 .. Len(R)
    <3>1. RouteChange(cfg, out) /\ defaulted' = defaulted
      BY <1>6, <2>2 DEF MoveRule
    <3> QED BY <1>1, <3>1 DEF RouteChange, OtherStep, OtherChange, told
  <2>3. CASE onto \in 1 .. Len(R)
    <3>1. /\ MatchId \notin {id, R[onto].id} /\ defaulted' = defaulted
          /\ RouteChange([cfg EXCEPT !.rules = new], out)
      BY <1>6, <2>3 DEF MoveRule
    <3>2. Table(new) /\ DefaultOf(new) = DefaultOf(R)
      BY <1>1, <2>1, <2>3, <3>1, SwappedTable
    <3> HIDE DEF new
    <3> QED BY <1>3, <3>1, <3>2
  <2> QED BY <2>2, <2>3
<1>7. ASSUME NEW g \in Refs, SetDefaultGroup(g, out) PROVE RulesStep
  <2> DEFINE new == [R EXCEPT ![Len(R)].group = g]
  <2>1. Table(new) /\ DefaultOf(new) = g
    BY <1>1, RetargetedTable
  <2>2. RouteChange([cfg EXCEPT !.rules = new], out) /\ defaulted' = Told(out, g, defaulted)
    BY <1>2, <1>7 DEF SetDefaultGroup
  <2> HIDE DEF new
  <2> QED BY <1>3, <2>1, <2>2
<1>8. ASSUME InstallGFWPreset(out) PROVE RulesStep
  <2> DEFINE new == GFWPreset \o <<Match(GroupAny)>>
  <2>1. Table(new) /\ DefaultOf(new) = GroupAny
    BY PresetTable
  <2>2. RouteChange([cfg EXCEPT !.rules = new], out) /\ defaulted' = Told(out, GroupAny, defaulted)
    BY <1>8 DEF InstallGFWPreset
  <2> HIDE DEF new
  <2> QED BY <1>3, <2>1, <2>2
<1> QED BY <1>4, <1>5, <1>6, <1>7, <1>8 DEF RuleNext

LEMMA GroupSteps ==
    ASSUME NEW out \in Outcome, GroupNext(out), TypeOK
    PROVE  OtherStep
<1>1. Up /\ cfg \in Config
  BY DEF GroupNext, AddGroup, SetGroupStrategy, DeleteGroup, TypeOK, Up
<1>2. PICK g \in Groups, v \in {"absent"} \cup Strategies :
           RouteChange([cfg EXCEPT !.groups[g] = v], out) /\ defaulted' = defaulted
  BY DEF GroupNext, AddGroup, SetGroupStrategy, DeleteGroup
<1> DEFINE n == [cfg EXCEPT !.groups[g] = v]
<1>3. n \in Config /\ n.rules = cfg.rules /\ n.catalog = cfg.catalog /\ n.sources = cfg.sources
  BY <1>1, WithGroup
<1>4. mutate(n, out) /\ UNCHANGED told
  BY <1>2 DEF RouteChange, told
<1> HIDE DEF n
<1> QED BY <1>1, <1>3, <1>4 DEF OtherStep, OtherChange

CopyTypes ==
    /\ {cfg, file, durable} \subseteq {None} \cup Config
    /\ promise \in [Sources -> Promise(State)] /\ defaulted \in Promise(Refs)

LEMMA WrittenTypes ==
    ASSUME TypeOK, Written
    PROVE  CopyTypes'
<1> SUFFICES /\ {cfg', file', durable'} \subseteq {None} \cup Config
             /\ promise' \in [Sources -> Promise(State)] /\ defaulted' \in Promise(Refs)
  BY DEF CopyTypes
<1>1. promise \in [Sources -> Promise(State)] /\ defaulted \in Promise(Refs)
  BY DEF TypeOK
<1>2. ASSUME NEW s \in Sources, NEW v \in State, NEW out, SourceChange(s, v, out)
      PROVE  /\ {cfg', file', durable'} \subseteq {None} \cup Config
             /\ promise' \in [Sources -> Promise(State)] /\ defaulted' \in Promise(Refs)
  <2>1. cfg \in Config
    BY <1>2 DEF SourceChange, TypeOK, Up
  <2>2. [cfg EXCEPT !.sources[s] = v] \in Config
    BY <2>1, WithSource
  <2>3. {cfg', file', durable'} \subseteq {None} \cup Config
    BY <1>2, <2>2, MutateTypes DEF SourceChange
  <2>4. promise[s] \in Promise(State)
    BY <1>1
  <2>5. Told(out, v, promise[s]) \in Promise(State)
    BY <2>4, ToldType
  <2> QED BY <1>1, <1>2, <2>3, <2>5 DEF SourceChange, SourceTold
<1>3. ASSUME NEW rules, NEW out, RulesChange(rules, out)
      PROVE  /\ {cfg', file', durable'} \subseteq {None} \cup Config
             /\ promise' \in [Sources -> Promise(State)] /\ defaulted' \in Promise(Refs)
  <2>1. cfg \in Config /\ rules \in Seq(Rule)
    BY <1>3 DEF RulesChange, TypeOK, Up, Table
  <2>2. [cfg EXCEPT !.rules = rules] \in Config
    BY <2>1, WithRules
  <2>3. {cfg', file', durable'} \subseteq {None} \cup Config
    BY <1>3, <2>2, MutateTypes DEF RulesChange
  <2>4. DefaultOf(rules) \in Refs
    <3>1. Len(rules) \in 1 .. Len(rules)
      BY <1>3 DEF RulesChange, Table
    <3>2. rules[Len(rules)] \in Rule
      BY <2>1, <3>1
    <3> QED BY <3>2 DEF DefaultOf, Rule
  <2>5. Told(out, DefaultOf(rules), defaulted) \in Promise(Refs)
    BY <1>1, <2>4, ToldType
  <2> QED BY <1>1, <1>3, <2>3, <2>5 DEF RulesChange
<1>4. ASSUME NEW next, NEW out, OtherChange(next, out)
      PROVE  /\ {cfg', file', durable'} \subseteq {None} \cup Config
             /\ promise' \in [Sources -> Promise(State)] /\ defaulted' \in Promise(Refs)
  BY <1>1, <1>4, MutateTypes DEF OtherChange, told
<1> QED BY <1>2, <1>3, <1>4 DEF Written, SourceStep, RulesStep, OtherStep

LEMMA LoadTypes ==
    ASSUME TypeOK, NEW out, NewConfigStore(out)
    PROVE  CopyTypes' /\ applied' \subseteq Sources
<1>1. PICK next \in Loads(file) :
         \/ cfg' = next /\ applied' = Enabled(next) /\ UNCHANGED <<file, durable>>
         \/ /\ file' \in {file, next} /\ durable' \in {durable, next}
            /\ \/ cfg' = next /\ applied' = Enabled(next)
               \/ UNCHANGED <<cfg, applied>>
  BY DEF NewConfigStore, Loads, Loaded
<1>2. next \in Config
  <2>1. CASE file = None
    BY <2>1, DefaultSound DEF Loads, Sound
  <2>2. CASE file # None
    BY <2>2, LoadedConfig DEF TypeOK
  <2> QED BY <2>1, <2>2
<1>3. UNCHANGED told
  BY DEF NewConfigStore
<1> QED BY <1>1, <1>2, <1>3 DEF TypeOK, CopyTypes, told, Enabled

LEMMA CrashTypes ==
    ASSUME TypeOK, Crash
    PROVE  CopyTypes'
<1>1. file' \in {file, durable} /\ durable' = file' /\ cfg' = None
  BY DEF Crash
<1>2. promise' \in [Sources -> Promise(State)]
  <2>1. ASSUME NEW s \in Sources PROVE AfterCrash(promise[s]) \in Promise(State)
    BY CrashType DEF TypeOK
  <2> QED BY <2>1 DEF Crash
<1>3. defaulted' \in Promise(Refs)
  BY CrashType DEF Crash, TypeOK
<1> QED BY <1>1, <1>2, <1>3 DEF CopyTypes, TypeOK

(* The source handlers and the counters.                                   *)
LEMMA HandlerTypes ==
    ASSUME TypeOK, Next,
           handler.stage = "stored" => handler.source \in Uploads
    PROVE  /\ uploads' \subseteq Uploads
           /\ handler' \in [stage : Stage, source : {None} \cup Sources]
           /\ ~(\E out \in Outcome : NewConfigStore(out)) => applied' \subseteq Sources
           /\ ops' \in 0 .. MaxOps /\ crashes' \in 0 .. MaxCrashes
<1> USE LimitAssumption DEF TypeOK, Stage
<1>1. Idle \in [stage : Stage, source : {None} \cup Sources]
  BY DEF Idle
<1>2. Asked => ops' \in 0 .. MaxOps
  BY DEF Asked
<1>3. \A st \in Stage : [handler EXCEPT !.stage = st] \in [stage : Stage, source : {None} \cup Sources]
  OBVIOUS
<1>4. \A st \in Stage, s \in Sources :
         [stage |-> st, source |-> s] \in [stage : Stage, source : {None} \cup Sources]
  OBVIOUS
<1> HIDE DEF Stage
<1>5. {"idle", "apply", "unlink", "stored", "discard"} \subseteq Stage
  BY DEF Stage
<1>6. ASSUME NEW out \in Outcome, SourceNext(out)
      PROVE  /\ uploads' \subseteq Uploads
             /\ handler' \in [stage : Stage, source : {None} \cup Sources]
             /\ applied' \subseteq Sources
             /\ ops' \in 0 .. MaxOps /\ crashes' \in 0 .. MaxCrashes
  <2>1. UNCHANGED <<uploads, applied, crashes>> /\ ops' \in 0 .. MaxOps
    BY <1>2, <1>6
    DEF SourceNext, AddSource, ToggleSource, DeleteSource, PublishUpload, SetOptions
  <2>2. \/ handler' \in {handler, Idle}
        \/ \E st \in Stage : handler' = [handler EXCEPT !.stage = st]
        \/ \E st \in Stage, s \in Sources : handler' = [stage |-> st, source |-> s]
    <3>1. ASSUME NEW s \in Sources, DeleteSource(s, out)
          PROVE  handler' = Idle \/ \E st \in Stage : handler' = [stage |-> st, source |-> s]
      BY <1>5, <3>1 DEF DeleteSource
    <3>2. ASSUME NEW s \in Sources, NEW v, ToggleSource(s, v, out)
          PROVE  handler' = Idle \/ handler' = [stage |-> "apply", source |-> s]
      BY <3>2 DEF ToggleSource
    <3>3. ASSUME PublishUpload(out)
          PROVE  handler' = Idle \/ handler' = [handler EXCEPT !.stage = "discard"]
      BY <3>3 DEF PublishUpload
    <3>4. ASSUME NEW s, AddSource(s, out) \/ SetOptions(s, out) PROVE handler' = handler
      BY <3>4 DEF AddSource, SetOptions
    <3> QED BY <1>5, <1>6, <3>1, <3>2, <3>3, <3>4 DEF SourceNext
  <2> QED BY <1>1, <1>3, <1>4, <2>1, <2>2
<1>7. ASSUME NEW out \in Outcome, RuleNext(out) \/ GroupNext(out)
      PROVE  /\ uploads' \subseteq Uploads
             /\ handler' \in [stage : Stage, source : {None} \cup Sources]
             /\ applied' \subseteq Sources
             /\ ops' \in 0 .. MaxOps /\ crashes' \in 0 .. MaxCrashes
  <2>1. Asked /\ UNCHANGED <<uploads, handler, applied, crashes>>
    BY <1>7 DEF RuleNext, GroupNext, AddRule, DeleteRule, MoveRule, SetDefaultGroup,
                InstallGFWPreset, AddGroup, SetGroupStrategy, DeleteGroup, RouteChange
  <2> QED BY <1>2, <2>1
<1>8. ASSUME UploadNext
      PROVE  /\ uploads' \subseteq Uploads
             /\ handler' \in [stage : Stage, source : {None} \cup Sources]
             /\ applied' \subseteq Sources
             /\ ops' \in 0 .. MaxOps /\ crashes' \in 0 .. MaxCrashes
  <2>1. ASSUME NEW u \in Uploads, StoreUpload(u)
        PROVE  /\ uploads' \subseteq Uploads
               /\ handler' \in [stage : Stage, source : {None} \cup Sources]
               /\ applied' \subseteq Sources
               /\ ops' \in 0 .. MaxOps /\ crashes' \in 0 .. MaxCrashes
    BY <1>1, <1>2, <1>4, <1>5, <2>1 DEF StoreUpload, Sources
  <2>2. CASE RefuseUpload \/ DiscardUpload \/ removeImportedSource \/ ApplyEnabledSources
    BY <1>1, <1>3, <1>5, <2>2
    DEF RefuseUpload, DiscardUpload, removeImportedSource, ApplyEnabledSources, disk, Enabled
  <2> QED BY <1>8, <2>1, <2>2 DEF UploadNext
<1>9. ASSUME NEW out \in Outcome, NewConfigStore(out)
      PROVE  UNCHANGED <<uploads, handler, ops, crashes>>
  BY <1>9 DEF NewConfigStore
<1>10. ASSUME Crash
       PROVE  /\ uploads' \subseteq Uploads
              /\ handler' \in [stage : Stage, source : {None} \cup Sources]
              /\ applied' \subseteq Sources
              /\ ops' \in 0 .. MaxOps /\ crashes' \in 0 .. MaxCrashes
  BY <1>1, <1>10 DEF Crash
<1> QED BY <1>6, <1>7, <1>8, <1>9, <1>10 DEF Next

-----------------------------------------------------------------------------
(* The inductive invariant.  Memory follows the file; whichever copy of it *)
(* a crash leaves is sound; an upload that is being removed or has not     *)
(* been published is in neither copy; and what was told about a source or  *)
(* the default route is in the file, and in the durable copy once it was   *)
(* told for good.  Nothing was told about a configuration that is still to *)
(* be created or migrated.                                                 *)
Copies == {file, durable} \ {None}
Mirrored == Up => cfg = file /\ cfg.catalog = 1
CopiesSound == \A c \in Copies : Sound(c)
Absent(u) == \A c \in Copies : c.sources[u] = "absent"
Handled ==
    /\ handler.stage # "idle" => Up
    /\ handler.stage \in {"unlink", "stored", "discard"} =>
         handler.source \in Uploads /\ Absent(handler.source)
    /\ handler.stage = "stored" => handler.source \in uploads
Fresh(c) == c = None \/ c.catalog = 0
Kept(p, f, vf, d, vd) ==
    /\ p.value = "any" \/ (~Fresh(f) /\ p.value = vf)
    /\ p.sure => p.value = "any" \/ (~Fresh(d) /\ p.value = vd)
SourcesKept ==
    \A s \in Sources : Kept(promise[s], file, file.sources[s], durable, durable.sources[s])
DefaultKept == Kept(defaulted, file, DefaultOf(file.rules), durable, DefaultOf(durable.rules))
CopyInv == Mirrored /\ CopiesSound
StoreInv == TypeOK /\ CopyInv /\ Handled /\ UploadsStored /\ SourcesKept /\ DefaultKept

LEMMA TypeStep ==
    ASSUME TypeOK, CopyInv, Handled, [Next]_storeVars
    PROVE  TypeOK'
<1>1. CASE UNCHANGED storeVars
  BY <1>1 DEF storeVars, disk, told, TypeOK
<1>2. CASE Next
  <2>1. Routed
    BY DEF CopyInv, Mirrored, CopiesSound, Copies, Sound, Routed, Up
  <2>2. handler.stage = "stored" => handler.source \in Uploads
    BY DEF Handled
  <2>3. /\ uploads' \subseteq Uploads
        /\ handler' \in [stage : Stage, source : {None} \cup Sources]
        /\ ~(\E out \in Outcome : NewConfigStore(out)) => applied' \subseteq Sources
        /\ ops' \in 0 .. MaxOps /\ crashes' \in 0 .. MaxCrashes
    BY <1>2, <2>2, HandlerTypes
  <2>4. CopyTypes'
    <3>1. ASSUME NEW out \in Outcome, SourceNext(out) \/ RuleNext(out) \/ GroupNext(out)
          PROVE  Written
      BY <2>1, <2>2, <3>1, SourceSteps, RuleSteps, GroupSteps DEF Written
    <3>2. UploadNext => UNCHANGED <<cfg, file, durable, told>>
      BY DEF UploadNext, StoreUpload, RefuseUpload, DiscardUpload, removeImportedSource,
             ApplyEnabledSources, disk
    <3>3. UNCHANGED <<cfg, file, durable, told>> => CopyTypes'
      BY DEF TypeOK, CopyTypes, told
    <3> QED BY <1>2, <3>1, <3>2, <3>3, WrittenTypes, LoadTypes, CrashTypes DEF Next
  <2>5. applied' \subseteq Sources
    BY <2>3, LoadTypes
  <2> QED BY <2>3, <2>4, <2>5 DEF TypeOK, CopyTypes
<1> QED BY <1>1, <1>2

(* Every step of the store, as the invariants see it; the process may also *)
(* end without a crash.                                                    *)
End == cfg' = None /\ UNCHANGED <<file, durable, told>>
StoreKind ==
    \/ Written \/ Crash \/ End
    \/ \E out \in Outcome : NewConfigStore(out)
    \/ UNCHANGED <<cfg, file, durable, told>>
LEMMA StepKinds ==
    ASSUME TypeOK, CopyInv, Handled, [Next]_storeVars
    PROVE  StoreKind
<1>1. Routed
  BY DEF CopyInv, Mirrored, CopiesSound, Copies, Sound, Routed, Up
<1>2. handler.stage = "stored" => handler.source \in Uploads
  BY DEF Handled
<1>3. ASSUME NEW out \in Outcome, SourceNext(out) \/ RuleNext(out) \/ GroupNext(out)
      PROVE  Written
  BY <1>1, <1>2, <1>3, SourceSteps, RuleSteps, GroupSteps DEF Written
<1>4. UploadNext => UNCHANGED <<cfg, file, durable, told>>
  BY DEF UploadNext, StoreUpload, RefuseUpload, DiscardUpload, removeImportedSource,
         ApplyEnabledSources, disk
<1> QED BY <1>3, <1>4 DEF Next, storeVars, disk, StoreKind

(* mutate leaves sound copies.                                             *)
LEMMA MutateCopies ==
    ASSUME TypeOK, CopyInv, Up, NEW out, NEW next \in Config, mutate(next, out),
           Table(next.rules), next.catalog = 1
    PROVE  CopyInv'
<1>1. Sound(next)
  BY DEF mutate, Sound
<1>2. /\ file' \in {file, next} /\ durable' \in {durable, next}
      /\ \/ cfg' = cfg /\ file' = file
         \/ cfg' = next /\ file' = next
  BY DEF mutate
<1>3. Mirrored'
  BY <1>2 DEF CopyInv, Mirrored, Up
<1>4. CopiesSound'
  BY <1>1, <1>2 DEF CopyInv, CopiesSound, Copies
<1> QED BY <1>3, <1>4 DEF CopyInv

LEMMA CopyStep ==
    ASSUME TypeOK, CopyInv, StoreKind
    PROVE  CopyInv'
<1>1. Up => cfg \in Config /\ cfg.catalog = 1 /\ Table(cfg.rules)
  BY DEF CopyInv, Mirrored, CopiesSound, Copies, Sound, Up
<1>2. CASE SourceStep
  <2>1. PICK s \in Sources, v \in State, out \in Outcome : SourceChange(s, v, out)
    BY <1>2 DEF SourceStep
  <2> DEFINE n == [cfg EXCEPT !.sources[s] = v]
  <2>2. Up /\ mutate(n, out)
    BY <2>1 DEF SourceChange
  <2>3. n \in Config /\ n.catalog = 1 /\ Table(n.rules)
    BY <1>1, <2>2, WithSource
  <2> HIDE DEF n
  <2> QED BY <2>2, <2>3, MutateCopies
<1>3. CASE RulesStep
  <2>1. PICK out \in Outcome : \E rules : RulesChange(rules, out)
    BY <1>3 DEF RulesStep
  <2>a. PICK rules : RulesChange(rules, out)
    BY <2>1
  <2> DEFINE n == [cfg EXCEPT !.rules = rules]
  <2>2. Up /\ mutate(n, out) /\ Table(rules)
    BY <2>a DEF RulesChange
  <2>3. n \in Config /\ n.catalog = 1 /\ Table(n.rules)
    BY <1>1, <2>2, WithRules DEF Table
  <2> HIDE DEF n
  <2> QED BY <2>2, <2>3, MutateCopies
<1>4. CASE OtherStep
  BY <1>1, <1>4, MutateCopies DEF OtherStep, OtherChange
<1>5. ASSUME NEW out \in Outcome, NewConfigStore(out) PROVE CopyInv'
  <2>1. PICK next \in Loads(file) :
         /\ validatePersistedPoolConfig(next)
         /\ \/ cfg' = next /\ next = file /\ UNCHANGED <<file, durable>>
            \/ /\ file' \in {file, next} /\ durable' \in {durable, next}
               /\ cfg' = next /\ file' = next
            \/ file' \in {file, next} /\ durable' \in {durable, next} /\ UNCHANGED cfg
    BY <1>5 DEF NewConfigStore, Loads, Loaded, Outcome
  <2>2. Sound(next) /\ next.catalog = 1
    <3>1. CASE file = None
      BY <3>1, DefaultSound DEF Loads
    <3>2. CASE file # None
      <4>1. Sound(file)
        BY <3>2 DEF CopyInv, CopiesSound, Copies
      <4> QED BY <2>1, <3>2, <4>1, LoadedConfig DEF Sound
    <3> QED BY <3>1, <3>2
  <2>3. ~Up
    BY <1>5 DEF NewConfigStore
  <2>4. Mirrored'
    BY <2>1, <2>2, <2>3 DEF Mirrored, Up
  <2>5. CopiesSound'
    BY <2>1, <2>2 DEF CopyInv, CopiesSound, Copies
  <2> QED BY <2>4, <2>5 DEF CopyInv
<1>6. CASE Crash
  BY <1>6 DEF Crash, CopyInv, Mirrored, CopiesSound, Copies, Up
<1>7. CASE UNCHANGED <<cfg, file, durable, told>>
  BY <1>7 DEF CopyInv, Mirrored, CopiesSound, Copies, Up
<1>8. CASE End
  BY <1>8 DEF End, CopyInv, Mirrored, CopiesSound, Copies, Up
<1> QED BY <1>2, <1>3, <1>4, <1>5, <1>6, <1>7, <1>8 DEF StoreKind, Written

-----------------------------------------------------------------------------
(* What was told, through a write: of the thing told about ...             *)
LEMMA ToldKept ==
    ASSUME NEW p, NEW f, NEW vf, NEW d, NEW vd, Kept(p, f, vf, d, vd),
           NEW next, ~Fresh(next), NEW v, NEW out \in Outcome
    PROVE  Kept(Told(out, v, p),
                IF out = "not_committed" THEN f ELSE next,
                IF out = "not_committed" THEN vf ELSE v,
                IF out = "ok" THEN next ELSE d, IF out = "ok" THEN v ELSE vd)
BY DEF Kept, Told, Outcome

(* ... and of anything else.                                               *)
LEMMA SameKept ==
    ASSUME NEW p, NEW f, NEW vf, NEW d, NEW vd, Kept(p, f, vf, d, vd),
           NEW next, ~Fresh(next), NEW out \in Outcome
    PROVE  Kept(p, IF out = "not_committed" THEN f ELSE next, vf,
                IF out = "ok" THEN next ELSE d, IF out = "ok" THEN vf ELSE vd)
BY DEF Kept, Outcome

(* A crash forgets what was not told for good.                             *)
LEMMA CrashKept ==
    ASSUME NEW p, NEW f, NEW vf, NEW d, NEW vd, Kept(p, f, vf, d, vd)
    PROVE  /\ Kept(AfterCrash(p), f, vf, f, vf)
           /\ Kept(AfterCrash(p), d, vd, d, vd)
BY DEF Kept, AfterCrash, Untold

(* A load changes what is in a file only if nothing was told about it.     *)
LEMMA LoadKept ==
    ASSUME NEW p, NEW f, NEW vf, NEW d, NEW vd, Kept(p, f, vf, d, vd),
           NEW next, ~Fresh(next), NEW v, Fresh(f) \/ v = vf
    PROVE  /\ Kept(p, next, v, d, vd) /\ Kept(p, next, v, next, v)
           /\ Kept(p, f, vf, next, v)
BY DEF Kept

LEMMA Memory ==
    ASSUME TypeOK, CopyInv, Up
    PROVE  cfg = file /\ cfg \in Config /\ cfg.catalog = 1 /\ Table(cfg.rules)
BY DEF CopyInv, Mirrored, CopiesSound, Copies, Sound, Up

LEMMA NotFresh == ASSUME NEW c \in Config, c.catalog = 1 PROVE ~Fresh(c)
BY NoneAssumption DEF Fresh

LEMMA Mutated ==
    ASSUME NEW next, NEW out, mutate(next, out)
    PROVE  /\ file' = IF out = "not_committed" THEN file ELSE next
           /\ durable' = IF out = "ok" THEN next ELSE durable
BY DEF mutate

(* A write that leaves the value at s, or the default, as it is.           *)
LEMMA SourceStays ==
    ASSUME TypeOK, CopyInv, Up, NEW out \in Outcome, NEW next \in Config, next.catalog = 1,
           mutate(next, out), NEW s \in Sources, next.sources[s] = cfg.sources[s],
           Kept(promise[s], file, file.sources[s], durable, durable.sources[s]),
           promise'[s] = promise[s]
    PROVE  Kept(promise'[s], file', file'.sources[s], durable', durable'.sources[s])
<1>1. ~Fresh(next)
  BY NotFresh
<1>2. Kept(promise[s], IF out = "not_committed" THEN file ELSE next, file.sources[s],
           IF out = "ok" THEN next ELSE durable,
           IF out = "ok" THEN file.sources[s] ELSE durable.sources[s])
  BY <1>1, SameKept
<1>3. file'.sources[s] = file.sources[s]
  BY Mutated, Memory
<1>4. durable'.sources[s] = IF out = "ok" THEN file.sources[s] ELSE durable.sources[s]
  BY Mutated, Memory
<1> QED BY <1>2, <1>3, <1>4, Mutated

LEMMA DefaultStays ==
    ASSUME TypeOK, CopyInv, Up, NEW out \in Outcome, NEW next \in Config, next.catalog = 1,
           mutate(next, out), DefaultOf(next.rules) = DefaultOf(cfg.rules),
           DefaultKept, defaulted' = defaulted
    PROVE  DefaultKept'
<1>1. ~Fresh(next)
  BY NotFresh
<1>2. Kept(defaulted, IF out = "not_committed" THEN file ELSE next, DefaultOf(file.rules),
           IF out = "ok" THEN next ELSE durable,
           IF out = "ok" THEN DefaultOf(file.rules) ELSE DefaultOf(durable.rules))
  BY <1>1, SameKept DEF DefaultKept
<1>3. DefaultOf(file'.rules) = DefaultOf(file.rules)
  BY Mutated, Memory
<1>4. DefaultOf(durable'.rules) =
        IF out = "ok" THEN DefaultOf(file.rules) ELSE DefaultOf(durable.rules)
  BY Mutated, Memory
<1> QED BY <1>2, <1>3, <1>4, Mutated DEF DefaultKept

LEMMA KeptStep ==
    ASSUME TypeOK, CopyInv, SourcesKept, DefaultKept, StoreKind
    PROVE  SourcesKept' /\ DefaultKept'
<1>1. CASE SourceStep
  <2>1. PICK s \in Sources, v \in State, out \in Outcome : SourceChange(s, v, out)
    BY <1>1 DEF SourceStep
  <2> DEFINE n == [cfg EXCEPT !.sources[s] = v]
  <2>2. Up /\ mutate(n, out)
    BY <2>1 DEF SourceChange
  <2>3. n \in Config /\ n.catalog = 1 /\ n.rules = cfg.rules
        /\ n.sources = [cfg.sources EXCEPT ![s] = v] /\ cfg.sources \in [Sources -> State]
    BY <2>2, WithSource, Memory DEF Config
  <2> HIDE DEF n
  <2>4. DefaultKept'
    BY <2>1, <2>2, <2>3, DefaultStays DEF SourceChange
  <2>5. ASSUME NEW t \in Sources
        PROVE  Kept(promise'[t], file', file'.sources[t], durable', durable'.sources[t])
    <3>1. Kept(promise[t], file, file.sources[t], durable, durable.sources[t])
      BY DEF SourcesKept
    <3>2. promise'[t] = IF t = s THEN Told(out, v, promise[s]) ELSE promise[t]
      BY <2>1 DEF SourceChange, SourceTold, TypeOK
    <3>3. CASE t # s
      <4>1. n.sources[t] = cfg.sources[t] /\ promise'[t] = promise[t]
        BY <2>3, <3>2, <3>3
      <4> QED BY <2>2, <2>3, <3>1, <4>1, SourceStays
    <3>4. CASE t = s
      <4>1. Kept(Told(out, v, promise[s]),
                 IF out = "not_committed" THEN file ELSE n,
                 IF out = "not_committed" THEN file.sources[s] ELSE v,
                 IF out = "ok" THEN n ELSE durable,
                 IF out = "ok" THEN v ELSE durable.sources[s])
        BY <2>3, <3>1, <3>4, ToldKept, NotFresh
      <4>2. n.sources[s] = v
        BY <2>3
      <4>3. /\ file'.sources[s] = IF out = "not_committed" THEN file.sources[s] ELSE v
            /\ durable'.sources[s] = IF out = "ok" THEN v ELSE durable.sources[s]
        BY <2>2, <4>2, Mutated
      <4> QED BY <2>2, <3>2, <3>4, <4>1, <4>3, Mutated
    <3> QED BY <3>3, <3>4
  <2> QED BY <2>4, <2>5 DEF SourcesKept
<1>2. CASE RulesStep
  <2>1. PICK out \in Outcome : \E rules : RulesChange(rules, out)
    BY <1>2 DEF RulesStep
  <2>a. PICK rules : RulesChange(rules, out)
    BY <2>1
  <2> DEFINE n == [cfg EXCEPT !.rules = rules]
  <2>2. Up /\ mutate(n, out) /\ Table(rules)
    BY <2>a DEF RulesChange
  <2>3. n \in Config /\ n.catalog = 1 /\ n.rules = rules /\ n.sources = cfg.sources
    BY <2>2, WithRules, Memory DEF Table
  <2> HIDE DEF n
  <2>4. ASSUME NEW t \in Sources
        PROVE  Kept(promise'[t], file', file'.sources[t], durable', durable'.sources[t])
    <3>1. Kept(promise[t], file, file.sources[t], durable, durable.sources[t])
      BY DEF SourcesKept
    <3>2. n.sources[t] = cfg.sources[t] /\ promise'[t] = promise[t]
      BY <2>a, <2>3 DEF RulesChange
    <3> QED BY <2>2, <2>3, <3>1, <3>2, SourceStays
  <2>5. ASSUME defaulted' = defaulted, DefaultOf(rules) = DefaultOf(cfg.rules)
        PROVE  DefaultKept'
    BY <2>2, <2>3, <2>5, DefaultStays
  <2>6. ASSUME defaulted' = Told(out, DefaultOf(rules), defaulted)
        PROVE  DefaultKept'
    <3>1. Kept(Told(out, DefaultOf(rules), defaulted),
               IF out = "not_committed" THEN file ELSE n,
               IF out = "not_committed" THEN DefaultOf(file.rules) ELSE DefaultOf(rules),
               IF out = "ok" THEN n ELSE durable,
               IF out = "ok" THEN DefaultOf(rules) ELSE DefaultOf(durable.rules))
      BY <2>3, ToldKept, NotFresh DEF DefaultKept
    <3>2. /\ DefaultOf(file'.rules) =
               IF out = "not_committed" THEN DefaultOf(file.rules) ELSE DefaultOf(rules)
          /\ DefaultOf(durable'.rules) =
               IF out = "ok" THEN DefaultOf(rules) ELSE DefaultOf(durable.rules)
      BY <2>2, <2>3, Mutated
    <3> QED BY <2>2, <2>6, <3>1, <3>2, Mutated DEF DefaultKept
  <2>7. DefaultKept'
    BY <2>a, <2>5, <2>6 DEF RulesChange
  <2> QED BY <2>4, <2>7 DEF SourcesKept
<1>3. CASE OtherStep
  <2>1. PICK out \in Outcome : \E next : OtherChange(next, out)
    BY <1>3 DEF OtherStep
  <2>2. PICK n : OtherChange(n, out)
    BY <2>1
  <2>3. /\ Up /\ mutate(n, out) /\ n \in Config /\ n.catalog = 1
        /\ n.sources = cfg.sources /\ n.rules = cfg.rules
        /\ promise' = promise /\ defaulted' = defaulted
    BY <2>2, Memory DEF OtherChange, told
  <2>4. DefaultKept'
    BY <2>3, DefaultStays
  <2>5. ASSUME NEW t \in Sources
        PROVE  Kept(promise'[t], file', file'.sources[t], durable', durable'.sources[t])
    <3>1. Kept(promise[t], file, file.sources[t], durable, durable.sources[t])
      BY DEF SourcesKept
    <3> QED BY <2>3, <3>1, SourceStays
  <2> QED BY <2>4, <2>5 DEF SourcesKept
<1>4. ASSUME NEW out \in Outcome, NewConfigStore(out) PROVE SourcesKept' /\ DefaultKept'
  <2>1. PICK next \in Loads(file) :
         \/ UNCHANGED <<file, durable>>
         \/ file' = next /\ durable' \in {durable, next}
    BY <1>4 DEF NewConfigStore, Loads, Outcome
  <2>2. promise' = promise /\ defaulted' = defaulted
    BY <1>4 DEF NewConfigStore, told
  <2>3. next \in Config /\ next.catalog = 1
        /\ (Fresh(file) \/ (next.sources = file.sources /\ next.rules = file.rules))
    <3>1. CASE file = None
      BY <3>1, DefaultSound DEF Loads, Sound, Fresh
    <3>2. CASE file # None
      <4>1. file \in Config
        BY <3>2 DEF TypeOK
      <4>2. file.catalog \in {0, 1}
        BY <4>1 DEF Config
      <4>3. /\ next \in Config /\ next.catalog = 1 /\ next.rules = file.rules
            /\ file.catalog = 1 => next.sources = file.sources
        BY <3>2, <4>1, LoadedConfig
      <4> QED BY <4>2, <4>3 DEF Fresh
    <3> QED BY <3>1, <3>2
  <2>4. ~Fresh(next)
    BY <2>3, NotFresh
  <2>5. ASSUME NEW t \in Sources
        PROVE  Kept(promise[t], file', file'.sources[t], durable', durable'.sources[t])
    <3>1. Kept(promise[t], file, file.sources[t], durable, durable.sources[t])
      BY DEF SourcesKept
    <3>2. Fresh(file) \/ next.sources[t] = file.sources[t]
      BY <2>3
    <3> QED BY <2>1, <2>4, <3>1, <3>2, LoadKept
  <2>6. DefaultKept'
    <3>1. Fresh(file) \/ DefaultOf(next.rules) = DefaultOf(file.rules)
      BY <2>3
    <3> QED BY <2>1, <2>2, <2>4, <3>1, LoadKept DEF DefaultKept
  <2> QED BY <2>2, <2>5, <2>6 DEF SourcesKept
<1>5. CASE Crash
  <2>1. file' \in {file, durable} /\ durable' = file' /\ defaulted' = AfterCrash(defaulted)
        /\ \A t \in Sources : promise'[t] = AfterCrash(promise[t])
    BY <1>5 DEF Crash
  <2>2. DefaultKept'
    BY <2>1, CrashKept DEF DefaultKept
  <2>3. ASSUME NEW t \in Sources
        PROVE  Kept(promise'[t], file', file'.sources[t], durable', durable'.sources[t])
    BY <2>1, CrashKept DEF SourcesKept
  <2> QED BY <2>2, <2>3 DEF SourcesKept
<1>6. CASE End \/ UNCHANGED <<cfg, file, durable, told>>
  BY <1>6 DEF End, SourcesKept, DefaultKept, told
<1> QED BY <1>1, <1>2, <1>3, <1>4, <1>5, <1>6 DEF StoreKind, Written

-----------------------------------------------------------------------------
(* Uploads.  A write that brings no upload back leaves an upload that is   *)
(* absent absent.                                                          *)
LEMMA StaysAbsent ==
    ASSUME TypeOK, CopyInv, Up, NEW out, NEW next, mutate(next, out), NEW u,
           cfg.sources[u] = "absent" => next.sources[u] = "absent", Absent(u)
    PROVE  Absent(u)'
<1>1. file' \in {file, next} /\ durable' \in {durable, next}
  BY DEF mutate
<1>2. cfg \in Copies
  BY Memory DEF Copies, Up
<1>3. next.sources[u] = "absent"
  BY <1>2 DEF Absent
<1> QED BY <1>1, <1>3 DEF Absent, Copies

(* A write whose uploads all have their files.                             *)
LEMMA StaysStored ==
    ASSUME NEW out, NEW next, mutate(next, out), UploadsStored,
           Present(next) \cap Uploads \subseteq uploads, uploads \subseteq uploads'
    PROVE  UploadsStored'
<1>1. file' \in {file, next} /\ durable' \in {durable, next}
  BY DEF mutate
<1>2. \A c : Present(c)' = Present(c)
  BY DEF Present
<1> QED BY <1>1, <1>2 DEF UploadsStored

LEMMA MemoryStored ==
    ASSUME TypeOK, CopyInv, UploadsStored, Up
    PROVE  Present(cfg) \cap Uploads \subseteq uploads
BY Memory DEF UploadsStored, Up

LEMMA UpAgain ==
    ASSUME Up, NEW out, NEW next \in Config, mutate(next, out)
    PROVE  Up'
BY NoneAssumption DEF mutate, Up

(* Changes that leave every upload and the handler alone.                  *)
LEMMA UploadsAlone ==
    ASSUME TypeOK, CopyInv, Handled, UploadsStored, Up, NEW out, NEW next \in Config,
           mutate(next, out), \A u \in Uploads : next.sources[u] = cfg.sources[u],
           uploads' = uploads, handler' = handler
    PROVE  Handled' /\ UploadsStored'
<1>1. Present(next) \cap Uploads = Present(cfg) \cap Uploads
  BY DEF Present
<1>2. UploadsStored'
  BY <1>1, MemoryStored, StaysStored
<1>3. Handled'
  BY UpAgain, StaysAbsent DEF Handled
<1> QED BY <1>2, <1>3

LEMMA OtherUploads ==
    ASSUME TypeOK, CopyInv, Handled, UploadsStored, NEW out \in Outcome,
           RuleNext(out) \/ GroupNext(out)
    PROVE  Handled' /\ UploadsStored'
<1>1. uploads' = uploads /\ handler' = handler
  BY DEF RuleNext, GroupNext, AddRule, DeleteRule, MoveRule, SetDefaultGroup,
         InstallGFWPreset, AddGroup, SetGroupStrategy, DeleteGroup, RouteChange
<1>2. Routed
  BY Memory DEF Routed
<1>3. RulesStep \/ OtherStep
  BY <1>2, RuleSteps, GroupSteps
<1>4. PICK next : /\ Up /\ \E o : mutate(next, o)
                  /\ next \in Config /\ next.sources = cfg.sources
  <2>1. CASE RulesStep
    <3>1. PICK o \in Outcome : \E rules : RulesChange(rules, o)
      BY <2>1 DEF RulesStep
    <3>2. PICK rules : RulesChange(rules, o)
      BY <3>1
    <3> DEFINE n == [cfg EXCEPT !.rules = rules]
    <3>3. Up /\ mutate(n, o) /\ rules \in Seq(Rule)
      BY <3>2 DEF RulesChange, Table
    <3>4. n \in Config /\ n.sources = cfg.sources
      BY <3>3, WithRules, Memory
    <3> HIDE DEF n
    <3> QED BY <3>3, <3>4
  <2>2. CASE OtherStep
    BY <2>2 DEF OtherStep, OtherChange
  <2> QED BY <1>3, <2>1, <2>2
<1>5. PICK o : mutate(next, o)
  BY <1>4
<1> QED BY <1>1, <1>4, <1>5, UploadsAlone

LEMMA SourceUploads ==
    ASSUME TypeOK, CopyInv, Handled, UploadsStored, NEW out \in Outcome, SourceNext(out)
    PROVE  Handled' /\ UploadsStored'
<1>1. Up /\ cfg \in Config /\ cfg = file
  <2>1. Up
    BY DEF SourceNext, AddSource, ToggleSource, DeleteSource, PublishUpload, SetOptions, Asked
  <2> QED BY <2>1, Memory
<1>s. ASSUME NEW s \in Sources, NEW v \in State
      PROVE  /\ [cfg EXCEPT !.sources[s] = v] \in Config
             /\ [cfg EXCEPT !.sources[s] = v].sources[s] = v
             /\ \A t \in Sources : t # s => [cfg EXCEPT !.sources[s] = v].sources[t] = cfg.sources[t]
  <2>1. cfg.sources \in [Sources -> State]
    BY <1>1 DEF Config
  <2> QED BY <1>1, <2>1, WithSource
<1>2. ASSUME NEW s \in Customs, AddSource(s, out) PROVE Handled' /\ UploadsStored'
  <2> DEFINE n == [cfg EXCEPT !.sources[s] = "on"]
  <2>1. s \in Sources /\ "on" \in State /\ s \notin Uploads /\ Uploads \subseteq Sources
    BY CatalogAssumption DEF Sources, State
  <2>2. n \in Config /\ \A u \in Uploads : n.sources[u] = cfg.sources[u]
    BY <1>s, <2>1
  <2>3. mutate(n, out) /\ uploads' = uploads /\ handler' = handler
    BY <1>2 DEF AddSource
  <2> HIDE DEF n
  <2> QED BY <1>1, <2>2, <2>3, UploadsAlone
<1>3. ASSUME NEW s \in Sources, NEW v \in {"off", "on"}, ToggleSource(s, v, out)
      PROVE  Handled' /\ UploadsStored'
  <2> DEFINE n == [cfg EXCEPT !.sources[s] = v]
  <2>1. v \in State /\ v # "absent" /\ cfg.sources[s] # "absent"
    BY <1>3 DEF State, ToggleSource
  <2>2. n \in Config /\ n.sources[s] = v /\ \A t \in Sources : t # s => n.sources[t] = cfg.sources[t]
    BY <1>s, <2>1
  <2>3. mutate(n, out) /\ uploads' = uploads
        /\ (handler' = Idle \/ handler' = [stage |-> "apply", source |-> s])
    BY <1>3 DEF ToggleSource
  <2> HIDE DEF n
  <2>4. Present(n) = Present(cfg)
    BY <2>1, <2>2 DEF Present
  <2>5. UploadsStored'
    BY <1>1, <2>3, <2>4, MemoryStored, StaysStored
  <2>6. Up'
    BY <1>1, <2>2, <2>3, UpAgain
  <2> QED BY <2>3, <2>5, <2>6 DEF Handled, Idle
<1>4. ASSUME NEW s \in Sources, DeleteSource(s, out) PROVE Handled' /\ UploadsStored'
  <2> DEFINE n == [cfg EXCEPT !.sources[s] = "absent"]
  <2>1. n \in Config /\ n.sources[s] = "absent"
        /\ \A t \in Sources : t # s => n.sources[t] = cfg.sources[t]
    BY <1>s DEF State
  <2>2. mutate(n, out) /\ uploads' = uploads
    BY <1>4 DEF DeleteSource
  <2>3. \/ handler' = Idle
        \/ out = "ok" /\ handler' = [stage |-> IF s \in Uploads THEN "unlink" ELSE "apply",
                                     source |-> s]
    BY <1>4 DEF DeleteSource
  <2> HIDE DEF n
  <2>4. Present(n) \subseteq Present(cfg)
    BY <2>1 DEF Present
  <2>5. UploadsStored'
    BY <1>1, <2>2, <2>4, MemoryStored, StaysStored
  <2>6. Up'
    BY <1>1, <2>1, <2>2, UpAgain
  <2>7. CASE handler' = Idle
    BY <2>5, <2>7 DEF Handled, Idle
  <2>8. CASE out = "ok" /\ handler' = [stage |-> IF s \in Uploads THEN "unlink" ELSE "apply",
                                       source |-> s]
    <3>1. file' = n /\ durable' = n
      BY <2>2, <2>8 DEF mutate
    <3>2. Absent(s)'
      BY <2>1, <3>1 DEF Absent, Copies
    <3> QED BY <2>5, <2>6, <2>8, <3>2 DEF Handled
  <2> QED BY <2>3, <2>7, <2>8
<1>5. ASSUME PublishUpload(out) PROVE Handled' /\ UploadsStored'
  <2>0. PICK u : u = handler.source
    OBVIOUS
  <2> DEFINE n == [cfg EXCEPT !.sources[u] = "on"]
  <2>1. u \in Uploads /\ u \in Sources /\ u \in uploads /\ Absent(u)
    BY <1>5, <2>0 DEF PublishUpload, Handled, Sources
  <2>2. mutate(n, out) /\ uploads' = uploads
        /\ handler' = IF out = "not_committed" THEN [handler EXCEPT !.stage = "discard"] ELSE Idle
    BY <1>5, <2>0 DEF PublishUpload
  <2>3. n \in Config /\ \A t \in Sources : t # u => n.sources[t] = cfg.sources[t]
    BY <1>s, <2>1 DEF State
  <2> HIDE DEF n
  <2>4. Present(n) \cap Uploads \subseteq uploads
    <3>1. Present(n) \subseteq Present(cfg) \cup {u}
      BY <2>3 DEF Present
    <3> QED BY <1>1, <2>1, <3>1, MemoryStored
  <2>5. UploadsStored'
    BY <2>2, <2>4, StaysStored
  <2>6. CASE out # "not_committed"
    BY <2>2, <2>5, <2>6 DEF Handled, Idle
  <2>7. CASE out = "not_committed"
    <3>1. file' = file /\ durable' = durable /\ cfg' = cfg
      BY <2>2, <2>7 DEF mutate
    <3>2. handler'.stage = "discard" /\ handler'.source = u
      BY <2>0, <2>2, <2>7 DEF TypeOK
    <3>3. Absent(u)'
      BY <2>1, <3>1 DEF Absent, Copies
    <3> QED BY <1>1, <2>1, <2>5, <3>1, <3>2, <3>3 DEF Handled, Up
  <2> QED BY <2>6, <2>7
<1>6. ASSUME NEW o \in Options, SetOptions(o, out) PROVE Handled' /\ UploadsStored'
  <2> DEFINE n == [cfg EXCEPT !.options = o]
  <2>1. n \in Config /\ n.sources = cfg.sources
    BY <1>1, WithOptions
  <2>2. mutate(n, out) /\ uploads' = uploads /\ handler' = handler
    BY <1>6 DEF SetOptions
  <2> HIDE DEF n
  <2> QED BY <1>1, <2>1, <2>2, UploadsAlone
<1> QED BY <1>2, <1>3, <1>4, <1>5, <1>6 DEF SourceNext

(* The steps of the handlers on the files themselves.                      *)
LEMMA FileUploads ==
    ASSUME TypeOK, CopyInv, Handled, UploadsStored, UploadNext
    PROVE  Handled' /\ UploadsStored'
<1>1. UNCHANGED <<cfg, file, durable>>
  BY DEF UploadNext, StoreUpload, RefuseUpload, DiscardUpload, removeImportedSource,
         ApplyEnabledSources, disk
<1>2. Copies' = Copies /\ (Up' <=> Up)
  BY <1>1 DEF Copies, Up
<1>3. ASSUME uploads \subseteq uploads' PROVE UploadsStored'
  BY <1>1, <1>3 DEF UploadsStored, Present
<1>4. ASSUME NEW u \in Uploads, Absent(u), uploads \ {u} \subseteq uploads' PROVE UploadsStored'
  BY <1>1, <1>4 DEF UploadsStored, Present, Absent, Copies
<1>5. ASSUME NEW u \in Uploads, StoreUpload(u) PROVE Handled' /\ UploadsStored'
  <2>1. Absent(u) /\ Up /\ uploads \subseteq uploads'
        /\ (handler' = Idle \/ (u \in uploads' /\ handler' = [stage |-> "stored", source |-> u]))
    BY <1>5 DEF StoreUpload, Absent, Copies, Asked
  <2>2. Absent(u)'
    BY <1>2, <2>1 DEF Absent
  <2>3. Handled'
    BY <1>2, <2>1, <2>2 DEF Handled, Idle
  <2> QED BY <1>3, <2>1, <2>3
<1>6. CASE RefuseUpload
  <2>1. handler.stage = "stored" /\ Up /\ uploads' = uploads
        /\ handler'.stage = "discard" /\ handler'.source = handler.source
    BY <1>6 DEF RefuseUpload, TypeOK, disk
  <2>2. Handled'
    BY <1>2, <2>1 DEF Handled, Absent
  <2> QED BY <1>3, <2>1, <2>2
<1>7. CASE DiscardUpload
  <2>1. /\ handler.stage = "discard" /\ handler' = Idle
        /\ uploads' \in {uploads, uploads \ {handler.source}}
    BY <1>7 DEF DiscardUpload
  <2>2. handler.source \in Uploads /\ Absent(handler.source)
    BY <2>1 DEF Handled
  <2> QED BY <1>4, <2>1, <2>2 DEF Handled, Idle
<1>8. CASE removeImportedSource
  <2>1. /\ handler.stage = "unlink" /\ Up
        /\ \/ handler' = Idle
           \/ handler' = [handler EXCEPT !.stage = "apply"]
        /\ uploads \ {handler.source} \subseteq uploads'
    BY <1>8 DEF removeImportedSource
  <2>2. handler.source \in Uploads /\ Absent(handler.source)
    BY <2>1 DEF Handled
  <2>3. handler'.stage \in {"idle", "apply"}
    BY <2>1 DEF TypeOK, Idle
  <2> QED BY <1>2, <1>4, <2>1, <2>2, <2>3 DEF Handled
<1>9. CASE ApplyEnabledSources
  BY <1>3, <1>9 DEF ApplyEnabledSources, Handled, Idle, disk
<1> QED BY <1>5, <1>6, <1>7, <1>8, <1>9 DEF UploadNext

LEMMA LoadUploads ==
    ASSUME TypeOK, CopyInv, Handled, UploadsStored, NEW out \in Outcome, NewConfigStore(out)
    PROVE  Handled' /\ UploadsStored'
<1>1. ~Up /\ handler' = handler /\ uploads' = uploads
  BY DEF NewConfigStore
<1>2. PICK next \in Loads(file) : file' \in {file, next} /\ durable' \in {durable, next}
  BY DEF NewConfigStore, Loads, Outcome
<1>3. Present(next) \cap Uploads \subseteq uploads
  <2>1. Uploads \subseteq Sources
    BY DEF Sources
  <2>2. CASE file = None
    BY <2>2, DefaultSound DEF Loads, Present
  <2>3. CASE file # None
    <3>1. \A u \in Uploads : next.sources[u] = file.sources[u]
      BY <2>3, LoadedConfig DEF TypeOK
    <3>2. Present(file) \cap Uploads \subseteq uploads
      BY <2>3 DEF UploadsStored
    <3> QED BY <2>1, <3>1, <3>2 DEF Present
  <2> QED BY <2>2, <2>3
<1>4. \A c : Present(c)' = Present(c)
  BY DEF Present
<1>5. UploadsStored'
  BY <1>1, <1>2, <1>3, <1>4 DEF UploadsStored
<1> QED BY <1>1, <1>5 DEF Handled

LEMMA UploadStep ==
    ASSUME TypeOK, CopyInv, Handled, UploadsStored, [Next]_storeVars
    PROVE  Handled' /\ UploadsStored'
<1>1. CASE Crash
  BY <1>1 DEF Crash, Handled, Idle, UploadsStored, Present
<1>2. CASE UNCHANGED storeVars
  BY <1>2 DEF storeVars, disk, Handled, UploadsStored, Present, Absent, Copies, Up
<1> QED BY <1>1, <1>2, SourceUploads, OtherUploads, FileUploads, LoadUploads DEF Next

-----------------------------------------------------------------------------
(* A file that an older version, or nobody, has left.                      *)
LEMMA LegacySound == \A c \in LegacyConfigs : Sound(c) /\ c.catalog = 0
                        /\ \A u \in Uploads : c.sources[u] = "absent"
<1> SUFFICES ASSUME NEW c \in LegacyConfigs
             PROVE  Sound(c) /\ c.catalog = 0 /\ \A u \in Uploads : c.sources[u] = "absent"
  OBVIOUS
<1> DEFINE d == defaultPoolConfig
<1>1. Legacy(c)
  BY DEF LegacyConfigs
<1>2. PICK f \in [Sources -> LegacyStates \cup {"absent"}] :
           c = [d EXCEPT !.catalog = 0, !.sources = f, !.options = LegacyURL]
  BY DEF LegacyConfigs
<1>3. f \in [Sources -> State]
  BY LegacyAssumption DEF State
<1>4. d \in Config /\ Table(d.rules) /\ validatePersistedPoolConfig(d)
  BY DefaultSound DEF Sound
<1> HIDE DEF d
<1>5. /\ c \in Config /\ c.catalog = 0 /\ c.rules = d.rules /\ c.groups = d.groups
      /\ c.listeners = d.listeners
  BY <1>2, <1>3, <1>4, OptionsAssumption DEF Config
<1>7. validatePersistedPoolConfig(c)
  BY <1>1, <1>4, <1>5, SameChecks DEF Legacy
<1>8. \A u \in Uploads : c.sources[u] = "absent"
  BY <1>1 DEF Legacy, Sources
<1> QED BY <1>4, <1>5, <1>7, <1>8 DEF Sound

(* The invariant holds whatever sound file without uploads the process     *)
(* finds.                                                                  *)
LEMMA InitSound ==
    ASSUME NEW files, InitFrom(files),
           \A c \in files \ {None} : Sound(c) /\ \A u \in Uploads : c.sources[u] = "absent"
    PROVE  StoreInv
<1>1. /\ cfg = None /\ durable = file /\ uploads = {} /\ handler = Idle /\ applied = {}
      /\ promise = [s \in Sources |-> Untold] /\ defaulted = Untold /\ ops = 0 /\ crashes = 0
      /\ file = None \/ (Sound(file) /\ \A u \in Uploads : file.sources[u] = "absent")
  BY DEF InitFrom
<1>2. TypeOK
  BY <1>1, LimitAssumption DEF TypeOK, Sound, Idle, Stage, Promise, Untold
<1>3. CopyInv
  BY <1>1 DEF CopyInv, Mirrored, CopiesSound, Copies, Up
<1>4. Handled /\ UploadsStored
  BY <1>1 DEF Handled, Idle, UploadsStored, Present
<1>5. \A f, vf, d, vd : Kept(Untold, f, vf, d, vd)
  BY DEF Kept, Untold
<1>6. SourcesKept /\ DefaultKept
  BY <1>1, <1>5 DEF SourcesKept, DefaultKept
<1> QED BY <1>2, <1>3, <1>4, <1>6 DEF StoreInv

LEMMA StoreInit == Init => StoreInv
BY InitSound, LegacySound DEF Init

LEMMA StoreStep == StoreInv /\ [Next]_storeVars => StoreInv'
BY TypeStep, StepKinds, CopyStep, UploadStep, KeptStep DEF StoreInv

(* Memory, file and durable copy agree as far as mutate, a crash and a     *)
(* load promise, whatever write fails.                                     *)
THEOREM StoreInvariant == Spec => []StoreInv
BY StoreInit, StoreStep, PTL DEF Spec

(* The three copies of the configuration, the source handler and what was  *)
(* told keep their types.                                                  *)
THEOREM StoreTypes == Spec => []TypeOK
<1>1. StoreInv => TypeOK
  BY DEF StoreInv
<1> QED BY <1>1, StoreInvariant, PTL

(* An imported source has its private file in both versions of the         *)
(* configuration a crash may leave (ImportSource stores before it          *)
(* publishes, DeleteSource unlinks after the deletion is durable).         *)
THEOREM UploadsAreStored == Spec => []UploadsStored
<1>1. StoreInv => UploadsStored
  BY DEF StoreInv
<1> QED BY <1>1, StoreInvariant, PTL

(* What the operator was told about a source holds in memory and in the    *)
(* file from the answer on, and on disk, through failed writes, crashes,   *)
(* restarts and migrations, once the answer was success (mutate).          *)
THEOREM AnswersAreKept == Spec => []PromisesKept
<1>1. StoreInv => PromisesKept
  <2> SUFFICES ASSUME StoreInv, NEW s \in Sources
               PROVE  /\ Up => Holds(promise[s], cfg.sources[s], FALSE)
                      /\ file # None => Holds(promise[s], file.sources[s], FALSE)
                      /\ durable # None => Holds(promise[s], durable.sources[s], TRUE)
    BY DEF PromisesKept
  <2>1. Kept(promise[s], file, file.sources[s], durable, durable.sources[s])
    BY DEF StoreInv, SourcesKept
  <2>2. Up => cfg = file
    BY DEF StoreInv, CopyInv, Mirrored
  <2> QED BY <2>1, <2>2 DEF Kept, Holds
<1> QED BY <1>1, StoreInvariant, PTL

(* What validatePersistedPoolConfig accepts can be loaded.                 *)
LEMMA ValidLoads ==
    ASSUME NEW c \in Config, validatePersistedPoolConfig(c)
    PROVE  Loadable(c)
<1> DEFINE B == Bound(c)
           P == {c.listeners[l].port : l \in B}
           f == [l \in B |-> c.listeners[l].port]
           targets == {c.rules[i].group : i \in 1 .. Len(c.rules)} \cup
                      ({c.listeners[l].target : l \in B} \ {"rules", "fixed"})
<1>1. targets \subseteq Reserved \cup Named(c)
  BY DEF validatePersistedPoolConfig, validateListenerBinding, resolveGroupReference
<1>2. IsFiniteSet(B)
  BY FS_Subset, FiniteAssumption DEF Bound
<1>3. Cardinality(P) = Cardinality(B)
  <2>1. f \in [B -> P] /\ \A p \in P : \E l \in B : f[l] = p
    OBVIOUS
  <2>2. \A l, m \in B : f[l] = f[m] => l = m
    BY DEF validatePersistedPoolConfig
  <2> HIDE DEF B, P, f
  <2>3. f \in Bijection(B, P)
    BY <2>1, <2>2 DEF Bijection, Injection, Surjection, IsInjective
  <2>4. ExistsBijection(B, P)
    BY <2>3 DEF ExistsBijection
  <2> QED BY <1>2, <2>4, FS_Bijection
<1>4. Cardinality(Present(c)) <= MaxSources /\ Len(c.rules) <= MaxRules
  BY DEF validatePersistedPoolConfig
<1> QED BY <1>1, <1>3, <1>4 DEF Loadable

(* Copies of this kind restart the process.                                *)
LEMMA SoundRestarts == StoreInv => Restartable
<1> SUFFICES ASSUME StoreInv, NEW c \in {file, durable} \ {None}
             PROVE  Loadable(c) /\ \A n \in migrateBuiltinSourceCatalog(c) : Loadable(n)
  BY DEF Restartable
<1>1. c \in Config /\ validatePersistedPoolConfig(c)
  BY DEF StoreInv, CopyInv, CopiesSound, Copies, Sound
<1>2. ASSUME NEW n \in migrateBuiltinSourceCatalog(c) PROVE Loadable(n)
  BY <1>1, Migrated, ValidLoads
<1> QED BY <1>1, <1>2, ValidLoads

(* The process can always start again: whichever version of the file a     *)
(* crash leaves behind passes validatePersistedPoolConfig, as it is and    *)
(* after migrateBuiltinSourceCatalog.                                      *)
THEOREM AlwaysRestartable == Spec => []Restartable
BY SoundRestarts, StoreInvariant, PTL

(* First match: a host that some rule covers takes the first such rule,    *)
(* any other host the rule at the end.                                     *)
LEMMA FirstMatch ==
    ASSUME NEW rules, Table(rules), NEW h
    PROVE  LET over == {i \in 1 .. Len(rules) :
                          rules[i].id # MatchId /\ h \in Covers[rules[i].id]}
           IN  IF over = {} THEN MatchGroup(rules, h) = DefaultOf(rules)
               ELSE MatchGroup(rules, h) = rules[Min(over)].group
<1> DEFINE n == Len(rules)
           over == {i \in 1 .. n : rules[i].id # MatchId /\ h \in Covers[rules[i].id]}
           hit == {i \in 1 .. n : rules[i].id = MatchId \/ h \in Covers[rules[i].id]}
<1>1. n \in Nat /\ n > 0 /\ \A i \in 1 .. n : rules[i].id = MatchId <=> i = n
  BY DEF Table
<1>2. MatchGroup(rules, h) = IF (IF hit # {} THEN Min(hit) ELSE 0) = 0 THEN GroupAny
                             ELSE rules[IF hit # {} THEN Min(hit) ELSE 0].group
  BY DEF MatchGroup, SelectInSeq
<1>3. hit = over \cup {n}
  BY <1>1
<1>4. over \subseteq 1 .. n /\ over \subseteq Nat /\ n \notin over
  BY <1>1
<1> HIDE DEF hit, over, n
<1>5. hit # {} /\ hit \subseteq Nat /\ hit \subseteq 1 .. n
  BY <1>1, <1>3, <1>4
<1>6. Min(hit) \in hit /\ \A i \in hit : Min(hit) <= i
  BY <1>5, LeastNumber
<1>7. MatchGroup(rules, h) = rules[Min(hit)].group
  BY <1>2, <1>5, <1>6
<1>8. CASE over = {}
  BY <1>3, <1>6, <1>7, <1>8 DEF DefaultOf, n, over
<1>9. CASE over # {}
  <2>1. Min(over) \in over /\ \A i \in over : Min(over) <= i
    BY <1>4, <1>9, LeastNumber
  <2>2. Min(hit) = Min(over)
    <3> DEFINE a == Min(hit)
               b == Min(over)
    <3>1. b \in over /\ b \in Nat /\ b < n /\ b \in hit
      <4>1. b \in over /\ b \in 1 .. n /\ b # n
        BY <1>4, <2>1
      <4> HIDE DEF b
      <4> QED BY <1>1, <1>3, <4>1
    <3>2. a \in hit /\ a \in Nat /\ a <= b
      BY <1>5, <1>6, <3>1
    <3> HIDE DEF a, b
    <3>3. a # n
      BY <1>1, <3>1, <3>2
    <3>4. a \in over
      BY <1>3, <3>2, <3>3
    <3>5. b <= a
      BY <2>1, <3>4 DEF b
    <3>6. a = b
      BY <3>1, <3>2, <3>5
    <3> QED BY <3>6 DEF a, b
  <2> QED BY <1>7, <1>9, <2>2 DEF over, n
<1> QED BY <1>8, <1>9

(* The routing table keeps its meaning through every change: no rule is    *)
(* shadowed by MATCH, and a host no rule covers takes the default route    *)
(* the operator was last told of (MatchGroup, AddRule, SetDefaultGroup).   *)
THEOREM RulesStayReachable == Spec => []RulesReachable
<1>1. StoreInv => RulesReachable
  <2> SUFFICES ASSUME StoreInv, Up, NEW h \in Hosts
               PROVE  LET over == {i \in 1 .. Len(cfg.rules) :
                                     cfg.rules[i].id # MatchId /\ h \in Covers[cfg.rules[i].id]}
                      IN  IF over = {} THEN Holds(defaulted, MatchGroup(cfg.rules, h), FALSE)
                          ELSE MatchGroup(cfg.rules, h) = cfg.rules[Min(over)].group
    BY DEF RulesReachable
  <2>1. cfg = file /\ Table(cfg.rules)
    BY Memory DEF StoreInv
  <2>2. Holds(defaulted, DefaultOf(cfg.rules), FALSE)
    BY <2>1 DEF StoreInv, DefaultKept, Kept, Holds
  <2> QED BY <2>1, <2>2, FirstMatch
<1> QED BY <1>1, StoreInvariant, PTL
=============================================================================
