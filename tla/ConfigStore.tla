----------------------------- MODULE ConfigStore -----------------------------
(***************************************************************************)
(* The persisted configuration (sourcestore.go, sourceimport.go, rules.go) *)
(* and the source handlers of the status API that change it.               *)
(*                                                                         *)
(* The store's mutex makes every mutate one step: a copy is changed,       *)
(* validated, written to a temporary file, renamed over the old one and    *)
(* the directory is synced.  A failure before the rename changes nothing;  *)
(* a failure of the directory sync leaves the new file visible, the memory *)
(* follows it, and a crash may bring the old file back.  The module keeps  *)
(* the three copies apart: cfg in memory, file as the path shows it, and   *)
(* durable as the disk holds it for certain.                               *)
(*                                                                         *)
(* Names, URLs and values are reduced to identities: a source has an exact *)
(* URL and the key sourceURLKey makes of it, a rule covers a set of hosts, *)
(* a group is known by one name.  Input that a validator refuses outright  *)
(* changes nothing and is not enumerated.                                  *)
(***************************************************************************)
EXTENDS Integers, FiniteSets, Sequences, SequencesExt

CONSTANTS Builtins,     \* sources of defaultPoolConfig
          CatalogV1,    \* the built-ins migration 1 adds
          Retired,      \* the built-ins migration 1 switches off
          Customs, Uploads,
          Url, UrlKey,  \* of every source that is not an upload
          Groups, Strategies, Reserved, GroupAny, GroupDirect,
          RuleIds, Presets, MatchId, Hosts, Covers,
          GFWPreset,    \* the rules of the preset but for MATCH, in order
          Listeners, Ports, None,
          Options, LegacyURL, DefaultURL,  \* check targets and other settings
          MaxSources, MaxRules, MaxGroups, MaxListeners,
          LegacyStates, \* states of a source in an old configuration
          MaxOps,       \* bound on the changes asked for
          MaxCrashes    \* bound on crashes

Sources == Builtins \cup Customs \cup Uploads
Remote == Builtins \cup Customs
State == {"absent", "off", "on"}
Refs == Groups \cup Reserved

ASSUME CatalogAssumption ==
    /\ CatalogV1 \subseteq Builtins /\ Retired \subseteq Builtins
    /\ Builtins \cap (Customs \cup Uploads) = {} /\ Customs \cap Uploads = {}
    /\ \A s, t \in Remote : Url[s] = Url[t] => UrlKey[s] = UrlKey[t]
    /\ \A s, t \in Builtins : UrlKey[s] = UrlKey[t] => s = t
ASSUME RoutingAssumption ==
    /\ {GroupAny, GroupDirect} \subseteq Reserved /\ Groups \cap Reserved = {}
    /\ MatchId \notin RuleIds \cup Presets /\ RuleIds \cap Presets = {}
    /\ \A r \in RuleIds \cup Presets : Covers[r] \subseteq Hosts
    /\ GFWPreset \in Seq([id : Presets, group : {GroupAny, GroupDirect}])
ASSUME OptionsAssumption == {LegacyURL, DefaultURL} \subseteq Options /\ LegacyURL # DefaultURL
ASSUME LegacyAssumption == LegacyStates \subseteq State
ASSUME LimitAssumption ==
    /\ {MaxSources, MaxRules, MaxGroups, MaxListeners, MaxOps, MaxCrashes} \subseteq Nat
    /\ Cardinality(Builtins) <= MaxSources /\ Len(GFWPreset) < MaxRules
ASSUME FiniteAssumption ==
    /\ IsFiniteSet(Sources)
    /\ IsFiniteSet(Groups) /\ IsFiniteSet(Listeners)

VARIABLES cfg, file, durable,
          uploads,      \* the private files of imported sources
          handler,      \* the source handler that holds sourceLifecycleMu
          applied,      \* the sources the pool last took for enabled
          promise,      \* what the operator was last told about each source
          defaulted,    \* and about the default route
          ops, crashes

disk == <<file, durable, uploads>>
told == <<promise, defaulted>>
storeVars == <<cfg, disk, handler, applied, told, ops, crashes>>

Up == cfg # None
Idle == [stage |-> "idle", source |-> None]
NoBinding == [port |-> None, target |-> None, enabled |-> FALSE]
Present(c) == {s \in Sources : c.sources[s] # "absent"}
Enabled(c) == {s \in Sources : c.sources[s] = "on"}
Named(c) == {g \in Groups : c.groups[g] # "absent"}
Bound(c) == {l \in Listeners : c.listeners[l] # NoBinding}
Match(g) == [id |-> MatchId, group |-> g]

(* The persisted records (PoolConfig, Rule, ListenerBinding): a table of   *)
(* sources, rules in order, groups with their strategy, bound ports.       *)
Rule == [id : RuleIds \cup Presets \cup {MatchId}, group : Refs]
Binding == {NoBinding} \cup
           [port : Ports, target : {"rules", "fixed"} \cup Refs, enabled : BOOLEAN]
Config == [sources : [Sources -> State], catalog : {0, 1}, rules : Seq(Rule),
           groups : [Groups -> {"absent"} \cup Strategies],
           listeners : [Listeners -> Binding], options : Options]
ASSUME NoneAssumption == None \notin Config /\ None \notin Ports /\ None \notin Listeners

DefaultState(s) == IF s \in Builtins \ Retired THEN "on"
                   ELSE IF s \in Retired THEN "off" ELSE "absent"
defaultPoolConfig ==
    [sources |-> [s \in Sources |-> DefaultState(s)], catalog |-> 1,
     rules |-> <<Match(GroupAny)>>, groups |-> [g \in Groups |-> "absent"],
     listeners |-> [l \in Listeners |-> NoBinding],
     options |-> DefaultURL]

(* A configuration written before the source catalog had a version: it     *)
(* lacks the sources of catalog 1 and holds what the operator kept.        *)
Legacy(c) ==
    /\ c.catalog = 0
    /\ \A s \in Sources : s \in CatalogV1 \cup Uploads => c.sources[s] = "absent"
    /\ Cardinality(Present(c)) <= MaxSources
LegacyConfigs ==
    {c \in {[defaultPoolConfig EXCEPT !.catalog = 0, !.sources = f, !.options = LegacyURL] :
                f \in [Sources -> LegacyStates \cup {"absent"}]} : Legacy(c)}

-----------------------------------------------------------------------------
(* resolveGroupReference: ANY, DIRECT and country groups always resolve,   *)
(* any other reference only to a configured group.                         *)
AnyNameResolves(ref, c) == ref \in Refs  \* Wrong on purpose: a deleted group still resolves
resolveGroupReference(ref, c) == ref \in Reserved \cup Named(c)

validateListenerBinding(b, c) ==
    b.port \in Ports /\ (b.target \in {"rules", "fixed"} \/ resolveGroupReference(b.target, c))

validatePersistedPoolConfig(c) ==
    /\ Cardinality(Present(c)) <= MaxSources
    /\ Len(c.rules) <= MaxRules
    /\ Cardinality(Named(c)) <= MaxGroups
    /\ \A i \in 1 .. Len(c.rules) : resolveGroupReference(c.rules[i].group, c)
    /\ Cardinality(Bound(c)) <= MaxListeners
    /\ \A l \in Bound(c) : validateListenerBinding(c.listeners[l], c)
    /\ \A l, m \in Bound(c) : c.listeners[l].port = c.listeners[m].port => l = m

(* writeConfigLocked: how far a write got.                                 *)
Outcome == {"ok", "not_committed", "uncertain"}

(* mutate, for a change that passes its own checks and validation.         *)
mutate(next, out) ==
    /\ validatePersistedPoolConfig(next)
    /\ file' = IF out = "not_committed" THEN file ELSE next
    /\ durable' = IF out = "ok" THEN next ELSE durable
    /\ cfg' = IF out = "not_committed" THEN cfg ELSE next

(* What the answer to a change tells: success promises the new value for   *)
(* good, an uncertain outcome that it is in place until a crash, any other *)
(* that nothing changed.                                                   *)
Untold == [value |-> "any", sure |-> FALSE]
Told(out, value, before) ==
    IF out = "not_committed" THEN before ELSE [value |-> value, sure |-> out = "ok"]
AfterCrash(p) == IF p.sure THEN p ELSE Untold
Holds(p, value, certain) == p.value \in {"any", value} \/ (certain /\ ~p.sure)

Asked == Up /\ ops < MaxOps /\ ops' = ops + 1
SourceTold(s, value, out) ==
    promise' = [promise EXCEPT ![s] = Told(out, value, promise[s])]

-----------------------------------------------------------------------------
(* Sources.  Import, toggle and delete hold sourceLifecycleMu; AddSource   *)
(* does not.                                                               *)
AddSource(s, out) ==
    /\ Asked
    /\ s \in Customs /\ cfg.sources[s] = "absent"
    /\ Cardinality(Present(cfg)) < MaxSources
    /\ \A t \in Remote \cap Present(cfg) : Url[t] # Url[s]
    /\ mutate([cfg EXCEPT !.sources[s] = "on"], out)
    /\ SourceTold(s, "on", out)
    /\ UNCHANGED <<uploads, handler, applied, defaulted, crashes>>

(* handleSourceToggle: only a change reported as saved reaches the pool.   *)
ToggleSource(s, value, out) ==
    /\ Asked
    /\ handler = Idle
    /\ cfg.sources[s] # "absent"
    /\ mutate([cfg EXCEPT !.sources[s] = value], out)
    /\ SourceTold(s, value, out)
    /\ handler' = IF out = "ok" THEN [stage |-> "apply", source |-> s] ELSE Idle
    /\ UNCHANGED <<uploads, applied, defaulted, crashes>>

(* Wrong on purpose: an uncertain deletion goes on to remove the file.     *)
DeleteSourceAnyway(s, out) ==
    /\ Asked
    /\ handler = Idle
    /\ cfg.sources[s] # "absent"
    /\ mutate([cfg EXCEPT !.sources[s] = "absent"], out)
    /\ SourceTold(s, "absent", out)
    /\ handler' = IF out = "not_committed" THEN Idle
                  ELSE [stage |-> IF s \in Uploads THEN "unlink" ELSE "apply",
                        source |-> s]
    /\ UNCHANGED <<uploads, applied, defaulted, crashes>>
(* handleSourceDelete up to the answer of mutate.                          *)
DeleteSource(s, out) ==
    /\ Asked
    /\ handler = Idle
    /\ cfg.sources[s] # "absent"
    /\ mutate([cfg EXCEPT !.sources[s] = "absent"], out)
    /\ SourceTold(s, "absent", out)
    /\ handler' = IF out # "ok" THEN Idle
                  ELSE [stage |-> IF s \in Uploads THEN "unlink" ELSE "apply",
                        source |-> s]
    /\ UNCHANGED <<uploads, applied, defaulted, crashes>>

(* removeImportedSource: a failure ends the handler, with or without the   *)
(* file removed.                                                           *)
removeImportedSource ==
    /\ Up /\ handler.stage = "unlink"
    /\ \E fails, gone \in BOOLEAN :
         /\ fails \/ gone
         /\ uploads' = IF gone THEN uploads \ {handler.source} ELSE uploads
         /\ handler' = IF fails THEN Idle ELSE [handler EXCEPT !.stage = "apply"]
    /\ UNCHANGED <<cfg, file, durable, applied, told, ops, crashes>>

(* ApplyEnabledSources with the sources of this moment.                    *)
ApplyEnabledSources ==
    /\ Up /\ handler.stage = "apply"
    /\ applied' = Enabled(cfg)
    /\ handler' = Idle
    /\ UNCHANGED <<cfg, disk, told, ops, crashes>>

(* ImportSource: the file is stored first, under an ID no file or          *)
(* configuration uses; a failed write may leave it behind.                 *)
StoreUpload(u) ==
    /\ Asked
    /\ handler = Idle
    /\ u \notin uploads
    /\ \A c \in {cfg, file, durable} \ {None} : c.sources[u] = "absent"
    /\ \E stored, fails \in BOOLEAN :
         /\ stored \/ fails
         /\ uploads' = IF stored THEN uploads \cup {u} ELSE uploads
         /\ handler' = IF fails THEN Idle ELSE [stage |-> "stored", source |-> u]
    /\ UNCHANGED <<cfg, file, durable, applied, told, crashes>>

Importable == Cardinality(Present(cfg)) < MaxSources
(* ... then published; the file of an uncertain write is kept.             *)
PublishUpload(out) ==
    /\ Up /\ handler.stage = "stored" /\ Importable
    /\ LET u == handler.source IN
         /\ mutate([cfg EXCEPT !.sources[u] = "on"], out)
         /\ SourceTold(u, "on", out)
    /\ handler' = IF out = "not_committed" THEN [handler EXCEPT !.stage = "discard"]
                                           ELSE Idle
    /\ UNCHANGED <<uploads, applied, defaulted, ops, crashes>>
RefuseUpload ==
    /\ Up /\ handler.stage = "stored" /\ ~Importable
    /\ handler' = [handler EXCEPT !.stage = "discard"]
    /\ UNCHANGED <<cfg, disk, applied, told, ops, crashes>>
DiscardUpload ==
    /\ Up /\ handler.stage = "discard"
    /\ uploads' \in {uploads, uploads \ {handler.source}}
    /\ handler' = Idle
    /\ UNCHANGED <<cfg, file, durable, applied, told, ops, crashes>>

(* SetCheckURL and updateRuntimeOptions.                                   *)
SetOptions(o, out) ==
    /\ Asked
    /\ mutate([cfg EXCEPT !.options = o], out)
    /\ UNCHANGED <<uploads, handler, applied, told, crashes>>

-----------------------------------------------------------------------------
(* Rules and groups.                                                       *)
IndexOf(rules, id) == SelectInSeq(rules, LAMBDA r : r.id = id)
RouteChange(next, out) ==
    /\ Asked
    /\ mutate(next, out)
    /\ UNCHANGED <<uploads, handler, applied, promise, crashes>>

(* Wrong on purpose: a new rule goes to the end of the table.              *)
AddRuleLast(id, g, out) ==
    /\ Up /\ IndexOf(cfg.rules, id) = 0 /\ resolveGroupReference(g, cfg)
    /\ RouteChange([cfg EXCEPT !.rules = Append(@, [id |-> id, group |-> g])], out)
    /\ UNCHANGED defaulted
(* AddRule inserts before the first MATCH rule.                            *)
AddRule(id, g, out) ==
    /\ Up /\ IndexOf(cfg.rules, id) = 0 /\ resolveGroupReference(g, cfg)
    /\ LET at == IndexOf(cfg.rules, MatchId)
       IN  RouteChange([cfg EXCEPT !.rules =
             InsertAt(@, IF at = 0 THEN Len(@) + 1 ELSE at, [id |-> id, group |-> g])], out)
    /\ UNCHANGED defaulted

DeleteRule(id, out) ==
    /\ Up /\ IndexOf(cfg.rules, id) # 0 /\ id # MatchId
    /\ RouteChange([cfg EXCEPT !.rules = RemoveAt(@, IndexOf(@, id))], out)
    /\ UNCHANGED defaulted

Deltas == {-1, 1, 2}
(* A move out of the table is accepted and changes nothing.                *)
MoveRule(id, delta, out) ==
    /\ Up /\ IndexOf(cfg.rules, id) # 0
    /\ LET from == IndexOf(cfg.rules, id)
           onto == from + delta
           swapped == [cfg.rules EXCEPT ![from] = cfg.rules[onto],
                                        ![onto] = cfg.rules[from]]
       IN  IF onto \notin 1 .. Len(cfg.rules) THEN RouteChange(cfg, out)
           ELSE /\ MatchId \notin {id, cfg.rules[onto].id}
                /\ RouteChange([cfg EXCEPT !.rules = swapped], out)
    /\ UNCHANGED defaulted

SetDefaultGroup(g, out) ==
    /\ Up /\ resolveGroupReference(g, cfg)
    /\ LET at == IndexOf(cfg.rules, MatchId)
       IN  RouteChange([cfg EXCEPT !.rules =
             IF at = 0 THEN Append(@, Match(g)) ELSE [@ EXCEPT ![at].group = g]], out)
    /\ defaulted' = Told(out, g, defaulted)

(* InstallGFWPreset replaces the table by the preset; the rest goes to ANY.*)
InstallGFWPreset(out) ==
    /\ RouteChange([cfg EXCEPT !.rules = GFWPreset \o <<Match(GroupAny)>>], out)
    /\ defaulted' = Told(out, GroupAny, defaulted)

AddGroup(g, strategy, out) ==
    /\ Up /\ cfg.groups[g] = "absent"
    /\ RouteChange([cfg EXCEPT !.groups[g] = strategy], out)
    /\ UNCHANGED defaulted
SetGroupStrategy(g, strategy, out) ==
    /\ Up /\ cfg.groups[g] # "absent"
    /\ RouteChange([cfg EXCEPT !.groups[g] = strategy], out)
    /\ UNCHANGED defaulted

(* DeleteGroup refuses a group that a rule or a group listener names.      *)
DeleteGroup(g, out) ==
    /\ Up /\ cfg.groups[g] # "absent"
    /\ \A i \in 1 .. Len(cfg.rules) : cfg.rules[i].group # g
    /\ \A l \in Listeners : cfg.listeners[l].target # g
    /\ RouteChange([cfg EXCEPT !.groups[g] = "absent"], out)
    /\ UNCHANGED defaulted

(* MatchGroup: the first rule that covers the host, ANY without one.       *)
MatchGroup(rules, h) ==
    LET at == SelectInSeq(rules, LAMBDA r : r.id = MatchId \/ h \in Covers[r.id])
    IN  IF at = 0 THEN GroupAny ELSE rules[at].group

-----------------------------------------------------------------------------
(* migrateBuiltinSourceCatalog: the results possible for a configuration   *)
(* without version.  The retired sources are switched off; a list with a   *)
(* shipped source gains the built-ins of catalog 1 and those an own source *)
(* duplicates, in that order and as far as there is room; the duplicates   *)
(* of a built-in on the list are switched off.                             *)
Duplicates(s, b) == s \in Customs /\ b \in Builtins /\ UrlKey[s] = UrlKey[b]
Wanted(c) ==
    IF Present(c) \cap Builtins = {} THEN {}
    ELSE (CatalogV1 \cup {b \in Builtins : \E s \in Present(c) : Duplicates(s, b)})
           \ Present(c)
Inserted(c, room) ==
    {I \in SUBSET Wanted(c) :
        /\ I = Wanted(c) \/ Cardinality(I) = room
        /\ Cardinality(I) <= room
        /\ I \subseteq CatalogV1 \/ (CatalogV1 \cap Wanted(c)) \subseteq I}
Migrate(c, room) ==
    {[c EXCEPT !.catalog = 1,
               !.sources = [s \in Sources |->
                  IF s \in I THEN DefaultState(s)
                  ELSE IF c.sources[s] = "on" /\
                          (s \in Retired \/ \E b \in I \cup Present(c) : Duplicates(s, b))
                       THEN "off" ELSE c.sources[s]]] : I \in Inserted(c, room)}

(* Wrong on purpose: the migration does not look at the version.           *)
MigrateAlways(c) == Migrate(c, MaxSources - Cardinality(Present(c)))
migrateBuiltinSourceCatalog(c) ==
    IF c.catalog = 1 THEN {c}
    ELSE Migrate(c, MaxSources - Cardinality(Present(c)))

(* The health target that used to be the default is replaced on every load. *)
migrateCheckURL(c) ==
    [c EXCEPT !.options = IF @ = LegacyURL THEN DefaultURL ELSE @]

(* NewConfigStore, and main's first ApplyEnabledSources: a default or a    *)
(* migrated configuration is written first, and a failed write of any kind *)
(* fails the start.                                                        *)
Loaded(next) ==
    /\ cfg' = next
    /\ applied' = Enabled(next)
NewConfigStore(out) ==
    /\ ~Up
    /\ file # None => validatePersistedPoolConfig(file)
    /\ \E next \in IF file = None THEN {defaultPoolConfig}
                   ELSE {migrateCheckURL(c) : c \in migrateBuiltinSourceCatalog(file)} :
         /\ validatePersistedPoolConfig(next)
         /\ IF next = file THEN Loaded(next) /\ UNCHANGED <<file, durable>>
            ELSE /\ file' = IF out = "not_committed" THEN file ELSE next
                 /\ durable' = IF out = "ok" THEN next ELSE durable
                 /\ IF out = "ok" THEN Loaded(next) ELSE UNCHANGED <<cfg, applied>>
    /\ UNCHANGED <<uploads, handler, told, ops, crashes>>

(* The machine stops at any point: an unsynced rename may be lost.         *)
Crash ==
    /\ crashes < MaxCrashes /\ crashes' = crashes + 1
    /\ file' \in {file, durable}
    /\ durable' = file'
    /\ cfg' = None
    /\ handler' = Idle
    /\ applied' = {}
    /\ promise' = [s \in Sources |-> AfterCrash(promise[s])]
    /\ defaulted' = AfterCrash(defaulted)
    /\ UNCHANGED <<uploads, ops>>

InitFrom(files) ==
    /\ file \in files
    /\ cfg = None /\ durable = file /\ uploads = {} /\ handler = Idle
    /\ applied = {}
    /\ promise = [s \in Sources |-> Untold] /\ defaulted = Untold
    /\ ops = 0 /\ crashes = 0
Init == InitFrom({None} \cup LegacyConfigs)

SourceNext(out) ==
    \/ \E s \in Customs : AddSource(s, out)
    \/ \E s \in Sources, value \in {"off", "on"} : ToggleSource(s, value, out)
    \/ \E s \in Sources : DeleteSource(s, out)
    \/ PublishUpload(out)
    \/ \E o \in Options : SetOptions(o, out)
UploadNext ==
    \/ \E u \in Uploads : StoreUpload(u)
    \/ RefuseUpload \/ DiscardUpload
    \/ removeImportedSource \/ ApplyEnabledSources
RuleNext(out) ==
    \/ \E id \in RuleIds, g \in Refs : AddRule(id, g, out)
    \/ \E id \in RuleIds \cup Presets \cup {MatchId} :
         \/ DeleteRule(id, out)
         \/ \E delta \in Deltas : MoveRule(id, delta, out)
    \/ \E g \in Refs : SetDefaultGroup(g, out)
    \/ InstallGFWPreset(out)
GroupNext(out) ==
    \E g \in Groups :
       \/ \E st \in Strategies : AddGroup(g, st, out) \/ SetGroupStrategy(g, st, out)
       \/ DeleteGroup(g, out)

Next ==
    \/ \E out \in Outcome : SourceNext(out) \/ RuleNext(out) \/ GroupNext(out)
                            \/ NewConfigStore(out)
    \/ UploadNext
    \/ Crash

Spec == Init /\ [][Next]_storeVars

-----------------------------------------------------------------------------
(* The three copies are configurations, or absent; what was told is a      *)
(* state of a source or a group.                                           *)
Stage == {"idle", "apply", "unlink", "stored", "discard"}
Promise(values) == [value : {"any"} \cup values, sure : BOOLEAN]
TypeOK ==
    /\ {cfg, file, durable} \subseteq {None} \cup Config
    /\ uploads \subseteq Uploads
    /\ handler \in [stage : Stage, source : {None} \cup Sources]
    /\ applied \subseteq Sources
    /\ promise \in [Sources -> Promise(State)] /\ defaulted \in Promise(Refs)
    /\ ops \in 0 .. MaxOps /\ crashes \in 0 .. MaxCrashes

(* The process can always start again: whichever of the two versions of    *)
(* the file a crash leaves behind will pass validatePersistedPoolConfig,   *)
(* as it is and migrated.  It respects the limits, its listeners use       *)
(* different ports, and every rule and group listener names a group that   *)
(* exists, although groups, rules and listeners change independently.      *)
Loadable(c) ==
    LET targets == {c.rules[i].group : i \in 1 .. Len(c.rules)} \cup
                   ({c.listeners[l].target : l \in Bound(c)} \ {"rules", "fixed"})
    IN  /\ Cardinality(Present(c)) <= MaxSources /\ Len(c.rules) <= MaxRules
        /\ targets \subseteq Reserved \cup Named(c)
        /\ Cardinality({c.listeners[l].port : l \in Bound(c)}) = Cardinality(Bound(c))
Restartable ==
    \A c \in {file, durable} \ {None} :
       Loadable(c) /\ \A next \in migrateBuiltinSourceCatalog(c) : Loadable(next)

(* An imported source has its private file, in both versions of the        *)
(* configuration a crash may leave: import stores the file before it       *)
(* publishes, delete removes it after the deletion is durable.             *)
UploadsStored ==
    \A c \in {file, durable} \ {None} : Present(c) \cap Uploads \subseteq uploads

(* What the operator was told about a source (deleted, switched off,       *)
(* added) holds until the next change of it: in memory and in the file     *)
(* from the answer on, also when the answer was an uncertain durability    *)
(* (the comment on mutate), and on disk and through later failed writes,   *)
(* crashes, restarts and migrations once it was success.                   *)
PromisesKept ==
    \A s \in Sources :
       /\ Up => Holds(promise[s], cfg.sources[s], FALSE)
       /\ file # None => Holds(promise[s], file.sources[s], FALSE)
       /\ durable # None => Holds(promise[s], durable.sources[s], TRUE)

(* The routing table keeps its meaning: a host no rule covers takes the    *)
(* default route the operator was last told of, and a host some rule       *)
(* covers is never caught by MATCH before that rule.                       *)
RulesReachable ==
    Up => \A h \in Hosts :
       LET over == {i \in 1 .. Len(cfg.rules) :
                      cfg.rules[i].id # MatchId /\ h \in Covers[cfg.rules[i].id]}
       IN  IF over = {} THEN Holds(defaulted, MatchGroup(cfg.rules, h), FALSE)
           ELSE MatchGroup(cfg.rules, h) = cfg.rules[Min(over)].group

(* README: switching a source off or deleting it retires its nodes at      *)
(* once.  Whenever no source handler is running, the pool takes no source  *)
(* for enabled that the configuration does not.                            *)
RemovalRetires == Up /\ handler = Idle => applied \subseteq Enabled(cfg)
=============================================================================
