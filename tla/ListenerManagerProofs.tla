------------------------ MODULE ListenerManagerProofs ------------------------
(***************************************************************************)
(* Proofs about ListenerManager: the servers are those of the manager's    *)
(* map, they agree with the configuration whenever the mutex is free, and  *)
(* the configuration store keeps its promises under the manager as well,   *)
(* for any number of listeners, ports, groups and requests.                *)
(*                                                                         *)
(* The argument goes listener by listener: an operation touches one (the   *)
(* reconciliation, the start and the end of the process touch all), so     *)
(* each step is described by what it does to one listener and a frame.     *)
(***************************************************************************)
EXTENDS ListenerManager, ConfigStoreProofs

(* Changes of a binding as the store sees them.                            *)
LEMMA BindKind ==
    ASSUME TypeOK, Up, NEW l \in Listeners, NEW b \in Binding, NEW out \in Outcome, Bind(l, b, out)
    PROVE  /\ OtherStep /\ uploads' = uploads /\ handler' = handler
           /\ applied' = applied /\ crashes' = crashes
<1> DEFINE n == [cfg EXCEPT !.listeners[l] = b]
<1>1. cfg \in Config
  BY DEF TypeOK, Up
<1>2. n \in Config /\ n.rules = cfg.rules /\ n.catalog = cfg.catalog /\ n.sources = cfg.sources
  BY <1>1, WithListener
<1>3. /\ mutate(n, out) /\ UNCHANGED told /\ uploads' = uploads /\ handler' = handler
      /\ applied' = applied /\ crashes' = crashes
  BY DEF Bind
<1> HIDE DEF n
<1> QED BY <1>2, <1>3 DEF OtherStep, OtherChange

(* What a change of a binding leaves: the old configuration, or the new    *)
(* one, which differs in this binding only.                                *)
LEMMA BindEffect ==
    ASSUME TypeOK, Up, NEW l \in Listeners, NEW b \in Binding, NEW out \in Outcome, Bind(l, b, out)
    PROVE  /\ Up' /\ cfg' \in Config
           /\ cfg'.listeners[l] = IF out = "not_committed" THEN cfg.listeners[l] ELSE b
           /\ \A k \in Listeners : k # l => cfg'.listeners[k] = cfg.listeners[k]
<1> DEFINE n == [cfg EXCEPT !.listeners[l] = b]
<1>1. cfg \in Config
  BY DEF TypeOK, Up
<1>2. n \in Config /\ n.listeners = [cfg.listeners EXCEPT ![l] = b]
  BY <1>1, WithListener
<1>3. cfg.listeners \in [Listeners -> Binding]
  BY <1>1 DEF Config
<1>4. cfg' = IF out = "not_committed" THEN cfg ELSE n
  BY DEF Bind, mutate
<1> HIDE DEF n
<1> QED BY <1>1, <1>2, <1>3, <1>4, NoneAssumption DEF Up

LEMMA GroupEffect ==
    ASSUME TypeOK, NEW out \in Outcome, GroupNext(out)
    PROVE  Up /\ Up' /\ cfg' \in Config /\ cfg'.listeners = cfg.listeners
<1>1. Up /\ cfg \in Config
  BY DEF GroupNext, AddGroup, SetGroupStrategy, DeleteGroup, TypeOK, Up
<1>2. PICK g \in Groups, v \in {"absent"} \cup Strategies :
           mutate([cfg EXCEPT !.groups[g] = v], out)
  BY DEF GroupNext, AddGroup, SetGroupStrategy, DeleteGroup, RouteChange
<1> DEFINE n == [cfg EXCEPT !.groups[g] = v]
<1>3. n \in Config
  BY <1>1, WithGroup
<1>4. n.listeners = cfg.listeners
  BY <1>1 DEF Config
<1>5. cfg' \in {cfg, n}
  BY <1>2 DEF mutate
<1> HIDE DEF n
<1> QED BY <1>1, <1>3, <1>4, <1>5, NoneAssumption DEF Up

(* A binding the handlers accept is a binding.                             *)
LEMMA AcceptedBinding ==
    ASSUME NEW b \in Bindings, NEW c, validateListenerBinding(b, c)
    PROVE  b \in Binding /\ b # NoBinding
BY NoneAssumption DEF Bindings, Binding, NoBinding, validateListenerBinding,
   resolveGroupReference, Refs, Named

-----------------------------------------------------------------------------
(* The servers.  A socket belongs to the server in the map, generations    *)
(* grow, and the callbacks of the server in the map come after its socket  *)
(* has gone.                                                               *)
ServerTypes ==
    /\ runtime \in [Listeners -> {NoRuntime} \cup Server]
    /\ live \subseteq [id : Listeners, gen : Nat \ {0}, port : Ports]
    /\ stopped \subseteq [id : Listeners, gen : Nat \ {0}]
    /\ gen \in [Listeners -> Nat]
Generations ==
    /\ \A l \in Listeners : runtime[l].gen <= gen[l]
    /\ \A x \in stopped : x.gen <= gen[x.id]
    /\ \A x \in live : runtime[x.id].gen = x.gen
    /\ \A x \in stopped, y \in live : ~(y.id = x.id /\ y.gen = x.gen)
    /\ \A l \in Listeners : Running(l) /\ ~runtime[l].listening => \A x \in live : x.id # l
Servers == ServerTypes /\ Generations

(* What startLocked, stopListenerLocked, Reconcile and Start do to the     *)
(* map: ls start, down stop, the others keep their server, perhaps with a  *)
(* new binding.                                                            *)
Remapped(ls, bs, down) ==
    /\ runtime' \in [Listeners -> {NoRuntime} \cup Server]
    /\ \A l \in ls : runtime'[l] = [gen |-> gen[l] + 1, binding |-> bs[l], listening |-> TRUE]
    /\ \A l \in down \ ls : runtime'[l] = NoRuntime
    /\ \A l \in Listeners \ (ls \cup down) :
          /\ runtime'[l].gen = runtime[l].gen
          /\ runtime'[l].listening = runtime[l].listening
          /\ Running(l) <=> runtime'[l] # NoRuntime

LEMMA ServerFields ==
    ASSUME ServerTypes, NEW l \in Listeners
    PROVE  /\ runtime[l] \in {NoRuntime} \cup Server
           /\ runtime[l].gen \in Nat /\ gen[l] \in Nat
           /\ Running(l) <=> runtime[l].gen # 0
           /\ runtime[l].listening \in BOOLEAN
<1>1. runtime[l] \in {NoRuntime} \cup Server /\ gen[l] \in Nat
  BY DEF ServerTypes
<1>2. NoRuntime.gen = 0 /\ NoRuntime.listening \in BOOLEAN
  BY DEF NoRuntime
<1>3. \A r \in Server : r.gen \in Nat /\ r.gen # 0 /\ r.listening \in BOOLEAN
  BY DEF Server
<1>4. CASE runtime[l] = NoRuntime
  BY <1>1, <1>2, <1>4 DEF Running
<1>5. CASE runtime[l] \in Server
  BY <1>1, <1>2, <1>3, <1>5 DEF Running
<1> QED BY <1>1, <1>4, <1>5

LEMMA SocketFields ==
    ASSUME ServerTypes
    PROVE  /\ \A x \in live : x.id \in Listeners /\ x.gen \in Nat /\ x.gen # 0
           /\ \A x \in stopped : x.id \in Listeners /\ x.gen \in Nat /\ x.gen # 0
BY DEF ServerTypes

(* The sockets of a listener are those of its server.                      *)
LEMMA OwnAll ==
    ASSUME Servers, NEW ls \in SUBSET Listeners
    PROVE  OwnSockets(ls) = {x \in live : x.id \in ls}
BY DEF Servers, Generations, OwnSockets

LEMMA IdleHasNone ==
    ASSUME Servers, NEW l \in Listeners, ~Running(l), NEW x \in live
    PROVE  x.id # l
BY ServerFields, SocketFields DEF Servers, Generations

(* The sockets after a change of the servers.                              *)
LEMMA ServeSockets ==
    ASSUME Servers, NEW ls \in SUBSET Listeners, NEW bs, NEW down \in SUBSET Listeners,
           Serve(ls, bs, down), \A l \in ls : ~Running(l) \/ l \in down
    PROVE  /\ \A x \in live' : \/ x \in live /\ x.id \notin ls \cup down
                               \/ \E l \in ls : x = Socket(l, gen[l] + 1, bs[l].port)
           /\ \A x \in live : x.id \notin ls \cup down => x \in live'
<1>1. live' = {x \in live : x.id \notin down} \cup {Socket(l, gen[l] + 1, bs[l].port) : l \in ls}
  BY OwnAll DEF Serve
<1>2. ASSUME NEW x \in live, x.id \notin down PROVE x.id \notin ls
  BY <1>2, IdleHasNone
<1> QED BY <1>1, <1>2

LEMMA ServeKeeps ==
    ASSUME Servers, NEW ls \in SUBSET Listeners, NEW bs, NEW down \in SUBSET Listeners,
           Serve(ls, bs, down), Remapped(ls, bs, down),
           \A l \in ls : ~Running(l) \/ l \in down, \A l \in ls : bs[l].port \in Ports
    PROVE  Servers'
<1>1. /\ \A x \in live' : \/ x \in live /\ x.id \notin ls \cup down
                          \/ \E l \in ls : x = Socket(l, gen[l] + 1, bs[l].port)
      /\ \A x \in live : x.id \notin ls \cup down => x \in live'
  BY ServeSockets
<1>2. gen' = [l \in Listeners |-> IF l \in ls THEN gen[l] + 1 ELSE gen[l]]
  BY DEF Serve
<1>3. \A x \in stopped' : \/ x \in stopped
                          \/ \E y \in live : y.id \in down /\ x = [id |-> y.id, gen |-> y.gen]
  BY OwnAll DEF Serve
<1>t. ServerTypes /\ Generations
  BY DEF Servers
<1>4. ServerTypes'
  <2>1. gen' \in [Listeners -> Nat] /\ gen \in [Listeners -> Nat]
    BY <1>t, <1>2 DEF ServerTypes
  <2>2. live' \subseteq [id : Listeners, gen : Nat \ {0}, port : Ports]
    <3>1. ASSUME NEW l \in ls PROVE Socket(l, gen[l] + 1, bs[l].port) \in [id : Listeners, gen : Nat \ {0}, port : Ports]
      BY <2>1 DEF Socket
    <3> QED BY <1>t, <1>1, <3>1 DEF ServerTypes
  <2>3. stopped' \subseteq [id : Listeners, gen : Nat \ {0}]
    BY <1>t, <1>3 DEF ServerTypes
  <2> QED BY <2>1, <2>2, <2>3 DEF ServerTypes, Remapped
<1>n. \A l \in Listeners : gen[l] \in Nat /\ runtime[l].gen \in Nat
  BY <1>t, ServerFields
<1>r. /\ \A l \in ls : runtime'[l].gen = gen[l] + 1 /\ runtime'[l].listening
      /\ \A l \in down \ ls : runtime'[l].gen = 0
      /\ \A l \in Listeners \ (ls \cup down) :
            /\ runtime'[l].gen = runtime[l].gen
            /\ runtime'[l].listening = runtime[l].listening
            /\ Running(l) <=> Running(l)'
  <2>1. ASSUME NEW l \in ls PROVE runtime'[l].gen = gen[l] + 1 /\ runtime'[l].listening
    <3> DEFINE r == [gen |-> gen[l] + 1, binding |-> bs[l], listening |-> TRUE]
    <3>1. r.gen = gen[l] + 1 /\ r.listening
      OBVIOUS
    <3>2. runtime'[l] = r
      BY DEF Remapped
    <3> QED BY <3>1, <3>2, Zenon
  <2>2. NoRuntime.gen = 0
    BY DEF NoRuntime
  <2>3. \A l \in down \ ls : runtime'[l].gen = 0
    BY <2>2 DEF Remapped
  <2>4. NoRuntime' = NoRuntime
    BY DEF NoRuntime
  <2> QED BY <2>1, <2>3, <2>4, Zenon DEF Remapped, Running
<1>5. \A l \in Listeners : runtime'[l].gen <= gen'[l]
  BY <1>t, <1>2, <1>n, <1>r DEF Generations
<1>6. \A x \in stopped' : x.gen <= gen[x.id] /\ x.gen <= gen'[x.id] /\ x.id \in Listeners
  <2>1. ASSUME NEW x \in stopped' PROVE x.gen <= gen[x.id] /\ x.id \in Listeners /\ x.gen \in Nat
    <3>1. CASE x \in stopped
      BY <1>t, <3>1, SocketFields DEF Generations
    <3>2. CASE x \notin stopped
      <4>1. PICK y \in live : y.id \in down /\ x = [id |-> y.id, gen |-> y.gen]
        BY <1>3, <3>2
      <4>2. x.gen = runtime[x.id].gen /\ x.id \in Listeners /\ x.gen \in Nat
        BY <1>t, <4>1, SocketFields DEF Generations
      <4> QED BY <1>t, <4>2 DEF Generations
    <3> QED BY <3>1, <3>2
  <2> QED BY <1>2, <1>n, <2>1
<1>7. \A x \in live' : runtime'[x.id].gen = x.gen
  <2>1. ASSUME NEW l \in ls, NEW x, x = Socket(l, gen[l] + 1, bs[l].port)
        PROVE  runtime'[x.id].gen = x.gen
    BY <1>r, <2>1 DEF Socket
  <2>2. ASSUME NEW x \in live, x.id \notin ls \cup down PROVE runtime'[x.id].gen = x.gen
    BY <1>t, <1>r, <2>2, SocketFields DEF Generations
  <2> QED BY <1>1, <2>1, <2>2
<1>8. \A x \in stopped', y \in live' : ~(y.id = x.id /\ y.gen = x.gen)
  <2> SUFFICES ASSUME NEW x \in stopped', NEW y \in live', y.id = x.id, y.gen = x.gen PROVE FALSE
    OBVIOUS
  <2>1. CASE \E l \in ls : y = Socket(l, gen[l] + 1, bs[l].port)
    <3>1. PICK l \in ls : y = Socket(l, gen[l] + 1, bs[l].port)
      BY <2>1
    <3>2. y.id = l /\ y.gen = gen[l] + 1
      BY <3>1 DEF Socket
    <3>3. x.gen <= gen[x.id]
      BY <1>6
    <3> QED BY <1>n, <3>2, <3>3
  <2>2. CASE y \in live /\ y.id \notin ls \cup down
    <3>1. x \in stopped
      BY <1>3, <2>2
    <3> QED BY <1>t, <2>2, <3>1 DEF Generations
  <2> QED BY <1>1, <2>1, <2>2
<1>9. ASSUME NEW l \in Listeners, Running(l)', ~runtime'[l].listening, NEW x \in live', x.id = l
      PROVE  FALSE
  <2>1. l \notin ls
    BY <1>9, <1>r
  <2>2. x \in live /\ l \notin down
    BY <1>1, <1>9, <2>1 DEF Socket
  <2> QED BY <1>t, <1>9, <1>r, <2>1, <2>2 DEF Generations
<1> QED BY <1>4, <1>5, <1>6, <1>7, <1>8, <1>9 DEF Servers, Generations

(* A change of the servers of one listener.                                *)
Aside(l) ==
    /\ \A k \in Listeners : k # l => runtime'[k] = runtime[k]
    /\ \A x \in live' : x.id # l => x \in live

LEMMA Started ==
    ASSUME Servers, NEW l \in Listeners, NEW b \in Binding, b # NoBinding, ~Running(l),
           startLocked(l, b)
    PROVE  /\ Servers' /\ Aside(l) /\ Running(l)' /\ runtime'[l].binding = b
           /\ \A x \in live' : x.id = l => x.port = b.port
<1> DEFINE bs == [m \in {l} |-> b]
           r == [gen |-> gen[l] + 1, binding |-> b, listening |-> TRUE]
<1>1. Serve({l}, bs, {}) /\ runtime' = [runtime EXCEPT ![l] = r]
  BY DEF startLocked
<1>2. runtime \in [Listeners -> {NoRuntime} \cup Server] /\ gen[l] \in Nat
  BY ServerFields DEF Servers, ServerTypes
<1>3. b.port \in Ports
  BY DEF Binding
<1>4. r \in Server /\ r # NoRuntime /\ r.binding = b
  BY <1>2 DEF Server, NoRuntime
<1> HIDE DEF r
<1>5. runtime' \in [Listeners -> {NoRuntime} \cup Server] /\ runtime'[l] = r
      /\ \A k \in Listeners : k # l => runtime'[k] = runtime[k]
  BY <1>1, <1>2, <1>4
<1>6. \A k \in {l} : bs[k] = b
  OBVIOUS
<1>7. Remapped({l}, bs, {})
  BY <1>5, <1>6 DEF Remapped, r, Running
<1> HIDE DEF bs
<1>8. Servers'
  BY <1>1, <1>3, <1>6, <1>7, ServeKeeps
<1>9. \A x \in live' : \/ x \in live /\ x.id # l
                       \/ x = Socket(l, gen[l] + 1, b.port)
  BY <1>1, <1>6, ServeSockets
<1>10. \A x \in live' : (x.id # l => x \in live) /\ (x.id = l => x.port = b.port)
  BY <1>9 DEF Socket
<1>11. Running(l)'
  BY <1>4, <1>5 DEF Running, NoRuntime
<1> QED BY <1>4, <1>5, <1>8, <1>10, <1>11 DEF Aside

LEMMA Stopped ==
    ASSUME Servers, NEW ls \in SUBSET Listeners, stopListenerLocked(ls)
    PROVE  /\ Servers' /\ \A l \in ls : ~Running(l)'
           /\ \A k \in Listeners \ ls : runtime'[k] = runtime[k]
           /\ \A x \in live' : x \in live /\ x.id \notin ls
<1>1. Serve({}, << >>, ls)
      /\ runtime' = [l \in Listeners |-> IF l \in ls THEN NoRuntime ELSE runtime[l]]
  BY DEF stopListenerLocked
<1>2. runtime \in [Listeners -> {NoRuntime} \cup Server]
  BY DEF Servers, ServerTypes
<1>3. Remapped({}, << >>, ls)
  BY <1>1, <1>2 DEF Remapped, Running
<1>4. Servers'
  BY <1>1, <1>3, ServeKeeps
<1>5. \A x \in live' : x \in live /\ x.id \notin ls
  BY <1>1, ServeSockets
<1>6. \A l \in ls : ~Running(l)'
  BY <1>1 DEF Running, NoRuntime
<1> QED BY <1>1, <1>4, <1>5, <1>6

-----------------------------------------------------------------------------
(* Agreement, listener by listener.  Served is Agrees for any binding; a   *)
(* server that runs has a binding to run for; its sockets are on the port  *)
(* of its binding unless an update after a failed rollback was answered.   *)
Served(l, r, lv, b) ==
    IF b # NoBinding /\ b.enabled
    THEN r.binding = b /\ \A x \in lv : x.id = l => x.port = b.port
    ELSE r = NoRuntime
Matches(l) == fault[l] = "none" => Served(l, runtime[l], live, cfg.listeners[l])
Sited(l) ==
    /\ Running(l) => cfg.listeners[l] # NoBinding
    /\ fault[l] # "answered" => \A x \in live : x.id = l => x.port = runtime[l].binding.port

(* What the phases, and the operation that holds the mutex, can rely on.   *)
Working == {"running", "exiting", "stopping"}
ControlTypes ==
    /\ phase \in Phase
    /\ mgr \in [op : Operation, id : {None} \cup Listeners, old : Binding]
    /\ events \in 0 .. MaxListeners
    /\ fault \in [Listeners -> {"none", "reported", "answered"}]
Phases ==
    /\ ~started => \A l \in Listeners : ~Running(l)
    /\ mgr # Free => phase \in Working
    /\ phase = "down" <=> cfg = None
Holding ==
    LET l == mgr.id
        b == cfg.listeners[l]
        op == mgr.op
    IN  /\ op = "none" => mgr = Free
        /\ op \notin {"none", "reconcile"} => l \in Listeners /\ mgr.old # NoBinding
        /\ op \in {"add_start", "add_undo", "update_start", "update_restore",
                   "update_restart", "delete_restart"} => started
        /\ op \in {"add_start", "add_undo", "update_start", "update_restore",
                   "update_restart", "delete", "delete_restart"} => ~Running(l)
        /\ op \in {"add_start", "add_undo", "delete", "delete_restart"} => b = mgr.old
        /\ op \in {"update", "update_start", "update_restore", "update_restart"} => b # NoBinding
        /\ op \in {"update_start", "update_restore", "delete"} => fault[l] = "none"
        /\ op = "update_start" => b.enabled
        /\ op \in {"add_start", "update_restart", "delete_restart"} => mgr.old.enabled
        /\ op = "update_restart" /\ fault[l] = "none" => b = mgr.old
Matching ==
    started =>
    /\ mgr.op # "reconcile" => \A l \in Listeners : l # mgr.id => Matches(l)
    /\ mgr.op = "update" /\ fault[mgr.id] = "none" =>
         Served(mgr.id, runtime[mgr.id], live, mgr.old)
Siting == \A l \in Listeners : Sited(l)
ManagerInv == TypeOK /\ ControlTypes /\ Servers /\ Phases /\ Holding /\ Siting /\ Matching

(* The frame: a step that leaves a listener alone keeps its agreement.     *)
Alone(k) ==
    /\ runtime'[k] = runtime[k] /\ fault'[k] = fault[k]
    /\ cfg'.listeners[k] = cfg.listeners[k]
    /\ \A x \in live' : x.id = k => x \in live
LEMMA Frame ==
    ASSUME NEW k \in Listeners, Alone(k)
    PROVE  (Sited(k) => Sited(k)') /\ (Matches(k) => Matches(k)')
           /\ (Running(k)' <=> Running(k))
<1>1. Running(k)' <=> Running(k)
  BY DEF Alone, Running, NoRuntime
<1>2. Sited(k) => Sited(k)'
  BY <1>1 DEF Alone, Sited
<1>3. ASSUME NEW b, Served(k, runtime[k], live, b) PROVE Served(k, runtime'[k], live', b)
  BY <1>3 DEF Alone, Served
<1>4. Matches(k) => Matches(k)'
  BY <1>3 DEF Alone, Matches
<1> QED BY <1>1, <1>2, <1>4

(* One step of an operation on the listener l.                             *)
LEMMA OneListener ==
    ASSUME Phases, Holding, Siting, Matching, NEW l \in Listeners,
           mgr = Free \/ (mgr.id = l /\ mgr.op # "reconcile"),
           \A k \in Listeners : k # l => Alone(k),
           phase' = phase, phase \in Working, Up, Up',
           Sited(l)', Running(l)' => started,
           \/ mgr' = Free /\ (started => Matches(l)')
           \/ mgr'.op = "reconcile"
           \/ /\ mgr'.id = l
              /\ mgr'.op = "update" /\ fault'[l] = "none" =>
                    (started => Served(l, runtime'[l], live', mgr'.old))
    PROVE  Phases' /\ Siting' /\ Matching'
<1>1. started' <=> started
  BY DEF started
<1>2. \A k \in Listeners : k # l => Sited(k)' /\ (Running(k)' <=> Running(k))
  BY Frame DEF Siting
<1>3. Siting'
  BY <1>2 DEF Siting
<1>4. ~started' => \A k \in Listeners : ~Running(k)'
  BY <1>1, <1>2 DEF Phases
<1>5. Phases'
  <2>1. phase' # "down"
    BY DEF Working
  <2> QED BY <1>4, <2>1 DEF Phases, Up, Working
<1>6. ASSUME started, NEW k \in Listeners, k # l PROVE Matches(k)'
  <2>1. mgr.op # "reconcile" /\ k # mgr.id
    BY <1>6, NoneAssumption DEF Free
  <2> QED BY <1>6, <2>1, Frame DEF Matching
<1>7. Matching'
  <2>1. CASE mgr' = Free /\ (started => Matches(l)')
    <3>1. mgr'.op = "none"
      BY <2>1 DEF Free
    <3> QED BY <1>1, <1>6, <2>1, <3>1 DEF Matching
  <2>2. CASE mgr'.op = "reconcile"
    BY <2>2 DEF Matching
  <2>3. CASE /\ mgr'.id = l
             /\ mgr'.op = "update" /\ fault'[l] = "none" =>
                   (started => Served(l, runtime'[l], live', mgr'.old))
    BY <1>1, <1>6, <2>3 DEF Matching
  <2> QED BY <2>1, <2>2, <2>3
<1> QED BY <1>3, <1>5, <1>7

(* A step that leaves the manager's map, the bindings and the operation    *)
(* alone, but for dead sockets.                                            *)
LEMMA Quiet ==
    ASSUME Phases, Holding, Siting, Matching,
           \A l \in Listeners : /\ runtime'[l].binding = runtime[l].binding
                                /\ Running(l)' <=> Running(l),
           live' \subseteq live, fault' = fault, mgr' = mgr,
           \A l \in Listeners : cfg'.listeners[l] = cfg.listeners[l],
           Up' <=> Up, started' <=> started, phase \in Working => phase' \in Working,
           phase' = "down" <=> phase = "down"
    PROVE  Phases' /\ Holding' /\ Siting' /\ Matching'
<1>1. Phases'
  BY DEF Phases, Up
<1>2. Siting'
  BY DEF Siting, Sited
<1>3. ASSUME NEW l \in Listeners, NEW b, Served(l, runtime[l], live, b)
      PROVE  Served(l, runtime'[l], live', b)
  <2>1. CASE b # NoBinding /\ b.enabled
    BY <1>3, <2>1 DEF Served
  <2>2. CASE ~(b # NoBinding /\ b.enabled)
    BY <1>3, <2>2 DEF Served, Running, NoRuntime
  <2> QED BY <2>1, <2>2
<1>4. \A l \in Listeners : Matches(l) => Matches(l)'
  BY <1>3 DEF Matches
<1>5. mgr.op = "update" => mgr.id \in Listeners
  BY DEF Holding
<1>6. Matching'
  BY <1>3, <1>4, <1>5 DEF Matching
<1>7. mgr.op \notin {"none", "reconcile"} => mgr.id \in Listeners
  BY DEF Holding
<1>8. Holding'
  BY <1>7 DEF Holding, Free
<1> QED BY <1>1, <1>2, <1>6, <1>8

(* A step after which nothing is served.                                   *)
LEMMA AllIdle ==
    ASSUME Servers', mgr' = Free, ~started', \A l \in Listeners : ~Running(l)',
           phase' = "down" <=> cfg' = None
    PROVE  Phases' /\ Holding' /\ Siting' /\ Matching'
<1>1. \A l \in Listeners : \A x \in live' : x.id # l
  <2> SUFFICES ASSUME NEW l \in Listeners, NEW x \in live' PROVE x.id # l
    OBVIOUS
  <2>1. runtime'[l].gen = 0 /\ runtime'[x.id].gen = x.gen /\ x.gen # 0
    BY DEF Servers, Generations, ServerTypes, Running, NoRuntime
  <2> QED BY <2>1
<1>2. Siting'
  BY <1>1 DEF Siting, Sited
<1>3. Holding'
  BY DEF Holding, Free
<1> QED BY <1>2, <1>3 DEF Phases, Matching

-----------------------------------------------------------------------------
(* The store under the manager keeps its types.                            *)
LEMMA StoreSame == TypeOK /\ UNCHANGED <<cfg, disk, handler, applied, told, crashes>>
                   /\ (ops' = ops \/ Asked) => TypeOK'
BY LimitAssumption DEF TypeOK, disk, told, Asked

LEMMA BindTypes ==
    ASSUME TypeOK, Up, NEW l \in Listeners, NEW b \in Binding, NEW out \in Outcome,
           Bind(l, b, out), ops' = ops \/ Asked
    PROVE  TypeOK'
<1>1. /\ OtherStep /\ uploads' = uploads /\ handler' = handler
      /\ applied' = applied /\ crashes' = crashes
  BY BindKind
<1>2. CopyTypes'
  BY <1>1, WrittenTypes DEF Written
<1>3. ops' \in 0 .. MaxOps
  BY LimitAssumption DEF TypeOK, Asked
<1> QED BY <1>1, <1>2, <1>3 DEF TypeOK, CopyTypes

LEMMA GroupTypes ==
    ASSUME TypeOK, NEW out \in Outcome, GroupNext(out)
    PROVE  TypeOK'
<1>1. CopyTypes'
  BY GroupSteps, WrittenTypes DEF Written
<1>2. UNCHANGED <<uploads, handler, applied, crashes>> /\ Asked
  BY DEF GroupNext, AddGroup, SetGroupStrategy, DeleteGroup, RouteChange
<1>3. ops' \in 0 .. MaxOps
  BY <1>2, LimitAssumption DEF TypeOK, Asked
<1> QED BY <1>1, <1>2, <1>3 DEF TypeOK, CopyTypes

(* What an operation finds when it starts, and goes on with.               *)
LEMMA Wants ==
    ASSUME ManagerInv, Requested
    PROVE  /\ Up /\ cfg \in Config /\ Asked /\ mgr = Free /\ phase \in Working
           /\ mgr.op = "none"
BY DEF Requested, Asked, Working, ManagerInv, TypeOK, Up, Free

LEMMA GoesOn ==
    ASSUME ManagerInv, mgr.op \notin {"none", "reconcile"}
    PROVE  /\ mgr.id \in Listeners /\ mgr.old \in Binding /\ mgr.old # NoBinding
           /\ Up /\ cfg \in Config /\ phase \in Working /\ mgr # Free
           /\ cfg.listeners[mgr.id] \in Binding
<1>1. mgr.id \in Listeners /\ mgr.old # NoBinding /\ mgr.old \in Binding /\ mgr # Free
  BY DEF ManagerInv, Holding, ControlTypes, Free
<1>2. phase \in Working /\ phase # "down"
  BY <1>1 DEF ManagerInv, Phases, Working
<1>3. Up /\ cfg \in Config
  BY <1>2 DEF ManagerInv, Phases, TypeOK, Up
<1>4. cfg.listeners \in [Listeners -> Binding]
  BY <1>3 DEF Config
<1> QED BY <1>1, <1>2, <1>3, <1>4

(* A binding of the configuration.                                         *)
LEMMA BindingOf ==
    ASSUME TypeOK, Up, NEW l \in Listeners
    PROVE  cfg.listeners[l] \in Binding
<1>1. cfg \in Config
  BY DEF TypeOK, Up
<1>2. cfg.listeners \in [Listeners -> Binding]
  BY <1>1 DEF Config
<1> QED BY <1>2

LEMMA Record ==
    ASSUME NEW op \in Operation, NEW l \in Listeners, NEW b \in Binding
    PROVE  [op |-> op, id |-> l, old |-> b] \in [op : Operation, id : {None} \cup Listeners, old : Binding]
OBVIOUS

LEMMA FreeRecord ==
    /\ Free \in [op : Operation, id : {None} \cup Listeners, old : Binding]
    /\ [Free EXCEPT !.op = "reconcile"] \in [op : Operation, id : {None} \cup Listeners, old : Binding]
    /\ [Free EXCEPT !.op = "reconcile"].op = "reconcile"
    /\ [Free EXCEPT !.op = "reconcile"] # Free
BY DEF Free, Operation, Binding

LEMMA StepRecord ==
    ASSUME ControlTypes, NEW op \in Operation, Step(op)
    PROVE  /\ mgr' \in [op : Operation, id : {None} \cup Listeners, old : Binding]
           /\ mgr'.op = op /\ mgr'.id = mgr.id /\ mgr'.old = mgr.old
BY DEF ControlTypes, Step

LEMMA FaultTypes ==
    ASSUME ControlTypes, NEW l \in Listeners, NEW v \in {"none", "reported", "answered"}, Fault(l, v)
    PROVE  /\ fault' \in [Listeners -> {"none", "reported", "answered"}]
           /\ fault'[l] = v /\ \A k \in Listeners : k # l => fault'[k] = fault[k]
BY DEF ControlTypes, Fault

(* The map and the sockets as they were.                                   *)
LEMMA SameServers ==
    ASSUME Servers, UNCHANGED serverVars
    PROVE  Servers' /\ \A l \in Listeners : Running(l)' <=> Running(l)
BY DEF Servers, ServerTypes, Generations, serverVars, Running, NoRuntime

(* A change of a binding that leaves the servers alone.                    *)
LEMMA Rebound ==
    ASSUME ManagerInv, Up, NEW l \in Listeners, NEW b \in Binding, NEW out \in Outcome,
           Bind(l, b, out), UNCHANGED serverVars, ops' = ops \/ Asked,
           \A k \in Listeners : k # l => fault'[k] = fault[k]
    PROVE  /\ TypeOK' /\ Servers' /\ Up'
           /\ \A k \in Listeners : k # l => Alone(k)
           /\ \A k \in Listeners : Running(k)' <=> Running(k)
           /\ cfg'.listeners[l] = IF out = "not_committed" THEN cfg.listeners[l] ELSE b
<1>1. TypeOK' /\ Servers' /\ \A k \in Listeners : Running(k)' <=> Running(k)
  BY BindTypes, SameServers DEF ManagerInv
<1>2. /\ Up' /\ cfg'.listeners[l] = IF out = "not_committed" THEN cfg.listeners[l] ELSE b
      /\ \A k \in Listeners : k # l => cfg'.listeners[k] = cfg.listeners[k]
  BY BindEffect DEF ManagerInv
<1> QED BY <1>1, <1>2 DEF Alone, serverVars

(* A listener without a server has no socket and serves no binding.        *)
LEMMA NotServing ==
    ASSUME Servers', NEW l \in Listeners, ~Running(l)'
    PROVE  /\ Sited(l)' /\ \A x \in live' : x.id # l
           /\ \A b : (b # NoBinding => ~b.enabled) => Served(l, runtime'[l], live', b)
<1>1. ASSUME NEW x \in live' PROVE x.id # l
  <2>1. runtime'[l].gen = 0 /\ runtime'[x.id].gen = x.gen /\ x.gen # 0
    BY DEF Servers, Generations, ServerTypes, Running, NoRuntime
  <2> QED BY <2>1
<1>2. runtime'[l] = NoRuntime
  BY DEF Running, NoRuntime
<1> QED BY <1>1, <1>2 DEF Sited, Served

LEMMA AddKeeps ==
    ASSUME ManagerInv, NEW l \in Listeners, NEW b \in Bindings, NEW out \in Outcome, Add(l, b, out)
    PROVE  ManagerInv'
<1>1. /\ Up /\ cfg \in Config /\ Asked /\ mgr = Free /\ phase \in Working
  BY Wants DEF Add
<1>2. b \in Binding /\ b # NoBinding
  BY AcceptedBinding DEF Add
<1>3. /\ Bind(l, b, out) /\ UNCHANGED <<phase, serverVars, events, fault>>
      /\ cfg.listeners[l] = NoBinding
      /\ \/ out = "uncertain" /\ mgr' = [Free EXCEPT !.op = "reconcile"]
         \/ /\ out = "ok" /\ started /\ b.enabled
            /\ mgr' = [op |-> "add_start", id |-> l, old |-> b]
         \/ mgr' = Free /\ (out = "ok" => ~(started /\ b.enabled)) /\ out # "uncertain"
  BY DEF Add, Outcome
<1>4. /\ TypeOK' /\ Servers' /\ Up' /\ \A k \in Listeners : k # l => Alone(k)
      /\ \A k \in Listeners : Running(k)' <=> Running(k)
      /\ cfg'.listeners[l] = IF out = "not_committed" THEN cfg.listeners[l] ELSE b
  BY <1>1, <1>2, <1>3, Rebound
<1>5. ~Running(l)'
  BY <1>3, <1>4 DEF ManagerInv, Siting, Sited
<1>6. Sited(l)' /\ \A v : (v # NoBinding => ~v.enabled) => Served(l, runtime'[l], live', v)
  BY <1>4, <1>5, NotServing
<1>7. ControlTypes'
  <2>1. mgr' \in [op : Operation, id : {None} \cup Listeners, old : Binding]
    BY <1>2, <1>3, FreeRecord, Record DEF Operation
  <2> QED BY <1>3, <2>1 DEF ManagerInv, ControlTypes
<1>8. Phases' /\ Siting' /\ Matching'
  <2>1. CASE mgr' = [Free EXCEPT !.op = "reconcile"]
    BY <1>1, <1>3, <1>4, <1>5, <1>6, <2>1, FreeRecord, OneListener DEF ManagerInv
  <2>2. CASE mgr' = [op |-> "add_start", id |-> l, old |-> b]
    <3>1. mgr'.id = l /\ mgr'.op = "add_start"
      BY <2>2
    <3> QED BY <1>1, <1>3, <1>4, <1>5, <1>6, <3>1, OneListener DEF ManagerInv
  <2>3. CASE mgr' = Free /\ (out = "ok" => ~(started /\ b.enabled)) /\ out # "uncertain"
    <3>1. started => Matches(l)'
      BY <1>3, <1>4, <1>6, <2>3 DEF Matches, Outcome
    <3> QED BY <1>1, <1>3, <1>4, <1>5, <1>6, <2>3, <3>1, OneListener DEF ManagerInv
  <2> QED BY <1>3, <2>1, <2>2, <2>3
<1>9. Holding'
  <2>1. CASE mgr' = [Free EXCEPT !.op = "reconcile"]
    BY <2>1, FreeRecord DEF Holding
  <2>2. CASE out = "ok" /\ started /\ b.enabled /\ mgr' = [op |-> "add_start", id |-> l, old |-> b]
    <3>1. mgr'.op = "add_start" /\ mgr'.id = l /\ mgr'.old = b
      BY <2>2
    <3>2. started'
      BY <1>3, <2>2 DEF started
    <3> QED BY <1>2, <1>4, <1>5, <2>2, <3>1, <3>2 DEF Holding
  <2>3. CASE mgr' = Free
    BY <2>3 DEF Holding, Free
  <2> QED BY <1>3, <2>1, <2>2, <2>3
<1> QED BY <1>4, <1>7, <1>8, <1>9 DEF ManagerInv

(* An operation ends with a started server ...                             *)
LEMMA StartKeeps ==
    ASSUME ManagerInv, mgr.op \notin {"none", "reconcile"}, NEW b \in Binding,
           b # NoBinding, b.enabled, started, ~Running(mgr.id),
           startLocked(mgr.id, b), UNCHANGED <<storeVars, phase, events>>, Release,
           Fault(mgr.id, "none") \/ UNCHANGED fault,
           fault'[mgr.id] = "none" => b = cfg.listeners[mgr.id],
           cfg.listeners[mgr.id] # NoBinding
    PROVE  ManagerInv'
<1>0. PICK l : l = mgr.id
  OBVIOUS
<1>1. l \in Listeners /\ Up /\ phase \in Working
  BY <1>0, GoesOn
<1>2. /\ Servers' /\ Aside(l) /\ Running(l)' /\ runtime'[l].binding = b
      /\ \A x \in live' : x.id = l => x.port = b.port
  BY <1>0, <1>1, Started DEF ManagerInv
<1>3. cfg' = cfg /\ TypeOK' /\ Up'
  BY <1>1, StoreSame DEF ManagerInv, storeVars, Up
<1>4. /\ fault' \in [Listeners -> {"none", "reported", "answered"}]
      /\ \A k \in Listeners : k # l => fault'[k] = fault[k]
  BY <1>0, <1>1, FaultTypes DEF ManagerInv, ControlTypes
<1>5. \A k \in Listeners : k # l => Alone(k)
  BY <1>2, <1>3, <1>4 DEF Alone, Aside
<1>6. Sited(l)' /\ Matches(l)'
  BY <1>0, <1>2, <1>3 DEF Sited, Matches, Served
<1>7. mgr' = Free
  BY DEF Release
<1>8. Phases' /\ Siting' /\ Matching'
  BY <1>0, <1>1, <1>3, <1>5, <1>6, <1>7, OneListener DEF ManagerInv
<1>9. Holding'
  BY <1>7 DEF Holding, Free
<1>10. ControlTypes'
  BY <1>4, <1>7, FreeRecord DEF ManagerInv, ControlTypes
<1> QED BY <1>2, <1>3, <1>8, <1>9, <1>10 DEF ManagerInv

(* ... or the port could not be had, and either the rollback goes on or a  *)
(* failure is reported.                                                    *)
LEMMA RefusedKeeps ==
    ASSUME ManagerInv, mgr.op \notin {"none", "reconcile"}, ~Running(mgr.id), started,
           UNCHANGED <<storeVars, phase, serverVars, events>>,
           \/ Release /\ Fault(mgr.id, "reported")
           \/ mgr.op = "add_start" /\ Step("add_undo") /\ UNCHANGED fault
           \/ mgr.op = "update_start" /\ Step("update_restore") /\ UNCHANGED fault
    PROVE  ManagerInv'
<1>0. PICK l : l = mgr.id
  OBVIOUS
<1>1. l \in Listeners /\ Up /\ phase \in Working
  BY <1>0, GoesOn
<1>2. Servers' /\ ~Running(l)'
  BY <1>0, <1>1, SameServers DEF ManagerInv
<1>3. cfg' = cfg /\ TypeOK' /\ Up'
  BY <1>1, StoreSame DEF ManagerInv, storeVars, Up
<1>4. /\ fault' \in [Listeners -> {"none", "reported", "answered"}]
      /\ \A k \in Listeners : k # l => fault'[k] = fault[k]
  BY <1>0, <1>1, FaultTypes DEF ManagerInv, ControlTypes
<1>5. \A k \in Listeners : k # l => Alone(k)
  BY <1>2, <1>3, <1>4 DEF Alone, serverVars
<1>6. Sited(l)'
  BY <1>1, <1>2, NotServing
<1>t. ControlTypes
  BY DEF ManagerInv
<1>7. CASE Release /\ Fault(l, "reported")
  <2>1. mgr' = Free /\ fault'[l] = "reported"
    BY <1>1, <1>7, <1>t, FaultTypes DEF Release
  <2>2. Phases' /\ Siting' /\ Matching'
    BY <1>0, <1>1, <1>2, <1>3, <1>5, <1>6, <2>1, OneListener DEF ManagerInv, Matches
  <2>3. Holding'
    BY <2>1 DEF Holding, Free
  <2>4. ControlTypes'
    BY <1>4, <2>1, FreeRecord DEF ManagerInv, ControlTypes
  <2> QED BY <1>2, <1>3, <2>2, <2>3, <2>4 DEF ManagerInv
<1>8. CASE mgr.op = "add_start" /\ Step("add_undo") /\ UNCHANGED fault
  <2>1. /\ mgr' \in [op : Operation, id : {None} \cup Listeners, old : Binding]
        /\ mgr'.op = "add_undo" /\ mgr'.id = l /\ mgr'.old = mgr.old
    BY <1>0, <1>8, <1>t, StepRecord DEF Operation
  <2>2. Phases' /\ Siting' /\ Matching'
    BY <1>0, <1>1, <1>2, <1>3, <1>5, <1>6, <2>1, OneListener DEF ManagerInv
  <2>3. Holding'
    BY <1>0, <1>1, <1>2, <1>3, <1>8, <2>1 DEF ManagerInv, Holding, started
  <2>4. ControlTypes'
    BY <1>4, <2>1 DEF ManagerInv, ControlTypes
  <2> QED BY <1>2, <1>3, <2>2, <2>3, <2>4 DEF ManagerInv
<1>9. CASE mgr.op = "update_start" /\ Step("update_restore") /\ UNCHANGED fault
  <2>1. /\ mgr' \in [op : Operation, id : {None} \cup Listeners, old : Binding]
        /\ mgr'.op = "update_restore" /\ mgr'.id = l /\ mgr'.old = mgr.old
    BY <1>0, <1>9, <1>t, StepRecord DEF Operation
  <2>2. Phases' /\ Siting' /\ Matching'
    BY <1>0, <1>1, <1>2, <1>3, <1>5, <1>6, <2>1, OneListener DEF ManagerInv
  <2>3. Holding'
    BY <1>0, <1>1, <1>2, <1>3, <1>9, <2>1 DEF ManagerInv, Holding, started
  <2>4. ControlTypes'
    BY <1>4, <2>1 DEF ManagerInv, ControlTypes
  <2> QED BY <1>2, <1>3, <2>2, <2>3, <2>4 DEF ManagerInv
<1> QED BY <1>0, <1>7, <1>8, <1>9

LEMMA StartingKeeps ==
    ASSUME ManagerInv, AddStart \/ UpdateStart \/ UpdateRestart \/ DeleteRestart
    PROVE  ManagerInv'
<1>1. mgr.op \in {"add_start", "update_start", "update_restart", "delete_restart"}
  BY DEF AddStart, UpdateStart, UpdateRestart, DeleteRestart
<1>2. /\ mgr.id \in Listeners /\ mgr.old \in Binding /\ mgr.old # NoBinding
      /\ cfg.listeners[mgr.id] \in Binding
  BY <1>1, GoesOn
<1>3. started /\ ~Running(mgr.id) /\ cfg.listeners[mgr.id] # NoBinding
  BY <1>1, <1>2 DEF ManagerInv, Holding
<1>4. CASE AddStart
  <2>1. mgr.op = "add_start" /\ mgr.old.enabled /\ cfg.listeners[mgr.id] = mgr.old
    BY <1>4 DEF AddStart, ManagerInv, Holding
  <2> QED BY <1>1, <1>2, <1>3, <1>4, <2>1, StartKeeps, RefusedKeeps DEF AddStart
<1>5. CASE UpdateStart
  <2>1. mgr.op = "update_start" /\ cfg.listeners[mgr.id].enabled
    BY <1>5 DEF UpdateStart, ManagerInv, Holding
  <2> QED BY <1>1, <1>2, <1>3, <1>5, <2>1, StartKeeps, RefusedKeeps DEF UpdateStart
<1>6. CASE UpdateRestart
  <2>1. mgr.op = "update_restart" /\ mgr.old.enabled
        /\ (fault[mgr.id] = "none" => cfg.listeners[mgr.id] = mgr.old)
    BY <1>6 DEF UpdateRestart, ManagerInv, Holding
  <2> QED BY <1>1, <1>2, <1>3, <1>6, <2>1, StartKeeps, RefusedKeeps DEF UpdateRestart
<1>7. CASE DeleteRestart
  <2>1. mgr.op = "delete_restart" /\ mgr.old.enabled /\ cfg.listeners[mgr.id] = mgr.old
    BY <1>7 DEF DeleteRestart, ManagerInv, Holding
  <2> QED BY <1>1, <1>2, <1>3, <1>7, <2>1, StartKeeps, RefusedKeeps DEF DeleteRestart
<1> QED BY <1>4, <1>5, <1>6, <1>7

LEMMA AddUndoKeeps ==
    ASSUME ManagerInv, NEW out \in Outcome, AddUndo(out)
    PROVE  ManagerInv'
<1>0. PICK l : l = mgr.id
  OBVIOUS
<1>1. mgr.op = "add_undo" /\ Bind(l, NoBinding, out) /\ UNCHANGED <<ops, phase, serverVars, events>>
      /\ mgr' = Free
      /\ Fault(l, IF out = "not_committed" THEN "reported" ELSE fault[l])
  BY <1>0 DEF AddUndo, Release
<1>2. l \in Listeners /\ Up /\ phase \in Working /\ ~Running(l)
  BY <1>0, <1>1, GoesOn DEF ManagerInv, Holding
<1>3. /\ fault' \in [Listeners -> {"none", "reported", "answered"}]
      /\ fault'[l] = IF out = "not_committed" THEN "reported" ELSE fault[l]
      /\ \A k \in Listeners : k # l => fault'[k] = fault[k]
  <2> DEFINE v == IF out = "not_committed" THEN "reported" ELSE fault[l]
  <2>1. v \in {"none", "reported", "answered"}
    BY <1>2 DEF ManagerInv, ControlTypes
  <2> HIDE DEF v
  <2>2. Fault(l, v)
    BY <1>1 DEF v
  <2> QED BY <1>2, <2>1, <2>2, FaultTypes DEF ManagerInv, v
<1>4. NoBinding \in Binding
  BY DEF Binding
<1>5. /\ TypeOK' /\ Servers' /\ Up' /\ \A k \in Listeners : k # l => Alone(k)
      /\ \A k \in Listeners : Running(k)' <=> Running(k)
      /\ cfg'.listeners[l] = IF out = "not_committed" THEN cfg.listeners[l] ELSE NoBinding
  BY <1>1, <1>2, <1>3, <1>4, Rebound
<1>6. Sited(l)' /\ \A v : (v # NoBinding => ~v.enabled) => Served(l, runtime'[l], live', v)
  BY <1>2, <1>5, NotServing
<1>7. Matches(l)'
  BY <1>3, <1>5, <1>6 DEF Matches
<1>8. Phases' /\ Siting' /\ Matching'
  BY <1>0, <1>1, <1>2, <1>5, <1>6, <1>7, OneListener DEF ManagerInv
<1>9. Holding'
  BY <1>1 DEF Holding, Free
<1>10. ControlTypes'
  BY <1>1, <1>3, FreeRecord DEF ManagerInv, ControlTypes
<1> QED BY <1>5, <1>8, <1>9, <1>10 DEF ManagerInv

LEMMA UpdateKeeps ==
    ASSUME ManagerInv, NEW l \in Listeners, NEW b \in Bindings, NEW out \in Outcome, Update(l, b, out)
    PROVE  ManagerInv'
<1>1. /\ Up /\ cfg \in Config /\ Asked /\ mgr = Free /\ phase \in Working /\ mgr.op = "none"
  BY Wants DEF Update
<1>2. b \in Binding /\ b # NoBinding
  BY AcceptedBinding DEF Update
<1>o. PICK old : old = cfg.listeners[l]
  OBVIOUS
<1>3. /\ Bind(l, b, out) /\ UNCHANGED <<phase, serverVars, events, fault>>
      /\ old # NoBinding
      /\ \/ mgr' = [Free EXCEPT !.op = "reconcile"]
         \/ out = "ok" /\ mgr' = [op |-> "update", id |-> l, old |-> old]
         \/ out = "not_committed" /\ mgr' = Free
  BY <1>o DEF Update, Outcome
<1>4. /\ TypeOK' /\ Servers' /\ Up' /\ \A k \in Listeners : k # l => Alone(k)
      /\ \A k \in Listeners : Running(k)' <=> Running(k)
      /\ cfg'.listeners[l] = IF out = "not_committed" THEN cfg.listeners[l] ELSE b
  BY <1>1, <1>2, <1>3, Rebound
<1>5. runtime' = runtime /\ live' = live /\ fault' = fault
  BY <1>3 DEF serverVars
<1>6. Sited(l)' /\ (Running(l)' => started)
  <2>1. Sited(l)
    BY DEF ManagerInv, Siting
  <2>2. Running(l) => started
    BY DEF ManagerInv, Phases
  <2> QED BY <1>2, <1>3, <1>4, <1>5, <1>o, <2>1, <2>2 DEF Sited
<1>7. started /\ fault[l] = "none" => Served(l, runtime[l], live, old)
  <2>1. l # mgr.id
    BY <1>1, NoneAssumption DEF Free
  <2> QED BY <1>1, <1>o, <2>1 DEF ManagerInv, Matching, Matches
<1>8. old \in Binding
  BY <1>1, <1>o, BindingOf DEF ManagerInv
<1>9. CASE mgr' = [Free EXCEPT !.op = "reconcile"]
  <2>1. Phases' /\ Siting' /\ Matching'
    BY <1>1, <1>3, <1>4, <1>6, <1>9, FreeRecord, OneListener DEF ManagerInv
  <2>2. Holding'
    BY <1>9, FreeRecord DEF Holding
  <2>3. ControlTypes'
    BY <1>3, <1>9, FreeRecord DEF ManagerInv, ControlTypes
  <2> QED BY <1>4, <2>1, <2>2, <2>3 DEF ManagerInv
<1>10. CASE out = "ok" /\ mgr' = [op |-> "update", id |-> l, old |-> old]
  <2>1. mgr'.op = "update" /\ mgr'.id = l /\ mgr'.old = old
    BY <1>10
  <2>2. Phases' /\ Siting' /\ Matching'
    BY <1>1, <1>3, <1>4, <1>5, <1>6, <1>7, <2>1, OneListener DEF ManagerInv
  <2>3. Holding'
    BY <1>2, <1>3, <1>4, <1>10, <2>1 DEF Holding
  <2>4. ControlTypes'
    BY <1>3, <1>8, <1>10, Record DEF ManagerInv, ControlTypes, Operation
  <2> QED BY <1>4, <2>2, <2>3, <2>4 DEF ManagerInv
<1>11. CASE out = "not_committed" /\ mgr' = Free
  <2>1. started => Matches(l)'
    BY <1>4, <1>5, <1>7, <1>11, <1>o DEF Matches
  <2>2. Phases' /\ Siting' /\ Matching'
    BY <1>1, <1>3, <1>4, <1>6, <1>11, <2>1, OneListener DEF ManagerInv
  <2>3. Holding'
    BY <1>11 DEF Holding, Free
  <2>4. ControlTypes'
    BY <1>3, <1>11, FreeRecord DEF ManagerInv, ControlTypes
  <2> QED BY <1>4, <2>2, <2>3, <2>4 DEF ManagerInv
<1> QED BY <1>3, <1>9, <1>10, <1>11

(* A server that keeps its socket and changes its binding or its state.    *)
LEMMA Relabelled ==
    ASSUME Servers, NEW l \in Listeners, Running(l), NEW r \in Server,
           runtime' = [runtime EXCEPT ![l] = r], r.gen = runtime[l].gen,
           live' \subseteq live, stopped' \subseteq stopped, gen' = gen,
           ~r.listening => \A x \in live' : x.id # l
    PROVE  Servers' /\ Running(l)' /\ runtime'[l] = r
           /\ \A k \in Listeners : k # l => runtime'[k] = runtime[k]
<1>1. ServerTypes /\ Generations
  BY DEF Servers
<1>2. runtime' \in [Listeners -> {NoRuntime} \cup Server] /\ runtime'[l] = r
      /\ \A k \in Listeners : k # l => runtime'[k] = runtime[k]
  BY <1>1 DEF ServerTypes
<1>3. ServerTypes'
  BY <1>1, <1>2 DEF ServerTypes
<1>4. \A k \in Listeners : runtime'[k].gen = runtime[k].gen
  BY <1>2
<1>5. \A x \in live' : x.id \in Listeners
  BY <1>3 DEF ServerTypes
<1>6. \A k \in Listeners : Running(k)' /\ ~runtime'[k].listening => \A x \in live' : x.id # k
  <2> SUFFICES ASSUME NEW k \in Listeners, Running(k)', ~runtime'[k].listening
               PROVE  \A x \in live' : x.id # k
    OBVIOUS
  <2>1. CASE k = l
    BY <1>2, <2>1
  <2>2. CASE k # l
    <3>1. Running(k) /\ ~runtime[k].listening
      BY <1>2, <2>2 DEF Running, NoRuntime
    <3> QED BY <1>1, <3>1 DEF Generations
  <2> QED BY <2>1, <2>2
<1>7. Generations'
  BY <1>1, <1>4, <1>5, <1>6 DEF Generations
<1>8. Running(l)'
  BY <1>2 DEF Running, NoRuntime, Server
<1> QED BY <1>2, <1>3, <1>7, <1>8 DEF Servers

LEMMA UpdateRuntimeKeeps ==
    ASSUME ManagerInv, UpdateRuntime
    PROVE  ManagerInv'
<1>0. PICK l, new : l = mgr.id /\ new = cfg.listeners[mgr.id]
  OBVIOUS
<1>1. mgr.op = "update" /\ UNCHANGED <<storeVars, phase, events>>
  BY DEF UpdateRuntime
<1>2. l \in Listeners /\ Up /\ phase \in Working /\ new \in Binding
  BY <1>0, <1>1, GoesOn
<1>3. new # NoBinding /\ mgr.old # NoBinding
  BY <1>0, <1>1 DEF ManagerInv, Holding
<1>4. cfg' = cfg /\ TypeOK' /\ Up'
  BY <1>1, <1>2, StoreSame DEF ManagerInv, storeVars, Up
<1>t. ControlTypes /\ Servers
  BY DEF ManagerInv
<1>5. CASE /\ Running(l) /\ mgr.old.port = new.port /\ new.enabled
           /\ runtime' = [runtime EXCEPT ![l].binding = new]
           /\ Fault(l, IF fault[l] = "none" THEN "none" ELSE "answered")
           /\ Release /\ UNCHANGED <<live, stopped, gen>>
  <2> DEFINE r == [runtime[l] EXCEPT !.binding = new]
             v == IF fault[l] = "none" THEN "none" ELSE "answered"
  <2>1. runtime[l] \in Server
    BY <1>2, <1>5, <1>t, ServerFields DEF Servers, Running
  <2>2. r \in Server /\ r.gen = runtime[l].gen /\ r.binding = new
        /\ (r.listening <=> runtime[l].listening)
    <3>1. r \in Server /\ r.gen = runtime[l].gen /\ r.binding = new
      BY <1>2, <1>3, <2>1 DEF Server
    <3>2. r.listening = runtime[l].listening
      BY <2>1 DEF Server
    <3> QED BY <3>1, <3>2
  <2>3. ~r.listening => \A x \in live' : x.id # l
    BY <1>2, <1>5, <1>t, <2>2 DEF Servers, Generations
  <2>4. runtime' = [runtime EXCEPT ![l] = r]
    BY <1>5
  <2> HIDE DEF r
  <2>5. Servers' /\ Running(l)' /\ runtime'[l] = r
        /\ \A k \in Listeners : k # l => runtime'[k] = runtime[k]
    BY <1>2, <1>5, <1>t, <2>2, <2>3, <2>4, Relabelled
  <2>6. /\ fault' \in [Listeners -> {"none", "reported", "answered"}]
        /\ fault'[l] = v /\ \A k \in Listeners : k # l => fault'[k] = fault[k]
    BY <1>2, <1>5, <1>t, FaultTypes
  <2>7. \A k \in Listeners : k # l => Alone(k)
    BY <1>4, <1>5, <2>5, <2>6 DEF Alone
  <2>8. started
    BY <1>2, <1>5 DEF ManagerInv, Phases
  <2>9. fault[l] = "none" => \A x \in live' : x.id = l => x.port = new.port
    <3>1. fault[l] = "none" => Served(l, runtime[l], live, mgr.old)
      BY <1>0, <1>1, <2>8 DEF ManagerInv, Matching
    <3> QED BY <1>5, <3>1 DEF Served, Running
  <2>10. Sited(l)' /\ Matches(l)'
    BY <1>0, <1>3, <1>4, <1>5, <2>2, <2>5, <2>6, <2>9 DEF Sited, Matches, Served
  <2>11. mgr' = Free
    BY <1>5 DEF Release
  <2>12. Phases' /\ Siting' /\ Matching'
    BY <1>0, <1>1, <1>2, <1>4, <2>7, <2>8, <2>10, <2>11, OneListener DEF ManagerInv
  <2>13. Holding'
    BY <2>11 DEF Holding, Free
  <2>14. ControlTypes'
    BY <1>1, <1>t, <2>6, <2>11, FreeRecord DEF ControlTypes
  <2> QED BY <1>4, <2>5, <2>12, <2>13, <2>14 DEF ManagerInv
<1>6. CASE /\ stopListenerLocked({l}) /\ Fault(l, "none")
           /\ IF started /\ new.enabled THEN Step("update_start") ELSE Release
  <2>1. /\ Servers' /\ ~Running(l)' /\ \A k \in Listeners : k # l => runtime'[k] = runtime[k]
        /\ \A x \in live' : x \in live /\ x.id # l
    BY <1>2, <1>6, <1>t, Stopped
  <2>2. /\ fault' \in [Listeners -> {"none", "reported", "answered"}]
        /\ fault'[l] = "none" /\ \A k \in Listeners : k # l => fault'[k] = fault[k]
    BY <1>2, <1>6, <1>t, FaultTypes
  <2>3. \A k \in Listeners : k # l => Alone(k)
    BY <1>4, <2>1, <2>2 DEF Alone
  <2>4. Sited(l)' /\ \A v : (v # NoBinding => ~v.enabled) => Served(l, runtime'[l], live', v)
    BY <1>2, <2>1, NotServing
  <2>5. CASE started /\ new.enabled /\ Step("update_start")
    <3>1. /\ mgr' \in [op : Operation, id : {None} \cup Listeners, old : Binding]
          /\ mgr'.op = "update_start" /\ mgr'.id = l /\ mgr'.old = mgr.old
      BY <1>0, <1>t, <2>5, StepRecord DEF Operation
    <3>2. Phases' /\ Siting' /\ Matching'
      BY <1>0, <1>1, <1>2, <1>4, <2>1, <2>3, <2>4, <3>1, OneListener DEF ManagerInv
    <3>3. Holding'
      BY <1>0, <1>1, <1>2, <1>3, <1>4, <2>1, <2>2, <2>5, <3>1 DEF Holding, started
    <3>4. ControlTypes'
      BY <1>1, <1>t, <2>2, <3>1 DEF ControlTypes
    <3> QED BY <1>4, <2>1, <3>2, <3>3, <3>4 DEF ManagerInv
  <2>6. CASE ~(started /\ new.enabled) /\ Release
    <3>1. mgr' = Free
      BY <2>6 DEF Release
    <3>2. started => Matches(l)'
      BY <1>0, <1>4, <2>4, <2>6 DEF Matches
    <3>3. Phases' /\ Siting' /\ Matching'
      BY <1>0, <1>1, <1>2, <1>4, <2>1, <2>3, <2>4, <3>1, <3>2, OneListener DEF ManagerInv
    <3>4. Holding'
      BY <3>1 DEF Holding, Free
    <3>5. ControlTypes'
      BY <1>1, <1>t, <2>2, <3>1, FreeRecord DEF ControlTypes
    <3> QED BY <1>4, <2>1, <3>3, <3>4, <3>5 DEF ManagerInv
  <2> QED BY <1>6, <2>5, <2>6
<1> QED BY <1>0, <1>5, <1>6 DEF UpdateRuntime

LEMMA UpdateRestoreKeeps ==
    ASSUME ManagerInv, NEW out \in Outcome, UpdateRestore(out)
    PROVE  ManagerInv'
<1>0. PICK l, old : l = mgr.id /\ old = mgr.old
  OBVIOUS
<1> DEFINE accepted == validateListenerBinding(old, cfg)
           v == IF accepted /\ out # "not_committed" THEN fault[l] ELSE "reported"
<1>1. /\ mgr.op = "update_restore"
      /\ \/ accepted /\ Bind(l, old, out)
         \/ ~accepted /\ UNCHANGED <<cfg, disk, handler, applied, told, crashes>>
      /\ Fault(l, v) /\ UNCHANGED <<ops, phase, serverVars, events>>
      /\ IF old.enabled THEN Step("update_restart") ELSE Release
  BY <1>0 DEF UpdateRestore
<1>2. l \in Listeners /\ Up /\ phase \in Working /\ old \in Binding /\ old # NoBinding
  BY <1>0, <1>1, GoesOn
<1>3. /\ ~Running(l) /\ started /\ cfg.listeners[l] # NoBinding /\ fault[l] = "none"
  BY <1>0, <1>1 DEF ManagerInv, Holding
<1>t. ControlTypes /\ Servers
  BY DEF ManagerInv
<1>4. /\ fault' \in [Listeners -> {"none", "reported", "answered"}]
      /\ fault'[l] = v /\ \A k \in Listeners : k # l => fault'[k] = fault[k]
  <2>1. v \in {"none", "reported", "answered"}
    BY <1>3
  <2> HIDE DEF v
  <2> QED BY <1>1, <1>2, <1>t, <2>1, FaultTypes
<1>5. /\ TypeOK' /\ Servers' /\ Up' /\ \A k \in Listeners : k # l => Alone(k)
      /\ ~Running(l)' /\ cfg'.listeners[l] # NoBinding
      /\ fault'[l] = "none" => cfg'.listeners[l] = old
  <2>1. CASE accepted /\ Bind(l, old, out)
    <3>1. /\ TypeOK' /\ Servers' /\ Up' /\ \A k \in Listeners : k # l => Alone(k)
          /\ \A k \in Listeners : Running(k)' <=> Running(k)
          /\ cfg'.listeners[l] = IF out = "not_committed" THEN cfg.listeners[l] ELSE old
      BY <1>1, <1>2, <1>4, <2>1, Rebound
    <3> QED BY <1>2, <1>3, <1>4, <3>1
  <2>2. CASE ~accepted /\ UNCHANGED <<cfg, disk, handler, applied, told, crashes>>
    <3>1. TypeOK' /\ cfg' = cfg
      BY <1>1, <2>2, StoreSame DEF ManagerInv
    <3>2. Servers' /\ ~Running(l)'
      BY <1>1, <1>2, <1>3, <1>t, SameServers
    <3>3. \A k \in Listeners : k # l => Alone(k)
      BY <1>1, <1>4, <3>1 DEF Alone, serverVars
    <3> QED BY <1>2, <1>3, <1>4, <2>2, <3>1, <3>2, <3>3 DEF Up
  <2> QED BY <1>1, <2>1, <2>2
<1> HIDE DEF accepted, v
<1>6. Sited(l)' /\ \A w : (w # NoBinding => ~w.enabled) => Served(l, runtime'[l], live', w)
  BY <1>2, <1>5, NotServing
<1>7. CASE old.enabled /\ Step("update_restart")
  <2>1. /\ mgr' \in [op : Operation, id : {None} \cup Listeners, old : Binding]
        /\ mgr'.op = "update_restart" /\ mgr'.id = l /\ mgr'.old = old
    BY <1>0, <1>t, <1>7, StepRecord DEF Operation
  <2>2. Phases' /\ Siting' /\ Matching'
    BY <1>0, <1>1, <1>2, <1>5, <1>6, <2>1, OneListener DEF ManagerInv
  <2>3. Holding'
    BY <1>1, <1>2, <1>3, <1>5, <1>7, <2>1 DEF Holding, started
  <2>4. ControlTypes'
    BY <1>1, <1>t, <1>4, <2>1 DEF ControlTypes
  <2> QED BY <1>5, <2>2, <2>3, <2>4 DEF ManagerInv
<1>8. CASE ~old.enabled /\ Release
  <2>1. mgr' = Free
    BY <1>8 DEF Release
  <2>2. Matches(l)'
    BY <1>5, <1>6, <1>8 DEF Matches
  <2>3. Phases' /\ Siting' /\ Matching'
    BY <1>0, <1>1, <1>2, <1>5, <1>6, <2>1, <2>2, OneListener DEF ManagerInv
  <2>4. Holding'
    BY <2>1 DEF Holding, Free
  <2>5. ControlTypes'
    BY <1>1, <1>t, <1>4, <2>1, FreeRecord DEF ControlTypes
  <2> QED BY <1>5, <2>3, <2>4, <2>5 DEF ManagerInv
<1> QED BY <1>1, <1>7, <1>8

LEMMA DeleteKeeps ==
    ASSUME ManagerInv, NEW l \in Listeners, Delete(l)
    PROVE  ManagerInv'
<1>1. /\ Up /\ cfg \in Config /\ Asked /\ mgr = Free /\ phase \in Working
  BY Wants DEF Delete
<1>o. PICK old : old = cfg.listeners[l]
  OBVIOUS
<1>2. /\ old # NoBinding /\ stopListenerLocked({l}) /\ Fault(l, "none")
      /\ mgr' = [op |-> "delete", id |-> l, old |-> old]
      /\ UNCHANGED <<cfg, disk, handler, applied, told, crashes, phase, events>>
  BY <1>o DEF Delete
<1>t. ControlTypes /\ Servers
  BY DEF ManagerInv
<1>3. TypeOK' /\ Up' /\ old \in Binding
  BY <1>1, <1>2, <1>o, StoreSame, BindingOf DEF ManagerInv, Up
<1>4. /\ Servers' /\ ~Running(l)' /\ \A k \in Listeners : k # l => runtime'[k] = runtime[k]
      /\ \A x \in live' : x \in live /\ x.id # l
  BY <1>2, <1>t, Stopped
<1>5. /\ fault' \in [Listeners -> {"none", "reported", "answered"}]
      /\ fault'[l] = "none" /\ \A k \in Listeners : k # l => fault'[k] = fault[k]
  BY <1>2, <1>t, FaultTypes
<1>6. \A k \in Listeners : k # l => Alone(k)
  BY <1>2, <1>4, <1>5 DEF Alone
<1>7. Sited(l)'
  BY <1>4, NotServing
<1>8. mgr'.op = "delete" /\ mgr'.id = l /\ mgr'.old = old
  BY <1>2
<1>9. Phases' /\ Siting' /\ Matching'
  BY <1>1, <1>2, <1>3, <1>4, <1>6, <1>7, <1>8, OneListener DEF ManagerInv
<1>10. Holding'
  BY <1>2, <1>4, <1>5, <1>8, <1>o DEF Holding
<1>11. ControlTypes'
  BY <1>2, <1>3, <1>5, <1>t, Record DEF ControlTypes, Operation
<1> QED BY <1>3, <1>4, <1>9, <1>10, <1>11 DEF ManagerInv

LEMMA DeleteSaveKeeps ==
    ASSUME ManagerInv, NEW out \in Outcome, DeleteSave(out)
    PROVE  ManagerInv'
<1>0. PICK l, old : l = mgr.id /\ old = mgr.old
  OBVIOUS
<1>1. /\ mgr.op = "delete" /\ Bind(l, NoBinding, out)
      /\ UNCHANGED <<ops, phase, serverVars, events, fault>>
      /\ \/ Step("reconcile")
         \/ out = "not_committed" /\ started /\ old.enabled /\ Step("delete_restart")
         \/ (out = "not_committed" => ~(started /\ old.enabled)) /\ Release
  BY <1>0 DEF DeleteSave
<1>2. l \in Listeners /\ Up /\ phase \in Working /\ old # NoBinding
  BY <1>0, <1>1, GoesOn
<1>3. ~Running(l) /\ cfg.listeners[l] = old
  BY <1>0, <1>1 DEF ManagerInv, Holding
<1>4. NoBinding \in Binding
  BY DEF Binding
<1>5. /\ TypeOK' /\ Servers' /\ Up' /\ \A k \in Listeners : k # l => Alone(k)
      /\ \A k \in Listeners : Running(k)' <=> Running(k)
      /\ cfg'.listeners[l] = IF out = "not_committed" THEN cfg.listeners[l] ELSE NoBinding
  BY <1>1, <1>2, <1>4, Rebound
<1>6. Sited(l)' /\ \A w : (w # NoBinding => ~w.enabled) => Served(l, runtime'[l], live', w)
  BY <1>2, <1>3, <1>5, NotServing
<1>t. ControlTypes
  BY DEF ManagerInv
<1>7. CASE Step("reconcile")
  <2>1. /\ mgr' \in [op : Operation, id : {None} \cup Listeners, old : Binding]
        /\ mgr'.op = "reconcile"
    BY <1>t, <1>7, StepRecord DEF Operation
  <2>2. Phases' /\ Siting' /\ Matching'
    BY <1>0, <1>1, <1>2, <1>3, <1>5, <1>6, <2>1, OneListener DEF ManagerInv
  <2>3. Holding'
    BY <2>1 DEF Holding
  <2>4. ControlTypes'
    BY <1>1, <1>t, <2>1 DEF ControlTypes
  <2> QED BY <1>5, <2>2, <2>3, <2>4 DEF ManagerInv
<1>8. CASE out = "not_committed" /\ started /\ old.enabled /\ Step("delete_restart")
  <2>1. /\ mgr' \in [op : Operation, id : {None} \cup Listeners, old : Binding]
        /\ mgr'.op = "delete_restart" /\ mgr'.id = l /\ mgr'.old = old
    BY <1>0, <1>t, <1>8, StepRecord DEF Operation
  <2>2. Phases' /\ Siting' /\ Matching'
    BY <1>0, <1>1, <1>2, <1>3, <1>5, <1>6, <2>1, OneListener DEF ManagerInv
  <2>3. Holding'
    BY <1>1, <1>2, <1>3, <1>5, <1>8, <2>1 DEF Holding, started
  <2>4. ControlTypes'
    BY <1>1, <1>t, <2>1 DEF ControlTypes
  <2> QED BY <1>5, <2>2, <2>3, <2>4 DEF ManagerInv
<1>9. CASE (out = "not_committed" => ~(started /\ old.enabled)) /\ Release
  <2>1. mgr' = Free
    BY <1>9 DEF Release
  <2>2. started => Matches(l)'
    BY <1>3, <1>5, <1>6, <1>9 DEF Matches
  <2>3. Phases' /\ Siting' /\ Matching'
    BY <1>0, <1>1, <1>2, <1>3, <1>5, <1>6, <2>1, <2>2, OneListener DEF ManagerInv
  <2>4. Holding'
    BY <2>1 DEF Holding, Free
  <2>5. ControlTypes'
    BY <1>1, <1>t, <2>1, FreeRecord DEF ControlTypes
  <2> QED BY <1>5, <2>3, <2>4, <2>5 DEF ManagerInv
<1> QED BY <1>1, <1>7, <1>8, <1>9

-----------------------------------------------------------------------------
(* The steps that concern every listener.  The reconciliation, and the     *)
(* start of the process: ls are started, kept go on, the others stop.      *)
LEMMA Refit ==
    ASSUME Servers, TypeOK, Up, NEW ls \in SUBSET Listeners, NEW kept \in SUBSET Listeners,
           NEW down \in SUBSET Listeners, ls \cap kept = {},
           \A l \in kept : Running(l), \A l \in Listeners : Running(l) <=> l \in kept \cup down,
           kept \cap down = {}, \A l \in ls \cup kept : cfg.listeners[l] # NoBinding,
           Serve(ls, cfg.listeners, down),
           runtime' = [l \in Listeners |->
             IF l \in ls THEN [gen |-> gen[l] + 1, binding |-> cfg.listeners[l], listening |-> TRUE]
             ELSE IF l \in kept THEN [runtime[l] EXCEPT !.binding = cfg.listeners[l]]
             ELSE NoRuntime]
    PROVE  /\ Servers'
           /\ \A l \in ls \cup kept : Running(l)' /\ runtime'[l].binding = cfg.listeners[l]
           /\ \A l \in Listeners \ (ls \cup kept) : ~Running(l)'
           /\ \A x \in live' : /\ x.id \in ls => x.port = cfg.listeners[x.id].port
                               /\ x.id \notin ls => x \in live
<1> DEFINE new(l) == [gen |-> gen[l] + 1, binding |-> cfg.listeners[l], listening |-> TRUE]
           same(l) == [runtime[l] EXCEPT !.binding = cfg.listeners[l]]
<1>1. \A l \in Listeners : cfg.listeners[l] \in Binding /\ gen[l] \in Nat
  BY BindingOf, ServerFields DEF Servers
<1>2. \A l \in ls \cup kept : cfg.listeners[l].port \in Ports
  BY <1>1 DEF Binding
<1>3. ASSUME NEW l \in ls PROVE new(l) \in Server /\ new(l).binding = cfg.listeners[l]
  BY <1>1, <1>3 DEF Server
<1>4. ASSUME NEW l \in kept
      PROVE  /\ same(l) \in Server /\ same(l).binding = cfg.listeners[l]
             /\ same(l).gen = runtime[l].gen /\ same(l).listening = runtime[l].listening
  <2>1. runtime[l] \in Server
    BY <1>4, ServerFields DEF Servers, Running
  <2>2. cfg.listeners[l] \in Binding \ {NoBinding}
    BY <1>1, <1>4
  <2> QED BY <2>1, <2>2 DEF Server
<1>5. NoRuntime \notin Server
  BY DEF NoRuntime, Server
<1>6. \A l \in Listeners : runtime'[l] = IF l \in ls THEN new(l) ELSE IF l \in kept THEN same(l)
                                         ELSE NoRuntime
  OBVIOUS
<1>7. DOMAIN runtime' = Listeners /\ runtime' = [l \in Listeners |-> runtime'[l]]
  OBVIOUS
<1> HIDE DEF new, same
<1>8. runtime' \in [Listeners -> {NoRuntime} \cup Server]
  <2>1. \A l \in Listeners : runtime'[l] \in {NoRuntime} \cup Server
    BY <1>3, <1>4, <1>6
  <2> QED BY <1>7, <2>1
<1>9. Remapped(ls, cfg.listeners, down)
  <2>1. \A l \in ls : runtime'[l] = [gen |-> gen[l] + 1, binding |-> cfg.listeners[l], listening |-> TRUE]
    BY <1>6 DEF new
  <2>2. \A l \in down \ ls : runtime'[l] = NoRuntime
    BY <1>6
  <2>3. ASSUME NEW l \in Listeners \ (ls \cup down)
        PROVE  /\ runtime'[l].gen = runtime[l].gen
               /\ runtime'[l].listening = runtime[l].listening
               /\ Running(l) <=> runtime'[l] # NoRuntime
    <3>1. CASE l \in kept
      <4>1. runtime'[l] = same(l)
        BY <1>6, <2>3, <3>1
      <4>2. runtime'[l].gen = runtime[l].gen /\ runtime'[l].listening = runtime[l].listening
        BY <1>4, <3>1, <4>1, Zenon
      <4>3. Running(l) /\ runtime'[l] # NoRuntime
        BY <1>4, <1>5, <3>1, <4>1
      <4> QED BY <4>2, <4>3
    <3>2. CASE l \notin kept
      <4>1. runtime[l] = NoRuntime /\ runtime'[l] = NoRuntime
        BY <1>6, <2>3, <3>2 DEF Running
      <4> QED BY <4>1 DEF Running
    <3> QED BY <3>1, <3>2
  <2> QED BY <1>8, <2>1, <2>2, <2>3 DEF Remapped
<1>10. Servers'
  BY <1>2, <1>9, ServeKeeps
<1>11. NoRuntime' = NoRuntime
  BY DEF NoRuntime
<1>12. \A l \in ls \cup kept : Running(l)' /\ runtime'[l].binding = cfg.listeners[l]
  BY <1>3, <1>4, <1>5, <1>6, <1>11 DEF Running
<1>13. \A l \in Listeners \ (ls \cup kept) : ~Running(l)'
  BY <1>6, <1>11 DEF Running
<1>14. \A x \in live' : \/ x \in live /\ x.id \notin ls \cup down
                        \/ \E l \in ls : x = Socket(l, gen[l] + 1, cfg.listeners[l].port)
  BY ServeSockets
<1>15. \A l \in ls : \A x : x = Socket(l, gen[l] + 1, cfg.listeners[l].port) =>
          x.id = l /\ x.port = cfg.listeners[l].port
  BY DEF Socket
<1>16. ASSUME NEW x \in live'
       PROVE  (x.id \in ls => x.port = cfg.listeners[x.id].port) /\ (x.id \notin ls => x \in live)
  BY <1>14, <1>15
<1> QED BY <1>10, <1>12, <1>13, <1>16

LEMMA ReconcileKeeps ==
    ASSUME ManagerInv, Reconcile
    PROVE  ManagerInv'
<1> DEFINE kept == {l \in Listeners : Running(l) /\ Fits(l)}
           down == {l \in Listeners : Running(l) /\ ~Fits(l)}
           due == IF started THEN {l \in Bound(cfg) : cfg.listeners[l].enabled} \ kept ELSE {}
           free == live \ OwnSockets(down)
<1>1. PICK ls \in SUBSET {l \in due : Startable(cfg.listeners[l], free)} :
        /\ Serve(ls, cfg.listeners, down)
        /\ runtime' = [l \in Listeners |->
             IF l \in ls THEN [gen |-> gen[l] + 1, binding |-> cfg.listeners[l], listening |-> TRUE]
             ELSE IF l \in kept THEN [runtime[l] EXCEPT !.binding = cfg.listeners[l]]
             ELSE NoRuntime]
        /\ fault' = [l \in Listeners |-> IF l \in due \ ls THEN "reported"
                                         ELSE IF l \in kept THEN fault[l] ELSE "none"]
  BY DEF Reconcile
<1>2. mgr.op = "reconcile" /\ mgr' = Free /\ UNCHANGED <<storeVars, phase, events>>
  BY DEF Reconcile, Release
<1>3. phase \in Working /\ Up /\ phase # "down"
  BY <1>2 DEF ManagerInv, Phases, Free, Working, Up
<1>4. TypeOK /\ Servers /\ ControlTypes
  BY DEF ManagerInv
<1>5. TypeOK' /\ cfg' = cfg
  BY <1>2, <1>4, StoreSame DEF storeVars
<1>6. /\ ls \subseteq due /\ ls \subseteq Listeners /\ ls \cap kept = {}
      /\ \A l \in ls : cfg.listeners[l] # NoBinding /\ cfg.listeners[l].enabled /\ started
  BY <1>1 DEF Bound
<1>7. \A l \in kept : /\ Running(l) /\ cfg.listeners[l] # NoBinding /\ cfg.listeners[l].enabled
                      /\ runtime[l].binding.port = cfg.listeners[l].port
  BY DEF Fits
<1>8. /\ Servers'
      /\ \A l \in ls \cup kept : Running(l)' /\ runtime'[l].binding = cfg.listeners[l]
      /\ \A l \in Listeners \ (ls \cup kept) : ~Running(l)'
      /\ \A x \in live' : /\ x.id \in ls => x.port = cfg.listeners[x.id].port
                          /\ x.id \notin ls => x \in live
  <2>1. /\ kept \subseteq Listeners /\ down \subseteq Listeners /\ kept \cap down = {}
        /\ \A l \in Listeners : Running(l) <=> l \in kept \cup down
    OBVIOUS
  <2>2. \A l \in ls \cup kept : cfg.listeners[l] # NoBinding
    BY <1>6, <1>7
  <2> HIDE DEF kept, down
  <2> QED BY <1>1, <1>3, <1>4, <1>6, <1>7, <2>1, <2>2, Refit
<1>9. /\ \A l \in Listeners : l \in due \ ls => fault'[l] = "reported"
      /\ \A l \in kept : fault'[l] = fault[l]
      /\ fault' \in [Listeners -> {"none", "reported", "answered"}]
  <2>1. kept \cap due = {} /\ kept \subseteq Listeners
    OBVIOUS
  <2> HIDE DEF kept, due
  <2> QED BY <1>1, <1>4, <2>1 DEF ControlTypes
<1>10. \A l \in Listeners : started /\ cfg.listeners[l] # NoBinding /\ cfg.listeners[l].enabled
                              => l \in kept \cup due
  BY DEF Bound
<1>11. ~started => kept = {}
  BY DEF ManagerInv, Phases
<1> HIDE DEF kept, due, down
<1>12. \A l \in Listeners : Sited(l)' /\ (started => Matches(l)')
  <2> SUFFICES ASSUME NEW l \in Listeners PROVE Sited(l)' /\ (started => Matches(l)')
    OBVIOUS
  <2>1. CASE l \in ls
    BY <1>5, <1>6, <1>8, <2>1 DEF Sited, Matches, Served
  <2>2. CASE l \in kept
    <3>1. fault'[l] # "answered" => \A x \in live' : x.id = l => x.port = cfg.listeners[l].port
      BY <1>6, <1>7, <1>8, <1>9, <2>2 DEF ManagerInv, Siting, Sited
    <3> QED BY <1>5, <1>7, <1>8, <2>2, <3>1 DEF Sited, Matches, Served
  <2>3. CASE l \notin ls \cup kept
    <3>1. Sited(l)' /\ \A w : (w # NoBinding => ~w.enabled) => Served(l, runtime'[l], live', w)
      BY <1>8, <2>3, NotServing
    <3>2. started /\ fault'[l] = "none" => (cfg.listeners[l] # NoBinding => ~cfg.listeners[l].enabled)
      BY <1>9, <1>10, <2>3
    <3> QED BY <1>5, <3>1, <3>2 DEF Matches
  <2> QED BY <2>1, <2>2, <2>3
<1>13. started' <=> started
  BY <1>2 DEF started
<1>14. ~started => \A l \in Listeners : ~Running(l)'
  BY <1>6, <1>8, <1>11
<1>15. mgr'.op = "none"
  BY <1>2 DEF Free
<1>16. Phases' /\ Siting' /\ Matching'
  BY <1>2, <1>3, <1>5, <1>12, <1>13, <1>14, <1>15 DEF Phases, Siting, Matching, Up, Working
<1>17. Holding'
  BY <1>2 DEF Holding, Free
<1>18. ControlTypes'
  BY <1>2, <1>4, <1>9, FreeRecord DEF ControlTypes
<1> QED BY <1>5, <1>8, <1>16, <1>17, <1>18 DEF ManagerInv

LEMMA StartupKeeps ==
    ASSUME ManagerInv, Start
    PROVE  ManagerInv'
<1> DEFINE ls == {l \in Bound(cfg) : cfg.listeners[l].enabled}
<1>1. /\ phase = "loaded" /\ phase' = "running" /\ Serve(ls, cfg.listeners, {})
      /\ runtime' = [l \in Listeners |->
           IF l \in ls THEN [gen |-> gen[l] + 1, binding |-> cfg.listeners[l], listening |-> TRUE]
           ELSE NoRuntime]
      /\ UNCHANGED <<storeVars, mgr, events, fault>>
  BY DEF Start
<1>2. TypeOK /\ Servers /\ ControlTypes
  BY DEF ManagerInv
<1>3. Up /\ mgr = Free /\ \A l \in Listeners : ~Running(l)
  BY <1>1 DEF ManagerInv, Phases, Working, Up, started
<1>4. TypeOK' /\ cfg' = cfg
  BY <1>1, <1>2, StoreSame DEF storeVars
<1>5. /\ ls \subseteq Listeners
      /\ \A l \in Listeners : l \in ls <=> cfg.listeners[l] # NoBinding /\ cfg.listeners[l].enabled
  BY DEF Bound
<1> HIDE DEF ls
<1>6. /\ Servers'
      /\ \A l \in ls : Running(l)' /\ runtime'[l].binding = cfg.listeners[l]
      /\ \A l \in Listeners \ ls : ~Running(l)'
      /\ \A x \in live' : /\ x.id \in ls => x.port = cfg.listeners[x.id].port
                          /\ x.id \notin ls => x \in live
  <2>1. PICK e : e = {}
    OBVIOUS
  <2>2. /\ e \in SUBSET Listeners /\ ls \cap e = {} /\ e \cap e = {}
        /\ \A l \in e : Running(l)
        /\ \A l \in Listeners : Running(l) <=> l \in e \cup e
        /\ \A l \in ls \cup e : cfg.listeners[l] # NoBinding
    BY <1>3, <1>5, <2>1
  <2>3. Serve(ls, cfg.listeners, e)
    BY <1>1, <2>1
  <2>4. runtime' = [l \in Listeners |->
          IF l \in ls THEN [gen |-> gen[l] + 1, binding |-> cfg.listeners[l], listening |-> TRUE]
          ELSE IF l \in e THEN [runtime[l] EXCEPT !.binding = cfg.listeners[l]]
          ELSE NoRuntime]
    BY <1>1, <2>1
  <2>5. /\ Servers'
        /\ \A l \in ls \cup e : Running(l)' /\ runtime'[l].binding = cfg.listeners[l]
        /\ \A l \in Listeners \ (ls \cup e) : ~Running(l)'
        /\ \A x \in live' : /\ x.id \in ls => x.port = cfg.listeners[x.id].port
                            /\ x.id \notin ls => x \in live
    BY <1>2, <1>3, <1>5, <2>2, <2>3, <2>4, Refit
  <2> QED BY <2>1, <2>5
<1>7. \A l \in Listeners : Sited(l)' /\ Matches(l)'
  <2> SUFFICES ASSUME NEW l \in Listeners PROVE Sited(l)' /\ Matches(l)'
    OBVIOUS
  <2>1. CASE l \in ls
    BY <1>4, <1>5, <1>6, <2>1 DEF Sited, Matches, Served
  <2>2. CASE l \notin ls
    <3>1. Sited(l)' /\ \A w : (w # NoBinding => ~w.enabled) => Served(l, runtime'[l], live', w)
      BY <1>6, <2>2, NotServing
    <3> QED BY <1>4, <1>5, <2>2, <3>1 DEF Matches
  <2> QED BY <2>1, <2>2
<1>8. mgr'.op = "none" /\ mgr' = Free /\ started'
  BY <1>1, <1>3 DEF Free, started
<1>9. Phases' /\ Siting' /\ Matching'
  BY <1>1, <1>3, <1>4, <1>7, <1>8 DEF Phases, Siting, Matching, Up
<1>10. Holding'
  BY <1>8 DEF Holding, Free
<1>11. ControlTypes'
  BY <1>1, <1>2, <1>8, FreeRecord DEF ControlTypes, Phase
<1> QED BY <1>4, <1>6, <1>9, <1>10, <1>11 DEF ManagerInv

LEMMA ElsewhereKeeps ==
    ASSUME ManagerInv, Elsewhere
    PROVE  ManagerInv'
<1>1. PICK out \in Outcome : GroupNext(out)
  BY DEF Elsewhere
<1>2. UNCHANGED <<phase, runtime, live, stopped, gen, mgr, events, fault>>
  BY DEF Elsewhere, mgrVars, serverVars
<1>3. Up /\ Up' /\ cfg'.listeners = cfg.listeners /\ TypeOK'
  BY <1>1, GroupEffect, GroupTypes DEF ManagerInv
<1>4. Servers' /\ \A l \in Listeners : Running(l)' <=> Running(l)
  BY <1>2, SameServers DEF ManagerInv, serverVars
<1>5. ControlTypes'
  BY <1>2 DEF ManagerInv, ControlTypes
<1>6. Phases' /\ Holding' /\ Siting' /\ Matching'
  BY <1>2, <1>3, <1>4, Quiet DEF ManagerInv, started
<1> QED BY <1>3, <1>4, <1>5, <1>6 DEF ManagerInv

LEMMA AcceptFailsKeeps ==
    ASSUME ManagerInv, NEW l \in Listeners, AcceptFails(l)
    PROVE  ManagerInv'
<1>1. /\ Running(l) /\ live' = live \ OwnSockets({l}) /\ stopped' = stopped \cup {Callback(l)}
      /\ UNCHANGED <<storeVars, phase, runtime, gen, mgr, events, fault>>
  BY DEF AcceptFails
<1>2. TypeOK /\ Servers /\ ControlTypes
  BY DEF ManagerInv
<1>3. TypeOK' /\ cfg' = cfg
  BY <1>1, <1>2, StoreSame DEF storeVars
<1>4. live' = {x \in live : x.id # l}
  BY <1>1, <1>2, OwnAll
<1>5. Callback(l) \in [id : Listeners, gen : Nat \ {0}] /\ Callback(l).id = l
      /\ Callback(l).gen = runtime[l].gen
  BY <1>1, <1>2, ServerFields DEF Callback, Servers
<1>6. \A k \in Listeners : Running(k)' <=> Running(k)
  BY <1>1 DEF Running, NoRuntime
<1>7. Servers'
  <2>1. ServerTypes /\ Generations
    BY <1>2 DEF Servers
  <2>2. ServerTypes'
    BY <1>1, <1>4, <1>5, <2>1 DEF ServerTypes
  <2>3. Generations'
    BY <1>1, <1>4, <1>5, <1>6, <2>1 DEF Generations
  <2> QED BY <2>2, <2>3 DEF Servers
<1>8. ControlTypes'
  BY <1>1, <1>2 DEF ControlTypes
<1>9. Phases' /\ Holding' /\ Siting' /\ Matching'
  BY <1>1, <1>3, <1>4, <1>6, Quiet DEF ManagerInv, started, Up
<1> QED BY <1>3, <1>7, <1>8, <1>9 DEF ManagerInv

LEMMA RecordStoppedKeeps ==
    ASSUME ManagerInv, recordStopped
    PROVE  ManagerInv'
<1>1. PICK x \in stopped :
        /\ stopped' = stopped \ {x}
        /\ IF IsCurrent(x)
           THEN /\ runtime' = [runtime EXCEPT ![x.id].listening = FALSE]
                /\ events' = IF events < MaxListeners THEN events + 1 ELSE events
           ELSE UNCHANGED <<runtime, events>>
  BY DEF recordStopped
<1>2. UNCHANGED <<storeVars, phase, live, gen, mgr, fault>>
  BY DEF recordStopped
<1>3. TypeOK /\ Servers /\ ControlTypes
  BY DEF ManagerInv
<1>4. TypeOK' /\ cfg' = cfg
  BY <1>2, <1>3, StoreSame DEF storeVars
<1>5. ControlTypes'
  BY <1>1, <1>2, <1>3, LimitAssumption DEF ControlTypes
<1>6. Servers' /\ \A k \in Listeners : /\ runtime'[k].binding = runtime[k].binding
                                       /\ Running(k)' <=> Running(k)
  <2>1. CASE IsCurrent(x)
    <3>0. PICK l : l = x.id
      OBVIOUS
    <3> DEFINE r == [runtime[l] EXCEPT !.listening = FALSE]
    <3>1. l \in Listeners /\ x.gen # 0 /\ runtime[l].gen = x.gen
      BY <1>3, <2>1, <3>0, SocketFields DEF Servers, IsCurrent
    <3>2. Running(l) /\ runtime[l] \in Server
      BY <1>3, <3>1, ServerFields DEF Servers, Running
    <3>3. r \in Server /\ r.gen = runtime[l].gen /\ r.binding = runtime[l].binding
      BY <3>2 DEF Server
    <3>4. runtime' = [runtime EXCEPT ![l] = r]
      BY <1>1, <2>1, <3>0
    <3>5. \A y \in live' : y.id # l
      BY <1>2, <1>3, <3>0, <3>1 DEF Servers, Generations
    <3> HIDE DEF r
    <3>6. stopped' \subseteq stopped
      BY <1>1
    <3>7. Servers' /\ Running(l)' /\ runtime'[l] = r
          /\ \A k \in Listeners : k # l => runtime'[k] = runtime[k]
      BY <1>2, <1>3, <3>1, <3>2, <3>3, <3>4, <3>5, <3>6, Relabelled
    <3>8. \A k \in Listeners : k # l => (Running(k)' <=> Running(k))
      BY <3>7 DEF Running, NoRuntime
    <3> QED BY <3>2, <3>3, <3>7, <3>8
  <2>2. CASE ~IsCurrent(x)
    <3>1. runtime' = runtime /\ stopped' \subseteq stopped
      BY <1>1, <2>2
    <3>2. \A k \in Listeners : Running(k)' <=> Running(k)
      BY <3>1 DEF Running, NoRuntime
    <3>3. Servers'
      BY <1>2, <1>3, <3>1, <3>2 DEF Servers, ServerTypes, Generations
    <3> QED BY <3>1, <3>2, <3>3
  <2> QED BY <2>1, <2>2
<1>7. Phases' /\ Holding' /\ Siting' /\ Matching'
  BY <1>2, <1>4, <1>6, Quiet DEF ManagerInv, started, Up
<1> QED BY <1>4, <1>5, <1>6, <1>7 DEF ManagerInv

(* A signal or a fatal event: the servers go on.                           *)
LEMMA EndingKeeps ==
    ASSUME ManagerInv, Signal \/ FatalEvent
    PROVE  ManagerInv'
<1>1. /\ phase = "running" /\ phase' = "exiting" /\ UNCHANGED <<storeVars, serverVars, mgr, fault>>
      /\ events' = events \/ (events > 0 /\ events' = events - 1)
  BY DEF Signal, FatalEvent
<1>2. TypeOK /\ Servers /\ ControlTypes
  BY DEF ManagerInv
<1>3. TypeOK' /\ cfg' = cfg
  BY <1>1, <1>2, StoreSame DEF storeVars
<1>4. Servers' /\ \A k \in Listeners : Running(k)' <=> Running(k)
  BY <1>1, <1>2, SameServers
<1>5. ControlTypes'
  BY <1>1, <1>2, LimitAssumption DEF ControlTypes, Phase
<1>6. Phases' /\ Holding' /\ Siting' /\ Matching'
  BY <1>1, <1>3, <1>4, Quiet DEF ManagerInv, started, serverVars, Working, Up
<1> QED BY <1>3, <1>4, <1>5, <1>6 DEF ManagerInv

LEMMA ShutdownKeeps ==
    ASSUME ManagerInv, Shutdown
    PROVE  ManagerInv'
<1>1. /\ phase = "exiting" /\ mgr = Free /\ phase' = "stopping" /\ stopListenerLocked(Listeners)
      /\ UNCHANGED <<storeVars, mgr, events, fault>>
  BY DEF Shutdown
<1>2. TypeOK' /\ cfg' = cfg
  BY <1>1, StoreSame DEF ManagerInv, storeVars
<1>3. Servers' /\ \A l \in Listeners : ~Running(l)'
  BY <1>1, Stopped DEF ManagerInv
<1>4. phase' = "down" <=> cfg' = None
  BY <1>1, <1>2 DEF ManagerInv, Phases
<1>5. Phases' /\ Holding' /\ Siting' /\ Matching'
  BY <1>1, <1>3, <1>4, AllIdle DEF started
<1>6. ControlTypes'
  BY <1>1 DEF ManagerInv, ControlTypes, Phase
<1> QED BY <1>2, <1>3, <1>5, <1>6 DEF ManagerInv

(* A process without servers.                                              *)
LEMMA NoServers ==
    ASSUME runtime = [l \in Listeners |-> NoRuntime], live = {}, stopped = {},
           gen = [l \in Listeners |-> 0]
    PROVE  Servers /\ \A l \in Listeners : ~Running(l)
<1>1. ServerTypes
  BY DEF ServerTypes
<1>2. \A l \in Listeners : ~Running(l)
  BY DEF Running
<1>3. \A l \in Listeners : runtime[l].gen = 0
  BY DEF NoRuntime
<1> QED BY <1>1, <1>2, <1>3 DEF Servers, Generations

LEMMA ExitKeeps ==
    ASSUME ManagerInv, Exit
    PROVE  ManagerInv'
<1>1. /\ cfg' = None /\ handler' = Idle /\ applied' = {} /\ UNCHANGED <<disk, told, ops, crashes>>
      /\ Ended
  BY DEF Exit
<1>2. TypeOK'
  BY <1>1 DEF ManagerInv, TypeOK, Idle, Stage, disk, told
<1>3. (runtime = [l \in Listeners |-> NoRuntime])' /\ live' = {} /\ stopped' = {}
      /\ (gen = [l \in Listeners |-> 0])' /\ phase' = "down" /\ mgr' = Free /\ events' = 0
      /\ fault' = [l \in Listeners |-> "none"]
  BY <1>1 DEF Ended, NoRuntime
<1>4. Servers' /\ \A l \in Listeners : ~Running(l)'
  <2>1. ServerTypes'
    BY <1>3 DEF ServerTypes
  <2>2. \A l \in Listeners : ~Running(l)' /\ runtime'[l].gen = 0
    BY <1>3 DEF Running, NoRuntime
  <2> QED BY <1>3, <2>1, <2>2 DEF Servers, Generations
<1>5. Phases' /\ Holding' /\ Siting' /\ Matching'
  BY <1>1, <1>3, <1>4, AllIdle DEF started
<1>6. ControlTypes'
  BY <1>3, FreeRecord, LimitAssumption DEF ControlTypes, Phase
<1> QED BY <1>2, <1>4, <1>5, <1>6 DEF ManagerInv

LEMMA LoadKeeps ==
    ASSUME ManagerInv, NEW out \in Outcome, Load(out)
    PROVE  ManagerInv'
<1>1. /\ phase = "down" /\ NewConfigStore(out) /\ UNCHANGED <<serverVars, mgr, events, fault>>
      /\ phase' = IF cfg' = None THEN "down" ELSE "loaded"
  BY DEF Load
<1>2. TypeOK'
  <2>1. CopyTypes' /\ applied' \subseteq Sources
    BY <1>1, LoadTypes DEF ManagerInv
  <2>2. UNCHANGED <<uploads, handler, ops, crashes>>
    BY <1>1 DEF NewConfigStore
  <2> QED BY <2>1, <2>2 DEF ManagerInv, TypeOK, CopyTypes
<1>3. mgr = Free /\ \A l \in Listeners : ~Running(l)
  BY <1>1 DEF ManagerInv, Phases, Working, started
<1>4. Servers' /\ \A l \in Listeners : ~Running(l)'
  BY <1>1, <1>3, SameServers DEF ManagerInv
<1>5. ~started' /\ (phase' = "down" <=> cfg' = None) /\ phase' \in Phase
  BY <1>1 DEF started, Phase
<1>6. Phases' /\ Holding' /\ Siting' /\ Matching'
  BY <1>1, <1>3, <1>4, <1>5, AllIdle
<1>7. ControlTypes'
  BY <1>1, <1>5 DEF ManagerInv, ControlTypes
<1> QED BY <1>2, <1>4, <1>6, <1>7 DEF ManagerInv

-----------------------------------------------------------------------------
(* The configuration an earlier run left.                                  *)
LEMMA GroupedConfig ==
    ASSUME NEW c \in Grouped
    PROVE  /\ c \in Config /\ c.rules = defaultPoolConfig.rules
           /\ c.sources = defaultPoolConfig.sources /\ c.listeners = defaultPoolConfig.listeners
<1> DEFINE d == defaultPoolConfig
<1>1. d \in Config
  BY DefaultSound DEF Sound
<1>2. PICK f \in [Groups -> Strategies] : c = [d EXCEPT !.groups = f]
  BY DEF Grouped
<1> HIDE DEF d
<1> QED BY <1>1, <1>2 DEF Config, d

LEMMA ManagerInit == InitManager => ManagerInv
<1> SUFFICES ASSUME InitManager PROVE ManagerInv
  OBVIOUS
<1>1. TypeOK
  BY GroupedConfig, LimitAssumption
     DEF InitManager, InitFrom, TypeOK, Idle, Stage, Promise, Untold
<1>2. Servers /\ \A l \in Listeners : ~Running(l)
  BY NoServers DEF InitManager
<1>3. ControlTypes
  BY FreeRecord, LimitAssumption DEF InitManager, ControlTypes, Phase
<1>4. ~started /\ mgr = Free /\ live = {} /\ phase = "down" /\ cfg = None
  BY DEF InitManager, InitFrom, started
<1>5. Siting
  BY <1>2, <1>4 DEF Siting, Sited
<1>6. Holding
  BY <1>4 DEF Holding, Free
<1> QED BY <1>1, <1>2, <1>3, <1>4, <1>5, <1>6 DEF ManagerInv, Phases, Matching

LEMMA ManagerStep == ManagerInv /\ [NextManager]_vars => ManagerInv'
<1> SUFFICES ASSUME ManagerInv, [NextManager]_vars PROVE ManagerInv'
  OBVIOUS
<1>1. CASE Request
  BY <1>1, AddKeeps, UpdateKeeps, DeleteKeeps DEF Request
<1>2. CASE Continue
  BY <1>2, StartingKeeps, UpdateRuntimeKeeps, ReconcileKeeps, AddUndoKeeps,
     UpdateRestoreKeeps, DeleteSaveKeeps DEF Continue
<1>3. CASE UNCHANGED vars
  <2>1. UNCHANGED <<storeVars, phase, serverVars, mgr, events, fault>>
    BY <1>3 DEF vars, mgrVars
  <2>2. TypeOK' /\ cfg' = cfg
    BY <2>1, StoreSame DEF ManagerInv, storeVars
  <2>3. Servers' /\ \A k \in Listeners : Running(k)' <=> Running(k)
    BY <2>1, SameServers DEF ManagerInv
  <2>4. ControlTypes'
    BY <2>1 DEF ManagerInv, ControlTypes
  <2>5. Phases' /\ Holding' /\ Siting' /\ Matching'
    BY <2>1, <2>2, <2>3, Quiet DEF ManagerInv, serverVars, started, Up
  <2> QED BY <2>2, <2>3, <2>4, <2>5 DEF ManagerInv
<1> QED BY <1>1, <1>2, <1>3, ElsewhereKeeps, AcceptFailsKeeps, RecordStoppedKeeps,
     LoadKeeps, StartupKeeps, EndingKeeps, ShutdownKeeps, ExitKeeps DEF NextManager

(* The inductive invariant of the manager: generations, what each step of  *)
(* an operation that holds the mutex can rely on, and the agreement of     *)
(* every other listener with the configuration.                            *)
THEOREM ManagerInvariant == ManagerSpec => []ManagerInv
BY ManagerInit, ManagerStep, PTL DEF ManagerSpec

(* The manager's map, the sockets, the pending callbacks and the operation *)
(* under way keep their types.                                             *)
THEOREM ManagerTypes == ManagerSpec => []ManagerTypeOK
<1>1. ManagerInv => ManagerTypeOK
  BY DEF ManagerInv, Servers, ServerTypes, ControlTypes, ManagerTypeOK
<1> QED BY <1>1, ManagerInvariant, PTL

(* No server escapes the manager and none is condemned by the callback of  *)
(* the one it replaced (startLocked, stopListenerLocked, recordStopped).   *)
THEOREM ServersAreAccounted == ManagerSpec => []ServersAccounted
<1>1. ManagerInv => ServersAccounted
  BY DEF ManagerInv, Servers, Generations, ServersAccounted, OwnSockets
<1> QED BY <1>1, ManagerInvariant, PTL

(* Whenever no operation holds the mutex, every enabled listener is served *)
(* with its binding on its port and no other one is, through uncertain     *)
(* writes, failed starts, rollbacks and reconcileRuntimeLocked; only a     *)
(* listener whose rollback was reported as failed is excused.              *)
THEOREM ServersMatch == ManagerSpec => []RuntimeMatches
<1>1. ManagerInv => RuntimeMatches
  <2> SUFFICES ASSUME ManagerInv, started, mgr = Free, NEW l \in Listeners, fault[l] = "none"
               PROVE  Agrees(l)
    BY DEF RuntimeMatches
  <2>1. mgr.op # "reconcile" /\ l # mgr.id
    BY NoneAssumption DEF Free
  <2>2. Served(l, runtime[l], live, cfg.listeners[l])
    BY <2>1 DEF ManagerInv, Matching, Matches
  <2>3. OwnSockets({l}) = {x \in live : x.id \in {l}}
    BY OwnAll DEF ManagerInv
  <2> QED BY <2>2, <2>3 DEF Served, Agrees, Running
<1> QED BY <1>1, ManagerInvariant, PTL

-----------------------------------------------------------------------------
(* The store under the manager: a change of a binding, of a group, a load, *)
(* the end of the process, or nothing.                                     *)
Calm == UNCHANGED <<cfg, file, durable, told, uploads, handler>>
Changed == OtherStep /\ uploads' = uploads /\ handler' = handler
Over == End /\ uploads' = uploads /\ handler' = Idle

LEMMA ManagerKinds ==
    ASSUME ManagerInv, [NextManager]_vars
    PROVE  Calm \/ Changed \/ Over \/ \E out \in Outcome : NewConfigStore(out)
<1>1. ASSUME NEW l \in Listeners, NEW b \in Binding, NEW out \in Outcome, Bind(l, b, out), Up
      PROVE  Changed
  BY <1>1, BindKind DEF ManagerInv, Changed
<1>2. ASSUME UNCHANGED storeVars PROVE Calm
  BY <1>2 DEF storeVars, disk, Calm
<1>3. CASE Request
  <2>1. ASSUME NEW l \in Listeners, NEW b \in Bindings, NEW out \in Outcome,
               Add(l, b, out) \/ Update(l, b, out)
        PROVE  Changed
    <3>1. Bind(l, b, out) /\ Requested /\ b \in Binding
      BY <2>1, AcceptedBinding DEF Add, Update
    <3> QED BY <1>1, <3>1, Wants
  <2>2. ASSUME NEW l \in Listeners, Delete(l) PROVE Calm
    BY <2>2 DEF Delete, Calm, disk
  <2> QED BY <1>3, <2>1, <2>2 DEF Request
<1>4. CASE Continue
  <2>1. ASSUME AddStart \/ UpdateRuntime \/ UpdateStart \/ UpdateRestart \/ DeleteRestart
               \/ Reconcile
        PROVE  Calm
    BY <1>2, <2>1 DEF AddStart, UpdateRuntime, UpdateStart, UpdateRestart, DeleteRestart, Reconcile
  <2>2. NoBinding \in Binding
    BY DEF Binding
  <2>3. ASSUME NEW out \in Outcome, AddUndo(out) \/ DeleteSave(out) PROVE Changed
    <3>1. mgr.op \notin {"none", "reconcile"} /\ Bind(mgr.id, NoBinding, out)
      BY <2>3 DEF AddUndo, DeleteSave
    <3> QED BY <1>1, <2>2, <3>1, GoesOn
  <2>4. ASSUME NEW out \in Outcome, UpdateRestore(out) PROVE Changed \/ Calm
    <3>1. mgr.op \notin {"none", "reconcile"}
      BY <2>4 DEF UpdateRestore
    <3>2. CASE Bind(mgr.id, mgr.old, out)
      BY <1>1, <3>1, <3>2, GoesOn
    <3>3. CASE UNCHANGED <<cfg, disk, handler, applied, told, crashes>>
      BY <3>3 DEF Calm, disk
    <3> QED BY <2>4, <3>2, <3>3 DEF UpdateRestore
  <2> QED BY <1>4, <2>1, <2>3, <2>4 DEF Continue
<1>5. ASSUME Elsewhere PROVE Changed
  <2>1. PICK out \in Outcome : GroupNext(out)
    BY <1>5 DEF Elsewhere
  <2>2. uploads' = uploads /\ handler' = handler
    BY <2>1 DEF GroupNext, AddGroup, SetGroupStrategy, DeleteGroup, RouteChange
  <2> QED BY <2>1, <2>2, GroupSteps DEF ManagerInv, Changed
<1>6. ASSUME NEW out \in Outcome, Load(out) PROVE NewConfigStore(out)
  BY <1>6 DEF Load
<1>7. ASSUME Exit PROVE Over
  BY <1>7 DEF Exit, Over, End, disk
<1>8. ASSUME (\E l \in Listeners : AcceptFails(l)) \/ recordStopped \/ Start \/ Signal
             \/ FatalEvent \/ Shutdown \/ UNCHANGED vars
      PROVE  Calm
  BY <1>2, <1>8 DEF AcceptFails, recordStopped, Start, Signal, FatalEvent, Shutdown, vars
<1> QED BY <1>3, <1>4, <1>5, <1>6, <1>7, <1>8 DEF NextManager

LEMMA ManagerStoreStep ==
    ASSUME ManagerInv, ManagerInv', StoreInv, [NextManager]_vars
    PROVE  StoreInv'
<1>1. TypeOK /\ CopyInv /\ Handled /\ UploadsStored /\ SourcesKept /\ DefaultKept /\ TypeOK'
  BY DEF StoreInv, ManagerInv
<1>2. Calm \/ Changed \/ Over \/ \E out \in Outcome : NewConfigStore(out)
  BY ManagerKinds
<1>3. StoreKind
  BY <1>2 DEF StoreKind, Calm, Changed, Over, Written
<1>4. CopyInv' /\ SourcesKept' /\ DefaultKept'
  BY <1>1, <1>3, CopyStep, KeptStep
<1>5. Handled' /\ UploadsStored'
  <2>1. CASE Calm
    BY <1>1, <2>1 DEF Calm, Handled, UploadsStored, Present, Absent, Copies, Up
  <2>2. CASE Changed
    <3>1. PICK out \in Outcome : \E next : OtherChange(next, out)
      BY <2>2 DEF Changed, OtherStep
    <3>2. PICK next : OtherChange(next, out)
      BY <3>1
    <3>3. \A u \in Uploads : next.sources[u] = cfg.sources[u]
      BY <3>2 DEF OtherChange
    <3> QED BY <1>1, <2>2, <3>2, <3>3, UploadsAlone DEF Changed, OtherChange
  <2>3. CASE Over
    BY <1>1, <2>3 DEF Over, End, Handled, Idle, UploadsStored, Present
  <2>4. CASE \E out \in Outcome : NewConfigStore(out)
    BY <1>1, <2>4, LoadUploads
  <2> QED BY <1>2, <2>1, <2>2, <2>3, <2>4
<1> QED BY <1>1, <1>4, <1>5 DEF StoreInv

LEMMA GroupedSound == \A c \in Grouped : Sound(c) /\ \A u \in Uploads : c.sources[u] = "absent"
<1> SUFFICES ASSUME NEW c \in Grouped
             PROVE  Sound(c) /\ \A u \in Uploads : c.sources[u] = "absent"
  OBVIOUS
<1> DEFINE d == defaultPoolConfig
<1>1. Sound(d) /\ \A u \in Uploads : d.sources[u] = "absent"
  BY DefaultSound
<1>2. c \in Config /\ c.rules = d.rules /\ c.sources = d.sources /\ c.listeners = d.listeners
  BY GroupedConfig
<1>3. d.listeners = [l \in Listeners |-> NoBinding] /\ d.rules = <<Match(GroupAny)>>
  BY DEF defaultPoolConfig
<1> HIDE DEF d
<1>4. validatePersistedPoolConfig(d) /\ Table(d.rules)
  BY <1>1 DEF Sound
<1>5. Cardinality(Named(c)) <= MaxGroups
  <2>1. Named(c) \subseteq Groups
    BY DEF Named
  <2>2. /\ IsFiniteSet(Named(c)) /\ Cardinality(Named(c)) \in Nat /\ Cardinality(Groups) \in Nat
        /\ Cardinality(Named(c)) <= Cardinality(Groups)
    BY <2>1, FiniteAssumption, FS_Subset, FS_CardinalityType
  <2> QED BY <2>2, GroupedAssumption, LimitAssumption
<1>6. Present(c) = Present(d) /\ Bound(c) = {} /\ Bound(d) = {}
  BY <1>2, <1>3 DEF Present, Bound
<1>7. \A i \in 1 .. Len(c.rules) : resolveGroupReference(c.rules[i].group, c)
  <2>1. Len(c.rules) = 1 /\ c.rules[1].group = GroupAny
    BY <1>2, <1>3 DEF Match
  <2> QED BY <2>1, RoutingAssumption DEF resolveGroupReference
<1>8. validatePersistedPoolConfig(c)
  BY <1>2, <1>4, <1>5, <1>6, <1>7 DEF validatePersistedPoolConfig
<1> QED BY <1>1, <1>2, <1>4, <1>8 DEF Sound

(* The configuration store keeps its invariant while listeners are added,  *)
(* changed, rolled back and deleted and the process stops and starts.      *)
THEOREM ManagerStore == ManagerSpec => []StoreInv
<1>1. InitManager => StoreInv
  BY InitSound, GroupedSound DEF InitManager
<1>2. ManagerInv /\ ManagerInv' /\ StoreInv /\ [NextManager]_vars => StoreInv'
  BY ManagerStoreStep
<1> QED BY <1>1, <1>2, ManagerInvariant, PTL DEF ManagerSpec

(* The process can be started again at any point of an operation on the    *)
(* listeners: the file it left passes validatePersistedPoolConfig, so no   *)
(* port is bound to a group that is gone and no port is used twice.        *)
THEOREM PortsRestartable == ManagerSpec => []Restartable
BY SoundRestarts, ManagerStore, PTL
=============================================================================
