--------------------------- MODULE ListenerManager ---------------------------
(***************************************************************************)
(* The additional SOCKS5 ports (listener_manager.go, the listener          *)
(* lifecycle of server.go and main.go) on top of the configuration store.  *)
(*                                                                         *)
(* The manager's mutex is held for a whole operation, so at most one is    *)
(* under way, but between its steps the store's other callers change rules *)
(* and groups, and sockets die.  An operation is one step per effect: the  *)
(* change of the configuration (mutate of ConfigStore), the stop of the    *)
(* old server, the start of the new one, and each part of a rollback.  A   *)
(* server is identified by its listener and a generation; its stop         *)
(* callback needs the manager's mutex and may arrive long after the server *)
(* has been replaced.  A crash of the machine is left to ConfigStore: to   *)
(* the manager it is one more end of the process.                          *)
(***************************************************************************)
EXTENDS ConfigStore

CONSTANTS Targets       \* "rules", "fixed" or the group a port is bound to

(* The groups that the configuration of an earlier run holds (Grouped).    *)
ASSUME GroupedAssumption == Cardinality(Groups) <= MaxGroups

VARIABLES phase,        \* of the process
          runtime,      \* the manager's map of running listeners
          live,         \* the listening sockets
          stopped,      \* stop callbacks that have not run yet
          gen,          \* servers started so far, per listener
          mgr,          \* the operation that holds the manager's mutex
          events,       \* fatal events not yet consumed
          fault         \* what the operator knows about a failed rollback

serverVars == <<runtime, live, stopped, gen>>
mgrVars == <<phase, serverVars, mgr, events, fault>>
vars == <<storeVars, mgrVars>>

Phase == {"down", "loaded", "running", "exiting", "stopping"}
started == phase \in {"running", "exiting"}
Free == [op |-> "none", id |-> None, old |-> NoBinding]
NoRuntime == [gen |-> 0, binding |-> NoBinding, listening |-> FALSE]
Running(l) == runtime[l] # NoRuntime
Socket(l, g, p) == [id |-> l, gen |-> g, port |-> p]
Callback(l) == [id |-> l, gen |-> runtime[l].gen]
OwnSockets(ls) == {x \in live : x.id \in ls /\ x.gen = runtime[x.id].gen}
Bindings == [port : Ports, target : Targets, enabled : BOOLEAN]

(* policyLocked: a group port needs its group.                             *)
policyLocked(b) == b.target \in {"rules", "fixed"} \/ resolveGroupReference(b.target, cfg)

(* startLocked can succeed for b while the sockets lv are open; the        *)
(* operating system may refuse the port all the same.                      *)
Startable(b, lv) == policyLocked(b) /\ \A x \in lv : x.port # b.port

(* The servers after the listeners ls, whose bindings are bs, started next *)
(* to those that run already, without the stopped ones.                    *)
Serve(ls, bs, down) ==
    /\ gen' = [l \in Listeners |-> IF l \in ls THEN gen[l] + 1 ELSE gen[l]]
    /\ live' = (live \ OwnSockets(down)) \cup {Socket(l, gen[l] + 1, bs[l].port) : l \in ls}
    /\ stopped' = stopped \cup {[id |-> x.id, gen |-> x.gen] : x \in OwnSockets(down)}

startLocked(l, b) ==
    /\ Startable(b, live)
    /\ Serve({l}, [m \in {l} |-> b], {})
    /\ runtime' = [runtime EXCEPT ![l] =
                     [gen |-> gen[l] + 1, binding |-> b, listening |-> TRUE]]

(* stopListenerLocked and the removal from the map.                        *)
stopListenerLocked(ls) ==
    /\ Serve({}, << >>, ls)
    /\ runtime' = [l \in Listeners |-> IF l \in ls THEN NoRuntime ELSE runtime[l]]

(* A change of the listeners by AddListener, UpdateListener or             *)
(* DeleteListener; the rest of the store's state is left alone.            *)
Bind(l, b, out) ==
    /\ mutate([cfg EXCEPT !.listeners[l] = b], out)
    /\ UNCHANGED <<uploads, handler, applied, told, crashes>>
PortFree(l, b) == \A m \in Bound(cfg) : m # l => cfg.listeners[m].port # b.port
Requested == Asked /\ mgr = Free /\ phase \in {"running", "exiting", "stopping"}

Step(op) == mgr' = [mgr EXCEPT !.op = op]
Release == mgr' = Free
Fault(l, value) == fault' = [fault EXCEPT ![l] = value]

-----------------------------------------------------------------------------
(* Add: the binding is saved, then its server started.                     *)
Add(l, b, out) ==
    /\ Requested
    /\ cfg.listeners[l] = NoBinding
    /\ Cardinality(Bound(cfg)) < MaxListeners
    /\ PortFree(l, b) /\ validateListenerBinding(b, cfg)
    /\ Bind(l, b, out)
    /\ mgr' = CASE out = "uncertain" -> [Free EXCEPT !.op = "reconcile"]
                [] out = "ok" /\ started /\ b.enabled ->
                     [op |-> "add_start", id |-> l, old |-> b]
                [] OTHER -> Free
    /\ UNCHANGED <<phase, serverVars, events, fault>>
AddStart ==
    /\ mgr.op = "add_start"
    /\ \/ startLocked(mgr.id, mgr.old) /\ Fault(mgr.id, "none") /\ Release
       \/ Step("add_undo") /\ UNCHANGED <<serverVars, fault>>
    /\ UNCHANGED <<storeVars, phase, events>>
AddUndo(out) ==
    /\ mgr.op = "add_undo"
    /\ Bind(mgr.id, NoBinding, out)
    /\ Fault(mgr.id, IF out = "not_committed" THEN "reported" ELSE fault[mgr.id])
    /\ Release
    /\ UNCHANGED <<ops, phase, serverVars, events>>

(* Update, up to the answer of the store.                                  *)
Update(l, b, out) ==
    /\ Requested
    /\ cfg.listeners[l] # NoBinding
    /\ PortFree(l, b) /\ validateListenerBinding(b, cfg)
    /\ Bind(l, b, out)
    /\ mgr' = CASE out = "uncertain" -> [Free EXCEPT !.op = "reconcile"]
                [] out = "ok" -> [op |-> "update", id |-> l, old |-> cfg.listeners[l]]
                [] OTHER -> Free
    /\ UNCHANGED <<phase, serverVars, events, fault>>

(* On the same port a running server only gets a new policy (whose group   *)
(* the new binding keeps alive); otherwise the old server is stopped.      *)
UpdateRuntime ==
    LET l == mgr.id
        new == cfg.listeners[l]
    IN  /\ mgr.op = "update"
        /\ \/ /\ Running(l) /\ mgr.old.port = new.port /\ new.enabled
              /\ policyLocked(new)
              /\ runtime' = [runtime EXCEPT ![l].binding = new]
              /\ Fault(l, IF fault[l] = "none" THEN "none" ELSE "answered")
              /\ Release
              /\ UNCHANGED <<live, stopped, gen>>
           \/ /\ ~(Running(l) /\ mgr.old.port = new.port /\ new.enabled)
              /\ stopListenerLocked({l})
              /\ Fault(l, "none")
              /\ IF started /\ new.enabled THEN Step("update_start") ELSE Release
        /\ UNCHANGED <<storeVars, phase, events>>
UpdateStart ==
    /\ mgr.op = "update_start"
    /\ \/ startLocked(mgr.id, cfg.listeners[mgr.id]) /\ Fault(mgr.id, "none") /\ Release
       \/ Step("update_restore") /\ UNCHANGED <<serverVars, fault>>
    /\ UNCHANGED <<storeVars, phase, events>>

(* The rollback restores the old binding, unless the store refuses it (its *)
(* group may be gone) or fails, and restarts the old server in any case.   *)
UpdateRestore(out) ==
    LET l == mgr.id
        accepted == validateListenerBinding(mgr.old, cfg)
    IN  /\ mgr.op = "update_restore"
        /\ \/ accepted /\ Bind(l, mgr.old, out)
           \/ /\ ~accepted
              /\ UNCHANGED <<cfg, disk, handler, applied, told, crashes>>
        /\ Fault(l, IF accepted /\ out # "not_committed" THEN fault[l] ELSE "reported")
        /\ IF mgr.old.enabled THEN Step("update_restart") ELSE Release
        /\ UNCHANGED <<ops, phase, serverVars, events>>
UpdateRestart ==
    /\ mgr.op = "update_restart"
    /\ \/ startLocked(mgr.id, mgr.old) /\ UNCHANGED fault
       \/ Fault(mgr.id, "reported") /\ UNCHANGED serverVars
    /\ Release
    /\ UNCHANGED <<storeVars, phase, events>>

(* Delete stops the server first and restarts it if nothing was saved.     *)
Delete(l) ==
    /\ Requested
    /\ cfg.listeners[l] # NoBinding
    /\ stopListenerLocked({l})
    /\ mgr' = [op |-> "delete", id |-> l, old |-> cfg.listeners[l]]
    /\ Fault(l, "none")
    /\ UNCHANGED <<cfg, disk, handler, applied, told, crashes, phase, events>>
DeleteSave(out) ==
    /\ mgr.op = "delete"
    /\ Bind(mgr.id, NoBinding, out)
    /\ CASE out = "uncertain" -> Step("reconcile")
         [] out = "not_committed" /\ started /\ mgr.old.enabled -> Step("delete_restart")
         [] OTHER -> Release
    /\ UNCHANGED <<ops, phase, serverVars, events, fault>>
DeleteRestart ==
    /\ mgr.op = "delete_restart"
    /\ \/ startLocked(mgr.id, mgr.old) /\ UNCHANGED fault
       \/ Fault(mgr.id, "reported") /\ UNCHANGED serverVars
    /\ Release
    /\ UNCHANGED <<storeVars, phase, events>>

(* Wrong on purpose: a server that still listens is kept on any port.      *)
FitsAnyPort(l) ==
    LET b == cfg.listeners[l] IN b # NoBinding /\ b.enabled /\ runtime[l].listening
(* reconcileRuntimeLocked after an uncertain write: servers that still fit *)
(* take their binding, the others are stopped, and what is missing is      *)
(* started as far as the ports can be had.                                 *)
Fits(l) ==
    LET b == cfg.listeners[l] IN
    b # NoBinding /\ b.enabled /\ runtime[l].listening /\ runtime[l].binding.port = b.port
Reconcile ==
    LET kept == {l \in Listeners : Running(l) /\ Fits(l)}
        down == {l \in Listeners : Running(l) /\ ~Fits(l)}
        due == IF started THEN {l \in Bound(cfg) : cfg.listeners[l].enabled} \ kept ELSE {}
        free == live \ OwnSockets(down)
    IN  /\ mgr.op = "reconcile"
        /\ \E ls \in SUBSET {l \in due : Startable(cfg.listeners[l], free)} :
             /\ Serve(ls, cfg.listeners, down)
             /\ runtime' = [l \in Listeners |->
                  IF l \in ls THEN [gen |-> gen[l] + 1, binding |-> cfg.listeners[l],
                                    listening |-> TRUE]
                  ELSE IF l \in kept THEN [runtime[l] EXCEPT !.binding = cfg.listeners[l]]
                  ELSE NoRuntime]
             /\ fault' = [l \in Listeners |-> IF l \in due \ ls THEN "reported"
                                              ELSE IF l \in kept THEN fault[l] ELSE "none"]
        /\ Release
        /\ UNCHANGED <<storeVars, phase, events>>

-----------------------------------------------------------------------------
(* The accept loop of a listening server ends with an error.               *)
AcceptFails(l) ==
    /\ Running(l) /\ OwnSockets({l}) # {}
    /\ live' = live \ OwnSockets({l})
    /\ stopped' = stopped \cup {Callback(l)}
    /\ UNCHANGED <<storeVars, phase, runtime, gen, mgr, events, fault>>

(* Wrong on purpose: the callback does not compare servers.                *)
IsCurrentAlways(x) == Running(x.id)
IsCurrent(x) == runtime[x.id].gen = x.gen

(* Wrong on purpose: nobody is told of a server that died.                 *)
QuietStop ==
    /\ mgr = Free
    /\ \E x \in stopped :
         /\ stopped' = stopped \ {x}
         /\ IF IsCurrent(x)
            THEN runtime' = [runtime EXCEPT ![x.id].listening = FALSE]
            ELSE UNCHANGED runtime
    /\ UNCHANGED <<storeVars, phase, live, gen, mgr, events, fault>>
(* recordStopped: the callback of a server that is no longer in the map is *)
(* ignored; the send never blocks.                                         *)
recordStopped ==
    /\ mgr = Free
    /\ \E x \in stopped :
         /\ stopped' = stopped \ {x}
         /\ IF IsCurrent(x)
            THEN /\ runtime' = [runtime EXCEPT ![x.id].listening = FALSE]
                 /\ events' = IF events < MaxListeners THEN events + 1 ELSE events
            ELSE UNCHANGED <<runtime, events>>
    /\ UNCHANGED <<storeVars, phase, live, gen, mgr, fault>>

(* main: load the configuration, start the ports (or exit), wait.          *)
Load(out) ==
    /\ phase = "down"
    /\ NewConfigStore(out)
    /\ phase' = IF cfg' = None THEN "down" ELSE "loaded"
    /\ UNCHANGED <<serverVars, mgr, events, fault>>
Start ==
    LET ls == {l \in Bound(cfg) : cfg.listeners[l].enabled}
    IN  /\ phase = "loaded"
        /\ \A l \in ls : Startable(cfg.listeners[l], live)
        /\ Serve(ls, cfg.listeners, {})
        /\ runtime' = [l \in Listeners |->
             IF l \in ls THEN [gen |-> gen[l] + 1, binding |-> cfg.listeners[l],
                               listening |-> TRUE]
             ELSE NoRuntime]
        /\ phase' = "running"
        /\ UNCHANGED <<storeVars, mgr, events, fault>>

(* waitForShutdown returns on a signal or on a fatal event.                *)
Signal ==
    /\ phase = "running" /\ phase' = "exiting"
    /\ UNCHANGED <<storeVars, serverVars, mgr, events, fault>>
FatalEvent ==
    /\ phase = "running" /\ events > 0
    /\ phase' = "exiting" /\ events' = events - 1
    /\ UNCHANGED <<storeVars, serverVars, mgr, fault>>
(* Shutdown; handlers that outlive the deadline may still ask for changes. *)
Shutdown ==
    /\ phase = "exiting" /\ mgr = Free
    /\ phase' = "stopping"
    /\ stopListenerLocked(Listeners)
    /\ UNCHANGED <<storeVars, mgr, events, fault>>

(* The process ends: its sockets and goroutines are gone.                  *)
Ended ==
    /\ phase' = "down"
    /\ runtime' = [l \in Listeners |-> NoRuntime]
    /\ live' = {} /\ stopped' = {} /\ events' = 0
    /\ gen' = [l \in Listeners |-> 0]
    /\ mgr' = Free
    /\ fault' = [l \in Listeners |-> "none"]
(* After Shutdown, or because a port could not be had at the start.        *)
Exit ==
    /\ \/ phase = "stopping"
       \/ phase = "loaded" /\ \E l \in Bound(cfg) : cfg.listeners[l].enabled
    /\ cfg' = None /\ handler' = Idle /\ applied' = {}
    /\ UNCHANGED <<disk, told, ops, crashes>>
    /\ Ended

(* The configuration an earlier run left: its groups and no listener yet.  *)
Grouped == {[defaultPoolConfig EXCEPT !.groups = f] : f \in [Groups -> Strategies]}
InitManager ==
    /\ InitFrom(Grouped)
    /\ phase = "down" /\ runtime = [l \in Listeners |-> NoRuntime]
    /\ live = {} /\ stopped = {} /\ gen = [l \in Listeners |-> 0]
    /\ mgr = Free /\ events = 0 /\ fault = [l \in Listeners |-> "none"]

(* The steps of an operation that holds the mutex.                         *)
Continue ==
    \/ AddStart \/ UpdateRuntime \/ UpdateStart \/ UpdateRestart
    \/ DeleteRestart \/ Reconcile
    \/ \E out \in Outcome : AddUndo(out) \/ UpdateRestore(out) \/ DeleteSave(out)
Request ==
    \E l \in Listeners :
       \/ \E b \in Bindings, out \in Outcome : Add(l, b, out) \/ Update(l, b, out)
       \/ Delete(l)
(* Other callers of the store.                                             *)
Elsewhere ==
    /\ phase \in {"running", "exiting", "stopping"}
    /\ \E out \in Outcome : GroupNext(out)
    /\ UNCHANGED mgrVars

NextManager ==
    \/ Request \/ Continue \/ Elsewhere
    \/ \E l \in Listeners : AcceptFails(l)
    \/ recordStopped
    \/ \E out \in Outcome : Load(out)
    \/ Start \/ Signal \/ FatalEvent \/ Shutdown \/ Exit

ManagerSpec == InitManager /\ [][NextManager]_vars

(* The goroutine of an operation, a stopped server's callback and main run *)
(* whenever they can; requests, failures and signals need not come.        *)
FairManagerSpec ==
    /\ ManagerSpec
    /\ WF_vars(Continue) /\ WF_vars(recordStopped)
    /\ WF_vars(FatalEvent) /\ WF_vars(Shutdown) /\ WF_vars(Exit)

-----------------------------------------------------------------------------
(* A server in the map has a binding and a generation of its own.          *)
Operation == {"none", "reconcile", "add_start", "add_undo", "update", "update_start",
              "update_restore", "update_restart", "delete", "delete_restart"}
Server == [gen : Nat \ {0}, binding : Binding \ {NoBinding}, listening : BOOLEAN]
ManagerTypeOK ==
    /\ phase \in Phase
    /\ runtime \in [Listeners -> {NoRuntime} \cup Server]
    /\ live \subseteq [id : Listeners, gen : Nat \ {0}, port : Ports]
    /\ stopped \subseteq [id : Listeners, gen : Nat \ {0}]
    /\ gen \in [Listeners -> Nat]
    /\ mgr \in [op : Operation, id : {None} \cup Listeners, old : Binding]
    /\ events \in 0 .. MaxListeners
    /\ fault \in [Listeners -> {"none", "reported", "answered"}]

(* The ports served agree with the configuration: whenever no operation    *)
(* holds the mutex, every enabled listener has a server with that binding, *)
(* on that port, and no other listener has one.  Uncertain writes, failed  *)
(* starts and rollbacks, and changes of the groups in between included;    *)
(* only a listener whose rollback was reported as failed is excused.       *)
Agrees(l) ==
    LET b == cfg.listeners[l]
    IN  IF b # NoBinding /\ b.enabled
        THEN /\ runtime[l].binding = b
             /\ \A x \in OwnSockets({l}) : x.port = b.port
        ELSE ~Running(l)
RuntimeMatches ==
    started /\ mgr = Free => \A l \in Listeners : fault[l] = "none" => Agrees(l)

(* No server escapes the manager: an open socket belongs to the server in  *)
(* the map, and a server that the map marks as dead has no open socket, so *)
(* a late stop callback never condemns the server that replaced it.        *)
ServersAccounted ==
    /\ \A x \in live : runtime[x.id].gen = x.gen
    /\ \A l \in Listeners :
         Running(l) /\ ~runtime[l].listening => OwnSockets({l}) = {}

(* A server that dies on its own never stays dead in the map: it is        *)
(* replaced or removed by an operation, or the process ends.               *)
Dead(l) == Running(l) /\ OwnSockets({l}) = {}
DeathIsHandled == \A l \in Listeners : Dead(l) ~> ~Dead(l)

(* README: an update changes the port of a listener while it runs.  When   *)
(* the last update of a listener was answered with success, the listener   *)
(* is served on its configured port.  Not kept by the code: README, 3.     *)
UpdateTakesEffect ==
    started /\ mgr = Free => \A l \in Listeners : fault[l] = "answered" => Agrees(l)
=============================================================================
