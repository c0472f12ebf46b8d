--------------------------- MODULE HealthRecheck ---------------------------
(***************************************************************************)
(* The queue of exhaustive rechecks: triggerFullRecheck and its callers    *)
(* (criterion and option changes, baseline changes), the wake-up channel,  *)
(* claimHealthRecheckOperation and the worker loop of main.go, and the     *)
(* shutdown of the coordinator (refresh_coordinator.go).                   *)
(*                                                                         *)
(* A pool generation is read under p.mu and used later under               *)
(* healthRecheckOpMu, so reading and queueing, and reading and claiming,   *)
(* are separate steps.  An operation is identified by its generation; an   *)
(* optional operation is a set with at most one element.  The two mutexes  *)
(* that other goroutines may keep for long are part of the state.          *)
(* Progress counters and reported statuses are left out.                   *)
(***************************************************************************)
EXTENDS Naturals, FiniteSets

CONSTANTS Handler,   \* concurrent request handlers, bounded-recheck worker
          Worker,    \* the full-recheck worker, as a caller of the trigger
          MaxGen     \* bound on criterion changes

ASSUME WorkerAssumption == Worker \notin Handler
ASSUME MaxGenAssumption == MaxGen \in Nat

VARIABLES
    gen,      \* p.healthGeneration
    guard,    \* p.healthRecheckPending
    caller,   \* criterion changes on their way through triggerFullRecheck
    queued,   \* c.healthRecheckPending
    active,   \* c.healthRecheckActive
    token,    \* fullRecheckChan holds its one token
    worker,   \* the full-recheck worker
    stop,     \* progress of coordinator.shutdown
    held,     \* mutexes that a goroutine outside this module holds
    asked,    \* history: newest generation a finished trigger call saw
    ended     \* history: generations whose operation was run to its end

pool == <<gen, guard>>
history == <<asked, ended>>
vars == <<pool, caller, queued, active, token, worker, stop, held, history>>

Caller == Handler \cup {Worker}
Gen == 0 .. MaxGen
Optional == {{}} \cup {{g} : g \in Gen}
shuttingDown == stop # "up"

(* coordinator.healthCycleMu and the publicationMu of the catalog.         *)
Lock == {"healthCycleMu", "publicationMu"}

Init ==
    /\ gen = 0
    /\ guard = FALSE
    /\ caller = [c \in Caller |-> [pc |-> "idle", gen |-> 0]]
    /\ queued = {}
    /\ active = {}
    /\ token = FALSE
    /\ worker = [pc |-> "wait", timerWake |-> FALSE, gen |-> 0]
    /\ stop = "up"
    /\ held = {}
    /\ asked = 0
    /\ ended = {}

-----------------------------------------------------------------------------
(* The goroutines of other components: refreshes, candidate checks, speed  *)
(* tests, deletions.  Nothing here says that they let a mutex go.          *)
Cycling == {"claim", "running", "complete", "flush", "finish"}

Acquire(l) ==
    /\ l \notin held
    /\ l = "healthCycleMu" => worker.pc \notin Cycling
    /\ held' = held \cup {l}
    /\ UNCHANGED <<pool, caller, queued, active, token, worker, stop, history>>

Release(l) ==
    /\ l \in held
    /\ held' = held \ {l}
    /\ UNCHANGED <<pool, caller, queued, active, token, worker, stop, history>>

-----------------------------------------------------------------------------
(* A criterion change: invalidate the pool, reset the outcomes of the      *)
(* catalog, flush the cache, trigger.                                      *)
InvalidateHealth(c, next) ==
    /\ gen < MaxGen
    /\ gen' = gen + 1
    /\ guard' = TRUE
    /\ caller' = [caller EXCEPT ![c].pc = next]

(* A change of the timeout alone resets no outcomes.                       *)
Change(h) ==
    /\ caller[h].pc = "idle"
    /\ \E next \in {"reset", "flush"} : InvalidateHealth(h, next)
    /\ UNCHANGED <<queued, active, token, worker, stop, held, history>>

(* ResetHealthOutcomesSoft read-locks publicationMu.                       *)
ResetOutcomes(c) ==
    /\ caller[c].pc = "reset"
    /\ "publicationMu" \notin held
    /\ caller' = [caller EXCEPT ![c].pc = "flush"]
    /\ UNCHANGED <<pool, queued, active, token, worker, stop, held, history>>

(* A handler whose flush fails reports it and does not trigger; a worker,  *)
(* or a handler that must report a durability error anyway, goes on.       *)
Flush(c) ==
    /\ caller[c].pc = "flush"
    /\ \/ caller' = [caller EXCEPT ![c].pc = "trigger"]
       \/ /\ c # Worker
          /\ caller' = [caller EXCEPT ![c].pc = "idle"]
    /\ UNCHANGED <<pool, queued, active, token, worker, stop, held, history>>

-----------------------------------------------------------------------------
(* triggerFullRecheck, under a read lock of lifecycleMu from here on.      *)
TriggerRead(c) ==
    /\ caller[c].pc = "trigger"
    /\ stop # "stopping"
    /\ caller' = [caller EXCEPT ![c] = [pc |-> "queue", gen |-> gen]]
    /\ UNCHANGED <<pool, queued, active, token, worker, stop, held, history>>

(* Under healthRecheckOpMu: drop the request when shutting down or when    *)
(* its generation is already queued or active, else replace what is queued.*)
Duplicate(g) == g \in queued \/ g \in active

TriggerQueue(c) ==
    /\ caller[c].pc = "queue"
    /\ IF shuttingDown \/ Duplicate(caller[c].gen)
       THEN /\ caller' = [caller EXCEPT ![c] = [pc |-> "idle", gen |-> 0]]
            /\ UNCHANGED queued
       ELSE /\ caller' = [caller EXCEPT ![c] = [pc |-> "send", gen |-> 0]]
            /\ queued' = {caller[c].gen}
    /\ asked' = IF caller[c].gen > asked THEN caller[c].gen ELSE asked
    /\ UNCHANGED <<pool, active, token, worker, stop, held, ended>>

(* Wrong on purpose: no wake-up while an operation is running. *)
TriggerSendMutant(c) ==
    /\ caller[c].pc = "send"
    /\ token' = (token \/ active = {})
    /\ caller' = [caller EXCEPT ![c].pc = "idle"]
    /\ UNCHANGED <<pool, queued, active, worker, stop, held, history>>

(* The non-blocking send into the channel of capacity one.                 *)
TriggerSend(c) ==
    /\ caller[c].pc = "send"
    /\ token' = TRUE
    /\ caller' = [caller EXCEPT ![c].pc = "idle"]
    /\ UNCHANGED <<pool, queued, active, worker, stop, held, history>>

-----------------------------------------------------------------------------
(* The worker loop.                                                        *)
Goto(pc) == worker' = [worker EXCEPT !.pc = pc]

(* select: a token or the interval timer.                                  *)
Wake ==
    /\ worker.pc = "wait"
    /\ \/ /\ token
          /\ token' = FALSE
          /\ worker' = [worker EXCEPT !.pc = "awake", !.timerWake = FALSE]
       \/ /\ worker' = [worker EXCEPT !.pc = "awake", !.timerWake = TRUE]
          /\ UNCHANGED token
    /\ UNCHANGED <<pool, caller, queued, active, stop, held, history>>

(* hasPendingHealthRecheck: a token alone does not start a cycle.          *)
CheckPending ==
    /\ worker.pc = "awake"
    /\ Goto(IF worker.timerWake \/ queued # {} THEN "baseline" ELSE "wait")
    /\ UNCHANGED <<pool, caller, queued, active, token, stop, held, history>>

(* refreshBaselineBeforeRecheck: a changed exit address under the          *)
(* require-ip-change policy is a criterion change of its own.              *)
RefreshBaseline ==
    /\ worker.pc = "baseline"
    /\ \/ UNCHANGED <<pool, caller>>
       \/ InvalidateHealth(Worker, "reset")
    /\ Goto("cycle")
    /\ UNCHANGED <<queued, active, token, stop, held, history>>

(* healthCycleMu is taken and kept until the cycle ends;                   *)
(* claimHealthRecheckOperation reads the generation before it locks.       *)
ClaimRead ==
    /\ worker.pc = "cycle"
    /\ caller[Worker].pc = "idle"
    /\ "healthCycleMu" \notin held
    /\ worker' = [worker EXCEPT !.pc = "claim", !.gen = gen]
    /\ UNCHANGED <<pool, caller, queued, active, token, stop, held, history>>

(* Wrong on purpose: forgets that the coordinator is shutting down. *)
ClaimableMutant == active = {}
Claimable == ~shuttingDown /\ active = {}

(* Wrong on purpose: a superseded job stays in the queue. *)
SupersedeMutant == queued
(* A job of another generation is superseded; a claim empties the slot.    *)
Supersede == {}

Claim ==
    /\ worker.pc = "claim"
    /\ IF ~Claimable
       THEN Goto("wait") /\ UNCHANGED <<queued, active>>
       ELSE IF worker.gen \in queued \/ worker.timerWake
            THEN /\ active' = {worker.gen}
                 /\ queued' = {}
                 /\ Goto("running")
            ELSE /\ queued' = Supersede
                 /\ Goto("wait")
                 /\ UNCHANGED active
    /\ UNCHANGED <<pool, caller, token, stop, held, history>>

(* The pass completes and is committed, or is cancelled, superseded, or    *)
(* cannot be persisted.                                                    *)
RunPass ==
    /\ worker.pc = "running"
    /\ \E next \in {"complete", "finish"} : Goto(next)
    /\ UNCHANGED <<pool, caller, queued, active, token, stop, held, history>>

CompleteHealthRecheck ==
    /\ worker.pc = "complete"
    /\ IF gen = worker.gen
       THEN guard' = FALSE /\ Goto("flush")
       ELSE Goto("finish") /\ UNCHANGED guard
    /\ UNCHANGED <<gen, caller, queued, active, token, stop, held, history>>

FlushPass ==
    /\ worker.pc = "flush"
    /\ guard' \in {guard, TRUE}
    /\ Goto("finish")
    /\ UNCHANGED <<gen, caller, queued, active, token, stop, held, history>>

(* Wrong on purpose: only a completed pass releases the slot. *)
FinishMutant ==
    /\ worker.pc = "finish"
    /\ active' = IF guard THEN active ELSE {}
    /\ ended' = ended \cup {worker.gen}
    /\ Goto("wait")
    /\ UNCHANGED <<pool, caller, queued, token, stop, held, asked>>

finishHealthRecheckOperation ==
    /\ worker.pc = "finish"
    /\ active' = {}
    /\ ended' = ended \cup {worker.gen}
    /\ Goto("wait")
    /\ UNCHANGED <<pool, caller, queued, token, stop, held, asked>>

-----------------------------------------------------------------------------
(* coordinator.shutdown waits for the trigger calls under way, then bars   *)
(* new work, empties both slots and drains the channel.  The lifecycle     *)
(* cancels the worker only afterwards.                                     *)
ShutdownBegin ==
    /\ stop = "up"
    /\ \A c \in Caller : caller[c].pc \notin {"queue", "send"}
    /\ stop' = "stopping"
    /\ UNCHANGED <<pool, caller, queued, active, token, worker, held, history>>

ShutdownClear ==
    /\ stop = "stopping"
    /\ stop' = "stopped"
    /\ queued' = {}
    /\ active' = {}
    /\ token' = FALSE
    /\ UNCHANGED <<pool, caller, worker, held, history>>

WorkerExit ==
    /\ stop = "stopped"
    /\ worker.pc \in {"wait", "awake", "baseline"}
    /\ Goto("exit")
    /\ UNCHANGED <<pool, caller, queued, active, token, stop, held, history>>

-----------------------------------------------------------------------------
WorkerStep ==
    \/ CheckPending \/ RefreshBaseline \/ ClaimRead \/ Claim \/ RunPass
    \/ CompleteHealthRecheck \/ FlushPass \/ finishHealthRecheckOperation

CallerStep(c) ==
    \/ ResetOutcomes(c) \/ Flush(c)
    \/ TriggerRead(c) \/ TriggerQueue(c) \/ TriggerSend(c)

Next ==
    \/ \E h \in Handler : Change(h)
    \/ \E c \in Caller : CallerStep(c)
    \/ Wake \/ WorkerStep
    \/ \E l \in Lock : Acquire(l) \/ Release(l)
    \/ ShutdownBegin \/ ShutdownClear \/ WorkerExit

Spec == Init /\ [][Next]_vars

(* Every goroutine of this module that can run keeps running (a probe ends *)
(* by its timeout), and one that waits for a mutex gets it if the mutex is *)
(* free again and again (Go hands a mutex to a waiter it has starved).     *)
(* Nobody is assumed to release a mutex, and the interval timer (hours) is *)
(* not assumed to fire.  A shutdown that has begun proceeds.               *)
Fairness ==
    /\ WF_vars(WorkerStep) /\ SF_vars(ClaimRead)
    /\ \A c \in Caller : SF_vars(ResetOutcomes(c))
    /\ WF_vars(Wake /\ token)
    /\ \A c \in Caller : WF_vars(CallerStep(c))
    /\ WF_vars(ShutdownClear)

FairSpec == Spec /\ Fairness

-----------------------------------------------------------------------------
(* Properties.                                                             *)

(* The shape of the state.  The worker owns the active operation: the slot *)
(* is filled exactly while it is running, and only with its generation.    *)
Owns == {"running", "complete", "flush", "finish"}
TypeOK ==
    /\ gen \in Gen
    /\ guard \in BOOLEAN
    /\ caller \in [Caller -> [pc : {"idle", "reset", "flush", "trigger", "queue", "send"},
                              gen : 0 .. gen]]
    /\ queued \in Optional /\ active \in Optional
    /\ token \in BOOLEAN
    /\ worker \in [pc : {"wait", "awake", "baseline", "cycle", "claim", "exit"} \cup Owns,
                   timerWake : BOOLEAN, gen : 0 .. gen]
    /\ stop \in {"up", "stopping", "stopped"}
    /\ held \subseteq Lock
    /\ ~("healthCycleMu" \in held /\ worker.pc \in Cycling)
    /\ asked \in Gen /\ ended \subseteq Gen
    /\ active = {} \/ (worker.pc \in Owns /\ active = {worker.gen})

(* No lost wake-up: a queued operation has a token in the channel, a       *)
(* sender about to put one there, or a worker that has yet to look.        *)
NoLostWakeup ==
    queued # {} /\ ~shuttingDown =>
       \/ token
       \/ \E c \in Caller : caller[c].pc = "send"
       \/ worker.pc \in {"awake", "baseline", "cycle", "claim"}

(* Once shutdown has emptied the coordinator nothing is queued, started or *)
(* signalled again, whoever was between reading and locking at the time.   *)
ShutdownIsFinal ==
    stop = "stopped" => queued = {} /\ active = {} /\ ~token

(* No other goroutine keeps a mutex for ever.  The code does not guarantee *)
(* it: a speed test that blocks in CommitLeaseOutcomes (LeasesEnd of       *)
(* CandidateCatalog) keeps publicationMu, and a refresh that waits for it  *)
(* keeps healthCycleMu.                                                    *)
LocksReleased == \A l \in Lock : []<>(l \notin held)

(* Every queued operation is taken out of the queue, without the help of   *)
(* the interval timer: claimed, superseded or cancelled, as long as the    *)
(* other goroutines release their mutexes.                                 *)
QueueDrains == LocksReleased => \A g \in Gen : (g \in queued) ~> (g \notin queued)

(* A criterion change that triggered its recheck has it: the recheck of    *)
(* the current generation is queued, active, or has been run.  Not kept by *)
(* the code: README, section 3.                                            *)
RecheckScheduled ==
    ~shuttingDown /\ asked = gen /\ gen > 0 =>
       gen \in queued \/ gen \in active \/ gen \in ended
=============================================================================
