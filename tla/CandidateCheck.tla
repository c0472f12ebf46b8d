--------------------------- MODULE CandidateCheck ---------------------------
(***************************************************************************)
(* The shared slot of manual candidate checks: enqueueCandidateCheck,      *)
(* cancelCandidateCheck, the wake-up channel, the worker that claims an    *)
(* operation, registers its cancel function and runs its batches           *)
(* (candidate_check_operation.go), and the coordinator's shutdown.         *)
(*                                                                         *)
(* candidateCheckMu makes one action of each critical section; between     *)
(* them anything may happen.  A batch is abstracted to its exits and to    *)
(* the mutexes it waits for, which goroutines outside this module may keep.*)
(* An optional operation is a set with at most one element.                *)
(***************************************************************************)
EXTENDS Naturals, FiniteSets

CONSTANTS MaxOps,     \* bound on the operations requested
          MaxChunks   \* bound on the chunks of a retry-all walk

ASSUME MaxOpsAssumption == MaxOps \in Nat
ASSUME MaxChunksAssumption == MaxChunks \in Nat \ {0}

VARIABLES
    seq,        \* candidateCheckSeq: operations requested so far
    status,     \* Status of every operation
    queued,     \* candidateCheckPending
    request,    \* candidateCheckRequest: chunks of a walk; 0 = a single batch
    active,     \* candidateCheckActive
    cancelFn,   \* candidateCheckCancel, as the operation it aborts
    token,      \* candidateCheckChan holds its one token
    task,       \* the worker
    stop,       \* progress of the shutdown
    held,       \* mutexes that a goroutine outside this module holds
    asked       \* history: running operations whose cancel was accepted

slot == <<queued, request, active, cancelFn, token>>
vars == <<seq, status, slot, task, stop, held, asked>>

Op == 1 .. MaxOps
Terminal == {"complete", "failed", "cancelled", "superseded"}
Optional == {{}} \cup {{o} : o \in Op}
Lock == {"healthCycleMu", "sourceLifecycleMu", "publicationMu"}
NoTask == [pc |-> "wait", op |-> 0, left |-> 0, cancelled |-> FALSE, res |-> "failed"]

(* coordinator.shutdown stores shuttingDown, then clears the slots; the    *)
(* lifecycle cancels the worker's context last.                            *)
shuttingDown == stop # "up"
ctxDone == stop = "cancelled"

Init ==
    /\ seq = 0
    /\ status = [o \in Op |-> "none"]
    /\ queued = {}
    /\ request = 0
    /\ active = {}
    /\ cancelFn = {}
    /\ token = FALSE
    /\ task = NoTask
    /\ stop = "up"
    /\ held = {}
    /\ asked = {}

-----------------------------------------------------------------------------
(* The goroutines of other components: refreshes, rechecks, speed tests,   *)
(* deletions, source handlers.  Nothing here says that they let a mutex go.*)
(* A batch holds healthCycleMu to its end, and sourceLifecycleMu for       *)
(* writing from its final validation on.                                   *)
BatchHolds ==
    CASE task.pc \in {"lease", "check", "final"} -> {"healthCycleMu"}
      [] task.pc = "publish" -> {"healthCycleMu", "sourceLifecycleMu"}
      [] OTHER -> {}

Acquire(l) ==
    /\ l \notin held \cup BatchHolds
    /\ held' = held \cup {l}
    /\ UNCHANGED <<seq, status, slot, task, stop, asked>>

Release(l) ==
    /\ l \in held
    /\ held' = held \ {l}
    /\ UNCHANGED <<seq, status, slot, task, stop, asked>>

-----------------------------------------------------------------------------
(* Wrong on purpose: looks at the queue only. *)
SlotFreeMutant == queued = {}
SlotFree == queued = {} /\ active = {}

(* Wrong on purpose: a request the channel refused stays in the slot. *)
KeptMutant(o, st) == IF st # "cancelled" THEN {o} ELSE {}
(* What the slot keeps of request o, given the status it got.              *)
Kept(o, st) == IF st = "queued" THEN {o} ELSE {}

(* Wrong on purpose: a retry-all walk is queued without a signal. *)
SignalMutant == token \/ (queued' # {} /\ request' = 0)
Signal == token \/ queued' # {}

(* enqueueCandidateCheck for a single batch or a walk of n chunks.  An     *)
(* occupied slot refuses the request and changes nothing.  A full channel  *)
(* fails it.                                                               *)
Enqueue ==
    /\ seq < MaxOps
    /\ stop # "stopping"                \* lifecycleMu
    /\ SlotFree
    /\ seq' = seq + 1
    /\ status' = [status EXCEPT ![seq'] = CASE shuttingDown -> "cancelled"
                                            [] ~shuttingDown /\ token -> "failed"
                                            [] OTHER -> "queued"]
    /\ queued' = Kept(seq', status'[seq'])
    /\ \E n \in 0 .. MaxChunks : request' = IF queued' = {} THEN 0 ELSE n
    /\ token' = Signal
    /\ UNCHANGED <<active, cancelFn, task, stop, held, asked>>

(* cancelCandidateCheck: a queued operation is discarded and the channel   *)
(* drained; a running one is cancelled through the registered function, if *)
(* there is one, and the request is accepted in any case.                  *)
CancelQueued ==
    /\ queued # {}
    /\ status' = [o \in Op |-> IF o \in queued THEN "cancelled" ELSE status[o]]
    /\ queued' = {}
    /\ request' = 0
    /\ token' = FALSE
    /\ UNCHANGED <<seq, active, cancelFn, task, stop, held, asked>>

CancelActive ==
    /\ queued = {} /\ active # {}
    /\ task' = [task EXCEPT !.cancelled = @ \/ task.op \in cancelFn]
    /\ cancelFn' = {}
    /\ asked' = asked \cup active
    /\ UNCHANGED <<seq, status, queued, request, active, token, stop, held>>

-----------------------------------------------------------------------------
(* The worker.                                                             *)
Wake ==
    /\ task.pc = "wait"
    /\ token
    /\ token' = FALSE
    /\ task' = [task EXCEPT !.pc = "begin"]
    /\ UNCHANGED <<seq, status, queued, request, active, cancelFn, stop, held, asked>>

Claimable == ~shuttingDown /\ active = {} /\ queued # {}

beginCandidateCheckOperation ==
    /\ task.pc = "begin"
    /\ IF Claimable
       THEN /\ active' = queued
            /\ queued' = {}
            /\ request' = 0
            /\ status' = [o \in Op |-> IF o \in queued THEN "running" ELSE status[o]]
            /\ \E o \in queued :
                  task' = [pc |-> "began", op |-> o, left |-> request,
                           cancelled |-> FALSE, res |-> "failed"]
       ELSE /\ task' = NoTask
            /\ UNCHANGED <<status, queued, request, active>>
    /\ UNCHANGED <<seq, cancelFn, token, stop, held, asked>>

Finish(res) == task' = [task EXCEPT !.pc = "finish", !.res = res]

(* registerCandidateCheckCancel, unless the context is already done.       *)
Register ==
    /\ task.pc = "began"
    /\ IF ctxDone
       THEN Finish("cancelled") /\ UNCHANGED cancelFn
       ELSE /\ cancelFn' = IF task.op \in active THEN {task.op} ELSE cancelFn
            /\ task' = [task EXCEPT !.pc = IF task.left = 0 THEN "batch" ELSE "chunk"]
    /\ UNCHANGED <<seq, status, queued, request, active, token, stop, held, asked>>

Cancelled == task.cancelled \/ ctxDone

(* A retry-all walk looks at its context before every chunk.               *)
StartChunk ==
    /\ task.pc = "chunk"
    /\ IF Cancelled THEN Finish("cancelled")
       ELSE task' = [task EXCEPT !.pc = "batch"]
    /\ UNCHANGED <<seq, status, slot, stop, held, asked>>

(* How a batch that ended with res continues: a walk goes on only after a  *)
(* complete chunk.                                                         *)
AfterBatch(res) ==
    IF res = "complete" /\ task.left > 1
    THEN task' = [task EXCEPT !.pc = "chunk", !.left = @ - 1]
    ELSE Finish(res)

(* runSingleCandidateBatch: nothing is checked before the first refresh,   *)
(* and the batch waits for healthCycleMu.                                  *)
StartBatch ==
    /\ task.pc = "batch"
    /\ \/ AfterBatch("superseded")
       \/ /\ "healthCycleMu" \notin held
          /\ task' = [task EXCEPT !.pc = "lease"]
    /\ UNCHANGED <<seq, status, slot, stop, held, asked>>

(* Lease under sourceLifecycleMu: keys may be gone, there may be nothing   *)
(* to check, or the criterion has changed meanwhile.                       *)
LeaseBatch ==
    /\ task.pc = "lease"
    /\ "sourceLifecycleMu" \notin held
    /\ \/ \E res \in {"failed", "complete", "superseded"} : AfterBatch(res)
       \/ task' = [task EXCEPT !.pc = "check"]
    /\ UNCHANGED <<seq, status, slot, stop, held, asked>>

(* Probe, and look at the context and the criterion.                       *)
CheckBatch ==
    /\ task.pc = "check"
    /\ IF Cancelled THEN AfterBatch("cancelled")
       ELSE \/ AfterBatch("superseded")
            \/ task' = [task EXCEPT !.pc = "final"]
    /\ UNCHANGED <<seq, status, slot, stop, held, asked>>

(* The last look at the context, under sourceLifecycleMu.                  *)
FinalValidation ==
    /\ task.pc = "final"
    /\ "sourceLifecycleMu" \notin held
    /\ IF Cancelled THEN AfterBatch("cancelled")
       ELSE \/ task' = [task EXCEPT !.pc = "publish"]
            \/ AfterBatch("superseded")
    /\ UNCHANGED <<seq, status, slot, stop, held, asked>>

(* The pool refuses an old generation; the catalog is committed under      *)
(* publicationMu.                                                          *)
PublishBatch ==
    /\ task.pc = "publish"
    /\ \/ AfterBatch("superseded")
       \/ /\ "publicationMu" \notin held
          /\ \E res \in {"complete", "failed"} : AfterBatch(res)
    /\ UNCHANGED <<seq, status, slot, stop, held, asked>>

(* Wrong on purpose: leaves the cancel function behind. *)
FinishMutant ==
    /\ task.pc = "finish"
    /\ IF task.op \in active
       THEN /\ status' = [status EXCEPT ![task.op] = task.res]
            /\ active' = {}
       ELSE UNCHANGED <<status, active>>
    /\ task' = NoTask
    /\ asked' = {}
    /\ UNCHANGED <<seq, queued, request, token, cancelFn, stop, held>>

(* Wrong on purpose: reports on an operation it no longer owns. *)
FinishAnywayMutant ==
    /\ task.pc = "finish"
    /\ status' = [status EXCEPT ![task.op] = task.res]
    /\ active' = {}
    /\ cancelFn' = {}
    /\ task' = NoTask
    /\ asked' = {}
    /\ UNCHANGED <<seq, queued, request, token, stop, held>>

finishCandidateCheckOperation ==
    /\ task.pc = "finish"
    /\ IF task.op \in active
       THEN /\ status' = [status EXCEPT ![task.op] = task.res]
            /\ active' = {}
            /\ cancelFn' = {}
       ELSE UNCHANGED <<status, active, cancelFn>>
    /\ task' = NoTask
    /\ asked' = {}
    /\ UNCHANGED <<seq, queued, request, token, stop, held>>

-----------------------------------------------------------------------------
(* Shutdown: bar new work, cancel what is in the slot, drain the channel,  *)
(* and at last cancel the worker's context.                                *)
ShutdownBegin ==
    /\ stop = "up"
    /\ stop' = "stopping"
    /\ UNCHANGED <<seq, status, slot, task, held, asked>>

ShutdownClear ==
    /\ stop = "stopping"
    /\ stop' = "stopped"
    /\ status' = [o \in Op |-> IF o \in active \cup queued THEN "cancelled"
                               ELSE status[o]]
    /\ queued' = {}
    /\ request' = 0
    /\ active' = {}
    /\ token' = FALSE
    /\ UNCHANGED <<seq, cancelFn, task, held, asked>>

LifecycleCancel ==
    /\ stop = "stopped"
    /\ stop' = "cancelled"
    /\ UNCHANGED <<seq, status, slot, task, held, asked>>

WorkerExit ==
    /\ ctxDone
    /\ task.pc = "wait"
    /\ task' = [task EXCEPT !.pc = "exit"]
    /\ UNCHANGED <<seq, status, slot, stop, held, asked>>

-----------------------------------------------------------------------------
WorkerStep ==
    \/ Wake \/ beginCandidateCheckOperation \/ Register \/ StartChunk
    \/ StartBatch \/ LeaseBatch \/ CheckBatch \/ FinalValidation \/ PublishBatch
    \/ finishCandidateCheckOperation

Next ==
    \/ Enqueue \/ CancelQueued \/ CancelActive
    \/ WorkerStep
    \/ \E l \in Lock : Acquire(l) \/ Release(l)
    \/ ShutdownBegin \/ ShutdownClear \/ LifecycleCancel \/ WorkerExit

Spec == Init /\ [][Next]_vars

(* The worker goroutine keeps running (every probe has a timeout), it gets *)
(* a mutex that is free again and again, and a shutdown that has begun     *)
(* proceeds.  Nobody is assumed to release a mutex.                        *)
FairSpec == Spec /\ SF_vars(WorkerStep) /\ WF_vars(ShutdownClear)

-----------------------------------------------------------------------------
(* Properties.                                                             *)

(* The shape of the state; the slot holds one operation, queued or         *)
(* running, and a running one is the worker's.                             *)
TypeOK ==
    /\ seq \in 0 .. MaxOps
    /\ status \in [Op -> {"none", "queued", "running"} \cup Terminal]
    /\ request \in 0 .. MaxChunks
    /\ queued \in Optional /\ active \in Optional /\ cancelFn \in Optional
    /\ token \in BOOLEAN
    /\ task \in [pc : {"wait", "begin", "began", "chunk", "batch", "lease", "check",
                       "final", "publish", "finish", "exit"},
                 op : 0 .. seq, left : 0 .. MaxChunks,
                 cancelled : BOOLEAN, res : Terminal]
    /\ stop \in {"up", "stopping", "stopped", "cancelled"}
    /\ held \subseteq Lock /\ held \cap BatchHolds = {}
    /\ asked \subseteq Op
    /\ queued = {} \/ active = {}
    /\ active \subseteq {task.op}

(* The status a client polls is the slot's: queued and running operations  *)
(* are exactly the ones the slot holds, so none is reported as under way   *)
(* after it was discarded, cancelled or finished.                          *)
StatusMatchesSlot ==
    \A o \in Op : /\ (status[o] = "queued") = (o \in queued)
                  /\ (status[o] = "running") = (o \in active)

(* A terminal status is never revised, not even by a worker that finishes  *)
(* after shutdown has already reported the operation cancelled.            *)
TerminalIsFinal ==
    [][\A o \in Op : status[o] \in Terminal => status'[o] = status[o]]_vars

(* The registered cancel function belongs to the running operation: a      *)
(* cancel request never goes to a task that has ended.                     *)
CancelIsForActive == ~shuttingDown => cancelFn \subseteq active

(* A queued operation has a token in the channel or a worker that is about *)
(* to look, also after cancels that drained the channel.                   *)
NoLostWakeup ==
    queued # {} /\ ~shuttingDown => token \/ task.pc = "begin"

(* No other goroutine keeps a mutex for ever.  The code does not guarantee *)
(* it: see LeasesEnd of CandidateCatalog, where a speed test keeps         *)
(* publicationMu for good.                                                 *)
LocksReleased == \A l \in Lock : []<>(l \notin held)

(* Every accepted operation comes to an end, as long as the other          *)
(* goroutines release their mutexes.                                       *)
OperationsEnd == LocksReleased =>
    \A o \in Op : (status[o] \in {"queued", "running"}) ~> (status[o] \in Terminal)

(* A running operation whose cancel was accepted passes no further final   *)
(* validation, so it publishes nothing more.  Not kept by the code: README, *)
(* section 3.                                                              *)
CancelInterrupts ==
    [][task.pc = "final" /\ task'.pc = "publish" => task.op \notin asked]_vars
=============================================================================
