------------------------ MODULE CandidateCheckProofs ------------------------
(* The slot of manual candidate checks, for any number of operations and   *)
(* chunks: its status table, its wake-ups and its cancel function.         *)
EXTENDS CandidateCheck, TLAPS

(* Where the worker has an operation of its own.                           *)
Busy == {"began", "chunk", "batch", "lease", "check", "final", "publish", "finish"}

TaskType == [pc : {"wait", "begin", "began", "chunk", "batch", "lease", "check",
                   "final", "publish", "finish", "exit"},
             op : 0 .. seq, left : 0 .. MaxChunks,
             cancelled : BOOLEAN, res : Terminal]

(* The running operation is the one the busy worker holds.                 *)
Owner == /\ active # {} => task.pc \in Busy
         /\ task.pc \in Busy => task.op \in Op

(* An operation not requested yet has no status.                           *)
Unrequested == \A o \in Op : o > seq => status[o] = "none"

SlotInv ==
    /\ TypeOK /\ Owner /\ Unrequested
    /\ StatusMatchesSlot /\ CancelIsForActive /\ NoLostWakeup

(* The invariant holds when the coordinator is created.                    *)
LEMMA SlotInit == Init => SlotInv
<1> SUFFICES ASSUME Init PROVE SlotInv
  OBVIOUS
<1> USE MaxOpsAssumption, MaxChunksAssumption DEF Init
<1>1. task \in TaskType
  BY DEF TaskType, NoTask, Terminal
<1>2. token \in BOOLEAN
  BY Zenon
<1>3. TypeOK
  BY <1>1, <1>2 DEF TypeOK, TaskType, Optional, Op, NoTask, BatchHolds
<1>4. Owner /\ Unrequested
  BY DEF Owner, Unrequested, Busy, NoTask
<1>5. StatusMatchesSlot
  BY DEF StatusMatchesSlot
<1>6. CancelIsForActive /\ NoLostWakeup
  BY DEF CancelIsForActive, NoLostWakeup
<1> QED
  BY <1>3, <1>4, <1>5, <1>6 DEF SlotInv

-----------------------------------------------------------------------------
(* A request takes a free slot under a number nobody used.                 *)
LEMMA EnqueueKeeps == SlotInv /\ Enqueue => SlotInv'
<1> SUFFICES ASSUME SlotInv, Enqueue PROVE SlotInv'
  OBVIOUS
<1> USE MaxOpsAssumption, MaxChunksAssumption DEF SlotInv, Enqueue, SlotFree, Kept
<1>1. seq' \in Op /\ seq' \in 0 .. MaxOps /\ 0 .. seq \subseteq 0 .. seq'
  BY DEF TypeOK, Op
<1>2. \A o \in Op : o # seq' => status'[o] = status[o]
  BY <1>1 DEF TypeOK
<1>3. /\ status'[seq'] \in {"cancelled", "failed", "queued"}
      /\ status' \in [Op -> {"none", "queued", "running"} \cup Terminal]
  BY <1>1 DEF TypeOK, Terminal
<1>4. request' \in 0 .. MaxChunks
  BY DEF TypeOK
<1>5. queued' \in Optional
  BY <1>1 DEF Optional
<1>6. token' \in BOOLEAN
  BY Zenon DEF TypeOK, Signal
<1>7. task' \in TaskType'
  BY <1>1 DEF TypeOK, TaskType
<1>8. TypeOK'
  BY <1>1, <1>3, <1>4, <1>5, <1>6, <1>7 DEF TypeOK, TaskType, BatchHolds
<1>9. Owner' /\ Unrequested'
  BY <1>1, <1>2 DEF TypeOK, Owner, Unrequested, Op
<1>10. StatusMatchesSlot'
  BY <1>1, <1>2, <1>3 DEF StatusMatchesSlot
<1>11. CancelIsForActive'
  BY DEF CancelIsForActive, shuttingDown
<1>12. NoLostWakeup'
  BY Zenon DEF NoLostWakeup, Signal
<1> QED
  BY <1>8, <1>9, <1>10, <1>11, <1>12

(* A cancel empties the queue, or fires the running operation's function.  *)
LEMMA CancelKeeps == SlotInv /\ (CancelQueued \/ CancelActive) => SlotInv'
<1> SUFFICES ASSUME SlotInv, CancelQueued \/ CancelActive PROVE SlotInv'
  OBVIOUS
<1> USE DEF SlotInv
<1>1. CASE CancelQueued
  <2>1. TypeOK'
    <3>1. queued' = {} /\ request' = 0 /\ token' = FALSE
      BY <1>1 DEF CancelQueued
    <3>3. queued' \in Optional
      BY <3>1 DEF Optional
    <3>4. request' \in 0 .. MaxChunks
      BY <3>1, MaxChunksAssumption
    <3>5. token' \in BOOLEAN
      BY <3>1
    <3>2. status' \in [Op -> {"none", "queued", "running"} \cup Terminal]
      BY <1>1 DEF TypeOK, CancelQueued, Terminal
    <3> QED BY <1>1, <3>2, <3>3, <3>4, <3>5 DEF TypeOK, CancelQueued, BatchHolds
  <2>2. Owner' /\ CancelIsForActive'
    BY <1>1 DEF CancelQueued, Owner, CancelIsForActive, shuttingDown
  <2>3. Unrequested'
    BY <1>1 DEF TypeOK, CancelQueued, Unrequested, StatusMatchesSlot
  <2>4. StatusMatchesSlot'
    BY <1>1 DEF TypeOK, CancelQueued, StatusMatchesSlot
  <2>5. NoLostWakeup'
    BY <1>1 DEF CancelQueued, NoLostWakeup
  <2> QED BY <2>1, <2>2, <2>3, <2>4, <2>5
<1>2. CASE CancelActive
  <2>1. /\ task' \in TaskType /\ UNCHANGED <<seq, status, active, queued, request, token, stop, held>>
        /\ task'.pc = task.pc /\ task'.op = task.op
    BY <1>2 DEF TypeOK, TaskType, CancelActive
  <2>2. TypeOK'
    BY <1>2, <2>1 DEF TypeOK, TaskType, CancelActive, Optional, BatchHolds
  <2>3. Owner' /\ Unrequested' /\ StatusMatchesSlot'
    BY <2>1 DEF Owner, Unrequested, StatusMatchesSlot
  <2>4. CancelIsForActive' /\ NoLostWakeup'
    BY <1>2, <2>1 DEF CancelActive, CancelIsForActive, NoLostWakeup
  <2> QED BY <2>2, <2>3, <2>4
<1> QED BY <1>1, <1>2

-----------------------------------------------------------------------------
(* A step that moves the worker between places where it owns its operation *)
(* and leaves everything else alone keeps the invariant.                   *)
LEMMA BusyKeeps ==
    ASSUME SlotInv, task.pc \in Busy, task' \in TaskType, task'.pc \in Busy,
           task'.op = task.op, (held \cap BatchHolds)' = {},
           UNCHANGED <<seq, status, slot, stop, held, asked>>
    PROVE  SlotInv'
<1> USE DEF SlotInv, slot
<1>1. TypeOK'
  BY DEF TypeOK, TaskType
<1>2. Owner' /\ Unrequested' /\ StatusMatchesSlot'
  BY DEF Owner, Unrequested, StatusMatchesSlot
<1>3. CancelIsForActive'
  BY DEF CancelIsForActive, shuttingDown
<1>4. NoLostWakeup'
  BY DEF NoLostWakeup, shuttingDown, Owner, TypeOK, Busy
<1> QED BY <1>1, <1>2, <1>3, <1>4

(* The batches of an operation.                                            *)
LEMMA BatchKeeps ==
    SlotInv /\ (StartChunk \/ StartBatch \/ LeaseBatch \/ CheckBatch
                \/ FinalValidation \/ PublishBatch) => SlotInv'
<1> SUFFICES ASSUME SlotInv,
                    StartChunk \/ StartBatch \/ LeaseBatch \/ CheckBatch
                       \/ FinalValidation \/ PublishBatch
             PROVE  SlotInv'
  OBVIOUS
<1>1. task \in TaskType /\ Terminal = {"complete", "failed", "cancelled", "superseded"}
  BY DEF SlotInv, TypeOK, TaskType, Terminal
<1>2. ASSUME NEW res \in Terminal, task.pc \in Busy, Finish(res)
      PROVE  task' \in TaskType /\ task'.pc \in Busy /\ task'.op = task.op
  BY <1>1, <1>2 DEF TaskType, Finish, Busy
<1>3. ASSUME NEW res \in Terminal, task.pc \in Busy, AfterBatch(res)
      PROVE  task' \in TaskType /\ task'.pc \in Busy /\ task'.op = task.op
  <2>1. CASE Finish(res)
    BY <1>2, <1>3, <2>1
  <2>2. CASE /\ task.left > 1
             /\ task' = [task EXCEPT !.pc = "chunk", !.left = task.left - 1]
    <3>1. task.left - 1 \in 0 .. MaxChunks
      BY <1>1, <2>2, MaxChunksAssumption DEF TaskType
    <3> QED BY <1>1, <2>2, <3>1 DEF TaskType, Busy
  <2> QED BY <1>3, <2>1, <2>2 DEF AfterBatch
<1>4. ASSUME NEW pc \in {"batch", "lease", "check", "final", "publish"}, task.pc \in Busy,
             task' = [task EXCEPT !.pc = pc]
      PROVE  task' \in TaskType /\ task'.pc \in Busy /\ task'.op = task.op
  BY <1>1, <1>4 DEF TaskType, Busy
<1>5. task.pc \in Busy /\ UNCHANGED <<seq, status, slot, stop, held, asked>>
  BY DEF StartChunk, StartBatch, LeaseBatch, CheckBatch, FinalValidation, PublishBatch, Busy
<1>6. held \subseteq Lock /\ held \cap BatchHolds = {}
  BY DEF SlotInv, TypeOK
<1> DEFINE Good == /\ task' \in TaskType /\ task'.pc \in Busy /\ task'.op = task.op
                   /\ (held \cap BatchHolds)' = {}
<1>7. ASSUME NEW res \in Terminal, AfterBatch(res) PROVE Good
  <2>1. task'.pc \in {"chunk", "finish"}
    BY <1>1, <1>7 DEF AfterBatch, Finish, TaskType
  <2>2. (held \cap BatchHolds)' = {}
    BY <2>1 DEF BatchHolds
  <2> QED BY <1>3, <1>5, <1>7, <2>2
<1>8. ASSUME NEW pc \in {"batch", "lease", "check", "final", "publish"},
             task' = [task EXCEPT !.pc = pc],
             pc \in {"lease", "check", "final"} => "healthCycleMu" \notin held,
             pc = "publish" => /\ "healthCycleMu" \notin held
                               /\ "sourceLifecycleMu" \notin held
      PROVE  Good
  <2>1. task'.pc = pc
    BY <1>1, <1>8 DEF TaskType
  <2>2. (held \cap BatchHolds)' = {}
    BY <1>5, <1>8, <2>1 DEF BatchHolds
  <2> QED BY <1>4, <1>5, <1>8, <2>2
<1>9. Good
  <2>1. CASE StartChunk
    <3>1. CASE Finish("cancelled")
      <4>1. task'.pc = "finish"
        BY <1>1, <3>1 DEF Finish, TaskType
      <4>2. (held \cap BatchHolds)' = {}
        BY <4>1 DEF BatchHolds
      <4> QED BY <1>1, <1>2, <1>5, <3>1, <4>2
    <3> QED BY <1>8, <2>1, <3>1 DEF StartChunk
  <2>2. CASE StartBatch
    BY <1>1, <1>7, <1>8, <2>2 DEF StartBatch
  <2>3. CASE LeaseBatch
    <3>1. "healthCycleMu" \notin held
      BY <1>6, <2>3 DEF LeaseBatch, BatchHolds
    <3> QED BY <1>1, <1>7, <1>8, <2>3, <3>1 DEF LeaseBatch
  <2>4. CASE CheckBatch
    <3>1. "healthCycleMu" \notin held
      BY <1>6, <2>4 DEF CheckBatch, BatchHolds
    <3> QED BY <1>1, <1>7, <1>8, <2>4, <3>1 DEF CheckBatch
  <2>5. CASE FinalValidation
    <3>1. "healthCycleMu" \notin held
      BY <1>6, <2>5 DEF FinalValidation, BatchHolds
    <3> QED BY <1>1, <1>7, <1>8, <2>5, <3>1 DEF FinalValidation
  <2>6. CASE PublishBatch
    BY <1>1, <1>7, <2>6 DEF PublishBatch
  <2> QED BY <2>1, <2>2, <2>3, <2>4, <2>5, <2>6
<1> QED BY <1>5, <1>9, BusyKeeps

(* Other goroutines take and release mutexes.                              *)
LEMMA MutexKeeps ==
    ASSUME SlotInv, NEW l \in Lock, Acquire(l) \/ Release(l)
    PROVE  SlotInv'
<1> USE DEF SlotInv
<1>1. UNCHANGED <<seq, status, queued, request, active, cancelFn, token, task, stop, asked>>
  BY DEF Acquire, Release, slot
<1>2. held' \subseteq Lock /\ held' \cap BatchHolds = {}
  BY DEF TypeOK, Acquire, Release
<1>3. TypeOK'
  BY <1>1, <1>2 DEF TypeOK, BatchHolds
<1>4. Owner' /\ Unrequested' /\ StatusMatchesSlot'
  BY <1>1 DEF Owner, Unrequested, StatusMatchesSlot
<1>5. CancelIsForActive' /\ NoLostWakeup'
  BY <1>1 DEF CancelIsForActive, NoLostWakeup, shuttingDown
<1> QED BY <1>3, <1>4, <1>5

(* The worker takes a token, claims what is queued and registers.          *)
LEMMA ClaimKeeps ==
    SlotInv /\ (Wake \/ beginCandidateCheckOperation \/ Register) => SlotInv'
<1> SUFFICES ASSUME SlotInv, Wake \/ beginCandidateCheckOperation \/ Register
             PROVE  SlotInv'
  OBVIOUS
<1> USE MaxOpsAssumption, MaxChunksAssumption DEF SlotInv
<1>0. task \in TaskType
  BY DEF TypeOK, TaskType
<1>1. CASE Wake
  <2>1. task' \in TaskType /\ task'.pc = "begin" /\ task'.op = task.op
    BY <1>0, <1>1 DEF TaskType, Wake
  <2>2. active = {} /\ UNCHANGED <<seq, status, request, queued, active, cancelFn, stop, held, asked>>
    BY <1>1 DEF Wake, Owner, Busy
  <2>3. token' \in BOOLEAN
    BY <1>1, Zenon DEF Wake
  <2>4. TypeOK'
    BY <2>1, <2>2, <2>3 DEF TypeOK, BatchHolds, TaskType
  <2>5. Owner' /\ Unrequested' /\ StatusMatchesSlot'
    BY <2>1, <2>2 DEF Owner, Unrequested, StatusMatchesSlot, Busy
  <2>6. CancelIsForActive' /\ NoLostWakeup'
    BY <2>1, <2>2 DEF CancelIsForActive, NoLostWakeup, shuttingDown
  <2> QED BY <2>4, <2>5, <2>6
<1>2. CASE beginCandidateCheckOperation /\ Claimable
  <2>1. PICK o \in queued :
           task' = [pc |-> "began", op |-> o, left |-> request,
                    cancelled |-> FALSE, res |-> "failed"]
    BY <1>2 DEF beginCandidateCheckOperation
  <2>2. /\ active = {} /\ cancelFn = {} /\ queued' = {} /\ active' = queued
        /\ status' = [x \in Op |-> IF x \in queued THEN "running" ELSE status[x]]
        /\ request' = 0 /\ UNCHANGED <<seq, cancelFn, token, stop, held, asked>>
    BY <1>2 DEF beginCandidateCheckOperation, Claimable, CancelIsForActive
  <2>3. o \in Op /\ queued = {o} /\ status[o] = "queued"
    BY <2>1 DEF TypeOK, Optional, StatusMatchesSlot
  <2>4. o \in 0 .. seq
    BY <2>3 DEF TypeOK, Unrequested, Op
  <2>5. task' \in TaskType' /\ task'.pc = "began" /\ task'.op = o
    BY <2>1, <2>2, <2>3, <2>4 DEF TypeOK, TaskType, Terminal
  <2>6. TypeOK'
    BY <2>2, <2>3, <2>5 DEF TypeOK, BatchHolds, TaskType, Optional
  <2>7. Owner'
    BY <2>3, <2>5 DEF Owner, Busy
  <2>8. Unrequested' /\ StatusMatchesSlot'
    BY <2>2, <2>3 DEF TypeOK, Unrequested, StatusMatchesSlot
  <2>9. CancelIsForActive' /\ NoLostWakeup'
    BY <2>2 DEF CancelIsForActive, NoLostWakeup
  <2> QED BY <2>6, <2>7, <2>8, <2>9
<1>3. CASE beginCandidateCheckOperation /\ ~Claimable
  <2>1. /\ task.pc = "begin" /\ task' = NoTask
        /\ UNCHANGED <<seq, status, request, queued, active, cancelFn, token, stop, held, asked>>
    BY <1>3 DEF beginCandidateCheckOperation
  <2>2. task' \in TaskType /\ task'.pc = "wait"
    BY <2>1 DEF TypeOK, TaskType, NoTask, Terminal
  <2>3. active = {} /\ (queued = {} \/ shuttingDown)
    BY <1>3, <2>1 DEF Owner, Busy, Claimable
  <2>4. TypeOK'
    BY <2>1, <2>2, <2>3 DEF TypeOK, BatchHolds, TaskType
  <2>5. Owner' /\ Unrequested' /\ StatusMatchesSlot'
    BY <2>1, <2>2, <2>3 DEF Owner, Unrequested, StatusMatchesSlot, Busy
  <2>6. CancelIsForActive' /\ NoLostWakeup'
    BY <2>1, <2>3 DEF CancelIsForActive, NoLostWakeup, shuttingDown
  <2> QED BY <2>4, <2>5, <2>6
<1>4. CASE Register
  <2>1. /\ task.pc \in Busy /\ task.op \in Op
        /\ UNCHANGED <<seq, status, request, queued, active, token, stop, held, asked>>
    BY <1>4 DEF Register, Owner, Busy
  <2>2. task' \in TaskType /\ task'.pc \in Busy /\ task'.op = task.op
    BY <1>0, <1>4 DEF Register, Finish, TaskType, Busy, Terminal
  <2>3. cancelFn' = cancelFn \/ (cancelFn' = {task.op} /\ task.op \in active)
    BY <1>4 DEF Register
  <2>4. TypeOK'
    <3>1. task'.pc \in {"finish", "batch", "chunk"}
      BY <1>0, <1>4 DEF Register, Finish, TaskType
    <3>2. (held \cap BatchHolds)' = {}
      BY <3>1 DEF BatchHolds
    <3> QED BY <2>1, <2>2, <2>3, <3>2 DEF TypeOK, TaskType, Optional
  <2>5. Owner' /\ Unrequested' /\ StatusMatchesSlot'
    BY <2>1, <2>2 DEF Owner, Unrequested, StatusMatchesSlot
  <2>6. CancelIsForActive'
    BY <2>1, <2>3 DEF CancelIsForActive, shuttingDown
  <2>7. NoLostWakeup'
    BY <1>4, <2>1 DEF Register, NoLostWakeup, shuttingDown
  <2> QED BY <2>4, <2>5, <2>6, <2>7
<1> QED BY <1>1, <1>2, <1>3, <1>4

(* The end of an operation, of its slot and of the worker.                 *)
LEMMA EndKeeps ==
    SlotInv /\ (finishCandidateCheckOperation \/ ShutdownBegin \/ ShutdownClear
                \/ LifecycleCancel \/ WorkerExit) => SlotInv'
<1> SUFFICES ASSUME SlotInv,
                    finishCandidateCheckOperation \/ ShutdownBegin \/ ShutdownClear
                       \/ LifecycleCancel \/ WorkerExit
             PROVE  SlotInv'
  OBVIOUS
<1> USE MaxOpsAssumption, MaxChunksAssumption DEF SlotInv
<1>0. task \in TaskType
  BY DEF TypeOK, TaskType
<1>1. CASE finishCandidateCheckOperation
  <2>1. /\ task.pc = "finish" /\ task.op \in Op /\ task.res \in Terminal
        /\ task' = NoTask /\ asked' = {} /\ UNCHANGED <<seq, request, queued, token, stop, held>>
    BY <1>0, <1>1 DEF finishCandidateCheckOperation, Owner, Busy, TaskType
  <2>2. task' \in TaskType /\ task'.pc = "wait"
    BY <2>1 DEF TypeOK, TaskType, NoTask, Terminal
  <2>3. CASE task.op \in active
    <3>1. /\ active' = {} /\ cancelFn' = {} /\ active = {task.op} /\ queued = {}
          /\ status' = [status EXCEPT ![task.op] = task.res]
      BY <1>1, <2>3 DEF TypeOK, finishCandidateCheckOperation
    <3>2. task.op <= seq /\ status[task.op] = "running"
      BY <1>0, <2>1, <2>3 DEF TypeOK, TaskType, StatusMatchesSlot
    <3>3. TypeOK'
      BY <2>1, <2>2, <3>1 DEF TypeOK, BatchHolds, TaskType, Optional
    <3>4. Owner' /\ CancelIsForActive' /\ NoLostWakeup'
      BY <2>1, <2>2, <3>1 DEF Owner, Busy, CancelIsForActive, NoLostWakeup
    <3>5. StatusMatchesSlot'
      BY <2>1, <3>1 DEF TypeOK, StatusMatchesSlot, Terminal
    <3>6. Unrequested'
      <4>1. status[task.op] # "none" BY <3>2
      <4>2. ~(task.op > seq) BY <2>1, <4>1 DEF Unrequested
      <4> QED BY <2>1, <3>1, <4>2 DEF TypeOK, Unrequested
    <3> QED BY <3>3, <3>4, <3>5, <3>6
  <2>4. CASE task.op \notin active
    <3>1. active = {} /\ UNCHANGED <<status, active, cancelFn>>
      BY <1>1, <2>4 DEF TypeOK, finishCandidateCheckOperation
    <3>2. TypeOK'
      BY <2>1, <2>2, <3>1 DEF TypeOK, BatchHolds, TaskType
    <3>3. Owner' /\ Unrequested' /\ StatusMatchesSlot'
      BY <2>1, <2>2, <3>1 DEF Owner, Busy, Unrequested, StatusMatchesSlot
    <3>4. CancelIsForActive' /\ NoLostWakeup'
      BY <2>1, <3>1 DEF CancelIsForActive, NoLostWakeup, shuttingDown
    <3> QED BY <3>2, <3>3, <3>4
  <2> QED BY <2>3, <2>4
<1>2. CASE ShutdownBegin \/ LifecycleCancel
  <2>1. UNCHANGED <<seq, status, request, queued, active, cancelFn, token, task, held, asked>>
    BY <1>2 DEF ShutdownBegin, LifecycleCancel, slot
  <2>2. stop' \in {"stopping", "cancelled"}
    BY <1>2 DEF ShutdownBegin, LifecycleCancel
  <2>3. TypeOK'
    BY <2>1, <2>2 DEF TypeOK, BatchHolds
  <2>4. Owner' /\ Unrequested' /\ StatusMatchesSlot'
    BY <2>1 DEF Owner, Unrequested, StatusMatchesSlot
  <2>5. CancelIsForActive' /\ NoLostWakeup'
    BY <2>2 DEF CancelIsForActive, NoLostWakeup, shuttingDown
  <2> QED BY <2>3, <2>4, <2>5
<1>3. CASE ShutdownClear
  <2>1. /\ queued' = {} /\ request' = 0 /\ active' = {} /\ token' = FALSE /\ stop' = "stopped"
        /\ status' = [o \in Op |-> IF o \in active \cup queued THEN "cancelled" ELSE status[o]]
        /\ UNCHANGED <<seq, cancelFn, task, held, asked>>
    BY <1>3 DEF ShutdownClear
  <2>2. TypeOK'
    <3>1. queued' \in Optional /\ active' \in Optional /\ token' \in BOOLEAN
      BY <2>1 DEF Optional
    <3>2. status' \in [Op -> {"none", "queued", "running"} \cup Terminal]
      BY <2>1 DEF TypeOK, Terminal
    <3>3. (held \cap BatchHolds)' = {}
      BY <2>1 DEF TypeOK, BatchHolds
    <3> QED BY <2>1, <3>1, <3>2, <3>3 DEF TypeOK
  <2>3. Owner' /\ CancelIsForActive' /\ NoLostWakeup'
    BY <2>1 DEF Owner, CancelIsForActive, NoLostWakeup, shuttingDown
  <2>4. StatusMatchesSlot'
    BY <2>1 DEF TypeOK, StatusMatchesSlot
  <2>5. Unrequested'
    BY <2>1 DEF TypeOK, StatusMatchesSlot, Unrequested
  <2> QED BY <2>2, <2>3, <2>4, <2>5
<1>4. CASE WorkerExit
  <2>1. /\ task.pc = "wait" /\ task' = [task EXCEPT !.pc = "exit"] /\ stop = "cancelled"
        /\ UNCHANGED <<seq, status, request, queued, active, cancelFn, token, stop, held, asked>>
    BY <1>4 DEF WorkerExit, ctxDone, slot
  <2>2. task' \in TaskType /\ task'.pc = "exit" /\ active = {}
    BY <1>0, <2>1 DEF TaskType, Owner, Busy
  <2>3. TypeOK'
    BY <2>1, <2>2 DEF TypeOK, BatchHolds, TaskType
  <2>4. Owner' /\ Unrequested' /\ StatusMatchesSlot'
    BY <2>1, <2>2 DEF Owner, Busy, Unrequested, StatusMatchesSlot
  <2>5. CancelIsForActive' /\ NoLostWakeup'
    BY <2>1 DEF CancelIsForActive, NoLostWakeup, shuttingDown
  <2> QED BY <2>3, <2>4, <2>5
<1> QED BY <1>1, <1>2, <1>3, <1>4

-----------------------------------------------------------------------------
(* The invariant is inductive.                                             *)
THEOREM SlotStep == SlotInv /\ [Next]_vars => SlotInv'
<1> SUFFICES ASSUME SlotInv, [Next]_vars PROVE SlotInv'
  OBVIOUS
<1>1. CASE UNCHANGED vars
  BY <1>1 DEF vars, slot, SlotInv, TypeOK, Owner, Unrequested, StatusMatchesSlot,
     CancelIsForActive, NoLostWakeup, shuttingDown, BatchHolds
<1>2. CASE WorkerStep
  BY <1>2, ClaimKeeps, BatchKeeps, EndKeeps DEF WorkerStep
<1> QED BY <1>1, <1>2, EnqueueKeeps, CancelKeeps, MutexKeeps, EndKeeps DEF Next

(* Every reachable state of the slot satisfies the invariant.              *)
THEOREM SlotInvariant == Spec => []SlotInv
BY SlotInit, SlotStep, PTL DEF Spec

(* The slot holds one operation, queued or running, and a running one is   *)
(* the worker's.                                                           *)
THEOREM CandidateTypeCorrect == Spec => []TypeOK
BY SlotInvariant, PTL DEF SlotInv

(* The polled status of every operation is the slot's.                     *)
THEOREM CandidateStatusMatches == Spec => []StatusMatchesSlot
BY SlotInvariant, PTL DEF SlotInv

(* The registered cancel function belongs to the running operation.        *)
THEOREM CandidateCancelActive == Spec => []CancelIsForActive
BY SlotInvariant, PTL DEF SlotInv

(* No accepted request waits in the slot without a wake-up.                *)
THEOREM CandidateNoLostWakeup == Spec => []NoLostWakeup
BY SlotInvariant, PTL DEF SlotInv

(* A terminal status is never revised: a step writes only the status of a  *)
(* new number, of the queued operation or of the running one.              *)
THEOREM CandidateTerminalFinal == Spec => TerminalIsFinal
<1> DEFINE Keeps == \A o \in Op : status[o] \in Terminal => status'[o] = status[o]
<1>1. SlotInv /\ [Next]_vars => [Keeps]_vars
  <2> SUFFICES ASSUME SlotInv, Next, NEW o \in Op, status[o] \in Terminal
               PROVE  status'[o] = status[o]
    OBVIOUS
  <2>0. o \notin queued /\ o \notin active /\ o <= seq
    BY DEF SlotInv, StatusMatchesSlot, Unrequested, TypeOK, Terminal, Op
  <2>1. CASE Enqueue
    BY <2>0, <2>1 DEF SlotInv, TypeOK, Enqueue
  <2>2. CASE CancelQueued
    BY <2>0, <2>2 DEF CancelQueued
  <2>3. CASE beginCandidateCheckOperation
    BY <2>0, <2>3 DEF beginCandidateCheckOperation
  <2>4. CASE finishCandidateCheckOperation
    BY <2>0, <2>4 DEF SlotInv, TypeOK, finishCandidateCheckOperation
  <2>5. CASE ShutdownClear
    BY <2>0, <2>5 DEF ShutdownClear
  <2>6. CASE UNCHANGED status
    BY <2>6
  <2> QED
    BY <2>1, <2>2, <2>3, <2>4, <2>5, <2>6 DEF Next, WorkerStep, CancelActive, Wake,
       Register, StartChunk, StartBatch, LeaseBatch, CheckBatch, FinalValidation, PublishBatch,
       ShutdownBegin, LifecycleCancel, WorkerExit, Acquire, Release
<1> QED
  BY <1>1, SlotInvariant, PTL DEF Spec, TerminalIsFinal
=============================================================================
