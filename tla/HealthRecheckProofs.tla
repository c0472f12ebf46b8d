------------------------ MODULE HealthRecheckProofs ------------------------
(* The safety of the recheck queue, for any number of handlers and any     *)
(* number of criterion changes.                                            *)
EXTENDS HealthRecheck, TLAPS

(* A trigger call is not between queueing and signalling while shutdown    *)
(* runs: it holds lifecycleMu, and later calls queue nothing.              *)
NoLateSender == shuttingDown => \A c \in Caller : caller[c].pc # "send"

QueueInv == TypeOK /\ NoLostWakeup /\ ShutdownIsFinal /\ NoLateSender

(* The invariant holds when the coordinator is created.                    *)
LEMMA QueueInit == Init => QueueInv
<1> SUFFICES ASSUME Init PROVE QueueInv
  OBVIOUS
<1> USE MaxGenAssumption DEF Init
<1>1. gen \in Gen /\ asked \in Gen /\ ended \subseteq Gen /\ 0 \in 0 .. gen
  BY DEF Gen
<1>2. caller \in [Caller -> [pc : {"idle", "reset", "flush", "trigger", "queue", "send"},
                             gen : 0 .. gen]]
  BY <1>1
<1>3. worker \in [pc : {"wait", "awake", "baseline", "cycle", "claim", "exit"} \cup Owns,
                  timerWake : BOOLEAN, gen : 0 .. gen]
  BY <1>1
<1>4. guard \in BOOLEAN /\ token \in BOOLEAN
  BY Zenon
<1>5. TypeOK
  BY <1>1, <1>2, <1>3, <1>4 DEF TypeOK, Optional, Cycling
<1> QED
  BY <1>5 DEF QueueInv, NoLostWakeup, ShutdownIsFinal, NoLateSender, shuttingDown

(* A step of a caller: its criterion change, its reset of the catalog, its  *)
(* flush, its trigger call.                                                *)
LEMMA CallerKeeps ==
    ASSUME QueueInv, NEW c \in Caller,
           \/ (c \in Handler /\ Change(c))
           \/ ResetOutcomes(c) \/ Flush(c) \/ TriggerRead(c) \/ TriggerQueue(c) \/ TriggerSend(c)
    PROVE  QueueInv'
<1> USE MaxGenAssumption DEF QueueInv, shuttingDown, Gen, pool, history, Cycling
<1>1. CASE c \in Handler /\ Change(c)
  <2>1. TypeOK'
    BY <1>1 DEF TypeOK, Change, InvalidateHealth, Owns, Optional
  <2>2. NoLostWakeup' /\ ShutdownIsFinal' /\ NoLateSender'
    BY <1>1 DEF TypeOK, Change, InvalidateHealth, NoLostWakeup, ShutdownIsFinal, NoLateSender
  <2> QED BY <2>1, <2>2
<1>2. CASE Flush(c)
  <2>1. TypeOK'
    BY <1>2 DEF TypeOK, Flush, Owns, Optional
  <2>2. NoLostWakeup' /\ ShutdownIsFinal' /\ NoLateSender'
    BY <1>2 DEF TypeOK, Flush, NoLostWakeup, ShutdownIsFinal, NoLateSender
  <2> QED BY <2>1, <2>2
<1>3. CASE TriggerRead(c)
  <2>1. TypeOK'
    BY <1>3 DEF TypeOK, TriggerRead, Owns, Optional
  <2>2. NoLostWakeup' /\ ShutdownIsFinal' /\ NoLateSender'
    BY <1>3 DEF TypeOK, TriggerRead, NoLostWakeup, ShutdownIsFinal, NoLateSender
  <2> QED BY <2>1, <2>2
<1>4. CASE TriggerQueue(c)
  <2>0. caller[c].gen \in 0 .. gen /\ caller[c].gen \in Gen
    BY DEF TypeOK
  <2>1. TypeOK'
    BY <1>4, <2>0 DEF TypeOK, TriggerQueue, Owns, Optional
  <2>2. NoLostWakeup' /\ ShutdownIsFinal' /\ NoLateSender'
    BY <1>4 DEF TypeOK, TriggerQueue, NoLostWakeup, ShutdownIsFinal, NoLateSender
  <2> QED BY <2>1, <2>2
<1>5. CASE TriggerSend(c)
  <2>1. TypeOK'
    BY <1>5 DEF TypeOK, TriggerSend, Owns, Optional
  <2>2. NoLostWakeup' /\ ShutdownIsFinal' /\ NoLateSender'
    BY <1>5 DEF TypeOK, TriggerSend, NoLostWakeup, ShutdownIsFinal, NoLateSender
  <2> QED BY <2>1, <2>2
<1>6. CASE ResetOutcomes(c)
  <2>1. TypeOK'
    BY <1>6 DEF TypeOK, ResetOutcomes, Owns, Optional
  <2>2. NoLostWakeup' /\ ShutdownIsFinal' /\ NoLateSender'
    BY <1>6 DEF TypeOK, ResetOutcomes, NoLostWakeup, ShutdownIsFinal, NoLateSender
  <2> QED BY <2>1, <2>2
<1> QED BY <1>1, <1>2, <1>3, <1>4, <1>5, <1>6

(* Other goroutines take and release mutexes.                              *)
LEMMA MutexKeeps ==
    ASSUME QueueInv, NEW l \in Lock, Acquire(l) \/ Release(l)
    PROVE  QueueInv'
<1> USE DEF QueueInv, shuttingDown
<1>1. UNCHANGED <<gen, guard, caller, queued, active, token, worker, stop, asked, ended>>
  BY DEF Acquire, Release, pool, history
<1>2. held' \subseteq Lock /\ ~("healthCycleMu" \in held' /\ worker.pc \in Cycling)
  BY DEF TypeOK, Acquire, Release
<1>3. TypeOK'
  BY <1>1, <1>2 DEF TypeOK
<1>4. NoLostWakeup' /\ ShutdownIsFinal' /\ NoLateSender'
  BY <1>1 DEF NoLostWakeup, ShutdownIsFinal, NoLateSender
<1> QED BY <1>3, <1>4

(* A step of the worker that leaves both slots of the coordinator alone.   *)
LEMMA WorkerKeeps ==
    ASSUME QueueInv, Wake \/ CheckPending \/ RefreshBaseline \/ ClaimRead
                     \/ RunPass \/ CompleteHealthRecheck \/ FlushPass
    PROVE  QueueInv'
<1> USE MaxGenAssumption DEF QueueInv, shuttingDown, Gen, Goto, pool, history, Cycling
<1>1. CASE Wake
  <2>1. TypeOK' BY <1>1 DEF TypeOK, Wake, Owns, Optional
  <2>2. NoLostWakeup'
    <3>1. worker'.pc = "awake" BY <1>1 DEF TypeOK, Wake
    <3> QED BY <3>1 DEF NoLostWakeup
  <2>3. ShutdownIsFinal'
    <3>1. ~token => ~token'
      <4>1. CASE token BY <4>1
      <4>2. CASE ~token /\ UNCHANGED token BY <4>2
      <4> QED BY <1>1, <4>1, <4>2 DEF Wake
    <3> QED BY <1>1, <3>1 DEF Wake, ShutdownIsFinal
  <2>4. NoLateSender' BY <1>1 DEF Wake, NoLateSender
  <2> QED BY <2>1, <2>2, <2>3, <2>4
<1>2. CASE CheckPending
  <2>1. TypeOK' BY <1>2 DEF TypeOK, CheckPending, Owns, Optional
  <2>2. NoLostWakeup' /\ ShutdownIsFinal' /\ NoLateSender'
    BY <1>2 DEF TypeOK, CheckPending, NoLostWakeup, ShutdownIsFinal, NoLateSender
  <2> QED BY <2>1, <2>2
<1>3. CASE RefreshBaseline
  <2>0. gen' \in Gen /\ gen \in Nat /\ gen' \in Nat /\ gen <= gen'
    BY <1>3 DEF TypeOK, RefreshBaseline, InvalidateHealth
  <2>a. 0 .. gen \subseteq 0 .. gen' /\ Worker \in Caller
    BY <2>0 DEF Caller
  <2>b. caller' \in [Caller -> [pc : {"idle", "reset", "flush", "trigger", "queue", "send"},
                                gen : 0 .. gen']]
    <3>1. CASE UNCHANGED <<pool, caller>>
      BY <2>a, <3>1 DEF TypeOK
    <3>2. CASE InvalidateHealth(Worker, "reset")
      BY <2>a, <3>2 DEF TypeOK, InvalidateHealth
    <3> QED BY <1>3, <3>1, <3>2 DEF RefreshBaseline
  <2>c. worker' \in [pc : {"wait", "awake", "baseline", "cycle", "claim", "exit"} \cup Owns,
                     timerWake : BOOLEAN, gen : 0 .. gen']
    BY <1>3, <2>a DEF TypeOK, RefreshBaseline
  <2>d. guard' \in BOOLEAN
    BY <1>3, Zenon DEF TypeOK, RefreshBaseline, InvalidateHealth
  <2>e. active = {}
    BY <1>3 DEF TypeOK, RefreshBaseline, Owns
  <2>1. TypeOK'
    BY <1>3, <2>0, <2>b, <2>c, <2>d, <2>e DEF TypeOK, RefreshBaseline
  <2>2. NoLostWakeup' /\ ShutdownIsFinal' /\ NoLateSender'
    BY <1>3 DEF TypeOK, RefreshBaseline, InvalidateHealth, Caller,
       NoLostWakeup, ShutdownIsFinal, NoLateSender
  <2> QED BY <2>1, <2>2
<1>4. CASE ClaimRead
  <2>a. worker' \in [pc : {"wait", "awake", "baseline", "cycle", "claim", "exit"} \cup Owns,
                     timerWake : BOOLEAN, gen : 0 .. gen']
    <3>1. gen \in 0 .. gen /\ gen' = gen
      BY <1>4 DEF TypeOK, ClaimRead
    <3>2. worker' = [pc |-> "claim", timerWake |-> worker.timerWake, gen |-> gen]
      BY <1>4 DEF TypeOK, ClaimRead
    <3>3. worker.timerWake \in BOOLEAN
      BY DEF TypeOK
    <3> QED BY <3>1, <3>2, <3>3
  <2>b. active = {}
    BY <1>4 DEF TypeOK, ClaimRead, Owns
  <2>1. TypeOK'
    BY <1>4, <2>a, <2>b DEF TypeOK, ClaimRead
  <2>2. NoLostWakeup' /\ ShutdownIsFinal' /\ NoLateSender'
    BY <1>4 DEF TypeOK, ClaimRead, NoLostWakeup, ShutdownIsFinal, NoLateSender
  <2> QED BY <2>1, <2>2
<1>5. CASE RunPass
  <2>1. TypeOK' BY <1>5 DEF TypeOK, RunPass, Owns, Optional
  <2>2. NoLostWakeup' /\ ShutdownIsFinal' /\ NoLateSender'
    BY <1>5 DEF TypeOK, RunPass, NoLostWakeup, ShutdownIsFinal, NoLateSender
  <2> QED BY <2>1, <2>2
<1>6. CASE CompleteHealthRecheck
  <2>a. worker' \in [pc : {"wait", "awake", "baseline", "cycle", "claim", "exit"} \cup Owns,
                     timerWake : BOOLEAN, gen : 0 .. gen']
    BY <1>6 DEF TypeOK, CompleteHealthRecheck, Owns
  <2>b. active' = {} \/ (worker'.pc \in Owns /\ active' = {worker'.gen})
    BY <1>6 DEF TypeOK, CompleteHealthRecheck, Owns
  <2>c. guard' \in BOOLEAN
    BY <1>6, Zenon DEF TypeOK, CompleteHealthRecheck
  <2>1. TypeOK'
    BY <1>6, <2>a, <2>b, <2>c DEF TypeOK, CompleteHealthRecheck
  <2>2. NoLostWakeup' /\ ShutdownIsFinal' /\ NoLateSender'
    BY <1>6 DEF TypeOK, CompleteHealthRecheck, NoLostWakeup, ShutdownIsFinal, NoLateSender
  <2> QED BY <2>1, <2>2
<1>7. CASE FlushPass
  <2>1. TypeOK' BY <1>7 DEF TypeOK, FlushPass, Owns, Optional
  <2>2. NoLostWakeup' /\ ShutdownIsFinal' /\ NoLateSender'
    BY <1>7 DEF TypeOK, FlushPass, NoLostWakeup, ShutdownIsFinal, NoLateSender
  <2> QED BY <2>1, <2>2
<1> QED BY <1>1, <1>2, <1>3, <1>4, <1>5, <1>6, <1>7

(* A step that fills or empties a slot: claim, finish, shutdown, exit.     *)
LEMMA SlotKeeps ==
    ASSUME QueueInv, Claim \/ finishHealthRecheckOperation \/ ShutdownBegin
                     \/ ShutdownClear \/ WorkerExit
    PROVE  QueueInv'
<1> USE MaxGenAssumption DEF QueueInv, shuttingDown, Gen, Goto, pool, history, Cycling
<1>1. CASE Claim
  <2>0. worker.gen \in Gen /\ active = {}
    BY <1>1 DEF TypeOK, Claim, Owns
  <2>1. TypeOK'
    BY <1>1, <2>0 DEF TypeOK, Claim, Claimable, Supersede, Owns, Optional
  <2>2. NoLostWakeup' /\ ShutdownIsFinal' /\ NoLateSender'
    BY <1>1, <2>0 DEF TypeOK, Claim, Claimable, Supersede, NoLostWakeup,
       ShutdownIsFinal, NoLateSender
  <2> QED BY <2>1, <2>2
<1>2. CASE finishHealthRecheckOperation
  <2>0. worker.gen \in Gen
    BY DEF TypeOK
  <2>1. TypeOK'
    BY <1>2, <2>0 DEF TypeOK, finishHealthRecheckOperation, Owns, Optional
  <2>2. NoLostWakeup' /\ ShutdownIsFinal' /\ NoLateSender'
    BY <1>2 DEF TypeOK, finishHealthRecheckOperation, NoLostWakeup,
       ShutdownIsFinal, NoLateSender
  <2> QED BY <2>1, <2>2
<1>3. CASE ShutdownBegin
  <2>1. TypeOK' BY <1>3 DEF TypeOK, ShutdownBegin, Owns, Optional
  <2>2. NoLostWakeup' /\ ShutdownIsFinal' /\ NoLateSender'
    BY <1>3 DEF TypeOK, ShutdownBegin, NoLostWakeup, ShutdownIsFinal, NoLateSender
  <2> QED BY <2>1, <2>2
<1>4. CASE ShutdownClear
  <2>1. TypeOK' BY <1>4 DEF TypeOK, ShutdownClear, Owns, Optional
  <2>2. NoLostWakeup' /\ ShutdownIsFinal' /\ NoLateSender'
    BY <1>4 DEF TypeOK, ShutdownClear, NoLostWakeup, ShutdownIsFinal, NoLateSender
  <2> QED BY <2>1, <2>2
<1>5. CASE WorkerExit
  <2>1. TypeOK' BY <1>5 DEF TypeOK, WorkerExit, Owns, Optional
  <2>2. NoLostWakeup' /\ ShutdownIsFinal' /\ NoLateSender'
    BY <1>5 DEF TypeOK, WorkerExit, NoLostWakeup, ShutdownIsFinal, NoLateSender
  <2> QED BY <2>1, <2>2
<1> QED BY <1>1, <1>2, <1>3, <1>4, <1>5

(* The invariant is inductive.                                             *)
THEOREM QueueStep == QueueInv /\ [Next]_vars => QueueInv'
<1> SUFFICES ASSUME QueueInv, [Next]_vars PROVE QueueInv'
  OBVIOUS
<1>1. CASE \E h \in Handler : Change(h)
  <2>1. PICK h \in Handler : Change(h) BY <1>1
  <2> QED BY <2>1, CallerKeeps DEF Caller
<1>2. CASE \E c \in Caller : CallerStep(c)
  BY <1>2, CallerKeeps DEF CallerStep
<1>3. CASE Wake \/ WorkerStep
  BY <1>3, WorkerKeeps, SlotKeeps DEF WorkerStep
<1>4. CASE ShutdownBegin \/ ShutdownClear \/ WorkerExit
  BY <1>4, SlotKeeps
<1>5. CASE \E l \in Lock : Acquire(l) \/ Release(l)
  BY <1>5, MutexKeeps
<1>6. CASE UNCHANGED vars
  BY <1>6 DEF vars, pool, history, QueueInv, TypeOK, NoLostWakeup, ShutdownIsFinal,
     NoLateSender, shuttingDown, Gen, Optional, Owns, Cycling
<1> QED BY <1>1, <1>2, <1>3, <1>4, <1>5, <1>6 DEF Next

(* Every reachable state of the queue satisfies the invariant.             *)
THEOREM QueueInvariant == Spec => []QueueInv
BY QueueInit, QueueStep, PTL DEF Spec

(* The slots are typed, and the active operation is the worker's.          *)
THEOREM RecheckTypeCorrect == Spec => []TypeOK
BY QueueInvariant, PTL DEF QueueInv

(* triggerFullRecheck and the worker loop lose no wake-up.                 *)
THEOREM RecheckNoLostWakeup == Spec => []NoLostWakeup
BY QueueInvariant, PTL DEF QueueInv

(* After coordinator.shutdown nothing is queued, started or signalled.     *)
THEOREM RecheckShutdownFinal == Spec => []ShutdownIsFinal
BY QueueInvariant, PTL DEF QueueInv
=============================================================================
