-------------------------- MODULE WorkerPoolProofs --------------------------
(***************************************************************************)
(* For any deliveries, issues, slots and bounds: the safety properties of  *)
(* WorkerPool, the budget of RetryBudget, and that the pool implements     *)
(* EventLedger.                                                            *)
(***************************************************************************)
EXTENDS RetryBudget, TLAPS

\* At first every variable is well typed ...
LEMMA TypeInit == Init => TypeOK
<1> SUFFICES ASSUME Init PROVE TypeOK
  OBVIOUS
<1>1. wakeup \in BOOLEAN
  BY Zenon DEF Init
<1>2. /\ row \in [Deliveries -> RowStates]
      /\ attempts \in [Deliveries -> 0..(MaxRetries + 1)]
      /\ received \in [Deliveries -> Nat]
      /\ clock \in Nat
  BY ConstantsAssumption DEF Init, RowStates
<1> QED
  BY <1>1, <1>2
  DEF Init, TypeOK, DispatcherPoints, TaskPoints, ThreadPoints, Phases

\* ... and every step keeps it so.
LEMMA TypeNext == TypeOK /\ [Next]_vars => TypeOK'
<1> SUFFICES ASSUME TypeOK, [Next]_vars PROVE TypeOK'
  OBVIOUS
<1> USE ConstantsAssumption DEF TypeOK, dbVars, dispVars, cancelVars, taskVars, lifeVars, bounds
<1>1. ASSUME NEW d \in Deliveries, RecordEvent(d) PROVE TypeOK'
  BY <1>1 DEF RecordEvent, RowStates
<1>2. ASSUME NEW d \in Deliveries, RecordSkipped(d) PROVE TypeOK'
  BY <1>2 DEF RecordSkipped, RowStates, Inactive
<1>3. ASSUME NEW d \in Deliveries, RequeueEvent(d) PROVE TypeOK'
  <2>1. wakeup' \in BOOLEAN
    BY <1>3, Zenon DEF RequeueEvent
  <2> QED
    BY <1>3, <2>1 DEF RequeueEvent, RowStates, Operator
<1>4. ASSUME NEW d \in Deliveries, ManualTriage(d) PROVE TypeOK'
  <2>1. wakeup' \in BOOLEAN
    BY <1>4, Zenon DEF ManualTriage
  <2> QED
    BY <1>4, <2>1 DEF ManualTriage, RowStates, Operator
<1>5. ASSUME NEW d \in Deliveries, CancelEvent(d) PROVE TypeOK'
  BY <1>5 DEF CancelEvent, Operator
<1>6. ASSUME NEW d \in Deliveries, ClaimNext(d) PROVE TypeOK'
  BY <1>6 DEF ClaimNext, Claim, RowStates, DispatcherPoints, Counted
<1>7. ASSUME NEW d \in Deliveries, Admit(d) PROVE TypeOK'
  BY <1>7 DEF Admit, TaskPoints, Handling, DispatcherPoints
<1>8. ASSUME NEW d \in Deliveries, Bounce(d) PROVE TypeOK'
  BY <1>8 DEF Bounce, Requeued, RowStates, DispatcherPoints
<1>9. ASSUME NEW d \in Deliveries, NEW s \in Slots, AcquireSlot(d, s) PROVE TypeOK'
  BY <1>9 DEF AcquireSlot, TaskPoints, Handling
<1>10. ASSUME NEW d \in Deliveries, Succeed(d) PROVE TypeOK'
  BY <1>10 DEF Succeed, RowAfterSuccess, Marked, Finalize, SlotsToFree, TaskPoints, RowStates,
               Inactive
<1>11. ASSUME NEW d \in Deliveries, Fail(d) PROVE TypeOK'
  BY <1>11 DEF Fail, RowAfterFailure, RetryScheduled, Marked, Finalize, SlotsToFree, TaskPoints,
               RowStates, Inactive, ThreadPoints
<1>12. ASSUME NEW d \in Deliveries, Unwind(d) PROVE TypeOK'
  BY <1>12 DEF Unwind, Finalize, SlotsToFree, TaskPoints, ThreadPoints
<1>13. CASE StopBegins
  BY <1>13 DEF StopBegins, Claim, Requeued, RowStates, DispatcherPoints, Counted, Phases
<1>14. CASE Start
  BY <1>14 DEF Start, ResetStuckRunning, RowStates, DispatcherPoints, Phases
<1>15. ASSUME MemoryLost, restarts' \in Nat, crashes' \in Nat, ops' \in Nat
       PROVE  TypeOK'
  BY <1>15 DEF MemoryLost, TaskPoints, ThreadPoints, DispatcherPoints, Phases
<1>16. CASE Exit \/ Crash
  BY <1>15, <1>16 DEF Exit, Crash
<1>17. ASSUME NEW d \in Deliveries,
              Collide(d) \/ StartDriver(d) \/ DriverReturned(d) \/ Reclaim(d)
                \/ Release(d)
       PROVE  TypeOK'
  BY <1>17 DEF Collide, StartDriver, DriverReturned, Reclaim, Release,
     DispatcherPoints, TaskPoints, Handling, ThreadPoints
<1>18. ASSUME NEW d \in Deliveries, Agent(d) PROVE TypeOK'
  BY <1>18 DEF Agent, SpawnAgent, SpawnFails, ArmHook, HookRuns, AgentEnds,
     ThreadPoints
<1>19. ASSUME NEW d \in Deliveries, BackoffElapses(d) PROVE TypeOK'
  BY <1>19 DEF BackoffElapses
<1>20. CASE \/ BeginClaim \/ ClaimNothing \/ DispatcherFails
            \/ EnterWait \/ Woken \/ PollTimeout
  BY <1>20 DEF BeginClaim, ClaimNothing, DispatcherFails, EnterWait, Woken,
     PollTimeout, DispatcherPoints
<1>21. CASE Stopping
  BY <1>21 DEF Stopping, DrainDone, DrainTimeout, HookReturned, AllInterrupted,
     Settled, Interrupt, Tasks, Phases
<1>22. CASE UNCHANGED vars
  BY <1>22 DEF vars
<1> QED
  BY <1>1, <1>2, <1>3, <1>4, <1>5, <1>6, <1>7, <1>8, <1>9, <1>10, <1>11,
     <1>12, <1>13, <1>14, <1>16, <1>17, <1>18, <1>19, <1>20, <1>21, <1>22
  DEF Next, Requests, Dispatcher, Task, Lifecycle

\* Rows, tasks, threads, slots and the phase of the process are what TypeOK says.
THEOREM TypeCorrect == Spec => []TypeOK
<1> QED BY TypeInit, TypeNext, PTL DEF Spec

-----------------------------------------------------------------------------
(* Tasks and agents: who works for which issue.                            *)

\* At first there is no task.
LEMMA TaskInvInit == Init => TaskInv
  BY DEF Init, TaskInv, KeyIsHeld, ServingIsUndisturbed, DownIsQuiet,
     OneDeliveryPerIssue, NoDetachedAgent

\* A step that leaves the tasks, the keys and the phase alone.
LEMMA TaskInvFrame ==
  ASSUME TaskInv,
         UNCHANGED <<pc, thr, inflight, phase, tcancel, shutdownCancelled>>,
         dpc' # "off" => dpc # "off"
  PROVE  TaskInv'
  BY DEF TaskInv, KeyIsHeld, ServingIsUndisturbed, DownIsQuiet,
     OneDeliveryPerIssue, NoDetachedAgent

\* The process ends: nothing of the tasks is left.
LEMMA TaskInvMemoryLost == MemoryLost => TaskInv'
  BY DEF MemoryLost, TaskInv, KeyIsHeld, ServingIsUndisturbed, DownIsQuiet,
     OneDeliveryPerIssue, NoDetachedAgent

\* Every step keeps the tasks of an issue apart.
LEMMA TaskInvNext == TypeOK /\ TaskInv /\ [Next]_vars => TaskInv'
<1> SUFFICES ASSUME TypeOK, TaskInv, [Next]_vars PROVE TaskInv'
  OBVIOUS
<1> USE DEF dbVars, dispVars, cancelVars, taskVars, lifeVars
<1>1. CASE Requests
  BY <1>1, TaskInvFrame
  DEF Requests, RecordEvent, RecordSkipped, RequeueEvent, ManualTriage,
      CancelEvent
<1>2. CASE \/ BeginClaim \/ ClaimNothing \/ DispatcherFails
           \/ EnterWait \/ Woken \/ PollTimeout
           \/ \E d \in Deliveries : ClaimNext(d) \/ Collide(d) \/ Bounce(d)
  BY <1>2, TaskInvFrame
  DEF BeginClaim, ClaimNothing, DispatcherFails, EnterWait, Woken,
      PollTimeout, ClaimNext, Collide, Bounce
<1>3. ASSUME NEW d \in Deliveries, BackoffElapses(d) PROVE TaskInv'
  BY <1>3, TaskInvFrame DEF BackoffElapses
<1>4. CASE UNCHANGED vars
  BY <1>4, TaskInvFrame DEF vars
<1>5. CASE Exit \/ Crash
  BY <1>5, TaskInvMemoryLost DEF Exit, Crash
<1> USE DEF TypeOK, TaskInv, KeyIsHeld, ServingIsUndisturbed, DownIsQuiet
<1>6. ASSUME NEW d \in Deliveries, Admit(d) PROVE TaskInv'
  <2>1. phase = "up" /\ \A e \in Deliveries : SameIssue(d, e) => pc[e] = "none"
    BY <1>6 DEF Admit, Collides, SameIssue
  <2>2. OneDeliveryPerIssue'
    BY <1>6, <2>1 DEF Admit, OneDeliveryPerIssue, NoDetachedAgent, SameIssue
  <2>3. NoDetachedAgent'
    <3>1. thr[d] = "none"
      BY <2>1 DEF NoDetachedAgent, SameIssue
    <3>2. \A e \in Deliveries : e # d => pc'[e] = pc[e]
      BY <1>6 DEF Admit
    <3> QED
      BY <1>6, <3>1, <3>2 DEF Admit, NoDetachedAgent
  <2>4. KeyIsHeld'
    BY <1>6 DEF Admit
  <2> QED
    BY <1>6, <2>1, <2>2, <2>3, <2>4 DEF Admit
<1>7. ASSUME NEW d \in Deliveries,
             \/ \E s \in Slots : AcquireSlot(d, s)
             \/ StartDriver(d) \/ DriverReturned(d) \/ Reclaim(d)
      PROVE  TaskInv'
  BY <1>7 DEF AcquireSlot, StartDriver, DriverReturned, Reclaim,
     OneDeliveryPerIssue, NoDetachedAgent, LoopFree, Runs
<1>8. ASSUME NEW d \in Deliveries, Succeed(d) \/ Fail(d) PROVE TaskInv'
  BY <1>8 DEF Succeed, Fail, Finalize, OneDeliveryPerIssue, NoDetachedAgent,
     LoopFree, Runs
<1>9. ASSUME NEW d \in Deliveries, Release(d) PROVE TaskInv'
  <2>1. KeyIsHeld'
    BY <1>9 DEF Release, OneDeliveryPerIssue, SameIssue
  <2> QED
    BY <1>9, <2>1 DEF Release, OneDeliveryPerIssue, NoDetachedAgent, LoopFree,
       Runs
<1>10. ASSUME NEW d \in Deliveries, Unwind(d) PROVE TaskInv'
  BY <1>10 DEF Unwind, Finalize, OneDeliveryPerIssue, NoDetachedAgent,
     LoopFree, Handling
<1>11. ASSUME NEW d \in Deliveries, Agent(d) PROVE TaskInv'
  BY <1>11 DEF Agent, SpawnAgent, SpawnFails, ArmHook, HookRuns, AgentEnds,
     OneDeliveryPerIssue, NoDetachedAgent
<1>12. CASE Start
  BY <1>12 DEF Start, OneDeliveryPerIssue, NoDetachedAgent
<1>13. CASE StopBegins \/ Stopping
  BY <1>13 DEF StopBegins, Stopping, DrainDone, DrainTimeout, HookReturned,
     AllInterrupted, Settled, Interrupt, OneDeliveryPerIssue, NoDetachedAgent
<1> QED
  BY <1>1, <1>2, <1>3, <1>4, <1>5, <1>6, <1>7, <1>8, <1>9, <1>10, <1>11,
     <1>12, <1>13
  DEF Next, Dispatcher, Task, Lifecycle

-----------------------------------------------------------------------------
(* Rows: who may change the row of a handler or of the dispatcher.         *)

\* At first no row is claimed.
LEMMA RowInvInit == Init => RowInv
  BY ConstantsAssumption DEF Init, RowInv, ClaimIsPrivate, HandledRowIsRunning, Handling

\* A step that leaves the handlers, the claim and every running row alone.
LEMMA RowInvFrame ==
  ASSUME RowInv, TypeOK,
         UNCHANGED <<pc, claimed>>,
         claimed # None => dpc' = dpc,
         dpc' \in {"claimed", "bouncing"} <=> dpc \in {"claimed", "bouncing"},
         \A d \in Deliveries : row[d] = "running" => row'[d] = "running"
  PROVE  RowInv'
  BY DEF TypeOK, RowInv, ClaimIsPrivate, HandledRowIsRunning

\* Every step keeps the rows of handlers and of the claim running.
LEMMA RowInvNext == TypeOK /\ TaskInv /\ RowInv /\ [Next]_vars => RowInv'
<1> SUFFICES ASSUME TypeOK, TaskInv, RowInv, [Next]_vars PROVE RowInv'
  OBVIOUS
<1> USE DEF dbVars, dispVars, cancelVars, taskVars, lifeVars
<1>1. CASE Requests
  BY <1>1, RowInvFrame
  DEF Requests, RecordEvent, RecordSkipped, RequeueEvent, RequeueStates,
      ManualTriage, CancelEvent, Inactive, TypeOK
<1>2. CASE BeginClaim \/ ClaimNothing \/ EnterWait \/ Woken \/ PollTimeout
  BY <1>2, RowInvFrame
  DEF BeginClaim, ClaimNothing, EnterWait, Woken, PollTimeout, RowInv,
      ClaimIsPrivate
<1>3. ASSUME NEW d \in Deliveries, BackoffElapses(d) \/ Agent(d) PROVE RowInv'
  BY <1>3, RowInvFrame
  DEF BackoffElapses, Agent, SpawnAgent, SpawnFails, ArmHook, HookRuns,
      AgentEnds
<1>4. CASE UNCHANGED vars \/ Stopping
  BY <1>4, RowInvFrame
  DEF vars, Stopping, DrainDone, DrainTimeout, HookReturned, AllInterrupted,
      Settled, Interrupt
<1> USE DEF TypeOK, RowInv, ClaimIsPrivate, HandledRowIsRunning
<1>5. CASE DispatcherFails
  BY <1>5 DEF DispatcherFails
<1>6. ASSUME NEW d \in Deliveries, ClaimNext(d) PROVE RowInv'
  BY <1>6, ConstantsAssumption DEF ClaimNext, Claim, IsNext, Eligible
<1>7. ASSUME NEW d \in Deliveries, Admit(d) PROVE RowInv'
  BY <1>7, ConstantsAssumption DEF Admit
<1>8. ASSUME NEW d \in Deliveries, Collide(d) \/ Bounce(d) PROVE RowInv'
  BY <1>8, ConstantsAssumption DEF Collide, Bounce, Requeued
<1>9. ASSUME NEW d \in Deliveries,
             \/ \E s \in Slots : AcquireSlot(d, s)
             \/ StartDriver(d) \/ DriverReturned(d) \/ Reclaim(d) \/ Release(d)
      PROVE  RowInv'
  BY <1>9 DEF AcquireSlot, StartDriver, DriverReturned, Reclaim, Release,
     Handling
\* A handler decides: the row is its own, so it is not the dispatcher's.
<1>10. ASSUME NEW d \in Deliveries, Succeed(d) \/ Fail(d) PROVE RowInv'
  <2>1. /\ pc[d] \in Handling /\ pc' = [pc EXCEPT ![d] = "reclaiming"]
        /\ UNCHANGED <<dpc, claimed>>
    BY <1>10 DEF Succeed, Fail, Handling
  <2>2. /\ row' \in [Deliveries -> RowStates]
        /\ \A e \in Deliveries : e # d => row'[e] = row[e]
    BY <1>10, TypeNext DEF Succeed, Fail, RowAfterSuccess, RowAfterFailure,
       Marked, RetryScheduled
  <2> QED
    BY <2>1, <2>2 DEF Handling
<1>11. ASSUME NEW d \in Deliveries, Unwind(d) PROVE RowInv'
  BY <1>11 DEF Unwind, Handling
<1>12. CASE StopBegins
  <2>1. /\ dpc' = "off" /\ claimed' = None /\ UNCHANGED pc
    BY <1>12 DEF StopBegins
  <2>2. ASSUME NEW e \in Deliveries, pc[e] \in Handling
        PROVE  row'[e] = "running"
    BY <1>12, <2>2 DEF StopBegins, Claim, Requeued, IsNext, Eligible
  <2> QED
    BY <2>1, <2>2
<1>13. CASE Start
  BY <1>13 DEF Start, TaskInv, DownIsQuiet, ServingIsUndisturbed, Handling
<1>14. CASE Exit \/ Crash
  BY <1>14 DEF Exit, Crash, MemoryLost, Handling
<1> QED
  BY <1>1, <1>2, <1>3, <1>4, <1>5, <1>6, <1>7, <1>8, <1>9, <1>10, <1>11,
     <1>12, <1>13, <1>14
  DEF Next, Dispatcher, Task, Lifecycle

-----------------------------------------------------------------------------
(* The results.                                                            *)

\* The inductive invariant: each of its parts needs the others, e.g. a task
\* keeps its row running because nobody else works for its issue.
THEOREM PoolInvariant == Spec => []PoolInv
<1>1. Init => PoolInv
  BY TypeInit, TaskInvInit, RowInvInit DEF PoolInv
<1>2. PoolInv /\ [Next]_vars => PoolInv'
  BY TypeNext, TaskInvNext, RowInvNext DEF PoolInv
<1> QED
  BY <1>1, <1>2, PTL DEF Spec

\* Whatever is cancelled, retried, stopped or restarted, an issue is worked
\* on by one task at a time.
THEOREM OneDelivery == Spec => []OneDeliveryPerIssue
<1>1. PoolInv => OneDeliveryPerIssue
  BY DEF PoolInv, TaskInv
<1> QED
  BY <1>1, PoolInvariant, PTL

\* While the pool serves every agent is supervised by its task.
THEOREM AgentsAreSupervised == Spec => []NoDetachedAgent
<1>1. PoolInv => NoDetachedAgent
  BY DEF PoolInv, TaskInv
<1> QED
  BY <1>1, PoolInvariant, PTL

\* A row is running as long as its handler runs.
THEOREM HandlerKeepsRow == Spec => []HandledRowIsRunning
<1>1. PoolInv => HandledRowIsRunning
  BY DEF PoolInv, RowInv
<1> QED
  BY <1>1, PoolInvariant, PTL

-----------------------------------------------------------------------------
(* Slots.                                                                  *)

\* The slot of a task that ends its handler is the only one to come back.
LEMMA FinalizeFrees ==
  ASSUME TypeOK, SlotAccounting, NEW d \in Deliveries, Finalize(d),
         pc' \in [Deliveries -> TaskPoints], pc'[d] \notin Slotted,
         \A e \in Deliveries : e # d => pc'[e] = pc[e]
  PROVE  SlotAccounting'
<1> USE ConstantsAssumption DEF TypeOK, SlotAccounting
<1>1. /\ slot'[d] = NoSlot
      /\ \A e \in Deliveries : e # d => slot'[e] = slot[e]
  BY DEF Finalize
<1>2. available' = Slots \ {slot'[e] : e \in Deliveries}
  BY <1>1 DEF Finalize, SlotsToFree
<1> QED
  BY <1>1, <1>2

\* Every step keeps the slots accounted for.
LEMMA SlotNext == PoolInv /\ SlotAccounting /\ [Next]_vars => SlotAccounting'
<1> SUFFICES ASSUME PoolInv, SlotAccounting, [Next]_vars PROVE SlotAccounting'
  OBVIOUS
<1> USE DEF dbVars, dispVars, cancelVars, taskVars, lifeVars, Slotted
<1>0. TypeOK /\ TypeOK'
  BY TypeNext DEF PoolInv
<1>1. ASSUME UNCHANGED <<pc, slot, available>> PROVE SlotAccounting'
  BY <1>1 DEF SlotAccounting
<1>2. CASE Requests
  BY <1>1, <1>2
  DEF Requests, RecordEvent, RecordSkipped, RequeueEvent, ManualTriage,
      CancelEvent
<1>3. CASE \/ BeginClaim \/ ClaimNothing \/ DispatcherFails
           \/ EnterWait \/ Woken \/ PollTimeout
           \/ \E d \in Deliveries : ClaimNext(d) \/ Collide(d) \/ Bounce(d)
  BY <1>1, <1>3
  DEF BeginClaim, ClaimNothing, DispatcherFails, EnterWait, Woken,
      PollTimeout, ClaimNext, Collide, Bounce
<1>4. ASSUME NEW d \in Deliveries, BackoffElapses(d) \/ Agent(d)
      PROVE  SlotAccounting'
  BY <1>1, <1>4
  DEF BackoffElapses, Agent, SpawnAgent, SpawnFails, ArmHook, HookRuns,
      AgentEnds
<1>5. CASE UNCHANGED vars \/ Stopping \/ StopBegins \/ Start
  BY <1>1, <1>5
  DEF vars, Stopping, DrainDone, DrainTimeout, HookReturned, AllInterrupted,
      Settled, Interrupt, StopBegins, Start
<1>6. CASE Exit \/ Crash
  BY <1>6, ConstantsAssumption DEF Exit, Crash, MemoryLost, SlotAccounting
<1>7. ASSUME NEW d \in Deliveries, NEW s \in Slots, AcquireSlot(d, s)
      PROVE  SlotAccounting'
  <2>1. /\ s # NoSlot /\ slot'[d] = s
        /\ \A e \in Deliveries : e # d => slot'[e] = slot[e] /\ slot[e] # s
    BY <1>0, <1>7, ConstantsAssumption DEF AcquireSlot, TypeOK, SlotAccounting
  <2>2. available' = Slots \ {slot'[e] : e \in Deliveries}
    BY <1>0, <1>7, <2>1, ConstantsAssumption
    DEF AcquireSlot, TypeOK, SlotAccounting
  <2> QED
    BY <1>0, <1>7, <2>1, <2>2 DEF AcquireSlot, TypeOK, SlotAccounting
<1>8. ASSUME NEW d \in Deliveries,
             \/ Admit(d) \/ StartDriver(d) \/ DriverReturned(d)
             \/ Reclaim(d) \/ Release(d)
      PROVE  SlotAccounting'
  <2>1. UNCHANGED <<slot, available>>
    BY <1>8 DEF Admit, StartDriver, DriverReturned, Reclaim, Release
  <2>2. pc[d] \in Slotted <=> pc'[d] \in Slotted
    <3>1. CASE Admit(d)
      <4>1. pc[d] = "none"
        BY <3>1 DEF Admit, Collides, PoolInv, TaskInv, KeyIsHeld
      <4> QED
        BY <1>0, <3>1, <4>1 DEF Admit, TypeOK
    <3> QED
      BY <1>0, <1>8, <3>1
      DEF StartDriver, DriverReturned, Reclaim, Release, TypeOK
  <2>3. \A e \in Deliveries : e # d => pc'[e] = pc[e]
    BY <1>0, <1>8
    DEF Admit, StartDriver, DriverReturned, Reclaim, Release, TypeOK
  <2> QED
    BY <2>1, <2>2, <2>3 DEF SlotAccounting
<1>9. ASSUME NEW d \in Deliveries, Succeed(d) \/ Fail(d) PROVE SlotAccounting'
  BY <1>0, <1>9, FinalizeFrees DEF Succeed, Fail, TypeOK
<1>10. ASSUME NEW d \in Deliveries, Unwind(d) PROVE SlotAccounting'
  <2>1. CASE pc[d] \in Handling
    BY <1>0, <1>10, <2>1, FinalizeFrees DEF Unwind, TypeOK
  <2>2. CASE pc[d] \notin Handling
    BY <1>0, <1>10, <2>2 DEF Unwind, TypeOK, SlotAccounting, Handling
  <2> QED
    BY <2>1, <2>2
<1> QED
  BY <1>2, <1>3, <1>4, <1>5, <1>6, <1>7, <1>8, <1>9, <1>10
  DEF Next, Dispatcher, Task, Lifecycle

\* No slot leaks and none is shared, however handlers end.
THEOREM SlotsAreAccounted == Spec => []SlotAccounting
<1>1. Init => SlotAccounting
  BY ConstantsAssumption DEF Init, SlotAccounting, Slotted
<1> QED
  BY <1>1, SlotNext, PoolInvariant, PTL DEF Spec

-----------------------------------------------------------------------------
(* Running rows, when the database does not fail.                          *)

\* Every step keeps an owner for each running row.
LEMMA OwnedNext ==
  ASSUME DbFaults = FALSE
  PROVE  PoolInv /\ RunningRowIsOwned /\ [Next]_vars => RunningRowIsOwned'
<1> SUFFICES ASSUME PoolInv, RunningRowIsOwned, [Next]_vars
             PROVE  RunningRowIsOwned'
  OBVIOUS
<1> USE DEF dbVars, dispVars, cancelVars, taskVars, lifeVars
<1>0. TypeOK /\ TypeOK'
  BY TypeNext DEF PoolInv
\* No step that takes the phase to "up" but Start, and no step that adds a
\* running row but a claim.
<1>1. ASSUME UNCHANGED <<pc, claimed>>, phase' = "up" => phase = "up",
             \A d \in Deliveries : row'[d] = "running" => row[d] = "running"
      PROVE  RunningRowIsOwned'
  BY <1>1 DEF RunningRowIsOwned
<1>2. ASSUME phase' # "up" PROVE RunningRowIsOwned'
  BY <1>2 DEF RunningRowIsOwned
<1>3. CASE Requests
  BY <1>0, <1>1, <1>3
  DEF Requests, RecordEvent, RecordSkipped, RequeueEvent, ManualTriage,
      CancelEvent, TypeOK
<1>4. CASE BeginClaim \/ ClaimNothing \/ EnterWait \/ Woken \/ PollTimeout
  BY <1>1, <1>4
  DEF BeginClaim, ClaimNothing, EnterWait, Woken, PollTimeout
<1>5. ASSUME NEW d \in Deliveries, BackoffElapses(d) \/ Agent(d) \/ Collide(d)
      PROVE  RunningRowIsOwned'
  BY <1>1, <1>5
  DEF BackoffElapses, Agent, SpawnAgent, SpawnFails, ArmHook, HookRuns,
      AgentEnds, Collide
<1>6. CASE DispatcherFails
  BY <1>6 DEF DispatcherFails
<1>7. CASE UNCHANGED vars \/ Stopping
  BY <1>1, <1>7
  DEF vars, Stopping, DrainDone, DrainTimeout, HookReturned, AllInterrupted,
      Settled, Interrupt
<1>8. CASE StopBegins \/ Exit \/ Crash
  BY <1>2, <1>8 DEF StopBegins, Exit, Crash, MemoryLost
<1>9. CASE Start
  BY <1>9 DEF Start, ResetStuckRunning, RunningRowIsOwned
<1>10. ASSUME NEW d \in Deliveries, ClaimNext(d) PROVE RunningRowIsOwned'
  <2>1. claimed = None /\ claimed' = d
    BY <1>10 DEF ClaimNext, PoolInv, RowInv, ClaimIsPrivate
  <2> QED
    BY <1>0, <1>10, <2>1, ConstantsAssumption
    DEF ClaimNext, Claim, RunningRowIsOwned, TypeOK
<1>11. ASSUME NEW d \in Deliveries, Admit(d) PROVE RunningRowIsOwned'
  BY <1>0, <1>11 DEF Admit, RunningRowIsOwned, TypeOK, Handling
<1>12. ASSUME NEW d \in Deliveries, Bounce(d) PROVE RunningRowIsOwned'
  BY <1>0, <1>12 DEF Bounce, Requeued, RunningRowIsOwned, TypeOK
<1>13. ASSUME NEW d \in Deliveries,
              \/ \E s \in Slots : AcquireSlot(d, s)
              \/ StartDriver(d) \/ DriverReturned(d) \/ Reclaim(d) \/ Release(d)
       PROVE  RunningRowIsOwned'
  BY <1>0, <1>13
  DEF AcquireSlot, StartDriver, DriverReturned, Reclaim, Release, Handling,
      RunningRowIsOwned, TypeOK
\* While the pool serves no task is interrupted by a stop, so a handler that
\* ends always says what becomes of its row.
<1>14. ASSUME NEW d \in Deliveries, Succeed(d) \/ Fail(d), phase' = "up"
       PROVE  RunningRowIsOwned'
  <2>1. d \notin shutdownCancelled /\ phase = "up" /\ UNCHANGED claimed
    BY <1>14 DEF Succeed, Fail, PoolInv, TaskInv, ServingIsUndisturbed
  <2>2. row'[d] # "running" /\ \A e \in Deliveries : e # d => row'[e] = row[e]
    BY <1>0, <1>14, <2>1
    DEF Succeed, Fail, RowAfterSuccess, RowAfterFailure, Marked,
        RetryScheduled, TypeOK
  <2>3. \A e \in Deliveries : e # d => pc'[e] = pc[e]
    BY <1>0, <1>14 DEF Succeed, Fail, TypeOK
  <2> QED
    BY <2>1, <2>2, <2>3 DEF RunningRowIsOwned
<1>15. ASSUME NEW d \in Deliveries, Unwind(d) PROVE RunningRowIsOwned'
  BY <1>2, <1>15 DEF Unwind, PoolInv, TaskInv, ServingIsUndisturbed
<1> QED
  BY <1>2, <1>3, <1>4, <1>5, <1>6, <1>7, <1>8, <1>9, <1>10, <1>11, <1>12,
     <1>13, <1>14, <1>15
  DEF Next, Dispatcher, Task, Lifecycle

\* No request or failure of a handler strands a row as running and so blocks
\* its issue: as long as sqlite does not raise, each running row has an owner.
THEOREM NoStrandedRow ==
  ASSUME DbFaults = FALSE
  PROVE  Spec => []RunningRowIsOwned
<1>1. Init => RunningRowIsOwned
  BY DEF Init, RunningRowIsOwned
<1> QED
  BY <1>1, OwnedNext, PoolInvariant, PTL DEF Spec

-----------------------------------------------------------------------------
(* The ledger: the initial states agree, and every step of the pool is a   *)
(* step of EventLedger or changes nothing it shows.                        *)

\* The deliveries the ledger sees being worked on.
Working == {d \in Deliveries : pc[d] \in Handling}

\* The two ways to say that deliveries share their issue agree, because an
\* issue key is never a delivery id.
LEMMA SameIssueAgrees ==
  ASSUME NEW d \in Deliveries, NEW e \in Deliveries
  PROVE  Ledger!SameIssue(d, e) <=> SameIssue(d, e)
  BY ConstantsAssumption DEF Ledger!SameIssue, SameIssue, InflightKey

\* At first the ledger is empty.
LEMMA LedgerInit == Init => Ledger!Init
  BY DEF Init, Ledger!Init, Handling

\* What the ledger does not see.
LEMMA LedgerStutter ==
  ASSUME UNCHANGED row, Working' = Working
  PROVE  UNCHANGED Ledger!ledger
  BY DEF Ledger!ledger, Working

\* A task that gives its row up is all the ledger sees.
LEMMA LedgerAbandon ==
  ASSUME UNCHANGED row, Working' \subseteq Working
  PROVE  Ledger!Next
  BY DEF Ledger!Next, Ledger!Abandon, Working

\* Every step of the pool is one of the ledger or a stutter.
LEMMA LedgerNext == PoolInv /\ [Next]_vars => [Ledger!Next]_(Ledger!ledger)
<1> SUFFICES ASSUME PoolInv, [Next]_vars
             PROVE  Ledger!Next \/ UNCHANGED Ledger!ledger
  OBVIOUS
<1> USE DEF dbVars, dispVars, cancelVars, taskVars, lifeVars
<1>0. TypeOK /\ TypeOK'
  BY TypeNext DEF PoolInv
<1>1. ASSUME UNCHANGED <<row, pc>> PROVE UNCHANGED Ledger!ledger
  BY <1>1, LedgerStutter DEF Working
<1>2. ASSUME NEW d \in Deliveries,
             RecordEvent(d) \/ RecordSkipped(d) \/ RequeueEvent(d)
               \/ ManualTriage(d)
      PROVE  Ledger!Next
  <2>1. UNCHANGED Working
    BY <1>2 DEF RecordEvent, RecordSkipped, RequeueEvent, ManualTriage, Working
  <2>2. Ledger!Receive(d) \/ Ledger!Requeue(d)
    BY <1>2, <2>1
    DEF RecordEvent, RecordSkipped, RequeueEvent, RequeueStates, Inactive,
        ManualTriage, Working, Ledger!Receive, Ledger!Requeue,
        Ledger!Decided, Ledger!Becomes
  <2> QED
    BY <2>2 DEF Ledger!Next
<1>3. ASSUME NEW d \in Deliveries,
             CancelEvent(d) \/ BackoffElapses(d) \/ Agent(d) \/ Collide(d)
      PROVE  UNCHANGED Ledger!ledger
  BY <1>1, <1>3
  DEF CancelEvent, BackoffElapses, Agent, SpawnAgent, SpawnFails, ArmHook,
      HookRuns, AgentEnds, Collide
<1>4. CASE \/ BeginClaim \/ ClaimNothing \/ DispatcherFails
           \/ EnterWait \/ Woken \/ PollTimeout \/ Stopping \/ UNCHANGED vars
  BY <1>1, <1>4
  DEF BeginClaim, ClaimNothing, DispatcherFails, EnterWait, Woken,
      PollTimeout, Stopping, DrainDone, DrainTimeout, HookReturned,
      AllInterrupted, Settled, Interrupt, vars
\* The row of a claim: no other row of the issue is running.
<1>5. ASSUME NEW d \in Deliveries, IsNext(d), Claim(d), UNCHANGED pc
      PROVE  Ledger!Next
  <2>1. \A e \in Deliveries \ {d} :
          Ledger!SameIssue(d, e) => row[e] # "running"
    BY <1>5 DEF IsNext, Eligible, SameKeyRunning, Ledger!SameIssue
  <2>2. Ledger!Claim(d)
    BY <1>5, <2>1 DEF IsNext, Eligible, Claim, Ledger!Claim, Ledger!Becomes
  <2> QED
    BY <2>2 DEF Ledger!Next
<1>6. ASSUME NEW d \in Deliveries, Requeued(d), claimed = d, UNCHANGED pc
      PROVE  Ledger!Next
  <2>1. Ledger!PutBack(d)
    BY <1>6, ConstantsAssumption
    DEF Requeued, PoolInv, RowInv, ClaimIsPrivate, Ledger!PutBack,
        Ledger!Becomes
  <2> QED
    BY <2>1 DEF Ledger!Next
<1>7. ASSUME NEW d \in Deliveries, ClaimNext(d) PROVE Ledger!Next
  BY <1>5, <1>7 DEF ClaimNext
<1>8. ASSUME NEW d \in Deliveries, Bounce(d) PROVE Ledger!Next
  BY <1>6, <1>8 DEF Bounce
<1>9. CASE StopBegins
  BY <1>1, <1>5, <1>6, <1>9 DEF StopBegins
\* The key was free, and whoever works for an issue holds its key.
<1>10. ASSUME NEW d \in Deliveries, Admit(d) PROVE Ledger!Next
  <2>1. row[d] = "running" /\ UNCHANGED row
    BY <1>10, ConstantsAssumption DEF Admit, PoolInv, RowInv, ClaimIsPrivate
  <2>2. \A e \in Deliveries : pc[e] \in Handling => ~Ledger!SameIssue(d, e)
    BY <1>10, SameIssueAgrees
    DEF Admit, Collides, PoolInv, TaskInv, KeyIsHeld, SameIssue, Handling
  <2>3. Working' = Working \cup {d}
    BY <1>0, <1>10 DEF Admit, Working, Handling, TypeOK
  <2>4. Ledger!Begin(d)
    BY <2>1, <2>2, <2>3 DEF Ledger!Begin, Working
  <2> QED
    BY <2>4 DEF Ledger!Next
<1>11. ASSUME NEW d \in Deliveries,
              \/ \E s \in Slots : AcquireSlot(d, s)
              \/ StartDriver(d) \/ DriverReturned(d) \/ Reclaim(d) \/ Release(d)
       PROVE  UNCHANGED Ledger!ledger
  <2>1. UNCHANGED row /\ Working' = Working
    BY <1>0, <1>11
    DEF AcquireSlot, StartDriver, DriverReturned, Reclaim, Release, Working,
        Handling, TypeOK
  <2> QED
    BY <2>1, LedgerStutter
<1>12. ASSUME NEW d \in Deliveries, Succeed(d) \/ Fail(d) PROVE Ledger!Next
  <2>1. d \in Working /\ Working' = Working \ {d}
    BY <1>0, <1>12 DEF Succeed, Fail, Working, Handling, TypeOK
  <2>2. \/ UNCHANGED row
        \/ \E s \in {"done", "failed", "queued"} :
             row' = [row EXCEPT ![d] = s]
    BY <1>12 DEF Succeed, Fail, RowAfterSuccess, RowAfterFailure, Marked,
       RetryScheduled
  <2>3. CASE UNCHANGED row
    BY <2>1, <2>3, LedgerAbandon
  <2>4. CASE ~UNCHANGED row
    <3>1. Ledger!Decide(d)
      BY <2>1, <2>2, <2>4 DEF Working, Ledger!Decide, Ledger!Becomes
    <3> QED
      BY <3>1 DEF Ledger!Next
  <2> QED
    BY <2>3, <2>4
<1>13. ASSUME NEW d \in Deliveries, Unwind(d) PROVE Ledger!Next
  <2>1. UNCHANGED row /\ Working' \subseteq Working
    BY <1>0, <1>13 DEF Unwind, Working, Handling, TypeOK
  <2> QED
    BY <2>1, LedgerAbandon
<1>14. CASE Start
  <2>1. Working = {} /\ UNCHANGED Working
    BY <1>14 DEF Start, PoolInv, TaskInv, DownIsQuiet, Working, Handling
  <2>2. Ledger!Recover
    BY <1>14, <2>1 DEF Start, ResetStuckRunning, Working, Ledger!Recover
  <2> QED
    BY <2>2 DEF Ledger!Next
<1>15. CASE Exit \/ Crash
  <2>1. UNCHANGED row /\ Working' \subseteq Working
    BY <1>15 DEF Exit, Crash, MemoryLost, Working, Handling
  <2> QED
    BY <2>1, LedgerAbandon
<1> QED
  BY <1>2, <1>3, <1>4, <1>7, <1>8, <1>9, <1>10, <1>11, <1>12, <1>13, <1>14,
     <1>15
  DEF Next, Requests, Dispatcher, Task, Lifecycle

\* The pool implements the ledger.
THEOREM PoolImplementsLedger == Spec => LedgerSpec
<1> QED
  BY LedgerInit, LedgerNext, PoolInvariant, PTL
  DEF Spec, LedgerSpec, Ledger!Spec

-----------------------------------------------------------------------------
(* Retries: the history counts failures as the attempts column counts      *)
(* claims, but the column is not reset when a decided row is replayed.     *)

\* At first nothing has been asked for and nothing has failed.
LEMMA BudgetInit == HistoryInit => BudgetInv
  BY ConstantsAssumption DEF HistoryInit, Init, BudgetInv, ClaimsCoverFailures,
     WithinRetryBudget

\* What a step of the pool may do to the row of a delivery.
RowStep(d) ==
  \/ row'[d] = row[d] /\ attempts'[d] = attempts[d]
  \/ row[d] \in Inactive \cup {"absent"} /\ row'[d] \in {"queued", "skipped"}
  \/ row[d] = "queued" /\ row'[d] = "running" /\ attempts'[d] = Counted(attempts[d])
  \/ row[d] = "running" /\ row'[d] \in Inactive
  \/ /\ row[d] = "running" /\ row'[d] = "queued" /\ attempts'[d] = attempts[d]
     /\ pc' = pc \/ attempts[d] <= MaxRetries

\* Such steps keep the failures within the claims: a failure is counted only
\* for a running row, which has been claimed once more than it has failed.
LEMMA BudgetStep ==
  ASSUME PoolInv, TypeOK', BudgetInv, HistoryNext, \A d \in Deliveries : RowStep(d)
  PROVE  BudgetInv'
<1> USE ConstantsAssumption
<1>1. failures' \in [Deliveries -> Nat]
  BY DEF HistoryNext, BudgetInv
<1>2. ASSUME NEW d \in Deliveries
      PROVE  /\ row'[d] = "absent" => failures'[d] = 0
             /\ row'[d] = "queued" => failures'[d] <= attempts'[d] /\ failures'[d] <= MaxRetries
             /\ row'[d] = "running" => failures'[d] < attempts'[d]
             /\ failures'[d] <= MaxRetries + 1
  <2>1. /\ failures[d] \in Nat /\ attempts[d] \in 0..(MaxRetries + 1)
        /\ attempts'[d] \in 0..(MaxRetries + 1) /\ MaxRetries \in Nat
    BY DEF BudgetInv, PoolInv, TypeOK
  <2>2. /\ row[d] = "absent" => failures[d] = 0
        /\ row[d] = "queued" => failures[d] <= attempts[d] /\ failures[d] <= MaxRetries
        /\ row[d] = "running" => failures[d] < attempts[d]
        /\ failures[d] <= MaxRetries + 1
    BY DEF BudgetInv, ClaimsCoverFailures, WithinRetryBudget
  <2>3. failures'[d] = IF HandlerRaised(d) THEN failures[d] + 1
                       ELSE IF AskedFor(d) THEN 0 ELSE failures[d]
    BY DEF HistoryNext
  <2>4. HandlerRaised(d) => row[d] = "running" /\ row'[d] \in {"queued", "failed"} /\ pc' # pc
    BY DEF HandlerRaised, PoolInv, RowInv, HandledRowIsRunning, Handling
  <2>5. CASE row'[d] = row[d] /\ attempts'[d] = attempts[d]
    BY <2>1, <2>2, <2>3, <2>4, <2>5 DEF AskedFor
  <2>6. CASE row[d] \in Inactive \cup {"absent"} /\ row'[d] \in {"queued", "skipped"}
    BY <2>1, <2>2, <2>3, <2>4, <2>6 DEF AskedFor, Inactive
  <2>7. CASE row[d] = "queued" /\ row'[d] = "running" /\ attempts'[d] = Counted(attempts[d])
    BY <2>1, <2>2, <2>3, <2>4, <2>7 DEF AskedFor, Inactive, Counted
  <2>8. CASE row[d] = "running" /\ row'[d] \in Inactive
    BY <2>1, <2>2, <2>3, <2>4, <2>8 DEF AskedFor, Inactive
  <2>9. CASE /\ row[d] = "running" /\ row'[d] = "queued" /\ attempts'[d] = attempts[d]
             /\ pc' = pc \/ attempts[d] <= MaxRetries
    BY <2>1, <2>2, <2>3, <2>4, <2>9 DEF AskedFor, Inactive
  <2> QED
    BY <2>5, <2>6, <2>7, <2>8, <2>9 DEF RowStep
<1> QED
  BY <1>1, <1>2 DEF BudgetInv, ClaimsCoverFailures, WithinRetryBudget

\* Every step of the pool is of that kind for every delivery.
LEMMA RowSteps ==
  ASSUME PoolInv, TypeOK', Next
  PROVE  \A e \in Deliveries : RowStep(e)
<1> USE DEF dbVars, dispVars, cancelVars, taskVars, lifeVars
<1>1. ASSUME UNCHANGED <<row, attempts>> PROVE \A e \in Deliveries : RowStep(e)
  BY <1>1 DEF RowStep
<1>2. CASE Requests
  <2> SUFFICES ASSUME NEW d \in Deliveries,
                      \/ RecordEvent(d) \/ RecordSkipped(d) \/ RequeueEvent(d)
                      \/ ManualTriage(d) \/ CancelEvent(d)
               PROVE  \A e \in Deliveries : RowStep(e)
    BY <1>2 DEF Requests
  <2>1. CASE CancelEvent(d)
    BY <1>1, <2>1 DEF CancelEvent
  <2>2. CASE RecordEvent(d) \/ RecordSkipped(d) \/ RequeueEvent(d) \/ ManualTriage(d)
    BY <2>2 DEF RecordEvent, RecordSkipped, RequeueEvent, RequeueStates, ManualTriage,
       RowStep, PoolInv, TypeOK
  <2> QED
    BY <2>1, <2>2
<1>3. CASE \/ BeginClaim \/ ClaimNothing \/ DispatcherFails
           \/ EnterWait \/ Woken \/ PollTimeout \/ Stopping
  BY <1>1, <1>3
  DEF BeginClaim, ClaimNothing, DispatcherFails, EnterWait, Woken, PollTimeout, Stopping,
      DrainDone, DrainTimeout, HookReturned, AllInterrupted, Settled, Interrupt
<1>4. ASSUME NEW d \in Deliveries,
             \/ BackoffElapses(d) \/ Agent(d) \/ Admit(d) \/ Collide(d) \/ Unwind(d)
             \/ \E s \in Slots : AcquireSlot(d, s)
             \/ StartDriver(d) \/ DriverReturned(d) \/ Reclaim(d) \/ Release(d)
      PROVE  \A e \in Deliveries : RowStep(e)
  BY <1>1, <1>4
  DEF BackoffElapses, Agent, SpawnAgent, SpawnFails, ArmHook, HookRuns, AgentEnds, Admit,
      Collide, Unwind, AcquireSlot, StartDriver, DriverReturned, Reclaim, Release
<1>5. ASSUME NEW d \in Deliveries, IsNext(d), Claim(d)
      PROVE  \A e \in Deliveries : RowStep(e)
  BY <1>5 DEF IsNext, Eligible, Claim, RowStep, PoolInv, TypeOK
<1>6. ASSUME NEW d \in Deliveries, Requeued(d), pc' = pc
      PROVE  \A e \in Deliveries : RowStep(e)
  BY <1>6 DEF Requeued, RowStep, PoolInv, TypeOK
<1>7. ASSUME NEW d \in Deliveries, ClaimNext(d) \/ Bounce(d)
      PROVE  \A e \in Deliveries : RowStep(e)
  BY <1>5, <1>6, <1>7 DEF ClaimNext, Bounce
<1>8. CASE StopBegins
  BY <1>1, <1>5, <1>6, <1>8 DEF StopBegins
\* A handler ends.
<1>9. ASSUME NEW d \in Deliveries, Succeed(d) \/ Fail(d)
      PROVE  \A e \in Deliveries : RowStep(e)
  <2>1. row[d] = "running"
    BY <1>9 DEF Succeed, Fail, PoolInv, RowInv, HandledRowIsRunning, Handling
  <2> QED
    BY <1>9, <2>1 DEF Succeed, Fail, RowAfterSuccess, RowAfterFailure, Marked,
       RetryScheduled, RetryAllowed, RowStep, Inactive, PoolInv, TypeOK
<1>10. CASE Start
  BY <1>10 DEF Start, ResetStuckRunning, RowStep, PoolInv, TypeOK
<1>11. CASE Exit \/ Crash
  BY <1>1, <1>11 DEF Exit, Crash, MemoryLost
<1> QED
  BY <1>2, <1>3, <1>4, <1>7, <1>8, <1>9, <1>10, <1>11 DEF Next, Dispatcher, Task, Lifecycle

\* The history is one of the pool.
LEMMA HistoryStep == [HistoryNext]_<<vars, failures>> => [Next]_vars
  BY DEF HistoryNext

\* So the budget holds from step to step.
LEMMA BudgetNext == PoolInv /\ BudgetInv /\ [HistoryNext]_<<vars, failures>> => BudgetInv'
<1> SUFFICES ASSUME PoolInv, BudgetInv, [HistoryNext]_<<vars, failures>> PROVE BudgetInv'
  OBVIOUS
<1>1. TypeOK'
  BY TypeNext, HistoryStep DEF PoolInv
<1>2. CASE HistoryNext
  BY <1>1, <1>2, RowSteps, BudgetStep DEF HistoryNext
<1>3. CASE UNCHANGED <<vars, failures>>
  BY <1>3 DEF vars, dbVars, BudgetInv, ClaimsCoverFailures, WithinRetryBudget
<1> QED
  BY <1>2, <1>3

\* Whatever is retried, cancelled, stopped, restarted or replayed, the handler of a
\* delivery raises at most once more than it may be retried before the delivery is
\* asked for anew.
THEOREM RetriesAreBudgeted == HistorySpec => []WithinRetryBudget
<1>1. HistorySpec => Spec
  <2>1. HistoryInit => Init
    BY DEF HistoryInit
  <2> QED
    BY <2>1, HistoryStep, PTL DEF HistorySpec, Spec
<1>2. HistorySpec => []BudgetInv
  BY <1>1, BudgetInit, BudgetNext, PoolInvariant, PTL DEF HistorySpec
<1>3. BudgetInv => WithinRetryBudget
  BY DEF BudgetInv
<1> QED
  BY <1>2, <1>3, PTL
=============================================================================
