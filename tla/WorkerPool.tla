----------------------------- MODULE WorkerPool -----------------------------
(***************************************************************************)
(* The durable event queue and the pool that drains it:                    *)
(*   - the rows of the sqlite table "events" (db.py),                      *)
(*   - the dispatcher coroutine, the per-event tasks, operator cancel,     *)
(*     graceful stop and restart of WorkerPool (queue.py),                 *)
(*   - the cancellation scope an agent thread uses (cancellation.py),      *)
(*   - the pool of slot uids (slot_pool.py).                               *)
(*                                                                         *)
(* One asyncio loop runs the dispatcher, the tasks, the HTTP handlers and  *)
(* stop(); a step here is the code between two of its awaits.  Two kinds   *)
(* of threads run beside the loop and interleave with everything: the      *)
(* database calls of the dispatcher (asyncio.to_thread) and the blocking   *)
(* agent driver of each task (_run_rpc_blocking).                          *)
(*                                                                         *)
(* A definition Op_variant is Op with one plausible slip in it: the        *)
(* checks put it in Op's place to see that a property notices.             *)
(***************************************************************************)
EXTENDS Integers, FiniteSets

CONSTANTS
  Deliveries,    \* delivery ids of the table
  IssueKey,      \* the issue_key column of each delivery, NoKey for NULL
  NoKey,
  ManualIds,     \* deliveries whose id is manual_delivery_id(repo, number)
  Slots,         \* slot uids; their number is ROBOMP_MAX_CONCURRENCY
  NoSlot,
  None,          \* "no delivery"
  MaxRetries,    \* ROBOMP_EVENT_MAX_RETRIES
  DbFaults,      \* may a sqlite call raise?
  MaxRestarts,   \* bound: graceful stops of the process
  MaxCrashes,    \* bound: crashes of the process
  MaxOps         \* bound: operator requests (replay, triage, cancel)

ASSUME ConstantsAssumption ==
  /\ NoKey \notin Deliveries
  /\ NoSlot \notin Slots
  /\ None \notin Deliveries
  /\ ManualIds \subseteq Deliveries
  /\ MaxRetries \in Nat
  /\ DbFaults \in BOOLEAN
  /\ MaxRestarts \in Nat
  /\ MaxCrashes \in Nat
  /\ MaxOps \in Nat
  \* an issue key "owner/repo#NN" is never a delivery id
  /\ \A d \in Deliveries : IssueKey[d] \notin Deliveries

VARIABLES
  \* table "events"
  row,         \* state column; "absent" when there is no row
  attempts,    \* attempts column, counted up to MaxRetries + 1
  received,    \* received_at column, as a serial number
  backoff,     \* rows whose available_at is in the future
  clock,       \* serial number of the next received_at
  \* dispatcher
  dpc,         \* where _dispatch_loop is
  claimed,     \* row held by _claim_next_unique
  wakeup,      \* _wakeup
  \* pool memory
  inflight,    \* _inflight
  cancelled,   \* _cancelled
  hooks,       \* keys of _cancel_hooks
  firing,      \* hooks popped and running on a thread
  shutdownCancelled, \* _shutdown_cancelled
  \* tasks and their agent threads
  pc,          \* where _run_event is; "none" when there is no task
  slot,        \* the slot uid the task holds
  available,   \* SlotPool._available
  thr,         \* where the thread of _run_rpc_blocking is
  tcancel,     \* tasks on which task.cancel() was called
  \* lifecycle
  phase,       \* of the process and of WorkerPool.stop()
  victims,     \* still_running of stop(), not interrupted yet
  restarts, crashes, ops

dbVars     == <<row, attempts, received, backoff, clock>>
dispVars   == <<dpc, claimed, wakeup>>
cancelVars == <<cancelled, hooks, firing, shutdownCancelled>>
taskVars   == <<pc, slot, available, thr, tcancel>>
lifeVars   == <<phase, victims>>
bounds     == <<restarts, crashes, ops>>
vars == <<dbVars, dispVars, inflight, cancelVars, taskVars, lifeVars, bounds>>

Inactive  == {"done", "failed", "skipped"}    \* INACTIVE_EVENT_STATES
RowStates == {"absent", "queued", "running"} \cup Inactive

\* _run_event has the row and has not yet decided its fate.
Handling  == {"acquiring", "working", "rpc", "finishing"}
\* ... and holds a slot.
Slotted   == {"working", "rpc", "finishing"}
TaskPoints == Handling \cup {"none", "reclaiming", "releasing"}
ThreadPoints ==
  {"none", "starting", "checked", "driving", "stopped", "returned", "raised"}
DispatcherPoints ==
  {"off", "top", "claiming", "claimed", "bouncing", "sleeping", "empty",
   "waiting", "crashed"}
Phases == {"down", "up", "draining", "killing", "firing", "settling", "stopped"}

\* row.issue_key or row.delivery_id
InflightKey(d) == IF IssueKey[d] = NoKey THEN d ELSE IssueKey[d]
SameIssue(d, e) == InflightKey(d) = InflightKey(e)

\* Between BEGIN and end of _claim_next_unique the dispatcher owns
\* _inflight_lock; every other holder gives it back without an await.
LockHeld == dpc \in {"claiming", "claimed", "bouncing", "sleeping", "empty"}

\* The loop of stop() that interrupts tasks does not await between two of
\* them unless it fires a hook, so nothing else runs on the event loop.
LoopFree == phase \notin {"down", "killing"}

Init ==
  /\ row = [d \in Deliveries |-> "absent"]
  /\ attempts = [d \in Deliveries |-> 0]
  /\ received = [d \in Deliveries |-> 0]
  /\ backoff = {}
  /\ clock = 0
  /\ dpc = "off" /\ claimed = None /\ wakeup = FALSE
  /\ inflight = {} /\ cancelled = {} /\ hooks = {} /\ firing = {}
  /\ shutdownCancelled = {}
  /\ pc = [d \in Deliveries |-> "none"]
  /\ slot = [d \in Deliveries |-> NoSlot]
  /\ available = Slots
  /\ thr = [d \in Deliveries |-> "none"]
  /\ tcancel = {}
  /\ phase = "down" /\ victims = {}
  /\ restarts = 0 /\ crashes = 0 /\ ops = 0

-----------------------------------------------------------------------------
(* Requests: the webhook, the operator's endpoints and the CLI.            *)

Serving == phase = "up"
Operator == ops < MaxOps /\ ops' = ops + 1 /\ UNCHANGED <<restarts, crashes>>

\* An accepted webhook delivery.  A redelivery changes nothing: the row is
\* inserted OR IGNORE and only an inserted row wakes the dispatcher.
RecordEvent(d) ==
  /\ Serving /\ row[d] = "absent"
  /\ row' = [row EXCEPT ![d] = "queued"]
  /\ received' = [received EXCEPT ![d] = clock]
  /\ clock' = clock + 1
  /\ wakeup' = TRUE
  /\ UNCHANGED <<attempts, backoff, dpc, claimed, inflight, cancelVars,
                 taskVars, lifeVars, bounds>>

\* A delivery the router or the rate limiter turns away keeps a row.
RecordSkipped(d) ==
  /\ Serving /\ row[d] = "absent"
  /\ row' = [row EXCEPT ![d] = "skipped"]
  /\ received' = [received EXCEPT ![d] = clock]
  /\ clock' = clock + 1
  /\ UNCHANGED <<attempts, backoff, dispVars, inflight, cancelVars, taskVars,
                 lifeVars, bounds>>

RequeueStates_any == Inactive \cup {"running"}
RequeueStates == Inactive

\* /replay and /api/trigger mode=retry of the server, which wake the
\* dispatcher, and `replay` of the CLI, a process that cannot.
RequeueEvent(d) ==
  /\ row[d] \in RequeueStates
  /\ Operator
  /\ row' = [row EXCEPT ![d] = "queued"]
  /\ backoff' = backoff \ {d}
  /\ \/ Serving /\ wakeup' = TRUE
     \/ UNCHANGED wakeup
  /\ UNCHANGED <<attempts, received, clock, dpc, claimed, inflight,
                 cancelVars, taskVars, lifeVars>>

\* enqueue_manual_triage, from /api/trigger or from `triage` of the CLI: the
\* row is replaced by a fresh one, unless it became active meanwhile.
ManualTriage(d) ==
  /\ d \in ManualIds
  /\ row[d] \in Inactive \cup {"absent"}
  /\ Operator
  /\ row' = [row EXCEPT ![d] = "queued"]
  /\ attempts' = [attempts EXCEPT ![d] = 0]
  /\ received' = [received EXCEPT ![d] = clock]
  /\ clock' = clock + 1
  /\ backoff' = backoff \ {d}
  /\ \/ Serving /\ wakeup' = TRUE
     \/ UNCHANGED wakeup
  /\ UNCHANGED <<dpc, claimed, inflight, cancelVars, taskVars, lifeVars>>

\* task.cancel() of a task that has no hook: what cancel_event must not do.
CancelEvent_task(d) ==
  /\ Serving /\ row[d] = "running"
  /\ Operator
  /\ cancelled' = cancelled \cup {d}
  /\ IF d \in hooks
     THEN hooks' = hooks \ {d} /\ firing' = firing \cup {d}
          /\ UNCHANGED tcancel
     ELSE /\ tcancel' = IF pc[d] = "none" THEN tcancel ELSE tcancel \cup {d}
          /\ UNCHANGED <<hooks, firing>>
  /\ UNCHANGED <<dbVars, dispVars, inflight, shutdownCancelled, pc, slot,
                 available, thr, lifeVars>>

\* /api/cancel: refused unless the row is running; then cancel_event marks
\* the delivery and, if the thread is armed, fires its hook on a thread.
CancelEvent(d) ==
  /\ Serving /\ row[d] = "running"
  /\ Operator
  /\ cancelled' = cancelled \cup {d}
  /\ hooks' = hooks \ {d}
  /\ firing' = IF d \in hooks THEN firing \cup {d} ELSE firing
  /\ UNCHANGED <<dbVars, dispVars, inflight, shutdownCancelled, taskVars,
                 lifeVars>>

\* The available_at of a retried row passes.
BackoffElapses(d) ==
  /\ d \in backoff
  /\ backoff' = backoff \ {d}
  /\ UNCHANGED <<row, attempts, received, clock, dispVars, inflight,
                 cancelVars, taskVars, lifeVars, bounds>>

-----------------------------------------------------------------------------
(* The dispatcher: _dispatch_loop and _claim_next_unique.                  *)

\* attempts + 1, told apart only up to MaxRetries + 1.
Counted(n) == IF n > MaxRetries THEN n ELSE n + 1

SameKeyRunning(d) ==
  IssueKey[d] # NoKey /\
    \E e \in Deliveries : row[e] = "running" /\ IssueKey[e] = IssueKey[d]

Eligible_anyKey(d) == row[d] = "queued" /\ d \notin backoff

Eligible(d) == row[d] = "queued" /\ d \notin backoff /\ ~SameKeyRunning(d)

IsNext(d) ==
  /\ Eligible(d)
  /\ \A e \in Deliveries : Eligible(e) => received[d] <= received[e]

Claim(d) ==
  /\ row' = [row EXCEPT ![d] = "running"]
  /\ attempts' = [attempts EXCEPT ![d] = Counted(@)]
  /\ UNCHANGED <<received, backoff, clock>>

BeginClaim ==
  /\ Serving /\ dpc = "top"
  /\ dpc' = "claiming"
  /\ UNCHANGED <<dbVars, claimed, wakeup, inflight, cancelVars, taskVars,
                 lifeVars, bounds>>

\* claim_next_event, one transaction on a database thread.
ClaimNext(d) ==
  /\ dpc = "claiming" /\ IsNext(d)
  /\ Claim(d)
  /\ dpc' = "claimed" /\ claimed' = d
  /\ UNCHANGED <<wakeup, inflight, cancelVars, taskVars, lifeVars, bounds>>

ClaimNothing ==
  /\ dpc = "claiming" /\ \A d \in Deliveries : ~Eligible(d)
  /\ dpc' = "empty"
  /\ UNCHANGED <<dbVars, claimed, wakeup, inflight, cancelVars, taskVars,
                 lifeVars, bounds>>

\* sqlite raises in claim_next_event or requeue_event: the loop logs
\* "dispatch loop crashed" and ends; nothing restarts it.
DispatcherFails ==
  /\ DbFaults /\ dpc \in {"claiming", "bouncing"}
  /\ dpc' = "crashed" /\ claimed' = None
  /\ UNCHANGED <<dbVars, wakeup, inflight, cancelVars, taskVars, lifeVars,
                 bounds>>

Collides_never(d) == FALSE

Collides(d) == InflightKey(d) \in inflight

\* The key is free: the task is created before the loop can run anything.
Admit(d) ==
  /\ dpc = "claimed" /\ claimed = d /\ ~Collides(d)
  /\ inflight' = inflight \cup {InflightKey(d)}
  /\ pc' = [pc EXCEPT ![d] = "acquiring"]
  /\ dpc' = "top" /\ claimed' = None
  /\ UNCHANGED <<dbVars, wakeup, cancelVars, slot, available, thr, tcancel,
                 lifeVars, bounds>>

\* Another task still owns the key: put the row back, then nap.
Collide(d) ==
  /\ dpc = "claimed" /\ claimed = d /\ Collides(d)
  /\ dpc' = "bouncing"
  /\ UNCHANGED <<dbVars, claimed, wakeup, inflight, cancelVars, taskVars,
                 lifeVars, bounds>>

Requeued(d) ==
  IF row[d] = "running"
  THEN /\ row' = [row EXCEPT ![d] = "queued"]
       /\ backoff' = backoff \ {d}
       /\ UNCHANGED <<attempts, received, clock>>
  ELSE UNCHANGED dbVars

Bounce(d) ==
  /\ dpc = "bouncing" /\ claimed = d
  /\ Requeued(d)
  /\ dpc' = "sleeping" /\ claimed' = None
  /\ UNCHANGED <<wakeup, inflight, cancelVars, taskVars, lifeVars, bounds>>

\* No row: the wakeup flag is cleared only now, so a wake() that came after
\* the claim looked at the table is lost and PollTimeout makes up for it.
EnterWait ==
  /\ LoopFree /\ dpc \in {"empty", "sleeping"}
  /\ dpc' = "waiting" /\ wakeup' = FALSE
  /\ UNCHANGED <<dbVars, claimed, inflight, cancelVars, taskVars, lifeVars,
                 bounds>>

Woken ==
  /\ LoopFree /\ dpc = "waiting" /\ wakeup
  /\ dpc' = "top"
  /\ UNCHANGED <<dbVars, claimed, wakeup, inflight, cancelVars, taskVars,
                 lifeVars, bounds>>

PollTimeout_none == FALSE /\ UNCHANGED vars

\* wait_for(self._wakeup.wait(), timeout=10.0)
PollTimeout ==
  /\ LoopFree /\ dpc = "waiting" /\ ~wakeup
  /\ dpc' = "top"
  /\ UNCHANGED <<dbVars, claimed, wakeup, inflight, cancelVars, taskVars,
                 lifeVars, bounds>>

-----------------------------------------------------------------------------
(* A task: _run_event and what it awaits.                                  *)

\* The task is scheduled and no task.cancel() is pending on it.
Runs(d) == LoopFree /\ d \notin tcancel

AcquireSlot(d, s) ==
  /\ Runs(d) /\ pc[d] = "acquiring" /\ s \in available
  /\ pc' = [pc EXCEPT ![d] = "working"]
  /\ slot' = [slot EXCEPT ![d] = s]
  /\ available' = available \ {s}
  /\ UNCHANGED <<dbVars, dispVars, inflight, cancelVars, thr, tcancel,
                 lifeVars, bounds>>

\* _dispatch got as far as run_task: the blocking driver starts on a thread.
StartDriver(d) ==
  /\ Runs(d) /\ pc[d] = "working"
  /\ pc' = [pc EXCEPT ![d] = "rpc"]
  /\ thr' = [thr EXCEPT ![d] = "starting"]
  /\ UNCHANGED <<dbVars, dispVars, inflight, cancelVars, slot, available,
                 tcancel, lifeVars, bounds>>

\* The driver returned: run_task and its handler have some more awaits.
DriverReturned(d) ==
  /\ Runs(d) /\ pc[d] = "rpc" /\ thr[d] = "returned"
  /\ pc' = [pc EXCEPT ![d] = "finishing"]
  /\ thr' = [thr EXCEPT ![d] = "none"]
  /\ UNCHANGED <<dbVars, dispVars, inflight, cancelVars, slot, available,
                 tcancel, lifeVars, bounds>>

SlotsToFree_unchecked(d) == {slot[d]}
SlotsToFree_none(d) == {}

\* `if slot_acquired`: the slot goes back whatever ended the handler.
SlotsToFree(d) == {slot[d]} \ {NoSlot}

\* The synchronous part of the finally clause.
Finalize(d) ==
  /\ cancelled' = cancelled \ {d}
  /\ shutdownCancelled' = shutdownCancelled \ {d}
  /\ hooks' = hooks \ {d}
  /\ slot' = [slot EXCEPT ![d] = NoSlot]
  /\ available' = available \cup SlotsToFree(d)
  /\ UNCHANGED firing

Marked(d, state) ==
  /\ row' = [row EXCEPT ![d] = state]
  /\ UNCHANGED <<attempts, received, backoff, clock>>

RowAfterSuccess_ignoringCancel(d) == Marked(d, "done")

\* _dispatch_and_mark
RowAfterSuccess(d) ==
  Marked(d, IF d \in cancelled THEN "failed" ELSE "done")

RetryScheduled(d) ==
  /\ row' = [row EXCEPT ![d] = "queued"]
  /\ backoff' = backoff \cup {d}
  /\ UNCHANGED <<attempts, received, clock>>

RetryAllowed_once_more(n) == n > 0 /\ n <= MaxRetries + 1

RetryAllowed(n) == n > 0 /\ n <= MaxRetries

\* `except Exception` of _run_event.  The row is running here, so
\* schedule_retry always finds it.
RowAfterFailure(d) ==
  \/ d \in shutdownCancelled /\ UNCHANGED dbVars
  \/ /\ d \notin shutdownCancelled
     /\ d \in cancelled
     /\ Marked(d, "failed")
  \/ /\ d \notin shutdownCancelled \cup cancelled
     /\ IF RetryAllowed(attempts[d])
        THEN RetryScheduled(d)
        ELSE Marked(d, "failed")
  \/ DbFaults /\ UNCHANGED dbVars

\* The handler returns without an agent (cleanup, nothing to do) or after it.
Succeed(d) ==
  /\ Runs(d) /\ pc[d] \in {"working", "finishing"}
  /\ RowAfterSuccess(d)
  /\ Finalize(d)
  /\ pc' = [pc EXCEPT ![d] = "reclaiming"]
  /\ UNCHANGED <<dispVars, inflight, thr, tcancel, lifeVars, bounds>>

\* The handler raises: before, in or after the agent's turn, or because
\* mark_event itself raised.
Fail(d) ==
  /\ Runs(d)
  /\ \/ pc[d] \in {"working", "finishing"}
     \/ pc[d] = "rpc" /\ thr[d] = "raised"
  /\ RowAfterFailure(d)
  /\ Finalize(d)
  /\ pc' = [pc EXCEPT ![d] = "reclaiming"]
  /\ thr' = [thr EXCEPT ![d] = "none"]
  /\ UNCHANGED <<dispVars, inflight, tcancel, lifeVars, bounds>>

\* _reclaim_event_caches, awaited while the key is still in _inflight.
Reclaim(d) ==
  /\ Runs(d) /\ pc[d] = "reclaiming"
  /\ pc' = [pc EXCEPT ![d] = "releasing"]
  /\ UNCHANGED <<dbVars, dispVars, inflight, cancelVars, slot, available, thr,
                 tcancel, lifeVars, bounds>>

\* _release, once _inflight_lock is free.
Release(d) ==
  /\ Runs(d) /\ pc[d] = "releasing" /\ ~LockHeld
  /\ inflight' = inflight \ {InflightKey(d)}
  /\ pc' = [pc EXCEPT ![d] = "none"]
  /\ UNCHANGED <<dbVars, dispVars, cancelVars, slot, available, thr, tcancel,
                 lifeVars, bounds>>

\* CancelledError is no Exception: it skips the except clause, runs the
\* finally clause and leaves the row running.  The thread of the driver is
\* not stopped by it; reaping the slot kills an agent that already runs
\* under the slot's uid, but no container.  A task that was already in the
\* awaits of its finally clause ends there and keeps its key in _inflight.
Unwind(d) ==
  /\ LoopFree /\ d \in tcancel
  /\ tcancel' = tcancel \ {d}
  /\ \/ /\ pc[d] \in Handling
        /\ Finalize(d)
        /\ pc' = [pc EXCEPT ![d] = "releasing"]
        /\ \/ /\ thr[d] \in {"checked", "driving"}
              /\ thr' = [thr EXCEPT ![d] = "stopped"]
           \/ /\ thr[d] \in {"returned", "raised"}
              /\ thr' = [thr EXCEPT ![d] = "none"]
           \/ /\ thr[d] \notin {"returned", "raised"}
              /\ UNCHANGED thr
     \/ /\ pc[d] \notin Handling
        /\ pc' = [pc EXCEPT ![d] = "none"]
        /\ UNCHANGED <<cancelVars, slot, available, thr>>
  /\ UNCHANGED <<dbVars, dispVars, inflight, lifeVars, bounds>>

-----------------------------------------------------------------------------
(* The thread of a task's agent: _run_rpc_blocking.                        *)

\* RpcClient.__enter__ starts the agent, then _arm_cancel looks whether the
\* delivery is cancelled already and, if it is, fires the hook on the spot.
SpawnAgent(d) ==
  /\ phase # "down" /\ thr[d] = "starting"
  /\ thr' = [thr EXCEPT ![d] = IF d \in cancelled THEN "stopped" ELSE "checked"]
  /\ UNCHANGED <<dbVars, dispVars, inflight, cancelVars, pc, slot, available,
                 tcancel, lifeVars, bounds>>

\* Resolving the image or starting the agent raises.
SpawnFails(d) ==
  /\ phase # "down" /\ thr[d] = "starting"
  /\ thr' = [thr EXCEPT ![d] = IF pc[d] = "rpc" THEN "raised" ELSE "none"]
  /\ UNCHANGED <<dbVars, dispVars, inflight, cancelVars, pc, slot, available,
                 tcancel, lifeVars, bounds>>

\* The second half of _arm_cancel, on the same thread but a later bytecode:
\* the hook goes into _cancel_hooks.
ArmHook(d) ==
  /\ phase # "down" /\ thr[d] = "checked"
  /\ thr' = [thr EXCEPT ![d] = "driving"]
  /\ hooks' = hooks \cup {d}
  /\ UNCHANGED <<dbVars, dispVars, inflight, cancelled, firing,
                 shutdownCancelled, pc, slot, available, tcancel, lifeVars,
                 bounds>>

\* The hook stops the agent's client, if its thread is still driving it.
HookRuns(d) ==
  /\ phase # "down" /\ d \in firing
  /\ firing' = firing \ {d}
  /\ thr' = [thr EXCEPT ![d] = IF @ = "driving" THEN "stopped" ELSE @]
  /\ UNCHANGED <<dbVars, dispVars, inflight, cancelled, hooks,
                 shutdownCancelled, pc, slot, available, tcancel, lifeVars,
                 bounds>>

\* The turn ends by itself, by abort_task, by the hard timer or because the
\* client was stopped; a stopped client may have had its answer already.
\* The finally clause disarms the hook, and one that is being fired finds
\* its client closed.  Nobody awaits the thread of a task that is gone.
AgentEnds(d) ==
  /\ phase # "down" /\ thr[d] \in {"driving", "stopped"}
  /\ \E outcome \in {"returned", "raised"} :
        thr' = [thr EXCEPT ![d] = IF pc[d] = "rpc" THEN outcome ELSE "none"]
  /\ hooks' = hooks \ {d}
  /\ firing' = firing \ {d}
  /\ UNCHANGED <<dbVars, dispVars, inflight, cancelled, shutdownCancelled, pc,
                 slot, available, tcancel, lifeVars, bounds>>

-----------------------------------------------------------------------------
(* Lifecycle: start, stop, crash.                                          *)

ResetStuckRunning_not == UNCHANGED dbVars

\* running -> queued, available_at NULL
ResetStuckRunning ==
  /\ row' = [d \in Deliveries |-> IF row[d] = "running" THEN "queued" ELSE row[d]]
  /\ backoff' = backoff \ {d \in Deliveries : row[d] = "running"}
  /\ UNCHANGED <<attempts, received, clock>>

Start ==
  /\ phase = "down"
  /\ phase' = "up"
  /\ ResetStuckRunning
  /\ dpc' = "top"
  /\ UNCHANGED <<claimed, wakeup, inflight, cancelVars, taskVars, victims,
                 bounds>>

\* stop() begins: the dispatcher is cancelled.  A database call it awaited
\* goes on in its thread, or had not begun and never will.  The server has
\* finished the requests it had accepted, cancels included.
StopBegins ==
  /\ phase = "up" /\ restarts < MaxRestarts /\ firing = {}
  /\ restarts' = restarts + 1
  /\ phase' = "draining"
  /\ wakeup' = TRUE
  /\ dpc' = "off" /\ claimed' = None
  /\ \/ dpc = "claiming" /\ \E d \in Deliveries : IsNext(d) /\ Claim(d)
     \/ dpc = "bouncing" /\ \E d \in Deliveries : claimed = d /\ Requeued(d)
     \/ UNCHANGED dbVars
  /\ UNCHANGED <<inflight, cancelVars, taskVars, victims, crashes, ops>>

Tasks == {d \in Deliveries : pc[d] # "none"}

DrainDone ==
  /\ phase = "draining" /\ Tasks = {}
  /\ phase' = "stopped"
  /\ UNCHANGED <<dbVars, dispVars, inflight, cancelVars, taskVars, victims,
                 bounds>>

DrainTimeout_none == FALSE /\ UNCHANGED vars

DrainTimeout ==
  /\ phase = "draining" /\ Tasks # {}
  /\ phase' = "killing" /\ victims' = Tasks
  /\ UNCHANGED <<dbVars, dispVars, inflight, cancelVars, taskVars, bounds>>

\* One turn of the loop over still_running: fire the task's hook and wait
\* for it, or cancel the task.  A task that ended meanwhile is passed over.
Interrupt(d) ==
  /\ phase = "killing" /\ d \in victims
  /\ victims' = victims \ {d}
  /\ IF pc[d] = "none"
     THEN UNCHANGED <<cancelVars, tcancel, phase>>
     ELSE /\ shutdownCancelled' = shutdownCancelled \cup {d}
          /\ UNCHANGED cancelled
          /\ IF d \in hooks
             THEN /\ hooks' = hooks \ {d}
                  /\ firing' = firing \cup {d}
                  /\ phase' = "firing"
                  /\ UNCHANGED tcancel
             ELSE /\ tcancel' = tcancel \cup {d}
                  /\ UNCHANGED <<hooks, firing, phase>>
  /\ UNCHANGED <<dbVars, dispVars, inflight, pc, slot, available, thr, bounds>>

HookReturned ==
  /\ phase = "firing" /\ firing = {}
  /\ phase' = "killing"
  /\ UNCHANGED <<dbVars, dispVars, inflight, cancelVars, taskVars, victims,
                 bounds>>

AllInterrupted ==
  /\ phase = "killing" /\ victims = {}
  /\ phase' = "settling"
  /\ UNCHANGED <<dbVars, dispVars, inflight, cancelVars, taskVars, victims,
                 bounds>>

\* asyncio.wait(still_running, timeout=kill_timeout)
Settled ==
  /\ phase = "settling"
  /\ phase' = "stopped"
  /\ UNCHANGED <<dbVars, dispVars, inflight, cancelVars, taskVars, victims,
                 bounds>>

\* Only the table outlives the process.
MemoryLost ==
  /\ phase' = "down" /\ victims' = {}
  /\ dpc' = "off" /\ claimed' = None /\ wakeup' = FALSE
  /\ inflight' = {} /\ cancelled' = {} /\ hooks' = {} /\ firing' = {}
  /\ shutdownCancelled' = {}
  /\ pc' = [d \in Deliveries |-> "none"]
  /\ slot' = [d \in Deliveries |-> NoSlot]
  /\ available' = Slots
  /\ thr' = [d \in Deliveries |-> "none"]
  /\ tcancel' = {}
  /\ UNCHANGED dbVars

Exit == phase = "stopped" /\ MemoryLost /\ UNCHANGED bounds

Crash ==
  /\ phase # "down" /\ crashes < MaxCrashes
  /\ crashes' = crashes + 1
  /\ MemoryLost
  /\ UNCHANGED <<restarts, ops>>

-----------------------------------------------------------------------------
Requests ==
  \E d \in Deliveries :
    \/ RecordEvent(d) \/ RecordSkipped(d) \/ RequeueEvent(d)
    \/ ManualTriage(d) \/ CancelEvent(d)

Dispatcher ==
  \/ BeginClaim \/ ClaimNothing \/ DispatcherFails
  \/ EnterWait \/ Woken \/ PollTimeout
  \/ \E d \in Deliveries : ClaimNext(d) \/ Admit(d) \/ Collide(d) \/ Bounce(d)

Task(d) ==
  \/ \E s \in Slots : AcquireSlot(d, s)
  \/ StartDriver(d) \/ DriverReturned(d) \/ Succeed(d) \/ Fail(d)
  \/ Reclaim(d) \/ Release(d) \/ Unwind(d)

Agent(d) ==
  \/ SpawnAgent(d) \/ SpawnFails(d) \/ ArmHook(d) \/ HookRuns(d) \/ AgentEnds(d)

Stopping ==
  \/ DrainDone \/ DrainTimeout \/ HookReturned \/ AllInterrupted \/ Settled
  \/ \E d \in Deliveries : Interrupt(d)

Lifecycle == Start \/ StopBegins \/ Stopping \/ Exit \/ Crash

Next ==
  \/ Requests \/ Dispatcher \/ Lifecycle
  \/ \E d \in Deliveries : BackoffElapses(d) \/ Task(d) \/ Agent(d)

Spec == Init /\ [][Next]_vars

-----------------------------------------------------------------------------
(* Fairness.  The loop, the database threads and the agent threads keep    *)
(* running: every await of a task is bounded by a timeout of the program   *)
(* (the hard timer of the agent, the request timeouts of the handlers) and *)
(* the waiters of _inflight_lock and of the slots are served in turn.      *)
(* Failures, requests, stops and crashes are never forced to happen.       *)

TaskProgress(d) ==
  StartDriver(d) \/ DriverReturned(d) \/ Succeed(d) \/ Fail(d) \/ Reclaim(d)
    \/ Unwind(d)

AgentProgress(d) == SpawnAgent(d) \/ ArmHook(d) \/ HookRuns(d) \/ AgentEnds(d)

DispatcherFairness ==
  /\ WF_vars(BeginClaim) /\ WF_vars(ClaimNothing)
  /\ WF_vars(EnterWait) /\ WF_vars(Woken) /\ WF_vars(PollTimeout)
  /\ \A d \in Deliveries :
       /\ WF_vars(ClaimNext(d)) /\ WF_vars(Admit(d))
       /\ WF_vars(Collide(d)) /\ WF_vars(Bounce(d))

TaskFairness ==
  \A d \in Deliveries :
    /\ SF_vars(\E s \in Slots : AcquireSlot(d, s))
    /\ WF_vars(TaskProgress(d))
    /\ SF_vars(Release(d))
    /\ WF_vars(BackoffElapses(d))

StopFairness ==
  /\ WF_vars(Stopping) /\ WF_vars(Exit) /\ WF_vars(Start)
  /\ \A d \in Deliveries : WF_vars(HookRuns(d))

FairSpec ==
  /\ Spec
  /\ DispatcherFairness /\ TaskFairness /\ StopFairness
  /\ \A d \in Deliveries : WF_vars(AgentProgress(d))

\* stop() alone: handlers and agents may hang for ever.
StopSpec == Spec /\ StopFairness

-----------------------------------------------------------------------------
TypeOK ==
  /\ row \in [Deliveries -> RowStates]
  /\ attempts \in [Deliveries -> 0..(MaxRetries + 1)]
  /\ received \in [Deliveries -> Nat]
  /\ backoff \subseteq Deliveries
  /\ clock \in Nat
  /\ dpc \in DispatcherPoints
  /\ claimed \in Deliveries \cup {None}
  /\ wakeup \in BOOLEAN
  /\ inflight \subseteq {InflightKey(d) : d \in Deliveries}
  /\ cancelled \subseteq Deliveries
  /\ hooks \subseteq Deliveries
  /\ firing \subseteq Deliveries
  /\ shutdownCancelled \subseteq Deliveries
  /\ pc \in [Deliveries -> TaskPoints]
  /\ slot \in [Deliveries -> Slots \cup {NoSlot}]
  /\ available \subseteq Slots
  /\ thr \in [Deliveries -> ThreadPoints]
  /\ tcancel \subseteq Deliveries
  /\ phase \in Phases
  /\ victims \subseteq Deliveries
  /\ restarts \in Nat /\ crashes \in Nat /\ ops \in Nat

\* Two deliveries of one issue (or pull request) are never worked on at the
\* same time: neither by two tasks, counting a task whose caches are still
\* being reclaimed, nor by an agent that outlives its task.  This is what
\* _inflight, the NOT EXISTS of claim_next_event and the order reclaim, then
\* release of _run_event are for.
OneDeliveryPerIssue ==
  \A d, e \in Deliveries :
    d # e /\ SameIssue(d, e) /\ (pc[d] # "none" \/ thr[d] # "none")
      => pc[e] = "none" /\ thr[e] = "none"

\* While the pool serves, an agent's thread is always awaited by the task it
\* belongs to: no request leaves an agent running that nobody supervises.
NoDetachedAgent ==
  phase = "up" => \A d \in Deliveries : thr[d] # "none" => pc[d] = "rpc"

\* Every slot is in the pool or held by exactly one task that is past the
\* acquisition and before its finally clause: no slot leaks, whatever ended
\* the handler, and no uid is shared.
SlotAccounting ==
  /\ \A d \in Deliveries : slot[d] # NoSlot <=> pc[d] \in Slotted
  /\ \A d, e \in Deliveries : d # e /\ slot[d] # NoSlot => slot[d] # slot[e]
  /\ available = Slots \ {slot[d] : d \in Deliveries}

\* The row of a delivery whose handler runs stays running until the handler
\* decides: no request, claim or requeue takes it away.
HandledRowIsRunning ==
  \A d \in Deliveries : pc[d] \in Handling => row[d] = "running"

\* A running row blocks every other row of its issue, so while the pool
\* serves it must belong to the dispatcher or to a handler: a stop or a crash
\* leaves running rows behind, but none survives the next start.
RunningRowIsOwned ==
  phase = "up" =>
    \A d \in Deliveries :
      row[d] = "running" => claimed = d \/ pc[d] \in Handling

\* Every queued row is eventually decided, although wakeups get lost, keys
\* collide, handlers fail and are retried, and the process restarts.
QueuedIsDecided ==
  \A d \in Deliveries : row[d] = "queued" ~> row[d] \in Inactive

\* An accepted cancel ends with the row marked failed (server.py: "the row
\* lands in `failed`"), wherever the handler was when it came, unless the
\* process is stopped first: the mark lives in its memory only.
CancelLands ==
  \A d \in Deliveries : d \in cancelled ~> row[d] = "failed" \/ phase # "up"

\* stop() returns although agents and handlers may hang.
StopReturns == phase = "draining" ~> phase \in {"stopped", "down"}

\* A cancel that came while the thread was arming its hook is not lost
\* (_arm_cancel: "fire the hook immediately so we don't lose the signal").
LateHookSeesCancel == cancelled \cap hooks = {}

-----------------------------------------------------------------------------
(* The inductive invariant behind the safety properties.                   *)

\* A task owns the key of its issue until it is gone.
KeyIsHeld ==
  \A d \in Deliveries : pc[d] # "none" => InflightKey(d) \in inflight

\* Only stop() interrupts tasks, and a dispatcher exists only while the pool
\* serves.
ServingIsUndisturbed ==
  /\ phase = "up" => tcancel = {} /\ shutdownCancelled = {}
  /\ dpc # "off" => phase = "up"

\* What the dispatcher has claimed is running in the table and is nobody
\* else's yet.
ClaimIsPrivate ==
  /\ claimed # None <=> dpc \in {"claimed", "bouncing"}
  /\ claimed # None => row[claimed] = "running" /\ pc[claimed] \notin Handling

\* A process that is down has neither tasks nor agents.
DownIsQuiet ==
  phase = "down" =>
    /\ \A d \in Deliveries : pc[d] = "none" /\ thr[d] = "none"
    /\ tcancel = {} /\ shutdownCancelled = {}

TaskInv ==
  /\ KeyIsHeld
  /\ ServingIsUndisturbed
  /\ DownIsQuiet
  /\ OneDeliveryPerIssue
  /\ NoDetachedAgent

RowInv == ClaimIsPrivate /\ HandledRowIsRunning

PoolInv == TypeOK /\ TaskInv /\ RowInv

-----------------------------------------------------------------------------
(* What the pool promises, without slots, hooks, locks or wakeups.         *)

Ledger == INSTANCE EventLedger WITH
            state <- row,
            working <- {d \in Deliveries : pc[d] \in Handling}

\* The rows and the handlers behave as EventLedger says: in particular a row
\* is claimed only when no row of its issue is running, a handler begins
\* only when no other handler of the issue is at work, and only a handler
\* or a restart ends a running row that has a handler.
LedgerSpec == Ledger!Spec
=============================================================================
