---------------------------- MODULE RetryBudget ----------------------------
(***************************************************************************)
(* WorkerPool with a history variable: how often the handler of each       *)
(* delivery has raised since its work was last asked for, by a webhook or  *)
(* by an operator who replays or triages a row that was decided.           *)
(***************************************************************************)
EXTENDS WorkerPool

VARIABLE failures

\* The step ends d's handler by an exception that is neither an operator's
\* cancel nor the shutdown's interrupt.
HandlerRaised(d) ==
  /\ pc[d] \in Handling /\ pc'[d] = "reclaiming"
  /\ d \notin cancelled \cup shutdownCancelled
  /\ row'[d] \in {"queued", "failed"}

AskedFor(d) == row[d] \in Inactive /\ row'[d] \notin Inactive

HistoryInit == Init /\ failures = [d \in Deliveries |-> 0]

HistoryNext ==
  /\ Next
  /\ failures' = [d \in Deliveries |->
                    IF HandlerRaised(d) THEN failures[d] + 1
                    ELSE IF AskedFor(d) THEN 0 ELSE failures[d]]

HistorySpec == HistoryInit /\ [][HistoryNext]_<<vars, failures>>

\* No delivery is tried more often than once plus event_max_retries times,
\* although its attempts are counted before the handler runs, survive
\* restarts and are not given back when a claim is undone.
WithinRetryBudget ==
  \A d \in Deliveries : failures[d] <= MaxRetries + 1
-----------------------------------------------------------------------------
(* The inductive invariant behind it.                                      *)

\* A row that is claimed has been claimed more often than its handler has
\* raised, and one that waits for the next try at least as often.
ClaimsCoverFailures ==
  \A d \in Deliveries :
    /\ row[d] = "absent" => failures[d] = 0
    /\ row[d] = "queued" => failures[d] <= attempts[d] /\ failures[d] <= MaxRetries
    /\ row[d] = "running" => failures[d] < attempts[d]

BudgetInv ==
  failures \in [Deliveries -> Nat] /\ ClaimsCoverFailures /\ WithinRetryBudget
=============================================================================
