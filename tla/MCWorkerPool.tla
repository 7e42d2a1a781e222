---------------------------- MODULE MCWorkerPool ----------------------------
(***************************************************************************)
(* Instances of WorkerPool for TLC: two deliveries of one issue and one    *)
(* delivery whose issue_key is NULL.                                       *)
(***************************************************************************)
EXTENDS WorkerPool, TLC

CONSTANTS d1, d2, d3, k1

\* d1 and d2 belong to issue k1; d3 has no issue.
MCIssueKey == [d \in Deliveries |-> IF d = d3 THEN NoKey ELSE k1]
=============================================================================
