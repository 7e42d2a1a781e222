---------------------------- MODULE MCBackground ----------------------------
(* Instances for TLC of the loops that run beside the handlers.  Each        *)
(* behaviour is one of two parts:                                            *)
(*   closing: Autoclose, with two issues that compete for a batch of one,    *)
(*     one of them answered twice;                                           *)
(*   index: IssueIndex, with two issues and pages of one.                    *)
EXTENDS MCAutoclose

CONSTANTS Numbers, None, Overlap, PageSize, MaxPages, MaxChanges, LongRun

\* Sizes are numbers, and no state of an issue is the absent one.
ASSUME IndexAssumption ==
  /\ Overlap \in Nat /\ LongRun \in Nat /\ MaxChanges \in Nat /\ MaxPages \in Nat \ {0}
  /\ None \notin [n : 1..MaxChanges, at : 0..LongRun]

VARIABLES part, time, listed, deliveries, rows, watermark, sync, changes, skipped

indexing == <<time, listed, deliveries, rows, watermark, sync, changes, skipped>>

X == INSTANCE IssueIndex WITH
       Issues <- Numbers, MaxTime <- LongRun, now <- time, github <- listed

MCInit == part \in {"closing", "index"} /\ Init /\ X!Init

MCNext ==
  /\ \/ part = "closing" /\ Next /\ UNCHANGED indexing
     \/ part = "index" /\ X!Next /\ UNCHANGED vars
  /\ UNCHANGED part

MCSpec == MCInit /\ [][MCNext]_<<vars, part, indexing>> /\ Fairness

-----------------------------------------------------------------------------
\* No stale row of the index is final (sync_repo).
StaleIsListed == X!StaleIsListed
=============================================================================
