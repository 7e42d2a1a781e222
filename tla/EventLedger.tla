---------------------------- MODULE EventLedger ----------------------------
(***************************************************************************)
(* What the event queue promises to the issues it serves.  A delivery has  *)
(* a state; the deliveries in "working" are being handled.  At most one    *)
(* delivery of an issue is handled at a time, a handler has its delivery   *)
(* to itself until it decides, and work that was cut short starts over.    *)
(***************************************************************************)
CONSTANTS Deliveries, IssueKey, NoKey

VARIABLES state, working

ledger == <<state, working>>

Decided == {"done", "failed", "skipped"}

\* A delivery without an issue key shares its issue with no other.
SameIssue(d, e) == d = e \/ (IssueKey[d] # NoKey /\ IssueKey[d] = IssueKey[e])

Init ==
  /\ state = [d \in Deliveries |-> "absent"]
  /\ working = {}

Becomes(d, s) == state' = [state EXCEPT ![d] = s]

Receive(d) ==
  /\ state[d] = "absent"
  /\ Becomes(d, "queued") \/ Becomes(d, "skipped")
  /\ UNCHANGED working

Requeue(d) ==
  /\ state[d] \in Decided
  /\ Becomes(d, "queued")
  /\ UNCHANGED working

Claim(d) ==
  /\ state[d] = "queued"
  /\ \A e \in Deliveries \ {d} : SameIssue(d, e) => state[e] # "running"
  /\ Becomes(d, "running")
  /\ UNCHANGED working

PutBack(d) ==
  /\ state[d] = "running" /\ d \notin working
  /\ Becomes(d, "queued")
  /\ UNCHANGED working

Begin(d) ==
  /\ state[d] = "running"
  /\ \A e \in working : ~SameIssue(d, e)
  /\ working' = working \cup {d}
  /\ UNCHANGED state

\* The handler ends: the work is done, has failed, or is to be tried again.
Decide(d) ==
  /\ d \in working
  /\ \E s \in {"done", "failed", "queued"} : Becomes(d, s)
  /\ working' = working \ {d}

\* Handlers are cut short by a stop or a crash ...
Abandon ==
  /\ \E W \in SUBSET working : working' = W
  /\ UNCHANGED state

\* ... and their deliveries are handled again.
Recover ==
  /\ working = {}
  /\ state' = [d \in Deliveries |->
                 IF state[d] = "running" THEN "queued" ELSE state[d]]
  /\ UNCHANGED working

Next ==
  \/ \E d \in Deliveries :
       \/ Receive(d) \/ Requeue(d) \/ Claim(d) \/ PutBack(d)
       \/ Begin(d) \/ Decide(d)
  \/ Abandon \/ Recover

Spec == Init /\ [][Next]_ledger
=============================================================================
