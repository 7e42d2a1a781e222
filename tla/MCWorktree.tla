----------------------------- MODULE MCWorktree -----------------------------
(* An instance of Worktree for TLC: two issues with a branch each, of which  *)
(* people share the first.  Agents do not fetch; only set-ups do.            *)
EXTENDS Worktree

CONSTANTS w1, w2, b1, b2

MCOwn == [w \in Workspaces |-> IF w = w1 THEN {b1} ELSE {b2}]

MCInit == Init /\ origin[b2] = None

MCNext ==
  /\ Next
  /\ origin'[Default] = {} /\ origin'[b2] = None
  /\ tracking' # tracking => at' # at \/ push' # push

MCSpec == MCInit /\ [][MCNext]_vars
=============================================================================
