------------------------------ MODULE Worktree ------------------------------
(***************************************************************************)
(* The checkouts of one repository: the clone all its workspaces share,    *)
(* their git worktrees (sandbox.py), fetching, its repair and pushing      *)
(* (git_ops.py), and the gates before a push (host_tools.py).              *)
(*                                                                         *)
(* Set-ups and removals take the repository's lock; agents, pushes and     *)
(* people do not.  The tip of a branch is the set of commits that it has   *)
(* beyond the first one of the default branch.  What git does is external: *)
(* it is modelled from the exit codes the code distinguishes.              *)
(***************************************************************************)
EXTENDS Naturals, FiniteSets

CONSTANTS
  Workspaces,
  Branches, Default,   \* branches of the repository, among them the default one
  Own,                 \* farm/<hex>/<slug>: the branches a workspace's own issue may have
  None,
  Detached,            \* HEAD of a review's worktree
  MaxCommits, MaxFaults

Commits == [n : 1..MaxCommits, by : {"bot", "other"}]
Tips == SUBSET Commits
Foreign(cs) == {c \in cs : c.by = "other"}

Stages == {"idle", "clone", "add", "pruneAdd", "agent", "remove", "pruneRm", "rmtree"}
Locked == Stages \ {"idle", "agent"}
Requests == [branch : Branches \ {Default}, kind : {"fresh", "existing", "review"}]
PushStages == {"formatted", "reworded", "gated", "leased"}
Pushes == [branch : Branches, stage : PushStages, head : Tips \union {None},
           seen : Tips \union {None}, lease : Tips \union {None}, late : BOOLEAN]

VARIABLES
  origin,    \* refs/heads/* on GitHub
  pool,      \* the shared clone's directory
  tracking,  \* refs/remotes/origin/* of the clone, shared by its worktrees
  heads,     \* refs/heads/* of the clone
  bad,       \* heads whose objects are missing
  reg,       \* HEAD of each worktree registered in the clone
  initializing,  \* registrations that git worktree add locked and did not unlock
  root,      \* workspaces whose directory exists
  tree,      \* the checkout in it, by its .git file
  at,        \* how far a workspace's set-up or removal has come
  want,      \* arguments of the set-up
  push,      \* gh_push_branch under way; late: nobody waits for its answer any more
  fetching,  \* a fetch goes on that its set-up was told has failed
  made, faults,
  torn       \* history: workspaces whose process died between git's steps

remote == <<origin, made>>
clone  == <<pool, tracking, heads, bad, fetching>>
disk   == <<reg, initializing, root, tree>>
vars   == <<remote, clone, disk, at, want, push, faults, torn>>

TypeOK ==
  /\ origin \in [Branches -> Tips \union {None}]
  /\ pool \in {"absent", "empty", "partial", "cloned"}
  /\ tracking \in [Branches -> Tips \union {None}]
  /\ heads \in [Branches -> Tips \union {None}] /\ bad \subseteq Branches
  /\ reg \in [Workspaces -> Branches \union {None, Detached}]
  /\ initializing \union root \union torn \subseteq Workspaces
  /\ tree \in [Workspaces -> {"none", "partial", "whole"}]
  /\ at \in [Workspaces -> Stages] /\ want \in [Workspaces -> Requests \union {None}]
  /\ push \in [Workspaces -> SUBSET Pushes] /\ fetching \in BOOLEAN
  /\ made \in 0..MaxCommits /\ faults \in 0..MaxFaults

\* Branches other than the default are there or not.
Init ==
  /\ origin \in [Branches -> {None, {}}] /\ origin[Default] = {}
  /\ pool = "absent" /\ bad = {}
  /\ tracking = [b \in Branches |-> None] /\ heads = [b \in Branches |-> None]
  /\ reg = [w \in Workspaces |-> None] /\ initializing = {} /\ root = {}
  /\ tree = [w \in Workspaces |-> "none"]
  /\ at = [w \in Workspaces |-> "idle"] /\ want = [w \in Workspaces |-> None]
  /\ push = [w \in Workspaces |-> {}] /\ fetching = FALSE
  /\ made = 0 /\ faults = 0 /\ torn = {}

Fault == faults < MaxFaults /\ faults' = faults + 1

New(by) == [n |-> made + 1, by |-> by]
Make == made < MaxCommits /\ made' = made + 1

(***************************************************************************)
(* People                                                                  *)
(***************************************************************************)
local == <<clone, disk, at, want, push, faults, torn>>

PeoplePush(b) ==
  /\ Make /\ origin[b] # None
  /\ origin' = [origin EXCEPT ![b] = @ \union {New("other")}]
  /\ UNCHANGED local

\* A merge, a branch deleted after it, or a forced push of people's own.
PeopleRewrite(b) ==
  /\ b # Default /\ origin[b] # None
  /\ \E tip \in {None} \union {origin[b] \ {c} : c \in origin[b]} :
       origin' = [origin EXCEPT ![b] = tip]
  /\ UNCHANGED <<made, local>>

(***************************************************************************)
(* ensure_workspace                                                        *)
(***************************************************************************)
Free == \A w \in Workspaces : at[w] \notin Locked

Setup(w, request) ==
  /\ at[w] = "idle" /\ Free
  /\ request.kind = "fresh" => request.branch \in Own[w]
  /\ at' = [at EXCEPT ![w] = "clone"]
  /\ want' = [want EXCEPT ![w] = request]
  /\ UNCHANGED <<remote, clone, disk, push, faults, torn>>

Ends(w, stage) ==
  /\ at' = [at EXCEPT ![w] = stage]
  /\ want' = [want EXCEPT ![w] = None]
Raise(w) == Ends(w, "idle")

HasClone == pool \in {"partial", "cloned"}

\* git worktree prune drops what has no checkout any more, and passes over what
\* is locked.
Pruned(v) == tree[v] = "none" /\ v \notin initializing

\* A fetch that names a ref it cannot read removes the worktrees on it, unless git
\* refuses to, prunes, deletes the ref and is tried again.
Repaired(v) == reg[v] \in bad /\ v \notin initializing
Dropped(v) == Repaired(v) \/ (Pruned(v) /\ \E u \in Workspaces : reg[u] \in bad)

\* clone or fetch --prune
Fetched ==
  /\ tracking' = origin
  /\ heads' = [b \in Branches |->
       IF b \in bad THEN None ELSE IF b = Default /\ ~HasClone THEN origin[b] ELSE heads[b]]
  /\ bad' = {}
  /\ reg' = [v \in Workspaces |-> IF Dropped(v) THEN None ELSE reg[v]]
  /\ tree' = [v \in Workspaces |-> IF Repaired(v) THEN "none" ELSE tree[v]]

EnsureClone(w) ==
  /\ at[w] = "clone"
  /\ pool' = "cloned"
  /\ Fetched
  /\ root' = root \union {w}
  /\ at' = [at EXCEPT ![w] = "add"]
  /\ UNCHANGED <<remote, initializing, fetching, want, push, faults, torn>>

\* A clone that is killed leaves its directory with a .git, one that fails
\* leaves it empty.  A fetch that exceeds the proxy's time goes on.
CloneFails(w) ==
  /\ at[w] = "clone" /\ Fault
  /\ IF HasClone
       THEN UNCHANGED pool /\ fetching' \in {fetching, TRUE}
       ELSE pool' \in {"empty", "partial"} /\ UNCHANGED fetching
  /\ Raise(w)
  /\ UNCHANGED <<remote, tracking, heads, bad, disk, push, torn>>

\* It takes no lock any more.
LateFetch ==
  /\ fetching
  /\ fetching' = FALSE
  /\ Fetched
  /\ UNCHANGED <<remote, pool, initializing, root, at, want, push, faults, torn>>

\* A checkout with a .git is taken as it is, on the branch that it is on.
Adopt(w) ==
  /\ at[w] = "add" /\ tree[w] # "none"
  /\ Ends(w, "agent")
  /\ UNCHANGED <<remote, clone, disk, push, faults, torn>>

\* git worktree add refuses a path and a branch that a registration has.
Blocked(w) ==
  \/ reg[w] # None
  \/ want[w].kind # "review" /\ \E v \in Workspaces : reg[v] = want[w].branch

\* Where the branch begins: where it was left, else at the pull's head, else at
\* the default branch.
Start(w, refs) ==
  LET b == want[w].branch
  IN CASE heads[b] # None -> heads[b]
       [] heads[b] = None /\ want[w].kind = "existing" /\ refs[b] # None -> refs[b]
       [] OTHER -> refs[Default]

\* fetch_base_ref brings one ref up to date, or fails and is ignored.
Refreshed(w) ==
  {tracking} \union
  {[tracking EXCEPT ![b] = origin[b]] :
     b \in {x \in {IF want[w].kind = "existing" THEN want[w].branch ELSE Default} :
              want[w].kind # "review" /\ origin[x] # None}}

\* What git worktree add writes, up to the files of the checkout.
Registered(w, refs) ==
  IF want[w].kind = "review"
    THEN /\ reg' = [reg EXCEPT ![w] = Detached]
         /\ UNCHANGED heads
    ELSE /\ reg' = [reg EXCEPT ![w] = want[w].branch]
         /\ heads' = [heads EXCEPT ![want[w].branch] = Start(w, refs)]

AddWorktree(w) ==
  /\ at[w] = "add" /\ tree[w] = "none" /\ ~Blocked(w)
  /\ tracking' \in Refreshed(w)
  /\ Registered(w, tracking')
  /\ tree' = [tree EXCEPT ![w] = "whole"]
  /\ Ends(w, "agent")
  /\ UNCHANGED <<remote, pool, bad, fetching, initializing, root, push, faults, torn>>

\* Refused by git, or killed: the checkout is deleted, the registration pruned.
AddRefused(w) ==
  /\ at[w] = "add" /\ tree[w] = "none" /\ Blocked(w)
  /\ tracking' \in Refreshed(w)
  /\ Ends(w, "pruneAdd")
  /\ UNCHANGED <<remote, pool, heads, bad, fetching, disk, push, faults, torn>>

\* git worktree add keeps its registration locked until the checkout is complete;
\* killed before, it leaves it so.
Interrupted(w) == initializing' \in {initializing, initializing \union {w}}

AddKilled_keepsCheckout(w) ==
  /\ at[w] = "add" /\ tree[w] = "none" /\ ~Blocked(w) /\ Fault
  /\ tracking' \in Refreshed(w)
  /\ Registered(w, tracking') /\ Interrupted(w)
  /\ tree' = [tree EXCEPT ![w] = "partial"]
  /\ Ends(w, "pruneAdd")
  /\ UNCHANGED <<remote, pool, bad, fetching, root, push, torn>>

AddKilled(w) ==
  /\ at[w] = "add" /\ tree[w] = "none" /\ ~Blocked(w) /\ Fault
  /\ tracking' \in Refreshed(w)
  /\ Registered(w, tracking') /\ Interrupted(w)
  /\ Ends(w, "pruneAdd")
  /\ UNCHANGED <<remote, pool, bad, fetching, root, tree, push, torn>>

\* What fails before git writes anything: the probes of refs that time out, the
\* fetch of a pull's head, and, once there is a checkout, chown and git config.
SetupFails(w) ==
  /\ at[w] = "add" /\ Fault
  /\ Raise(w)
  /\ UNCHANGED <<remote, clone, disk, push, torn>>

\* It exits 0, whatever it passes over.
Prune == reg' = [v \in Workspaces |-> IF Pruned(v) THEN None ELSE reg[v]]

PruneAfterAdd(w) ==
  /\ at[w] = "pruneAdd"
  /\ Raise(w)
  /\ \/ Prune /\ UNCHANGED faults
     \/ Fault /\ UNCHANGED reg
  /\ UNCHANGED <<remote, clone, initializing, root, tree, push, torn>>

(***************************************************************************)
(* remove_workspace                                                        *)
(***************************************************************************)
Remove(w) ==
  /\ at[w] = "idle" /\ Free
  /\ at' = [at EXCEPT ![w] = "remove"]
  /\ UNCHANGED <<remote, clone, disk, want, push, faults, torn>>

Removing(w, stage) ==
  /\ at' = [at EXCEPT ![w] = stage]
  /\ UNCHANGED <<remote, clone, initializing, root, want, push, torn>>

\* git worktree remove --force refuses what is locked, and may fail or be killed.
Unregistered(w) ==
  \/ /\ w \notin initializing
     /\ reg' = [reg EXCEPT ![w] = None]
     /\ Removing(w, "rmtree") /\ UNCHANGED faults
  \/ /\ w \in initializing /\ UNCHANGED <<reg, faults>>
     /\ Removing(w, "pruneRm")
  \/ /\ Fault /\ UNCHANGED reg
     /\ Removing(w, "pruneRm")

RemoveWorktree_prunesFailuresOnly(w) ==
  /\ at[w] = "remove"
  /\ \/ /\ HasClone /\ tree[w] # "none"
        /\ tree' = [tree EXCEPT ![w] = "none"]
        /\ Unregistered(w)
     \/ /\ ~HasClone \/ tree[w] = "none"
        /\ Removing(w, "rmtree")
        /\ UNCHANGED <<reg, tree, faults>>

\* A checkout that git does not remove is deleted and its registration pruned;
\* a workspace without a checkout may have left a registration, too.
RemoveWorktree(w) ==
  /\ at[w] = "remove"
  /\ \/ /\ HasClone /\ tree[w] # "none"
        /\ tree' = [tree EXCEPT ![w] = "none"]
        /\ Unregistered(w)
     \/ /\ HasClone /\ tree[w] = "none" /\ w \in root
        /\ Removing(w, "pruneRm")
        /\ UNCHANGED <<reg, tree, faults>>
     \/ /\ ~HasClone \/ (tree[w] = "none" /\ w \notin root)
        /\ Removing(w, "rmtree")
        /\ UNCHANGED <<reg, tree, faults>>

\* A prune that fails fails the removal, which is then retried.
PruneAfterRemove(w) ==
  /\ at[w] = "pruneRm"
  /\ \/ Prune /\ Removing(w, "rmtree") /\ UNCHANGED <<tree, faults>>
     \/ Fault /\ Removing(w, "idle") /\ UNCHANGED <<reg, tree>>

RemoveRoot(w) ==
  /\ at[w] = "rmtree"
  /\ root' = root \ {w}
  /\ tree' = [tree EXCEPT ![w] = "none"]
  /\ torn' = torn \ {w}
  /\ Raise(w)
  /\ UNCHANGED <<remote, clone, reg, initializing, push, faults>>

(***************************************************************************)
(* The agent                                                               *)
(***************************************************************************)
Usable(w) == tree[w] # "none" /\ reg[w] \in Branches \ bad /\ heads[reg[w]] # None
Writes(w) == at[w] = "agent" /\ Usable(w)

\* The agent commits, with the configured identity or another, ...
Commit(w, by) ==
  /\ Writes(w) /\ Make
  /\ heads' = [heads EXCEPT ![reg[w]] = @ \union {New(by)}]
  /\ UNCHANGED <<origin, pool, tracking, bad, fetching, disk, at, want, push, faults, torn>>

\* ... amends, resets or rebases, ...
Rewrite(w) ==
  /\ Writes(w)
  /\ \E tip \in {heads[reg[w]] \ {c} : c \in heads[reg[w]]} \union
               (IF tracking[reg[w]] = None THEN {}
                ELSE {heads[reg[w]] \union tracking[reg[w]]}) :
       heads' = [heads EXCEPT ![reg[w]] = tip]
  /\ UNCHANGED <<remote, pool, tracking, bad, fetching, disk, at, want, push, faults, torn>>

\* ... and fetches the branch.
AgentFetch(w) ==
  /\ Writes(w) /\ origin[reg[w]] # None
  /\ tracking' = [tracking EXCEPT ![reg[w]] = origin[reg[w]]]
  /\ UNCHANGED <<remote, pool, heads, bad, fetching, disk, at, want, push, faults, torn>>

\* classify_issue may rename the branch of the issue, unless the name is taken.
\* (Not when the row has a pull, which is IssueLifecycle's to know.)
RenameBranch(w) ==
  /\ Writes(w) /\ reg[w] \in Own[w]
  /\ \E b \in Own[w] :
       /\ heads[b] = None
       /\ heads' = [heads EXCEPT ![b] = heads[reg[w]], ![reg[w]] = None]
       /\ reg' = [reg EXCEPT ![w] = b]
  /\ UNCHANGED <<remote, pool, tracking, bad, fetching, initializing, root, tree, at, want,
                 push, faults, torn>>

AgentEnds(w) ==
  /\ at[w] = "agent"
  /\ Raise(w)
  /\ UNCHANGED <<remote, clone, disk, push, faults, torn>>

(***************************************************************************)
(* gh_push_branch and the push of gh_open_pr.  Each step is a git command  *)
(* of its own; it does not hold the repository's lock and may go on when   *)
(* the agent is gone, and git's part of it, in the proxy, when it exceeded *)
(* the proxy's time or the orchestrator stopped.                           *)
(***************************************************************************)
Exclude(b) == IF tracking[b] = None THEN tracking[Default] ELSE tracking[b]

pushOnly == <<clone, disk, at, want, faults, torn>>
pushHeads == <<origin, pool, tracking, bad, fetching, disk, at, want, faults, torn>>

Becomes(w, p, q) == push' = [push EXCEPT ![w] = (@ \ {p}) \union {q}]
Answered(w, p) == push' = [push EXCEPT ![w] = @ \ {p}]

\* bun run fix, if the repository has it: a change is amended into HEAD, which
\* must be the bot's and not the default branch's.
Format(w) ==
  /\ Writes(w)
  /\ \A p \in push[w] : p.late
  /\ push' = [push EXCEPT ![w] = @ \union
       {[branch |-> reg[w], stage |-> "formatted", head |-> None, seen |-> None,
         lease |-> None, late |-> FALSE]}]
  /\ \/ UNCHANGED <<heads, made>>
     \/ /\ Make
        /\ \E head \in heads[reg[w]] \ tracking[Default] :
             /\ head.by = "bot"
             /\ heads' = [heads EXCEPT ![reg[w]] = (@ \ {head}) \union {New("bot")}]
  /\ UNCHANGED pushHeads

\* Commits not published whose messages need it are made anew, with those that
\* follow them, by their authors; HEAD moves by compare-and-swap.
Anew(c, cs) == [n |-> made + Cardinality({d \in cs : d.n <= c.n}), by |-> c.by]

Reword(w, p) ==
  /\ p.stage = "formatted" /\ Usable(w)
  /\ Becomes(w, p, [p EXCEPT !.stage = "reworded"])
  /\ \E cs \in SUBSET (heads[reg[w]] \ Exclude(p.branch)) :
       /\ made' = made + Cardinality(cs) /\ made' <= MaxCommits
       /\ heads' = [heads EXCEPT ![reg[w]] = (@ \ cs) \union {Anew(c, cs) : c \in cs}]
  /\ UNCHANGED pushHeads

OnlyOwn(b, tip) == Foreign(tip \ Exclude(b)) = {}

Spares(b, tip) == tracking[b] # None => Foreign(tracking[b] \ tip) = {}

\* The gates: every commit that is not published, and every one that is and is
\* not in HEAD, is the bot's.
Gate(w, p) ==
  /\ p.stage = "reworded" /\ Usable(w)
  /\ OnlyOwn(p.branch, heads[reg[w]]) /\ Spares(p.branch, heads[reg[w]])
  /\ Becomes(w, p, [p EXCEPT !.stage = "gated", !.head = heads[reg[w]],
                             !.seen = tracking[p.branch]])
  /\ UNCHANGED <<remote, pushOnly>>

\* git_push: the head must still be the one the gates saw; the lease is what the
\* clone has for the branch by now.
Lease(w, p) ==
  /\ p.stage = "gated" /\ Usable(w)
  /\ IF heads[reg[w]] # p.head
       THEN Answered(w, p)
       ELSE Becomes(w, p, [p EXCEPT !.stage = "leased", !.lease = tracking[p.branch]])
  /\ UNCHANGED <<remote, pushOnly>>

Honoured_forced(p) == TRUE

\* --force-with-lease
Honoured(p) == origin[p.branch] = p.lease

\* GitHub may have taken a push whose answer, or whose update of the
\* remote-tracking ref, is lost.
Land(w, p) ==
  /\ p.stage = "leased" /\ Usable(w)
  /\ IF Honoured(p)
       THEN /\ origin' = [origin EXCEPT ![p.branch] = heads[reg[w]]]
            /\ tracking' \in {tracking, [tracking EXCEPT ![p.branch] = p.head]}
       ELSE UNCHANGED <<origin, tracking>>
  /\ Answered(w, p)
  /\ UNCHANGED <<made, pool, heads, bad, fetching, disk, at, want, faults, torn>>

\* A check or a command fails, for one because the worktree is gone.
PushFails(w, p) ==
  /\ Answered(w, p)
  /\ UNCHANGED <<remote, pushOnly>>

\* Past the proxy's time the agent is told that the push failed, and git goes on.
\* (One such push at a time.)
PushOutlives(w, p) ==
  /\ p.stage \in {"gated", "leased"} /\ push[w] = {p}
  /\ push' = [push EXCEPT ![w] = {[p EXCEPT !.late = TRUE]}]
  /\ push' # push
  /\ UNCHANGED <<remote, pushOnly>>

(***************************************************************************)
(* Failures                                                                *)
(***************************************************************************)

\* Objects of a branch are lost, as with an alternate that is not mounted.
Corrupt(b) ==
  /\ Fault /\ b # Default /\ heads[b] # None
  /\ bad' = bad \union {b}
  /\ UNCHANGED <<remote, pool, tracking, heads, fetching, disk, at, want, push, torn>>

\* The process stops, with git between its steps; the proxy's go on or not.
localClone == <<pool, tracking, heads, bad>>

Crash ==
  /\ Fault
  /\ at' = [w \in Workspaces |-> "idle"] /\ want' = [w \in Workspaces |-> None]
  /\ \/ push' = [w \in Workspaces |-> {}] /\ UNCHANGED fetching
     \/ /\ push' = [w \in Workspaces |->
             {[p EXCEPT !.late = TRUE] : p \in {x \in push[w] : x.stage \in {"gated", "leased"}}}]
        /\ fetching' = (fetching \/ (HasClone /\ \E w \in Workspaces : at[w] = "clone"))
  /\ \/ UNCHANGED <<localClone, disk, torn>>
     \/ \E w \in Workspaces :
          /\ at[w] = "clone" /\ ~HasClone
          /\ pool' \in {"empty", "partial"}
          /\ UNCHANGED <<tracking, heads, bad, disk, torn>>
     \/ \E w \in Workspaces :
          /\ at[w] = "add" /\ tree[w] = "none" /\ ~Blocked(w)
          /\ Registered(w, tracking) /\ Interrupted(w)
          /\ tree' \in {tree, [tree EXCEPT ![w] = "partial"]}
          /\ torn' = torn \union {w}
          /\ UNCHANGED <<pool, tracking, bad, root>>
     \/ \E w \in Workspaces :
          /\ at[w] = "remove" /\ HasClone /\ tree[w] # "none"
          /\ tree' \in {[tree EXCEPT ![w] = "none"], [tree EXCEPT ![w] = "partial"]}
          /\ torn' = torn \union {w}
          /\ UNCHANGED <<localClone, reg, initializing, root>>
  /\ UNCHANGED remote

Manager ==
  \E w \in Workspaces :
    \/ \E request \in Requests : Setup(w, request)
    \/ EnsureClone(w) \/ CloneFails(w) \/ Adopt(w) \/ AddWorktree(w) \/ AddRefused(w)
    \/ AddKilled(w) \/ SetupFails(w) \/ PruneAfterAdd(w)
    \/ Remove(w) \/ RemoveWorktree(w) \/ PruneAfterRemove(w) \/ RemoveRoot(w)
    \/ LateFetch

Agent ==
  \E w \in Workspaces :
    \/ \E by \in {"bot", "other"} : Commit(w, by)
    \/ Rewrite(w) \/ AgentFetch(w) \/ RenameBranch(w) \/ AgentEnds(w) \/ Format(w)
    \/ \E p \in push[w] :
         Reword(w, p) \/ Gate(w, p) \/ Lease(w, p) \/ Land(w, p) \/ PushFails(w, p)
           \/ PushOutlives(w, p)

Next ==
  \/ \E b \in Branches : PeoplePush(b) \/ PeopleRewrite(b) \/ Corrupt(b)
  \/ Manager \/ Agent \/ Crash

Spec == Init /\ [][Next]_vars

-----------------------------------------------------------------------------
Landing(w, p) == Land(w, p) /\ Honoured(p) /\ origin[p.branch] # None

\* "It never clobbers work the bot didn't see" (git_ops.py, push): what people
\* published stays, whoever pushes or fetches between the gates and the push, as
\* long as the agent leaves its branch alone meanwhile.
NothingForeignIsLost ==
  [][\A w \in Workspaces : \A p \in push[w] :
       Landing(w, p) /\ heads[reg[w]] = p.head
       => Foreign(origin[p.branch]) \subseteq p.head]_vars

\* It holds unless the remote-tracking ref, which all workspaces share, is moved
\* between the clobber gate and the lease.
PushSparesForeign ==
  [][\A w \in Workspaces : \A p \in push[w] :
       Landing(w, p) /\ heads[reg[w]] = p.head /\ p.lease = p.seen
       => Foreign(origin[p.branch]) \subseteq p.head]_vars

\* Whatever a removal or a failed set-up leaves registered in the clone without a
\* checkout, the next removal of the workspace sees and can prune: its directory is
\* still there (remove_workspace), so the branch is blocked no longer than that.
\* The exception is the code's: what a killed git worktree add leaves locked is
\* neither removed nor pruned, the removal deletes the directory all the same, and
\* path and branch stay refused for good.
LeftoversAreFound ==
  Free => \A w \in Workspaces :
            reg[w] # None /\ tree[w] = "none" => w \in root \/ w \in initializing

\* An agent gets a whole checkout, whichever command of the set-up or of an
\* earlier removal failed or timed out, unless the process died in it.
CheckoutIsWhole ==
  \A w \in Workspaces : at[w] = "agent" /\ tree[w] = "partial" => w \in torn
=============================================================================
