--------------------------- MODULE WorktreeProofs ---------------------------
(***************************************************************************)
(* For any workspaces, branches, commits and faults: no registration is    *)
(* left where no removal sees it, except what git keeps locked, no half    *)
(* checkout is handed out, and a push takes nothing foreign off GitHub.    *)
(***************************************************************************)
EXTENDS Worktree, TLAPS

Shapes == DOMAIN reg = Workspaces /\ DOMAIN tree = Workspaces /\ DOMAIN at = Workspaces

\* A registration has a clone that it is in, and a directory above it unless it is
\* locked.
RegisteredHasRoot ==
  \A w \in Workspaces : reg[w] # None => HasClone /\ (w \in root \/ w \in initializing)

\* Where git is about to add a worktree, both are there.
AddHasRoot == \A w \in Workspaces : at[w] = "add" => w \in root /\ HasClone

\* Once the checkout is gone a prune drops its registration, and only what is locked
\* is still registered when the directory goes.
RemovalIsInOrder ==
  \A w \in Workspaces : /\ at[w] = "pruneRm" => tree[w] = "none"
                        /\ at[w] = "rmtree" => reg[w] = None \/ w \in initializing

PartialIsTorn == \A w \in Workspaces : tree[w] = "partial" => w \in torn

DiskInv ==
  Shapes /\ RegisteredHasRoot /\ AddHasRoot /\ RemovalIsInOrder /\ PartialIsTorn

\* What the gates compared stays with the push.
Compared(p) ==
  /\ {"stage", "head", "seen", "lease", "late"} \subseteq DOMAIN p
  /\ p.stage \in {"gated", "leased"} /\ p.seen # None => Foreign(p.seen \ p.head) = {}
GatesHold == DOMAIN push = Workspaces /\ \A w \in Workspaces : \A p \in push[w] : Compared(p)

onDisk == <<pool, reg, initializing, root, tree, at, torn>>

\* At first nothing is there.
LEMMA WorktreeInvAtFirst ==
  ASSUME Init
  PROVE  DiskInv /\ GatesHold
BY DEF Init, DiskInv, Shapes, RegisteredHasRoot, AddHasRoot, RemovalIsInOrder, PartialIsTorn,
   GatesHold

\* What leaves directories, registrations and stages alone keeps the invariant.
LEMMA DiskUntouched ==
  ASSUME DiskInv, UNCHANGED onDisk
  PROVE  DiskInv'
BY DEF DiskInv, Shapes, onDisk, HasClone, RegisteredHasRoot, AddHasRoot, RemovalIsInOrder,
   PartialIsTorn

\* Set-ups, up to the clone.
LEMMA CloneSteps ==
  ASSUME DiskInv, NEW w \in Workspaces,
         (\E request \in Requests : Setup(w, request)) \/ EnsureClone(w) \/ CloneFails(w)
           \/ LateFetch
  PROVE  DiskInv' /\ push' = push
<1> USE DEF DiskInv, Shapes
<1>1. ASSUME NEW request \in Requests, Setup(w, request)
      PROVE  DiskInv' /\ push' = push
  BY <1>1 DEF Setup, clone, disk, HasClone, RegisteredHasRoot, AddHasRoot, RemovalIsInOrder,
     PartialIsTorn
<1>2. CASE EnsureClone(w)
  BY <1>2 DEF EnsureClone, Fetched, HasClone, RegisteredHasRoot, AddHasRoot, RemovalIsInOrder,
     PartialIsTorn
<1>3. CASE CloneFails(w)
  BY <1>3 DEF CloneFails, Raise, Ends, disk, HasClone, RegisteredHasRoot, AddHasRoot,
     RemovalIsInOrder, PartialIsTorn
<1>4. CASE LateFetch
  BY <1>4 DEF LateFetch, Fetched, HasClone, RegisteredHasRoot, AddHasRoot, RemovalIsInOrder,
     PartialIsTorn
<1> QED
  BY <1>1, <1>2, <1>3, <1>4

\* The worktree is added, or not.
LEMMA AddSteps ==
  ASSUME DiskInv, NEW w \in Workspaces,
         Adopt(w) \/ AddWorktree(w) \/ AddRefused(w) \/ AddKilled(w) \/ SetupFails(w)
           \/ PruneAfterAdd(w)
  PROVE  DiskInv' /\ push' = push
<1> USE DEF DiskInv, Shapes
<1>1. CASE Adopt(w)
  BY <1>1 DEF Adopt, Ends, clone, disk, HasClone, RegisteredHasRoot, AddHasRoot,
     RemovalIsInOrder, PartialIsTorn
<1>2. CASE AddWorktree(w)
  BY <1>2 DEF AddWorktree, Registered, Ends, HasClone, RegisteredHasRoot, AddHasRoot,
     RemovalIsInOrder, PartialIsTorn
<1>3. CASE AddRefused(w)
  BY <1>3 DEF AddRefused, Ends, disk, HasClone, RegisteredHasRoot, AddHasRoot,
     RemovalIsInOrder, PartialIsTorn
<1>4. CASE AddKilled(w)
  BY <1>4 DEF AddKilled, Interrupted, Registered, Ends, HasClone, RegisteredHasRoot, AddHasRoot,
     RemovalIsInOrder, PartialIsTorn
<1>5. CASE SetupFails(w)
  BY <1>5 DEF SetupFails, Raise, Ends, clone, disk, HasClone, RegisteredHasRoot, AddHasRoot,
     RemovalIsInOrder, PartialIsTorn
<1>6. CASE PruneAfterAdd(w)
  BY <1>6 DEF PruneAfterAdd, Raise, Ends, Prune, Pruned, clone, HasClone, RegisteredHasRoot, AddHasRoot,
     RemovalIsInOrder, PartialIsTorn
<1> QED
  BY <1>1, <1>2, <1>3, <1>4, <1>5, <1>6

\* A workspace is removed.
LEMMA RemoveSteps ==
  ASSUME DiskInv, NEW w \in Workspaces,
         Remove(w) \/ RemoveWorktree(w) \/ PruneAfterRemove(w) \/ RemoveRoot(w)
  PROVE  DiskInv' /\ push' = push
<1> USE DEF DiskInv, Shapes
<1>1. CASE Remove(w)
  BY <1>1 DEF Remove, clone, disk, HasClone, RegisteredHasRoot, AddHasRoot, RemovalIsInOrder,
     PartialIsTorn
<1>2. CASE RemoveWorktree(w)
  BY <1>2 DEF RemoveWorktree, Unregistered, Removing, clone, HasClone, RegisteredHasRoot, AddHasRoot,
     RemovalIsInOrder, PartialIsTorn
<1>3. CASE PruneAfterRemove(w)
  BY <1>3 DEF PruneAfterRemove, Prune, Pruned, Removing, clone, HasClone, RegisteredHasRoot, AddHasRoot,
     RemovalIsInOrder, PartialIsTorn
<1>4. CASE RemoveRoot(w)
  BY <1>4 DEF RemoveRoot, Raise, Ends, clone, HasClone, RegisteredHasRoot, AddHasRoot,
     RemovalIsInOrder, PartialIsTorn
<1> QED
  BY <1>1, <1>2, <1>3, <1>4

\* The agent moves heads; at most it gives its branch another name.
LEMMA AgentSteps ==
  ASSUME None \notin Branches, DiskInv, NEW w \in Workspaces,
         (\E by \in {"bot", "other"} : Commit(w, by)) \/ Rewrite(w) \/ AgentFetch(w)
           \/ RenameBranch(w) \/ AgentEnds(w)
  PROVE  DiskInv' /\ push' = push
<1> USE DEF DiskInv, Shapes
<1>1. CASE RenameBranch(w)
  BY <1>1 DEF RenameBranch, Writes, Usable, HasClone, RegisteredHasRoot, AddHasRoot,
     RemovalIsInOrder, PartialIsTorn
<1>2. CASE AgentEnds(w)
  BY <1>2 DEF AgentEnds, Raise, Ends, clone, disk, HasClone, RegisteredHasRoot, AddHasRoot,
     RemovalIsInOrder, PartialIsTorn
<1>3. CASE (\E by \in {"bot", "other"} : Commit(w, by)) \/ Rewrite(w) \/ AgentFetch(w)
  <2>1. UNCHANGED onDisk /\ push' = push
    BY <1>3 DEF Commit, Rewrite, AgentFetch, disk, onDisk
  <2> QED
    BY <2>1, DiskUntouched
<1> QED
  BY <1>1, <1>2, <1>3

\* Steps of a push, its rewriting of commits included, leave the disk alone and
\* what the gates compared as it was.
LEMMA PushSteps ==
  ASSUME GatesHold, NEW w \in Workspaces, NEW p \in push[w],
         Reword(w, p) \/ Gate(w, p) \/ Lease(w, p) \/ Land(w, p) \/ PushFails(w, p)
           \/ PushOutlives(w, p)
  PROVE  UNCHANGED onDisk /\ GatesHold'
<1>1. UNCHANGED onDisk
  BY DEF Reword, Gate, Lease, Land, PushFails, PushOutlives, pushHeads, pushOnly, clone, disk,
     onDisk
<1>2. ASSUME DOMAIN push' = Workspaces, NEW q, Compared(q),
             \A v \in Workspaces : push'[v] \subseteq push[v] \union {q}
      PROVE  GatesHold'
  BY <1>2 DEF GatesHold, Compared
<1>3. CASE Answered(w, p)
  <2>1. DOMAIN push' = Workspaces /\ \A v \in Workspaces : push'[v] \subseteq push[v] \union {p}
    BY <1>3 DEF Answered, GatesHold
  <2>2. Compared(p)
    BY DEF GatesHold
  <2> QED
    BY <1>1, <1>2, <2>1, <2>2
<1>4. CASE Reword(w, p)
  <2>0. PICK q : q = [p EXCEPT !.stage = "reworded"]
    OBVIOUS
  <2>1. Compared(q)
    BY <2>0 DEF GatesHold, Compared
  <2>2. DOMAIN push' = Workspaces /\ \A v \in Workspaces : push'[v] \subseteq push[v] \union {q}
    BY <2>0, <1>4 DEF Reword, Becomes, GatesHold
  <2> QED
    BY <1>1, <1>2, <2>1, <2>2
<1>5. CASE Gate(w, p)
  <2>0. PICK q : q = [p EXCEPT !.stage = "gated", !.head = heads[reg[w]],
                              !.seen = tracking[p.branch]]
    OBVIOUS
  <2>1. tracking[p.branch] # None => Foreign(tracking[p.branch] \ heads[reg[w]]) = {}
    BY <1>5 DEF Gate, Spares
  <2>2. Compared(q)
    BY <2>0, <2>1 DEF GatesHold, Compared
  <2>3. DOMAIN push' = Workspaces /\ \A v \in Workspaces : push'[v] \subseteq push[v] \union {q}
    BY <2>0, <1>5 DEF Gate, Becomes, GatesHold
  <2> QED
    BY <1>1, <1>2, <2>2, <2>3
<1>6. CASE Lease(w, p)
  <2>0. PICK q : q = [p EXCEPT !.stage = "leased", !.lease = tracking[p.branch]]
    OBVIOUS
  <2>1. p.stage = "gated"
    BY <1>6 DEF Lease
  <2>2. Compared(q)
    BY <2>0, <2>1 DEF GatesHold, Compared
  <2>3. DOMAIN push' = Workspaces /\ \A v \in Workspaces : push'[v] \subseteq push[v] \union {q}
    BY <2>0, <1>6 DEF Lease, Becomes, Answered, GatesHold
  <2> QED
    BY <1>1, <1>2, <2>2, <2>3
<1>7. CASE Land(w, p) \/ PushFails(w, p)
  BY <1>3, <1>7 DEF Land, PushFails
<1>8. CASE PushOutlives(w, p)
  <2>0. PICK q : q = [p EXCEPT !.late = TRUE]
    OBVIOUS
  <2>1. Compared(q)
    BY <2>0 DEF GatesHold, Compared
  <2>2. DOMAIN push' = Workspaces /\ \A v \in Workspaces : push'[v] \subseteq push[v] \union {q}
    BY <2>0, <1>8 DEF PushOutlives, GatesHold
  <2> QED
    BY <1>1, <1>2, <2>1, <2>2
<1> QED
  BY <1>4, <1>5, <1>6, <1>7, <1>8

\* A push begins, with nothing compared yet.
LEMMA FormatStep ==
  ASSUME GatesHold, NEW w \in Workspaces, Format(w)
  PROVE  UNCHANGED onDisk /\ GatesHold'
<1>1. UNCHANGED onDisk
  BY DEF Format, pushHeads, disk, onDisk
<1>2. GatesHold'
  BY DEF Format, GatesHold, Compared
<1> QED
  BY <1>1, <1>2

\* The process stops: what is torn is known as torn.
LEMMA CrashStep ==
  ASSUME DiskInv, GatesHold, Crash
  PROVE  DiskInv' /\ GatesHold'
<1> USE DEF DiskInv, Shapes
<1>1. at' = [w \in Workspaces |-> "idle"]
  BY DEF Crash
<1>2. GatesHold'
  <2>1. /\ DOMAIN push' = Workspaces
        /\ \A w \in Workspaces : \A q \in push'[w] :
             \E p \in push[w] : q = [p EXCEPT !.late = TRUE]
    BY DEF Crash, GatesHold
  <2>2. ASSUME NEW p, Compared(p)
        PROVE  Compared([p EXCEPT !.late = TRUE])
    BY <2>2 DEF Compared
  <2>3. \A w \in Workspaces : \A q \in push'[w] : Compared(q)
    BY <2>1, <2>2 DEF GatesHold
  <2> QED
    BY <2>1, <2>3 DEF GatesHold, Compared
<1>3. ASSUME UNCHANGED <<localClone, disk, torn>>
      PROVE  DiskInv'
  <2>1. UNCHANGED <<pool, reg, initializing, root, tree, torn>>
    BY <1>3 DEF localClone, disk
  <2> QED
    BY <1>1, <2>1 DEF HasClone, RegisteredHasRoot, AddHasRoot, RemovalIsInOrder, PartialIsTorn
<1>4. ASSUME NEW w \in Workspaces, ~HasClone, pool' \in {"empty", "partial"},
             UNCHANGED <<tracking, heads, bad, disk, torn>>
      PROVE  DiskInv'
  BY <1>1, <1>4 DEF disk, HasClone, RegisteredHasRoot, AddHasRoot, RemovalIsInOrder,
     PartialIsTorn
<1>5. ASSUME NEW w \in Workspaces, at[w] = "add", Registered(w, tracking), Interrupted(w),
             tree' \in {tree, [tree EXCEPT ![w] = "partial"]}, torn' = torn \union {w},
             UNCHANGED <<pool, tracking, bad, root>>
      PROVE  DiskInv'
  BY <1>1, <1>5 DEF Registered, Interrupted, HasClone, RegisteredHasRoot, AddHasRoot, RemovalIsInOrder,
     PartialIsTorn
<1>6. ASSUME NEW w \in Workspaces,
             tree' \in {[tree EXCEPT ![w] = "none"], [tree EXCEPT ![w] = "partial"]},
             torn' = torn \union {w}, UNCHANGED <<localClone, reg, initializing, root>>
      PROVE  DiskInv'
  BY <1>1, <1>6 DEF localClone, HasClone, RegisteredHasRoot, AddHasRoot, RemovalIsInOrder,
     PartialIsTorn
<1> QED
  BY <1>2, <1>3, <1>4, <1>5, <1>6 DEF Crash

\* Every step keeps both parts of the invariant.
LEMMA WorktreeStep ==
  ASSUME None \notin Branches, DiskInv, GatesHold, [Next]_vars
  PROVE  DiskInv' /\ GatesHold'
<1> USE DEF DiskInv
<1>1. CASE UNCHANGED <<onDisk, push>>
  BY <1>1, DiskUntouched DEF onDisk, GatesHold
<1>2. CASE UNCHANGED vars \/ \E b \in Branches : PeoplePush(b) \/ PeopleRewrite(b) \/ Corrupt(b)
  BY <1>1, <1>2 DEF vars, PeoplePush, PeopleRewrite, Corrupt, local, clone, disk, onDisk
<1>3. CASE Manager
  <2>1. DiskInv' /\ push' = push
    BY <1>3, CloneSteps, AddSteps, RemoveSteps DEF Manager
  <2> QED
    BY <2>1 DEF GatesHold
<1>4. CASE Agent
  <2>1. PICK w \in Workspaces :
          \/ \E by \in {"bot", "other"} : Commit(w, by)
          \/ Rewrite(w) \/ AgentFetch(w) \/ RenameBranch(w) \/ AgentEnds(w) \/ Format(w)
          \/ \E p \in push[w] :
               Reword(w, p) \/ Gate(w, p) \/ Lease(w, p) \/ Land(w, p) \/ PushFails(w, p)
                 \/ PushOutlives(w, p)
    BY <1>4 DEF Agent
  <2>2. CASE Format(w)
    BY <2>2, FormatStep, DiskUntouched
  <2>3. CASE \E p \in push[w] :
               Reword(w, p) \/ Gate(w, p) \/ Lease(w, p) \/ Land(w, p) \/ PushFails(w, p)
                 \/ PushOutlives(w, p)
    BY <2>3, PushSteps, DiskUntouched
  <2>4. CASE \/ \E by \in {"bot", "other"} : Commit(w, by)
             \/ Rewrite(w) \/ AgentFetch(w) \/ RenameBranch(w) \/ AgentEnds(w)
    <3>1. DiskInv' /\ push' = push
      BY <2>4, AgentSteps
    <3> QED
      BY <3>1 DEF GatesHold
  <2> QED
    BY <2>1, <2>2, <2>3, <2>4
<1>5. CASE Crash
  BY <1>5, CrashStep
<1> QED
  BY <1>2, <1>3, <1>4, <1>5 DEF Next

\* So they always hold, given that no branch is called None.
LEMMA WorktreeInvariant ==
  ASSUME None \notin Branches
  PROVE  Spec => [](DiskInv /\ GatesHold)
<1>1. Init => DiskInv /\ GatesHold
  BY WorktreeInvAtFirst
<1>2. DiskInv /\ GatesHold /\ [Next]_vars => (DiskInv /\ GatesHold)'
  BY WorktreeStep
<1> QED
  BY <1>1, <1>2, PTL DEF Spec

\* What a removal or a failed set-up leaves registered has its directory, by which
\* remove_workspace finds it, unless git keeps it locked.
THEOREM RegistrationsAreFound ==
  ASSUME None \notin Branches
  PROVE  Spec => []LeftoversAreFound
<1>1. DiskInv => LeftoversAreFound
  BY DEF DiskInv, RegisteredHasRoot, LeftoversAreFound
<1> QED
  BY <1>1, WorktreeInvariant, PTL

\* The checkout of an agent is whole unless the process died making or removing it
\* (_worktree_add, remove_workspace).
THEOREM AgentsHaveWholeCheckouts ==
  ASSUME None \notin Branches
  PROVE  Spec => []CheckoutIsWhole
<1>1. DiskInv => CheckoutIsWhole
  BY DEF DiskInv, PartialIsTorn, CheckoutIsWhole
<1> QED
  BY <1>1, WorktreeInvariant, PTL

\* A push takes nothing foreign off GitHub, as long as the shared remote-tracking
\* ref stays put between the clobber gate and the lease (gh_push_branch).
THEOREM PushesSpareForeignCommits ==
  ASSUME None \notin Branches
  PROVE  Spec => PushSparesForeign
<1>1. ASSUME GatesHold, NEW w \in Workspaces, NEW p \in push[w],
             Landing(w, p), heads[reg[w]] = p.head, p.lease = p.seen
      PROVE  Foreign(origin[p.branch]) \subseteq p.head
  <2>1. p.stage = "leased" /\ origin[p.branch] = p.seen /\ p.seen # None
    BY <1>1 DEF Landing, Land, Honoured
  <2>2. Foreign(p.seen \ p.head) = {}
    BY <1>1, <2>1 DEF GatesHold, Compared
  <2> QED
    BY <2>1, <2>2 DEF Foreign
<1>2. DiskInv /\ GatesHold /\ [Next]_vars =>
        [\A w \in Workspaces : \A p \in push[w] :
           Landing(w, p) /\ heads[reg[w]] = p.head /\ p.lease = p.seen
           => Foreign(origin[p.branch]) \subseteq p.head]_vars
  BY <1>1
<1> QED
  BY <1>2, WorktreeInvariant, PTL DEF Spec, PushSparesForeign
=============================================================================
