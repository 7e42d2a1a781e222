------------------------ MODULE IssueLifecycleProofs ------------------------
(***************************************************************************)
(* Every branch the bot pushes is one it was given a reason to push, or    *)
(* has the name of the head of a fork's pull it was assigned to, for any   *)
(* number of threads, deliveries, retries, failures and crashes.           *)
(*                                                                         *)
(* TypeOK and PushHasGrounds are not inductive alone.  What carries        *)
(* them is an ownership invariant: rows, worktrees and handlers of a       *)
(* thread only ever name branches of that thread, and each way by which    *)
(* the tools find a go-ahead is backed by a recorded ground.               *)
(*                                                                         *)
(* The other safety properties rest on invariants of their own: deliveries *)
(* of a thread are claimed in order (OrderInv), an uninvited pull is       *)
(* worked on in the workspace of its issue (FollowInv), a pull nobody said *)
(* anything about is met only by first attempts (QuietInv), an attempt     *)
(* calls once (Serial), and before the first fault what GitHub has is what *)
(* the row will hold (FoundInv).                                           *)
(*                                                                         *)
(* The end of the module states all of it about MCHandlers: a behaviour of *)
(* the handlers is one of each of its parts, so what is proved of the      *)
(* parts holds of it.                                                      *)
(***************************************************************************)
EXTENDS MCHandlers, TLAPS

\* Branches a row, a worktree or a handler of the thread may name.
Mine(t) == {Work(t)} \union (IF t \in Issues THEN {} ELSE {HeadRef(t), Review(t)})

Exists(t) == github[t] # "absent"

\* What PushHasGrounds lets the bot push.
Pushable == grounds \union ForkHeads

\* A contributor's pull the bot was assigned to, at some time.
Granted(p) == Head(p) \in Pushable /\ Work(p) \in grounds

\* A pull that leads to the thread's row, by number or by branch.
Leads(p, t) == Exists(p) /\ HeadRef(p) \in Mine(t)

RowOk(t, r) ==
  /\ r \in Row
  /\ r.branch \in Mine(t) \union {None}
  /\ r.pr # None => Leads(r.pr, t)
  /\ r.class = "bug" => t \in Issues /\ Work(t) \in grounds
  /\ t \in BotPulls => Exists(t)

RowsOk(rs) ==
  /\ rs \in [Threads -> Row \union {None}]
  /\ \A t \in Threads : rs[t] # None => RowOk(t, rs[t])

TreesOk(ts) ==
  /\ ts \in [Threads -> Branches \union {None, Detached}]
  /\ \A t \in Threads : ts[t] \in Mine(t) \union {None, Detached}

EventOk(e) ==
  /\ e \in Events
  /\ e.kind \in {"triage", "comment"} => e.on \in Issues
  /\ e.kind \in {"pullComment", "reviewComment", "reviewRequested"} => e.on \in Pulls
  /\ e.on \in Pulls => Exists(e.on)
  /\ /\ e.on \in HumanPulls
     /\ e.kind = "reviewComment" \/ (e.kind = "pullComment" /\ e.says.body # "review")
     => Granted(e.on)
  /\ e.says.authorizes /\ e.on \in Issues => Work(e.on) \in grounds

\* What a delivery resolves to: a thread it may work on, and what it may push.
Bound(num, branch, save, task, auth) ==
  /\ num \in Threads /\ branch \in Mine(num) \ {None} /\ task \in Tasks
  /\ num \in BotPulls => Exists(num)
  /\ save \in {"no", "moved", "reproducing"} \/ (save \in States /\ num \in Pulls /\ Exists(num))
  /\ num \in HumanPulls /\ task # "review" => Granted(num)
  /\ auth /\ num \in Issues => Work(num) \in grounds

HandlerOk(h) ==
  /\ h \in Handler /\ EventOk(h.ev)
  /\ Bound(h.num, h.branch, h.save, h.task, h.auth)
  /\ ~h.isPull => h.num \in Issues

HandlersOk(hs) ==
  /\ hs \in [Threads -> Handler \union {None}]
  /\ \A k \in Threads : hs[k] # None => HandlerOk(hs[k])

StraysOk(ss) ==
  /\ ss \subseteq [tool : {"open", "submit"}, num : Threads, pull : Pulls, by : Events]
  /\ \A s \in ss : s.tool = "open" => Leads(s.pull, s.num) /\ (s.num \in BotPulls => Exists(s.num))

HostedOk ==
  /\ github \in [Threads -> {"absent", "open", "closed", "merged"}]
  /\ assigned \subseteq HumanPulls
  /\ from \in [BotPulls -> Branches \union {None}]
  /\ pushed \subseteq Pushable /\ grounds \subseteq Branches
  /\ \A p \in HumanPulls : /\ Exists(p)
                           /\ p \in assigned \/ Head(p) \in Pushable \/ Work(p) \in grounds
                                => Granted(p)
  /\ \A p \in BotPulls : IF Exists(p) THEN from[p] \in pushed /\ Work(p) \in grounds
                                      ELSE from[p] = None
  /\ \A t \in Threads : Review(t) \notin pushed

MentionsOk(ms) == ms \subseteq Threads /\ \A t \in ms \intersect Issues : Work(t) \in grounds

IInv ==
  /\ HostedOk /\ RowsOk(rows) /\ TreesOk(tree) /\ HandlersOk(handler)
  /\ \A e \in events : EventOk(e)
  /\ StraysOk(stray) /\ MentionsOk(mentions)
  /\ dropped \subseteq Events /\ staged \subseteq Threads /\ reviewed \subseteq Threads
  /\ arrived \in 0..MaxEvents /\ faults \in 0..MaxFaults

-----------------------------------------------------------------------------
\* Branches of different threads, and of different kinds, differ.
LEMMA NamesOfThreads ==
  /\ \A t \in Threads : {Work(t), Head(t), Review(t)} \subseteq Branches
  /\ \A t, u : Work(t) # Head(u) /\ Work(t) # Review(u) /\ Head(t) # Review(u)
  /\ \A t, u : (Work(t) = Work(u) \/ Head(t) = Head(u) \/ Review(t) = Review(u)) => t = u
  /\ None \notin Branches /\ Detached \notin Branches /\ None # Detached
  /\ None \notin Threads /\ None \notin Row /\ None \notin Handler
BY LifecycleAssumption DEF Work, Head, Review, Branches

\* A thread is an issue, a pull of the bot's or a pull of a contributor's.
LEMMA ThreadKinds ==
  /\ Threads = Issues \union Pulls /\ Pulls = BotPulls \union HumanPulls
  /\ \A t \in Issues : t \notin Pulls /\ t \notin BotPulls /\ t \notin HumanPulls
  /\ \A t \in BotPulls : t \notin HumanPulls /\ t \notin Issues
  /\ \A t \in HumanPulls : t \notin Issues
BY LifecycleAssumption DEF Threads, Pulls

\* What may be pushed has a ground, but for the heads of forks' pulls.
LEMMA WhatIsPushable ==
  /\ \A t : Work(t) \in Pushable <=> Work(t) \in grounds
  /\ \A t : Head(t) \in Pushable <=> Head(t) \in grounds \/ (t \in Forks /\ Work(t) \in grounds)
  /\ \A t : Review(t) \in Pushable <=> Review(t) \in grounds
  /\ grounds \subseteq Pushable
  /\ grounds \subseteq Branches => Pushable \subseteq Branches
<1>1. Forks \subseteq Threads
  BY LifecycleAssumption DEF Threads
<1> QED
  BY <1>1, NamesOfThreads DEF Pushable, ForkHeads

\* The same of the next state; what has a ground keeps it.
LEMMA WhatIsPushableNext ==
  /\ \A t : Work(t) \in Pushable' <=> Work(t) \in grounds'
  /\ \A t : Head(t) \in Pushable' <=> Head(t) \in grounds' \/ (t \in Forks /\ Work(t) \in grounds')
  /\ grounds' \subseteq Pushable'
  /\ grounds \subseteq grounds' => Pushable \subseteq Pushable'
  /\ grounds = grounds' => Pushable = Pushable'
<1>1. Forks \subseteq Threads
  BY LifecycleAssumption DEF Threads
<1> QED
  BY <1>1, NamesOfThreads DEF Pushable, ForkHeads

\* What the branches of a thread are, by the kind of the thread.
LEMMA MineTyped ==
  ASSUME HostedOk, NEW t \in Threads
  PROVE  /\ Mine(t) \subseteq Branches \union {None}
         /\ Work(t) \in Mine(t)
         /\ t \in Issues => Mine(t) = {Work(t)}
         /\ t \in HumanPulls => Mine(t) = {Work(t), Head(t), Review(t)}
         /\ t \in BotPulls => Mine(t) = {Work(t), from[t], Review(t)}
         /\ t \in Pulls => HeadRef(t) \in Mine(t)
         /\ t \in Pulls /\ Exists(t) => Leads(t, t) /\ HeadRef(t) \in Branches \ {None}
BY NamesOfThreads, ThreadKinds, WhatIsPushable DEF HostedOk, Mine, HeadRef, Leads, Exists

\* upsert_issue keeps the table sound when the row names its own branches.
LEMMA UpsertOk ==
  ASSUME HostedOk, NEW rs, RowsOk(rs), NEW t \in Threads, NEW state \in States,
         NEW branch \in Mine(t) \union {None}, NEW pr \in Pulls \union {None},
         pr # None => Leads(pr, t), t \in BotPulls => Exists(t)
  PROVE  RowsOk(Upsert(rs, t, state, branch, pr))
<1> DEFINE old == rs[t]
           new == IF old = None
             THEN [state |-> state, branch |-> branch, pr |-> pr, class |-> "none"]
             ELSE [state |-> state,
                   branch |-> IF branch = None THEN old.branch ELSE branch,
                   pr |-> IF pr = None THEN old.pr ELSE pr, class |-> old.class]
<1>1. branch \in Branches \union {None}
  BY MineTyped
<1>2. CASE old = None
  BY <1>1, <1>2, NamesOfThreads DEF RowOk, Row, RowsOk, Upsert
<1>3. CASE old # None
  <2>1. RowOk(t, old)
    BY <1>3 DEF RowsOk
  <2>2. RowOk(t, new)
    BY <1>1, <1>3, <2>1, NamesOfThreads DEF RowOk, Row
  <2> QED
    BY <1>3, <2>2 DEF RowsOk, RowOk, Upsert
<1> QED
  BY <1>2, <1>3

\* set_issue_state keeps the table sound.
LEMMA SetStateOk ==
  ASSUME NEW rs, RowsOk(rs), NEW t \in Threads, NEW state \in States
  PROVE  RowsOk(SetState(rs, t, state))
BY DEF SetState, RowsOk, RowOk, Row

\* The row found for a pull is one that the pull leads to.
LEMMA ResolveOk ==
  ASSUME HostedOk, RowsOk(rows), NEW p \in Pulls, Exists(p), NEW fetched \in BOOLEAN,
         NEW found \in ResolveRow(p, fetched)
  PROVE  /\ RowsOk(found[2])
         /\ \/ found[1] = None /\ found[2] = rows
            \/ found[1] \in Threads /\ found[2][found[1]] # None /\ Leads(p, found[1])
<1> DEFINE byPull(t) == <<t, IF rows[t].branch = None /\ fetched
                 THEN [rows EXCEPT ![t].branch = HeadRef(p)] ELSE rows>>
           byBranch(t) == <<t, [rows EXCEPT ![t].pr = p]>>
<1>0. HeadRef(p) \in Branches \ {None}
  BY MineTyped, ThreadKinds
<1>1. CASE \E t \in RowsOfPull(rows, p) : found = byPull(t)
  <2>1. PICK t \in RowsOfPull(rows, p) : found = byPull(t)
    BY <1>1
  <2>2. t \in Threads /\ rows[t] # None /\ rows[t].pr = p /\ Leads(p, t) /\ RowOk(t, rows[t])
    BY <2>1, NamesOfThreads, ThreadKinds DEF RowsOfPull, RowsOk, RowOk
  <2>3. RowOk(t, [rows[t] EXCEPT !.branch = HeadRef(p)])
    BY <2>2, <1>0 DEF RowOk, Row, Leads
  <2>4. RowsOk([rows EXCEPT ![t].branch = HeadRef(p)])
    BY <2>2, <2>3 DEF RowsOk, RowOk
  <2>5. [rows EXCEPT ![t].branch = HeadRef(p)][t] # None
    BY <2>2, <2>3, NamesOfThreads DEF RowsOk, RowOk, Row
  <2> QED
    BY <2>1, <2>2, <2>4, <2>5
<1>2. CASE \E t \in RowsOfBranch(rows, HeadRef(p)) : found = byBranch(t)
  <2>1. PICK t \in RowsOfBranch(rows, HeadRef(p)) : found = byBranch(t)
    BY <1>2
  <2>2. t \in Threads /\ rows[t] # None /\ rows[t].branch = HeadRef(p) /\ RowOk(t, rows[t])
    BY <2>1 DEF RowsOfBranch, RowsOk
  <2>3. Leads(p, t)
    BY <2>2, <1>0 DEF Leads, RowOk
  <2>4. RowOk(t, [rows[t] EXCEPT !.pr = p])
    BY <2>2, <2>3 DEF RowOk, Row
  <2>5. RowsOk([rows EXCEPT ![t].pr = p]) /\ [rows EXCEPT ![t].pr = p][t] # None
    BY <2>2, <2>4, NamesOfThreads DEF RowsOk, RowOk
  <2> QED
    BY <2>1, <2>2, <2>3, <2>5
<1>3. CASE found = <<None, rows>>
  BY <1>3
<1> QED
  BY <1>1, <1>2, <1>3 DEF ResolveRow

\* A worktree is removed.
LEMMA RemovedTreeOk ==
  ASSUME TreesOk(tree), NEW t \in Threads
  PROVE  TreesOk([tree EXCEPT ![t] = None])
BY DEF TreesOk

\* A dispatch that ends at once.
LEMMA DoneOk ==
  ASSUME IInv, NEW e, Done(e)
  PROVE  HandlersOk(handler') /\ \A x \in events' : EventOk(x)
BY DEF IInv, HandlersOk, Done

\* A dispatch that goes on to a workspace of the right thread and branch.
LEMMA EnterOk ==
  ASSUME IInv, NEW e \in events, NEW num, NEW branch, NEW save, NEW task,
         NEW auth \in BOOLEAN, NEW isPull \in BOOLEAN,
         Bound(num, branch, save, task, auth), ~isPull => num \in Issues,
         Enter(e, num, branch, save, task, auth, isPull)
  PROVE  HandlersOk(handler') /\ \A x \in events' : EventOk(x)
<1> DEFINE h == [ev |-> e, at |-> "setup", num |-> num, branch |-> branch, save |-> save,
                 task |-> task, auth |-> auth, isPull |-> isPull, busy |-> FALSE]
<1>1. EventOk(e) /\ e \in Events /\ e.key \in Threads
  BY DEF IInv, EventOk, Events
<1>2. branch \in Branches
  BY MineTyped DEF Bound, IInv
<1>3. h \in Handler
  BY <1>1, <1>2 DEF Handler, Bound, States, Final
<1>4. HandlerOk(h)
  BY <1>1, <1>3 DEF HandlerOk
<1> QED
  BY <1>1, <1>3, <1>4 DEF Enter, HandlersOk, IInv

\* The same when GitHub may not answer.
LEMMA EnterIfAnsweredOk ==
  ASSUME IInv, NEW e \in events, NEW num, NEW branch, NEW save, NEW task,
         NEW auth \in BOOLEAN, NEW isPull \in BOOLEAN,
         Bound(num, branch, save, task, auth), ~isPull => num \in Issues,
         EnterIfAnswered(e, num, branch, save, task, auth, isPull)
  PROVE  HandlersOk(handler') /\ \A x \in events' : EventOk(x)
BY EnterOk, DoneOk DEF EnterIfAnswered

\* A step that leaves GitHub and the grounds alone.
LEMMA LocalStep ==
  ASSUME IInv, UNCHANGED hosted,
         RowsOk(rows'), TreesOk(tree'), HandlersOk(handler'),
         \A e \in events' : EventOk(e), StraysOk(stray'), MentionsOk(mentions'),
         dropped' \subseteq Events, staged' \subseteq Threads, reviewed' \subseteq Threads,
         arrived' \in 0..MaxEvents, faults' \in 0..MaxFaults
  PROVE  IInv'
<1> USE DEF hosted
<1>0. Pushable' = Pushable
  BY WhatIsPushableNext
<1>1. HostedOk'
  BY <1>0 DEF IInv, HostedOk, Exists, Granted
<1>2. RowsOk(rows)'
  BY DEF RowsOk, RowOk, Leads, Exists, Mine, HeadRef
<1>3. TreesOk(tree)'
  BY DEF TreesOk, Mine, HeadRef
<1>4. \A e : EventOk(e)' <=> EventOk(e)
  BY <1>0 DEF EventOk, Exists, Granted
<1>5. HandlersOk(handler)'
  BY <1>0 DEF HandlersOk, HandlerOk, EventOk, Bound, Exists, Granted, Mine, HeadRef
<1>6. (\A e \in events : EventOk(e))'
  BY <1>0 DEF EventOk, Exists, Granted
<1>7. StraysOk(stray)'
  BY DEF StraysOk, Leads, Exists, Mine, HeadRef
<1>8. MentionsOk(mentions)'
  BY DEF MentionsOk
<1> QED
  BY <1>1, <1>2, <1>3, <1>5, <1>6, <1>7, <1>8 DEF IInv

\* What a dispatch leaves alone, it keeps.
LEMMA DispatchStep ==
  ASSUME IInv, untouched' = untouched, RowsOk(rows'), TreesOk(tree'), HandlersOk(handler'),
         \A e \in events' : EventOk(e), staged' \subseteq Threads, reviewed' = reviewed
  PROVE  IInv'
BY LocalStep DEF untouched, IInv

-----------------------------------------------------------------------------
(* The handlers up to their workspace                                        *)

\* triage_issue keeps the invariant.
LEMMA TriageIssueStep ==
  ASSUME IInv, NEW e \in events, TriageIssue(e)
  PROVE  IInv'
<1> DEFINE t == e.on
<1>1. t \in Issues /\ t \in Threads /\ t \notin Pulls /\ t \notin BotPulls /\ t \notin HumanPulls
  BY ThreadKinds DEF TriageIssue, IInv, EventOk
<1>2. CASE Done(e) /\ UNCHANGED <<rows, tree>>
  BY <1>2, DoneOk, DispatchStep DEF TriageIssue, IInv
<1>3. CASE /\ rows' = Upsert(rows, t, "reproducing", None, None)
           /\ tree' = IF Finished(t) THEN [tree EXCEPT ![t] = None] ELSE tree
           /\ Enter(e, t, Work(t), "reproducing", "triage", FALSE, FALSE)
  <2>1. RowsOk(rows')
    BY <1>1, <1>3, UpsertOk DEF IInv, States
  <2>2. TreesOk(tree')
    BY <1>1, <1>3, RemovedTreeOk DEF IInv
  <2>3. Bound(t, Work(t), "reproducing", "triage", FALSE)
    BY <1>1, MineTyped, NamesOfThreads DEF IInv, Bound, Tasks
  <2>4. HandlersOk(handler') /\ \A x \in events' : EventOk(x)
    BY <1>1, <1>3, <2>3, EnterOk
  <2> QED
    BY <2>1, <2>2, <2>4, DispatchStep DEF TriageIssue, IInv
<1> QED
  BY <1>2, <1>3 DEF TriageIssue

\* review_pr keeps the invariant: a review names no branch to push to.
LEMMA ReviewPrStep ==
  ASSUME IInv, NEW e \in events, ReviewPr(e)
  PROVE  IInv'
<1> DEFINE p == e.on
           forced == e.kind = "pullComment" /\ e.says.body = "review"
           auth == forced /\ e.says.authorizes
<1>1. p \in Pulls /\ p \in Threads /\ p \notin Issues /\ Exists(p)
  BY ThreadKinds DEF ReviewPr, IInv, EventOk
<1>2. CASE Done(e) /\ UNCHANGED <<rows, tree, staged>>
  BY <1>2, DoneOk, DispatchStep DEF ReviewPr, IInv
<1>3. CASE /\ rows' = Upsert(rows, p, "reviewing", None, p)
           /\ tree' = IF forced THEN [tree EXCEPT ![p] = None] ELSE tree
           /\ staged' = IF forced THEN staged \ {p} ELSE staged
           /\ Enter(e, p, Review(p), "reviewing", "review", auth, TRUE)
  <2>1. RowsOk(rows')
    BY <1>1, <1>3, UpsertOk, MineTyped DEF IInv, States
  <2>2. TreesOk(tree') /\ staged' \subseteq Threads
    BY <1>1, <1>3, RemovedTreeOk DEF IInv
  <2>3. Review(p) \in Mine(p) \ {None}
    BY <1>1, NamesOfThreads DEF Mine
  <2>4. Bound(p, Review(p), "reviewing", "review", auth)
    BY <1>1, <2>3 DEF Bound, Tasks, States
  <2>5. auth \in BOOLEAN
    BY DEF IInv, EventOk, Events, Directives
  <2>6. HandlersOk(handler') /\ \A x \in events' : EventOk(x)
    BY <1>3, <2>4, <2>5, EnterOk
  <2> QED
    BY <2>1, <2>2, <2>6, DispatchStep DEF ReviewPr
<1> QED
  BY <1>2, <1>3 DEF ReviewPr

\* handle_comment keeps the invariant.
LEMMA HandleCommentStep ==
  ASSUME IInv, NEW e \in events, HandleComment(e)
  PROVE  IInv'
<1> DEFINE t == e.on
           auth == e.says.authorizes /\ Heard(e)
<1>1. t \in Issues /\ t \in Threads /\ t \notin Pulls /\ t \notin BotPulls /\ t \notin HumanPulls
  BY ThreadKinds DEF HandleComment, IInv, EventOk
<1>2. auth \in BOOLEAN /\ (auth => Work(t) \in grounds)
  BY <1>1 DEF IInv, EventOk
<1>3. \A task \in Tasks, save \in {"no", "reproducing"}, branch \in {Work(t), rows[t].branch} :
        branch # None /\ (branch # Work(t) => rows[t] # None)
          => Bound(t, branch, save, task, auth)
  BY <1>1, <1>2, MineTyped, NamesOfThreads DEF IInv, Bound, RowsOk, RowOk
<1>4. CASE Done(e) /\ UNCHANGED <<rows, tree>>
  BY <1>4, DoneOk, DispatchStep DEF HandleComment, IInv
<1>5. CASE /\ rows' = Upsert(rows, t, "reproducing", None, None)
           /\ tree' = tree \/ tree' = [tree EXCEPT ![t] = None]
           /\ \E task \in {"triage", "comment"} :
                Enter(e, t, Work(t), "reproducing", task, auth, FALSE)
  <2>1. RowsOk(rows')
    BY <1>1, <1>5, UpsertOk DEF IInv, States
  <2>2. TreesOk(tree')
    BY <1>1, <1>5, RemovedTreeOk DEF IInv
  <2>3. PICK task \in {"triage", "comment"} :
          Enter(e, t, Work(t), "reproducing", task, auth, FALSE)
    BY <1>5
  <2>4. Bound(t, Work(t), "reproducing", task, auth)
    BY <1>1, <1>3, <2>3, NamesOfThreads DEF Tasks
  <2>5. HandlersOk(handler') /\ \A x \in events' : EventOk(x)
    BY <1>1, <1>2, <2>3, <2>4, EnterOk
  <2> QED
    BY <2>1, <2>2, <2>5, DispatchStep DEF HandleComment, IInv
<1>6. CASE /\ rows[t] # None
           /\ Enter(e, t, IF rows[t].branch = None THEN Work(t) ELSE rows[t].branch,
                    "no", "comment", auth, FALSE)
           /\ UNCHANGED <<rows, tree>>
  <2>1. Bound(t, IF rows[t].branch = None THEN Work(t) ELSE rows[t].branch,
              "no", "comment", auth)
    BY <1>1, <1>3, <1>6, NamesOfThreads DEF Tasks
  <2>2. HandlersOk(handler') /\ \A x \in events' : EventOk(x)
    BY <1>1, <1>2, <1>6, <2>1, EnterOk
  <2> QED
    BY <1>6, <2>2, DispatchStep DEF HandleComment, IInv
<1> QED
  BY <1>4, <1>5, <1>6 DEF HandleComment

\* A pull that leads to a thread's row brings the grounds with it.
LEMMA LeadsGrounded ==
  ASSUME HostedOk, NEW p \in Pulls, NEW t \in Threads, Leads(p, t),
         p \in HumanPulls => Granted(p)
  PROVE  /\ t \in Issues => Work(t) \in grounds
         /\ t \in HumanPulls => Granted(t)
<1>1. CASE p \in HumanPulls
  <2>1. HeadRef(p) = Head(p)
    BY <1>1 DEF HeadRef
  <2>2. t \notin Issues
    BY <1>1, <2>1, MineTyped, NamesOfThreads DEF Leads
  <2>3. t \in HumanPulls => t = p
    BY <1>1, <2>1, MineTyped, NamesOfThreads DEF Leads
  <2> QED
    BY <1>1, <2>2, <2>3
<1>2. CASE p \in BotPulls
  <2>1. HeadRef(p) = from[p] /\ from[p] \in Pushable /\ from[p] # Review(t)
    BY <1>2, ThreadKinds DEF HeadRef, HostedOk, Leads
  <2>2. t \in Issues => from[p] = Work(t)
    BY <2>1, MineTyped DEF Leads
  <2>3. t \in HumanPulls => from[p] \in {Head(t), Work(t)}
    BY <2>1, MineTyped DEF Leads
  <2> QED
    BY <2>1, <2>2, <2>3, WhatIsPushable DEF HostedOk
<1> QED
  BY <1>1, <1>2, ThreadKinds

\* What a delivery about a pull may go on to, in the row it resolves to.
LEMMA FollowUpBound ==
  ASSUME IInv, NEW e \in events, e.on \in Pulls, e.on \in HumanPulls => Granted(e.on),
         NEW r, RowsOk(r), NEW t \in Threads, r[t] # None, Leads(e.on, t),
         NEW branch \in {r[t].branch, Work(t)}, branch # None,
         NEW save \in {"no", "moved", "reproducing"}, NEW task \in Tasks,
         NEW auth \in BOOLEAN
  PROVE  Bound(t, branch, save, task, auth)
<1>1. RowOk(t, r[t])
  BY DEF RowsOk
<1>2. branch \in Mine(t) \ {None}
  BY <1>1, MineTyped DEF IInv, RowOk
<1>3. (t \in Issues => Work(t) \in grounds) /\ (t \in HumanPulls => Granted(t))
  BY LeadsGrounded DEF IInv
<1> QED
  BY <1>1, <1>2, <1>3 DEF Bound, RowOk

\* A pull without a row, or one whose review row is reclaimed.
LEMMA DirectBound ==
  ASSUME IInv, NEW p \in Pulls, Exists(p), p \in HumanPulls => Granted(p),
         NEW save \in {"no", "moved", "reproducing", "opened"}, NEW task \in Tasks,
         NEW auth \in BOOLEAN
  PROVE  Bound(p, HeadRef(p), save, task, auth)
<1>1. HeadRef(p) \in Mine(p) \ {None} /\ p \in Threads /\ p \notin Issues
  BY MineTyped, ThreadKinds DEF IInv
<1> QED
  BY <1>1 DEF Bound, States

\* A reclaimed review becomes a row on the pull's own branch.
LEMMA ReclaimOk ==
  ASSUME IInv, NEW r, RowsOk(r), NEW p \in Pulls, NEW t, NEW fetched, Reclaims(t, p, fetched)
  PROVE  /\ t = p /\ p \in Threads /\ HeadRef(p) = Head(p) /\ Exists(p)
         /\ Granted(p) /\ RowsOk(Reclaimed(r, p))
<1>1. p \in HumanPulls /\ Granted(p) /\ Exists(p) /\ p \in Threads
  BY ThreadKinds DEF Reclaims, IInv, HostedOk
<1>2. Head(p) \in Mine(p) /\ Leads(p, p)
  BY <1>1, MineTyped DEF IInv
<1>3. RowsOk(Reclaimed(r, p))
  BY <1>1, <1>2, UpsertOk, ThreadKinds DEF Reclaimed, IInv, States
<1> QED
  BY <1>1, <1>3 DEF Reclaims, HeadRef

\* What is the bot's to amend directly is granted to it.
LEMMA OursGranted ==
  ASSUME IInv, NEW p \in Pulls, Ours(p)
  PROVE  p \in HumanPulls => Granted(p)
BY ThreadKinds DEF Ours, IInv, HostedOk

\* handle_review keeps the invariant, whichever row it resolves.
LEMMA HandleReviewStep ==
  ASSUME IInv, NEW e \in events, HandleReview(e)
  PROVE  IInv'
<1> DEFINE p == e.on
<1>1. p \in Pulls /\ Exists(p) /\ (p \in HumanPulls => Granted(p)) /\ p \in Threads
  BY ThreadKinds DEF HandleReview, IInv, EventOk
<1>2. PICK fetched \in BOOLEAN : \E found \in ResolveRow(p, fetched) :
       LET t == found[1]
           r == found[2]
           isReview == t = p /\ (r[t].state = "reviewing" \/ r[t].branch = Review(p))
       IN \/ /\ t = None /\ ~CanHandleDirectly(p, fetched)
             /\ Done(e) /\ UNCHANGED <<rows, tree>>
          \/ /\ t = None /\ CanHandleDirectly(p, fetched)
             /\ EnterIfAnswered(e, p, HeadRef(p), "opened", "reviewComment", FALSE, TRUE)
             /\ UNCHANGED <<rows, tree>>
          \/ /\ t # None /\ isReview /\ Reclaims(t, p, fetched)
             /\ rows' = Reclaimed(r, p) /\ tree' = [tree EXCEPT ![p] = None]
             /\ EnterIfAnswered(e, p, Head(p), "no", "reviewComment", FALSE, TRUE)
          \/ /\ t # None /\ ~(isReview /\ Reclaims(t, p, fetched))
             /\ rows' = r /\ UNCHANGED tree
             /\ IF r[t].branch = None THEN Done(e)
                ELSE EnterIfAnswered(e, t, r[t].branch, "no", "reviewComment", FALSE, TRUE)
  BY DEF HandleReview
<1>20. PICK found \in ResolveRow(p, fetched) :
       LET t == found[1]
           r == found[2]
           isReview == t = p /\ (r[t].state = "reviewing" \/ r[t].branch = Review(p))
       IN \/ /\ t = None /\ ~CanHandleDirectly(p, fetched)
             /\ Done(e) /\ UNCHANGED <<rows, tree>>
          \/ /\ t = None /\ CanHandleDirectly(p, fetched)
             /\ EnterIfAnswered(e, p, HeadRef(p), "opened", "reviewComment", FALSE, TRUE)
             /\ UNCHANGED <<rows, tree>>
          \/ /\ t # None /\ isReview /\ Reclaims(t, p, fetched)
             /\ rows' = Reclaimed(r, p) /\ tree' = [tree EXCEPT ![p] = None]
             /\ EnterIfAnswered(e, p, Head(p), "no", "reviewComment", FALSE, TRUE)
          \/ /\ t # None /\ ~(isReview /\ Reclaims(t, p, fetched))
             /\ rows' = r /\ UNCHANGED tree
             /\ IF r[t].branch = None THEN Done(e)
                ELSE EnterIfAnswered(e, t, r[t].branch, "no", "reviewComment", FALSE, TRUE)
  BY <1>2
<1> DEFINE t == found[1]
           r == found[2]
<1>3. /\ RowsOk(r)
      /\ t # None => t \in Threads /\ r[t] # None /\ Leads(p, t)
  BY <1>1, ResolveOk, NamesOfThreads DEF IInv
<1>4. CASE Done(e) /\ UNCHANGED <<rows, tree>>
  BY <1>4, DoneOk, DispatchStep DEF HandleReview, IInv
<1>5. CASE /\ EnterIfAnswered(e, p, HeadRef(p), "opened", "reviewComment", FALSE, TRUE)
           /\ UNCHANGED <<rows, tree>>
  <2>1. Bound(p, HeadRef(p), "opened", "reviewComment", FALSE)
    BY <1>1, DirectBound DEF Tasks
  <2> QED
    BY <1>5, <2>1, EnterIfAnsweredOk, DispatchStep DEF HandleReview, IInv
<1>6. CASE /\ Reclaims(t, p, fetched)
           /\ rows' = Reclaimed(r, p) /\ tree' = [tree EXCEPT ![p] = None]
           /\ EnterIfAnswered(e, p, Head(p), "no", "reviewComment", FALSE, TRUE)
  <2>1. RowsOk(rows') /\ HeadRef(p) = Head(p)
    BY <1>1, <1>3, <1>6, ReclaimOk
  <2>2. TreesOk(tree')
    BY <1>1, <1>6, RemovedTreeOk DEF IInv
  <2>3. Bound(p, Head(p), "no", "reviewComment", FALSE)
    BY <1>1, <2>1, DirectBound DEF Tasks
  <2> QED
    BY <1>6, <2>1, <2>2, <2>3, EnterIfAnsweredOk, DispatchStep DEF HandleReview, IInv
<1>7. CASE /\ t # None /\ rows' = r /\ UNCHANGED tree
           /\ IF r[t].branch = None THEN Done(e)
              ELSE EnterIfAnswered(e, t, r[t].branch, "no", "reviewComment", FALSE, TRUE)
  <2>1. r[t].branch # None => Bound(t, r[t].branch, "no", "reviewComment", FALSE)
    BY <1>1, <1>3, <1>7, FollowUpBound DEF Tasks
  <2>2. HandlersOk(handler') /\ \A x \in events' : EventOk(x)
    BY <1>7, <2>1, EnterIfAnsweredOk, DoneOk
  <2> QED
    BY <1>3, <1>7, <2>2, DispatchStep DEF HandleReview, IInv
<1> QED
  BY <1>20, <1>4, <1>5, <1>6, <1>7

\* handle_pr_conversation keeps the invariant with a row at hand ...
LEMMA ResumePullStep ==
  ASSUME IInv, NEW e \in events, e.on \in Pulls, Exists(e.on),
         e.on \in HumanPulls => Granted(e.on), untouched' = untouched,
         staged' = staged, reviewed' = reviewed,
         NEW t \in Threads, NEW r, RowsOk(r), r[t] # None, Leads(e.on, t),
         NEW fetched \in BOOLEAN, ResumePull(e, t, r, fetched)
  PROVE  IInv'
<1> DEFINE p == e.on
           auth == e.says.authorizes /\ Heard(e)
           save == IF ~Heard(e) THEN "no"
                   ELSE IF r[t].branch = None THEN "reproducing" ELSE "moved"
           branch == IF r[t].branch = None THEN Work(t) ELSE r[t].branch
           mayReclaim == r[t].state = "reviewing" \/ (r[t].state \in Final /\ ~Heard(e))
           go(b) == EnterIfAnswered(e, t, b, save, "comment", auth, TRUE)
<1>1. auth \in BOOLEAN /\ save \in {"no", "moved", "reproducing"} /\ "comment" \in Tasks
  BY DEF IInv, EventOk, Events, Directives, Tasks
<1>2. Bound(t, branch, save, "comment", auth)
  <2>1. branch \in {r[t].branch, Work(t)} /\ branch # None
    BY NamesOfThreads
  <2> HIDE DEF branch, save, auth
  <2> QED
    BY <1>1, <2>1, FollowUpBound
<1>3. RowOk(t, r[t]) /\ (t \in BotPulls => Exists(t))
  BY DEF RowsOk, RowOk
<1>4. CASE /\ mayReclaim /\ Reclaims(t, p, fetched)
           /\ rows' = Reclaimed(r, p) /\ tree' = [tree EXCEPT ![p] = None]
           /\ IF e.says.body = "empty" THEN Done(e) ELSE go(Head(p))
  <2>1. t = p /\ RowsOk(rows') /\ HeadRef(p) = Head(p)
    BY <1>4, ReclaimOk
  <2>2. TreesOk(tree')
    BY <1>4, <2>1, RemovedTreeOk DEF IInv
  <2>3. Bound(t, Head(p), save, "comment", auth)
    BY <1>1, <2>1, DirectBound
  <2>4. HandlersOk(handler') /\ \A x \in events' : EventOk(x)
    BY <1>1, <1>4, <2>3, EnterIfAnsweredOk, DoneOk
  <2> QED
    BY <2>1, <2>2, <2>4, DispatchStep DEF IInv
<1>5. CASE /\ mayReclaim /\ ~Reclaims(t, p, fetched)
           /\ Done(e) /\ rows' = r /\ UNCHANGED tree
  BY <1>5, DoneOk, DispatchStep DEF IInv
<1>6. CASE /\ tree' = [tree EXCEPT ![t] = None]
           /\ rows' = Upsert(r, t, "reproducing", None, None)
           /\ go(branch)
  <2>1. RowsOk(rows')
    BY <1>3, <1>6, UpsertOk DEF IInv, States
  <2>2. TreesOk(tree')
    BY <1>6, RemovedTreeOk DEF IInv
  <2>3. HandlersOk(handler') /\ \A x \in events' : EventOk(x)
    BY <1>1, <1>2, <1>6, EnterIfAnsweredOk
  <2> QED
    BY <2>1, <2>2, <2>3, DispatchStep DEF IInv
<1>7. CASE /\ rows' = r /\ UNCHANGED tree
           /\ Done(e) \/ go(branch)
  <2>1. HandlersOk(handler') /\ \A x \in events' : EventOk(x)
    BY <1>1, <1>2, <1>7, EnterIfAnsweredOk, DoneOk
  <2> QED
    BY <1>7, <2>1, DispatchStep DEF IInv
<1> QED
  BY <1>4, <1>5, <1>6, <1>7 DEF ResumePull

\* ... and without one.
LEMMA HandlePrConversationStep ==
  ASSUME IInv, NEW e \in events, HandlePrConversation(e)
  PROVE  IInv'
<1> DEFINE p == e.on
<1>1. p \in Pulls /\ Exists(p) /\ (p \in HumanPulls => Granted(p))
  BY DEF HandlePrConversation, IInv, EventOk
<1>2. untouched' = untouched /\ staged' = staged /\ reviewed' = reviewed
  BY DEF HandlePrConversation
<1>3. PICK fetched \in BOOLEAN : \E found \in ResolveRow(p, fetched) :
       IF found[1] # None
         THEN ResumePull(e, found[1], found[2], fetched)
         ELSE /\ IF CanHandleDirectly(p, fetched) /\ e.says.body # "empty"
                   THEN EnterIfAnswered(e, p, HeadRef(p), "opened", "comment",
                              e.says.authorizes /\ Heard(e), TRUE)
                   ELSE Done(e)
              /\ UNCHANGED <<rows, tree>>
  BY DEF HandlePrConversation
<1>4. PICK found \in ResolveRow(p, fetched) :
       IF found[1] # None
         THEN ResumePull(e, found[1], found[2], fetched)
         ELSE /\ \/ EnterIfAnswered(e, p, HeadRef(p), "opened", "comment",
                              e.says.authorizes /\ Heard(e), TRUE)
                 \/ Done(e)
              /\ UNCHANGED <<rows, tree>>
  BY <1>3
<1>5. CASE found[1] # None
  <2>1. RowsOk(found[2]) /\ found[1] \in Threads /\ found[2][found[1]] # None /\ Leads(p, found[1])
    BY <1>1, <1>5, ResolveOk DEF IInv
  <2> QED
    BY <1>1, <1>2, <1>4, <1>5, <2>1, ResumePullStep
<1>6. CASE found[1] = None
  <2>1. (e.says.authorizes /\ Heard(e)) \in BOOLEAN
    BY DEF IInv, EventOk, Events, Directives, Heard
  <2>2. Bound(p, HeadRef(p), "opened", "comment", e.says.authorizes /\ Heard(e))
    BY <1>1, <2>1, DirectBound DEF Tasks
  <2>3. HandlersOk(handler') /\ \A x \in events' : EventOk(x)
    BY <1>4, <1>6, <2>1, <2>2, EnterIfAnsweredOk, DoneOk
  <2> QED
    BY <1>2, <1>4, <1>6, <2>3, DispatchStep DEF IInv
<1> QED
  BY <1>5, <1>6

\* cleanup_workspace keeps the invariant.
LEMMA CleanupWorkspaceStep ==
  ASSUME IInv, NEW e \in events, CleanupWorkspace(e)
  PROVE  IInv'
<1>1. CASE UNCHANGED <<rows, tree>>
  BY <1>1, DoneOk, DispatchStep DEF CleanupWorkspace, IInv
<1>2. CASE \E t \in Threads : /\ tree' = [tree EXCEPT ![t] = None]
                              /\ rows' = SetState(rows, t, e.kind)
  <2>1. e.kind \in States
    BY DEF CleanupWorkspace, States, Final
  <2>2. PICK t \in Threads : /\ tree' = [tree EXCEPT ![t] = None]
                             /\ rows' = SetState(rows, t, e.kind)
    BY <1>2
  <2>3. TreesOk(tree') /\ RowsOk(rows')
    BY <2>1, <2>2, RemovedTreeOk, SetStateOk DEF IInv
  <2> QED
    BY <2>3, DoneOk, DispatchStep DEF CleanupWorkspace, IInv
<1>3. e.on \in Threads
  BY DEF IInv, EventOk, Events
<1> QED
  BY <1>1, <1>2, <1>3 DEF CleanupWorkspace, RowsOfPull

\* revoke_pr_assignment keeps the invariant.
LEMMA RevokePrAssignmentStep ==
  ASSUME IInv, NEW e \in events, RevokePrAssignment(e)
  PROVE  IInv'
<1>1. e.on \in Threads
  BY DEF IInv, EventOk, Events
<1>2. TreesOk(tree')
  BY <1>1, RemovedTreeOk DEF RevokePrAssignment, IInv
<1>3. RowsOk(rows')
  BY <1>1 DEF RevokePrAssignment, IInv, RowsOk
<1> QED
  BY <1>2, <1>3, DoneOk, DispatchStep DEF RevokePrAssignment, IInv

-----------------------------------------------------------------------------
(* The workspace and the turn                                                *)

\* What a set-up checks out, and what it writes to the row, are the thread's own.
LEMMA CheckoutOk ==
  ASSUME IInv, NEW h, HandlerOk(h)
  PROVE  /\ Checkout(h) \in Mine(h.num) \ {None} /\ Checkout(h) \in Branches
         /\ TreesOk(Made(h)) /\ RowsOk(Saved(h))
<1>1. /\ h \in Handler /\ h.num \in Threads /\ h.branch \in Branches
      /\ Bound(h.num, h.branch, h.save, h.task, h.auth)
  BY DEF HandlerOk, Handler
<1>2. Checkout(h) \in Mine(h.num) \ {None} /\ Checkout(h) \in Branches
  BY <1>1, MineTyped, NamesOfThreads DEF Checkout, IInv, TreesOk, Bound
<1>3. TreesOk(Made(h))
  BY <1>1 DEF Made, IInv, TreesOk, Bound
<1>4. RowsOk(Saved(h))
  <2>1. CASE h.save \in {"no", "moved", "reproducing"}
    BY <1>1, <1>2, <2>1, UpsertOk DEF Saved, Bound, IInv, States
  <2>2. CASE h.save \in States /\ h.num \in Pulls /\ Exists(h.num)
    <3>1. Leads(h.num, h.num)
      BY <1>1, <2>2, MineTyped DEF IInv
    <3> QED
      BY <1>1, <1>2, <2>2, <3>1, UpsertOk DEF Saved, Bound, IInv, States
  <2> QED
    BY <1>1, <2>1, <2>2 DEF Bound
<1> QED
  BY <1>2, <1>3, <1>4

\* A set-up that succeeds keeps the invariant.
LEMMA PrepareStep ==
  ASSUME IInv, NEW k \in Threads, Prepare(k)
  PROVE  IInv'
<1> DEFINE h == handler[k]
           g == [h EXCEPT !.at = "agent", !.branch = Checkout(h)]
<1>1. HandlerOk(h)
  BY DEF Prepare, IInv, HandlersOk
<1>2. HandlerOk(g)
  BY <1>1, CheckoutOk DEF HandlerOk, Handler, Bound
<1>3. HandlersOk(handler')
  BY <1>2 DEF Prepare, IInv, HandlersOk, HandlerOk
<1>4. TreesOk(tree') /\ RowsOk(rows')
  BY <1>1, CheckoutOk DEF Prepare
<1> QED
  BY <1>3, <1>4, LocalStep DEF Prepare, IInv

\* A delivery given back is sound as it was.
LEMMA GiveBackOk ==
  ASSUME IInv, NEW e, EventOk(e), GiveBack(e)
  PROVE  (\A x \in events' : EventOk(x)) /\ dropped' \subseteq Events
<1>1. CASE e.attempts < MaxRetries /\ UNCHANGED dropped
           /\ events' = (events \ {e}) \union {[e EXCEPT !.attempts = @ + 1]}
  <2>1. EventOk([e EXCEPT !.attempts = @ + 1])
    BY <1>1, LifecycleAssumption DEF EventOk, Events
  <2> QED
    BY <1>1, <2>1 DEF IInv
<1>2. CASE events' = events \ {e} /\ dropped' = dropped \union {e}
  BY <1>2 DEF IInv, EventOk
<1> QED
  BY <1>1, <1>2 DEF GiveBack

\* The bound on faults.
LEMMA FaultCounted ==
  ASSUME IInv, faults < MaxFaults, faults' = faults + 1
  PROVE  faults' \in 0..MaxFaults
BY LifecycleAssumption DEF IInv

\* So does a clean-up that fails,
LEMMA FailCleanupStep ==
  ASSUME IInv, NEW e \in events, FailCleanup(e)
  PROVE  IInv'
<1>1. (\A x \in events' : EventOk(x)) /\ dropped' \subseteq Events /\ faults' \in 0..MaxFaults
  BY GiveBackOk, FaultCounted DEF IInv, FailCleanup
<1> QED
  BY <1>1, LocalStep DEF FailCleanup, local, IInv

\* A key without its handler is sound.
LEMMA HandlerRemoved ==
  ASSUME IInv, NEW k \in Threads
  PROVE  HandlersOk([handler EXCEPT ![k] = None])
BY DEF IInv, HandlersOk

\* A set-up or a turn that fails keeps the invariant.
LEMMA FailStep ==
  ASSUME IInv, NEW k \in Threads, Fail(k)
  PROVE  IInv'
<1>1. HandlerOk(handler[k])
  BY DEF Fail, IInv, HandlersOk
<1>2. (\A x \in events' : EventOk(x)) /\ dropped' \subseteq Events /\ faults' \in 0..MaxFaults
  BY <1>1, GiveBackOk, FaultCounted DEF IInv, Fail, HandlerOk
<1>3. TreesOk(tree')
  BY <1>1, CheckoutOk DEF Fail, IInv
<1>4. HandlersOk(handler')
  BY HandlerRemoved DEF Fail
<1> QED
  BY <1>2, <1>3, <1>4, LocalStep DEF Fail, IInv

\* a turn that ends,
LEMMA EndTurnStep ==
  ASSUME IInv, NEW k \in Threads, EndTurn(k)
  PROVE  IInv'
BY HandlerRemoved, LocalStep DEF EndTurn, local, IInv

\* and a crash with its restart.
LEMMA CrashStep ==
  ASSUME IInv, Crash
  PROVE  IInv'
<1>1. \A x \in events' : EventOk(x)
  BY DEF Crash, IInv, HandlersOk, HandlerOk
<1>2. HandlersOk(handler')
  BY DEF Crash, HandlersOk
<1>3. StraysOk(stray') /\ faults' \in 0..MaxFaults
  BY FaultCounted DEF Crash, StraysOk
<1> QED
  BY <1>1, <1>2, <1>3, LocalStep DEF Crash, local, IInv

-----------------------------------------------------------------------------
(* Tools that leave GitHub's branches alone                                  *)

\* An agent runs for a sound handler.
LEMMA Agent ==
  ASSUME IInv, NEW k \in Threads, AtAgent(k)
  PROVE  HandlerOk(handler[k]) /\ handler[k] \in Handler /\ handler[k].num \in Threads
BY DEF AtAgent, IInv, HandlersOk, HandlerOk, Handler

\* A tool that writes to the tables only.
LEMMA TableStep ==
  ASSUME IInv, UNCHANGED <<hosted, tree, mentions, events, stray, dropped, arrived, faults>>,
         RowsOk(rows'), HandlersOk(handler'), staged' \subseteq Threads,
         reviewed' \subseteq Threads
  PROVE  IInv'
BY LocalStep DEF IInv

\* The rank of a pull lets nobody publish.
LEMMA ClassifyPrStep ==
  ASSUME IInv, NEW k \in Threads, ClassifyPr(k)
  PROVE  IInv'
<1>1. handler[k].num \in Threads
  BY Agent DEF ClassifyPr
<1>2. RowsOk(rows')
  BY <1>1 DEF ClassifyPr, IInv, RowsOk, RowOk, Row
<1> QED
  BY <1>2, TableStep DEF ClassifyPr, IInv

\* Tools that change the state of a row.
LEMMA SetStateSteps ==
  ASSUME IInv, NEW k \in Threads, MarkUnable(k) \/ ReproRecord(k) \/ AbortTask(k)
  PROVE  IInv'
<1>1. handler[k].num \in Threads
  BY Agent DEF MarkUnable, ReproRecord, AbortTask
<1>2. RowsOk(rows')
  BY <1>1, SetStateOk DEF MarkUnable, ReproRecord, AbortTask, IInv, States, Final
<1>3. HandlersOk(handler')
  BY HandlerRemoved DEF MarkUnable, ReproRecord, AbortTask, IInv
<1> QED
  BY <1>2, <1>3, TableStep DEF MarkUnable, ReproRecord, AbortTask, IInv

\* A review comment is staged.
LEMMA StageCommentStep ==
  ASSUME IInv, NEW k \in Threads, StageComment(k)
  PROVE  IInv'
<1>1. handler[k].num \in Threads
  BY Agent DEF StageComment
<1> QED
  BY <1>1, TableStep DEF StageComment, IInv

\* A tool call is under way.
LEMMA BusyOk ==
  ASSUME HandlersOk(handler), NEW k \in Threads, handler[k] # None
  PROVE  HandlersOk([handler EXCEPT ![k].busy = TRUE])
<1>1. HandlerOk([handler[k] EXCEPT !.busy = TRUE])
  BY DEF HandlersOk, HandlerOk, Handler
<1> QED
  BY <1>1 DEF HandlersOk, HandlerOk

\* submit_pr_review up to the answer of GitHub.
LEMMA SubmitReviewStep ==
  ASSUME IInv, NEW k \in Threads, SubmitReview(k)
  PROVE  IInv'
<1>1. HandlersOk(handler')
  BY BusyOk DEF SubmitReview, AtAgent, IInv
<1>2. handler[k].ev \in Events
  BY Agent DEF SubmitReview, Handler
<1>3. StraysOk(stray')
  BY <1>2, Agent DEF SubmitReview, IInv, StraysOk
<1> QED
  BY <1>1, <1>3, LocalStep DEF SubmitReview, local, IInv

\* A tool call is over.
LEMMA ReturnedOk ==
  ASSUME IInv, NEW s, Returned(s)
  PROVE  HandlersOk(handler') /\ StraysOk(stray')
<1>1. \A h : HandlerOk(h) => HandlerOk([h EXCEPT !.busy = FALSE])
  BY DEF HandlerOk, Handler
<1>2. \A k \in Threads : handler'[k] \in {handler[k], [handler[k] EXCEPT !.busy = FALSE]}
  BY DEF Returned
<1>3. \A k \in Threads : handler'[k] # None => handler[k] # None
  BY DEF Returned
<1>4. \A k \in Threads : handler'[k] # None => HandlerOk(handler'[k])
  BY <1>1, <1>2, <1>3 DEF IInv, HandlersOk
<1>5. HandlersOk(handler')
  BY <1>4 DEF Returned, HandlersOk, HandlerOk
<1> QED
  BY <1>5 DEF Returned, IInv, StraysOk

\* gh_open_pr from the answer of GitHub on.
LEMMA RecordPullStep ==
  ASSUME IInv, NEW s \in stray, RecordPull(s)
  PROVE  IInv'
<1>1. s.num \in Threads /\ s.pull \in Pulls /\ Leads(s.pull, s.num)
  BY DEF RecordPull, IInv, StraysOk
<1>2. RowsOk(rows')
  BY <1>1 DEF RecordPull, IInv, RowsOk, RowOk, Row, States
<1> QED
  BY <1>2, ReturnedOk, LocalStep DEF RecordPull, IInv

\* submit_pr_review from the answer of GitHub on.
LEMMA RecordReviewStep ==
  ASSUME IInv, NEW s \in stray, RecordReview(s)
  PROVE  IInv'
<1>1. s.num \in Threads
  BY DEF IInv, StraysOk
<1> QED
  BY <1>1, ReturnedOk, LocalStep DEF RecordReview, IInv

-----------------------------------------------------------------------------
(* Steps that add grounds                                                    *)

Grows ==
  /\ from' = from /\ grounds \subseteq grounds'
  /\ \A t \in Threads : Exists(t) => Exists(t)'

\* What refers to grounds and threads stays sound when there are more of them.
LEMMA GrowKeeps ==
  ASSUME IInv, Grows
  PROVE  /\ rows' = rows => RowsOk(rows)'
         /\ \A e : EventOk(e) => EventOk(e)'
         /\ MentionsOk(mentions') => MentionsOk(mentions)'
<1>1. \A t : Exists(t) /\ t \in Threads => Exists(t)'
  BY DEF Grows
<1>2. \A t : Granted(t) => Granted(t)'
  BY WhatIsPushableNext DEF Grows, Granted
<1>3. ASSUME rows' = rows
      PROVE  RowsOk(rows)'
  <2>1. \A t \in Threads : rows[t] # None => RowOk(t, rows[t])'
    <3>1. SUFFICES ASSUME NEW t \in Threads, rows[t] # None, RowOk(t, rows[t])
                   PROVE  RowOk(t, rows[t])'
      BY DEF IInv, RowsOk
    <3>2. rows[t].pr # None => Leads(rows[t].pr, t)'
      BY <1>1, <1>3, <3>1, ThreadKinds DEF RowOk, Row, Leads, Mine, HeadRef, Grows
    <3>3. t \in BotPulls => Exists(t)'
      BY <1>1, <3>1 DEF RowOk
    <3> QED
      BY <1>3, <3>1, <3>2, <3>3 DEF RowOk, Mine, HeadRef, Grows
  <2> QED
    BY <1>3, <2>1 DEF IInv, RowsOk
<1>4. \A e : EventOk(e) => EventOk(e)'
  <2>1. SUFFICES ASSUME NEW e, EventOk(e)
                 PROVE  EventOk(e)'
    OBVIOUS
  <2>2. e.on \in Pulls => Exists(e.on)'
    BY <1>1, <2>1, ThreadKinds DEF EventOk
  <2> QED
    BY <1>2, <2>1, <2>2 DEF EventOk, Grows
<1>5. MentionsOk(mentions') => MentionsOk(mentions)'
  BY DEF MentionsOk, Grows
<1> QED
  BY <1>3, <1>4, <1>5

\* A step that adds grounds or threads, and handles nothing.
LEMMA GrowStep ==
  ASSUME IInv, Grows, HostedOk', RowsOk(rows)', (\A e \in events : EventOk(e))',
         MentionsOk(mentions)', tree' = tree, handler' = handler, stray' = stray,
         dropped' = dropped, staged' = staged, reviewed' = reviewed,
         arrived' \in 0..MaxEvents, faults' = faults
  PROVE  IInv'
<1>1. \A t \in Threads : Mine(t)' = Mine(t)
  BY DEF Mine, HeadRef, Grows
<1>2. TreesOk(tree)'
  BY <1>1 DEF IInv, TreesOk
<1>3. HandlersOk(handler)'
  <2>1. SUFFICES ASSUME NEW k \in Threads, handler[k] # None, HandlerOk(handler[k])
                 PROVE  HandlerOk(handler[k])'
    BY DEF IInv, HandlersOk
  <2>2. EventOk(handler[k].ev)'
    BY <2>1, GrowKeeps DEF HandlerOk
  <2>3. handler[k].num \in Threads /\ (handler[k].num \in Pulls => handler[k].num \in Threads)
    BY <2>1 DEF HandlerOk, Bound
  <2>4. Bound(handler[k].num, handler[k].branch, handler[k].save, handler[k].task,
              handler[k].auth)'
    BY <1>1, <2>1, <2>3, WhatIsPushableNext DEF HandlerOk, Bound, Grows, Granted
  <2> QED
    BY <2>1, <2>2, <2>4 DEF HandlerOk
<1>4. StraysOk(stray)'
  <2>1. SUFFICES ASSUME NEW s \in stray, s.tool = "open", s.pull \in Pulls, s.num \in Threads
                 PROVE  Leads(s.pull, s.num)' /\ (s.num \in BotPulls => Exists(s.num)')
    BY DEF IInv, StraysOk
  <2>2. Leads(s.pull, s.num) /\ (s.num \in BotPulls => Exists(s.num)) /\ s.pull \in Threads
    BY <2>1, ThreadKinds DEF IInv, StraysOk
  <2> QED
    BY <1>1, <2>1, <2>2 DEF Leads, HeadRef, Grows
<1> QED
  BY <1>2, <1>3, <1>4 DEF IInv

\* Pulls are there or not as before, and none is newly assigned.
LEMMA QueueStep ==
  ASSUME IInv, NEW kind \in Kinds, NEW t \in Threads, NEW under \in Threads,
         NEW says \in Directives, Queue(kind, t, under, says),
         kind \in {"triage", "comment"} => t \in Issues,
         kind \in {"pullComment", "reviewComment", "reviewRequested"} => t \in Pulls,
         t \in Pulls => Exists(t),
         t \in HumanPulls /\ (kind = "reviewComment" \/ (kind = "pullComment" /\ says.body # "review"))
           => Granted(t),
         says.authorizes /\ under \in Issues => t = under \/ (t \in Pulls /\ Leads(t, under)),
         github' \in [Threads -> {"absent", "open", "closed", "merged"}],
         \A u \in Threads : Exists(u) => Exists(u)',
         \A p \in Pulls : Exists(p)' <=> Exists(p),
         assigned' \subseteq assigned
  PROVE  IInv'
<1>0. PICK e : e = [n |-> arrived + 1, kind |-> kind, on |-> t, key |-> under,
                    says |-> says, attempts |-> 0]
  OBVIOUS
<1>1. from' = from /\ pushed' = pushed /\ grounds' = GroundedBy(t, says)
  BY DEF Queue
<1>2. t \in BotPulls => HeadRef(t) = from[t] /\ from[t] \in pushed /\ from[t] \in Pushable
  BY ThreadKinds DEF IInv, HostedOk, HeadRef
<1>3. \A b \in grounds' : b \in Pushable \/ (t \in Issues /\ b = Work(t))
  BY <1>1, <1>2, ThreadKinds, WhatIsPushable DEF GroundedBy
<1>4. grounds \subseteq grounds' /\ (says.authorizes /\ t \in Issues => Work(t) \in grounds')
  BY <1>1, ThreadKinds DEF GroundedBy
<1>5. Grows
  BY <1>1, <1>4 DEF Grows
<1>6. HostedOk'
  <2>1. \A p \in HumanPulls : (Head(p) \in Pushable' => Head(p) \in Pushable)
                           /\ (Work(p) \in grounds' => Work(p) \in grounds)
    BY <1>3, NamesOfThreads, ThreadKinds, WhatIsPushable, WhatIsPushableNext
  <2>2. grounds' \subseteq Branches
    BY <1>3, NamesOfThreads, WhatIsPushable DEF IInv, HostedOk
  <2>3. \A p \in HumanPulls :
          Exists(p)' /\ (p \in assigned' \/ Head(p) \in Pushable' \/ Work(p) \in grounds'
                           => Granted(p)')
    BY <2>1, <1>4, ThreadKinds, WhatIsPushableNext DEF IInv, HostedOk, Granted
  <2>4. \A p \in BotPulls : IF Exists(p)' THEN from'[p] \in pushed' /\ Work(p) \in grounds'
                                          ELSE from'[p] = None
    BY <1>1, <1>4, ThreadKinds DEF IInv, HostedOk
  <2>5. /\ assigned' \subseteq HumanPulls /\ pushed' \subseteq Pushable'
        /\ from' \in [BotPulls -> Branches \union {None}]
        /\ \A u \in Threads : Review(u) \notin pushed'
    BY <1>1, <1>4, WhatIsPushableNext DEF IInv, HostedOk
  <2> QED
    BY <2>2, <2>3, <2>4, <2>5 DEF HostedOk
<1>7. EventOk(e)'
  <2>1. e \in Events
    BY <1>0, LifecycleAssumption DEF Queue, Events, IInv
  <2> QED
    BY <1>0, <1>4, <2>1, WhatIsPushableNext DEF EventOk, Granted
<1>8. (\A x \in events : EventOk(x))'
  <2>1. \A x \in events' : x \in events \/ x = e
    BY <1>0 DEF Queue
  <2>2. \A x \in events : EventOk(x)'
    BY <1>5, GrowKeeps DEF IInv
  <2> QED
    BY <1>7, <2>1, <2>2
<1>9. MentionsOk(mentions)'
  <2>1. \A u \in mentions' : u \in mentions \/ (says.authorizes /\ u = under)
    BY DEF Queue
  <2>2. says.authorizes /\ under \in Issues => Work(under) \in grounds'
    <3>1. CASE t = under
      BY <1>4, <3>1
    <3>2. CASE t \in Pulls /\ Leads(t, under)
      <4>1. under \in Issues => t \in BotPulls
        BY <3>2, MineTyped, NamesOfThreads, ThreadKinds DEF IInv, Leads, HeadRef
      <4>2. under \in Issues => HeadRef(t) = Work(under)
        BY <3>2, MineTyped DEF IInv, Leads
      <4> QED
        BY <1>2, <1>4, <4>1, <4>2, WhatIsPushable
    <3> QED
      BY <3>1, <3>2
  <2> QED
    BY <1>4, <2>1, <2>2 DEF IInv, MentionsOk
<1>10. RowsOk(rows)'
  BY <1>5, GrowKeeps DEF Queue
<1>11. arrived' \in 0..MaxEvents
  BY LifecycleAssumption DEF Queue, IInv
<1> QED
  BY <1>5, <1>6, <1>8, <1>9, <1>10, <1>11, GrowStep DEF Queue

\* The keys a delivery about a pull is filed under are led to by it.
LEMMA PullKeysOk ==
  ASSUME IInv, NEW p \in Pulls, Exists(p), NEW under \in PullKeys(p)
  PROVE  under \in Threads /\ (under = p \/ Leads(p, under))
<1>1. p \in Threads /\ p # None
  BY NamesOfThreads, ThreadKinds
<1>2. CASE RowsOfPull(rows, p) = {}
  BY <1>1, <1>2 DEF PullKeys
<1>3. CASE RowsOfPull(rows, p) # {}
  BY <1>1, <1>3 DEF PullKeys, RowsOfPull, IInv, RowsOk, RowOk
<1> QED
  BY <1>2, <1>3

\* A delivery without a directive.
LEMMA SilentOk == Silent \in Directives /\ ~Silent.authorizes
BY DEF Silent, Directives

\* A thread changes its state on GitHub, and is there.
LEMMA StateChanges ==
  ASSUME IInv, NEW t \in Threads, NEW how \in {"open", "closed", "merged"},
         t \in Pulls => Exists(t), github' = [github EXCEPT ![t] = how]
  PROVE  /\ github' \in [Threads -> {"absent", "open", "closed", "merged"}]
         /\ \A u \in Threads : Exists(u) => Exists(u)'
         /\ \A p \in Pulls : Exists(p)' <=> Exists(p)
BY ThreadKinds DEF IInv, HostedOk, Exists

\* Webhooks keep the invariant: an issue is opened or reopened,
LEMMA IssueOpenedStep ==
  ASSUME IInv, NEW i \in Issues, IssueOpened(i)
  PROVE  IInv'
<1>1. i \in Threads /\ i \notin Pulls /\ i \notin HumanPulls
  BY ThreadKinds
<1>2. Queue("triage", i, i, Silent) /\ "triage" \in Kinds /\ assigned' \subseteq assigned
  BY DEF IssueOpened, Kinds
<1>3. github' = [github EXCEPT ![i] = "open"]
  BY DEF IssueOpened
<1> QED
  BY <1>1, <1>2, <1>3, StateChanges, SilentOk, QueueStep

\* somebody comments on it,
LEMMA IssueCommentStep ==
  ASSUME IInv, NEW i \in Issues, NEW says \in Bodies, IssueComment(i, says)
  PROVE  IInv'
<1>1. i \in Threads /\ i \notin Pulls /\ i \notin HumanPulls
  BY ThreadKinds
<1>2. Queue("comment", i, i, says) /\ "comment" \in Kinds
  BY DEF IssueComment, Kinds
<1>3. github' = github /\ assigned' = assigned /\ says \in Directives
  BY LifecycleAssumption DEF IssueComment
<1>4. /\ github' \in [Threads -> {"absent", "open", "closed", "merged"}]
      /\ \A u \in Threads : Exists(u)' <=> Exists(u)
  BY <1>3 DEF IInv, HostedOk, Exists
<1> QED
  BY <1>1, <1>2, <1>3, <1>4, QueueStep, ThreadKinds

\* or on a pull,
LEMMA PullCommentStep ==
  ASSUME IInv, NEW p \in Pulls, NEW says \in Bodies, PullComment(p, says)
  PROVE  IInv'
<1>1. p \in Threads /\ p \notin Issues /\ Exists(p)
  BY ThreadKinds DEF PullComment, Exists
<1>2. PICK under \in (IF Ours(p) THEN PullKeys(p) ELSE {p}) : Queue("pullComment", p, under, says)
  BY DEF PullComment
<1>3. under \in Threads /\ (under = p \/ Leads(p, under))
  BY <1>1, <1>2, PullKeysOk
<1>4. github' = github /\ assigned' = assigned /\ says \in Directives /\ "pullComment" \in Kinds
  BY LifecycleAssumption DEF PullComment, Kinds
<1>5. /\ github' \in [Threads -> {"absent", "open", "closed", "merged"}]
      /\ \A u \in Threads : Exists(u)' <=> Exists(u)
  BY <1>4 DEF IInv, HostedOk, Exists
<1>6. p \in HumanPulls /\ says.body # "review" => Granted(p)
  BY ThreadKinds DEF PullComment, Ours, IInv, HostedOk
<1> QED
  BY <1>1, <1>2, <1>3, <1>4, <1>5, <1>6, QueueStep, ThreadKinds

\* asks for a review,
LEMMA ReviewRequestedStep ==
  ASSUME IInv, NEW p \in Pulls, ReviewRequested(p)
  PROVE  IInv'
<1>1. p \in Threads /\ p \notin Issues /\ Exists(p)
  BY ThreadKinds DEF ReviewRequested, Exists
<1>2. Queue("reviewRequested", p, p, Silent) /\ "reviewRequested" \in Kinds
  BY DEF ReviewRequested, Kinds
<1>3. github' = github /\ assigned' = assigned
  BY DEF ReviewRequested
<1>4. /\ github' \in [Threads -> {"absent", "open", "closed", "merged"}]
      /\ \A u \in Threads : Exists(u)' <=> Exists(u)
  BY <1>3 DEF IInv, HostedOk, Exists
<1> QED
  BY <1>1, <1>2, <1>3, <1>4, SilentOk, QueueStep, ThreadKinds

\* comments on a line,
LEMMA ReviewCommentStep ==
  ASSUME IInv, NEW p \in Pulls, NEW says \in Bodies, ReviewComment(p, says)
  PROVE  IInv'
<1>1. p \in Threads /\ p \notin Issues /\ Exists(p)
  BY ThreadKinds DEF ReviewComment, Exists
<1>2. PICK under \in PullKeys(p) : Queue("reviewComment", p, under, says)
  BY DEF ReviewComment
<1>3. under \in Threads /\ (under = p \/ Leads(p, under))
  BY <1>1, <1>2, PullKeysOk
<1>4. github' = github /\ assigned' = assigned /\ says \in Directives /\ "reviewComment" \in Kinds
  BY LifecycleAssumption DEF ReviewComment, Kinds
<1>5. /\ github' \in [Threads -> {"absent", "open", "closed", "merged"}]
      /\ \A u \in Threads : Exists(u)' <=> Exists(u)
  BY <1>4 DEF IInv, HostedOk, Exists
<1>6. p \in HumanPulls => Granted(p)
  BY ThreadKinds DEF ReviewComment, Ours, IInv, HostedOk
<1> QED
  BY <1>1, <1>2, <1>3, <1>4, <1>5, <1>6, QueueStep, ThreadKinds

\* closes or merges,
LEMMA ThreadClosedStep ==
  ASSUME IInv, NEW t \in Threads, NEW how \in {"closed", "merged"}, ThreadClosed(t, how)
  PROVE  IInv'
<1>1. Exists(t) /\ how \in Kinds /\ assigned' = assigned
  BY DEF ThreadClosed, Exists, Kinds
<1>2. PICK under \in (IF t \in Pulls THEN PullKeys(t) ELSE {t}) : Queue(how, t, under, Silent)
  BY DEF ThreadClosed
<1>3. under \in Threads
  BY <1>1, <1>2, PullKeysOk
<1>4. github' = [github EXCEPT ![t] = how]
  BY DEF ThreadClosed
<1> QED
  BY <1>1, <1>2, <1>3, <1>4, StateChanges, SilentOk, QueueStep

\* takes the pull back from the bot,
LEMMA UnassignStep ==
  ASSUME IInv, NEW p \in Pulls, Unassign(p)
  PROVE  IInv'
<1>1. p \in Threads /\ Exists(p)
  BY ThreadKinds DEF Unassign, IInv, HostedOk
<1>2. Queue("unassigned", p, p, Silent) /\ "unassigned" \in Kinds
  BY DEF Unassign, Kinds
<1>3. github' = github /\ assigned' \subseteq assigned
  BY DEF Unassign
<1>4. /\ github' \in [Threads -> {"absent", "open", "closed", "merged"}]
      /\ \A u \in Threads : Exists(u)' <=> Exists(u)
  BY <1>3 DEF IInv, HostedOk, Exists
<1> QED
  BY <1>1, <1>2, <1>3, <1>4, SilentOk, QueueStep, ThreadKinds

\* or gives it to the bot.
LEMMA AssignStep ==
  ASSUME IInv, NEW p \in Pulls, Assign(p)
  PROVE  IInv'
<1>1. /\ p \in HumanPulls /\ p \in Threads /\ p \notin BotPulls
      /\ github' = github /\ from' = from /\ pushed' = pushed
      /\ assigned' = assigned \union {p}
      /\ grounds' = grounds \union {Work(p)} \union {Head(q) : q \in {p} \ Forks}
  BY ThreadKinds DEF Assign
<1>2. Grows /\ \A t : Exists(t)' <=> Exists(t)
  BY <1>1 DEF Grows, Exists
<1>3. HostedOk'
  <2>1. grounds' \subseteq Branches
    BY <1>1, NamesOfThreads DEF IInv, HostedOk
  <2>2. \A q \in HumanPulls :
          Exists(q)' /\ (q \in assigned' \/ Head(q) \in Pushable' \/ Work(q) \in grounds'
                           => Granted(q)')
    <3>1. SUFFICES ASSUME NEW q \in HumanPulls
                   PROVE  /\ Exists(q)'
                          /\ q \in assigned' \/ Head(q) \in Pushable' \/ Work(q) \in grounds'
                               => Granted(q)'
      OBVIOUS
    <3>2. CASE q = p
      BY <1>1, <1>2, <3>2, WhatIsPushableNext DEF IInv, HostedOk, Granted
    <3>4. q # p => /\ Head(q) \in Pushable' <=> Head(q) \in Pushable
                   /\ Work(q) \in grounds' <=> Work(q) \in grounds
      BY <1>1, NamesOfThreads, WhatIsPushable, WhatIsPushableNext
    <3>3. CASE q # p
      BY <1>1, <1>2, <3>3, <3>4 DEF IInv, HostedOk, Granted
    <3> QED
      BY <3>2, <3>3
  <2>3. \A q \in BotPulls : IF Exists(q)' THEN from'[q] \in pushed' /\ Work(q) \in grounds'
                                          ELSE from'[q] = None
    BY <1>1, <1>2 DEF IInv, HostedOk
  <2>4. /\ github' \in [Threads -> {"absent", "open", "closed", "merged"}]
        /\ assigned' \subseteq HumanPulls /\ pushed' \subseteq Pushable'
        /\ from' \in [BotPulls -> Branches \union {None}]
        /\ \A u \in Threads : Review(u) \notin pushed'
    BY <1>1, WhatIsPushableNext DEF IInv, HostedOk
  <2> QED
    BY <2>1, <2>2, <2>3, <2>4 DEF HostedOk
<1>4. RowsOk(rows)' /\ (\A e \in events : EventOk(e))' /\ MentionsOk(mentions)'
  BY <1>2, GrowKeeps DEF Assign, local, IInv, MentionsOk
<1> QED
  BY <1>2, <1>3, <1>4, GrowStep DEF Assign, local, IInv

\* A classification as a bug is a ground and is stored with the row.
LEMMA ClassifyIssueStep ==
  ASSUME IInv, NEW k \in Threads, NEW class \in {"bug", "other"}, ClassifyIssue(k, class)
  PROVE  IInv'
<1>0. PICK num : num = handler[k].num
  OBVIOUS
<1>1. num \in Issues /\ num \in Threads /\ num \notin HumanPulls /\ num \notin BotPulls
  BY <1>0, Agent, ThreadKinds DEF ClassifyIssue, HandlerOk
<1>2. /\ github' = github /\ from' = from /\ pushed' = pushed /\ assigned' = assigned
      /\ rows' = [rows EXCEPT ![num].class = class] /\ rows[num] # None
      /\ grounds' = IF class = "bug" THEN grounds \union {Work(num)} ELSE grounds
  BY <1>0 DEF ClassifyIssue
<1>3. Grows /\ \A t : Exists(t)' <=> Exists(t)
  BY <1>2 DEF Grows, Exists
<1>4. \A q \in HumanPulls : (Head(q) \in Pushable' => Head(q) \in Pushable)
                         /\ (Work(q) \in grounds' => Work(q) \in grounds)
  BY <1>1, <1>2, NamesOfThreads, WhatIsPushable, WhatIsPushableNext
<1>5. HostedOk'
  <2>1. grounds' \subseteq Branches
    BY <1>1, <1>2, NamesOfThreads DEF IInv, HostedOk
  <2>2. \A q \in HumanPulls :
          Exists(q)' /\ (q \in assigned' \/ Head(q) \in Pushable' \/ Work(q) \in grounds'
                           => Granted(q)')
    BY <1>1, <1>2, <1>3, <1>4, WhatIsPushableNext DEF IInv, HostedOk, Granted, Grows
  <2>3. \A q \in BotPulls : IF Exists(q)' THEN from'[q] \in pushed' /\ Work(q) \in grounds'
                                          ELSE from'[q] = None
    BY <1>2, <1>3 DEF IInv, HostedOk
  <2>4. /\ github' \in [Threads -> {"absent", "open", "closed", "merged"}]
        /\ assigned' \subseteq HumanPulls /\ pushed' \subseteq Pushable'
        /\ from' \in [BotPulls -> Branches \union {None}]
        /\ \A u \in Threads : Review(u) \notin pushed'
    BY <1>2, <1>3, WhatIsPushableNext DEF IInv, HostedOk, Grows
  <2> QED
    BY <2>1, <2>2, <2>3, <2>4 DEF HostedOk
<1>6. RowsOk(rows)'
  <2>1. \A t \in Threads : Mine(t)' = Mine(t)
    BY <1>2 DEF Mine, HeadRef
  <2>2. ASSUME NEW t \in Threads, rows[t] # None, t # num
        PROVE  RowOk(t, rows[t])'
    BY <1>1, <1>2, <1>3, <2>1, <2>2 DEF IInv, RowsOk, RowOk, Leads, HeadRef
  <2>3. RowOk(num, rows[num])'
    <3>1. RowOk(num, rows[num])
      BY <1>1, <1>2 DEF IInv, RowsOk
    <3>2. PICK r : r = rows[num]
      OBVIOUS
    <3>3. PICK s : s = [r EXCEPT !.class = class]
      OBVIOUS
    <3>4. s \in Row /\ s.branch = r.branch /\ s.pr = r.pr /\ s.class = class
      BY <3>1, <3>2, <3>3 DEF RowOk, Row
    <3>5. s.pr # None => Leads(s.pr, num)'
      BY <1>2, <1>3, <2>1, <1>1, <3>1, <3>2, <3>4 DEF RowOk, Leads, HeadRef
    <3>6. RowOk(num, s)'
      BY <1>1, <1>2, <2>1, <3>1, <3>2, <3>4, <3>5 DEF RowOk
    <3>7. rows'[num] = s
      BY <1>1, <1>2, <3>2, <3>3 DEF IInv, RowsOk
    <3> QED
      BY <3>6, <3>7
  <2>4. (rows \in [Threads -> Row \union {None}])'
    BY <1>1, <1>2, <2>3 DEF IInv, RowsOk, RowOk
  <2> QED
    BY <1>1, <1>2, <2>2, <2>3, <2>4 DEF IInv, RowsOk
<1>7. (\A e \in events : EventOk(e))' /\ MentionsOk(mentions)'
  BY <1>3, GrowKeeps DEF ClassifyIssue, IInv, MentionsOk
<1> QED
  BY <1>3, <1>5, <1>6, <1>7, GrowStep DEF ClassifyIssue, IInv

-----------------------------------------------------------------------------
(* Publishing                                                                *)

\* What the tools let an agent publish, is pushable: whichever go-ahead they found,
\* its ground is recorded and is about the same branch, a fork's head excepted.
LEMMA PublishGrounded ==
  ASSUME IInv, NEW k \in Threads, AtAgent(k), MayPublish(handler[k])
  PROVE  /\ handler[k].branch \in Pushable
         /\ \A u \in Threads : handler[k].branch # Review(u)
<1> DEFINE h == handler[k]
           t == h.num
<1>1. /\ HandlerOk(h) /\ t \in Threads /\ h.branch \in Mine(t) \ {None}
      /\ h.task # "review" /\ \A u \in Threads : h.branch # Review(u)
  BY Agent DEF HandlerOk, Bound, MayPublish, ReviewMode
<1>2. CASE t \in Issues
  <2>1. h.branch = Work(t)
    BY <1>1, <1>2, MineTyped DEF IInv
  <2>2. CASE h.auth \/ t \in mentions
    BY <1>1, <1>2, <2>1, <2>2, WhatIsPushable DEF HandlerOk, Bound, IInv, MentionsOk
  <2>3. CASE rows[t] # None /\ rows[t].class = "bug"
    BY <1>1, <2>1, <2>3, WhatIsPushable DEF IInv, RowsOk, RowOk
  <2>4. CASE rows[t] # None /\ rows[t].pr # None
    <3>1. PICK p : p = rows[t].pr
      OBVIOUS
    <3>2. p \in Pulls /\ Exists(p) /\ HeadRef(p) = Work(t)
      BY <1>1, <1>2, <2>4, <3>1, MineTyped DEF IInv, RowsOk, RowOk, Row, Leads
    <3>3. p \in BotPulls /\ from[p] = Work(t)
      BY <3>2, NamesOfThreads, ThreadKinds DEF HeadRef
    <3> QED
      BY <2>1, <3>2, <3>3 DEF IInv, HostedOk
  <2> QED
    BY <2>2, <2>3, <2>4 DEF MayPublish, Authorized
<1>3. CASE t \in BotPulls
  BY <1>1, <1>3, MineTyped, WhatIsPushable DEF IInv, HostedOk, HandlerOk, Bound
<1>4. CASE t \in HumanPulls
  BY <1>1, <1>4, MineTyped, WhatIsPushable DEF IInv, HandlerOk, Bound, Granted
<1> QED
  BY <1>1, <1>2, <1>3, <1>4, ThreadKinds

\* git_push keeps the invariant.
LEMMA PushBranchStep ==
  ASSUME IInv, NEW k \in Threads, PushBranch(k)
  PROVE  IInv'
<1>1. /\ github' = github /\ from' = from /\ grounds' = grounds /\ assigned' = assigned
      /\ pushed' = pushed \union {handler[k].branch}
  BY DEF PushBranch
<1>2. handler[k].branch \in Pushable /\ \A u \in Threads : handler[k].branch # Review(u)
  BY PublishGrounded DEF PushBranch
<1>3. Grows
  BY <1>1 DEF Grows, Exists
<1>4. HostedOk'
  BY <1>1, <1>2, WhatIsPushableNext DEF IInv, HostedOk, Exists, Granted
<1>5. RowsOk(rows)' /\ (\A e \in events : EventOk(e))' /\ MentionsOk(mentions)'
  BY <1>3, GrowKeeps DEF PushBranch, local, IInv, MentionsOk
<1> QED
  BY <1>3, <1>4, <1>5, GrowStep DEF PushBranch, local, IInv

\* A pull of the bot's comes to be, on a branch it may publish.  No row, no
\* handler and no tool call was about it before, for its own thread was absent.
LEMMA OpenPullStep ==
  ASSUME IInv, NEW k \in Threads, NEW p \in BotPulls, OpenPull(k, p)
  PROVE  IInv'
<1>0. PICK b, num, ev : b = handler[k].branch /\ num = handler[k].num /\ ev = handler[k].ev
  OBVIOUS
<1>1. /\ p \in Threads /\ p \in Pulls /\ p \notin Issues /\ p \notin HumanPulls
      /\ ~Exists(p) /\ from[p] = None
      /\ github' = [github EXCEPT ![p] = "open"] /\ assigned' = assigned
      /\ from' = [from EXCEPT ![p] = b]
      /\ pushed' = pushed \union {b} /\ grounds' = grounds \union {Work(p)}
  BY <1>0, ThreadKinds DEF OpenPull, Exists, IInv, HostedOk
<1>2. b \in Pushable /\ b \in Branches /\ b # None /\ \A u \in Threads : b # Review(u)
  BY <1>0, PublishGrounded, NamesOfThreads, WhatIsPushable DEF OpenPull, IInv, HostedOk
<1>3. /\ num \in Threads /\ num # p /\ b \in Mine(num) /\ ev \in Events
      /\ num \in BotPulls => Exists(num)
  BY <1>0, <1>1, Agent DEF OpenPull, HandlerOk, Bound, EventOk
<1>4. Exists(p)' /\ \A t \in Threads : t # p => (Exists(t)' <=> Exists(t))
  BY <1>1 DEF IInv, HostedOk, Exists
<1>5. \A t \in Threads : t # p => Mine(t)' = Mine(t) /\ HeadRef(t)' = HeadRef(t)
  BY <1>1 DEF IInv, HostedOk, Mine, HeadRef
<1>6. HeadRef(p)' = b
  BY <1>1 DEF IInv, HostedOk, HeadRef
<1>7. \A q, t : q \in Threads /\ t \in Threads /\ t # p /\ Leads(q, t) => Leads(q, t)'
  BY <1>1, <1>4, <1>5 DEF Leads
<1>8. \A q : Granted(q) => Granted(q)'
  BY <1>1, WhatIsPushableNext DEF Granted
<1>9. HostedOk'
  <2>1. grounds' \subseteq Branches
    BY <1>1, NamesOfThreads DEF IInv, HostedOk
  <2>2. \A q \in HumanPulls :
          Exists(q)' /\ (q \in assigned' \/ Head(q) \in Pushable' \/ Work(q) \in grounds'
                           => Granted(q)')
    <3>1. \A q \in HumanPulls : (Head(q) \in Pushable' => Head(q) \in Pushable)
                             /\ (Work(q) \in grounds' => Work(q) \in grounds)
      BY <1>1, NamesOfThreads, ThreadKinds, WhatIsPushable, WhatIsPushableNext
    <3> QED
      BY <3>1, <1>1, <1>4, <1>8, ThreadKinds DEF IInv, HostedOk
  <2>3. \A q \in BotPulls : IF Exists(q)' THEN from'[q] \in pushed' /\ Work(q) \in grounds'
                                          ELSE from'[q] = None
    <3>1. SUFFICES ASSUME NEW q \in BotPulls
                   PROVE  IF Exists(q)' THEN from'[q] \in pushed' /\ Work(q) \in grounds'
                                        ELSE from'[q] = None
      OBVIOUS
    <3>2. CASE q = p
      BY <1>1, <1>4, <3>2 DEF IInv, HostedOk
    <3>3. CASE q # p
      BY <1>1, <1>4, <3>3, ThreadKinds DEF IInv, HostedOk
    <3> QED
      BY <3>2, <3>3
  <2>4. /\ github' \in [Threads -> {"absent", "open", "closed", "merged"}]
        /\ assigned' \subseteq HumanPulls /\ pushed' \subseteq Pushable'
        /\ from' \in [BotPulls -> Branches \union {None}]
        /\ \A u \in Threads : Review(u) \notin pushed'
    BY <1>1, <1>2, WhatIsPushableNext DEF IInv, HostedOk
  <2> QED
    BY <2>1, <2>2, <2>3, <2>4 DEF HostedOk
<1>10. RowsOk(rows)'
  <2>1. rows' = rows
    BY DEF OpenPull, local
  <2>2. rows[p] = None
    BY <1>1 DEF IInv, RowsOk, RowOk
  <2>3. ASSUME NEW t \in Threads, rows[t] # None
        PROVE  RowOk(t, rows[t])'
    <3>1. RowOk(t, rows[t]) /\ t # p
      BY <2>2, <2>3 DEF IInv, RowsOk
    <3>2. PICK r : r = rows[t]
      OBVIOUS
    <3>3. r.pr # None => Leads(r.pr, t)'
      BY <1>7, <3>1, <3>2, ThreadKinds DEF RowOk, Row
    <3>4. RowOk(t, r)'
      BY <1>1, <1>4, <1>5, <3>1, <3>2, <3>3 DEF RowOk
    <3> QED
      BY <2>1, <3>2, <3>4
  <2> QED
    BY <2>1, <2>3 DEF IInv, RowsOk
<1>11. TreesOk(tree)'
  <2>1. tree' = tree /\ Mine(p) \ {None} \subseteq Mine(p)'
    BY <1>1, NamesOfThreads DEF OpenPull, local, Mine, HeadRef
  <2>2. \A t \in Threads : tree[t] \in Mine(t)' \union {None, Detached}
    BY <1>5, <2>1 DEF IInv, TreesOk
  <2> QED
    BY <2>1, <2>2 DEF IInv, TreesOk
<1>12. \A e : EventOk(e) => EventOk(e)'
  <2>1. SUFFICES ASSUME NEW e, EventOk(e)
                 PROVE  EventOk(e)'
    OBVIOUS
  <2>2. e.on \in Pulls => Exists(e.on)'
    BY <1>4, <2>1, ThreadKinds DEF EventOk
  <2> QED
    BY <1>1, <1>8, <2>1, <2>2 DEF EventOk
<1>13. \A h : HandlerOk(h) => HandlerOk(h)'
  <2>1. SUFFICES ASSUME NEW h, HandlerOk(h)
                 PROVE  HandlerOk(h)'
    OBVIOUS
  <2>2. h.num \in Threads /\ h.num # p
    BY <1>1, <2>1 DEF HandlerOk, Bound
  <2>3. Bound(h.num, h.branch, h.save, h.task, h.auth)'
    BY <1>1, <1>4, <1>5, <1>8, <2>1, <2>2 DEF HandlerOk, Bound
  <2> QED
    BY <1>12, <2>1, <2>3 DEF HandlerOk
<1>14. HandlersOk(handler)'
  <2>1. handler' = [handler EXCEPT ![k].busy = TRUE] /\ handler[k] # None
    BY DEF OpenPull, AtAgent
  <2>2. HandlersOk(handler')
    BY <2>1, BusyOk DEF IInv
  <2>3. \A i \in Threads : handler'[i] # None => HandlerOk(handler'[i])
    BY <2>2 DEF HandlersOk
  <2>4. ASSUME NEW i \in Threads, handler'[i] # None
        PROVE  HandlerOk(handler[i])'
    <3>1. PICK h : h = handler'[i]
      OBVIOUS
    <3>2. HandlerOk(h)'
      BY <1>13, <2>3, <2>4, <3>1
    <3> QED
      BY <3>1, <3>2
  <2> QED
    BY <2>2, <2>4 DEF HandlersOk
<1>15. StraysOk(stray)'
  <2>1. stray' = stray \union {[tool |-> "open", num |-> num, pull |-> p, by |-> ev]}
    BY <1>0 DEF OpenPull
  <2>2. ASSUME NEW s \in stray, s.tool = "open"
        PROVE  Leads(s.pull, s.num)' /\ (s.num \in BotPulls => Exists(s.num)')
    <3>1. PICK q, t : q = s.pull /\ t = s.num
      OBVIOUS
    <3>2. /\ q \in Threads /\ t \in Threads /\ Leads(q, t) /\ (t \in BotPulls => Exists(t))
      BY <2>2, <3>1, ThreadKinds DEF IInv, StraysOk
    <3>3. t # p
      BY <1>1, <3>2
    <3> QED
      BY <1>4, <1>7, <3>1, <3>2, <3>3
  <2>3. Leads(p, num)' /\ (num \in BotPulls => Exists(num)')
    BY <1>3, <1>4, <1>5, <1>6 DEF Leads
  <2>4. stray' \subseteq [tool : {"open", "submit"}, num : Threads, pull : Pulls, by : Events]
    BY <1>1, <1>3, <2>1 DEF IInv, StraysOk
  <2> QED
    BY <2>1, <2>2, <2>3, <2>4 DEF StraysOk
<1>16. (\A e \in events : EventOk(e))'
  BY <1>12 DEF OpenPull, IInv
<1>17. MentionsOk(mentions)'
  BY <1>1 DEF OpenPull, local, IInv, MentionsOk
<1>18. /\ dropped' \subseteq Events /\ staged' \subseteq Threads /\ reviewed' \subseteq Threads
       /\ arrived' \in 0..MaxEvents /\ faults' \in 0..MaxFaults
  BY DEF OpenPull, local, IInv
<1> QED
  BY <1>9, <1>10, <1>11, <1>14, <1>15, <1>16, <1>17, <1>18 DEF IInv

-----------------------------------------------------------------------------
(* The invariant                                                             *)

\* At first there is nothing but contributors' pulls.
LEMMA IInvHoldsAtFirst == Init => IInv
<1>1. SUFFICES ASSUME Init PROVE IInv
  OBVIOUS
<1>2. HostedOk
  BY <1>1, ThreadKinds DEF Init, HostedOk, Exists, Granted, Pushable, ForkHeads
<1>3. RowsOk(rows) /\ TreesOk(tree) /\ HandlersOk(handler)
  BY <1>1 DEF Init, RowsOk, TreesOk, HandlersOk
<1>4. StraysOk(stray) /\ MentionsOk(mentions)
  BY <1>1 DEF Init, StraysOk, MentionsOk
<1> QED
  BY <1>1, <1>2, <1>3, <1>4, LifecycleAssumption DEF Init, IInv

\* The steps of Next, one lemma for each disjunct.
LEMMA WebhookStep == IInv /\ Webhook => IInv'
<1>1. SUFFICES ASSUME IInv, Webhook PROVE IInv'
  OBVIOUS
<1>2. CASE \E i \in Issues : IssueOpened(i)
  BY <1>1, <1>2, IssueOpenedStep
<1>3. CASE \E i \in Issues, says \in Bodies : IssueComment(i, says)
  BY <1>1, <1>3, IssueCommentStep
<1>4. CASE \E p \in Pulls, says \in Bodies : PullComment(p, says) \/ ReviewComment(p, says)
  BY <1>1, <1>4, PullCommentStep, ReviewCommentStep
<1>5. CASE \E p \in Pulls : ReviewRequested(p) \/ Assign(p) \/ Unassign(p)
  BY <1>1, <1>5, ReviewRequestedStep, AssignStep, UnassignStep
<1>6. CASE \E t \in Threads, how \in {"closed", "merged"} : ThreadClosed(t, how)
  BY <1>1, <1>6, ThreadClosedStep
<1> QED
  BY <1>1, <1>2, <1>3, <1>4, <1>5, <1>6 DEF Webhook

\* Each handler, at its dispatch.
LEMMA DispatchKeeps == IInv /\ Dispatch => IInv'
<1>1. SUFFICES ASSUME IInv, Dispatch PROVE IInv'
  OBVIOUS
<1>2. PICK e \in events :
        \/ TriageIssue(e) \/ ReviewPr(e) \/ HandleComment(e) \/ HandleReview(e)
        \/ HandlePrConversation(e) \/ CleanupWorkspace(e) \/ RevokePrAssignment(e)
  BY <1>1 DEF Dispatch
<1> QED
  BY <1>1, <1>2, TriageIssueStep, ReviewPrStep, HandleCommentStep, HandleReviewStep,
     HandlePrConversationStep, CleanupWorkspaceStep, RevokePrAssignmentStep

\* The tool that closes an issue is one more closure.
LEMMA CloseIssueStep ==
  ASSUME IInv, NEW k \in Threads, CloseIssue(k)
  PROVE  IInv'
BY Agent, ThreadClosedStep DEF CloseIssue

\* Each tool.
LEMMA ToolStep == IInv /\ Tool => IInv'
<1>1. SUFFICES ASSUME IInv, Tool PROVE IInv'
  OBVIOUS
<1>2. CASE \E k \in Threads, class \in {"bug", "other"} : ClassifyIssue(k, class)
  BY <1>1, <1>2, ClassifyIssueStep
<1>3. CASE \E k \in Threads, p \in BotPulls : OpenPull(k, p)
  BY <1>1, <1>3, OpenPullStep
<1>4. ASSUME NEW k \in Threads,
             \/ ClassifyPr(k) \/ PushBranch(k) \/ SubmitReview(k) \/ StageComment(k)
             \/ MarkUnable(k) \/ ReproRecord(k) \/ AbortTask(k) \/ CloseIssue(k)
      PROVE  IInv'
  BY <1>1, <1>4, ClassifyPrStep, PushBranchStep, SubmitReviewStep, StageCommentStep,
     SetStateSteps, CloseIssueStep
<1>5. CASE \E s \in stray : RecordPull(s) \/ RecordReview(s)
  BY <1>1, <1>5, RecordPullStep, RecordReviewStep
<1> QED
  BY <1>1, <1>2, <1>3, <1>4, <1>5 DEF Tool

\* Set-ups, failures and ends of turns.
LEMMA RunStep == IInv /\ Run => IInv'
BY PrepareStep, FailStep, EndTurnStep DEF Run

\* No step at all.
LEMMA StutterStep == IInv /\ UNCHANGED vars => IInv'
<1>1. SUFFICES ASSUME IInv, UNCHANGED vars PROVE IInv'
  OBVIOUS
<1> QED
  BY <1>1, LocalStep DEF vars, local, IInv

\* Every step keeps the invariant.
LEMMA IInvKept == IInv /\ [Next]_vars => IInv'
<1>1. SUFFICES ASSUME IInv, [Next]_vars PROVE IInv'
  OBVIOUS
<1>2. CASE \E e \in events : FailCleanup(e)
  BY <1>1, <1>2, FailCleanupStep
<1> QED
  BY <1>1, <1>2, WebhookStep, DispatchKeeps, RunStep, ToolStep, CrashStep, StutterStep DEF Next

\* The ownership invariant holds throughout.
LEMMA IInvHolds == Spec => []IInv
BY IInvHoldsAtFirst, IInvKept, PTL DEF Spec

\* Rows, worktrees, deliveries, handlers and unfinished tool calls keep their
\* types: whatever row and worktree a delivery is resumed with, the branch its
\* agent works on is a branch (ensure_workspace, upsert_issue), never none.
THEOREM LifecycleTypeOK == Spec => []TypeOK
<1>1. IInv => TypeOK
  BY WhatIsPushable
     DEF IInv, HostedOk, RowsOk, TreesOk, EventOk, HandlersOk, StraysOk, MentionsOk, TypeOK
<1> QED
  BY <1>1, IInvHolds, PTL

\* What the bot pushes (git_push, gh_open_pr) it was given a reason to push: the
\* issue was classified as a bug, an owner gave a go-ahead on it, the
\* contributor's pull was once assigned to the bot, or the pull is its own.  What
\* is left out is the branch with the name of a fork's head, after the bot was
\* assigned to the fork's pull (_resolve_issue_row_for_pr).
THEOREM LifecyclePushHasGrounds == Spec => []PushHasGrounds
<1>1. IInv => PushHasGrounds
  BY DEF IInv, HostedOk, PushHasGrounds, Pushable
<1> QED
  BY <1>1, IInvHolds, PTL

-----------------------------------------------------------------------------
(* The order in which deliveries are claimed, for the threads whose          *)
(* deliveries are all filed under the thread itself: all issues, and the     *)
(* contributors' pulls as long as no row of another pull names their branch. *)

Busy == {k \in Threads : handler[k] # None}

\* Deliveries that wait, and those that are handled.
Outstanding == events \union {handler[k].ev : k \in Busy}

Placed(e, S) == e.n <= arrived /\ (e.on \in S => e.key = e.on)

Closing == {"closed", "merged", "unassigned"}
Amends(e) == e.kind = "reviewComment" \/ (e.kind = "pullComment" /\ e.says.body # "review")

OwnTurn(k, h, S) ==
  /\ h.ev.key = k /\ h.ev.kind \notin Closing
  /\ h.ev.on \in S => h.num = h.ev.on
  /\ h.ev.on \in S \ Issues /\ h.task # "review" => Amends(h.ev)

\* A first attempt of the kind is still to come, behind the delivery.
Behind(e, kind) ==
  \E c \in events : c.kind = kind /\ c.on = e.on /\ c.attempts = 0 /\ c.n > e.n

\* Why a delivery at its first attempt may go ahead: the issue is open, or the pull
\* is the bot's to amend, or the word that it is not any more is behind it.
Excused(e, S) ==
  /\ e.kind = "triage" => github[e.on] = "open" \/ Behind(e, "closed")
  /\ e.on \in S \ Issues /\ Amends(e) =>
       \/ e.on \in assigned \/ Behind(e, "unassigned")
       \/ \E c \in dropped : c.kind = "unassigned" /\ c.on = e.on

OrderInv(S) ==
  /\ \A k \in Busy : OwnTurn(k, handler[k], S)
  /\ \A e \in Outstanding : Placed(e, S) /\ (e.attempts = 0 => Excused(e, S))

Apart(S) ==
  /\ Issues \subseteq S /\ S \subseteq Issues \union HumanPulls
  /\ S = Issues \/ \A q \in BotPulls : rows[q] = None

\* What is outstanding is a delivery.
LEMMA OutstandingTyped ==
  ASSUME IInv
  PROVE  /\ \A e \in Outstanding : EventOk(e) /\ e \in Events
         /\ \A e \in Events : e.n \in Nat /\ e.attempts \in Nat
         /\ arrived \in Nat
<1>1. \A e \in Outstanding : EventOk(e)
  BY DEF IInv, Outstanding, Busy, HandlersOk, HandlerOk
<1>2. \A e \in Events : e.n \in Nat /\ e.attempts \in Nat
  BY LifecycleAssumption DEF Events
<1> QED
  BY <1>1, <1>2 DEF EventOk, IInv

\* A contributor's pull leads to its own row only, while the bot's pulls have none.
LEMMA LeadsHome ==
  ASSUME HostedOk, NEW p \in HumanPulls, NEW t \in Threads \ BotPulls, Leads(p, t)
  PROVE  t = p
<1>1. HeadRef(p) = Head(p) /\ Head(p) \in Mine(t)
  BY DEF HeadRef, Leads
<1>2. t \notin Issues
  BY <1>1, MineTyped, NamesOfThreads
<1>3. CASE t \in HumanPulls
  BY <1>1, <1>3, MineTyped, NamesOfThreads
<1> QED
  BY <1>2, <1>3, ThreadKinds

\* Deliveries about these threads are filed under the thread.
LEMMA KeysAreThreads ==
  ASSUME IInv, NEW S, Apart(S), NEW p \in Pulls \intersect S, NEW k \in PullKeys(p)
  PROVE  k = p
<1>1. p \in HumanPulls /\ p \in Threads /\ p # None /\ S # Issues
  BY ThreadKinds, NamesOfThreads DEF Apart
<1>2. CASE RowsOfPull(rows, p) = {}
  BY <1>1, <1>2 DEF PullKeys
<1>3. CASE RowsOfPull(rows, p) # {}
  <2>1. k \in Threads /\ rows[k] # None /\ rows[k].pr = p
    BY <1>3 DEF PullKeys, RowsOfPull
  <2>2. k \notin BotPulls /\ Leads(p, k)
    BY <1>1, <2>1 DEF Apart, IInv, RowsOk, RowOk
  <2> QED
    BY <1>1, <2>1, <2>2, LeadsHome DEF IInv
<1> QED
  BY <1>2, <1>3

\* A closure, or the end of an assignment, does not overtake what is ahead of it.
LEMMA NotOvertaken ==
  ASSUME IInv, NEW S, Apart(S), OrderInv(S),
         NEW e \in Outstanding, e.attempts = 0, e.on \in S,
         NEW c \in events, c.on = e.on, c.attempts = 0, c.n > e.n
  PROVE  ~Claimable(c)
<1>1. c \in Outstanding /\ e.key = e.on /\ c.key = c.on
  BY DEF Outstanding, OrderInv, Placed
<1>2. CASE e \in events
  <2>1. ~(c.n <= e.n)
    BY <1>1, OutstandingTyped
  <2> QED
    BY <1>1, <1>2, <2>1 DEF Claimable
<1>3. CASE \E k \in Busy : e = handler[k].ev
  BY <1>1, <1>3 DEF OrderInv, OwnTurn, Claimable, Busy
<1> QED
  BY <1>2, <1>3 DEF Outstanding

\* A step that brings no delivery and closes nothing: what was excused still is.
LEMMA ExcuseKept ==
  ASSUME IInv, NEW S, Apart(S), OrderInv(S),
         \A t \in Issues : github[t] = "open" => github'[t] = "open",
         assigned' = assigned, dropped \subseteq dropped',
         \A c \in events : c.kind \in Closing /\ ~Claimable(c) => c \in events',
         NEW e \in Outstanding, e.attempts = 0
  PROVE  Excused(e, S)'
<1>0. Excused(e, S) /\ EventOk(e)
  BY OutstandingTyped DEF OrderInv
<1>1. \A kind \in Closing : e.on \in S /\ Behind(e, kind) => Behind(e, kind)'
  BY NotOvertaken DEF Behind
<1>2. e.kind = "triage" => e.on \in Issues /\ e.on \in S
  BY <1>0 DEF EventOk, Apart
<1> QED
  BY <1>0, <1>1, <1>2 DEF Excused, Closing

\* So a step that brings no delivery, closes nothing and starts no handler keeps
\* the order.
LEMMA OrderKept ==
  ASSUME IInv, NEW S, Apart(S), OrderInv(S),
         \A t \in Issues : github[t] = "open" => github'[t] = "open",
         assigned' = assigned, dropped \subseteq dropped', arrived' = arrived,
         \A c \in events : c.kind \in Closing /\ ~Claimable(c) => c \in events',
         \A k \in Busy' : OwnTurn(k, handler'[k], S),
         \A e \in Outstanding' :
           \/ e \in Outstanding
           \/ e.attempts # 0 /\ \E d \in Outstanding : e.n = d.n /\ e.on = d.on /\ e.key = d.key
  PROVE  OrderInv(S)'
<1>1. ASSUME NEW e \in Outstanding'
      PROVE  Placed(e, S)' /\ (e.attempts = 0 => Excused(e, S)')
  <2>1. CASE e \in Outstanding
    BY <2>1, ExcuseKept DEF OrderInv, Placed
  <2>2. CASE e.attempts # 0 /\ \E d \in Outstanding : e.n = d.n /\ e.on = d.on /\ e.key = d.key
    BY <2>2 DEF OrderInv, Placed
  <2> QED
    BY <1>1, <2>1, <2>2
<1>2. \A k \in Busy' : OwnTurn(k, handler[k], S)'
  BY DEF OwnTurn
<1> QED
  BY <1>1, <1>2 DEF OrderInv

\* A delivery arrives, and what it says of the thread is so.
LEMMA ArrivalKeepsOrder ==
  ASSUME IInv, NEW S, Apart(S), OrderInv(S), NEW t, NEW kind, NEW under, NEW says,
         Queue(kind, t, under, says), t \in S => under = t,
         \A i \in Issues : github[i] = "open" => github'[i] = "open" \/ (kind = "closed" /\ t = i),
         \A p \in assigned : p \in assigned' \/ (kind = "unassigned" /\ t = p),
         kind = "triage" => github'[t] = "open",
         /\ t \in S \ Issues
         /\ kind = "reviewComment" \/ (kind = "pullComment" /\ says.body # "review")
         => t \in assigned'
  PROVE  OrderInv(S)'
<1>1. PICK new : /\ events' = events \union {new} /\ new.attempts = 0 /\ new.n = arrived + 1
                 /\ new.kind = kind /\ new.on = t /\ new.key = under /\ new.says = says
  <2> DEFINE it == [n |-> arrived + 1, kind |-> kind, on |-> t, key |-> under, says |-> says,
                    attempts |-> 0]
  <2>1. events' = events \union {it}
    BY DEF Queue
  <2>2. it.attempts = 0 /\ it.n = arrived + 1 /\ it.kind = kind /\ it.on = t /\ it.key = under
        /\ it.says = says
    OBVIOUS
  <2> QED
    BY <2>1, <2>2
<1>2. arrived' = arrived + 1 /\ handler' = handler /\ dropped' = dropped
  BY DEF Queue
<1>3. Outstanding' = Outstanding \union {new} /\ Busy' = Busy
  BY <1>1, <1>2 DEF Outstanding, Busy
<1>4. ASSUME NEW e \in Outstanding
      PROVE  Placed(e, S)' /\ (e.attempts = 0 => Excused(e, S)')
  <2>1. EventOk(e) /\ e.n \in Nat /\ arrived \in Nat /\ e.n <= arrived
    BY OutstandingTyped DEF OrderInv, Placed
  <2>2. Placed(e, S)'
    BY <1>2, <2>1 DEF OrderInv, Placed
  <2>3. \A k : Behind(e, k) => Behind(e, k)'
    BY <1>1 DEF Behind
  <2>4. e.on = t => Behind(e, kind)'
    BY <1>1, <1>2, <2>1 DEF Behind
  <2>5. e.kind = "triage" => e.on \in Issues
    BY <2>1 DEF EventOk
  <2>6. ASSUME e.attempts = 0
        PROVE  Excused(e, S)'
    <3>1. Excused(e, S)
      BY <2>6 DEF OrderInv
    <3>2. (e.kind = "triage" => github[e.on] = "open" \/ Behind(e, "closed"))'
      BY <2>3, <2>4, <2>5, <3>1 DEF Excused
    <3>3. (e.on \in S \ Issues /\ Amends(e) =>
             \/ e.on \in assigned \/ Behind(e, "unassigned")
             \/ \E c \in dropped : c.kind = "unassigned" /\ c.on = e.on)'
      BY <1>2, <2>3, <2>4, <3>1 DEF Excused
    <3> QED
      BY <3>2, <3>3 DEF Excused
  <2> QED
    BY <2>2, <2>6
<1>5. Placed(new, S)' /\ Excused(new, S)'
  <2>1. arrived' \in Nat /\ arrived' <= arrived' /\ new.n = arrived'
    BY <1>1, <1>2, OutstandingTyped
  <2>2. Placed(new, S)'
    BY <1>1, <2>1 DEF Placed
  <2>3. Excused(new, S)'
    BY <1>1 DEF Excused, Amends
  <2> QED
    BY <2>2, <2>3
<1>6. (\A k \in Busy : OwnTurn(k, handler[k], S))'
  BY <1>2, <1>3 DEF OrderInv, OwnTurn
<1> QED
  BY <1>3, <1>4, <1>5, <1>6 DEF OrderInv

\* So does the closing of a thread, by people or by the agent.
LEMMA ThreadClosedOrder ==
  ASSUME IInv, NEW S, Apart(S), OrderInv(S), NEW t \in Threads, NEW how \in {"closed", "merged"},
         ThreadClosed(t, how)
  PROVE  OrderInv(S)'
<1>1. PICK under \in (IF t \in Pulls THEN PullKeys(t) ELSE {t}) : Queue(how, t, under, Silent)
  BY DEF ThreadClosed
<1>2. t \in S => under = t
  BY <1>1, KeysAreThreads
<1>3. /\ \A i \in Issues : github[i] = "open" => github'[i] = "open" \/ (how = "closed" /\ t = i)
      /\ assigned' = assigned
  BY ThreadKinds DEF ThreadClosed, IInv, HostedOk
<1> QED
  BY <1>1, <1>2, <1>3, ArrivalKeepsOrder

\* The webhooks keep the order.
LEMMA WebhookOrder ==
  ASSUME IInv, NEW S, Apart(S), OrderInv(S), Webhook
  PROVE  OrderInv(S)'
<1>0. /\ Issues \subseteq S /\ \A t \in S \ Issues : t \in HumanPulls /\ t \in Pulls
      /\ assigned \subseteq HumanPulls
      /\ github \in [Threads -> {"absent", "open", "closed", "merged"}]
      /\ Issues \subseteq Threads /\ Pulls \subseteq Threads
  BY ThreadKinds DEF Apart, IInv, HostedOk
<1>1. ASSUME NEW i \in Issues, IssueOpened(i)
      PROVE  OrderInv(S)'
  <2>1. Queue("triage", i, i, Silent) /\ github'[i] = "open" /\ assigned' = assigned
        /\ \A j \in Issues : github[j] = "open" => github'[j] = "open"
    BY <1>0, <1>1 DEF IssueOpened
  <2> QED
    BY <2>1, ArrivalKeepsOrder
<1>2. ASSUME NEW i \in Issues, NEW says \in Bodies, IssueComment(i, says)
      PROVE  OrderInv(S)'
  BY <1>2, ArrivalKeepsOrder DEF IssueComment
<1>3. ASSUME NEW p \in Pulls, NEW says \in Bodies, PullComment(p, says)
      PROVE  OrderInv(S)'
  <2>1. PICK under \in (IF Ours(p) THEN PullKeys(p) ELSE {p}) : Queue("pullComment", p, under, says)
    BY <1>3 DEF PullComment
  <2>2. p \in S => under = p
    BY <2>1, KeysAreThreads
  <2>3. p \in S \ Issues /\ says.body # "review" => p \in assigned
    BY <1>0, <1>3, ThreadKinds DEF PullComment, Ours
  <2> QED
    BY <1>3, <2>1, <2>2, <2>3, ArrivalKeepsOrder DEF PullComment
<1>4. ASSUME NEW p \in Pulls, NEW says \in Bodies, ReviewComment(p, says)
      PROVE  OrderInv(S)'
  <2>1. PICK under \in PullKeys(p) : Queue("reviewComment", p, under, says)
    BY <1>4 DEF ReviewComment
  <2>2. p \in S => under = p
    BY <2>1, KeysAreThreads
  <2>3. p \in S \ Issues => p \in assigned
    BY <1>0, <1>4, ThreadKinds DEF ReviewComment, Ours
  <2> QED
    BY <1>4, <2>1, <2>2, <2>3, ArrivalKeepsOrder DEF ReviewComment
<1>5. ASSUME NEW p \in Pulls, ReviewRequested(p)
      PROVE  OrderInv(S)'
  BY <1>5, ArrivalKeepsOrder DEF ReviewRequested
<1>6. ASSUME NEW p \in Pulls, Assign(p)
      PROVE  OrderInv(S)'
  <2>1. /\ github' = github /\ assigned \subseteq assigned' /\ events' = events
        /\ handler' = handler /\ dropped' = dropped /\ arrived' = arrived
    BY <1>6 DEF Assign
  <2> QED
    BY <2>1 DEF OrderInv, Outstanding, Busy, Placed, Excused, Behind, OwnTurn
<1>7. ASSUME NEW p \in Pulls, Unassign(p)
      PROVE  OrderInv(S)'
  <2>1. Queue("unassigned", p, p, Silent) /\ assigned' = assigned \ {p} /\ github' = github
    BY <1>7 DEF Unassign
  <2> QED
    BY <2>1, ArrivalKeepsOrder
<1>8. ASSUME NEW t \in Threads, NEW how \in {"closed", "merged"}, ThreadClosed(t, how)
      PROVE  OrderInv(S)'
  BY <1>8, ThreadClosedOrder
<1> QED
  BY <1>1, <1>2, <1>3, <1>4, <1>5, <1>6, <1>7, <1>8 DEF Webhook

\* A handler is entered in turn, for the thread the delivery is about.
Entered(e, S) ==
  \E num, branch, save, task, auth, isPull :
    /\ Enter(e, num, branch, save, task, auth, isPull)
    /\ e.on \in S => num = e.on
    /\ e.on \in S \ Issues /\ task # "review" => Amends(e)

\* A dispatch keeps the order.
LEMMA ClaimKeepsOrder ==
  ASSUME IInv, NEW S, Apart(S), OrderInv(S), NEW e \in events, Claimable(e),
         untouched' = untouched, Done(e) \/ (e.kind \notin Closing /\ Entered(e, S))
  PROVE  OrderInv(S)'
<1>1. /\ events' = events \ {e} /\ github' = github /\ assigned' = assigned
      /\ dropped' = dropped /\ arrived' = arrived
  BY DEF Done, Entered, Enter, untouched, hosted
<1>2. e.key \in Threads /\ handler \in [Threads -> Handler \union {None}] /\ handler[e.key] = None
  BY DEF IInv, EventOk, Events, HandlersOk, Claimable
<1>3. CASE Done(e)
  <2>1. Busy' = Busy /\ Outstanding' \subseteq Outstanding /\ handler' = handler
    BY <1>1, <1>3 DEF Done, Busy, Outstanding
  <2>2. \A k \in Busy' : OwnTurn(k, handler'[k], S)
    BY <2>1 DEF OrderInv
  <2> QED
    BY <1>1, <2>1, <2>2, OrderKept
<1>4. CASE e.kind \notin Closing /\ Entered(e, S)
  <2>1. PICK num, branch, save, task, auth, isPull :
          /\ Enter(e, num, branch, save, task, auth, isPull)
          /\ e.on \in S => num = e.on
          /\ e.on \in S \ Issues /\ task # "review" => Amends(e)
    BY <1>4 DEF Entered
  <2>2. PICK h : /\ handler' = [handler EXCEPT ![e.key] = h]
                 /\ h.ev = e /\ h.num = num /\ h.task = task
    <3> DEFINE it == [ev |-> e, at |-> "setup", num |-> num, branch |-> branch, save |-> save,
                      task |-> task, auth |-> auth, isPull |-> isPull, busy |-> FALSE]
    <3>1. handler' = [handler EXCEPT ![e.key] = it]
      BY <2>1 DEF Enter
    <3>2. it.ev = e /\ it.num = num /\ it.task = task
      OBVIOUS
    <3> QED
      BY <3>1, <3>2
  <2>3. handler'[e.key] = h /\ \A k \in Threads \ {e.key} : handler'[k] = handler[k]
    BY <1>2, <2>2
  <2>4. \A k \in Busy' : OwnTurn(k, handler'[k], S)
    BY <1>4, <2>1, <2>2, <2>3 DEF Busy, OwnTurn, OrderInv
  <2>5. Outstanding' \subseteq Outstanding
    BY <1>1, <1>2, <2>2, <2>3 DEF Outstanding, Busy
  <2> QED
    BY <1>1, <2>4, <2>5, OrderKept
<1> QED
  BY <1>3, <1>4

\* The row a delivery about one of these pulls is resolved to is its own.
LEMMA ResolvesHome ==
  ASSUME IInv, NEW S, Apart(S), NEW p \in Pulls, Exists(p), NEW fetched \in BOOLEAN,
         NEW found \in ResolveRow(p, fetched), found[1] # None, p \in S
  PROVE  found[1] = p
<1>1. p \in HumanPulls /\ S # Issues
  BY ThreadKinds DEF Apart
<1>2. found[1] \in Threads /\ Leads(p, found[1])
  BY ResolveOk DEF IInv
<1>3. rows[found[1]] # None
  BY DEF ResolveRow, RowsOfPull, RowsOfBranch
<1> QED
  BY <1>1, <1>2, <1>3, LeadsHome DEF Apart, IInv

\* A pull is resumed in the workspace of the row that was found, if at all.
LEMMA ResumedOrDone ==
  ASSUME NEW e, NEW t, NEW r, NEW fetched, ResumePull(e, t, r, fetched)
  PROVE  Done(e) \/ \E branch, save, task, auth, isPull :
                       Enter(e, t, branch, save, task, auth, isPull)
<1> DEFINE goes(branch, save, auth) == EnterIfAnswered(e, t, branch, save, "comment", auth, TRUE)
<1>1. Done(e) \/ \E branch, save, auth : goes(branch, save, auth)
  BY DEF ResumePull
<1>2. ASSUME NEW branch, NEW save, NEW auth, goes(branch, save, auth)
      PROVE  Done(e) \/ Enter(e, t, branch, save, "comment", auth, TRUE)
  BY <1>2 DEF EnterIfAnswered
<1> QED
  BY <1>1, <1>2

\* The handlers keep the order.
LEMMA DispatchOrder ==
  ASSUME IInv, NEW S, Apart(S), OrderInv(S), Dispatch
  PROVE  OrderInv(S)'
<1>0. PICK e \in events :
        \/ TriageIssue(e) \/ ReviewPr(e) \/ HandleComment(e) \/ HandleReview(e)
        \/ HandlePrConversation(e) \/ CleanupWorkspace(e) \/ RevokePrAssignment(e)
  BY DEF Dispatch
<1>1. EventOk(e)
  BY DEF IInv
<1>2. Issues \subseteq S /\ \A t \in Issues : t \notin Pulls
  BY ThreadKinds DEF Apart
<1>3. Claimable(e) /\ untouched' = untouched
  BY <1>0 DEF TriageIssue, ReviewPr, HandleComment, HandleReview, HandlePrConversation,
     CleanupWorkspace, RevokePrAssignment
<1>4. CASE TriageIssue(e)
  <2>1. Done(e) \/ Enter(e, e.on, Work(e.on), "reproducing", "triage", FALSE, FALSE)
    BY <1>4 DEF TriageIssue
  <2>2. e.on \in Issues /\ e.kind \notin Closing
    BY <1>1, <1>4 DEF TriageIssue, EventOk, Closing
  <2> QED
    BY <1>3, <2>1, <2>2, ClaimKeepsOrder DEF Entered
<1>5. CASE ReviewPr(e)
  <2>1. Done(e) \/ \E auth : Enter(e, e.on, Review(e.on), "reviewing", "review", auth, TRUE)
    BY <1>5 DEF ReviewPr
  <2>2. e.kind \notin Closing
    BY <1>5 DEF ReviewPr, Closing
  <2> QED
    BY <1>3, <2>1, <2>2, ClaimKeepsOrder DEF Entered
<1>6. CASE HandleComment(e)
  <2>1. Done(e) \/ \E branch, save, task, auth : Enter(e, e.on, branch, save, task, auth, FALSE)
    BY <1>6 DEF HandleComment
  <2>2. e.on \in Issues /\ e.kind \notin Closing
    BY <1>1, <1>6 DEF HandleComment, EventOk, Closing
  <2> QED
    BY <1>3, <2>1, <2>2, ClaimKeepsOrder DEF Entered
<1>7. CASE HandleReview(e)
  <2>1. e.on \in Pulls /\ Exists(e.on) /\ e.kind \notin Closing /\ Amends(e)
    BY <1>1, <1>7 DEF HandleReview, EventOk, Closing, Amends
  <2>2. PICK found \in ResolveRow(e.on, TRUE) \union ResolveRow(e.on, FALSE) :
          \/ Done(e)
          \/ \E branch, save, task, auth, isPull :
               Enter(e, e.on, branch, save, task, auth, isPull)
          \/ /\ found[1] # None
             /\ \E branch, save, task, auth, isPull :
                  Enter(e, found[1], branch, save, task, auth, isPull)
    BY <1>7 DEF HandleReview, EnterIfAnswered
  <2>3. found[1] # None /\ e.on \in S => found[1] = e.on
    BY <2>1, <2>2, ResolvesHome
  <2> QED
    BY <1>3, <2>1, <2>2, <2>3, ClaimKeepsOrder DEF Entered
<1>8. CASE HandlePrConversation(e)
  <2>1. e.on \in Pulls /\ Exists(e.on) /\ e.kind \notin Closing /\ Amends(e)
    BY <1>1, <1>8 DEF HandlePrConversation, EventOk, Closing, Amends
  <2>2. PICK found \in ResolveRow(e.on, TRUE) \union ResolveRow(e.on, FALSE) :
          \/ Done(e)
          \/ \E branch, save, task, auth, isPull :
               Enter(e, e.on, branch, save, task, auth, isPull)
          \/ /\ found[1] # None
             /\ \E branch, save, task, auth, isPull :
                  Enter(e, found[1], branch, save, task, auth, isPull)
    <3>1. PICK fetched \in BOOLEAN :
            \E found \in ResolveRow(e.on, fetched) :
              IF found[1] # None THEN ResumePull(e, found[1], found[2], fetched)
              ELSE \/ Done(e)
                   \/ \E auth : Enter(e, e.on, HeadRef(e.on), "opened", "comment", auth, TRUE)
      BY <1>8 DEF HandlePrConversation, EnterIfAnswered
    <3> QED
      BY <3>1, ResumedOrDone
  <2>3. found[1] # None /\ e.on \in S => found[1] = e.on
    BY <2>1, <2>2, ResolvesHome
  <2> QED
    BY <1>3, <2>1, <2>2, <2>3, ClaimKeepsOrder DEF Entered
<1>9. CASE CleanupWorkspace(e) \/ RevokePrAssignment(e)
  BY <1>3, <1>9, ClaimKeepsOrder DEF CleanupWorkspace, RevokePrAssignment
<1> QED
  BY <1>0, <1>4, <1>5, <1>6, <1>7, <1>8, <1>9

\* A handler goes on, or ends.
LEMMA GoingOnKeepsOrder ==
  ASSUME IInv, NEW S, Apart(S), OrderInv(S),
         \A t \in Issues : github[t] = "open" => github'[t] = "open",
         assigned' = assigned, dropped' = dropped, arrived' = arrived, events' = events,
         \A k \in Busy' : k \in Busy /\ handler'[k].ev = handler[k].ev
                          /\ handler'[k].num = handler[k].num
                          /\ handler'[k].task = handler[k].task
  PROVE  OrderInv(S)'
<1>1. Outstanding' \subseteq Outstanding
  BY DEF Outstanding
<1>2. \A k \in Busy' : OwnTurn(k, handler'[k], S)
  BY DEF OrderInv, OwnTurn
<1> QED
  BY <1>1, <1>2, OrderKept

\* One handler changes neither its delivery nor its thread nor its task.
LEMMA ChangedHandler ==
  ASSUME HandlersOk(handler), NEW k \in Threads, handler[k] # None, NEW h,
         h.ev = handler[k].ev, h.num = handler[k].num, h.task = handler[k].task,
         handler' = [handler EXCEPT ![k] = h]
  PROVE  \A x \in Busy' : x \in Busy /\ handler'[x].ev = handler[x].ev
                          /\ handler'[x].num = handler[x].num
                          /\ handler'[x].task = handler[x].task
BY DEF HandlersOk, Busy

\* One handler ends.
LEMMA EndedHandler ==
  ASSUME HandlersOk(handler), NEW k \in Threads, handler' = [handler EXCEPT ![k] = None]
  PROVE  \A x \in Busy' : x \in Busy /\ handler'[x] = handler[x]
BY DEF HandlersOk, Busy

\* A tool that returns frees its handler, if that is still there.
LEMMA ReturnedHandlers ==
  ASSUME HandlersOk(handler), NEW s, Returned(s)
  PROVE  \A x \in Busy' : x \in Busy /\ handler'[x].ev = handler[x].ev
                          /\ handler'[x].num = handler[x].num
                          /\ handler'[x].task = handler[x].task
<1>1. \A x \in Threads : handler'[x] \in {handler[x], [handler[x] EXCEPT !.busy = FALSE]}
      /\ (handler[x] = None => handler'[x] = None)
  BY DEF Returned
<1>2. \A x \in Threads : handler[x] # None =>
        LET h == [handler[x] EXCEPT !.busy = FALSE]
        IN h.ev = handler[x].ev /\ h.num = handler[x].num /\ h.task = handler[x].task
  BY DEF HandlersOk, Handler
<1> QED
  BY <1>1, <1>2 DEF Busy

\* A delivery that is given back is not a first attempt any more.
LEMMA GivenBackOrder ==
  ASSUME IInv, NEW e \in Outstanding, GiveBack(e)
  PROVE  /\ dropped \subseteq dropped' /\ events \ {e} \subseteq events'
         /\ \A x \in events' : \/ x \in events
                               \/ x.attempts # 0 /\ x.n = e.n /\ x.on = e.on /\ x.key = e.key
<1>1. e \in Events /\ e.attempts \in Nat
  BY OutstandingTyped
<1> DEFINE it == [e EXCEPT !.attempts = @ + 1]
<1>2. it.attempts # 0 /\ it.n = e.n /\ it.on = e.on /\ it.key = e.key
  BY <1>1 DEF Events
<1> HIDE DEF it
<1>3. events' = (events \ {e}) \union {it} \/ events' = events \ {e}
  BY DEF GiveBack, it
<1> QED
  BY <1>2, <1>3 DEF GiveBack

\* A turn or a clean-up that fails keeps the order.
LEMMA FailOrder ==
  ASSUME IInv, NEW S, Apart(S), OrderInv(S),
         NEW e \in Outstanding, GiveBack(e), Claimable(e) \/ e.kind \notin Closing,
         hosted' = hosted, arrived' = arrived,
         \A k \in Busy' : k \in Busy /\ handler'[k] = handler[k]
  PROVE  OrderInv(S)'
<1>1. /\ github' = github /\ assigned' = assigned
      /\ \A k \in Busy' : OwnTurn(k, handler'[k], S)
  BY DEF hosted, OrderInv
<1>2. /\ dropped \subseteq dropped'
      /\ \A c \in events : c.kind \in Closing /\ ~Claimable(c) => c \in events'
  BY GivenBackOrder
<1>3. \A x \in Outstanding' :
        \/ x \in Outstanding
        \/ x.attempts # 0 /\ \E d \in Outstanding : x.n = d.n /\ x.on = d.on /\ x.key = d.key
  BY GivenBackOrder DEF Outstanding
<1> QED
  BY <1>1, <1>2, <1>3, OrderKept

\* The turns keep the order.
LEMMA RunOrder ==
  ASSUME IInv, NEW S, Apart(S), OrderInv(S), Run \/ Crash \/ \E e \in events : FailCleanup(e)
  PROVE  OrderInv(S)'
<1>0. HandlersOk(handler)
  BY DEF IInv
<1>1. ASSUME NEW k \in Threads, Prepare(k)
      PROVE  OrderInv(S)'
  <2>1. PICK h : /\ handler' = [handler EXCEPT ![k] = h] /\ handler[k] # None
                 /\ h.ev = handler[k].ev /\ h.num = handler[k].num /\ h.task = handler[k].task
    <3> DEFINE it == [handler[k] EXCEPT !.at = "agent", !.branch = Checkout(handler[k])]
    <3>1. handler' = [handler EXCEPT ![k] = it] /\ handler[k] # None
      BY <1>1 DEF Prepare
    <3>2. it.ev = handler[k].ev /\ it.num = handler[k].num /\ it.task = handler[k].task
      BY <1>0, <3>1 DEF HandlersOk, Handler
    <3> QED
      BY <3>1, <3>2
  <2> QED
    BY <1>0, <1>1, <2>1, ChangedHandler, GoingOnKeepsOrder DEF Prepare, hosted
<1>2. ASSUME NEW k \in Threads, Fail(k)
      PROVE  OrderInv(S)'
  <2>1. k \in Busy /\ GiveBack(handler[k].ev) /\ hosted' = hosted /\ arrived' = arrived
        /\ handler' = [handler EXCEPT ![k] = None]
    BY <1>2 DEF Fail, Busy
  <2>2. handler[k].ev \in Outstanding /\ handler[k].ev.kind \notin Closing
    BY <2>1 DEF Outstanding, OrderInv, OwnTurn
  <2> QED
    BY <1>0, <2>1, <2>2, EndedHandler, FailOrder
<1>3. ASSUME NEW k \in Threads, EndTurn(k)
      PROVE  OrderInv(S)'
  BY <1>0, <1>3, EndedHandler, GoingOnKeepsOrder DEF EndTurn, hosted
<1>4. ASSUME Crash
      PROVE  OrderInv(S)'
  <2>1. /\ Busy' = {} /\ events' = Outstanding /\ Outstanding' = Outstanding
        /\ github' = github /\ assigned' = assigned /\ dropped' = dropped /\ arrived' = arrived
    BY <1>4 DEF Crash, Busy, Outstanding, hosted
  <2>2. events \subseteq events'
    BY <2>1 DEF Outstanding
  <2> QED
    BY <2>1, <2>2, OrderKept
<1>5. ASSUME NEW e \in events, FailCleanup(e)
      PROVE  OrderInv(S)'
  BY <1>5, FailOrder DEF FailCleanup, Outstanding, Busy
<1> QED
  BY <1>1, <1>2, <1>3, <1>4, <1>5 DEF Run

\* The tools keep the order.
LEMMA ToolOrder ==
  ASSUME IInv, NEW S, Apart(S), OrderInv(S), Tool
  PROVE  OrderInv(S)'
<1>0. HandlersOk(handler)
  BY DEF IInv
<1>1. ASSUME UNCHANGED <<github, assigned, dropped, arrived, events, handler>>
      PROVE  OrderInv(S)'
  BY <1>1, GoingOnKeepsOrder DEF Busy
<1>2. \A k \in Threads : handler[k] # None =>
        LET h == [handler[k] EXCEPT !.busy = TRUE]
        IN h.ev = handler[k].ev /\ h.num = handler[k].num /\ h.task = handler[k].task
  BY <1>0 DEF HandlersOk, Handler
<1>3. ASSUME NEW k \in Threads, NEW p \in BotPulls, OpenPull(k, p)
      PROVE  OrderInv(S)'
  <2>1. handler[k] # None /\ handler' = [handler EXCEPT ![k] = [handler[k] EXCEPT !.busy = TRUE]]
    BY <1>3 DEF OpenPull, AtAgent
  <2>2. \A t \in Issues : github'[t] = github[t]
    BY <1>3, ThreadKinds DEF OpenPull, IInv, HostedOk
  <2> QED
    BY <1>0, <1>2, <1>3, <2>1, <2>2, ChangedHandler, GoingOnKeepsOrder DEF OpenPull
<1>4. ASSUME NEW k \in Threads, SubmitReview(k)
      PROVE  OrderInv(S)'
  <2>1. handler[k] # None /\ handler' = [handler EXCEPT ![k] = [handler[k] EXCEPT !.busy = TRUE]]
    BY <1>4 DEF SubmitReview, AtAgent
  <2> QED
    BY <1>0, <1>2, <1>4, <2>1, ChangedHandler, GoingOnKeepsOrder DEF SubmitReview, hosted
<1>5. ASSUME NEW s \in stray, RecordPull(s) \/ RecordReview(s)
      PROVE  OrderInv(S)'
  BY <1>0, <1>5, ReturnedHandlers, GoingOnKeepsOrder DEF RecordPull, RecordReview, hosted
<1>6. ASSUME NEW k \in Threads, AbortTask(k)
      PROVE  OrderInv(S)'
  BY <1>0, <1>6, EndedHandler, GoingOnKeepsOrder DEF AbortTask, hosted
<1>7. ASSUME NEW k \in Threads, CloseIssue(k)
      PROVE  OrderInv(S)'
  <2>1. handler[k].num \in Threads
    BY <1>0, <1>7 DEF CloseIssue, AtAgent, HandlersOk, HandlerOk, Bound
  <2> QED
    BY <1>7, <2>1, ThreadClosedOrder DEF CloseIssue
<1>8. ASSUME NEW k \in Threads,
             \/ \E class \in {"bug", "other"} : ClassifyIssue(k, class)
             \/ ClassifyPr(k) \/ PushBranch(k) \/ StageComment(k) \/ MarkUnable(k) \/ ReproRecord(k)
      PROVE  OrderInv(S)'
  BY <1>1, <1>8 DEF ClassifyIssue, ClassifyPr, PushBranch, StageComment, MarkUnable, ReproRecord,
     hosted, local
<1> QED
  BY <1>3, <1>4, <1>5, <1>6, <1>7, <1>8 DEF Tool

\* Every step keeps the order.
LEMMA OrderStep ==
  ASSUME IInv, NEW S, Apart(S), OrderInv(S), [Next]_vars
  PROVE  OrderInv(S)'
<1>1. CASE UNCHANGED vars
  BY <1>1, GoingOnKeepsOrder DEF vars, hosted, Busy
<1> QED
  BY <1>1, WebhookOrder, DispatchOrder, RunOrder, ToolOrder DEF Next

\* The order of the issues' deliveries holds for the life of the process.
LEMMA IssueOrderHolds == Spec => [](IInv /\ OrderInv(Issues))
<1>1. Init => OrderInv(Issues)
  BY DEF Init, OrderInv, Outstanding, Busy
<1>2. IInv /\ OrderInv(Issues) /\ [Next]_vars => OrderInv(Issues)'
  BY OrderStep DEF Apart
<1> QED
  BY <1>1, <1>2, IInvHolds, PTL DEF Spec

\* The first attempt at a triage is of an issue that is open, or whose closure is
\* still to be handled: a key's first attempts are claimed in the order they came
\* (_fetch_next, triage_issue).
THEOREM LifecycleTriageIsOfAnOpenIssue == Spec => []TriageIsOfAnOpenIssue
<1>1. IInv /\ OrderInv(Issues) => TriageIsOfAnOpenIssue
  <2> SUFFICES ASSUME IInv, OrderInv(Issues), NEW k \in Threads, handler[k] # None,
                      handler[k].ev.kind = "triage", handler[k].ev.attempts = 0
               PROVE  \/ github[handler[k].num] = "open"
                      \/ \E e \in events : e.kind = "closed" /\ e.on = handler[k].num
    BY DEF TriageIsOfAnOpenIssue
  <2>1. k \in Busy /\ handler[k].ev \in Outstanding
    BY DEF Busy, Outstanding
  <2>2. handler[k].ev.on \in Issues
    BY <2>1, OutstandingTyped DEF EventOk
  <2>3. handler[k].num = handler[k].ev.on
    BY <2>1, <2>2 DEF OrderInv, OwnTurn
  <2>4. Excused(handler[k].ev, Issues)
    BY <2>1 DEF OrderInv
  <2> QED
    BY <2>3, <2>4 DEF Excused, Behind
<1> QED
  BY <1>1, IssueOrderHolds, PTL

-----------------------------------------------------------------------------
(* Follow-ups on the bot's pulls, as long as nobody asks for a review        *)

\* The threads are issues and the bot's pulls, and no comment asks for a review.
Uninvited ==
  /\ assigned = {}
  /\ \A e \in events : e.on \notin HumanPulls /\ e.says.body # "review"

\* The branch that belongs to the thread.
Home(t) == IF t \in Issues THEN Work(t) ELSE from[t]

HomeRow(t, r) ==
  /\ t \notin HumanPulls /\ r.state # "reviewing"
  /\ r.branch = Home(t) \/ (r.branch = None /\ t \in Issues)
  /\ r.pr # None => r.pr \in BotPulls /\ from[r.pr] = Home(t)

HomeRows(rs) == \A t \in Threads : rs[t] # None => HomeRow(t, rs[t])

HomeTrees(ts) == \A t \in Threads : ts[t] # None => t \notin HumanPulls /\ ts[t] = Home(t)

HomeEvent(e) ==
  /\ e.on \notin HumanPulls /\ e.says.body # "review"
  /\ e.kind \notin {"reviewRequested", "unassigned"}

HomeHandler(h) ==
  /\ HomeEvent(h.ev)
  /\ h.num \notin HumanPulls /\ h.branch = Home(h.num)
  /\ h.ev.on \in BotPulls => Home(h.num) = from[h.ev.on]
  /\ h.task # "review" /\ h.save # "reviewing"

HomeHandlers(hs) == \A k \in Threads : hs[k] # None => HomeHandler(hs[k])

HomeStrays(ss) ==
  \A s \in ss : s.tool = "open" =>
    s.num \notin HumanPulls /\ s.pull \in BotPulls /\ from[s.pull] = Home(s.num)

FollowInv ==
  /\ HomeRows(rows) /\ HomeTrees(tree) /\ HomeHandlers(handler) /\ HomeStrays(stray)
  /\ \A e \in events : HomeEvent(e)

\* upsert_issue keeps the rows at home.
LEMMA UpsertHome ==
  ASSUME NEW rs, RowsOk(rs), HomeRows(rs), NEW t \in Threads, t \notin HumanPulls,
         NEW state, state # "reviewing", NEW branch, NEW pr,
         branch = Home(t) \/ (branch = None /\ (t \in Issues \/ rs[t] # None)),
         pr # None => pr \in BotPulls /\ from[pr] = Home(t)
  PROVE  HomeRows(Upsert(rs, t, state, branch, pr))
<1> DEFINE old == rs[t]
           new == IF old = None
             THEN [state |-> state, branch |-> branch, pr |-> pr, class |-> "none"]
             ELSE [state |-> state,
                   branch |-> IF branch = None THEN old.branch ELSE branch,
                   pr |-> IF pr = None THEN old.pr ELSE pr, class |-> old.class]
<1>1. old # None => HomeRow(t, old)
  BY DEF HomeRows
<1>2. HomeRow(t, new)
  BY <1>1 DEF HomeRow
<1>3. Upsert(rs, t, state, branch, pr) = [rs EXCEPT ![t] = new]
  BY DEF Upsert
<1> HIDE DEF new
<1>4. \A u \in Threads : [rs EXCEPT ![t] = new][u] = IF u = t THEN new ELSE rs[u]
  BY DEF RowsOk
<1> QED
  BY <1>2, <1>3, <1>4 DEF HomeRows

\* set_issue_state leaves the row where it is.
LEMMA SetStateHome ==
  ASSUME NEW rs, RowsOk(rs), HomeRows(rs), NEW t \in Threads, NEW state, state # "reviewing"
  PROVE  HomeRows(SetState(rs, t, state))
<1>1. CASE rs[t] = None
  BY <1>1 DEF SetState
<1>2. CASE rs[t] # None
  <2>1. SetState(rs, t, state) = [rs EXCEPT ![t] = [rs[t] EXCEPT !.state = state]]
    BY <1>2 DEF SetState
  <2>2. HomeRow(t, rs[t]) /\ rs[t] \in Row
    BY <1>2 DEF HomeRows, RowsOk, RowOk
  <2>3. HomeRow(t, [rs[t] EXCEPT !.state = state])
    BY <2>2 DEF HomeRow, Row
  <2> HIDE DEF HomeRow
  <2> QED
    BY <2>1, <2>3 DEF HomeRows, RowsOk
<1> QED
  BY <1>1, <1>2

\* A follow-up is resolved to a row of the pull's own branch.
LEMMA ResolvesToBranch ==
  ASSUME IInv, HomeRows(rows), NEW p \in BotPulls, Exists(p), NEW fetched \in BOOLEAN,
         NEW found \in ResolveRow(p, fetched)
  PROVE  /\ HomeRows(found[2])
         /\ found[1] # None =>
              /\ found[1] \in Threads /\ found[1] \notin HumanPulls
              /\ found[2][found[1]] # None /\ HomeRow(found[1], found[2][found[1]])
              /\ Home(found[1]) = from[p]
<1> DEFINE byPull(t) == <<t, IF rows[t].branch = None /\ fetched
                 THEN [rows EXCEPT ![t].branch = HeadRef(p)] ELSE rows>>
           byBranch(t) == <<t, [rows EXCEPT ![t].pr = p]>>
<1>0. HeadRef(p) = from[p] /\ from[p] # None /\ p \in Pulls /\ p \in Threads /\ p # None
      /\ RowsOk(rows)
  BY MineTyped, ThreadKinds, NamesOfThreads DEF IInv, HeadRef
<1>1. ASSUME NEW t \in RowsOfPull(rows, p), found = byPull(t)
      PROVE  /\ HomeRows(found[2])
             /\ found[1] = t /\ t \in Threads /\ found[2][t] # None /\ Home(t) = from[p]
  <2>1. t \in Threads /\ rows[t] # None /\ rows[t].pr = p /\ HomeRow(t, rows[t])
        /\ rows[t] \in Row
    BY <1>0, <1>1 DEF RowsOfPull, HomeRows, RowsOk, RowOk
  <2>2. Home(t) = from[p]
    BY <1>0, <2>1 DEF HomeRow
  <2>3. [rows[t] EXCEPT !.branch = from[p]] # None
    BY <1>0, <2>1, ResolveOk, NamesOfThreads DEF Row, IInv, HostedOk
  <2>4. HomeRow(t, [rows[t] EXCEPT !.branch = from[p]])
    BY <2>1, <2>2 DEF HomeRow, Row
  <2>5. /\ HomeRows([rows EXCEPT ![t].branch = from[p]])
        /\ [rows EXCEPT ![t].branch = from[p]][t] # None
    BY <1>0, <2>1, <2>3, <2>4 DEF HomeRows, RowsOk
  <2> QED
    BY <1>0, <1>1, <2>1, <2>2, <2>5
<1>2. ASSUME NEW t \in RowsOfBranch(rows, HeadRef(p)), found = byBranch(t)
      PROVE  /\ HomeRows(found[2])
             /\ found[1] = t /\ t \in Threads /\ found[2][t] # None /\ Home(t) = from[p]
  <2>1. t \in Threads /\ rows[t] # None /\ rows[t].branch = from[p] /\ HomeRow(t, rows[t])
        /\ rows[t] \in Row
    BY <1>0, <1>2 DEF RowsOfBranch, HomeRows, RowsOk, RowOk
  <2>2. Home(t) = from[p]
    BY <1>0, <2>1 DEF HomeRow
  <2>3. [rows[t] EXCEPT !.pr = p] # None
    BY <1>0, <2>1, NamesOfThreads DEF Row
  <2>4. HomeRow(t, [rows[t] EXCEPT !.pr = p])
    BY <2>1, <2>2 DEF HomeRow, Row
  <2>5. HomeRows([rows EXCEPT ![t].pr = p]) /\ [rows EXCEPT ![t].pr = p][t] # None
    BY <1>0, <2>1, <2>3, <2>4 DEF HomeRows, RowsOk
  <2> QED
    BY <1>2, <2>1, <2>2, <2>5
<1>3. CASE found = <<None, rows>>
  BY <1>3
<1> QED
  BY <1>1, <1>2, <1>3 DEF ResolveRow, HomeRows, HomeRow

\* A step that opens no pull.
LEMMA StayHome ==
  ASSUME from' = from, HomeRows(rows'), HomeTrees(tree'), HomeHandlers(handler'),
         HomeStrays(stray'), \A e \in events' : HomeEvent(e)
  PROVE  FollowInv'
BY DEF FollowInv, HomeRows, HomeRow, HomeTrees, HomeHandlers, HomeHandler, HomeStrays,
   HomeEvent, Home

\* A worktree is removed.
LEMMA RemovedHome ==
  ASSUME TreesOk(tree), HomeTrees(tree), NEW t
  PROVE  HomeTrees([tree EXCEPT ![t] = None])
BY DEF HomeTrees, TreesOk

\* What a follow-up on a thread may go on to.
HomeBound(e, num, branch, save, task) ==
  /\ num \notin HumanPulls /\ branch = Home(num)
  /\ e.on \in BotPulls => Home(num) = from[e.on]
  /\ task # "review" /\ save # "reviewing"

\* A dispatch ends at once or goes on to the branch of the thread.
LEMMA ClaimedHome ==
  ASSUME IInv, FollowInv, NEW e \in events,
         \/ Done(e)
         \/ \E num, branch, save, task, auth, isPull :
              /\ HomeBound(e, num, branch, save, task)
              /\ Enter(e, num, branch, save, task, auth, isPull)
  PROVE  HomeHandlers(handler') /\ \A x \in events' : HomeEvent(x)
<1>1. CASE Done(e)
  BY <1>1 DEF Done, FollowInv
<1>2. ASSUME NEW num, NEW branch, NEW save, NEW task, NEW auth, NEW isPull,
             HomeBound(e, num, branch, save, task),
             Enter(e, num, branch, save, task, auth, isPull)
      PROVE  HomeHandlers(handler') /\ \A x \in events' : HomeEvent(x)
  <2> DEFINE h == [ev |-> e, at |-> "setup", num |-> num, branch |-> branch, save |-> save,
                   task |-> task, auth |-> auth, isPull |-> isPull, busy |-> FALSE]
  <2>1. HomeHandler(h)
    BY <1>2 DEF HomeHandler, HomeBound, FollowInv
  <2>2. handler' = [handler EXCEPT ![e.key] = h] /\ events' = events \ {e}
    BY <1>2 DEF Enter
  <2> HIDE DEF h
  <2> QED
    BY <2>1, <2>2 DEF FollowInv, HomeHandlers, IInv, HandlersOk
<1> QED
  BY <1>1, <1>2

\* What a dispatch leaves alone is at home.
LEMMA DispatchHome ==
  ASSUME FollowInv, untouched' = untouched, HomeRows(rows'), HomeTrees(tree'),
         HomeHandlers(handler'), \A e \in events' : HomeEvent(e)
  PROVE  FollowInv'
BY StayHome DEF untouched, hosted, FollowInv

\* A delivery about an issue works on the issue's branch.
LEMMA IssueDispatchHome ==
  ASSUME IInv, FollowInv, NEW e \in events, TriageIssue(e) \/ HandleComment(e)
  PROVE  FollowInv'
<1>1. e.on \in Issues /\ e.on \in Threads /\ e.on \notin HumanPulls /\ e.on \notin BotPulls
      /\ Home(e.on) = Work(e.on)
  BY ThreadKinds DEF TriageIssue, HandleComment, IInv, EventOk, Home
<1>2. /\ rows' = rows \/ rows' = Upsert(rows, e.on, "reproducing", None, None)
      /\ tree' = tree \/ tree' = [tree EXCEPT ![e.on] = None]
      /\ untouched' = untouched
  BY DEF TriageIssue, HandleComment
<1>3. rows[e.on] # None => rows[e.on].branch \in {None, Work(e.on)}
  BY <1>1 DEF FollowInv, HomeRows, HomeRow
<1>4. HomeRows(rows') /\ HomeTrees(tree')
  BY <1>1, <1>2, UpsertHome, RemovedHome DEF FollowInv, IInv
<1>5. \/ Done(e)
      \/ \E save \in {"no", "reproducing"}, task \in {"triage", "comment"} :
           \E auth : Enter(e, e.on, Work(e.on), save, task, auth, FALSE)
  BY <1>3 DEF TriageIssue, HandleComment
<1>6. \A save \in {"no", "reproducing"}, task \in {"triage", "comment"} :
        HomeBound(e, e.on, Work(e.on), save, task)
  BY <1>1 DEF HomeBound
<1>7. HomeHandlers(handler') /\ \A x \in events' : HomeEvent(x)
  BY <1>5, <1>6, ClaimedHome
<1> QED
  BY <1>2, <1>4, <1>7, DispatchHome

\* A review comment on the bot's pull works on the pull's branch.
LEMMA HandleReviewHome ==
  ASSUME IInv, FollowInv, Uninvited, NEW e \in events, HandleReview(e)
  PROVE  FollowInv'
<1>1. e.on \in BotPulls /\ Exists(e.on) /\ e.on \notin HumanPulls /\ e.on \notin Issues
      /\ HeadRef(e.on) = from[e.on] /\ Home(e.on) = from[e.on]
  BY ThreadKinds DEF HandleReview, IInv, EventOk, FollowInv, HomeEvent, HeadRef, Home
<1>2. PICK fetched \in BOOLEAN : \E found \in ResolveRow(e.on, fetched) :
        LET p == e.on
            t == found[1]
            r == found[2]
        IN \/ Done(e) /\ UNCHANGED <<rows, tree>>
           \/ /\ EnterIfAnswered(e, p, HeadRef(p), "opened", "reviewComment", FALSE, TRUE)
              /\ UNCHANGED <<rows, tree>>
           \/ \E u : Reclaims(u, p, fetched)
           \/ /\ t # None /\ rows' = r /\ UNCHANGED tree
              /\ IF r[t].branch = None THEN Done(e)
                 ELSE EnterIfAnswered(e, t, r[t].branch, "no", "reviewComment", FALSE, TRUE)
  BY DEF HandleReview
<1>3. PICK found \in ResolveRow(e.on, fetched) :
        LET p == e.on
            t == found[1]
            r == found[2]
        IN \/ Done(e) /\ UNCHANGED <<rows, tree>>
           \/ /\ EnterIfAnswered(e, p, HeadRef(p), "opened", "reviewComment", FALSE, TRUE)
              /\ UNCHANGED <<rows, tree>>
           \/ /\ t # None /\ rows' = r /\ UNCHANGED tree
              /\ IF r[t].branch = None THEN Done(e)
                 ELSE EnterIfAnswered(e, t, r[t].branch, "no", "reviewComment", FALSE, TRUE)
  BY <1>2 DEF Reclaims, Uninvited
<1>4. /\ HomeRows(found[2])
      /\ found[1] # None =>
           /\ found[1] \in Threads /\ found[1] \notin HumanPulls
           /\ found[2][found[1]] # None /\ HomeRow(found[1], found[2][found[1]])
           /\ Home(found[1]) = from[e.on]
  BY <1>1, <1>3, ResolvesToBranch DEF FollowInv
<1>5. HomeRows(rows') /\ HomeTrees(tree')
  BY <1>3, <1>4 DEF FollowInv
<1>6. HomeBound(e, e.on, HeadRef(e.on), "opened", "reviewComment")
  BY <1>1 DEF HomeBound
<1>7. found[1] # None /\ found[2][found[1]].branch # None =>
        HomeBound(e, found[1], found[2][found[1]].branch, "no", "reviewComment")
  BY <1>4 DEF HomeBound, HomeRow
<1>8. \/ Done(e)
      \/ \E num, branch, save, task, auth, isPull :
           /\ HomeBound(e, num, branch, save, task)
           /\ Enter(e, num, branch, save, task, auth, isPull)
  BY <1>3, <1>6, <1>7 DEF EnterIfAnswered
<1>9. HomeHandlers(handler') /\ \A x \in events' : HomeEvent(x)
  BY <1>8, ClaimedHome
<1> QED
  BY <1>5, <1>9, DispatchHome DEF HandleReview

\* A comment on the bot's pull works on the pull's branch.
LEMMA HandlePrConversationHome ==
  ASSUME IInv, FollowInv, Uninvited, NEW e \in events, HandlePrConversation(e)
  PROVE  FollowInv'
<1>1. e.on \in BotPulls /\ Exists(e.on) /\ e.on \notin HumanPulls /\ e.on \notin Issues
      /\ HeadRef(e.on) = from[e.on] /\ Home(e.on) = from[e.on]
  BY ThreadKinds DEF HandlePrConversation, IInv, EventOk, FollowInv, HomeEvent, HeadRef, Home
<1>2. PICK fetched \in BOOLEAN : \E found \in ResolveRow(e.on, fetched) :
        IF found[1] # None
          THEN ResumePull(e, found[1], found[2], fetched)
          ELSE /\ \/ Done(e)
                  \/ EnterIfAnswered(e, e.on, HeadRef(e.on), "opened", "comment",
                                     e.says.authorizes /\ Heard(e), TRUE)
               /\ UNCHANGED <<rows, tree>>
  BY DEF HandlePrConversation
<1>3. PICK found \in ResolveRow(e.on, fetched) :
        IF found[1] # None
          THEN ResumePull(e, found[1], found[2], fetched)
          ELSE /\ \/ Done(e)
                  \/ EnterIfAnswered(e, e.on, HeadRef(e.on), "opened", "comment",
                                     e.says.authorizes /\ Heard(e), TRUE)
               /\ UNCHANGED <<rows, tree>>
  BY <1>2
<1> DEFINE t == found[1]
           r == found[2]
<1>4. /\ HomeRows(r) /\ RowsOk(r)
      /\ t # None =>
           /\ t \in Threads /\ t \notin HumanPulls /\ r[t] # None /\ HomeRow(t, r[t])
           /\ Home(t) = from[e.on]
  BY <1>1, <1>3, ResolvesToBranch, ResolveOk, ThreadKinds DEF FollowInv, IInv
<1>5. CASE t = None
  <2>1. HomeBound(e, e.on, HeadRef(e.on), "opened", "comment")
    BY <1>1 DEF HomeBound
  <2>2. HomeHandlers(handler') /\ \A x \in events' : HomeEvent(x)
    BY <1>3, <1>5, <2>1, ClaimedHome DEF EnterIfAnswered
  <2> QED
    BY <1>3, <1>5, <2>2, DispatchHome DEF HandlePrConversation, FollowInv
<1>6. CASE t # None
  <2> DEFINE branch == IF r[t].branch = None THEN Work(t) ELSE r[t].branch
  <2>1. \A save \in {"no", "reproducing", "moved"} : HomeBound(e, t, branch, save, "comment")
    <3>1. r[t].branch = Home(t) \/ (r[t].branch = None /\ Work(t) = Home(t))
      BY <1>4, <1>6 DEF HomeRow, Home
    <3>2. Home(t) # None
      BY <1>1, <1>4, <1>6, MineTyped, ThreadKinds DEF IInv
    <3>3. branch = Home(t)
      BY <3>1, <3>2
    <3> HIDE DEF branch, t, r
    <3> QED
      BY <1>4, <1>6, <3>3 DEF HomeBound
  <2> HIDE DEF branch, t, r
  <2>2. ~Reclaims(t, e.on, fetched)
    BY DEF Reclaims, Uninvited
  <2>3. ResumePull(e, t, r, fetched)
    BY <1>3, <1>6 DEF t, r
  <2>4. /\ rows' = r \/ rows' = Upsert(r, t, "reproducing", None, None)
        /\ tree' = tree \/ tree' = [tree EXCEPT ![t] = None]
        /\ \/ Done(e)
           \/ \E save \in {"no", "reproducing", "moved"} :
                EnterIfAnswered(e, t, branch, save, "comment", e.says.authorizes /\ Heard(e), TRUE)
    BY <2>2, <2>3 DEF ResumePull, branch
  <2>5. HomeRows(rows') /\ HomeTrees(tree')
    BY <1>4, <1>6, <2>4, UpsertHome, RemovedHome DEF FollowInv, IInv
  <2>6. HomeHandlers(handler') /\ \A x \in events' : HomeEvent(x)
    BY <2>1, <2>4, ClaimedHome DEF EnterIfAnswered
  <2> QED
    BY <2>5, <2>6, DispatchHome DEF HandlePrConversation
<1> QED
  BY <1>5, <1>6

\* What is done with, is removed.
LEMMA CleanedHome ==
  ASSUME IInv, FollowInv, NEW e \in events, CleanupWorkspace(e) \/ RevokePrAssignment(e)
  PROVE  FollowInv'
<1>1. HomeHandlers(handler') /\ (\A x \in events' : HomeEvent(x)) /\ untouched' = untouched
  BY ClaimedHome DEF CleanupWorkspace, RevokePrAssignment
<1>2. CASE CleanupWorkspace(e)
  <2>1. e.kind # "reviewing"
    BY <1>2 DEF CleanupWorkspace
  <2>2. \/ UNCHANGED <<rows, tree>>
        \/ \E t \in Threads : tree' = [tree EXCEPT ![t] = None] /\ rows' = SetState(rows, t, e.kind)
    BY <1>2, ThreadKinds DEF CleanupWorkspace, RowsOfPull, IInv, EventOk, Events
  <2>3. HomeRows(rows') /\ HomeTrees(tree')
    BY <2>1, <2>2, SetStateHome, RemovedHome DEF FollowInv, IInv
  <2> QED
    BY <1>1, <2>3, DispatchHome
<1>3. CASE RevokePrAssignment(e)
  <2>1. HomeRows(rows')
    BY <1>3 DEF RevokePrAssignment, FollowInv, HomeRows, IInv, RowsOk
  <2>2. HomeTrees(tree')
    BY <1>3, RemovedHome DEF RevokePrAssignment, FollowInv, IInv
  <2> QED
    BY <1>1, <2>1, <2>2, DispatchHome
<1> QED
  BY <1>2, <1>3

\* The handlers keep to the branches of their threads.
LEMMA DispatchFollows ==
  ASSUME IInv, FollowInv, Uninvited, Dispatch
  PROVE  FollowInv'
<1>1. \A e \in events : ~ReviewPr(e)
  BY DEF ReviewPr, FollowInv, HomeEvent
<1> QED
  BY <1>1, IssueDispatchHome, HandleReviewHome, HandlePrConversationHome, CleanedHome DEF Dispatch

\* What arrives is about an issue or a pull of the bot's, and asks for no review.
LEMMA WebhookFollows ==
  ASSUME IInv, FollowInv, Uninvited, Uninvited', Webhook
  PROVE  FollowInv'
<1>1. /\ from' = from /\ rows' = rows /\ tree' = tree /\ handler' = handler /\ stray' = stray
      /\ \A e \in events' : \/ e \in events \/ e.on \in HumanPulls
                            \/ e.kind \notin {"reviewRequested", "unassigned"}
  <2>1. ASSUME NEW t, NEW kind, NEW under, NEW says, Queue(kind, t, under, says),
               kind \notin {"reviewRequested", "unassigned"} \/ t \in HumanPulls
        PROVE  /\ from' = from /\ rows' = rows /\ tree' = tree /\ handler' = handler
               /\ stray' = stray
               /\ \A e \in events' : \/ e \in events \/ e.on \in HumanPulls
                                     \/ e.kind \notin {"reviewRequested", "unassigned"}
    BY <2>1 DEF Queue
  <2>2. \A p : ~Unassign(p)
    BY DEF Unassign, Uninvited
  <2> QED
    BY <2>1, <2>2 DEF Webhook, IssueOpened, IssueComment, PullComment, ReviewComment,
       ReviewRequested, Assign, ThreadClosed, local
<1>2. \A e \in events' : HomeEvent(e)
  BY <1>1 DEF Uninvited, HomeEvent, FollowInv
<1> QED
  BY <1>1, <1>2, StayHome DEF FollowInv

\* A worktree is made on, and a row saved with, the thread's own branch.
LEMMA PrepareHome ==
  ASSUME IInv, FollowInv, NEW k \in Threads, handler[k] # None
  PROVE  /\ Checkout(handler[k]) = Home(handler[k].num)
         /\ HomeTrees(Made(handler[k])) /\ HomeRows(Saved(handler[k]))
<1> DEFINE h == handler[k]
<1>1. HomeHandler(h) /\ HandlerOk(h) /\ h.num \in Threads /\ h.num # None
  BY NamesOfThreads DEF FollowInv, HomeHandlers, IInv, HandlersOk, HandlerOk, Bound
<1>2. Checkout(h) = Home(h.num)
  BY <1>1 DEF Checkout, FollowInv, HomeTrees, HomeHandler
<1>3. HomeTrees(Made(h))
  BY <1>1 DEF Made, FollowInv, HomeTrees, HomeHandler, IInv, TreesOk
<1>4. \/ Saved(h) = rows
      \/ Saved(h) = Upsert(rows, h.num, "reproducing", Checkout(h), None)
      \/ /\ h.save \notin {"no", "moved", "reproducing"}
         /\ Saved(h) = Upsert(rows, h.num, h.save, Checkout(h), h.num)
  BY <1>1, <1>2 DEF Saved, HomeHandler
<1>5. h.save \notin {"no", "moved", "reproducing"} =>
        h.num \in BotPulls /\ from[h.num] = Home(h.num)
  BY <1>1, ThreadKinds DEF HandlerOk, Bound, HomeHandler, Home
<1>6. HomeRows(Saved(h))
  BY <1>1, <1>2, <1>4, <1>5, UpsertHome DEF FollowInv, IInv, HomeHandler
<1> QED
  BY <1>2, <1>3, <1>6

\* A delivery that is given back says what it said.
LEMMA GivenBackHome ==
  ASSUME FollowInv, NEW e \in Events, HomeEvent(e), GiveBack(e)
  PROVE  \A x \in events' : HomeEvent(x)
BY DEF FollowInv, GiveBack, HomeEvent, Events

\* Turns keep to the branches of their threads.
LEMMA RunFollows ==
  ASSUME IInv, FollowInv, Run \/ Crash \/ \E e \in events : FailCleanup(e)
  PROVE  FollowInv'
<1>0. HandlersOk(handler) /\ HomeHandlers(handler) /\ HomeRows(rows) /\ HomeTrees(tree)
      /\ HomeStrays(stray) /\ \A e \in events : HomeEvent(e)
  BY DEF IInv, FollowInv
<1>1. ASSUME NEW k \in Threads, Prepare(k)
      PROVE  FollowInv'
  <2> DEFINE h == handler[k]
             new == [h EXCEPT !.at = "agent", !.branch = Checkout(h)]
  <2>1. h # None /\ HomeHandler(h) /\ h \in Handler
    BY <1>0, <1>1 DEF Prepare, HomeHandlers, HandlersOk, HandlerOk
  <2>2. HomeHandler(new)
    BY <2>1, PrepareHome DEF HomeHandler, Handler
  <2>3. handler' = [handler EXCEPT ![k] = new] /\ tree' = Made(h) /\ rows' = Saved(h)
        /\ from' = from /\ events' = events /\ stray' = stray
    BY <1>1 DEF Prepare, hosted
  <2> HIDE DEF new
  <2>4. HomeHandlers(handler')
    BY <1>0, <2>2, <2>3 DEF HomeHandlers, HandlersOk
  <2> QED
    BY <1>0, <2>1, <2>3, <2>4, PrepareHome, StayHome
<1>2. ASSUME NEW k \in Threads, Fail(k)
      PROVE  FollowInv'
  <2>1. /\ handler[k] # None /\ GiveBack(handler[k].ev) /\ rows' = rows /\ from' = from
        /\ stray' = stray /\ handler' = [handler EXCEPT ![k] = None]
        /\ tree' = tree \/ tree' = Made(handler[k])
    BY <1>2 DEF Fail, hosted
  <2>2. HomeEvent(handler[k].ev) /\ handler[k].ev \in Events
    BY <1>0, <2>1 DEF HomeHandlers, HomeHandler, HandlersOk, HandlerOk, EventOk
  <2>3. \A x \in events' : HomeEvent(x)
    BY <2>1, <2>2, GivenBackHome
  <2>4. HomeHandlers(handler')
    BY <1>0, <2>1 DEF HomeHandlers, HandlersOk
  <2> QED
    BY <1>0, <2>1, <2>3, <2>4, PrepareHome, StayHome
<1>3. ASSUME NEW k \in Threads, EndTurn(k)
      PROVE  FollowInv'
  <2>1. HomeHandlers(handler')
    BY <1>0, <1>3 DEF EndTurn, HomeHandlers, HandlersOk
  <2> QED
    BY <1>0, <1>3, <2>1, StayHome DEF EndTurn, hosted, local
<1>4. ASSUME Crash
      PROVE  FollowInv'
  <2>1. \A x \in events' : HomeEvent(x)
    BY <1>0, <1>4 DEF Crash, HomeHandlers, HomeHandler
  <2>2. HomeHandlers(handler') /\ HomeStrays(stray')
    BY <1>4 DEF Crash, HomeHandlers, HomeStrays
  <2> QED
    BY <1>0, <1>4, <2>1, <2>2, StayHome DEF Crash, hosted, local
<1>5. ASSUME NEW e \in events, FailCleanup(e)
      PROVE  FollowInv'
  <2>1. \A x \in events' : HomeEvent(x)
    BY <1>0, <1>5, GivenBackHome DEF FailCleanup, IInv, EventOk
  <2> QED
    BY <1>0, <1>5, <2>1, StayHome DEF FailCleanup, hosted, local
<1> QED
  BY <1>1, <1>2, <1>3, <1>4, <1>5 DEF Run

\* A handler that becomes busy, or free, works where it did.
LEMMA BusyHome ==
  ASSUME NEW h \in Handler, HomeHandler(h), NEW b
  PROVE  HomeHandler([h EXCEPT !.busy = b])
BY DEF HomeHandler, Handler

\* A tool that has GitHub's answer frees its handler.
LEMMA ReturnedHome ==
  ASSUME HandlersOk(handler), HomeHandlers(handler), HomeStrays(stray), NEW s, Returned(s)
  PROVE  HomeHandlers(handler') /\ HomeStrays(stray')
<1>1. \A x \in Threads : handler'[x] \in {handler[x], [handler[x] EXCEPT !.busy = FALSE]}
      /\ (handler[x] = None => handler'[x] = None)
  BY DEF Returned
<1>2. HomeHandlers(handler')
  BY <1>1, BusyHome DEF HomeHandlers, HandlersOk, HandlerOk
<1> QED
  BY <1>2 DEF HomeStrays, Returned

\* A pull is opened from the branch of the thread that is worked on.
LEMMA OpenPullFollows ==
  ASSUME IInv, FollowInv, NEW k \in Threads, NEW p \in BotPulls, OpenPull(k, p)
  PROVE  FollowInv'
<1> DEFINE h == handler[k]
<1>0. h # None /\ HomeHandler(h) /\ HandlerOk(h) /\ h \in Handler /\ h.branch # None
  BY DEF OpenPull, AtAgent, FollowInv, HomeHandlers, IInv, HandlersOk, HandlerOk, Bound
<1>1. /\ ~Exists(p) /\ from[p] = None /\ p \in Threads /\ p \notin Issues /\ p # None
      /\ from \in [BotPulls -> Branches \union {None}]
  BY ThreadKinds, NamesOfThreads DEF OpenPull, Exists, IInv, HostedOk
<1>2. from' = [from EXCEPT ![p] = h.branch]
  BY DEF OpenPull
<1>3. /\ \A t : t # p => Home(t)' = Home(t)
      /\ \A q \in BotPulls : q # p => from'[q] = from[q]
      /\ from'[p] = Home(h.num)
  BY <1>0, <1>1, <1>2 DEF Home, HomeHandler
<1>4. HomeRows(rows)'
  <2> SUFFICES ASSUME NEW t \in Threads, rows[t] # None
               PROVE  HomeRow(t, rows[t])'
    BY DEF OpenPull, local, HomeRows
  <2>1. HomeRow(t, rows[t]) /\ RowOk(t, rows[t])
    BY DEF FollowInv, HomeRows, IInv, RowsOk
  <2>2. t # p
    BY <1>1, <2>1 DEF RowOk
  <2>3. rows[t].pr # None => rows[t].pr # p
    BY <1>1, <2>1 DEF RowOk, Leads
  <2>4. rows' = rows
    BY DEF OpenPull, local
  <2> QED
    BY <1>3, <2>1, <2>2, <2>3, <2>4 DEF HomeRow
<1>5. HomeTrees(tree)'
  <2>1. \A t \in Threads : tree[t] # None => t # p
    BY <1>1 DEF FollowInv, HomeTrees, Home
  <2>2. tree' = tree
    BY DEF OpenPull, local
  <2> QED
    BY <1>3, <2>1, <2>2 DEF HomeTrees, FollowInv
<1>6. ASSUME NEW x \in Handler, HomeHandler(x), HandlerOk(x)
      PROVE  HomeHandler(x)'
  <2>1. x.num # p /\ (x.ev.on \in BotPulls => x.ev.on # p)
    BY <1>1, <1>6, ThreadKinds DEF HandlerOk, Bound, EventOk, Exists
  <2> QED
    BY <1>3, <1>6, <2>1 DEF HomeHandler, HomeEvent
<1>7. HomeHandlers(handler)'
  <2>1. PICK new \in Handler : HomeHandler(new) /\ HandlerOk(new) /\ new = [h EXCEPT !.busy = TRUE]
    BY <1>0, BusyHome DEF HandlerOk, Handler, Bound
  <2>2. handler' = [handler EXCEPT ![k] = new]
    BY <1>0, <2>1 DEF OpenPull
  <2>3. HomeHandler(new)'
    BY <1>6, <2>1
  <2>4. \A x \in Threads : handler[x] # None => HomeHandler(handler[x])
                                              /\ HandlerOk(handler[x]) /\ handler[x] \in Handler
    BY DEF FollowInv, HomeHandlers, IInv, HandlersOk, HandlerOk
  <2>5. ASSUME NEW x \in Threads, handler'[x] # None
        PROVE  HomeHandler(handler[x])'
    <3>1. CASE x = k
      BY <2>2, <2>3, <3>1 DEF IInv, HandlersOk
    <3>2. CASE x # k
      <4>1. PICK y : y = handler[x]
        OBVIOUS
      <4>2. handler'[x] = y /\ HomeHandler(y)'
        BY <1>6, <2>2, <2>4, <2>5, <3>2, <4>1 DEF IInv, HandlersOk
      <4> QED
        BY <4>2
    <3> QED
      BY <3>1, <3>2
  <2> QED
    BY <2>5 DEF HomeHandlers
<1>8. HomeStrays(stray)'
  <2> DEFINE new == [tool |-> "open", num |-> h.num, pull |-> p, by |-> h.ev]
  <2>1. stray' = stray \union {new}
    BY DEF OpenPull
  <2>2. new.num # p /\ new.num \notin HumanPulls /\ new.pull = p /\ new.num = h.num
    BY <1>0, <1>1, ThreadKinds DEF HandlerOk, Bound, HomeHandler
  <2>3. \A s \in stray : s.tool = "open" => s.num # p /\ s.pull # p
    BY <1>1 DEF IInv, StraysOk, Leads
  <2> QED
    BY <1>3, <2>1, <2>2, <2>3 DEF HomeStrays, FollowInv
<1>9. \A e \in events' : HomeEvent(e)
  BY DEF OpenPull, FollowInv
<1> QED
  BY <1>4, <1>5, <1>7, <1>8, <1>9 DEF FollowInv, HomeEvent

\* The tools keep to the branches of their threads.
LEMMA ToolFollows ==
  ASSUME IInv, FollowInv, Tool, \A k \in Threads : ~CloseIssue(k)
  PROVE  FollowInv'
<1>0. /\ HandlersOk(handler) /\ HomeHandlers(handler) /\ HomeRows(rows) /\ HomeTrees(tree)
      /\ HomeStrays(stray) /\ RowsOk(rows) /\ \A e \in events : HomeEvent(e)
  BY DEF IInv, FollowInv
<1>1. \A k \in Threads : AtAgent(k) =>
        /\ HomeHandler(handler[k]) /\ handler[k] \in Handler /\ handler[k].num \in Threads
        /\ ~ReviewMode(handler[k])
  <2> SUFFICES ASSUME NEW k \in Threads, AtAgent(k)
               PROVE  /\ HomeHandler(handler[k]) /\ handler[k] \in Handler
                      /\ handler[k].num \in Threads /\ ~ReviewMode(handler[k])
    OBVIOUS
  <2>1. HomeHandler(handler[k]) /\ HandlerOk(handler[k])
    BY <1>0 DEF AtAgent, HomeHandlers, HandlersOk
  <2>2. \A t \in Threads : Home(handler[k].num) # Review(t)
    <3>1. CASE handler[k].num \in Issues
      BY <3>1, NamesOfThreads DEF Home
    <3>2. CASE handler[k].num \in BotPulls
      BY <2>1, <3>2, ThreadKinds DEF Home, HandlerOk, Bound, IInv, HostedOk
    <3> QED
      BY <2>1, <3>1, <3>2, ThreadKinds DEF HomeHandler, HandlerOk, Bound
  <2> QED
    BY <2>1, <2>2 DEF ReviewMode, HomeHandler, HandlerOk, Bound
<1>2. ASSUME UNCHANGED <<from, tree, events, handler, stray>>, HomeRows(rows')
      PROVE  FollowInv'
  BY <1>0, <1>2, StayHome
<1>3. ASSUME NEW k \in Threads, NEW class \in {"bug", "other"}, ClassifyIssue(k, class)
      PROVE  FollowInv'
  <2> DEFINE t == handler[k].num
  <2>1. rows' = [rows EXCEPT ![t] = [rows[t] EXCEPT !.class = class]] /\ t \in Threads
        /\ rows[t] # None
    BY <1>1, <1>3 DEF ClassifyIssue
  <2>2. HomeRow(t, [rows[t] EXCEPT !.class = class])
    BY <1>0, <2>1 DEF HomeRows, HomeRow, RowsOk, RowOk, Row
  <2>3. HomeRows(rows')
    BY <1>0, <2>1, <2>2 DEF HomeRows, RowsOk
  <2> QED
    BY <1>2, <1>3, <2>3 DEF ClassifyIssue
<1>4. ASSUME NEW k \in Threads, NEW p \in BotPulls, OpenPull(k, p)
      PROVE  FollowInv'
  BY <1>4, OpenPullFollows
<1>5. \A k \in Threads : ~ClassifyPr(k) /\ ~SubmitReview(k) /\ ~StageComment(k)
  BY <1>1 DEF ClassifyPr, SubmitReview, StageComment
<1>6. ASSUME NEW k \in Threads, PushBranch(k)
      PROVE  FollowInv'
  BY <1>0, <1>2, <1>6 DEF PushBranch, local
<1>7. ASSUME NEW k \in Threads, MarkUnable(k) \/ ReproRecord(k)
      PROVE  FollowInv'
  <2>1. HomeRows(rows')
    BY <1>0, <1>1, <1>7, SetStateHome DEF MarkUnable, ReproRecord
  <2> QED
    BY <1>2, <1>7, <2>1 DEF MarkUnable, ReproRecord, hosted
<1>8. ASSUME NEW k \in Threads, AbortTask(k)
      PROVE  FollowInv'
  <2>1. HomeRows(rows')
    BY <1>0, <1>1, <1>8, SetStateHome DEF AbortTask
  <2>2. HomeHandlers(handler')
    BY <1>0, <1>8 DEF AbortTask, HomeHandlers, HandlersOk
  <2> QED
    BY <1>0, <1>8, <2>1, <2>2, StayHome DEF AbortTask, hosted
<1>9. ASSUME NEW s \in stray, RecordPull(s)
      PROVE  FollowInv'
  <2>1. HomeHandlers(handler') /\ HomeStrays(stray')
    BY <1>0, <1>9, ReturnedHome DEF RecordPull
  <2>2. s.tool = "open" /\ s.num \in Threads /\ s.pull \in BotPulls /\ from[s.pull] = Home(s.num)
    BY <1>0, <1>9 DEF RecordPull, HomeStrays, IInv, StraysOk
  <2>3. HomeRows(rows')
    <3>1. CASE rows[s.num] = None
      BY <1>0, <1>9, <3>1 DEF RecordPull
    <3>2. CASE rows[s.num] # None
      <4> DEFINE new == [rows[s.num] EXCEPT !.pr = s.pull, !.state = "opened"]
      <4>1. rows' = [rows EXCEPT ![s.num] = new]
        BY <1>0, <1>9, <2>2, <3>2 DEF RecordPull, RowsOk
      <4>2. HomeRow(s.num, new)
        BY <1>0, <2>2, <3>2 DEF HomeRows, HomeRow, RowsOk, RowOk, Row
      <4> HIDE DEF new
      <4> QED
        BY <1>0, <4>1, <4>2 DEF HomeRows, RowsOk
    <3> QED
      BY <3>1, <3>2
  <2> QED
    BY <1>0, <1>9, <2>1, <2>3, StayHome DEF RecordPull, hosted
<1>10. ASSUME NEW s \in stray, RecordReview(s)
       PROVE  FollowInv'
  <2>1. HomeHandlers(handler') /\ HomeStrays(stray')
    BY <1>0, <1>10, ReturnedHome DEF RecordReview
  <2> QED
    BY <1>0, <1>10, <2>1, StayHome DEF RecordReview, hosted
<1> QED
  BY <1>3, <1>4, <1>5, <1>6, <1>7, <1>8, <1>9, <1>10 DEF Tool

\* The agent closes the issue it works on, or the pull.
LEMMA CloseIssueFollows ==
  ASSUME IInv, FollowInv, NEW k \in Threads, CloseIssue(k)
  PROVE  FollowInv'
<1>1. HomeHandler(handler[k])
  BY DEF CloseIssue, AtAgent, FollowInv, HomeHandlers
<1>2. PICK under : Queue("closed", handler[k].num, under, Silent) /\ assigned' = assigned
  BY DEF CloseIssue, ThreadClosed
<1>3. \A e \in events' : HomeEvent(e)
  BY <1>1, <1>2 DEF Queue, HomeEvent, HomeHandler, FollowInv, Silent
<1> QED
  BY <1>2, <1>3, StayHome DEF Queue, FollowInv

\* While nobody asks for a review, rows, worktrees and handlers stay with the
\* branches of their threads.
LEMMA FollowStep ==
  ASSUME IInv, FollowInv, Uninvited, Uninvited', [Next]_vars
  PROVE  FollowInv'
<1>1. CASE UNCHANGED vars
  BY <1>1, StayHome DEF vars, hosted, local, FollowInv
<1>2. CASE Tool
  BY <1>2, ToolFollows, CloseIssueFollows
<1> QED
  BY <1>1, <1>2, WebhookFollows, DispatchFollows, RunFollows DEF Next

\* The first state is at home.
LEMMA FollowsAtFirst == Init => FollowInv
BY DEF Init, FollowInv, HomeRows, HomeTrees, HomeHandlers, HomeStrays

\* An agent at home amends the pull it was called to.
LEMMA AtHomeAmends == FollowInv => FollowUpAmendsItsPull
BY DEF FollowInv, FollowUpAmendsItsPull, HomeHandlers, HomeHandler, AtAgent

\* While nobody asks the bot for a review, an agent that answers on a pull of the
\* bot's works on the pull's own branch (handle_review, handle_pr_conversation).
THEOREM LifecycleFollowUpAmendsItsPull == Spec /\ []Uninvited => []FollowUpAmendsItsPull
<1>1. IInv /\ FollowInv /\ [Next]_vars /\ Uninvited /\ Uninvited' => FollowInv'
  BY FollowStep
<1> QED
  BY <1>1, FollowsAtFirst, AtHomeAmends, IInvHolds, PTL DEF Spec

-----------------------------------------------------------------------------
(* First attempts on contributors' pulls, as long as nothing is said on the  *)
(* pulls the bot opens                                                       *)

Quiet(X) == \A e \in events : e.on \notin X

QuietRows(rs) == \A q \in BotPulls : rs[q] = None

\* X: threads of which nothing is heard, the pulls the bot opens among them.
QuietInv(X) ==
  /\ QuietRows(rows) /\ BotPulls \subseteq X
  /\ \A k \in Busy : handler[k].num \notin BotPulls /\ handler[k].ev.on \notin X

\* A row of another thread is written.
LEMMA UpsertQuiet ==
  ASSUME NEW rs, RowsOk(rs), QuietRows(rs), NEW t \in Threads, t \notin BotPulls,
         NEW state, NEW branch, NEW pr
  PROVE  QuietRows(Upsert(rs, t, state, branch, pr))
<1>1. \A new : QuietRows([rs EXCEPT ![t] = new])
  BY ThreadKinds DEF QuietRows, RowsOk
<1> QED
  BY <1>1 DEF Upsert

\* The state of a row is written that is there.
LEMMA SetStateQuiet ==
  ASSUME NEW rs, RowsOk(rs), QuietRows(rs), NEW t \in Threads, NEW state
  PROVE  QuietRows(SetState(rs, t, state))
BY ThreadKinds DEF QuietRows, RowsOk, SetState

\* A delivery about another thread is resolved to a row that is there.
LEMMA ResolvesQuiet ==
  ASSUME IInv, QuietRows(rows), NEW p \in Pulls, Exists(p), NEW fetched \in BOOLEAN,
         NEW found \in ResolveRow(p, fetched)
  PROVE  /\ RowsOk(found[2]) /\ QuietRows(found[2])
         /\ found[1] # None => found[1] \in Threads /\ found[1] \notin BotPulls
<1>1. RowsOk(found[2]) /\ (found[1] # None => found[1] \in Threads)
  BY ResolveOk DEF IInv
<1>2. found[1] # None => rows[found[1]] # None
  BY DEF ResolveRow, RowsOfPull, RowsOfBranch
<1>3. \A t \in Threads : t \notin BotPulls =>
        /\ \A b : QuietRows([rows EXCEPT ![t].branch = b])
        /\ \A q : QuietRows([rows EXCEPT ![t].pr = q])
  BY ThreadKinds DEF QuietRows, RowsOk, IInv
<1>4. \A t \in Threads : rows[t] # None => t \notin BotPulls
  BY DEF QuietRows
<1> DEFINE byPull(t) == <<t, IF rows[t].branch = None /\ fetched
                 THEN [rows EXCEPT ![t].branch = HeadRef(p)] ELSE rows>>
           byBranch(t) == <<t, [rows EXCEPT ![t].pr = p]>>
<1>5. QuietRows(found[2])
  <2>1. ASSUME NEW t \in RowsOfPull(rows, p), found = byPull(t)
        PROVE  QuietRows(found[2])
    BY <1>3, <1>4, <2>1 DEF RowsOfPull
  <2>2. ASSUME NEW t \in RowsOfBranch(rows, HeadRef(p)), found = byBranch(t)
        PROVE  QuietRows(found[2])
    BY <1>3, <1>4, <2>2 DEF RowsOfBranch
  <2>3. CASE found = <<None, rows>>
    BY <2>3
  <2> QED
    BY <2>1, <2>2, <2>3 DEF ResolveRow
<1> QED
  BY <1>1, <1>2, <1>5 DEF QuietRows

\* What a delivery about a pull writes, and where it goes on to.
Outcome(e, found) ==
  /\ \/ rows' = rows \/ (rows' = found[2] /\ found[1] # None)
     \/ \E u, state, branch, pr :
          /\ u = e.on \/ u = found[1]
          /\ rows' = Upsert(found[2], u, state, branch, pr) /\ found[1] # None
  /\ \/ Done(e)
     \/ \E num, branch, save, task, auth, isPull :
          /\ num = e.on \/ (num = found[1] /\ found[1] # None)
          /\ Enter(e, num, branch, save, task, auth, isPull)

\* The handlers work on other threads.
LEMMA DispatchQuiet ==
  ASSUME IInv, NEW X, QuietInv(X), Quiet(X), Dispatch
  PROVE  QuietInv(X)'
<1>0. PICK e \in events :
        \/ TriageIssue(e) \/ ReviewPr(e) \/ HandleComment(e) \/ HandleReview(e)
        \/ HandlePrConversation(e) \/ CleanupWorkspace(e) \/ RevokePrAssignment(e)
  BY DEF Dispatch
<1>1. /\ e.on \notin BotPulls /\ e.on \notin X /\ EventOk(e) /\ e.on \in Threads
      /\ e.key \in Threads /\ RowsOk(rows)
      /\ QuietRows(rows) /\ \A t \in Issues : t \in Threads /\ t \notin BotPulls
  BY ThreadKinds DEF Quiet, IInv, EventOk, Events, QuietInv
<1>2. ASSUME QuietRows(rows'),
             \/ Done(e)
             \/ \E num, branch, save, task, auth, isPull :
                  num \notin BotPulls /\ Enter(e, num, branch, save, task, auth, isPull)
      PROVE  QuietInv(X)'
  <2>1. CASE Done(e)
    BY <1>2, <2>1 DEF Done, QuietInv, QuietRows, Busy
  <2>2. ASSUME NEW num, NEW branch, NEW save, NEW task, NEW auth, NEW isPull,
               num \notin BotPulls, Enter(e, num, branch, save, task, auth, isPull)
        PROVE  QuietInv(X)'
    <3> DEFINE it == [ev |-> e, at |-> "setup", num |-> num, branch |-> branch, save |-> save,
                      task |-> task, auth |-> auth, isPull |-> isPull, busy |-> FALSE]
    <3>1. handler' = [handler EXCEPT ![e.key] = it]
      BY <2>2 DEF Enter
    <3>2. it.ev = e /\ it.num = num
      OBVIOUS
    <3> HIDE DEF it
    <3>3. handler'[e.key] = it /\ \A k \in Threads \ {e.key} : handler'[k] = handler[k]
      BY <1>1, <3>1 DEF IInv, HandlersOk
    <3>4. \A k \in Busy' : handler'[k].num \notin BotPulls /\ handler'[k].ev.on \notin X
      BY <1>1, <2>2, <3>2, <3>3 DEF Busy, QuietInv
    <3> QED
      BY <1>2, <3>4 DEF QuietInv, QuietRows
  <2> QED
    BY <1>2, <2>1, <2>2
<1>3. CASE TriageIssue(e) \/ ReviewPr(e) \/ HandleComment(e)
  <2>1. rows' = rows \/ \E state, pr : rows' = Upsert(rows, e.on, state, None, pr)
    BY <1>3 DEF TriageIssue, ReviewPr, HandleComment
  <2>2. QuietRows(rows')
    BY <1>1, <2>1, UpsertQuiet
  <2>3. \/ Done(e)
        \/ \E branch, save, task, auth, isPull : Enter(e, e.on, branch, save, task, auth, isPull)
    BY <1>3 DEF TriageIssue, ReviewPr, HandleComment
  <2> QED
    BY <1>1, <1>2, <2>2, <2>3
<1>4. CASE HandleReview(e) \/ HandlePrConversation(e)
  <2>1. e.on \in Pulls /\ Exists(e.on)
    BY <1>1, <1>4 DEF HandleReview, HandlePrConversation, EventOk
  <2>2. PICK fetched \in BOOLEAN : \E found \in ResolveRow(e.on, fetched) : Outcome(e, found)
    <3>1. CASE HandleReview(e)
      <4> DEFINE goes(num) ==
            \/ Done(e)
            \/ \E branch, save, task, auth, isPull :
                 Enter(e, num, branch, save, task, auth, isPull)
      <4>1. PICK fetched \in BOOLEAN : \E found \in ResolveRow(e.on, fetched) :
              \/ rows' = rows /\ goes(e.on)
              \/ found[1] # None /\ rows' = Reclaimed(found[2], e.on) /\ goes(e.on)
              \/ found[1] # None /\ rows' = found[2] /\ goes(found[1])
        BY <3>1 DEF HandleReview, EnterIfAnswered
      <4>2. \A found, t : goes(t) /\ (t = e.on \/ (t = found[1] /\ found[1] # None)) =>
              \/ Done(e)
              \/ \E num, branch, save, task, auth, isPull :
                   /\ num = e.on \/ (num = found[1] /\ found[1] # None)
                   /\ Enter(e, num, branch, save, task, auth, isPull)
        OBVIOUS
      <4> QED
        BY <4>1, <4>2 DEF Outcome, Reclaimed
    <3>2. CASE HandlePrConversation(e)
      <4>1. PICK fetched \in BOOLEAN : \E found \in ResolveRow(e.on, fetched) :
              \/ found[1] # None /\ ResumePull(e, found[1], found[2], fetched)
              \/ /\ rows' = rows
                 /\ \/ Done(e)
                    \/ \E branch, save, task, auth, isPull :
                         Enter(e, e.on, branch, save, task, auth, isPull)
        BY <3>2 DEF HandlePrConversation, EnterIfAnswered
      <4>2. \A found : found[1] # None /\ ResumePull(e, found[1], found[2], fetched)
                        => Outcome(e, found)
        BY DEF ResumePull, EnterIfAnswered, Reclaimed, Outcome
      <4> QED
        BY <4>1, <4>2 DEF Outcome
    <3> QED
      BY <1>4, <3>1, <3>2
  <2>3. PICK found \in ResolveRow(e.on, fetched) : Outcome(e, found)
    BY <2>2
  <2>4. /\ RowsOk(found[2]) /\ QuietRows(found[2])
        /\ found[1] # None => found[1] \in Threads /\ found[1] \notin BotPulls
    BY <1>1, <2>1, <2>3, ResolvesQuiet
  <2>5. QuietRows(rows')
    BY <1>1, <2>3, <2>4, UpsertQuiet DEF Outcome
  <2> QED
    BY <1>1, <1>2, <2>3, <2>4, <2>5 DEF Outcome
<1>5. CASE CleanupWorkspace(e)
  <2>1. rows' = rows \/ \E t \in Threads : rows' = SetState(rows, t, e.kind)
    BY <1>1, <1>5 DEF CleanupWorkspace, RowsOfPull
  <2> QED
    BY <1>1, <1>2, <1>5, <2>1, SetStateQuiet DEF CleanupWorkspace
<1>6. CASE RevokePrAssignment(e)
  <2>1. QuietRows(rows')
    BY <1>1, <1>6, ThreadKinds DEF RevokePrAssignment, QuietRows, RowsOk
  <2> QED
    BY <1>2, <1>6, <2>1 DEF RevokePrAssignment
<1> QED
  BY <1>0, <1>3, <1>4, <1>5, <1>6

\* Turns stay where they are.
LEMMA TurnQuiet ==
  ASSUME IInv, NEW X, QuietInv(X), QuietRows(rows'),
         \A k \in Busy' : k \in Busy /\ handler'[k].ev = handler[k].ev
                          /\ handler'[k].num = handler[k].num
  PROVE  QuietInv(X)'
BY DEF QuietInv, QuietRows

\* The turns and the tools write no row of a pull the bot opened.
LEMMA RunQuiet ==
  ASSUME IInv, NEW X, QuietInv(X), Run \/ Crash \/ \E e \in events : FailCleanup(e)
  PROVE  QuietInv(X)'
<1>0. HandlersOk(handler) /\ QuietRows(rows) /\ RowsOk(rows)
  BY DEF IInv, QuietInv
<1>1. ASSUME NEW k \in Threads, Prepare(k)
      PROVE  QuietInv(X)'
  <2> DEFINE h == handler[k]
  <2>1. h # None /\ h.num \notin BotPulls /\ h.num \in Threads /\ h \in Handler
    BY <1>0, <1>1 DEF Prepare, QuietInv, Busy, HandlersOk, HandlerOk, Bound
  <2>2. rows' = rows \/ \E state, branch, pr : rows' = Upsert(rows, h.num, state, branch, pr)
    BY <1>1, <2>1 DEF Prepare, Saved, Handler
  <2>3. QuietRows(rows')
    BY <1>0, <2>1, <2>2, UpsertQuiet
  <2>4. PICK new : handler' = [handler EXCEPT ![k] = new] /\ new.ev = h.ev /\ new.num = h.num
    <3> DEFINE it == [h EXCEPT !.at = "agent", !.branch = Checkout(h)]
    <3>1. handler' = [handler EXCEPT ![k] = it]
      BY <1>1 DEF Prepare
    <3>2. it.ev = h.ev /\ it.num = h.num
      BY <2>1 DEF Handler
    <3> QED
      BY <3>1, <3>2
  <2>5. \A x \in Busy' : x \in Busy /\ handler'[x].ev = handler[x].ev
                          /\ handler'[x].num = handler[x].num
    BY <1>0, <2>1, <2>4 DEF Busy, HandlersOk
  <2> QED
    BY <2>3, <2>5, TurnQuiet
<1>2. ASSUME NEW k \in Threads, Fail(k) \/ EndTurn(k)
      PROVE  QuietInv(X)'
  <2>1. rows' = rows /\ handler' = [handler EXCEPT ![k] = None]
    BY <1>2 DEF Fail, EndTurn, local
  <2> QED
    BY <1>0, <2>1, EndedHandler, TurnQuiet
<1>3. ASSUME Crash \/ \E e \in events : FailCleanup(e)
      PROVE  QuietInv(X)'
  BY <1>0, <1>3, TurnQuiet DEF Crash, FailCleanup, local, Busy
<1> QED
  BY <1>1, <1>2, <1>3 DEF Run

\* So do the tools.
LEMMA ToolQuiet ==
  ASSUME IInv, NEW X, QuietInv(X), Tool
  PROVE  QuietInv(X)'
<1>0. HandlersOk(handler) /\ QuietRows(rows) /\ RowsOk(rows)
  BY DEF IInv, QuietInv
<1>1. \A t \in Threads : rows[t] # None => \A new : QuietRows([rows EXCEPT ![t] = new])
  BY <1>0, ThreadKinds DEF QuietRows, RowsOk
<1>2. \A k \in Threads : handler[k] # None =>
        LET h == [handler[k] EXCEPT !.busy = TRUE]
        IN h.ev = handler[k].ev /\ h.num = handler[k].num /\ h.task = handler[k].task
  BY <1>0 DEF HandlersOk, Handler
<1>3. \A k \in Threads : AtAgent(k) => handler[k].num \in Threads
  BY <1>0 DEF AtAgent, HandlersOk, HandlerOk, Bound
<1>4. ASSUME NEW k \in Threads,
             \/ \E class \in {"bug", "other"} : ClassifyIssue(k, class)
             \/ ClassifyPr(k) \/ PushBranch(k) \/ StageComment(k) \/ MarkUnable(k) \/ ReproRecord(k)
             \/ CloseIssue(k)
      PROVE  QuietInv(X)'
  <2>1. handler' = handler
    BY <1>4 DEF ClassifyIssue, ClassifyPr, PushBranch, StageComment, MarkUnable, ReproRecord,
       CloseIssue, ThreadClosed, Queue
  <2>2. \/ rows' = rows
        \/ \E state : rows' = SetState(rows, handler[k].num, state) /\ AtAgent(k)
        \/ \E new : /\ rows' = [rows EXCEPT ![handler[k].num] = new]
                    /\ rows[handler[k].num] # None /\ AtAgent(k)
    BY <1>4 DEF ClassifyIssue, ClassifyPr, PushBranch, StageComment, MarkUnable, ReproRecord,
       CloseIssue, ThreadClosed, Queue, local
  <2>3. QuietRows(rows')
    BY <1>0, <1>1, <1>3, <2>2, SetStateQuiet
  <2> QED
    BY <2>1, <2>3, TurnQuiet DEF Busy
<1>5. ASSUME NEW k \in Threads, (\E p \in BotPulls : OpenPull(k, p)) \/ SubmitReview(k)
      PROVE  QuietInv(X)'
  <2>1. handler[k] # None /\ handler' = [handler EXCEPT ![k] = [handler[k] EXCEPT !.busy = TRUE]]
        /\ rows' = rows
    BY <1>5 DEF OpenPull, SubmitReview, AtAgent, local
  <2> QED
    BY <1>0, <1>2, <2>1, ChangedHandler, TurnQuiet
<1>6. ASSUME NEW k \in Threads, AbortTask(k)
      PROVE  QuietInv(X)'
  <2>1. rows' = SetState(rows, handler[k].num, "abandoned") /\ AtAgent(k)
        /\ handler' = [handler EXCEPT ![k] = None]
    BY <1>6 DEF AbortTask
  <2>2. QuietRows(rows')
    BY <1>0, <1>3, <2>1, SetStateQuiet
  <2> QED
    BY <1>0, <2>1, <2>2, EndedHandler, TurnQuiet
<1>7. ASSUME NEW s \in stray, RecordPull(s) \/ RecordReview(s)
      PROVE  QuietInv(X)'
  <2>1. Returned(s) /\ (rows' = rows \/ (rows[s.num] # None /\ s.num \in Threads /\
                          \E new : rows' = [rows EXCEPT ![s.num] = new]))
    BY <1>7 DEF RecordPull, RecordReview, IInv, StraysOk
  <2>2. QuietRows(rows')
    BY <1>0, <1>1, <2>1
  <2> QED
    BY <1>0, <2>1, <2>2, ReturnedHandlers, TurnQuiet
<1> QED
  BY <1>4, <1>5, <1>6, <1>7 DEF Tool

\* While nothing is said on the bot's pulls, they have no rows and no handlers.
LEMMA QuietStep ==
  ASSUME IInv, NEW X, QuietInv(X), Quiet(X), [Next]_vars
  PROVE  QuietInv(X)'
<1>1. CASE UNCHANGED vars
  BY <1>1, TurnQuiet DEF vars, local, Busy, QuietInv
<1>2. CASE Webhook
  <2>1. rows' = rows /\ handler' = handler
    BY <1>2 DEF Webhook, IssueOpened, IssueComment, PullComment, ReviewComment, ReviewRequested,
       Assign, Unassign, ThreadClosed, Queue, local
  <2> QED
    BY <2>1, TurnQuiet DEF Busy, QuietInv
<1> QED
  BY <1>1, <1>2, DispatchQuiet, RunQuiet, ToolQuiet DEF Next

\* The threads but for the bot's pulls keep their order meanwhile.
Spoken == Issues \union HumanPulls

\* No agent of a first attempt may push to a pull that was taken back.
LEMMA FirstTryFollows ==
  ASSUME IInv, NEW X, QuietInv(X), OrderInv(Spoken)
  PROVE  FirstTryAmendsItsOwn
<1> SUFFICES ASSUME NEW k \in Threads, AtAgent(k), handler[k].ev.attempts = 0,
                    Revoked(handler[k].num)
             PROVE  ~MayPublish(handler[k])
  BY DEF FirstTryAmendsItsOwn
<1>1. k \in Busy /\ handler[k].ev \in Outstanding /\ EventOk(handler[k].ev)
  BY OutstandingTyped DEF AtAgent, Busy, Outstanding
<1>2. handler[k].ev.on \in Spoken
  BY <1>1, ThreadKinds DEF QuietInv, EventOk, Events, Spoken
<1>3. handler[k].num = handler[k].ev.on /\ handler[k].num \in HumanPulls
  BY <1>1, <1>2 DEF OrderInv, OwnTurn, Revoked
<1>4. handler[k].num \in Spoken \ Issues
  BY <1>2, <1>3, ThreadKinds
<1>5. CASE handler[k].task = "review"
  BY <1>5 DEF MayPublish, ReviewMode
<1>6. CASE handler[k].task # "review"
  <2>1. Amends(handler[k].ev) /\ Excused(handler[k].ev, Spoken)
    BY <1>1, <1>3, <1>4, <1>6 DEF OrderInv, OwnTurn
  <2> QED
    BY <1>3, <1>4, <2>1 DEF Excused, Revoked, Behind
<1> QED
  BY <1>5, <1>6

\* While nothing is said on the pulls the bot opens: once revoke_pr_assignment has
\* run, an agent of a delivery at its first attempt may not push to the pull.
THEOREM LifecycleFirstTryAmendsItsOwn == Spec /\ []Quiet(BotPulls) => []FirstTryAmendsItsOwn
<1>1. Init => QuietInv(BotPulls) /\ OrderInv(Spoken)
  BY ThreadKinds DEF Init, QuietInv, QuietRows, OrderInv, Outstanding, Busy
<1>2. QuietInv(BotPulls) => Apart(Spoken)
  BY DEF QuietInv, QuietRows, Apart, Spoken
<1>3. IInv /\ QuietInv(BotPulls) /\ OrderInv(Spoken) /\ Quiet(BotPulls) /\ [Next]_vars
        => QuietInv(BotPulls)' /\ OrderInv(Spoken)'
  BY <1>2, OrderStep, QuietStep
<1>4. IInv /\ QuietInv(BotPulls) /\ OrderInv(Spoken) => FirstTryAmendsItsOwn
  BY FirstTryFollows
<1> QED
  BY <1>1, <1>3, <1>4, IInvHolds, PTL DEF Spec

-----------------------------------------------------------------------------
(* A tool that returns late finds its own handler, or none: an attempt at a  *)
(* delivery is made once.                                                    *)

\* The attempt that called the tool is not made again; while it lasts, it waits
\* for this one call.
CalledOnce(s) ==
  /\ s.by.n <= arrived /\ s.by \notin events
  /\ \A d \in Outstanding : d.n = s.by.n => s.by.attempts <= d.attempts
  /\ \A k \in Busy : handler[k].ev = s.by =>
       handler[k].busy /\ handler[k].num = s.num /\ \A r \in stray : r.by = s.by => r = s

Serial ==
  /\ \A d, e \in Outstanding : d.n = e.n => d = e
  /\ \A k \in Busy : handler[k].ev \notin events /\ handler[k].ev.key = k
  /\ \A e \in Outstanding : e.n <= arrived
  /\ \A s \in stray : CalledOnce(s)

\* Strays are calls made for a delivery.
LEMMA StraysTyped ==
  ASSUME IInv
  PROVE  \A s \in stray : s.by \in Events /\ s.by.n \in Nat /\ s.by.attempts \in Nat
BY LifecycleAssumption DEF IInv, StraysOk, Events

\* Deliveries are done with, handlers end or go on.
LEMMA SerialShrinks ==
  ASSUME Serial, stray' = stray, arrived' = arrived, events' \subseteq events,
         \A k \in Busy' : /\ k \in Busy /\ handler'[k].ev = handler[k].ev
                          /\ handler'[k].num = handler[k].num
                          /\ handler'[k].busy = handler[k].busy
  PROVE  Serial'
<1>1. Outstanding' \subseteq Outstanding
  BY DEF Outstanding
<1>2. \A s \in stray : CalledOnce(s)'
  BY <1>1 DEF Serial, CalledOnce
<1> QED
  BY <1>1, <1>2 DEF Serial

\* A delivery arrives.
LEMMA SerialArrival ==
  ASSUME IInv, Serial, NEW kind, NEW t, NEW under, NEW says, Queue(kind, t, under, says)
  PROVE  Serial'
<1>1. PICK new : events' = events \union {new} /\ new.n = arrived + 1
  <2> DEFINE it == [n |-> arrived + 1, kind |-> kind, on |-> t, key |-> under, says |-> says,
                    attempts |-> 0]
  <2>1. events' = events \union {it} /\ it.n = arrived + 1
    BY DEF Queue
  <2> QED
    BY <2>1
<1>2. arrived' = arrived + 1 /\ handler' = handler /\ stray' = stray
  BY DEF Queue
<1>3. /\ arrived \in Nat
      /\ \A e \in Outstanding : e.n \in Nat /\ e.n <= arrived
      /\ \A s \in stray : s.by.n \in Nat /\ s.by.n <= arrived
  BY OutstandingTyped, StraysTyped DEF Serial, CalledOnce
<1>4. Outstanding' = Outstanding \union {new} /\ Busy' = Busy
  BY <1>1, <1>2 DEF Outstanding, Busy
<1>5. /\ \A e \in Outstanding : e.n # new.n /\ e # new
      /\ \A s \in stray : s.by.n # new.n /\ s.by # new
  BY <1>1, <1>3
<1>6. \A e \in Outstanding' : e.n <= arrived'
  BY <1>1, <1>2, <1>3, <1>4
<1>7. \A s \in stray : s.by.n <= arrived'
  BY <1>2, <1>3
<1>8. \A s \in stray : CalledOnce(s)'
  BY <1>1, <1>2, <1>4, <1>5, <1>7 DEF Serial, CalledOnce
<1>9. \A k \in Busy : handler[k].ev # new
  BY <1>5 DEF Outstanding
<1>10. \A d, e \in Outstanding' : d.n = e.n => d = e
  BY <1>4, <1>5 DEF Serial
<1> QED
  BY <1>1, <1>2, <1>4, <1>6, <1>8, <1>9, <1>10 DEF Serial

\* A delivery is claimed.
LEMMA SerialClaim ==
  ASSUME IInv, Serial, NEW e \in events, Claimable(e), untouched' = untouched,
         Done(e) \/ \E num, branch, save, task, auth, isPull :
                      Enter(e, num, branch, save, task, auth, isPull)
  PROVE  Serial'
<1>1. stray' = stray /\ arrived' = arrived /\ events' = events \ {e}
  BY DEF untouched, Done, Enter
<1>2. CASE Done(e)
  BY <1>1, <1>2, SerialShrinks DEF Done, Busy
<1>3. CASE \E num, branch, save, task, auth, isPull :
             Enter(e, num, branch, save, task, auth, isPull)
  <2>1. PICK h : handler' = [handler EXCEPT ![e.key] = h] /\ h.ev = e
    <3>1. PICK num, branch, save, task, auth, isPull :
             Enter(e, num, branch, save, task, auth, isPull)
      BY <1>3
    <3> DEFINE it == [ev |-> e, at |-> "setup", num |-> num, branch |-> branch, save |-> save,
                      task |-> task, auth |-> auth, isPull |-> isPull, busy |-> FALSE]
    <3>2. handler' = [handler EXCEPT ![e.key] = it] /\ it.ev = e
      BY <3>1 DEF Enter
    <3> QED
      BY <3>2
  <2>2. /\ e.key \in Threads /\ handler[e.key] = None /\ handler'[e.key] = h
        /\ \A k \in Threads \ {e.key} : handler'[k] = handler[k]
    BY <2>1 DEF IInv, EventOk, Events, HandlersOk, Claimable
  <2>3. \A k \in Busy' : (k = e.key /\ handler'[k] = h) \/ (k \in Busy /\ handler'[k] = handler[k])
    BY <2>2 DEF Busy
  <2>4. Outstanding' \subseteq Outstanding
    BY <1>1, <2>1, <2>3 DEF Outstanding
  <2>5. \A s \in stray : s.by # e
    BY DEF Serial, CalledOnce
  <2>6. \A s \in stray : CalledOnce(s)'
    BY <1>1, <2>1, <2>3, <2>4, <2>5 DEF Serial, CalledOnce
  <2>7. \A k \in Busy' : handler'[k].ev \notin events' /\ handler'[k].ev.key = k
    BY <1>1, <2>1, <2>3 DEF Serial
  <2> QED
    BY <1>1, <2>4, <2>6, <2>7 DEF Serial
<1> QED
  BY <1>2, <1>3

\* A delivery is given back: its next attempt is a new one.
LEMMA SerialGiveBack ==
  ASSUME IInv, Serial, NEW e \in Outstanding, GiveBack(e), stray' = stray, arrived' = arrived,
         \A k \in Busy' : k \in Busy /\ handler'[k] = handler[k] /\ handler[k].ev # e
  PROVE  Serial'
<1>1. e \in Events /\ e.attempts \in Nat /\ e.n <= arrived
  BY OutstandingTyped DEF Serial
<1>2. CASE events' = events \ {e}
  BY <1>2, SerialShrinks
<1>3. CASE events' = (events \ {e}) \union {[e EXCEPT !.attempts = @ + 1]}
  <2>1. PICK new : /\ events' = (events \ {e}) \union {new}
                   /\ new.n = e.n /\ new.attempts = e.attempts + 1
    <3> DEFINE it == [e EXCEPT !.attempts = @ + 1]
    <3>1. it.n = e.n /\ it.attempts = e.attempts + 1
      BY <1>1 DEF Events
    <3> QED
      BY <1>3, <3>1
  <2>2. \A d \in Outstanding' : d = new \/ (d \in Outstanding /\ d # e)
    BY <2>1 DEF Outstanding
  <2>3. \A d \in Outstanding : d # e => d.n # e.n /\ d # new
    BY <2>1 DEF Serial
  <2>4. \A d, x \in Outstanding' : d.n = x.n => d = x
    BY <2>1, <2>2, <2>3 DEF Serial
  <2>5. \A k \in Busy' : handler'[k].ev \notin events' /\ handler'[k].ev.key = k
    BY <2>1, <2>3 DEF Serial, Outstanding
  <2>6. ASSUME NEW s \in stray
        PROVE  CalledOnce(s)'
    <3>1. s.by.attempts \in Nat /\ (s.by.n = e.n => s.by.attempts <= e.attempts)
      BY StraysTyped DEF Serial, CalledOnce
    <3>2. s.by # new /\ (s.by.n = e.n => s.by.attempts <= new.attempts)
      BY <1>1, <2>1, <3>1
    <3>3. s.by \notin events'
      BY <2>1, <3>2 DEF Serial, CalledOnce
    <3>4. \A d \in Outstanding' : d.n = s.by.n => s.by.attempts <= d.attempts
      BY <2>1, <2>2, <3>2 DEF Serial, CalledOnce
    <3> QED
      BY <3>3, <3>4 DEF Serial, CalledOnce
  <2>7. \A d \in Outstanding' : d.n <= arrived'
    BY <1>1, <2>1, <2>2 DEF Serial
  <2> QED
    BY <2>4, <2>5, <2>6, <2>7 DEF Serial
<1> QED
  BY <1>2, <1>3 DEF GiveBack

\* A handler calls a tool.
LEMMA SerialCall ==
  ASSUME IInv, Serial, NEW k \in Threads, AtAgent(k), NEW s,
         s.by = handler[k].ev, s.num = handler[k].num, stray' = stray \union {s},
         events' = events, arrived' = arrived, handler' = [handler EXCEPT ![k].busy = TRUE]
  PROVE  Serial'
<1> DEFINE h == [handler[k] EXCEPT !.busy = TRUE]
<1>1. /\ handler[k] # None /\ handler[k] \in Handler /\ k \in Busy /\ ~handler[k].busy
      /\ handler \in [Threads -> Handler \union {None}]
  BY DEF AtAgent, IInv, HandlersOk, HandlerOk, Busy
<1>2. /\ h.ev = handler[k].ev /\ h.num = handler[k].num /\ h.busy
      /\ handler' = [handler EXCEPT ![k] = h]
  BY <1>1 DEF Handler
<1> HIDE DEF h
<1>3. handler'[k] = h /\ \A x \in Threads \ {k} : handler'[x] = handler[x]
  BY <1>1, <1>2
<1>4. \A x \in Busy' : /\ x \in Busy /\ handler'[x].ev = handler[x].ev
                       /\ handler'[x].num = handler[x].num
                       /\ handler[x].busy => handler'[x].busy
  BY <1>1, <1>2, <1>3 DEF Busy
<1>5. Outstanding' \subseteq Outstanding
  BY <1>4 DEF Outstanding
<1>6. handler[k].ev \in Outstanding /\ \A d \in Outstanding : d.attempts \in Nat
  BY <1>1, OutstandingTyped DEF Outstanding
<1>7. \A r \in stray : r.by # s.by
  BY <1>1 DEF Serial, CalledOnce
<1>8. \A x \in Busy' : handler'[x].ev = s.by => x = k
  BY <1>1, <1>4 DEF Serial
<1>9. CalledOnce(s)'
  <2>1. s.by.n <= arrived' /\ s.by \notin events'
    BY <1>1, <1>6 DEF Serial
  <2>2. \A d \in Outstanding' : d.n = s.by.n => s.by.attempts <= d.attempts
    BY <1>5, <1>6 DEF Serial
  <2> QED
    BY <1>2, <1>3, <1>7, <1>8, <2>1, <2>2 DEF CalledOnce
<1>10. \A r \in stray : CalledOnce(r)'
  BY <1>4, <1>5, <1>7 DEF Serial, CalledOnce
<1> QED
  BY <1>4, <1>5, <1>9, <1>10 DEF Serial

\* A tool returns.
LEMMA SerialReturn ==
  ASSUME IInv, Serial, NEW s \in stray, Returned(s), events' = events, arrived' = arrived
  PROVE  Serial'
<1>1. \A x \in Threads : /\ handler[x] = None => handler'[x] = None
                         /\ handler[x] # None /\ handler[x].ev # s.by => handler'[x] = handler[x]
  BY DEF Returned
<1>2. \A x \in Busy' : x \in Busy /\ handler'[x].ev = handler[x].ev
                          /\ handler'[x].num = handler[x].num
                          /\ handler'[x].task = handler[x].task
  BY ReturnedHandlers DEF IInv
<1>3. Outstanding' \subseteq Outstanding
  BY <1>2 DEF Outstanding
<1>4. stray' = stray \ {s}
  BY DEF Returned
<1>5. ASSUME NEW r \in stray'
      PROVE  CalledOnce(r)'
  <2>1. CalledOnce(r) /\ r # s
    BY <1>4, <1>5 DEF Serial
  <2>2. \A k \in Busy' : handler'[k].ev = r.by => handler'[k] = handler[k]
    BY <1>1, <1>2, <1>4, <1>5, <2>1 DEF Serial, CalledOnce, Busy
  <2> QED
    BY <1>2, <1>3, <1>4, <2>1, <2>2 DEF CalledOnce
<1> QED
  BY <1>2, <1>3, <1>5 DEF Serial

\* A dispatch claims a delivery.
LEMMA DispatchClaims ==
  ASSUME Dispatch
  PROVE  \E e \in events :
           /\ Claimable(e) /\ untouched' = untouched
           /\ Done(e) \/ \E num, branch, save, task, auth, isPull :
                           Enter(e, num, branch, save, task, auth, isPull)
<1>1. PICK e \in events :
        \/ TriageIssue(e) \/ ReviewPr(e) \/ HandleComment(e) \/ HandleReview(e)
        \/ HandlePrConversation(e) \/ CleanupWorkspace(e) \/ RevokePrAssignment(e)
  BY DEF Dispatch
<1>2. Claimable(e) /\ untouched' = untouched
  BY <1>1 DEF TriageIssue, ReviewPr, HandleComment, HandleReview, HandlePrConversation,
     CleanupWorkspace, RevokePrAssignment
<1>3. Done(e) \/ \E num, branch, save, task, auth, isPull :
                   Enter(e, num, branch, save, task, auth, isPull)
  <2>1. CASE TriageIssue(e) \/ ReviewPr(e) \/ HandleComment(e)
    BY <2>1 DEF TriageIssue, ReviewPr, HandleComment
  <2>2. CASE HandleReview(e)
    BY <2>2 DEF HandleReview, EnterIfAnswered
  <2>3. CASE HandlePrConversation(e)
    BY <2>3, ResumedOrDone DEF HandlePrConversation, EnterIfAnswered
  <2>4. CASE CleanupWorkspace(e) \/ RevokePrAssignment(e)
    BY <2>4 DEF CleanupWorkspace, RevokePrAssignment
  <2> QED
    BY <1>1, <2>1, <2>2, <2>3, <2>4
<1> QED
  BY <1>2, <1>3

\* Every step keeps attempts apart.
LEMMA SerialStep ==
  ASSUME IInv, Serial, [Next]_vars
  PROVE  Serial'
<1>0. HandlersOk(handler)
  BY DEF IInv
<1>1. ASSUME events' = events, stray' = stray, arrived' = arrived, handler' = handler
      PROVE  Serial'
  BY <1>1, SerialShrinks DEF Busy
<1>2. ASSUME NEW t, NEW how, ThreadClosed(t, how)
      PROVE  Serial'
  BY <1>2, SerialArrival DEF ThreadClosed
<1>3. CASE Webhook
  <2>1. ASSUME NEW p, Assign(p)
        PROVE  Serial'
    BY <1>1, <2>1 DEF Assign
  <2> QED
    BY <1>2, <1>3, <2>1, SerialArrival DEF Webhook, IssueOpened, IssueComment, PullComment,
       ReviewComment, ReviewRequested, Unassign
<1>4. CASE Dispatch
  BY <1>4, DispatchClaims, SerialClaim
<1>5. ASSUME NEW k \in Threads, Prepare(k)
      PROVE  Serial'
  <2> DEFINE h == [handler[k] EXCEPT !.at = "agent", !.branch = Checkout(handler[k])]
  <2>1. handler[k] # None /\ handler' = [handler EXCEPT ![k] = h]
    BY <1>5 DEF Prepare
  <2>2. h.ev = handler[k].ev /\ h.num = handler[k].num /\ h.busy = handler[k].busy
    BY <1>0, <2>1 DEF HandlersOk, Handler
  <2> HIDE DEF h
  <2>3. \A x \in Busy' : /\ x \in Busy /\ handler'[x].ev = handler[x].ev
                         /\ handler'[x].num = handler[x].num /\ handler'[x].busy = handler[x].busy
    BY <1>0, <2>1, <2>2 DEF HandlersOk, Busy
  <2> QED
    BY <1>5, <2>3, SerialShrinks DEF Prepare
<1>6. ASSUME NEW k \in Threads, Fail(k)
      PROVE  Serial'
  <2>1. /\ k \in Busy /\ GiveBack(handler[k].ev) /\ stray' = stray /\ arrived' = arrived
        /\ handler' = [handler EXCEPT ![k] = None]
    BY <1>6 DEF Fail, Busy
  <2>2. \A x \in Busy' : x \in Busy /\ handler'[x] = handler[x] /\ x # k
    BY <1>0, <2>1 DEF HandlersOk, Busy
  <2>3. \A x \in Busy' : handler[x].ev # handler[k].ev
    BY <2>1, <2>2 DEF Serial
  <2>4. handler[k].ev \in Outstanding
    BY <2>1 DEF Outstanding
  <2> QED
    BY <2>1, <2>2, <2>3, <2>4, SerialGiveBack
<1>7. ASSUME NEW k \in Threads, EndTurn(k) \/ AbortTask(k)
      PROVE  Serial'
  <2>1. /\ handler' = [handler EXCEPT ![k] = None] /\ events' = events /\ stray' = stray
        /\ arrived' = arrived
    BY <1>7 DEF EndTurn, AbortTask
  <2> QED
    BY <1>0, <2>1, EndedHandler, SerialShrinks
<1>8. CASE Crash
  <2>1. Busy' = {} /\ Outstanding' = Outstanding /\ stray' = {} /\ arrived' = arrived
    BY <1>8 DEF Crash, Busy, Outstanding
  <2> QED
    BY <2>1 DEF Serial
<1>9. ASSUME NEW e \in events, FailCleanup(e)
      PROVE  Serial'
  <2>1. GiveBack(e) /\ stray' = stray /\ arrived' = arrived /\ handler' = handler
        /\ e \in Outstanding
    BY <1>9 DEF FailCleanup, Outstanding
  <2>2. \A x \in Busy' : x \in Busy /\ handler'[x] = handler[x] /\ handler[x].ev # e
    BY <2>1 DEF Serial, Busy
  <2> QED
    BY <2>1, <2>2, SerialGiveBack
<1>10. ASSUME NEW k \in Threads, (\E p \in BotPulls : OpenPull(k, p)) \/ SubmitReview(k)
       PROVE  Serial'
  <2>1. PICK s : /\ s.by = handler[k].ev /\ s.num = handler[k].num /\ stray' = stray \union {s}
    <3> DEFINE of(tool, p) == [tool |-> tool, num |-> handler[k].num, pull |-> p,
                               by |-> handler[k].ev]
    <3>1. \E tool, p : stray' = stray \union {of(tool, p)}
      BY <1>10 DEF OpenPull, SubmitReview
    <3>2. \A tool, p : of(tool, p).by = handler[k].ev /\ of(tool, p).num = handler[k].num
      OBVIOUS
    <3> QED
      BY <3>1, <3>2
  <2>2. /\ AtAgent(k) /\ events' = events /\ arrived' = arrived
        /\ handler' = [handler EXCEPT ![k].busy = TRUE]
    BY <1>10 DEF OpenPull, SubmitReview
  <2> QED
    BY <2>1, <2>2, SerialCall
<1>11. ASSUME NEW s \in stray, RecordPull(s) \/ RecordReview(s)
       PROVE  Serial'
  BY <1>11, SerialReturn DEF RecordPull, RecordReview
<1>12. ASSUME NEW k \in Threads,
              \/ \E class \in {"bug", "other"} : ClassifyIssue(k, class)
              \/ ClassifyPr(k) \/ PushBranch(k) \/ StageComment(k) \/ MarkUnable(k)
              \/ ReproRecord(k)
       PROVE  Serial'
  BY <1>1, <1>12 DEF ClassifyIssue, ClassifyPr, PushBranch, StageComment, MarkUnable, ReproRecord
<1>13. CASE Tool
  BY <1>2, <1>7, <1>10, <1>11, <1>12, <1>13 DEF Tool, CloseIssue
<1>14. CASE UNCHANGED vars
  BY <1>1, <1>14 DEF vars
<1> QED
  BY <1>3, <1>4, <1>5, <1>6, <1>7, <1>8, <1>9, <1>13, <1>14 DEF Next, Run

\* Attempts stay apart for the life of the process.
LEMMA SerialHolds == Spec => []Serial
<1>1. Init => Serial
  BY DEF Init, Serial, Outstanding, Busy
<1> QED
  BY <1>1, SerialStep, IInvHolds, PTL DEF Spec

-----------------------------------------------------------------------------
(* The bot's pulls lead to the rows of their issues, as long as nobody asks  *)
(* for a review                                                              *)

\* The row of the issue does not name its branch yet.
Unsaved(i) == rows[i] = None \/ rows[i].branch = None

\* A handler has the row it works on, unless it is to make it.
Rooted(h) ==
  h.num \in Issues \/ h.at = "agent" \/ h.save \in {"no", "moved"} => rows[h.num] # None

Makes(h, i) == h.num = i /\ h.at = "setup" /\ h.save = "reproducing"

\* Before the first failure, the branch is saved before anything is published.
Fresh(i) ==
  /\ \A p \in BotPulls : from[p] # Work(i)
  /\ rows[i] # None => i \in Busy /\ Makes(handler[i], i)
  /\ \A k \in Busy \ {i} : handler[k].num # i

OpenFrom(i) == {p \in BotPulls : github[p] = "open" /\ from[p] = Work(i)}
Named(i) == RowsOfBranch(rows, Work(i)) # {}
Opening(i) == {s \in stray : s.tool = "open" /\ s.num = i}

\* After it, the issue's own handler may publish an unsaved branch; then the pull is
\* recorded, or about to be.
Recorded(i) ==
  /\ \A s \in Opening(i) : /\ i \in Busy /\ handler[i].ev = s.by
                           /\ \A p \in OpenFrom(i) : p = s.pull \/ Named(i)
  /\ \A p \in OpenFrom(i) : \/ rows[i] # None /\ rows[i].pr = p
                            \/ \E s \in Opening(i) : s.pull = p
                            \/ Named(i)

FoundInv ==
  /\ \A k \in Busy : Rooted(handler[k])
  /\ \A i \in Issues : Unsaved(i) =>
       /\ faults = 0 => Fresh(i)
       /\ faults < 2 => /\ \A k \in Busy \ {i} : handler[k].num = i => Makes(handler[k], i)
                        /\ Recorded(i)

\* Rows are not lost, nor the branches they name; a row without a branch keeps its pull.
Retains(r, s) ==
  \A t \in Threads : r[t] # None =>
    /\ s[t] # None
    /\ r[t].branch # None => s[t].branch = r[t].branch

Keeps(r, s) ==
  \A t \in Threads : r[t] # None /\ s[t] # None /\ s[t].branch = None => s[t].pr = r[t].pr

Within(r, s) == \A t \in Threads : s[t] # None => r[t] # None

\* The table that is not written to.
LEMMA SameTable ==
  ASSUME NEW r
  PROVE  Retains(r, r) /\ Keeps(r, r) /\ Within(r, r)
BY DEF Retains, Keeps, Within

\* Two writes.
LEMMA WritesCompose ==
  ASSUME NEW r, NEW s, NEW u, Retains(r, s), Retains(s, u), Keeps(r, s), Keeps(s, u)
  PROVE  /\ Retains(r, u) /\ Keeps(r, u)
         /\ Within(r, s) /\ Within(s, u) => Within(r, u)
BY DEF Retains, Keeps, Within

\* upsert_issue loses nothing.
LEMMA UpsertRetains ==
  ASSUME NEW r, RowsOk(r), NEW t \in Threads, NEW state \in States,
         NEW branch \in Mine(t) \union {None}, NEW pr \in Pulls \union {None}, HostedOk,
         branch = None \/ r[t] = None \/ r[t].branch \in {None, branch},
         pr # None => branch # None
  PROVE  LET u == Upsert(r, t, state, branch, pr)
         IN /\ Retains(r, u) /\ Keeps(r, u)
            /\ r[t] # None => Within(r, u)
            /\ \A x \in Threads \ {t} : u[x] = r[x]
            /\ u[t] # None
            /\ u[t].branch = None <=> branch = None /\ (r[t] = None \/ r[t].branch = None)
<1> DEFINE old == r[t]
           new == IF old = None
             THEN [state |-> state, branch |-> branch, pr |-> pr, class |-> "none"]
             ELSE [state |-> state,
                   branch |-> IF branch = None THEN old.branch ELSE branch,
                   pr |-> IF pr = None THEN old.pr ELSE pr, class |-> old.class]
<1>1. old # None => old \in Row
  BY DEF RowsOk, RowOk
<1>2. branch \in Branches \union {None}
  BY MineTyped
<1>3. new \in Row
  BY <1>1, <1>2 DEF Row
<1>4. /\ new # None
      /\ new.branch = IF branch = None /\ old # None THEN old.branch ELSE branch
      /\ new.pr = IF pr = None /\ old # None THEN old.pr ELSE pr
  BY <1>3, NamesOfThreads
<1>5. Upsert(r, t, state, branch, pr) = [r EXCEPT ![t] = new]
  BY DEF Upsert
<1> HIDE DEF new
<1>6. \A x \in Threads : [r EXCEPT ![t] = new][x] = IF x = t THEN new ELSE r[x]
  BY DEF RowsOk
<1> QED
  BY <1>4, <1>5, <1>6 DEF Retains, Keeps, Within

\* set_issue_state loses nothing.
LEMMA SetStateRetains ==
  ASSUME NEW r, RowsOk(r), NEW t \in Threads, NEW state \in States
  PROVE  Retains(r, SetState(r, t, state)) /\ Keeps(r, SetState(r, t, state))
         /\ Within(r, SetState(r, t, state))
<1>1. CASE r[t] = None
  BY <1>1, SameTable DEF SetState
<1>2. CASE r[t] # None
  <2> DEFINE new == [r[t] EXCEPT !.state = state]
  <2>1. SetState(r, t, state) = [r EXCEPT ![t] = new]
    BY <1>2 DEF SetState
  <2>2. new.branch = r[t].branch /\ new.pr = r[t].pr /\ new # None
    <3>1. new.branch = r[t].branch /\ new.pr = r[t].pr /\ new \in Row
      BY <1>2 DEF RowsOk, RowOk, Row
    <3> QED
      BY <3>1, NamesOfThreads
  <2> HIDE DEF new
  <2>3. \A x \in Threads : SetState(r, t, state)[x] = IF x = t THEN new ELSE r[x]
    BY <2>1 DEF RowsOk
  <2> HIDE DEF SetState
  <2> QED
    BY <1>2, <2>2, <2>3 DEF Retains, Keeps, Within
<1> QED
  BY <1>1, <1>2

\* A branch that a row names stays named.
LEMMA NamedStays ==
  ASSUME NEW i \in Issues, Retains(rows, rows'), Named(i)
  PROVE  Named(i)'
<1>1. PICK t \in Threads : rows[t] # None /\ rows[t].branch = Work(i)
  BY DEF Named, RowsOfBranch
<1>2. Work(i) # None
  BY NamesOfThreads, ThreadKinds
<1>3. rows'[t] # None /\ rows'[t].branch = Work(i)
  BY <1>1, <1>2 DEF Retains
<1> QED
  BY <1>3 DEF Named, RowsOfBranch

\* A row that is still to name its branch had still to before.
LEMMA UnsavedBefore ==
  ASSUME NEW i \in Issues, Retains(rows, rows'), Unsaved(i)'
  PROVE  Unsaved(i)
BY ThreadKinds DEF Retains, Unsaved

\* A step that publishes nothing and returns to no gh_open_pr.
Publishes == \/ from' # from
             \/ \E p \in BotPulls : github'[p] = "open" /\ github[p] # "open"
             \/ \E s : s.tool = "open" /\ ~(s \in stray' <=> s \in stray)

\* Busy handlers stay with their deliveries.
BusyStay == \A k \in Busy : handler[k].busy => k \in Busy' /\ handler'[k].ev = handler[k].ev

\* What is recorded stays so.
LEMMA RecordedStays ==
  ASSUME IInv, Serial, NEW i \in Issues, Unsaved(i)', Recorded(i), ~Publishes,
         Retains(rows, rows'), Keeps(rows, rows'), BusyStay
  PROVE  Recorded(i)'
<1>1. Opening(i)' = Opening(i) /\ Work(i)' = Work(i)
  BY DEF Opening, Publishes
<1>2. OpenFrom(i)' \subseteq OpenFrom(i)
  BY DEF OpenFrom, Publishes
<1>3. ASSUME NEW s \in Opening(i)
      PROVE  /\ i \in Busy' /\ handler'[i].ev = s.by
             /\ \A p \in OpenFrom(i)' : p = s.pull \/ Named(i)'
  <2>1. i \in Busy /\ handler[i].ev = s.by /\ \A p \in OpenFrom(i) : p = s.pull \/ Named(i)
    BY DEF Recorded
  <2>2. handler[i].busy
    BY <2>1 DEF Serial, CalledOnce, Opening
  <2> QED
    BY <1>2, <2>1, <2>2, NamedStays DEF BusyStay
<1>4. ASSUME NEW p \in OpenFrom(i)'
      PROVE  \/ rows'[i] # None /\ rows'[i].pr = p
             \/ \E s \in Opening(i) : s.pull = p
             \/ Named(i)'
  <2>1. CASE rows[i] # None /\ rows[i].pr = p
    <3>1. rows'[i] # None /\ rows'[i].branch = None
      BY <2>1, ThreadKinds DEF Retains, Unsaved
    <3> QED
      BY <2>1, <3>1, ThreadKinds DEF Keeps
  <2>2. CASE Named(i)
    BY <2>2, NamedStays
  <2> QED
    BY <1>2, <2>1, <2>2 DEF Recorded
<1> QED
  BY <1>1, <1>3, <1>4 DEF Recorded

\* The same work, apart from its progress in a tool.
SameWork(h, g) == g.num = h.num /\ g.at = h.at /\ g.save = h.save

\* A step that makes no row and starts no handler, and ends only handlers that are
\* through with their set-up.
LEMMA FoundKept ==
  ASSUME IInv, FoundInv, faults' = faults, Retains(rows, rows'), Within(rows, rows'),
         \A k \in Busy' : k \in Busy /\ SameWork(handler[k], handler'[k]),
         \A k \in Busy : handler[k].at = "setup" => k \in Busy',
         \A i \in Issues, p \in BotPulls :
           Unsaved(i) /\ faults = 0 /\ Fresh(i) => from'[p] # Work(i),
         \A i \in Issues : Unsaved(i) /\ Unsaved(i)' /\ faults < 2 => Recorded(i)'
  PROVE  FoundInv'
<1>1. ASSUME NEW k \in Busy'
      PROVE  Rooted(handler[k])'
  <2>1. Rooted(handler[k]) /\ handler[k].num \in Threads
    BY DEF FoundInv, Busy, IInv, HandlersOk, HandlerOk, Bound
  <2> QED
    BY <2>1 DEF Rooted, SameWork, Retains
<1>2. ASSUME NEW i \in Issues, Unsaved(i)'
      PROVE  /\ faults' = 0 => Fresh(i)'
             /\ faults' < 2 =>
                  /\ \A k \in Busy' \ {i} : handler'[k].num = i => Makes(handler'[k], i)
                  /\ Recorded(i)'
  <2>1. Unsaved(i) /\ i \in Threads
    BY <1>2, UnsavedBefore, ThreadKinds
  <2>2. ASSUME faults' = 0
        PROVE  Fresh(i)'
    <3>1. Fresh(i)
      BY <2>1, <2>2 DEF FoundInv
    <3>2. \A p \in BotPulls : from'[p] # Work(i)
      BY <2>1, <2>2, <3>1
    <3>3. rows'[i] # None => i \in Busy' /\ Makes(handler'[i], i)
      BY <2>1, <3>1 DEF Fresh, Within, Makes, SameWork
    <3>4. \A k \in Busy' \ {i} : handler'[k].num # i
      BY <3>1 DEF Fresh, SameWork
    <3> QED
      BY <3>2, <3>3, <3>4 DEF Fresh, Makes
  <2>3. ASSUME faults' < 2
        PROVE  \A k \in Busy' \ {i} : handler'[k].num = i => Makes(handler'[k], i)
    BY <2>1, <2>3 DEF FoundInv, SameWork, Makes
  <2> QED
    BY <1>2, <2>1, <2>2, <2>3
<1> QED
  BY <1>1, <1>2 DEF FoundInv, Makes

\* Such a step that neither publishes nor records a pull.
LEMMA FoundStays ==
  ASSUME IInv, Serial, FoundInv, ~Publishes, faults' = faults,
         Retains(rows, rows'), Keeps(rows, rows'), Within(rows, rows'), BusyStay,
         \A k \in Busy' : k \in Busy /\ SameWork(handler[k], handler'[k]),
         \A k \in Busy : handler[k].at = "setup" => k \in Busy'
  PROVE  FoundInv'
<1>1. \A i \in Issues, p \in BotPulls :
        Unsaved(i) /\ faults = 0 /\ Fresh(i) => from'[p] # Work(i)
  BY DEF Fresh, Publishes
<1>2. \A i \in Issues : Unsaved(i) /\ Unsaved(i)' /\ faults < 2 => Recorded(i)'
  BY RecordedStays DEF FoundInv
<1> QED
  BY <1>1, <1>2, FoundKept

GoesTo(e, num, branch, save) ==
  \E task \in Tasks, auth \in BOOLEAN, isPull \in BOOLEAN :
    Enter(e, num, branch, save, task, auth, isPull)

\* A handler is entered.
LEMMA FoundEnter ==
  ASSUME IInv, Serial, FoundInv, OrderInv(Issues), HomeRows(rows), NEW e \in events, Claimable(e),
         untouched' = untouched, Retains(rows, rows'), Keeps(rows, rows'),
         NEW num \in Threads, NEW branch \in Branches,
         NEW save \in {"no", "moved"} \union States, GoesTo(e, num, branch, save),
         num \in Issues \/ save \in {"no", "moved"} => rows'[num] # None,
         \A i \in Issues : num = i /\ Unsaved(i)' =>
           \/ e.key = i
           \/ save = "reproducing" /\ e.on \in BotPulls /\ rows[i] # None /\ rows[i].pr = e.on,
         \A i \in Issues : rows'[i] # None /\ rows[i] = None =>
           e.key = i /\ num = i /\ save = "reproducing"
  PROVE  FoundInv'
<1>0. /\ github' = github /\ from' = from /\ faults' = faults /\ stray' = stray
      /\ e.key \in Threads /\ handler[e.key] = None
      /\ handler \in [Threads -> Handler \union {None}]
  BY DEF untouched, hosted, IInv, EventOk, Events, HandlersOk, Claimable
<1>1. PICK h : /\ handler' = [handler EXCEPT ![e.key] = h]
               /\ h.num = num /\ h.at = "setup" /\ h.save = save /\ h # None
  <2>0. PICK task \in Tasks, auth \in BOOLEAN, isPull \in BOOLEAN :
          Enter(e, num, branch, save, task, auth, isPull)
    BY DEF GoesTo
  <2> DEFINE it == [ev |-> e, at |-> "setup", num |-> num, branch |-> branch, save |-> save,
                    task |-> task, auth |-> auth, isPull |-> isPull, busy |-> FALSE]
  <2>1. handler' = [handler EXCEPT ![e.key] = it]
    BY <2>0 DEF Enter
  <2>2. it.num = num /\ it.at = "setup" /\ it.save = save
    OBVIOUS
  <2>3. it \in Handler
    BY DEF IInv, EventOk, Handler
  <2> QED
    BY <2>1, <2>2, <2>3, NamesOfThreads
<1>2. handler'[e.key] = h /\ \A k \in Threads \ {e.key} : handler'[k] = handler[k]
  BY <1>0, <1>1
<1>3. /\ \A k \in Busy' : k = e.key \/ (k \in Busy /\ k # e.key /\ handler'[k] = handler[k])
      /\ \A k \in Busy : k \in Busy' /\ k # e.key /\ handler'[k] = handler[k]
  BY <1>0, <1>2 DEF Busy
<1>4. ~Publishes /\ BusyStay
  BY <1>0, <1>3 DEF Publishes, BusyStay
<1>5. ASSUME NEW k \in Busy'
      PROVE  Rooted(handler[k])'
  <2>1. CASE k = e.key
    BY <1>1, <1>2, <2>1 DEF Rooted
  <2>2. CASE k # e.key
    <3>1. k \in Busy /\ handler'[k] = handler[k] /\ handler[k].num \in Threads
      BY <1>3, <2>2 DEF Busy, IInv, HandlersOk, HandlerOk, Bound
    <3> QED
      BY <3>1 DEF FoundInv, Rooted, Retains
  <2> QED
    BY <2>1, <2>2
<1>6. ASSUME NEW i \in Issues, Unsaved(i)'
      PROVE  /\ faults' = 0 => Fresh(i)'
             /\ faults' < 2 =>
                  /\ \A k \in Busy' \ {i} : handler'[k].num = i => Makes(handler'[k], i)
                  /\ Recorded(i)'
  <2>1. Unsaved(i) /\ i \in Threads
    BY <1>6, UnsavedBefore, ThreadKinds
  <2>2. \A k \in Busy' \ {i} : handler'[k].num = i =>
          (k \in Busy /\ handler'[k] = handler[k]) \/ (k = e.key /\ Makes(handler'[k], i))
    BY <1>1, <1>2, <1>3, <1>6 DEF Makes
  <2>3. ASSUME faults' = 0
        PROVE  Fresh(i)'
    <3>1. Fresh(i)
      BY <1>0, <2>1, <2>3 DEF FoundInv
    <3>2. \A p \in BotPulls : from'[p] # Work(i)
      BY <1>0, <3>1 DEF Fresh
    <3>3. rows'[i] # None => i \in Busy' /\ Makes(handler'[i], i)
      <4>1. CASE rows[i] # None
        BY <1>3, <3>1, <4>1 DEF Fresh
      <4>2. CASE rows[i] = None /\ rows'[i] # None
        <5>1. e.key = i /\ Makes(h, i)
          BY <1>1, <4>2 DEF Makes
        <5> QED
          BY <1>1, <1>2, <2>1, <5>1 DEF Busy
      <4> QED
        BY <4>1, <4>2
    <3>4. ASSUME NEW k \in Busy' \ {i}, handler'[k].num = i
          PROVE  FALSE
      <4>1. k = e.key
        BY <1>3, <3>1, <3>4 DEF Fresh
      <4>2. num = i /\ e.key # i
        BY <1>1, <1>2, <3>4, <4>1
      <4>3. e.on \in BotPulls /\ rows[i] # None /\ rows[i].pr = e.on
        BY <1>6, <4>2
      <4>4. e.on # None
        BY <4>3, NamesOfThreads, ThreadKinds
      <4>5. from[e.on] = Work(i)
        BY <2>1, <4>3, <4>4 DEF HomeRows, HomeRow, Home
      <4> QED
        BY <3>1, <4>3, <4>5 DEF Fresh
    <3> QED
      BY <3>2, <3>3, <3>4 DEF Fresh, Makes
  <2>4. ASSUME faults' < 2
        PROVE  \A k \in Busy' \ {i} : handler'[k].num = i => Makes(handler'[k], i)
    BY <1>0, <2>1, <2>2, <2>4 DEF FoundInv
  <2>5. ASSUME faults' < 2
        PROVE  Recorded(i)'
    BY <1>0, <1>4, <1>6, <2>1, <2>5, RecordedStays DEF FoundInv
  <2> QED
    BY <2>3, <2>4, <2>5
<1> QED
  BY <1>5, <1>6 DEF FoundInv, Makes

\* A dispatch that ends at once.
LEMMA FoundDone ==
  ASSUME IInv, Serial, FoundInv, untouched' = untouched, NEW e, Done(e),
         Retains(rows, rows'), Keeps(rows, rows'), Within(rows, rows')
  PROVE  FoundInv'
<1>1. ~Publishes /\ faults' = faults /\ handler' = handler
  BY DEF untouched, hosted, Publishes, Done
<1> QED
  BY <1>1, FoundStays DEF BusyStay, SameWork, Busy

\* A delivery about an issue makes or keeps the issue's row.
LEMMA IssueDispatchFound ==
  ASSUME IInv, Serial, FoundInv, FollowInv, OrderInv(Issues), NEW e \in events,
         TriageIssue(e) \/ HandleComment(e)
  PROVE  FoundInv'
<1> DEFINE t == e.on
<1>1. /\ t \in Issues /\ t \in Threads /\ EventOk(e) /\ e.key = t /\ Claimable(e)
      /\ untouched' = untouched /\ HomeRows(rows) /\ e.says.authorizes \in BOOLEAN
  <2>1. EventOk(e) /\ e \in Outstanding
    BY DEF IInv, Outstanding
  <2>2. t \in Issues /\ Claimable(e) /\ untouched' = untouched
    BY <2>1 DEF TriageIssue, HandleComment, EventOk
  <2> QED
    BY <2>1, <2>2, ThreadKinds DEF OrderInv, Placed, FollowInv, EventOk, Events, Directives
<1>2. Work(t) \in Branches /\ Work(t) # None
  BY <1>1, NamesOfThreads
<1>3. \/ Done(e) /\ rows' = rows
      \/ /\ rows' = Upsert(rows, t, "reproducing", None, None)
         /\ GoesTo(e, t, Work(t), "reproducing")
      \/ /\ rows[t] # None /\ rows' = rows
         /\ GoesTo(e, t, Work(t), "no")
  <2>1. rows[t] # None => rows[t].branch \in {None, Work(t)}
    BY <1>1 DEF HomeRows, HomeRow, Home
  <2> QED
    BY <1>1, <2>1 DEF TriageIssue, HandleComment, GoesTo, Tasks, Heard
<1>4. CASE Done(e) /\ rows' = rows
  BY <1>1, <1>4, FoundDone, SameTable
<1>5. CASE /\ rows' = Upsert(rows, t, "reproducing", None, None)
           /\ GoesTo(e, t, Work(t), "reproducing")
  <2>1. /\ Retains(rows, rows') /\ Keeps(rows, rows')
        /\ \A x \in Threads \ {t} : rows'[x] = rows[x]
        /\ rows'[t] # None
    BY <1>1, <1>5, UpsertRetains DEF IInv, States
  <2>2. \A i \in Issues : rows'[i] # None /\ rows[i] = None => e.key = i /\ t = i
    BY <1>1, <2>1, ThreadKinds
  <2>3. "reproducing" \in {"no", "moved"} \union States
    BY DEF States
  <2>5. \A i \in Issues : t = i /\ Unsaved(i)' => e.key = i
    BY <1>1
  <2> HIDE DEF t
  <2> QED
    BY <1>1, <1>2, <1>5, <2>1, <2>2, <2>3, <2>5, FoundEnter
<1>6. CASE /\ rows[t] # None /\ rows' = rows
           /\ GoesTo(e, t, Work(t), "no")
  <2>1. "no" \in {"no", "moved"} \union States
    OBVIOUS
  <2>3. Retains(rows, rows') /\ Keeps(rows, rows') /\ rows'[t] # None
        /\ \A i \in Issues : ~(rows'[i] # None /\ rows[i] = None)
    BY <1>6, SameTable
  <2>4. \A i \in Issues : t = i /\ Unsaved(i)' => e.key = i
    BY <1>1
  <2> HIDE DEF t
  <2> QED
    BY <1>1, <1>2, <1>6, <2>1, <2>3, <2>4, FoundEnter
<1> QED
  BY <1>3, <1>4, <1>5, <1>6

\* Resolving a follow-up repairs a row and makes none.
LEMMA ResolvesSaved ==
  ASSUME IInv, HomeRows(rows), NEW p \in BotPulls, Exists(p), NEW fetched \in BOOLEAN,
         NEW found \in ResolveRow(p, fetched)
  PROVE  /\ Retains(rows, found[2]) /\ Keeps(rows, found[2]) /\ Within(rows, found[2])
         /\ found[1] # None /\ found[2][found[1]].branch = None =>
              rows[found[1]] # None /\ rows[found[1]].pr = p
<1> DEFINE byPull(t) == <<t, IF rows[t].branch = None /\ fetched
                 THEN [rows EXCEPT ![t].branch = HeadRef(p)] ELSE rows>>
           byBranch(t) == <<t, [rows EXCEPT ![t].pr = p]>>
<1>0. HeadRef(p) = from[p] /\ from[p] # None /\ RowsOk(rows) /\ from[p] \in Branches
  BY MineTyped, ThreadKinds DEF IInv, HeadRef, HostedOk
<1>1. ASSUME NEW t \in RowsOfPull(rows, p), found = byPull(t)
      PROVE  /\ Retains(rows, found[2]) /\ Keeps(rows, found[2]) /\ Within(rows, found[2])
             /\ found[1] = t /\ rows[t] # None /\ rows[t].pr = p
  <2>1. t \in Threads /\ rows[t] # None /\ rows[t].pr = p /\ rows[t] \in Row
    BY <1>0, <1>1 DEF RowsOfPull, RowsOk, RowOk
  <2>2. CASE rows[t].branch = None /\ fetched
    <3>1. PICK new : /\ new = [rows[t] EXCEPT !.branch = from[p]] /\ new \in Row
                     /\ new.branch = from[p]
      <4> DEFINE it == [rows[t] EXCEPT !.branch = from[p]]
      <4>1. it \in Row /\ it.branch = from[p]
        BY <1>0, <2>1 DEF Row
      <4> QED
        BY <4>1
    <3>2. found[2] = [rows EXCEPT ![t] = new]
      BY <1>0, <1>1, <2>2, <3>1
    <3>3. \A x \in Threads : found[2][x] = IF x = t THEN new ELSE rows[x]
      BY <1>0, <3>2 DEF RowsOk
    <3>4. Retains(rows, found[2]) /\ Keeps(rows, found[2]) /\ Within(rows, found[2])
      BY <1>0, <2>1, <2>2, <3>1, <3>3, NamesOfThreads DEF Retains, Keeps, Within
    <3> QED
      BY <1>1, <2>1, <3>4
  <2>3. CASE ~(rows[t].branch = None /\ fetched)
    BY <1>1, <2>1, <2>3, SameTable
  <2> QED
    BY <2>2, <2>3
<1>2. ASSUME NEW t \in RowsOfBranch(rows, HeadRef(p)), found = byBranch(t)
      PROVE  /\ Retains(rows, found[2]) /\ Keeps(rows, found[2]) /\ Within(rows, found[2])
             /\ found[2][found[1]].branch # None
  <2>1. t \in Threads /\ rows[t] # None /\ rows[t].branch = from[p] /\ rows[t] \in Row
    BY <1>0, <1>2 DEF RowsOfBranch, RowsOk, RowOk
  <2>2. PICK new : /\ new = [rows[t] EXCEPT !.pr = p] /\ new \in Row /\ new.branch = from[p]
    <3> DEFINE it == [rows[t] EXCEPT !.pr = p]
    <3>1. p \in Pulls
      BY ThreadKinds
    <3>2. it \in Row /\ it.branch = from[p]
      BY <2>1, <3>1 DEF Row
    <3> QED
      BY <3>2
  <2>3. \A x \in Threads : found[2][x] = IF x = t THEN new ELSE rows[x]
    BY <1>0, <1>2, <2>2 DEF RowsOk
  <2>4. found[1] = t
    BY <1>2
  <2>5. Retains(rows, found[2]) /\ Keeps(rows, found[2]) /\ Within(rows, found[2])
    BY <1>0, <2>1, <2>2, <2>3, NamesOfThreads DEF Retains, Keeps, Within
  <2> QED
    BY <1>0, <2>1, <2>2, <2>3, <2>4, <2>5
<1>3. CASE found = <<None, rows>>
  BY <1>3, SameTable
<1> QED
  BY <1>1, <1>2, <1>3 DEF ResolveRow

\* A delivery on a pull of the bot's that leads to a row.
LEMMA FollowUpFound ==
  ASSUME IInv, Serial, FoundInv, FollowInv, OrderInv(Issues), NEW e \in events, Claimable(e),
         untouched' = untouched, e.on \in BotPulls, NEW fetched \in BOOLEAN,
         NEW found \in ResolveRow(e.on, fetched), NEW t, NEW r, t = found[1], r = found[2],
         t # None,
         rows' = r \/ rows' = Upsert(r, t, "reproducing", None, None),
         \/ Done(e)
         \/ r[t].branch # None /\ \E save \in {"no", "moved"} : GoesTo(e, t, r[t].branch, save)
         \/ r[t].branch = None /\ GoesTo(e, t, Work(t), "reproducing")
  PROVE  FoundInv'
<1>1. HomeRows(rows) /\ EventOk(e) /\ e.on \in Pulls /\ Exists(e.on) /\ HostedOk /\ RowsOk(rows)
  BY ThreadKinds DEF IInv, FollowInv, EventOk
<1>2. RowsOk(r) /\ t \in Threads /\ r[t] # None
  BY <1>1, ResolveOk
<1>3. /\ Retains(rows, r) /\ Keeps(rows, r) /\ Within(rows, r)
      /\ r[t].branch = None => rows[t] # None /\ rows[t].pr = e.on
  BY <1>1, ResolvesSaved
<1>4. r[t] \in Row /\ r[t].branch \in Branches \union {None} /\ Work(t) \in Branches
  BY <1>2, NamesOfThreads DEF RowsOk, RowOk, Row
<1>5. /\ Retains(r, rows') /\ Keeps(r, rows') /\ Within(r, rows') /\ rows'[t] # None
      /\ rows'[t].branch = None => r[t].branch = None
  <2>1. CASE rows' = r
    BY <1>2, <2>1, SameTable
  <2>2. CASE rows' = Upsert(r, t, "reproducing", None, None)
    <3>1. "reproducing" \in States
      BY DEF States
    <3> QED
      BY <1>1, <1>2, <2>2, <3>1, UpsertRetains
  <2> QED
    BY <2>1, <2>2
<1>6. Retains(rows, rows') /\ Keeps(rows, rows') /\ Within(rows, rows')
  BY <1>3, <1>5, WritesCompose
<1>7. \A i \in Issues : ~(rows'[i] # None /\ rows[i] = None)
  BY <1>6, ThreadKinds DEF Within
<1>8. CASE Done(e)
  BY <1>6, <1>8, FoundDone
<1>9. CASE r[t].branch # None /\ \E save \in {"no", "moved"} : GoesTo(e, t, r[t].branch, save)
  <2>1. PICK save \in {"no", "moved"} \union States : GoesTo(e, t, r[t].branch, save)
    BY <1>9
  <2>2. PICK b \in Branches : b = r[t].branch
    BY <1>4, <1>9
  <2>3. \A i \in Issues : ~(t = i /\ Unsaved(i)')
    BY <1>5, <1>9 DEF Unsaved
  <2> QED
    BY <1>1, <1>2, <1>5, <1>6, <1>7, <2>1, <2>2, <2>3, FoundEnter
<1>10. CASE r[t].branch = None /\ GoesTo(e, t, Work(t), "reproducing")
  <2>1. "reproducing" \in {"no", "moved"} \union States
    BY DEF States
  <2>2. rows[t] # None /\ rows[t].pr = e.on
    BY <1>3, <1>10
  <2> QED
    BY <1>1, <1>2, <1>4, <1>5, <1>6, <1>7, <1>10, <2>1, <2>2, FoundEnter
<1> QED
  BY <1>8, <1>9, <1>10

\* A delivery on a pull of the bot's that is amended without a row.
LEMMA DirectFound ==
  ASSUME IInv, Serial, FoundInv, FollowInv, OrderInv(Issues), NEW e \in events, Claimable(e),
         untouched' = untouched, e.on \in BotPulls, rows' = rows,
         Done(e) \/ GoesTo(e, e.on, HeadRef(e.on), "opened")
  PROVE  FoundInv'
<1>1. /\ HomeRows(rows) /\ e.on \in Threads /\ e.on \notin Issues /\ HeadRef(e.on) \in Branches
      /\ "opened" \in {"no", "moved"} \union States /\ "opened" \notin {"no", "moved"}
  BY ThreadKinds, MineTyped DEF IInv, FollowInv, EventOk, States
<1>2. /\ Retains(rows, rows') /\ Keeps(rows, rows') /\ Within(rows, rows')
      /\ \A i \in Issues : e.on # i /\ ~(rows'[i] # None /\ rows[i] = None)
  BY <1>1, SameTable
<1>3. CASE Done(e)
  BY <1>2, <1>3, FoundDone
<1>4. CASE GoesTo(e, e.on, HeadRef(e.on), "opened")
  BY <1>1, <1>2, <1>4, FoundEnter
<1> QED
  BY <1>3, <1>4

\* Deliveries on the bot's pulls.
LEMMA PullDispatchFound ==
  ASSUME IInv, Serial, FoundInv, FollowInv, Uninvited, OrderInv(Issues), NEW e \in events,
         HandleReview(e) \/ HandlePrConversation(e)
  PROVE  FoundInv'
<1> DEFINE p == e.on
<1>1. /\ Claimable(e) /\ untouched' = untouched /\ p \in BotPulls /\ e.says.authorizes \in BOOLEAN
      /\ "reviewComment" \in Tasks /\ "comment" \in Tasks
  <2>1. EventOk(e) /\ HomeEvent(e)
    BY DEF IInv, FollowInv
  <2> QED
    BY <2>1, ThreadKinds DEF HandleReview, HandlePrConversation, EventOk, HomeEvent, Tasks, Events,
       Directives
<1>2. \A t, fetched : ~Reclaims(t, p, fetched)
  BY DEF Reclaims, Uninvited
<1>3. ASSUME NEW num, NEW branch, NEW save, NEW task \in Tasks, NEW auth \in BOOLEAN,
             EnterIfAnswered(e, num, branch, save, task, auth, TRUE)
      PROVE  Done(e) \/ GoesTo(e, num, branch, save)
  BY <1>3 DEF EnterIfAnswered, GoesTo
<1>4. ASSUME NEW fetched \in BOOLEAN, NEW found \in ResolveRow(p, fetched), found[1] = None,
             rows' = rows,
             \/ Done(e)
             \/ \E task \in Tasks, auth \in BOOLEAN :
                  EnterIfAnswered(e, p, HeadRef(p), "opened", task, auth, TRUE)
      PROVE  FoundInv'
  <2>1. Done(e) \/ GoesTo(e, p, HeadRef(p), "opened")
    BY <1>3, <1>4
  <2> QED
    BY <1>1, <1>4, <2>1, DirectFound
<1>5. CASE HandleReview(e)
  <2> DEFINE Went(found) ==
          \/ /\ found[1] = None /\ Done(e) /\ rows' = rows
          \/ /\ found[1] = None /\ rows' = rows
             /\ EnterIfAnswered(e, p, HeadRef(p), "opened", "reviewComment", FALSE, TRUE)
          \/ /\ found[1] # None /\ rows' = found[2]
             /\ IF found[2][found[1]].branch = None THEN Done(e)
                ELSE EnterIfAnswered(e, found[1], found[2][found[1]].branch, "no",
                                     "reviewComment", FALSE, TRUE)
  <2>1. PICK fetched \in BOOLEAN : \E found \in ResolveRow(p, fetched) : Went(found)
    BY <1>2, <1>5 DEF HandleReview
  <2>2. PICK found \in ResolveRow(p, fetched) : Went(found)
    BY <2>1
  <2>3. CASE found[1] = None
    BY <1>1, <1>4, <2>2, <2>3
  <2>4. CASE found[1] # None
    <3>1. PICK t, r : t = found[1] /\ r = found[2]
      OBVIOUS
    <3>2. \/ Done(e)
          \/ r[t].branch # None /\ GoesTo(e, t, r[t].branch, "no")
      BY <1>1, <1>3, <2>2, <2>4, <3>1
    <3> QED
      BY <1>1, <2>2, <2>4, <3>1, <3>2, FollowUpFound
  <2> QED
    BY <2>3, <2>4
<1>6. CASE HandlePrConversation(e)
  <2> DEFINE auth == e.says.authorizes /\ Heard(e)
  <2>1. auth \in BOOLEAN
    BY <1>1 DEF Heard
  <2> DEFINE Went(found, fetched) ==
          IF found[1] # None THEN ResumePull(e, found[1], found[2], fetched)
          ELSE /\ Done(e) \/ EnterIfAnswered(e, p, HeadRef(p), "opened", "comment", auth, TRUE)
               /\ rows' = rows
  <2>2. PICK fetched \in BOOLEAN : \E found \in ResolveRow(p, fetched) : Went(found, fetched)
    BY <1>6 DEF HandlePrConversation
  <2>3. PICK found \in ResolveRow(p, fetched) : Went(found, fetched)
    BY <2>2
  <2>4. CASE found[1] = None
    BY <1>1, <1>4, <2>1, <2>3, <2>4
  <2>5. CASE found[1] # None
    <3>1. PICK t, r : t = found[1] /\ r = found[2]
      OBVIOUS
    <3> DEFINE branch == IF r[t].branch = None THEN Work(t) ELSE r[t].branch
               save == IF ~Heard(e) THEN "no"
                       ELSE IF r[t].branch = None THEN "reproducing" ELSE "moved"
    <3>2. ResumePull(e, t, r, fetched)
      BY <2>3, <2>5, <3>1
    <3>3. /\ rows' = r \/ rows' = Upsert(r, t, "reproducing", None, None)
          /\ \/ Done(e)
             \/ /\ Heard(e) \/ r[t].branch # None
                /\ EnterIfAnswered(e, t, branch, save, "comment", auth, TRUE)
      BY <1>2, <3>2 DEF ResumePull
    <3>4. \/ Done(e)
          \/ (Heard(e) \/ r[t].branch # None) /\ GoesTo(e, t, branch, save)
      BY <1>1, <1>3, <2>1, <3>3
    <3>5. \/ Done(e)
          \/ r[t].branch # None /\ \E s \in {"no", "moved"} : GoesTo(e, t, r[t].branch, s)
          \/ r[t].branch = None /\ GoesTo(e, t, Work(t), "reproducing")
      BY <3>4
    <3> QED
      BY <1>1, <2>5, <3>1, <3>3, <3>5, FollowUpFound
  <2> QED
    BY <2>4, <2>5
<1> QED
  BY <1>5, <1>6

\* Every dispatch.
LEMMA DispatchFound ==
  ASSUME IInv, Serial, FoundInv, FollowInv, Uninvited, OrderInv(Issues), Dispatch
  PROVE  FoundInv'
<1>1. PICK e \in events :
        \/ TriageIssue(e) \/ ReviewPr(e) \/ HandleComment(e) \/ HandleReview(e)
        \/ HandlePrConversation(e) \/ CleanupWorkspace(e) \/ RevokePrAssignment(e)
  BY DEF Dispatch
<1>2. ~ReviewPr(e) /\ ~RevokePrAssignment(e)
  BY DEF FollowInv, HomeEvent, ReviewPr, RevokePrAssignment
<1>3. CASE CleanupWorkspace(e)
  <2>1. Done(e) /\ untouched' = untouched /\ e.kind \in States
    BY <1>3 DEF CleanupWorkspace, States, Final
  <2>2. rows' = rows \/ \E t \in Threads : rows' = SetState(rows, t, e.kind)
    <3>1. e.on \in Threads
      BY DEF IInv, EventOk, Events
    <3> QED
      BY <1>3, <3>1 DEF CleanupWorkspace, RowsOfPull
  <2>3. Retains(rows, rows') /\ Keeps(rows, rows') /\ Within(rows, rows')
    BY <2>1, <2>2, SameTable, SetStateRetains DEF IInv
  <2> QED
    BY <2>1, <2>3, FoundDone
<1> QED
  BY <1>1, <1>2, <1>3, IssueDispatchFound, PullDispatchFound

\* A turn is over.
LEMMA TurnOverFound ==
  ASSUME IInv, Serial, FoundInv, NEW k \in Threads, AtAgent(k),
         handler' = [handler EXCEPT ![k] = None], github' = github, from' = from, stray' = stray,
         faults' = faults, Retains(rows, rows'), Keeps(rows, rows'), Within(rows, rows')
  PROVE  FoundInv'
<1>1. \A x \in Threads : handler'[x] = IF x = k THEN None ELSE handler[x]
  BY DEF IInv, HandlersOk
<1>2. /\ \A x \in Busy' : x \in Busy /\ x # k /\ handler'[x] = handler[x]
      /\ \A x \in Busy : x # k => x \in Busy' /\ handler'[x] = handler[x]
  BY <1>1 DEF Busy
<1>3. ~Publishes /\ BusyStay
  BY <1>2 DEF Publishes, BusyStay, AtAgent
<1> QED
  BY <1>2, <1>3, FoundStays DEF SameWork, AtAgent

\* A worktree is made, and its branch is saved with the row.
LEMMA PrepareFound ==
  ASSUME IInv, Serial, FoundInv, FollowInv, NEW k \in Threads, Prepare(k)
  PROVE  FoundInv'
<1> DEFINE h == handler[k]
           t == h.num
<1>1. /\ h \in Handler /\ k \in Busy /\ h.at = "setup" /\ t \in Threads /\ Home(t) = h.branch
      /\ h.branch \in Mine(t) \ {None} /\ Checkout(h) = h.branch /\ HomeRows(rows)
      /\ h.save \in {"no", "moved", "reproducing"} \/ (h.save \in States /\ t \in Pulls)
      /\ HostedOk /\ RowsOk(rows) /\ Rooted(h)
  BY PrepareHome DEF Prepare, Busy, FollowInv, HomeHandlers, HomeHandler, IInv, HandlersOk,
     HandlerOk, Bound, FoundInv
<1>2. PICK new \in Handler : new.num = t /\ new.save = h.save /\ new.ev = h.ev /\ new.at = "agent"
                             /\ handler' = [handler EXCEPT ![k] = new]
  <2> DEFINE it == [h EXCEPT !.at = "agent", !.branch = Checkout(h)]
  <2>1. it \in Handler /\ it.num = t /\ it.save = h.save /\ it.ev = h.ev /\ it.at = "agent"
    BY <1>1, MineTyped DEF Handler
  <2>2. handler' = [handler EXCEPT ![k] = it]
    BY DEF Prepare
  <2> QED
    BY <2>1, <2>2
<1>3. new # None /\ handler'[k] = new /\ \A x \in Threads \ {k} : handler'[x] = handler[x]
  BY <1>2, NamesOfThreads DEF IInv, HandlersOk
<1>4. Busy' = Busy
  BY <1>1, <1>3 DEF Busy
<1>5. /\ Retains(rows, rows') /\ Keeps(rows, rows') /\ rows'[t] # None
      /\ \A x \in Threads \ {t} : rows'[x] = rows[x]
      /\ h.save \notin {"no", "moved"} => rows'[t].branch # None
  <2>1. rows' = Saved(h)
    BY DEF Prepare
  <2>2. rows[t] # None => rows[t].branch \in {None, h.branch}
    BY <1>1 DEF HomeRows, HomeRow
  <2>3. CASE h.save \in {"no", "moved"}
    <3>1. rows' = rows
      BY <1>1, <2>1, <2>3 DEF Saved
    <3> QED
      BY <1>1, <2>3, <3>1, SameTable DEF Rooted
  <2>4. CASE h.save \notin {"no", "moved"}
    <3>1. PICK state \in States, pr \in Pulls \union {None} :
            rows' = Upsert(rows, t, state, h.branch, pr)
      BY <1>1, <2>1, <2>4 DEF Saved, States
    <3> QED
      BY <1>1, <2>2, <2>4, <3>1, UpsertRetains
  <2> QED
    BY <2>3, <2>4
<1>6. ~Publishes /\ faults' = faults /\ BusyStay
  BY <1>2, <1>3, <1>4 DEF Prepare, hosted, Publishes, BusyStay, Busy
<1>7. ASSUME NEW x \in Busy'
      PROVE  Rooted(handler[x])'
  <2>1. CASE x = k
    BY <1>2, <1>3, <1>5, <2>1 DEF Rooted
  <2>2. CASE x # k
    <3>1. x \in Busy /\ handler'[x] = handler[x] /\ handler[x].num \in Threads
      BY <1>3, <1>4, <2>2 DEF Busy, IInv, HandlersOk, HandlerOk, Bound
    <3> QED
      BY <1>5, <3>1 DEF FoundInv, Rooted, Retains
  <2> QED
    BY <2>1, <2>2
<1>8. ASSUME NEW i \in Issues, Unsaved(i)'
      PROVE  /\ faults' = 0 => Fresh(i)'
             /\ faults' < 2 =>
                  /\ \A x \in Busy' \ {i} : handler'[x].num = i => Makes(handler'[x], i)
                  /\ Recorded(i)'
  <2>1. Unsaved(i) /\ i \in Threads /\ (t = i => h.save \in {"no", "moved"} /\ rows[i] # None)
    BY <1>1, <1>5, <1>8, UnsavedBefore, ThreadKinds DEF Unsaved, Rooted
  <2>2. ASSUME faults' = 0
        PROVE  Fresh(i)'
    <3>1. Fresh(i)
      BY <1>6, <2>1, <2>2 DEF FoundInv
    <3>2. t # i
      BY <1>1, <2>1, <3>1 DEF Fresh, Makes
    <3>3. rows[i] # None => i # k /\ i \in Busy /\ Makes(handler[i], i)
      BY <3>1, <3>2 DEF Fresh, Makes
    <3>4. rows'[i] # None => i \in Busy' /\ Makes(handler'[i], i)
      BY <1>3, <1>4, <1>5, <2>1, <3>2, <3>3
    <3>5. \A x \in Busy' \ {i} : handler'[x].num # i
      BY <1>2, <1>3, <1>4, <3>1, <3>2 DEF Fresh, Busy
    <3>6. \A p \in BotPulls : from'[p] # Work(i)
      BY <1>6, <3>1 DEF Fresh, Publishes
    <3> QED
      BY <3>4, <3>5, <3>6 DEF Fresh, Makes
  <2>3. ASSUME faults' < 2
        PROVE  \A x \in Busy' \ {i} : handler'[x].num = i => Makes(handler'[x], i)
    <3>1. \A x \in Busy \ {i} : handler[x].num = i => Makes(handler[x], i)
      BY <1>6, <2>1, <2>3 DEF FoundInv
    <3>2. k # i => t # i
      BY <1>1, <2>1, <3>1 DEF Makes
    <3> QED
      BY <1>2, <1>3, <1>4, <3>1, <3>2 DEF Busy
  <2>4. ASSUME faults' < 2
        PROVE  Recorded(i)'
    BY <1>5, <1>6, <1>8, <2>1, <2>4, RecordedStays DEF FoundInv
  <2> QED
    BY <2>2, <2>3, <2>4
<1> QED
  BY <1>7, <1>8 DEF FoundInv, Makes

\* The first fault comes before anything unsaved is published.
LEMMA FaultFound ==
  ASSUME IInv, FoundInv, FollowInv, faults' = faults + 1, rows' = rows, github' = github,
         from' = from, stray' \subseteq stray,
         \A k \in Busy' : k \in Busy /\ handler'[k] = handler[k]
  PROVE  FoundInv'
<1>1. faults \in Nat
  BY LifecycleAssumption DEF IInv
<1>2. \A k \in Busy' : Rooted(handler[k])'
  BY DEF FoundInv, Rooted
<1>3. ASSUME NEW i \in Issues, Unsaved(i)', faults' < 2
      PROVE  /\ \A k \in Busy' \ {i} : handler'[k].num = i => Makes(handler'[k], i)
             /\ Recorded(i)'
  <2>1. Fresh(i)
    BY <1>1, <1>3 DEF FoundInv, Unsaved
  <2>2. OpenFrom(i)' = {}
    BY <2>1 DEF OpenFrom, Fresh
  <2>3. Opening(i)' = {}
    BY <2>1, ThreadKinds DEF Opening, Fresh, FollowInv, HomeStrays, Home
  <2> QED
    BY <2>1, <2>2, <2>3 DEF Fresh, Recorded
<1> QED
  BY <1>1, <1>2, <1>3 DEF FoundInv, Makes

\* Set-ups, ends of turns, failures and crashes.
LEMMA RunFound ==
  ASSUME IInv, Serial, FoundInv, FollowInv, Run \/ Crash \/ \E e \in events : FailCleanup(e)
  PROVE  FoundInv'
<1>1. HandlersOk(handler)
  BY DEF IInv
<1>2. ASSUME NEW k \in Threads, Fail(k)
      PROVE  FoundInv'
  <2>1. handler' = [handler EXCEPT ![k] = None] /\ faults' = faults + 1 /\ rows' = rows
        /\ github' = github /\ from' = from /\ stray' = stray
    BY <1>2 DEF Fail, hosted
  <2>2. \A x \in Busy' : x \in Busy /\ handler'[x] = handler[x]
    BY <1>1, <2>1 DEF Busy, HandlersOk
  <2> QED
    BY <2>1, <2>2, FaultFound
<1>3. ASSUME Crash
      PROVE  FoundInv'
  <2>1. Busy' = {} /\ faults' = faults + 1 /\ rows' = rows
        /\ github' = github /\ from' = from /\ stray' = {}
    BY <1>3 DEF Crash, hosted, local, Busy
  <2> QED
    BY <2>1, FaultFound
<1>4. ASSUME NEW e \in events, FailCleanup(e)
      PROVE  FoundInv'
  BY <1>4, FaultFound DEF FailCleanup, hosted, local, Busy
<1>5. ASSUME NEW k \in Threads, EndTurn(k)
      PROVE  FoundInv'
  BY <1>5, SameTable, TurnOverFound DEF EndTurn, AtAgent, hosted, local
<1> QED
  BY <1>2, <1>3, <1>4, <1>5, PrepareFound DEF Run

\* GitHub's answer frees the handler of the call.
LEMMA ReturnedFound ==
  ASSUME HandlersOk(handler), NEW s, Returned(s)
  PROVE  /\ Busy' = Busy
         /\ \A k \in Busy : SameWork(handler[k], handler'[k]) /\ handler'[k].ev = handler[k].ev
<1>1. \A k \in Threads : /\ handler'[k] \in {handler[k], [handler[k] EXCEPT !.busy = FALSE]}
                         /\ handler[k] = None <=> handler'[k] = None
  <2> SUFFICES ASSUME NEW k \in Threads
               PROVE  /\ handler'[k] \in {handler[k], [handler[k] EXCEPT !.busy = FALSE]}
                      /\ handler[k] = None <=> handler'[k] = None
    OBVIOUS
  <2>1. handler[k] # None => [handler[k] EXCEPT !.busy = FALSE] \in Handler
    BY DEF HandlersOk, HandlerOk, Handler
  <2> QED
    BY <2>1, NamesOfThreads DEF Returned
<1>2. Busy' = Busy
  BY <1>1 DEF Busy
<1>3. \A k \in Busy : handler[k] \in Handler
  BY DEF Busy, HandlersOk, HandlerOk
<1>4. \A h \in Handler : LET g == [h EXCEPT !.busy = FALSE]
                         IN SameWork(h, g) /\ g.ev = h.ev
  BY DEF Handler, SameWork
<1> QED
  BY <1>1, <1>2, <1>3, <1>4 DEF SameWork, Busy

\* gh_open_pr has GitHub's answer: nothing else is open from the branch.
LEMMA OpenPullFound ==
  ASSUME IInv, Serial, FoundInv, FollowInv, NEW k \in Threads, NEW p \in BotPulls, OpenPull(k, p)
  PROVE  FoundInv'
<1> DEFINE h == handler[k]
           t == h.num
           call == [tool |-> "open", num |-> t, pull |-> p, by |-> h.ev]
<1>1. /\ h \in Handler /\ k \in Busy /\ h.at = "agent" /\ ~h.busy /\ t \in Threads
      /\ t \notin HumanPulls /\ Home(t) = h.branch /\ Rooted(h) /\ HomeRows(rows)
  BY DEF OpenPull, AtAgent, Busy, FollowInv, HomeHandlers, HomeHandler, IInv, HandlersOk,
     HandlerOk, Bound, FoundInv
<1>2. /\ github[p] = "absent" /\ github' = [github EXCEPT ![p] = "open"]
      /\ from' = [from EXCEPT ![p] = h.branch] /\ stray' = stray \union {call}
      /\ \A q \in BotPulls : github[q] = "open" => HeadRef(q) # h.branch
      /\ rows' = rows /\ faults' = faults
      /\ from \in [BotPulls -> Branches \union {None}] /\ p \in Threads
      /\ DOMAIN github = Threads
  BY ThreadKinds, LifecycleAssumption DEF OpenPull, local, IInv, HostedOk
<1>3. /\ \A q \in BotPulls : from'[q] = IF q = p THEN h.branch ELSE from[q]
      /\ \A q \in BotPulls : github'[q] = IF q = p THEN "open" ELSE github[q]
  BY <1>2, ThreadKinds
<1>4. PICK new \in Handler : /\ handler' = [handler EXCEPT ![k] = new]
                             /\ SameWork(h, new) /\ new.ev = h.ev
  <2> DEFINE it == [h EXCEPT !.busy = TRUE]
  <2>1. it \in Handler /\ SameWork(h, it) /\ it.ev = h.ev
    BY <1>1 DEF Handler, SameWork
  <2>2. handler' = [handler EXCEPT ![k] = it]
    BY DEF OpenPull
  <2> QED
    BY <2>1, <2>2
<1>5. /\ Busy' = Busy
      /\ \A x \in Busy : SameWork(handler[x], handler'[x]) /\ handler'[x].ev = handler[x].ev
  BY <1>1, <1>4, NamesOfThreads DEF Busy, IInv, HandlersOk, SameWork
<1>6. \A i \in Issues : /\ i \in Threads /\ i \notin BotPulls
                        /\ Home(t) = Work(i) => t = i \/ t \in BotPulls
  BY <1>1, ThreadKinds, NamesOfThreads DEF Home
<1>7. t \in BotPulls => Home(t) = from[t]
  BY ThreadKinds DEF Home
<1>8. ASSUME NEW i \in Issues, t = i, faults < 2, Unsaved(i)
      PROVE  k = i
  BY <1>1, <1>8 DEF FoundInv, Makes
<1>9. ASSUME NEW i \in Issues, Unsaved(i), faults = 0, Fresh(i), NEW q \in BotPulls
      PROVE  from'[q] # Work(i)
  <2>1. t # i
    BY <1>1, <1>8, <1>9 DEF Fresh, Makes, Rooted
  <2>2. h.branch # Work(i)
    BY <1>1, <1>6, <1>7, <1>9, <2>1 DEF Fresh
  <2> QED
    BY <1>3, <1>9, <2>2 DEF Fresh
<1>10. ASSUME NEW i \in Issues, Unsaved(i), faults < 2
       PROVE  Recorded(i)'
  <2>1. Recorded(i) /\ (Named(i) => Named(i)')
    BY <1>2, <1>10 DEF FoundInv, Named, RowsOfBranch
  <2>2. CASE h.branch # Work(i)
    <3>1. t # i
      BY <1>1, <2>2 DEF Home
    <3>2. OpenFrom(i)' = OpenFrom(i) /\ Opening(i)' = Opening(i)
      BY <1>2, <1>3, <2>2, <3>1 DEF OpenFrom, Opening
    <3> QED
      BY <1>2, <1>5, <2>1, <3>2 DEF Recorded
  <2>3. CASE h.branch = Work(i)
    <3>1. OpenFrom(i) = {}
      BY <1>2, <2>3, ThreadKinds DEF OpenFrom, HeadRef
    <3>2. OpenFrom(i)' = {p}
      BY <1>3, <2>3, <3>1 DEF OpenFrom
    <3>3. CASE t = i
      <4>1. Opening(i) = {}
        BY <1>1, <1>8, <1>10, <2>1, <3>3 DEF Recorded, Serial, CalledOnce, Opening
      <4>2. Opening(i)' = {call}
        BY <1>2, <3>3, <4>1 DEF Opening
      <4>3. i \in Busy' /\ handler'[i].ev = call.by /\ call.pull = p
        BY <1>1, <1>5, <1>8, <1>10, <3>3
      <4> QED
        BY <3>2, <4>2, <4>3 DEF Recorded
    <3>4. CASE t \in BotPulls
      <4>1. rows[t] # None /\ rows[t].branch = Work(i)
        BY <1>1, <2>3, <3>4, ThreadKinds DEF Rooted, HomeRows, HomeRow
      <4>2. Named(i)'
        BY <1>1, <2>1, <4>1 DEF Named, RowsOfBranch
      <4>3. Opening(i)' = Opening(i)
        BY <1>2, <1>6, <3>4 DEF Opening
      <4> QED
        BY <1>5, <2>1, <4>2, <4>3 DEF Recorded
    <3> QED
      BY <1>1, <1>6, <2>3, <3>3, <3>4
  <2> QED
    BY <2>2, <2>3
<1> QED
  BY <1>2, <1>5, <1>9, <1>10, SameTable, FoundKept

\* The pull is recorded with the row its handler had.
LEMMA RecordPullFound ==
  ASSUME IInv, Serial, FoundInv, NEW s \in stray, RecordPull(s)
  PROVE  FoundInv'
<1> DEFINE t == s.num
<1>1. /\ s.tool = "open" /\ t \in Threads /\ Returned(s) /\ stray' = stray \ {s}
      /\ github' = github /\ from' = from /\ faults' = faults
      /\ rows \in [Threads -> Row \union {None}] /\ s.pull \in Pulls
  BY DEF RecordPull, hosted, Returned, IInv, StraysOk, RowsOk
<1>2. /\ Busy' = Busy
      /\ \A k \in Busy : SameWork(handler[k], handler'[k]) /\ handler'[k].ev = handler[k].ev
  BY <1>1, ReturnedFound DEF IInv
<1>3. /\ Retains(rows, rows') /\ Within(rows, rows')
      /\ \A x \in Threads \ {t} : rows'[x] = rows[x]
      /\ rows[t] # None => rows'[t] # None /\ rows'[t].pr = s.pull
  <2>1. CASE rows[t] = None
    BY <1>1, <2>1, SameTable DEF RecordPull
  <2>2. CASE rows[t] # None
    <3> DEFINE new == [rows[t] EXCEPT !.pr = s.pull, !.state = "opened"]
    <3>1. rows' = [rows EXCEPT ![t] = new]
      BY <1>1, <2>2 DEF RecordPull
    <3>2. new # None /\ new.branch = rows[t].branch /\ new.pr = s.pull
      <4>1. new \in Row /\ new.branch = rows[t].branch /\ new.pr = s.pull
        BY <1>1, <2>2 DEF Row, States
      <4> QED
        BY <4>1, NamesOfThreads
    <3> HIDE DEF new
    <3>3. \A x \in Threads : rows'[x] = IF x = t THEN new ELSE rows[x]
      BY <1>1, <3>1
    <3> QED
      BY <1>1, <2>2, <3>2, <3>3 DEF Retains, Within
  <2> QED
    BY <2>1, <2>2
<1>4. ASSUME NEW i \in Issues, Unsaved(i), Unsaved(i)', faults < 2
      PROVE  Recorded(i)'
  <2>1. Recorded(i) /\ OpenFrom(i)' = OpenFrom(i) /\ i \in Threads /\ (Named(i) => Named(i)')
    BY <1>1, <1>3, <1>4, NamedStays, ThreadKinds DEF FoundInv, OpenFrom
  <2>2. CASE t = i
    <3>1. s \in Opening(i) /\ i \in Busy /\ handler[i].ev = s.by
      BY <1>1, <2>1, <2>2 DEF Opening, Recorded
    <3>2. CalledOnce(s) /\ rows[i] # None
      BY <2>2, <3>1 DEF Serial, CalledOnce, FoundInv, Rooted
    <3>3. Opening(i)' = {}
      BY <1>1, <2>1, <3>1, <3>2 DEF Opening, Recorded, CalledOnce
    <3>4. \A p \in OpenFrom(i) : p = s.pull \/ Named(i)
      BY <2>1, <3>1 DEF Recorded
    <3> QED
      BY <1>3, <2>1, <2>2, <3>2, <3>3, <3>4 DEF Recorded
  <2>3. CASE t # i
    <3>1. Opening(i)' = Opening(i) /\ rows'[i] = rows[i]
      BY <1>1, <1>3, <2>1, <2>3 DEF Opening
    <3> QED
      BY <1>2, <2>1, <3>1 DEF Recorded
  <2> QED
    BY <2>2, <2>3
<1>5. \A i \in Issues, p \in BotPulls : Unsaved(i) /\ faults = 0 /\ Fresh(i) => from'[p] # Work(i)
  BY <1>1 DEF Fresh
<1> QED
  BY <1>1, <1>2, <1>3, <1>4, <1>5, FoundKept

\* A step that leaves the handlers and the rows alone.
LEMMA IdleFound ==
  ASSUME IInv, Serial, FoundInv, ~Publishes, faults' = faults, rows' = rows, handler' = handler
  PROVE  FoundInv'
BY SameTable, FoundStays DEF BusyStay, SameWork, Busy

\* A thread is closed, on GitHub or by the agent.
LEMMA ClosureFound ==
  ASSUME IInv, Serial, FoundInv, NEW t, NEW how \in {"closed", "merged"}, ThreadClosed(t, how)
  PROVE  FoundInv'
<1>1. /\ github' = [github EXCEPT ![t] = how] /\ from' = from /\ stray' = stray
      /\ faults' = faults /\ rows' = rows /\ handler' = handler
  BY DEF ThreadClosed, Queue
<1>2. \A p \in BotPulls : github'[p] = "open" => github[p] = "open"
  BY <1>1, ThreadKinds DEF IInv, HostedOk
<1> QED
  BY <1>1, <1>2, IdleFound DEF Publishes

\* Webhooks publish nothing of the bot's.
LEMMA WebhookFound ==
  ASSUME IInv, Serial, FoundInv, Webhook
  PROVE  FoundInv'
<1>1. ASSUME NEW i \in Issues, IssueOpened(i)
      PROVE  FoundInv'
  <2>1. /\ github' = [github EXCEPT ![i] = "open"] /\ from' = from /\ stray' = stray
        /\ faults' = faults /\ rows' = rows /\ handler' = handler
    BY <1>1 DEF IssueOpened, Queue
  <2>2. \A p \in BotPulls : github'[p] = github[p]
    BY <2>1, ThreadKinds DEF IInv, HostedOk
  <2> QED
    BY <2>1, <2>2, IdleFound DEF Publishes
<1>2. ASSUME github' = github, from' = from, stray' = stray, faults' = faults, rows' = rows,
             handler' = handler
      PROVE  FoundInv'
  BY <1>2, IdleFound DEF Publishes
<1>3. ASSUME NEW i \in Issues, NEW says \in Bodies, IssueComment(i, says)
      PROVE  FoundInv'
  BY <1>2, <1>3 DEF IssueComment, Queue
<1>4. ASSUME NEW p \in Pulls, NEW says \in Bodies, PullComment(p, says) \/ ReviewComment(p, says)
      PROVE  FoundInv'
  BY <1>2, <1>4 DEF PullComment, ReviewComment, Queue
<1>5. ASSUME NEW p \in Pulls, ReviewRequested(p) \/ Assign(p) \/ Unassign(p)
      PROVE  FoundInv'
  BY <1>2, <1>5 DEF ReviewRequested, Assign, Unassign, Queue, local
<1> QED
  BY <1>1, <1>3, <1>4, <1>5, ClosureFound DEF Webhook

\* The tools that publish nothing either.
LEMMA ToolFound ==
  ASSUME IInv, Serial, FoundInv, FollowInv, Tool
  PROVE  FoundInv'
<1>0. /\ RowsOk(rows) /\ HandlersOk(handler)
      /\ \A k \in Threads : AtAgent(k) => handler[k] \in Handler /\ handler[k].num \in Threads
  BY DEF IInv, AtAgent, HandlersOk, HandlerOk, Bound
<1>1. ASSUME github' = github, from' = from, stray' = stray, faults' = faults,
             handler' = handler, Retains(rows, rows'), Keeps(rows, rows'), Within(rows, rows')
      PROVE  FoundInv'
  BY <1>1, FoundStays DEF Publishes, BusyStay, SameWork, Busy
<1>2. ASSUME NEW k \in Threads, NEW class \in {"bug", "other"},
             ClassifyIssue(k, class) \/ ClassifyPr(k)
      PROVE  FoundInv'
  <2> DEFINE t == handler[k].num
  <2>1. PICK c \in {"bug", "other"} : rows' = [rows EXCEPT ![t] = [rows[t] EXCEPT !.class = c]]
    BY <1>2 DEF ClassifyIssue, ClassifyPr
  <2>2. t \in Threads /\ rows[t] # None /\ rows[t] \in Row
    BY <1>0, <1>2 DEF ClassifyIssue, ClassifyPr, RowsOk, RowOk
  <2> DEFINE new == [rows[t] EXCEPT !.class = c]
  <2>3. new # None /\ new.branch = rows[t].branch /\ new.pr = rows[t].pr
    <3>1. new \in Row /\ new.branch = rows[t].branch /\ new.pr = rows[t].pr
      BY <2>2 DEF Row
    <3> QED
      BY <3>1, NamesOfThreads
  <2>4. rows' = [rows EXCEPT ![t] = new]
    BY <2>1
  <2> HIDE DEF new
  <2>5. \A x \in Threads : rows'[x] = IF x = t THEN new ELSE rows[x]
    BY <1>0, <2>4 DEF RowsOk
  <2>6. Retains(rows, rows') /\ Keeps(rows, rows') /\ Within(rows, rows')
    BY <2>2, <2>3, <2>5 DEF Retains, Keeps, Within
  <2> QED
    BY <1>1, <1>2, <2>6 DEF ClassifyIssue, ClassifyPr, hosted
<1>3. ASSUME NEW k \in Threads, PushBranch(k) \/ StageComment(k)
      PROVE  FoundInv'
  BY <1>3, IdleFound DEF PushBranch, StageComment, hosted, local, Publishes
<1>4. ASSUME NEW k \in Threads, NEW state \in States, AtAgent(k)
      PROVE  LET r == SetState(rows, handler[k].num, state)
             IN Retains(rows, r) /\ Keeps(rows, r) /\ Within(rows, r)
  BY <1>0, <1>4, SetStateRetains
<1>5. ASSUME NEW k \in Threads, MarkUnable(k) \/ ReproRecord(k)
      PROVE  FoundInv'
  <2>1. /\ AtAgent(k)
        /\ \E state \in States : rows' = SetState(rows, handler[k].num, state)
    BY <1>5 DEF MarkUnable, ReproRecord, States
  <2>2. Retains(rows, rows') /\ Keeps(rows, rows') /\ Within(rows, rows')
    BY <1>4, <2>1
  <2> QED
    BY <1>1, <1>5, <2>2 DEF MarkUnable, ReproRecord, hosted
<1>6. ASSUME NEW k \in Threads, AbortTask(k)
      PROVE  FoundInv'
  <2>1. /\ AtAgent(k) /\ "abandoned" \in States
        /\ rows' = SetState(rows, handler[k].num, "abandoned")
    BY <1>6 DEF AbortTask, States, Final
  <2>2. Retains(rows, rows') /\ Keeps(rows, rows') /\ Within(rows, rows')
    BY <1>4, <2>1
  <2> QED
    BY <1>6, <2>1, <2>2, TurnOverFound DEF AbortTask, hosted
<1>7. ASSUME NEW k \in Threads, SubmitReview(k)
      PROVE  FoundInv'
  <2> DEFINE h == handler[k]
             call == [tool |-> "submit", num |-> h.num, pull |-> h.num, by |-> h.ev]
  <2>1. PICK new \in Handler : /\ handler' = [handler EXCEPT ![k] = new]
                               /\ SameWork(h, new) /\ new.ev = h.ev
    <3> DEFINE it == [h EXCEPT !.busy = TRUE]
    <3>1. it \in Handler /\ SameWork(h, it) /\ it.ev = h.ev
      BY <1>0, <1>7 DEF SubmitReview, Handler, SameWork
    <3>2. handler' = [handler EXCEPT ![k] = it]
      BY <1>7 DEF SubmitReview
    <3> QED
      BY <3>1, <3>2
  <2>2. /\ Busy' = Busy
        /\ \A x \in Busy : SameWork(handler[x], handler'[x]) /\ handler'[x].ev = handler[x].ev
    BY <1>0, <1>7, <2>1, NamesOfThreads DEF Busy, HandlersOk, SameWork, SubmitReview, AtAgent
  <2>3. /\ call.tool = "submit" /\ stray' = stray \union {call} /\ github' = github /\ from' = from
        /\ faults' = faults /\ rows' = rows
    BY <1>7 DEF SubmitReview, hosted, local
  <2>4. ~Publishes /\ BusyStay
    BY <2>2, <2>3 DEF Publishes, BusyStay
  <2> QED
    BY <2>2, <2>3, <2>4, SameTable, FoundStays
<1>8. ASSUME NEW s \in stray, RecordReview(s)
      PROVE  FoundInv'
  <2>1. /\ s.tool = "submit" /\ stray' = stray \ {s} /\ github' = github /\ from' = from
        /\ faults' = faults /\ rows' = rows /\ Returned(s)
    BY <1>8 DEF RecordReview, Returned, hosted
  <2>2. /\ Busy' = Busy
        /\ \A x \in Busy : SameWork(handler[x], handler'[x]) /\ handler'[x].ev = handler[x].ev
    BY <1>0, <2>1, ReturnedFound
  <2>3. ~Publishes /\ BusyStay
    BY <2>1, <2>2 DEF Publishes, BusyStay
  <2> QED
    BY <2>1, <2>2, <2>3, SameTable, FoundStays
<1>9. ASSUME NEW k \in Threads, CloseIssue(k)
      PROVE  FoundInv'
  BY <1>9, ClosureFound DEF CloseIssue
<1> QED
  BY <1>2, <1>3, <1>5, <1>6, <1>7, <1>8, <1>9, OpenPullFound, RecordPullFound DEF Tool

\* While nobody asks for a review, what is published from the branch of an issue is
\* recorded with the issue's row, or about to be.
LEMMA FoundStep ==
  ASSUME IInv, Serial, FoundInv, FollowInv, Uninvited, OrderInv(Issues), [Next]_vars
  PROVE  FoundInv'
<1>1. CASE UNCHANGED vars
  BY <1>1, IdleFound DEF vars, hosted, local, Publishes
<1> QED
  BY <1>1, WebhookFound, DispatchFound, RunFound, ToolFound DEF Next

\* At first there is nothing to find.
LEMMA FoundAtFirst == Init => FoundInv
<1> SUFFICES ASSUME Init
             PROVE  FoundInv
  OBVIOUS
<1>1. Busy = {} /\ \A t \in Threads : rows[t] = None
  BY DEF Init, Busy
<1>2. ASSUME NEW i \in Issues
      PROVE  Fresh(i) /\ OpenFrom(i) = {} /\ Opening(i) = {}
  <2>1. None # Work(i) /\ i \in Threads
    BY NamesOfThreads, ThreadKinds
  <2>2. \A p \in BotPulls : from[p] # Work(i)
    BY <2>1 DEF Init
  <2> QED
    BY <1>1, <2>1, <2>2 DEF Init, Fresh, OpenFrom, Opening
<1> QED
  BY <1>1, <1>2 DEF FoundInv, Recorded

\* A row at home that is saved names the branch of its issue.
LEMMA FoundByTable ==
  ASSUME IInv, FollowInv, FoundInv
  PROVE  PullIsFound
<1> SUFFICES ASSUME NEW p \in BotPulls, NEW i \in Issues, faults < 2, github[p] = "open",
                    from[p] = Work(i)
             PROVE  \/ RowsOfPull(rows, p) # {} \/ RowsOfBranch(rows, from[p]) # {}
                    \/ \E s \in stray : s.tool = "open" /\ s.pull = p
  BY DEF PullIsFound
<1>1. i \in Threads
  BY ThreadKinds
<1>2. CASE Unsaved(i)
  <2>1. p \in OpenFrom(i) /\ Recorded(i)
    BY <1>2 DEF OpenFrom, FoundInv
  <2> QED
    BY <1>1, <2>1 DEF Recorded, Opening, Named, RowsOfPull
<1>3. CASE ~Unsaved(i)
  <2>1. rows[i] # None /\ rows[i].branch = Work(i)
    BY <1>1, <1>3 DEF Unsaved, FollowInv, HomeRows, HomeRow, Home
  <2> QED
    BY <1>1, <2>1 DEF RowsOfBranch
<1> QED
  BY <1>2, <1>3

\* While nobody asks the bot for a review: after any one failure or crash, an open
\* pull of the bot's still leads to the row of its issue (_resolve_issue_row_for_pr).
THEOREM LifecyclePullIsFound == Spec /\ []Uninvited => []PullIsFound
<1>1. /\ IInv /\ FollowInv /\ Serial /\ OrderInv(Issues) /\ FoundInv
      /\ Uninvited /\ Uninvited' /\ [Next]_vars
      => FollowInv' /\ FoundInv'
  BY FollowStep, FoundStep
<1> QED
  BY <1>1, FollowsAtFirst, FoundAtFirst, FoundByTable, IInvHolds, SerialHolds, IssueOrderHolds,
     PTL DEF Spec

-----------------------------------------------------------------------------
(* The parts of a behaviour together (MCHandlers)                            *)

steps == <<vars, part, clock, admissions, checkouts, caching, relaying>>

\* A step of one part leaves the others where they are, but for the clock that
\* intake and calls share: every behaviour is one of each component.
THEOREM HandlersImplementParts == MCSpec => Spec /\ A!Spec /\ W!Spec /\ N!Spec /\ R!Spec
<1>1. MCInit => Init /\ A!Init /\ W!Init /\ N!Init /\ R!Init
  BY DEF MCInit
<1>2. ASSUME [MCNext]_steps
      PROVE  [Next]_vars /\ [A!Next]_A!vars /\ [W!Next]_W!vars /\ [N!Next]_N!vars /\ [R!Next]_R!vars
  <2> USE <1>2 DEF MCNext, Intake, Threaded, CheckedOut, Cached, Relayed, steps
  <2>1. [Next]_vars
    OBVIOUS
  <2>2. [A!Next]_A!vars
    BY DEF A!vars, A!Next, A!Tick, admissions, R!Next, R!Tick, R!Call, R!GiveUp, R!Accept,
       R!Lost, R!GitHub, R!Retry, R!Relayed, R!Answered
  <2>3. [W!Next]_W!vars
    BY DEF W!vars, checkouts, W!remote, W!clone, W!disk
  <2>4. [N!Next]_N!vars
    BY DEF N!vars, caching, N!worktree, N!cache
  <2>5. [R!Next]_R!vars
    BY DEF R!vars, R!Next, R!Tick, relaying, A!Next, A!Tick, A!Admit, A!Queue, A!Crash
  <2> QED
    BY <2>1, <2>2, <2>3, <2>4, <2>5
<1> QED
  BY <1>1, <1>2, PTL DEF MCSpec, Spec, A!Spec, W!Spec, N!Spec, R!Spec, steps

\* What is queued for a submitter stays within the cap (admit_submission).
THEOREM HandlersQueueWithinCap ==
  ASSUME CapOfOthers \in Nat, LongRun \in Nat
  PROVE  MCSpec => []QueuedWithinCap
<1>1. A!Spec => []A!QueuedWithinCap
  BY A!QueuedIsCapped DEF A!Caps
<1> QED
  BY <1>1, HandlersImplementParts, PTL DEF QueuedWithinCap

\* A removal finds whatever git has registered and does not keep locked
\* (remove_workspace).
THEOREM HandlersFindLeftovers ==
  ASSUME None \notin Names
  PROVE  MCSpec => []LeftoversAreFound
<1>1. W!Spec => []W!LeftoversAreFound
  BY W!RegistrationsAreFound
<1> QED
  BY <1>1, HandlersImplementParts, PTL DEF LeftoversAreFound

\* No agent starts in half a checkout that a failure left (_worktree_add).
THEOREM HandlersHaveWholeCheckouts ==
  ASSUME None \notin Names
  PROVE  MCSpec => []CheckoutIsWhole
<1>1. W!Spec => []W!CheckoutIsWhole
  BY W!AgentsHaveWholeCheckouts
<1> QED
  BY <1>1, HandlersImplementParts, PTL DEF CheckoutIsWhole

\* A push takes no commit of other people off GitHub while the remote-tracking ref
\* stays put between the gates and the lease (gh_push_branch).
THEOREM HandlersSpareForeign ==
  ASSUME None \notin Names
  PROVE  MCSpec => PushSparesForeign
<1>1. W!Spec => W!PushSparesForeign
  BY W!PushesSpareForeignCommits
<1> QED
  BY <1>1, HandlersImplementParts, PTL DEF PushSparesForeign

\* A complete entry of the cache comes from one capture (natives_cache.py).
THEOREM HandlersHitWholeEntries ==
  ASSUME None \notin Workspaces, "sweep" \notin Workspaces
  PROVE  MCSpec => []HitIsWhole
<1>1. N!Spec => []N!HitIsWhole
  BY N!HitComesFromOneCapture DEF N!Distinct
<1> QED
  BY <1>1, HandlersImplementParts, PTL DEF HitIsWhole

\* No build in a worktree writes into the cache (populate_workspace).
THEOREM HandlersSealEntries ==
  ASSUME None \notin Workspaces, "sweep" \notin Workspaces
  PROVE  MCSpec => EntryIsSealed
<1>1. N!Spec => N!EntryIsSealed
  BY N!CacheFilesAreSealed DEF N!Distinct
<1> QED
  BY <1>1, HandlersImplementParts, PTL DEF EntryIsSealed

\* A write is repeated only for want of an answer (GitHubClient.request).
THEOREM HandlersRepeatOnlyUnanswered == MCSpec => []RepeatedOnlyUnanswered
<1>1. R!Spec => []R!RepeatedOnlyUnanswered
  BY R!WritesAreNotRepeated
<1> QED
  BY <1>1, HandlersImplementParts, PTL DEF RepeatedOnlyUnanswered

-----------------------------------------------------------------------------
\* An issue's part has no contributor's pull and asks for no review, the parts of
\* contributors' pulls have none of the bot's; in the other parts nothing arrives.
Theirs == Issues \union BotPulls

FromTheirs == \A p \in BotPulls, i \in Issues : from[p] # Work(i)

PartsInv ==
  /\ Serial /\ OrderInv(Issues)
  /\ IF part \in {"contributor", "fork"}
       THEN Quiet(Theirs) /\ QuietInv(Theirs) /\ OrderInv(Spoken) /\ FromTheirs
       ELSE Uninvited /\ FollowInv /\ FoundInv

\* A contributor's part opens pulls from the branches of contributors' pulls.
LEMMA TheirsStep ==
  ASSUME IInv, QuietInv(Theirs), OrderInv(Spoken), FromTheirs, [Next]_vars
  PROVE  FromTheirs'
<1>1. CASE from' = from
  BY <1>1 DEF FromTheirs
<1>2. ASSUME NEW k \in Threads, NEW p \in BotPulls, OpenPull(k, p)
      PROVE  FromTheirs'
  <2> DEFINE h == handler[k]
  <2>1. k \in Busy /\ HandlerOk(h) /\ from' = [from EXCEPT ![p] = h.branch]
    BY <1>2 DEF OpenPull, AtAgent, Busy, IInv, HandlersOk
  <2>2. h.num \in HumanPulls /\ h.branch \in Mine(h.num)
    <3>1. h.ev.on \in Threads /\ h.ev.on \notin Theirs /\ OwnTurn(k, h, Spoken)
      BY <2>1 DEF HandlerOk, EventOk, Events, QuietInv, OrderInv
    <3> QED
      BY <2>1, <3>1, ThreadKinds DEF OwnTurn, Theirs, Spoken, HandlerOk, Bound
  <2>3. \A i \in Issues : h.branch # Work(i)
    BY <2>2, MineTyped, NamesOfThreads, ThreadKinds DEF IInv
  <2> QED
    BY <2>1, <2>3 DEF FromTheirs, IInv, HostedOk
<1>3. from' = from \/ \E k \in Threads, p \in BotPulls : OpenPull(k, p)
  <2>1. Webhook \/ Dispatch \/ Run \/ Crash \/ (\E e \in events : FailCleanup(e)) => from' = from
    BY DEF Webhook, IssueOpened, IssueComment, PullComment, ReviewComment, ReviewRequested,
       Assign, Unassign, ThreadClosed, Queue, Dispatch, TriageIssue, ReviewPr, HandleComment,
       HandleReview, HandlePrConversation, CleanupWorkspace, RevokePrAssignment, untouched,
       Run, Prepare, Fail, EndTurn, Crash, FailCleanup, hosted
  <2>2. Tool => from' = from \/ \E k \in Threads, p \in BotPulls : OpenPull(k, p)
    BY DEF Tool, ClassifyIssue, ClassifyPr, PushBranch, SubmitReview, StageComment, MarkUnable,
       ReproRecord, AbortTask, CloseIssue, ThreadClosed, Queue, RecordPull, RecordReview, hosted
  <2> QED
    BY <2>1, <2>2 DEF Next, vars, hosted
<1> QED
  BY <1>1, <1>2, <1>3

\* The parts stay as they are.
LEMMA PartsHold == MCSpec => [](IInv /\ PartsInv)
<1>1. MCInit => PartsInv
  <2> SUFFICES ASSUME MCInit
               PROVE  PartsInv
    OBVIOUS
  <2>1. Init /\ FollowInv /\ FoundInv /\ Busy = {} /\ Outstanding = {} /\ stray = {}
    BY FollowsAtFirst, FoundAtFirst DEF MCInit, Init, Busy, Outstanding
  <2>2. Serial /\ OrderInv(Issues) /\ OrderInv(Spoken) /\ Quiet(Theirs) /\ Uninvited
    BY <2>1 DEF Init, Serial, OrderInv, Quiet, Uninvited
  <2>3. QuietInv(Theirs)
    BY <2>1, ThreadKinds DEF Init, QuietInv, QuietRows, Theirs
  <2>4. FromTheirs
    BY <2>1, NamesOfThreads, ThreadKinds DEF Init, FromTheirs
  <2> QED
    BY <2>1, <2>2, <2>3, <2>4 DEF PartsInv
<1>2. IInv /\ IInv' /\ PartsInv /\ [MCNext]_steps => PartsInv'
  <2> SUFFICES ASSUME IInv, IInv', PartsInv, [MCNext]_steps
               PROVE  PartsInv'
    OBVIOUS
  <2>1. part' = part /\ [Next]_vars
    BY DEF MCNext, Intake, Threaded, CheckedOut, Cached, Relayed, steps
  <2>2. (events' = events /\ assigned' = assigned) \/ Threaded
    BY DEF MCNext, Intake, CheckedOut, Cached, Relayed, steps, vars, hosted
  <2>3. Serial' /\ OrderInv(Issues)'
    <3>1. Apart(Issues)
      BY DEF Apart
    <3> QED
      BY <2>1, <3>1, SerialStep, OrderStep DEF PartsInv
  <2>4. CASE part \in {"contributor", "fork"}
    <3>1. Quiet(Theirs) /\ QuietInv(Theirs) /\ OrderInv(Spoken) /\ FromTheirs
      BY <2>4 DEF PartsInv
    <3>2. Apart(Spoken)
      BY <3>1 DEF QuietInv, QuietRows, Apart, Spoken
    <3>3. Quiet(Theirs)'
      <4>1. Scope \intersect Theirs = {}
        BY <2>4, LifecycleAssumption, ThreadKinds DEF Scope, Theirs
      <4> QED
        BY <2>2, <3>1, <4>1 DEF Threaded, Quiet
    <3>4. QuietInv(Theirs)' /\ OrderInv(Spoken)' /\ FromTheirs'
      BY <2>1, <3>1, <3>2, OrderStep, QuietStep, TheirsStep
    <3> QED
      BY <2>1, <2>3, <2>4, <3>3, <3>4 DEF PartsInv
  <2>5. CASE part \notin {"contributor", "fork"}
    <3>1. Uninvited /\ FollowInv /\ FoundInv /\ Serial /\ OrderInv(Issues)
      BY <2>5 DEF PartsInv
    <3>0. Threaded => part = "issue" /\ Scope = Issues \union BotPulls
      BY <2>5 DEF Threaded, Scope
    <3>2. \A e \in events' : e \in events \/ (e.on \notin HumanPulls /\ e.says.body # "review")
      BY <2>2, <3>0, ThreadKinds DEF Threaded, OnIssues, Said
    <3>3. assigned' = {}
      <4>1. assigned' \subseteq HumanPulls
        BY DEF IInv, HostedOk
      <4> QED
        BY <2>2, <3>0, <3>1, <4>1, ThreadKinds DEF Threaded, Uninvited
    <3>4. Uninvited'
      BY <3>1, <3>2, <3>3 DEF Uninvited
    <3>5. FollowInv' /\ FoundInv'
      BY <2>1, <3>1, <3>4, FollowStep, FoundStep
    <3> QED
      BY <2>1, <2>3, <2>5, <3>4, <3>5 DEF PartsInv
  <2> QED
    BY <2>4, <2>5
<1>3. MCSpec => []IInv
  BY HandlersImplementParts, IInvHolds, PTL
<1> QED
  BY <1>1, <1>2, <1>3, PTL DEF MCSpec, steps

\* The run's instances of what the theorems above say: no agent triages an issue
\* at its first attempt whose closure has been handled (triage_issue).
THEOREM HandlersTriageOpenIssues == MCSpec => []TriageIsOfAnOpenIssue
BY HandlersImplementParts, LifecycleTriageIsOfAnOpenIssue, PTL

\* A follow-up is on the pull's own branch (handle_pr_conversation).
THEOREM HandlersAmendTheBotsPull == MCSpec => []FollowUpAmendsItsPull
<1>1. PartsInv => FollowUpAmendsItsPull
  <2>1. QuietInv(Theirs) => FollowUpAmendsItsPull
    BY DEF QuietInv, Theirs, Busy, FollowUpAmendsItsPull, AtAgent
  <2> QED
    BY <2>1, AtHomeAmends DEF PartsInv
<1> QED
  BY <1>1, PartsHold, PTL

\* A first attempt does not push to a contributor's pull that was taken back
\* (_can_handle_pr_directly).
THEOREM HandlersAmendAssignedPulls == MCSpec => []FirstTryAmendsItsOwn
<1>1. IInv /\ PartsInv => FirstTryAmendsItsOwn
  <2>1. FollowInv => FirstTryAmendsItsOwn
    BY DEF FollowInv, HomeHandlers, HomeHandler, FirstTryAmendsItsOwn, AtAgent, Revoked
  <2> QED
    BY <2>1, FirstTryFollows DEF PartsInv
<1> QED
  BY <1>1, PartsHold, PTL

\* After any one failure or crash an open pull of the bot's leads to the row of its
\* issue (_resolve_issue_row_for_pr).
THEOREM HandlersFindPulls == MCSpec => []PullIsFound
<1>1. IInv /\ PartsInv => PullIsFound
  BY FoundByTable DEF PartsInv, FromTheirs, PullIsFound
<1> QED
  BY <1>1, PartsHold, PTL
=============================================================================
