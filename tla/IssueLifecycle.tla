--------------------------- MODULE IssueLifecycle ---------------------------
(***************************************************************************)
(* From a GitHub delivery to what the agent may publish: the routing of    *)
(* webhooks to issue keys (github_events.py), the dispatch and the task    *)
(* handlers (queue.py, tasks.py), the sqlite table `issues` (db.py), the   *)
(* turn of the agent (worker.py) and its GitHub tools (host_tools.py).     *)
(*                                                                         *)
(* Threads are issues, pull requests the bot opens and pull requests of    *)
(* contributors; a thread is its own issue key.  A key has one handler at  *)
(* a time (the worker pool's business, WorkerPool.tla); a handler works on *)
(* the workspace of the thread it resolves, which need not be its key's.   *)
(* The agent calls the tools in any order.  A tool that has had GitHub's   *)
(* answer writes to sqlite in a step of its own, and may do so after its   *)
(* handler is gone.  Git itself is the subject of Worktree.tla.            *)
(***************************************************************************)
EXTENDS Naturals, FiniteSets

CONSTANTS
  Issues, BotPulls, HumanPulls,  \* threads
  Forks,        \* contributors' pulls whose head is in another repository
  Bodies,       \* what a comment may say: see Directives
  None,         \* no branch, no pull, no row, no tree
  Detached,     \* a review worktree is at FETCH_HEAD, on no branch
  MaxEvents, MaxRetries, MaxFaults

Threads == Issues \union BotPulls \union HumanPulls
Pulls == BotPulls \union HumanPulls

Work(t) == <<"work", t>>      \* farm/<hex>/<slug>, a function of the number
Head(p) == <<"head", p>>      \* the name of a contributor's branch, in whichever repository
Review(p) == <<"review", p>>  \* review/pr-<n>
Branches == {"work", "head", "review"} \X Threads

Final == {"merged", "closed", "abandoned"}
States == Final \union {"reproducing", "reviewing", "opened", "needs_info"}
Tasks == {"triage", "review", "comment", "reviewComment"}

\* The directive the webhook stores with a comment.  A mention without a
\* request is stored too, with an empty body; an owner's authorizes.
Directives ==
  [body : {"none"}, authorizes : {FALSE}] \union
  [body : {"empty", "request", "review"}, authorizes : BOOLEAN]
Silent == [body |-> "none", authorizes |-> FALSE]

Kinds == {"triage", "comment", "pullComment", "reviewRequested",
          "reviewComment", "closed", "merged", "unassigned"}
Events == [n : 1..MaxEvents, kind : Kinds, on : Threads, key : Threads,
           says : Directives, attempts : 0..MaxRetries]

Row == [state : States, branch : Branches \union {None},
        pr : Pulls \union {None}, class : {"none", "bug", "other"}]

\* A dispatched delivery: at "setup" it has chosen a workspace, at "agent" the
\* agent runs in it.
Handler == [ev : Events, at : {"setup", "agent"}, num : Threads,
            branch : Branches, save : {"no", "moved"} \union States,
            task : Tasks, auth : BOOLEAN, isPull : BOOLEAN, busy : BOOLEAN]

ASSUME LifecycleAssumption ==
  /\ Issues \intersect Pulls = {} /\ BotPulls \intersect HumanPulls = {}
  /\ Forks \subseteq HumanPulls
  /\ Bodies \subseteq Directives
  /\ None # Detached /\ {None, Detached} \intersect (Threads \union Branches) = {}
  /\ None \notin Row /\ None \notin Handler
  /\ MaxEvents \in Nat /\ MaxRetries \in Nat /\ MaxFaults \in Nat

VARIABLES
  github,    \* state of every thread on GitHub
  assigned,  \* contributors' pulls the bot is assigned to
  from,      \* head branch of each pull the bot opened
  pushed,    \* branches the bot has pushed
  rows,      \* table issues
  tree,      \* what the worktree of a thread has checked out
  events,    \* queued deliveries
  mentions,  \* keys with an event that carries an implementation go-ahead
  handler,   \* the delivery a key is handling
  stray,     \* tool calls between GitHub's answer and the write to sqlite
  staged,    \* pulls with review comments staged
  reviewed,  \* pulls whose submit_pr_review is in tool_calls
  grounds,   \* history: branches the bot was ever given a reason to push
  dropped,   \* history: deliveries given up
  arrived, faults

hosted == <<github, assigned, from, pushed, grounds>>
local == <<rows, tree, mentions, staged, reviewed>>
vars == <<hosted, local, events, handler, stray, dropped, arrived, faults>>

TypeOK ==
  /\ github \in [Threads -> {"absent", "open", "closed", "merged"}]
  /\ assigned \subseteq HumanPulls
  /\ from \in [BotPulls -> Branches \union {None}]
  /\ pushed \subseteq Branches /\ grounds \subseteq Branches
  /\ rows \in [Threads -> Row \union {None}]
  /\ tree \in [Threads -> Branches \union {None, Detached}]
  /\ events \subseteq Events
  /\ mentions \subseteq Threads
  /\ handler \in [Threads -> Handler \union {None}]
  /\ stray \subseteq [tool : {"open", "submit"}, num : Threads, pull : Pulls, by : Events]
  /\ dropped \subseteq Events
  /\ staged \subseteq Threads /\ reviewed \subseteq Threads
  /\ arrived \in 0..MaxEvents /\ faults \in 0..MaxFaults

Init ==
  /\ github = [t \in Threads |-> IF t \in HumanPulls THEN "open" ELSE "absent"]
  /\ assigned = {} /\ from = [p \in BotPulls |-> None]
  /\ pushed = {} /\ grounds = {}
  /\ rows = [t \in Threads |-> None] /\ tree = [t \in Threads |-> None]
  /\ events = {} /\ mentions = {} /\ handler = [t \in Threads |-> None]
  /\ stray = {} /\ staged = {} /\ reviewed = {} /\ dropped = {}
  /\ arrived = 0 /\ faults = 0

(***************************************************************************)
(* Table issues                                                            *)
(***************************************************************************)

\* On a conflict a NULL branch or pr_number keeps the old one, and the
\* classification is not touched.
Upsert(r, t, state, branch, pr) ==
  LET old == r[t]
      new == IF old = None
               THEN [state |-> state, branch |-> branch, pr |-> pr, class |-> "none"]
               ELSE [state |-> state,
                     branch |-> IF branch = None THEN old.branch ELSE branch,
                     pr |-> IF pr = None THEN old.pr ELSE pr, class |-> old.class]
  IN [r EXCEPT ![t] = new]

\* UPDATE ... WHERE key=?: nothing happens to a row that is not there.
SetState(r, t, state) ==
  IF r[t] = None THEN r ELSE [r EXCEPT ![t].state = state]

RowsOfPull(r, p) == {t \in Threads : r[t] # None /\ r[t].pr = p}
RowsOfBranch(r, b) == {t \in Threads : r[t] # None /\ r[t].branch = b}

HeadRef_issue(p) == IF p \in HumanPulls THEN Head(p) ELSE Work(p)
HeadRef(p) == IF p \in HumanPulls THEN Head(p) ELSE from[p]

(***************************************************************************)
(* Webhooks: what happens on GitHub and what route() makes of it           *)
(***************************************************************************)

\* _resolve_pr_key: the key of the issue the pull is recorded with, else its own.
PullKeys(p) == IF RowsOfPull(rows, p) = {} THEN {p} ELSE RowsOfPull(rows, p)

\* An owner's mention is a go-ahead for the bot's branch of the thread.  A
\* contributor's branch is the bot's to push to by assignment only.
GroundedBy(t, says) ==
  grounds \union {b \in {IF t \in Issues THEN Work(t) ELSE HeadRef(t)} :
                     says.authorizes /\ t \notin HumanPulls}

Queue(kind, t, key, says) ==
  /\ arrived < MaxEvents
  /\ arrived' = arrived + 1
  /\ events' = events \union
       {[n |-> arrived + 1, kind |-> kind, on |-> t, key |-> key, says |-> says,
         attempts |-> 0]}
  /\ mentions' = IF says.authorizes THEN mentions \union {key} ELSE mentions
  /\ grounds' = GroundedBy(t, says)
  /\ UNCHANGED <<from, pushed, rows, tree, handler, stray, staged, reviewed,
                 dropped, faults>>

IssueOpened(i) ==
  /\ github[i] \in {"absent", "closed"}
  /\ github' = [github EXCEPT ![i] = "open"]
  /\ Queue("triage", i, i, Silent)
  /\ UNCHANGED assigned

IssueComment(i, says) ==
  /\ github[i] # "absent"
  /\ Queue("comment", i, i, says)
  /\ UNCHANGED <<github, assigned>>

\* Threads of pulls the bot wrote or is assigned to resume; elsewhere only a
\* request for a review is heard, under the pull's own key.
Ours(p) == p \in BotPulls \/ p \in assigned

PullComment(p, says) ==
  /\ github[p] # "absent"
  /\ Ours(p) \/ says.body = "review"
  /\ \E key \in (IF Ours(p) THEN PullKeys(p) ELSE {p}) :
       Queue("pullComment", p, key, says)
  /\ UNCHANGED <<github, assigned>>

ReviewRequested(p) ==
  /\ p \in HumanPulls /\ github[p] = "open"
  /\ Queue("reviewRequested", p, p, Silent)
  /\ UNCHANGED <<github, assigned>>

ReviewComment(p, says) ==
  /\ github[p] # "absent" /\ Ours(p)
  /\ \E key \in PullKeys(p) : Queue("reviewComment", p, key, says)
  /\ UNCHANGED <<github, assigned>>

ThreadClosed(t, how) ==
  /\ github[t] = "open" /\ (t \in Issues => how = "closed")
  /\ github' = [github EXCEPT ![t] = how]
  /\ \E key \in (IF t \in Pulls THEN PullKeys(t) ELSE {t}) :
       Queue(how, t, key, Silent)
  /\ UNCHANGED assigned

\* "assigned" itself is not routed; it is a ground to push all the same.  What has
\* the name of a fork's branch in this repository is none of the pull's.
Assign(p) ==
  /\ p \in HumanPulls \ assigned /\ github[p] = "open"
  /\ assigned' = assigned \union {p}
  /\ grounds' = grounds \union {Work(p)} \union {Head(q) : q \in {p} \ Forks}
  /\ UNCHANGED <<github, from, pushed, local, events, handler, stray, dropped,
                 arrived, faults>>

Unassign(p) ==
  /\ p \in assigned
  /\ assigned' = assigned \ {p}
  /\ Queue("unassigned", p, p, Silent)
  /\ UNCHANGED github

Webhook ==
  \/ \E i \in Issues : IssueOpened(i)
  \/ \E i \in Issues, says \in Bodies : IssueComment(i, says)
  \/ \E p \in Pulls, says \in Bodies : PullComment(p, says) \/ ReviewComment(p, says)
  \/ \E p \in Pulls : ReviewRequested(p) \/ Assign(p) \/ Unassign(p)
  \/ \E t \in Threads, how \in {"closed", "merged"} : ThreadClosed(t, how)

(***************************************************************************)
(* Dispatch.  A key's deliveries are claimed in the order they came, but   *)
(* one that waits for its retry is overtaken.                              *)
(***************************************************************************)
Claimable_anyOrder(e) == e \in events /\ handler[e.key] = None

Claimable(e) ==
  /\ e \in events /\ handler[e.key] = None
  /\ e.attempts > 0 \/
     \A f \in events : f.key = e.key /\ f.attempts = 0 => e.n <= f.n

Finished(t) == rows[t] # None /\ rows[t].state \in Final

\* What no handler changes before its agent runs.
untouched == <<hosted, mentions, stray, dropped, arrived, faults>>

\* A DirectiveInfo needs a body; the go-ahead goes to the tools with it.
Heard(e) == e.says.body \in {"request", "review"}

\* The handler goes on to a workspace ...
Enter(e, num, branch, save, task, auth, isPull) ==
  /\ handler' = [handler EXCEPT ![e.key] =
       [ev |-> e, at |-> "setup", num |-> num, branch |-> branch, save |-> save,
        task |-> task, auth |-> auth, isPull |-> isPull, busy |-> FALSE]]
  /\ events' = events \ {e}

\* ... or is done.
Done(e) == events' = events \ {e} /\ UNCHANGED handler

\* A handler that asks GitHub for the repository and the thread is done when
\* GitHub does not answer: the delivery is not retried.
EnterIfAnswered(e, num, branch, save, task, auth, isPull) ==
  Enter(e, num, branch, save, task, auth, isPull) \/ Done(e)

TriageIssue(e) ==
  /\ Claimable(e) /\ e.kind = "triage"
  /\ LET t == e.on
     IN \/ \* a pull request already covers the issue
           /\ rows[t] = None
           /\ Done(e) /\ UNCHANGED <<rows, tree>>
        \/ /\ rows' = Upsert(rows, t, "reproducing", None, None)
           /\ tree' = IF Finished(t)
                        THEN [tree EXCEPT ![t] = None] ELSE tree
           /\ Enter(e, t, Work(t), "reproducing", "triage", FALSE, FALSE)
  /\ UNCHANGED <<untouched, staged, reviewed>>

\* A comment on a pull that asks for a review is dispatched here whatever
\* route() made of it.
ReviewPr(e) ==
  /\ Claimable(e)
  /\ LET p == e.on
         forced == e.kind = "pullComment" /\ e.says.body = "review"
     IN /\ forced \/ e.kind = "reviewRequested"
        /\ \/ Done(e) /\ UNCHANGED <<rows, tree, staged>>  \* GitHub did not answer
           \/ /\ forced \/ p \notin reviewed
              /\ rows' = Upsert(rows, p, "reviewing", None, p)
              /\ tree' = IF forced THEN [tree EXCEPT ![p] = None] ELSE tree
              /\ staged' = IF forced THEN staged \ {p} ELSE staged
              /\ Enter(e, p, Review(p), "reviewing", "review",
                       forced /\ e.says.authorizes, TRUE)
  /\ UNCHANGED <<untouched, reviewed>>

HandleComment(e) ==
  /\ Claimable(e) /\ e.kind = "comment"
  /\ LET t == e.on
         go(branch, save, task) ==
           Enter(e, t, branch, save, task, e.says.authorizes /\ Heard(e), FALSE)
     IN \/ /\ rows[t] = None \/ Finished(t)
           /\ ~Heard(e)
           /\ Done(e) /\ UNCHANGED <<rows, tree>>
        \/ /\ rows[t] = None /\ Heard(e)
           /\ rows' = Upsert(rows, t, "reproducing", None, None)
           /\ go(Work(t), "reproducing", "triage")
           /\ UNCHANGED tree
        \/ /\ Finished(t) /\ Heard(e)
           /\ tree' = [tree EXCEPT ![t] = None]
           /\ rows' = Upsert(rows, t, "reproducing", None, None)
           /\ go(Work(t), "reproducing", "comment")
        \/ /\ rows[t] # None /\ ~Finished(t)
           /\ go(IF rows[t].branch = None THEN Work(t) ELSE rows[t].branch,
                 "no", "comment")
           /\ UNCHANGED <<rows, tree>>
  /\ UNCHANGED <<untouched, staged, reviewed>>

(***************************************************************************)
(* Events of a pull find the row of the issue it comes from: by number,    *)
(* then by head branch, repairing what is missing, with a fork's head as   *)
(* with any other.  "fetched" says whether GitHub answered.  Each result   *)
(* is <<row's thread or None, table>>.                                     *)
(***************************************************************************)
ResolveRow(p, fetched) ==
  IF RowsOfPull(rows, p) # {}
    THEN {<<t, IF rows[t].branch = None /\ fetched
                 THEN [rows EXCEPT ![t].branch = HeadRef(p)] ELSE rows>> :
            t \in RowsOfPull(rows, p)}
    ELSE IF fetched /\ RowsOfBranch(rows, HeadRef(p)) # {}
      THEN {<<t, [rows EXCEPT ![t].pr = p]>> : t \in RowsOfBranch(rows, HeadRef(p))}
      ELSE {<<None, rows>>}

\* A pull without a row is amended directly only if it is the bot's own or
\* assigned to it now, and its head is in this repository.
CanHandleDirectly(p, fetched) == fetched /\ Ours(p) /\ p \notin Forks

\* The bot is assigned to the pull, whose head is in this repository: its review row
\* becomes a writable one.
Reclaims(t, p, fetched) ==
  /\ t = p /\ fetched /\ p \in assigned \ Forks /\ github[p] = "open"

Reclaimed(r, p) == Upsert(r, p, "opened", Head(p), p)

HandleReview(e) ==
  /\ Claimable(e) /\ e.kind = "reviewComment"
  /\ \E fetched \in BOOLEAN : \E found \in ResolveRow(e.on, fetched) :
       LET p == e.on
           t == found[1]
           r == found[2]
           isReview == t = p /\ (r[t].state = "reviewing" \/ r[t].branch = Review(p))
       IN \/ /\ t = None /\ ~CanHandleDirectly(p, fetched)
             /\ Done(e) /\ UNCHANGED <<rows, tree>>
          \/ /\ t = None /\ CanHandleDirectly(p, fetched)
             /\ EnterIfAnswered(e, p, HeadRef(p), "opened", "reviewComment", FALSE, TRUE)
             /\ UNCHANGED <<rows, tree>>
          \/ /\ t # None /\ isReview /\ Reclaims(t, p, fetched)
             /\ rows' = Reclaimed(r, p) /\ tree' = [tree EXCEPT ![p] = None]
             /\ EnterIfAnswered(e, p, Head(p), "no", "reviewComment", FALSE, TRUE)
          \/ /\ t # None /\ ~(isReview /\ Reclaims(t, p, fetched))
             /\ rows' = r /\ UNCHANGED tree
             /\ IF r[t].branch = None THEN Done(e)
                ELSE EnterIfAnswered(e, t, r[t].branch, "no", "reviewComment", FALSE, TRUE)
  /\ UNCHANGED <<untouched, staged, reviewed>>

\* With a row at hand: reclaim a review row or a finished one, reopen a
\* finished one at a directive, or go on with the branch there is.
ResumePull(e, t, r, fetched) ==
  LET p == e.on
      final == r[t].state \in Final
      mayReclaim == r[t].state = "reviewing" \/ (final /\ ~Heard(e))
      go(branch) ==
        EnterIfAnswered(e, t, branch,
          IF ~Heard(e) THEN "no" ELSE IF r[t].branch = None THEN "reproducing" ELSE "moved",
          "comment", e.says.authorizes /\ Heard(e), TRUE)
  IN \/ /\ mayReclaim /\ Reclaims(t, p, fetched)
        /\ rows' = Reclaimed(r, p) /\ tree' = [tree EXCEPT ![p] = None]
        /\ IF e.says.body = "empty" THEN Done(e) ELSE go(Head(p))
     \/ /\ mayReclaim /\ ~Reclaims(t, p, fetched)
        /\ Done(e) /\ rows' = r /\ UNCHANGED tree
     \/ /\ final /\ Heard(e)
        /\ tree' = [tree EXCEPT ![t] = None]
        /\ rows' = Upsert(r, t, "reproducing", None, None)
        /\ go(IF r[t].branch = None THEN Work(t) ELSE r[t].branch)
     \/ /\ ~mayReclaim /\ ~final
        /\ rows' = r /\ UNCHANGED tree
        /\ IF \/ e.says.body = "empty"
              \/ r[t].branch = None /\ ~(Heard(e) /\ r[t].state = "reproducing")
             THEN Done(e)
             ELSE go(IF r[t].branch = None THEN Work(t) ELSE r[t].branch)

HandlePrConversation(e) ==
  /\ Claimable(e) /\ e.kind = "pullComment" /\ e.says.body # "review"
  /\ \E fetched \in BOOLEAN : \E found \in ResolveRow(e.on, fetched) :
       IF found[1] # None
         THEN ResumePull(e, found[1], found[2], fetched)
         ELSE /\ IF CanHandleDirectly(e.on, fetched) /\ e.says.body # "empty"
                   THEN EnterIfAnswered(e, e.on, HeadRef(e.on), "opened", "comment",
                              e.says.authorizes /\ Heard(e), TRUE)
                   ELSE Done(e)
              /\ UNCHANGED <<rows, tree>>
  /\ UNCHANGED <<untouched, staged, reviewed>>

CleanupWorkspace(e) ==
  /\ Claimable(e) /\ e.kind \in {"closed", "merged"}
  /\ LET found == IF e.on \in Pulls THEN RowsOfPull(rows, e.on)
                  ELSE {t \in {e.on} : rows[t] # None}
     IN IF found = {} THEN UNCHANGED <<rows, tree>>
        ELSE \E t \in found : /\ tree' = [tree EXCEPT ![t] = None]
                              /\ rows' = SetState(rows, t, e.kind)
  /\ Done(e)
  /\ UNCHANGED <<untouched, staged, reviewed>>

RevokePrAssignment(e) ==
  /\ Claimable(e) /\ e.kind = "unassigned"
  /\ tree' = IF rows[e.on] = None THEN tree ELSE [tree EXCEPT ![e.on] = None]
  /\ rows' = [rows EXCEPT ![e.on] = None]
  /\ Done(e)
  /\ UNCHANGED <<untouched, staged, reviewed>>

Dispatch ==
  \E e \in events :
    \/ TriageIssue(e) \/ ReviewPr(e) \/ HandleComment(e) \/ HandleReview(e)
    \/ HandlePrConversation(e) \/ CleanupWorkspace(e) \/ RevokePrAssignment(e)

(***************************************************************************)
(* The workspace and the turn                                              *)
(***************************************************************************)

\* A worktree that is there keeps the branch it has checked out; a review's is
\* made at the pull's head, detached.
Kept(h) == tree[h.num] # None
Checkout_detached(h) == IF tree[h.num] = None THEN h.branch ELSE tree[h.num]

Checkout(h) == IF tree[h.num] \in {None, Detached} THEN h.branch ELSE tree[h.num]
Made(h) ==
  IF Kept(h) THEN tree
  ELSE [tree EXCEPT ![h.num] = IF h.task = "review" THEN Detached ELSE h.branch]

\* git refuses a second worktree on a branch.
Addable(h) ==
  Kept(h) \/ h.task = "review" \/ \A t \in Threads : tree[t] # h.branch

Saved_noBranch(h) ==
  CASE h.save = "no" -> rows
    [] h.save \in {"moved", "reproducing"} ->
         Upsert(rows, h.num, "reproducing", None, None)
    [] OTHER -> Upsert(rows, h.num, h.save, Checkout(h), h.num)

Saved(h) ==
  CASE h.save = "no" -> rows
    [] h.save = "moved" ->
         IF Checkout(h) = h.branch THEN rows
         ELSE Upsert(rows, h.num, "reproducing", Checkout(h), None)
    [] h.save = "reproducing" -> Upsert(rows, h.num, "reproducing", Checkout(h), None)
    [] OTHER -> Upsert(rows, h.num, h.save, Checkout(h), h.num)

Prepare(k) ==
  LET h == handler[k]
  IN /\ h # None /\ h.at = "setup" /\ Addable(h)
     /\ tree' = Made(h)
     /\ rows' = Saved(h)
     /\ handler' = [handler EXCEPT ![k] = [h EXCEPT !.at = "agent", !.branch = Checkout(h)]]
     /\ UNCHANGED <<hosted, mentions, staged, reviewed, events, stray, dropped,
                    arrived, faults>>

\* A failed delivery waits for a retry, or has had its retries, those that a
\* crash cost included.
GiveBack(e) ==
  \/ /\ e.attempts < MaxRetries
     /\ events' = (events \ {e}) \union {[e EXCEPT !.attempts = @ + 1]}
     /\ UNCHANGED dropped
  \/ /\ events' = events \ {e}
     /\ dropped' = dropped \union {e}

\* The clean-up of a workspace fails.
FailCleanup(e) ==
  /\ faults < MaxFaults /\ Claimable(e)
  /\ e.kind \in {"closed", "merged", "unassigned"}
  /\ GiveBack(e)
  /\ faults' = faults + 1
  /\ UNCHANGED <<hosted, local, handler, stray, arrived>>

\* The set-up fails, before or after the worktree is made, or the turn does.
Fail(k) ==
  LET h == handler[k]
  IN /\ faults < MaxFaults /\ h # None
     /\ GiveBack(h.ev)
     /\ \/ UNCHANGED tree
        \/ h.at = "setup" /\ Addable(h) /\ tree' = Made(h)
     /\ handler' = [handler EXCEPT ![k] = None]
     /\ faults' = faults + 1
     /\ UNCHANGED <<hosted, rows, mentions, staged, reviewed, stray, arrived>>

\* The process stops and starts again: what ran is queued, at its old place.
Crash ==
  /\ faults < MaxFaults
  /\ \E k \in Threads : handler[k] # None
  /\ events' = events \union {handler[k].ev : k \in {x \in Threads : handler[x] # None}}
  /\ handler' = [k \in Threads |-> None]
  /\ stray' = {}
  /\ faults' = faults + 1
  /\ UNCHANGED <<hosted, local, dropped, arrived>>

\* The prompt and the reminders after it; the agent may ignore them all.
EndTurn(k) ==
  /\ handler[k] # None /\ handler[k].at = "agent" /\ ~handler[k].busy
  /\ handler' = [handler EXCEPT ![k] = None]
  /\ UNCHANGED <<hosted, local, events, stray, dropped, arrived, faults>>

(***************************************************************************)
(* Tools                                                                   *)
(***************************************************************************)
AtAgent(k) == handler[k] # None /\ handler[k].at = "agent" /\ ~handler[k].busy

ReviewMode_byBranch(h) == h.branch \in {Review(p) : p \in Threads}

ReviewMode(h) == h.task = "review" \/ h.branch \in {Review(p) : p \in Threads}

Authorized_anyClass(h) ==
  \/ h.auth
  \/ h.num \in mentions
  \/ rows[h.num] # None /\ (rows[h.num].pr # None \/ rows[h.num].class # "none")

Authorized(h) ==
  \/ h.auth
  \/ h.num \in mentions
  \/ rows[h.num] # None /\ (rows[h.num].pr # None \/ rows[h.num].class = "bug")

MayPublish(h) == ~ReviewMode(h) /\ Authorized(h)

\* Renaming the branch's slug, which needs that no pull is there, keeps it Work.
ClassifyIssue(k, class) ==
  LET h == handler[k]
  IN /\ AtAgent(k) /\ ~h.isPull
     /\ rows[h.num] # None /\ rows[h.num].class = "none"
     /\ rows' = [rows EXCEPT ![h.num].class = class]
     /\ grounds' = IF class = "bug" THEN grounds \union {Work(h.num)} ELSE grounds
     /\ UNCHANGED <<github, assigned, from, pushed, tree, mentions, staged, reviewed,
                    events, handler, stray, dropped, arrived, faults>>

\* A rank, which is no classification that lets the bot publish.
ClassifyPr(k) ==
  LET h == handler[k]
  IN /\ AtAgent(k) /\ ReviewMode(h) /\ rows[h.num] # None
     /\ rows' = [rows EXCEPT ![h.num].class = "other"]
     /\ UNCHANGED <<hosted, tree, mentions, staged, reviewed, events, handler, stray,
                    dropped, arrived, faults>>

PushBranch(k) ==
  /\ AtAgent(k) /\ MayPublish(handler[k])
  /\ pushed' = pushed \union {handler[k].branch}
  /\ UNCHANGED <<github, assigned, from, grounds, local, events, handler, stray,
                 dropped, arrived, faults>>

\* gh_open_pr up to GitHub's answer; GitHub has one open pull per head, and a fork's
\* head is another.  The thread of a pull of its own is the bot's to work on.
OpenPull(k, p) ==
  LET h == handler[k]
  IN /\ AtAgent(k) /\ MayPublish(h)
     /\ github[p] = "absent"
     /\ \A q \in Pulls \ Forks : github[q] = "open" => HeadRef(q) # h.branch
     /\ pushed' = pushed \union {h.branch}
     /\ github' = [github EXCEPT ![p] = "open"]
     /\ from' = [from EXCEPT ![p] = h.branch]
     /\ stray' = stray \union {[tool |-> "open", num |-> h.num, pull |-> p, by |-> h.ev]}
     /\ handler' = [handler EXCEPT ![k].busy = TRUE]
     /\ grounds' = grounds \union {Work(p)}
     /\ UNCHANGED <<assigned, local, events, dropped, arrived, faults>>

SubmitReview(k) ==
  LET h == handler[k]
  IN /\ AtAgent(k) /\ ReviewMode(h) /\ h.num \in Pulls
     /\ stray' = stray \union {[tool |-> "submit", num |-> h.num, pull |-> h.num, by |-> h.ev]}
     /\ handler' = [handler EXCEPT ![k].busy = TRUE]
     /\ UNCHANGED <<hosted, local, events, dropped, arrived, faults>>

\* The rest of the tool; its handler may be gone.
Returned(s) ==
  /\ stray' = stray \ {s}
  /\ handler' = [k \in Threads |->
       IF handler[k] # None /\ handler[k].ev = s.by
         THEN [handler[k] EXCEPT !.busy = FALSE] ELSE handler[k]]

RecordPull(s) ==
  /\ s \in stray /\ s.tool = "open"
  /\ rows' = IF rows[s.num] = None THEN rows
             ELSE [rows EXCEPT ![s.num].pr = s.pull, ![s.num].state = "opened"]
  /\ Returned(s)
  /\ UNCHANGED <<hosted, tree, mentions, staged, reviewed, events, dropped, arrived,
                 faults>>

RecordReview(s) ==
  /\ s \in stray /\ s.tool = "submit"
  /\ staged' = staged \ {s.num}
  /\ reviewed' = reviewed \union {s.num}
  /\ Returned(s)
  /\ UNCHANGED <<hosted, rows, tree, mentions, events, dropped, arrived, faults>>

StageComment(k) ==
  /\ AtAgent(k) /\ ReviewMode(handler[k])
  /\ staged' = staged \union {handler[k].num}
  /\ UNCHANGED <<hosted, rows, tree, mentions, reviewed, events, handler, stray,
                 dropped, arrived, faults>>

MarkUnable(k) ==
  /\ AtAgent(k)
  /\ rows' = SetState(rows, handler[k].num, "needs_info")
  /\ UNCHANGED <<hosted, tree, mentions, staged, reviewed, events, handler, stray,
                 dropped, arrived, faults>>

ReproRecord(k) ==
  LET t == handler[k].num
  IN /\ AtAgent(k) /\ rows[t] # None /\ rows[t].state = "needs_info"
     /\ rows' = SetState(rows, t, "reproducing")
     /\ UNCHANGED <<hosted, tree, mentions, staged, reviewed, events, handler, stray,
                    dropped, arrived, faults>>

\* abort_task ends the turn, which is no failure.
AbortTask(k) ==
  /\ AtAgent(k)
  /\ rows' = SetState(rows, handler[k].num, "abandoned")
  /\ handler' = [handler EXCEPT ![k] = None]
  /\ UNCHANGED <<hosted, tree, mentions, staged, reviewed, events, stray, dropped,
                 arrived, faults>>

CloseIssue(k) ==
  /\ AtAgent(k) /\ ~ReviewMode(handler[k])
  /\ ThreadClosed(handler[k].num, "closed")

Tool ==
  \/ \E k \in Threads, class \in {"bug", "other"} : ClassifyIssue(k, class)
  \/ \E k \in Threads, p \in BotPulls : OpenPull(k, p)
  \/ \E k \in Threads :
       \/ ClassifyPr(k) \/ PushBranch(k) \/ SubmitReview(k) \/ StageComment(k)
       \/ MarkUnable(k) \/ ReproRecord(k) \/ AbortTask(k) \/ CloseIssue(k)
  \/ \E s \in stray : RecordPull(s) \/ RecordReview(s)

Run == \E k \in Threads : Prepare(k) \/ Fail(k) \/ EndTurn(k)

Next ==
  \/ Webhook \/ Dispatch \/ Run \/ Tool \/ Crash
  \/ \E e \in events : FailCleanup(e)

Spec == Init /\ [][Next]_vars

(***************************************************************************)
(* Properties                                                              *)
(***************************************************************************)

\* The names of the heads of forks' pulls that the bot was assigned to.
ForkHeads == {Head(p) : p \in {q \in Forks : Work(q) \in grounds}}

\* What is pushed, the bot had a reason to push: the issue is a bug, an owner
\* said so, or the contributor's pull was assigned to the bot.  The reasons are
\* kept apart from the rows, the mentions and the modes the tools consult
\* (_enforce_impl_authorization, review_mode), across re-runs, reopenings,
\* reclaimed reviews and pulls that are found or opened late.  The exception is
\* the code's: in the row of a fork's review whose set-up failed,
\* _resolve_issue_row_for_pr stores the fork's head, and an agent works in this
\* repository on a branch of that name, once the bot is assigned to the pull.
PushHasGrounds == pushed \subseteq grounds \union ForkHeads

\* After any one failure or crash, an open pull of the bot's still leads to the
\* row of its issue, by number or by branch (_resolve_issue_row_for_pr), unless
\* the tool that opened it is about to record it.
PullIsFound ==
  \A p \in BotPulls, i \in Issues :
    faults < 2 /\ github[p] = "open" /\ from[p] = Work(i) =>
      \/ RowsOfPull(rows, p) # {}
      \/ RowsOfBranch(rows, from[p]) # {}
      \/ \E s \in stray : s.tool = "open" /\ s.pull = p

\* An agent that answers on a pull of the bot's works on the pull's own branch,
\* whatever row and whatever worktree it was resumed with, as long as nobody asks
\* for a review of the pull: one whose set-up fails leaves a row without a branch,
\* and after a closing a follow-up may start that row on a fresh branch.
FollowUpAmendsItsPull ==
  \A k \in Threads :
    AtAgent(k) /\ handler[k].ev.on \in BotPulls /\ ~ReviewMode(handler[k]) =>
      handler[k].branch = from[handler[k].ev.on]

\* The first attempt at a triage is never of an issue whose closure has been
\* handled (deliveries of a key are claimed in order).  A retry may be: it is
\* overtaken by the closure and then taken for a reopening (triage_issue).
TriageIsOfAnOpenIssue ==
  \A k \in Threads :
    /\ handler[k] # None /\ handler[k].ev.kind = "triage"
    /\ handler[k].ev.attempts = 0
    =>
      \/ github[handler[k].num] = "open"
      \/ \E e \in events : e.kind = "closed" /\ e.on = handler[k].num

Revoked(p) ==
  /\ p \in HumanPulls \ assigned
  /\ ~\E e \in events \union dropped : e.kind = "unassigned" /\ e.on = p

\* "Only bot-owned or bot-assigned same-repo PR branches are safe to amend
\* directly" (_can_handle_pr_directly): once revoke_pr_assignment has run, an
\* agent of a delivery at its first attempt may not push to the pull.  A retry
\* may: a failed set-up leaves a worktree without a row, which the revocation
\* does not find and a later review adopts.
FirstTryAmendsItsOwn ==
  \A k \in Threads :
    AtAgent(k) /\ handler[k].ev.attempts = 0 /\ Revoked(handler[k].num) =>
      ~MayPublish(handler[k])
=============================================================================
