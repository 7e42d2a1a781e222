# robomp in TLA+

robomp is a service that turns GitHub webhooks into work for a coding agent: it
queues deliveries in sqlite, gives each issue a git worktree, runs the `omp`
agent in it over a JSON-lines RPC channel, and lets the agent act on GitHub
through host tools. This directory models the parts of it that decide what
happens when, model-checks them with TLC and proves the most important facts
with TLAPS.

Paths below are relative to `src/python/robomp/src/` unless they start with
`src/`; `omp_rpc/` stands for `src/python/omp-rpc/src/omp_rpc/`.

## Inventory

| component | state it keeps | operations | what is hard | what makes it correct |
|---|---|---|---|---|
| Event queue (`db.py`) | table `events`: state, attempts, received_at, available_at | record, claim, mark, requeue, schedule_retry, replace, reset_stuck_running | the only state that outlives the process; three writers (loop, database threads, CLI process) | a claimed row is one nobody else works on; every queued row is decided; retries are bounded |
| Worker pool (`queue.py`) | `_inflight`, `_cancelled`, `_cancel_hooks`, `_shutdown_cancelled`, tasks, `_wakeup` | start, stop, dispatch loop, `_run_event`, `cancel_event`, `_arm_cancel` | coroutines and threads interleave; cancel and stop race the agent's start | one worker per issue; a cancel lands; stop returns; nothing leaks |
| Slot pool (`slot_pool.py`) | free and checked-out uids | acquire, release | failures between the two | conservation, exclusivity |
| Cancellation scope (`cancellation.py`) | context variable | register, unregister a hook | runs on the agent's thread | the hook of a cancelled delivery fires |
| Agent worker (`worker.py`, `agent_image.py`) | one RPC client per task, hard timer, abort controller | run_task, `_run_rpc_blocking`, reminders | blocking thread under an event loop; three sources of a stop | a task ends only when its thread has |
| Webhook server (`server.py`) | application bag, browse cache | webhook, replay, trigger, cancel, read-only views | duplicate deliveries, rate limits, stale caches | an accepted delivery is counted once and queued once |
| Manual triage, CLI (`manual_triage.py`, `cli.py`) | none | enqueue, wait | second process on the same database | an active row is never replaced |
| Auto-close (`autoclose.py`, table `pending_closures`) | pending, claimed and final closures | schedule, cancel on reply, tick, finalize | a reply races the sweep; crash between claim and close | an issue is closed only after a silent grace period |
| Issue index (`issue_index.py`, table `issue_index`) | rows, per-repo watermark | webhook upsert, page-wise sync | pages shift while they are read | the index converges to GitHub's state |
| Rate limiter (`submissions`, `github_events.rate_limit_cap`) | accepted deliveries per login | admit | deliveries sent again, tiers, window edges | what is queued stays within the cap in any window |
| Task handlers (`tasks.py`) | table `issues` | triage, comment, review, cleanup | retried and resumed handlers repeat their side effects | state follows what was done on GitHub |
| Host tools (`host_tools.py`) | bindings, `pr_reviews`, `pending_closures` | gh_* tools of the agent | an agent calls them in any order, again after a restart | unauthorised work is not published; one PR and one review |
| Sandbox (`sandbox.py`) | clone per repository, worktree per issue, sessions | ensure, remove, reclaim | shared clone, crashes between git commands | a worktree belongs to one issue and survives |
| Git operations (`git_ops.py`) | none | clone, fetch, commit, push guards | partial failures | a push never clobbers others' commits |
| Natives cache (`natives_cache.py`) | directory per key | lookup, capture, gc | two captures, gc against a reader | an entry is complete or absent |
| gh-proxy (`proxy/`, `proxy_hmac.py`, `proxy_client.py`) | none | signed relays of git and GitHub calls | two clients that retry, handlers that outlive their caller | a write is repeated only when nobody heard its answer |
| GitHub client (`github_client.py`, `github_backend.py`) | none | REST and GraphQL calls | pagination, retries | see gh-proxy |
| Event routing (`github_events.py`) | none | classify a payload | many cases | bots and strangers start nothing |
| RPC client (`omp_rpc/client.py`) | pending requests, prompt runs, event history, reader thread | request, prompt_and_wait, stop, host tools | reader and caller threads; late and lost replies | a reply reaches its caller; waiting ends |
| RPC protocol (`omp_rpc/protocol.py`) | none | parse and build frames | - | - |
| Configuration, logging, personas, pragmas | constants | - | - | - |
| Dashboard (`dashboard.py`, `web/`) | none (read-only views) | - | - | - |
| Deployment (`src/infra`, Docker, entrypoint) | - | restart policy | - | - |

Interactions: the server records rows and wakes the pool; the pool claims rows
and runs task handlers; a handler prepares a worktree (sandbox, git, natives
cache) and starts the agent worker; the agent drives host tools, which act on
GitHub through the backend and on the database; the auto-close scheduler and
the index sync are loops of their own beside the pool; `cancel_event`, the hard
timer, `abort_task` and `stop()` all end an agent by stopping its RPC client.

## Modules

### WorkerPool: the event queue and its pool

One asyncio loop runs the dispatcher, the tasks, the HTTP handlers and
`stop()`. A step of the model is the code between two awaits. Beside the loop
run threads: the database calls of the dispatcher (`asyncio.to_thread`) and the
blocking driver of each agent, and their steps interleave with everything.

| model | code |
|---|---|
| `row`, `attempts`, `received`, `backoff`, `clock` | columns of `events`; `backoff` holds the rows whose `available_at` is in the future |
| `dpc`, `claimed`, `wakeup` | where `_dispatch_loop`/`_claim_next_unique` is, the row in its hand, `_wakeup` |
| `inflight`, `cancelled`, `hooks`, `shutdownCancelled` | the sets of `WorkerPool.__init__`; `firing` are hooks popped and running |
| `pc`, `slot`, `available`, `tcancel` | `_run_event` of each delivery, its slot, the free slots, a pending `task.cancel()` |
| `thr` | the thread of `_run_rpc_blocking`: starting, past the check of `_arm_cancel`, driving, stopped, returned or raised |
| `phase`, `victims` | the process and the stages of `stop()` |

`_inflight_lock` is held by the dispatcher from `BeginClaim` to its next sleep
(`LockHeld`); `_release` needs it. A crash and an exit lose everything but the
table. Two deliveries of one issue share a key; a delivery without an issue is
its own key. `_reap_slot` kills what still runs under the slot's uid, which in
`Unwind` may or may not stop the agent of a thread that nobody awaits (a
container survives it).

Abstracted: what a handler does (it succeeds or raises, with or without an
agent), payloads, error texts, the durations of back-off and drain. Bounded:
`MaxRestarts`, `MaxCrashes`, `MaxOps` (operator requests), and `attempts` is
told apart only up to `MaxRetries + 1`, which is all `RetryAllowed` looks at.

Fairness (`FairSpec`): the loop and the threads keep running, and every await of
a task is bounded by a timeout of the program (the agent's hard timer, request
timeouts), hence weak fairness of each step; `asyncio.Lock` and `asyncio.Queue`
serve their waiters in turn, hence strong fairness of `AcquireSlot` and
`Release`. Requests, failures, stops and crashes are never forced. `StopSpec`
keeps only what `stop()` itself is entitled to: agents and handlers may hang.

### EventLedger: what the queue promises

States of deliveries and the set being worked on, nothing else. `WorkerPool`
implements it (`LedgerSpec`, mapping `state <- row`, `working <-` the deliveries
whose handler has not decided yet): a row is claimed only when no row of its
issue runs, a handler begins only when no handler of the issue works, and only
a handler or a restart ends a running row that has a handler.

### RetryBudget

`WorkerPool` with a history variable that counts the failures of each
delivery's handler since its work was last asked for; the budget relates that
history to `attempts`. `pool_safety` runs it.

### RpcClient: the channel to an agent

`omp_rpc/client.py` from the ready signal to the end of `stop()`. The threads
are the callers, the reader of stdout, the threads of host tools and those that
call `stop()`; a step is what one of them does under one lock, or one call to
the outside.

| model | code |
|---|---|
| `requestId`, `command`, `pending`, `box` | `_request_id`, the `_PendingRequest` of each id, `_pending`, the `response_queue` of size one |
| `active` | `_prompt_lifecycle.active_operation` |
| `events`, `offset`, `errors` | `_events` with its trimming, the index of `_async_errors` |
| `scheduled`, `completed`, `lastErrorIndex` | the counts behind `_is_agent_idle`, `_last_schedule_async_error_index` |
| `closed`, `stopping`, `process`, `tools` | `_closed_error`, `_stopping`, `_process`, the keys of `_pending_host_tool_calls` |
| `at`, `op`, `rid`, `start`, `errStart`, `last` | where each caller is, its locals, what its last call returned |
| `reader`, `target` | where `_read_stdout_loop` is, the request whose reply it carries |
| `latecomers` | history: requests registered once the client was closed |
| `phase`, `size`, `marking` | `stop()` of each stopper, the size of the dict it iterates over, `_mark_closed` of each marker |
| `inp`, `out`, `alive`, `todo`, `run`, `ended` | the pipes and the agent process (external) |

The agent answers commands in order and runs prompts one after the other;
`AgentFaults` adds rejected commands, errors without an id (`unknown`,
`parse`), prompts that fail after they were accepted (`late`), a terminal
`agent_end` that does not parse (`badEnd`) or one that is not terminal
(`continued`), garbage on stdout and its exit. A frame of the model carries, for
the reader of the model only, the request it is about; no action looks at it.

A driver of robomp calls `prompt_and_wait` and gives up on the first error
(`GivesUp`, `worker.py` `_drive_turn`), while a cancel hook and the exit of the
`with` statement stop the client; as a library, several threads make any call.

`AwaitedIsReachable` says who can answer whoever waits: its queue holds the
reply, the reader carries it, or the request is pending and `Attended`, by the
reader or somebody on the way to `_mark_closed` before the client is closed, by a
`_fail_pending` after. Two cases are left to their deadlines, and named:
`_request` does not ask whether the client is closed, so a request may be
registered behind `_fail_pending` (`latecomers`); and a `stop()` that raises half
way deserts the callers (`Deserted`), because the reader leaves without a word
while `_stopping` is set.

Merged into one step: `acquire` with the index read after it (nobody else looks
at the index of a caller that has not sent anything), and the emptying of
`_pending` with the puts of `_fail_pending` (each goes to a queue that only its
own waiting caller reads).

Not modelled: `start()` and the protocol negotiation, the reassembly of chunks,
host URIs, listeners and UI requests, what host tools return, the histories of
protocol and listener errors, the trimming of `_async_errors` (the wait raises
either way), an `abort_and_prompt`.

Fairness (`FairSpec`): the reader, `_mark_closed`, a `stop()` that has begun and
the callers inside a call keep running, for they are threads; the agent, its
tools and the calls of `stop()` are never forced. A deadline is only forced
where `Timeouts` is TRUE.

### Autoclose: the end of answered questions

The table `pending_closures`, `AutocloseScheduler`, the answer of
`gh_post_comment` in its two steps (the comment on GitHub, the row), the
webhooks that call a schedule off, and the people who vote, close and reopen.

| model | code |
|---|---|
| `row`, `watched`, `closeAt` | `state`, `comment_id`, `close_at` of the row |
| `batch`, `current`, `stage`, `held` | the rows of a claim, `_process_row` between its awaits, the snapshot of the row |
| `posting` | a host tool between `post_comment` and `_schedule_autoclose` |
| `open`, `answers`, `votes`, `hooks` | the issue on GitHub, and webhooks under way |
| `latest`, `objected`, `vetoed`, `dropped` | history, read by properties only |

A row is taken from its batch in any order (`RETURNING` promises none). An
exception that is no `GitHubError` and a restart forget the batch (`Aborts`,
`Restart`). Fairness: the loop keeps ticking and GitHub does not fail for ever
(strong fairness of its success, on whichever issue it is asked about); people,
failures and restarts are never forced. Time is a counter up to `MaxTime`, the window one unit.

Read from the properties what they leave open: a reply handled before the
answer's row exists, or while the row is claimed, calls nothing off; a vote
after the listing does not count. The code has it so, and so has the model. A
close that GitHub carried out and answered with an error is requeued like one
that it did not (`Fails`), and the issue, if somebody reopens it meanwhile, is
closed again.

### IssueLifecycle: from a delivery to what the agent may publish

The routing of webhooks (`github_events.py`), `_dispatch` (`queue.py`), every
handler of `tasks.py`, the table `issues`, the turn of the agent and the tools
by which it publishes (`host_tools.py`). Threads are issues, pull requests the
bot opens and pull requests of contributors; those of `Forks` have their head in
another repository.

| model | code |
|---|---|
| `github`, `assigned`, `from`, `pushed` | GitHub: the state of threads, the bot's assignments, heads of the bot's pulls, branches it has pushed (external) |
| `rows`, `mentions`, `reviewed`, `staged` | `issues`; events with a go-ahead of an owner; `submit_pr_review` in `tool_calls`; `pr_reviews` |
| `tree` | the branch a workspace has checked out (the whole of it is `Worktree`'s) |
| `events`, `handler` | queued deliveries; `_dispatch` of each issue key, which has chosen a workspace ("setup") or runs its agent |
| `stray` | `gh_open_pr` and `submit_pr_review` between GitHub's answer and the write to sqlite; the thread of a tool outlives its handler |
| `grounds`, `dropped` | history: branches the bot was ever given a reason to push, deliveries given up |

A dispatch is one step up to `ensure_workspace`, with every row it writes and
every workspace it removes; `Prepare` is the set-up and the rows written after
it. GitHub may fail to answer any of the questions a handler asks: `fetched` is
chosen freely where the code goes on without the answer, `EnterIfAnswered` where
it is done. `Fail` is a failure of the set-up, before or after the worktree is
made, or of the turn; `Crash` brings back what ran, at its old place. Left out:
labels, reactions, prompts, the threads fetched for them, reviewer requests.

Pushing is possible for a contributor's pull by assignment only, for an issue
after a classification as a bug or an owner's word, for a pull of the bot's
because it is its own; `grounds` records exactly these, where they happen, and
is read by no action. Nothing gives a ground for the branch of this repository
that has the name of a fork's head.

`_can_handle_pr_directly` and `_reclaim_assigned_pr_row` compare `head_repo` with
the repository, and so do `CanHandleDirectly` and `Reclaims`.
`_resolve_issue_row_for_pr` does not (`tasks.py:242`): it stores the fork's head
name as the branch of a review row that a failed set-up left without one. Hence
the exception `ForkHeads` of `PushHasGrounds`, see Findings. A fork's head that
has the name of a branch already known (the bot's own, another contributor's) is
left out: the names of heads differ in the model.

### Worktree: the checkouts of one repository

`ensure_workspace` and `remove_workspace` (`sandbox.py`) with the git commands
they run (`git_ops.py`), and the push of `gh_push_branch` and `gh_open_pr` with
its gates (`host_tools.py`).

| model | code |
|---|---|
| `pool`, `tracking`, `heads`, `bad`, `reg` | the shared clone: its directory, `refs/remotes/origin`, `refs/heads`, refs that cannot be read, registered worktrees |
| `initializing` | `worktrees/<id>/locked` of the registrations that a killed `git worktree add` left |
| `root`, `tree` | the directory of a workspace, the checkout in it |
| `at`, `want` | how far a set-up or a removal has come; `Locked` stages hold the repository's lock |
| `push` | pushes of a workspace: formatted (`bun run fix`), reworded (message repair), gated, leased |
| `fetching`, `late` | git at work in the proxy for a caller that has been told 504 |
| `origin` | GitHub, where people push, rewrite and delete branches (external) |
| `torn` | history: workspaces whose process died between git's own steps |

A tip is the set of commits beyond the first one of the default branch; what
git does follows from the exit codes the code tells apart. A step is one git
command. Simplified: in `Format` HEAD is any commit of the bot's on the branch;
`RenameBranch` does not ask whether the row has a pull, which this module does
not know; one push that outlives its answer per workspace. `Gate` and `Lease`
are one step each for several git commands: `Gate` for the two gates, which read
the remote-tracking ref more than once, `Lease` for HEAD and that ref; a fetch
between two commands of one of them is not modelled, one between the two is.

git locks a registration while it makes the checkout ("initializing") and takes
the lock away when it is done or fails on its own. The timeout of `_run` kills
it, with the lock in place or not (`Interrupted`), as a crash may. Then `git
worktree remove --force` refuses (`Unregistered`), and `git worktree prune`
passes over the registration and exits 0 (`Pruned`, `Prune`), in the set-up, in
the removal and in the repair of a fetch (`Repaired`, `Dropped`). The helper
processes of a killed git (`git reset --hard` for the files) are taken to end
with it.

### NativesCache

`populate_workspace`, `capture`, `gc` and the agent's builds, for the worktrees
of one repository. Captures and sweeps hold the flock, `populate_workspace` does
not; an entry is a directory of three files (`node`, `companions`, `manifest`),
removed one by one in any order; a worktree's node is a hard link. The file's
`build` and `capture` tell who wrote it.

### Admission

The webhook's rate limit: `admit_submission` is one transaction, the event is
stored after it, and the process may stop between the two. A delivery may be
sent again; the association of its author may have changed meanwhile. Windows
are measured by the admission's own time, as in the code: a delivery whose first
answer was lost and which is sent again after its window is queued beside a full
new one, and `QueuedWithinCap` does not say otherwise.

### IssueIndex

`sync_repo` page by page, with the await of each page a step of its own; the
webhook's `upsert_issue_index` in between; webhooks that are lost or late by up
to `Overlap`. Issues are listed by `updated_at`, ascending.

### Relay

One call through both clients: `GitHubProxyClient` signs and retries it, the
proxy verifies and relays it, and the `GitHubClient` in the proxy retries too.
`unanswered` counts the answers that one of the two did not wait for.

### Instances

`MC*` modules hold instances for TLC only. Subsystems without shared state share
a run: `MCHandlers` and `MCBackground` choose a `part` at the start, and a
behaviour is a behaviour of that part alone, so each property is checked on the
part it is about. `MCHandlers` extends `IssueLifecycle` and takes `Admission`,
`Worktree`, `NativesCache` and `Relay` by `INSTANCE`; `MCBackground` extends the
instance of `Autoclose` and takes `IssueIndex`.

## Runs

| run | instance | distinct states | shows |
|---|---|---|---|
| `pool_safety` | two deliveries of one issue, one slot, one retry, one restart, one crash, two operator requests | 966,045 | types, one worker per issue, supervised agents, rows and handlers agree, retry budget, implements `EventLedger` |
| `pool_progress` | the same with one operator request, no crash, fair | 95,249 | every queued row is decided; an accepted cancel lands |
| `pool_stop` | three deliveries of two keys, two slots, sqlite failures, one restart, one crash, fair to `stop()` only | 1,453,209 | slots are conserved and exclusive; `stop()` returns |
| `rpc_turns` | one driver, three calls, three events, a history of two, deadlines | 46,182 | a turn is its own and whole, run counts agree, every call returns |
| `rpc_stop` | one turn with a host tool, a cancel hook and an exit, history of one | 1,470,198 | one reply per request, no lost wakeup, whoever waits is attended, the forgotten process is dead |
| `rpc_release` | two threads, two calls, one stop, no deadlines | 379,570 | replies reach their own request; collectors are released |
| `autoclose` | `closing`: two issues, one answered twice, batch of one, one window; `index`: two issues, pages of one, two pages a tick, three changes | 433,422 | objections stand, votes are heard, due schedules are decided; no stale row of the index is final |
| `lifecycle` | nine parts, see below | 808,379 | what the agent may publish and where; whole checkouts; spared commits; the cap; whole and sealed entries; writes repeated only unanswered |
| `cancel_lost_while_arming` | expected violation | - | see Findings |
| `outage_strands_closures` | expected violation | - | see Findings |
| `push_discards_foreign` | expected violation | - | see Findings |
| `sync_skips_issues` | expected violation | - | see Findings |

The parts of `lifecycle`, each with one fault (failure or crash) at any point:

- `issue`: one issue and the pull the bot opens for it, three deliveries of any
  kind, one retry. `TypeOK`, `PushHasGrounds`, `PullIsFound`,
  `FollowUpAmendsItsPull`, `TriageIsOfAnOpenIssue`.
- `contributor`: a contributor's pull, reviewed and assigned; three deliveries;
  a fault before the third one only, which then is a request for review.
  `PushHasGrounds`, `FirstTryAmendsItsOwn`.
- `fork`: the same with a pull from a fork. TLC finds its exception used, and
  `pushed \subseteq grounds` violated, after a fault only.
- `setups`: two workspaces of one clone, fresh, existing and review set-ups on
  two branches, nothing committed. `LeftoversAreFound`, `CheckoutIsWhole`; a
  killed add leaves its registration locked or not.
- `pushes`: one workspace on a branch that people share, two commits, set up
  once and kept; while a push is under way its heads change by new commits
  only, and late pushes are those past their lease. `AgentFetch` stands for any
  fetch that moves the shared ref. `PushSparesForeign`.
- `intake`: three deliveries of one submitter, caps of one and two, a window of
  one. `QueuedWithinCap`.
- `cache`: two worktrees from one source that one agent changes once, an entry
  per repository, two builds, three captures. `HitIsWhole`, `EntryIsSealed`.
- `writing`, `reading`: one call, two attempts of two tries.
  `RepeatedOnlyUnanswered`.

Why the bounds are enough: a collision, a lost wakeup or a double claim needs
two deliveries of one key; slot contention needs more runnable deliveries than
slots; a stale row needs one restart; a replay racing a handler needs two
operator requests. A reply can only be confused with another one when two
requests are pending, a turn with another turn when there are two prompts, and a
history overflows with one event more than it holds. A batch of one with two
due issues is a full batch, and two answers make one of them stale. Three
deliveries make a row, revise it and use what is left of it; one fault leaves
the work of a handler half done, and the properties say so where a second one
would matter (`PullIsFound`). A leftover registration blocks a second workspace,
so there are two; a commit to lose and one to push over it are two. A shift
between pages needs two pages and a change, being stale at the end a third one.

Every property has a mutant in `PROJECT.json`: a plausible slip in one
definition (`Op_variant` beside `Op`) under which TLC finds the property
violated.

Safety runs of parts that stop when their bounds are spent do not check
deadlock; no fairness is assumed in `lifecycle`. The fairness of the others is
stated with their modules above.

## Findings

- **A cancel lost while the hook is armed** (`queue.py:246-252`). See
  `LateHookSeesCancel`.
- **An outage strands closures** (`autoclose.py:151`): rows of a tick that ends
  in an exception other than `GitHubError` stay claimed. See `ClaimIsOwned`.
- **A push may discard commits the gate has not seen** (`git_ops.py:815`): the
  lease is read again after the gate, from a ref that another workspace's fetch
  moves. See `NothingForeignIsLost`; `PushSparesForeign` says that nothing else
  can do it.
- **A sync skips issues** (`issue_index.py:223`): the list shifts between two
  pages and the watermark passes over what was on neither. See
  `EverythingIsIngested`; `StaleIsListed` says what holds for the rest.

Met while modelling, reproduced as traces of the modules but kept without a run
of their own:

- Pool: a cancel accepted before a graceful stop is forgotten with the memory of
  the process, and the row runs again (`queue.py:293`); `task.cancel()` does not
  reach the thread of the blocking driver, which may start the agent after
  `stop()` returned (`queue.py:163`); a claim that `_claim_next_unique` undoes
  has spent an attempt (`queue.py:228`, `db.py:384`).
- RPC client: `stop()` raises when the dict of host tool calls changes size
  under its iteration (`omp_rpc/client.py:680`), and a second `stop()` does the
  work; an error that carries the id of a finished request is delivered by
  command to a newer prompt that waits (`omp_rpc/client.py:2073`); a prompt that
  fails between its reply and `_mark_agent_run_scheduled` leaves `wait_for_idle`
  returning as if it had run (`omp_rpc/client.py:1247`).
- RPC client: a request sent after the client was closed waits for its own
  deadline (`omp_rpc/client.py:1386`), and so do all callers once a `stop()` has
  raised.
- Handlers: a review of a fork's pull whose set-up fails leaves a row without a
  branch; the next event of the pull, once the bot is assigned to it, stores the
  fork's head name there (`tasks.py:242`). `_reclaim_assigned_pr_row` refuses the
  fork and `handle_review` goes on with the row: an agent works, in write mode
  and authorized by the row's pull number, on a branch of that name in this
  repository. `tasks.py:249` says that only "same-repo PR branches are safe to
  amend directly". This is the exception of `PushHasGrounds`.
- Handlers: a set-up that fails after the worktree is made leaves a workspace
  without a row, which `revoke_pr_assignment` does not find and a requested
  review adopts; a retried review comment then resumes on the contributor's
  branch in write mode (`tasks.py:706`), hence "first try" in
  `FirstTryAmendsItsOwn`. `handle_review` does not ask whether the row is
  finalized. A delivery about the bot's pull that comes before `set_issue_pr` is
  filed under the pull's own key, beside that of its issue (`queue.py:346`). A
  retried triage may be of a closed issue. A set-up that fails and a crash after
  `open_pull_request` lose the pull from both lookups. A review is submitted
  twice when the process stops between GitHub's answer and the record of it.
- Worktrees: a `git worktree add` killed by the timeout leaves its registration
  locked. `_worktree_add` prunes and takes exit 0 for success, though its comment
  says that "a dangling registration left behind is exactly what poisons the
  retry" (`sandbox.py:399`); `remove_workspace` does the same and deletes the
  directory by which a later removal would see that something is left
  (`sandbox.py:1155`). Path and branch are refused from then on, until somebody
  removes the registration by hand. This is the exception of `LeftoversAreFound`.
- Worktrees: the local branch survives the removal of its workspace, so a
  reopened issue goes on from its old commits, whatever `tasks.py:353` says of a
  fresh one; the repair of a broken ref removes a worktree in which an agent
  works (`git_ops.py:362`); git goes on in the proxy after the caller was told
  of a timeout.
- Cache: a task that succeeds without a rebuild captures old artifacts under the
  key of its new HEAD; a directory that a crash has left half removed keeps
  `os.replace` from putting a new entry there until the next sweep.
- Index: a webhook that comes later than the overlap, or after a newer one,
  overwrites the newer row for good; a tick that stops at its page budget may
  set the watermark past its own start.
- Admission: a delivery refused at first and sent again is counted when there is
  room, and its event stays skipped.
- Relay: a comment is posted once per attempt of either client when the answers
  are lost; the second of two pull requests fails with a 422 and the tool with
  it.

## Proofs

TLAPS checks, for every value of the constants that satisfies the module's
assumptions:

| module | theorem | what |
|---|---|---|
| `WorkerPoolProofs` | `TypeCorrect` | `Spec => []TypeOK` |
| | `PoolInvariant` | the inductive invariant `PoolInv` |
| | `OneDelivery`, `AgentsAreSupervised`, `HandlerKeepsRow`, `SlotsAreAccounted` | safety invariants of `pool_safety` and `pool_stop` |
| | `RetriesAreBudgeted` | `WithinRetryBudget`, for any budget, operators, restarts and crashes |
| | `NoStrandedRow` | `RunningRowIsOwned`, assuming `DbFaults = FALSE` |
| | `PoolImplementsLedger` | the pool implements `EventLedger` |
| `BackgroundProofs` | `TypeCorrect`, `AutocloseInvariant` | types; the inductive invariant |
| | `ObjectionIsFinal`, `VetoKeepsOpen` | safety invariants of `autoclose` |
| | `IndexIsRefreshed` | `StaleIsListed`, for any issues, pages and overlap, if sizes are natural numbers |
| | `LoopsImplementParts` | a behaviour of `MCBackground` is one of `Autoclose` and one of `IssueIndex` |
| `RpcClientProofs` | `RpcTypeOK` | types of the client, of the frames in both pipes and of the history |
| | `RpcOneReplyPerRequest`, `RpcAwaitedIsReachable`, `RpcNoLostWakeup`, `RpcForgottenProcessIsDead`, `RpcTurnIsComplete` | safety invariants of `rpc_stop` and `rpc_turns`, with all faults of the agent |
| | `RpcReplyAnswersItsRequest` | if no deadline strikes, no hook stops the client and no prompt fails late |
| | `RpcTurnIsItsOwn`, `RpcCountsAgree` | for one caller that gives up on errors and prompts by `prompt_and_wait` only (`OneDriver`), with all deadlines, hooks and faults |
| `IssueLifecycleProofs` | `LifecycleTypeOK`, `LifecyclePushHasGrounds` | types, and that what the bot pushes it was given a reason to push, or has the name of the head of a fork's pull it was assigned to |
| | `LifecycleTriageIsOfAnOpenIssue` | first attempts at a triage, for any deliveries and faults |
| | `LifecycleFollowUpAmendsItsPull`, `LifecyclePullIsFound` | while nobody asks the bot for a review (`Uninvited`) |
| | `LifecycleFirstTryAmendsItsOwn` | while nothing is said on the pulls the bot opens (`Quiet(BotPulls)`) |
| | `HandlersImplementParts`, `Handlers...` | a behaviour of `MCHandlers` is one of each part; every safety invariant of `lifecycle` but the types, of the composition |
| `WorktreeProofs` | `RegistrationsAreFound`, `AgentsHaveWholeCheckouts`, `PushesSpareForeignCommits` | `LeftoversAreFound`, `CheckoutIsWhole`, `PushSparesForeign`, if no branch is called `None` |
| `NativesCacheProofs` | `HitComesFromOneCapture`, `CacheFilesAreSealed` | `HitIsWhole`, `EntryIsSealed`, if `None` and `"sweep"` are no workspaces |
| `AdmissionProofs` | `QueuedIsCapped` | `QueuedWithinCap`, if caps, window and end of time are natural numbers |
| `RelayProofs` | `WritesAreNotRepeated` | `RepeatedOnlyUnanswered`, for any number of attempts and tries |

The theorems of the last four modules carry their assumptions, because their
modules enter the runs by `INSTANCE`; `MCHandlers` takes them by their proof
modules, so their lemmas are lemmas about its parts.

`OneDeliveryPerIssue` is not inductive: that two tasks never share a key follows
from `KeyIsHeld` (every task holds its key in `_inflight`, and a key has one
holder), from `ClaimIsPrivate` (the row in the dispatcher's hand is running and
has no task yet) and, for agents, from `ServingIsUndisturbed` (no interrupted
task while the pool serves) and `DownIsQuiet`. `PoolInv` is the conjunction of
type correctness, these facts about tasks (`TaskInv`) and those about rows
(`RowInv`); each action is shown to keep it. `SlotAccounting` is inductive with
the types alone, sqlite failures included. Refinement: an action of the pool
maps to the ledger action of the same name or to a stutter, given `PoolInv`.
`WithinRetryBudget` needs to know why `attempts` can be trusted: `BudgetInv` says
that a row's attempts cover the failures of its handler, one more when the row
is running, and that the row in the dispatcher's hand and the task that works on
it have the count the claim wrote.

`ObjectionStands` is inductive with the types: only `Schedule` makes a row
pending that was called off, and a retry requeues claimed rows only.
`VetoIsHeard` needs that the snapshot of a claim is the last scheduled comment
(`latest = watched`) and that votes are never taken back.

`StaleIsListed` speaks of the run to come. `RunHolds` is about the run that is
under way: a row it has written is what GitHub has, or the issue has changed
since the run began, or a webhook late by the overlap at most has replaced the
row; and `since` lies the overlap before a watermark of the past. When the run
ends, an issue that is stale and not listed by the next one would have to be
older than the new watermark by the overlap and have been seen, which is one of
these three cases, or not seen, and then it is `skipped`.

Neither `TypeOK` nor `PushHasGrounds` of `IssueLifecycle` is inductive, not even
together: whether `Checkout` is a branch, and whether `Authorized` is right,
depends on rows, worktrees and events of several deliveries ago. `IInv` is an
ownership invariant. A row, a worktree and a handler of a thread name only
branches that are `Mine(thread)`; a row's pull leads to the row's thread
(`Leads`); and each go-ahead the tools consult is backed by its ground: a bug by
the row (`RowOk`), an owner's word by the mention (`MentionsOk`), a pull number
by the pull having been pushed (`HostedOk`), a contributor's branch
by an assignment (`Granted`, for a fork by the exception: `WhatIsPushable`), which deliveries carry from the webhook that saw it
(`EventOk`) to the handler (`Bound`). `PublishGrounded` puts the pieces together.
Steps that leave GitHub alone go through `LocalStep`, those that only add
grounds through `GrowStep`; `OpenPull` is shown apart, because a thread comes to
be.

The other properties have invariants of their own beside `IInv`. `OrderInv`:
deliveries of a thread are claimed in the order of their arrival, so a closure is
handled after the triages that came before it; a handler at its first attempt
has no handled closure behind it that GitHub does not know of. `FollowInv`: rows,
worktrees and handlers of a thread are at `Home`, its own branch, and a resumed
one finds no other. It needs `Uninvited`, and without it `FollowUpAmendsItsPull`
is false: a review of the bot's own pull whose set-up fails leaves a row that
names no branch, and after a closing and a reopening that GitHub does not answer
for, a follow-up starts it on a fresh one. `QuietInv`: a pull of a contributor
whose assignment was taken back has no row and no worktree that a first attempt
could adopt. `FoundInv` counts: before the first fault a pull is recorded by the
call that opened it (`Fresh`), which is one at a time because an agent calls once
and a tool that outlives its handler is found again by the next one (`Serial`);
after it the branch still leads to the row (`Recorded`).

In `RpcClient` three invariants are kept apart. `EndInv`: a marking is run by a
stop or a reader that waits for it, and stdout is closed on a dead process only;
`WakeInv` adds that whoever sleeps has seen all there is, for every step that
adds to the history wakes everybody, and `MarkSet` comes before its
`MarkNotify`. `ReplyInv` is about requests: what is pending has an empty queue
and no carrier, requests of different callers differ, and a request in flight is
pending, answered or carried (`Reachable`, from its registration on).
`AttendInv` says who is left to deal with what is pending: the client is closed by
nobody but a marking that goes on to fail it (`MarksClose`, `RestIsFailed`), and
before that somebody is on the way to one (`LeftToStop`), or the client is
deserted. That there
is an id for every call (`IdsSuffice`) counts the callers that have not sent yet.
Types need the frames: a line of the agent is about a request that was sent,
and a terminal `agent_end` in the history is of a prompt that ran. From there,
`TurnIsComplete` follows because the collector takes what lies between its start
index and a terminal event, and the history is never trimmed past a collector.
`ReplyAnswersItsRequest` compares the places of commands in the agent's input
with those of its answers; it holds without deadlines, hooks and late errors
only, for an error without an id is given to whoever waits, and a late one may
meet the next request. `TurnIsItsOwn` says that of the driver's prompt
there is one trace at most, from its command to a terminal event ahead of the
driver's start index (`OneMark`); callers that prompt without waiting, or two
drivers, do mix their turns. `CountsAgree` is a law of conservation
(`Balanced`): the runs scheduled and those the driver is told to schedule are
the runs completed, the one the reader is about to complete and those owed,
whose end is still with the agent or on the pipe. One is owed at most
(`OneRun`), and every response in the pipe is either the driver's answer, the
first one, or the late failure of a prompt that was accepted; so whatever the
reader drops without counting it is no end of a run. It holds until the driver
has given up at a deadline or the client is closed, which `Quiescent` rules out.

In `Worktree`, `LeftoversAreFound` follows from `RegisteredHasRoot`, which needs
that git adds worktrees only under a directory that is there (`AddHasRoot`) and
that a directory goes only once nothing is registered but what git keeps locked
(`RemovalIsInOrder`);
`PushSparesForeign` from `GatesHold`: what the gates compared stays with the
push, so a lease on what they saw names nothing foreign but what HEAD has. In
`NativesCache` the flock gives the staging directory one filler
(`StagerHoldsLock`), so what is in it is of one capture, and takes a free place
only; an entry is sealed because companions are copied, never linked
(`NoCompanionIsLinked`). In `Admission` all windows are capped, not only the
present one (`WindowsAreCapped`): what is recent when a delivery is admitted
contains what is counted in every window that the admission belongs to. In
`Relay` each arrival of a write at GitHub has its own handler and each handler
one answer; what is not answered yet, is under way or was given up, and only the
client that gave it up sends again.

`MCHandlers` chooses a part and then takes only steps of that part, which leave
the other parts' variables alone. `HandlersImplementParts` shows that each
behaviour is, for each part, a behaviour of that part with its assumptions
(`Uninvited` or `Quiet` follow from the threads and the deliveries a part has),
and the `Handlers` theorems carry the invariants over.

Only model-checked: liveness (`QueuedIsDecided`, `CancelLands`, `StopReturns`,
`EveryCallReturns`, `ClosedReleases`, `DueIsDecided`), which the prover does not
reach, since it rests on fairness.

## Plan

What is still to do, in this order:

1. The chunk decoder of `omp_rpc/client.py` and the browse cache of `server.py`.
2. The callers that `OneDriver` leaves out: what holds of the turns of two threads
   that share a client.

## Not modelled

Beyond the components listed as such in `PROJECT.json`: the content of prompts,
comments and logs, the git object model, HTTP and TLS, sqlite's own locking (a
statement or a `_txn` is one step), the durations of timers (a timeout may
strike whenever its wait is unsatisfied), the browser dashboard, and the cloud
deployment except its restart policy. In `server.py` the browse cache (a list
read before a webhook may be stored after it and served until it expires) and
the read-only endpoints; in `github_events.py` signatures and the recognition of
bot accounts; in `sandbox.py` the layout of files and the companion container;
in `proxy/` authentication beyond the clock window.
