----------------------------- MODULE MCHandlers -----------------------------
(* Instances for TLC of what a delivery sets going.  Each behaviour is one   *)
(* of these parts:                                                           *)
(*   intake: Admission, with three deliveries of one submitter;              *)
(*   issue, contributor, fork: IssueLifecycle, with an issue and the pull    *)
(*     the bot opens for it, or a contributor's pull, from this repository   *)
(*     or from another; each has what is delivered to itself;                *)
(*   setups, pushes: Worktree, with two issues and a branch each, of which   *)
(*     people share the first; set-ups that fail while nothing is committed, *)
(*     or pushes from one workspace while the other is set up;               *)
(*   cache: NativesCache, with two worktrees that start from one source, which *)
(*     the agent of one changes once;                                        *)
(*   writing, reading: Relay, with one call.                                 *)
EXTENDS IssueLifecycle, TLC

CONSTANTS
  Deliveries, submitter, CapOfOthers, CapOfContributors, LongRun,
  Workspaces, Names, Default, Own, MaxCommits, w1, w2, b0, b1, b2, b3,
  k1, k2, MaxEntries, MaxBuilds, MaxCaptures,
  get, post, Attempts, Tries, Skew

VARIABLES
  part, clock,
  submissions, stored, admitting,
  origin, pool, tracking, heads, bad, fetching, reg, initializing, root, checkout, at, want,
  push, made, broken, torn,
  source, native, linked, doing, key, entry, staging, flock, victim, builds, captures, stops,
  caller, requests, relays, replies, applied, unanswered

admissions == <<submissions, stored, admitting>>
checkouts == <<origin, pool, tracking, heads, bad, fetching, reg, initializing, root, checkout, at,
               want, push, made, broken, torn>>
caching == <<source, native, linked, doing, key, entry, staging, flock, victim, builds,
             captures, stops>>
relaying == <<caller, requests, relays, replies, applied, unanswered>>

MCBy == [d \in Deliveries |-> submitter]

\* Each part, with what is proved of it.
A == INSTANCE AdmissionProofs WITH
       Logins <- {submitter}, By <- MCBy, Unlimited <- {}, Default <- CapOfOthers,
       Contributor <- CapOfContributors, Window <- 1, MaxTime <- LongRun, now <- clock,
       events <- stored
W == INSTANCE WorktreeProofs WITH Branches <- Names, tree <- checkout, faults <- broken
N == INSTANCE NativesCacheProofs WITH Keys <- {k1, k2}, at <- doing, faults <- stops
R == INSTANCE RelayProofs WITH
       Calls <- {get, post}, Reads <- {get}, MaxTime <- LongRun, now <- clock,
       handlers <- relays

MCOwn == [w \in Workspaces |-> IF w = w1 THEN {b1} ELSE {b2, b3}]

Said(b, a) == [body |-> b, authorizes |-> a]
OnIssues == {Said("none", FALSE), Said("request", TRUE), Said("request", FALSE)}
OnPulls == {Said("none", FALSE), Said("request", TRUE), Said("review", FALSE)}
MCBodies == OnIssues \union OnPulls

MCInit ==
  /\ part \in {"intake", "issue", "contributor", "fork", "setups", "pushes", "cache",
               "writing", "reading"}
  /\ A!Init /\ Init /\ W!Init /\ N!Init /\ R!Init
  /\ origin[b2] = None /\ origin[b3] = None /\ (part \notin {"setups", "pushes"} => origin[b1] = None)
  /\ source = [w \in Workspaces |-> k1]

Intake ==
  /\ part = "intake" /\ A!Next
  /\ UNCHANGED <<vars, checkouts, caching, relaying>>

Scope == CASE part = "contributor" -> HumanPulls \ Forks
           [] part = "fork"        -> Forks
           [] OTHER                -> Issues \union BotPulls

Threaded ==
  /\ part \in {"issue", "contributor", "fork"}
  /\ Next
  /\ assigned' \subseteq Scope
  /\ part # "issue" =>
       /\ faults' # faults => arrived < MaxEvents
       /\ faults > 0 /\ arrived = MaxEvents - 1 =>
            \A e \in events' : e.n = MaxEvents => e.kind = "reviewRequested"
  /\ \A e \in events' :
       /\ e.on \in Scope
       /\ e.says \in IF part = "issue" THEN OnIssues ELSE OnPulls
  /\ UNCHANGED <<clock, admissions, checkouts, caching, relaying>>

CheckedOut ==
  /\ part \in {"setups", "pushes"}
  /\ W!Next /\ UNCHANGED <<vars, clock, admissions, caching, relaying>>
  /\ origin'[Default] = {} /\ origin'[b2] = None /\ origin'[b3] = None
  /\ want'[w1] # None => want'[w1].branch = b1
  /\ part = "setups" => UNCHANGED <<origin, made, push>>
  /\ part = "pushes" => /\ broken' = 0 /\ at'[w2] = "idle"
                        /\ want'[w1] # None => want'[w1].kind = "existing"
                        /\ at[w1] = "agent" => at'[w1] = "agent"
                        /\ \A p \in push'[w1] : p.late => p.stage = "leased"
                        /\ heads' # heads => made' # made \/ \A p \in push[w1] : p.late

Cached ==
  /\ part = "cache" /\ N!Next
  /\ source'[w1] \in {source[w1], k2} /\ source'[w2] = k1
  /\ UNCHANGED <<vars, clock, admissions, checkouts, relaying>>

Relayed ==
  /\ part \in {"writing", "reading"} /\ R!Next
  /\ caller'[IF part = "writing" THEN get ELSE post].at = "idle"
  /\ UNCHANGED <<vars, admissions, checkouts, caching>>

MCNext == (Intake \/ Threaded \/ CheckedOut \/ Cached \/ Relayed) /\ UNCHANGED part

MCSpec == MCInit /\ [][MCNext]_<<vars, part, clock, admissions, checkouts, caching, relaying>>

-----------------------------------------------------------------------------
\* What is queued for a submitter in any window stays within the cap, however often
\* a delivery is sent (admit_submission).
QueuedWithinCap == A!QueuedWithinCap

\* A push takes no commit of other people off GitHub, as long as the shared
\* remote-tracking ref stays put between the gates and the lease (gh_push_branch).
PushSparesForeign == W!PushSparesForeign

\* Whatever set-ups and removals leave registered, the next removal sees, unless a
\* killed git worktree add has left it locked (remove_workspace).
LeftoversAreFound == W!LeftoversAreFound

\* An agent gets a whole checkout unless the process died making or removing it
\* (_worktree_add, remove_workspace).
CheckoutIsWhole == W!CheckoutIsWhole

\* What a lookup takes for a complete entry of the cache comes from one capture
\* (natives_cache.py).
HitIsWhole == N!HitIsWhole

\* No build in a worktree writes into the cache (populate_workspace).
EntryIsSealed == N!EntryIsSealed

\* A write is repeated only for want of an answer (GitHubClient.request).
RepeatedOnlyUnanswered == R!RepeatedOnlyUnanswered
=============================================================================
