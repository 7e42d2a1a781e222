---------------------------- MODULE NativesCache ----------------------------
(***************************************************************************)
(* The cache of built natives of one repository (natives_cache.py), with   *)
(* the set-ups that populate worktrees from it (sandbox.py), the tasks     *)
(* that capture into it (worker.py) and the sweep of it (queue.py).        *)
(*                                                                         *)
(* Captures and sweeps hold the repository's flock; populating does not.   *)
(* A directory is removed file by file, in any order.  A file is known by  *)
(* the build that wrote it and, in the cache, by its capture, too.         *)
(***************************************************************************)
EXTENDS Naturals, FiniteSets

CONSTANTS
  Workspaces,
  Keys,        \* compute_key() of the sources that HEAD may have
  None,
  MaxEntries,  \* natives_cache_max_entries_per_repo
  MaxBuilds, MaxCaptures, MaxFaults

Built == {"node", "companions"}
Files == Built \union {"manifest"}
Cached == [build : 0..MaxBuilds, capture : 1..MaxCaptures]

VARIABLES
  source,    \* key of each worktree's HEAD
  native,    \* its built files: the build that wrote each
  linked,    \* those that share their inode with a file of an entry
  at,        \* how far the task of a workspace has come
  key,       \* the key that it has computed
  entry,     \* the directories of the cache
  staging,   \* the directory a capture fills
  flock,     \* who holds the lock file
  victim,    \* the entry being removed
  builds, captures, faults

worktree == <<source, native, linked, builds>>
cache == <<entry, staging, flock, victim, captures>>
vars == <<worktree, at, key, cache, faults>>

Nothing == [f \in Files |-> None]

TypeOK ==
  /\ source \in [Workspaces -> Keys]
  /\ native \in [Workspaces -> [Built -> 1..MaxBuilds \union {None}]]
  /\ linked \in [Workspaces -> SUBSET (Built \X Keys)]
  /\ at \in [Workspaces -> {"idle", "link", "copy", "agent", "capture", "stage", "gc"}]
  /\ key \in [Workspaces -> Keys \union {None}]
  /\ entry \in [Keys -> [Files -> Cached \union {None}]]
  /\ staging \in [Files -> Cached \union {None}]
  /\ flock \in Workspaces \union {"sweep", None}
  /\ victim \in Keys \union {None}
  /\ builds \in 0..MaxBuilds /\ captures \in 0..MaxCaptures /\ faults \in 0..MaxFaults

Init ==
  /\ source \in [Workspaces -> Keys]
  /\ native = [w \in Workspaces |-> [f \in Built |-> None]]
  /\ linked = [w \in Workspaces |-> {}]
  /\ at = [w \in Workspaces |-> "idle"] /\ key = [w \in Workspaces |-> None]
  /\ entry = [k \in Keys |-> Nothing] /\ staging = Nothing
  /\ flock = None /\ victim = None
  /\ builds = 0 /\ captures = 0 /\ faults = 0

Whole(dir) == \A f \in Files : dir[f] # None

\* lookup() asks whether the files are there, not what is in them.
Hit(k) == Whole(entry[k])

Go(w, step) == at' = [at EXCEPT ![w] = step]

(***************************************************************************)
(* populate_workspace.  One set-up of a repository at a time.              *)
(***************************************************************************)
Populate(w) ==
  /\ at[w] = "idle"
  /\ \A v \in Workspaces : at[v] \notin {"link", "copy"}
  /\ key' = [key EXCEPT ![w] = source[w]]
  /\ Go(w, IF Hit(source[w]) THEN "link" ELSE "agent")
  /\ UNCHANGED <<worktree, cache, faults>>

\* Replaces a file of the worktree by the entry's: a link or a copy.
Takes(w, f, link) ==
  /\ native' = [native EXCEPT ![w][f] = entry[key[w]][f].build]
  /\ linked' = [linked EXCEPT ![w] =
       (@ \ ({f} \X Keys)) \union (IF link THEN {<<f, key[w]>>} ELSE {})]

\* A file that has gone meanwhile is not in the glob.
LinkNode(w) ==
  /\ at[w] = "link"
  /\ IF entry[key[w]]["node"] = None THEN UNCHANGED <<native, linked>>
                                     ELSE Takes(w, "node", TRUE)
  /\ Go(w, "copy")
  /\ UNCHANGED <<source, builds, key, cache, faults>>

CopyCompanions_linked(w) ==
  /\ at[w] = "copy"
  /\ IF entry[key[w]]["companions"] = None THEN UNCHANGED <<native, linked>>
                                           ELSE Takes(w, "companions", TRUE)
  /\ Go(w, "agent")
  /\ UNCHANGED <<source, builds, key, cache, faults>>

\* A companion that has gone raises, which the set-up ignores.
CopyCompanions(w) ==
  /\ at[w] = "copy"
  /\ IF entry[key[w]]["companions"] = None THEN UNCHANGED <<native, linked>>
                                           ELSE Takes(w, "companions", FALSE)
  /\ Go(w, "agent")
  /\ UNCHANGED <<source, builds, key, cache, faults>>

(***************************************************************************)
(* The agent                                                               *)
(***************************************************************************)
ChangeSource(w) ==
  /\ at[w] = "agent"
  /\ \E k \in Keys \ {source[w]} : source' = [source EXCEPT ![w] = k]
  /\ UNCHANGED <<native, linked, builds, at, key, cache, faults>>

\* The build renames a new node into its place and writes the companions in
\* place, through every link that they have.
Build(w) ==
  /\ at[w] = "agent" /\ builds < MaxBuilds
  /\ builds' = builds + 1
  /\ native' = [native EXCEPT ![w] = [f \in Built |-> builds + 1]]
  /\ linked' = [linked EXCEPT ![w] = @ \ ({"node"} \X Keys)]
  /\ entry' = [k \in Keys |->
       IF <<"companions", k>> \in linked[w] /\ entry[k]["companions"] # None
         THEN [entry[k] EXCEPT !["companions"].build = builds + 1]
         ELSE entry[k]]
  /\ UNCHANGED <<source, at, key, staging, flock, victim, captures, faults>>

\* A task that has succeeded captures what is there, whatever it was built from.
TaskEnds(w) ==
  /\ at[w] = "agent"
  /\ \/ Go(w, "idle") /\ UNCHANGED key
     \/ /\ \A f \in Built : native[w][f] # None
        /\ key' = [key EXCEPT ![w] = source[w]]
        /\ Go(w, "capture")
  /\ UNCHANGED <<worktree, cache, faults>>

(***************************************************************************)
(* capture                                                                 *)
(***************************************************************************)
Capture(w) ==
  /\ at[w] = "capture" /\ flock = None
  /\ IF Hit(key[w])
       THEN Go(w, "idle") /\ UNCHANGED <<flock, captures>>
       ELSE /\ captures < MaxCaptures /\ captures' = captures + 1
            /\ flock' = w /\ Go(w, "stage")
  /\ staging' = Nothing
  /\ UNCHANGED <<worktree, key, entry, victim, faults>>

Copied(w, f) == [build |-> IF f = "manifest" THEN 0 ELSE native[w][f], capture |-> captures]

Stage_inPlace(w) ==
  /\ at[w] = "stage"
  /\ \E f \in Files :
       /\ entry[key[w]][f] = None
       /\ entry' = [entry EXCEPT ![key[w]][f] = Copied(w, f)]
  /\ UNCHANGED <<worktree, at, key, staging, flock, victim, captures, faults>>

Stage(w) ==
  /\ at[w] = "stage"
  /\ \E f \in Files :
       /\ staging[f] = None
       /\ f = "manifest" => \A g \in Built : staging[g] # None
       /\ staging' = [staging EXCEPT ![f] = Copied(w, f)]
  /\ UNCHANGED <<worktree, at, key, entry, flock, victim, captures, faults>>

\* os.replace() needs the place to be free, or an empty directory; when it is
\* not, the capture fails.
Publish(w) ==
  /\ at[w] = "stage" /\ Whole(staging)
  /\ IF entry[key[w]] = Nothing
       THEN /\ entry' = [entry EXCEPT ![key[w]] = staging]
            /\ Go(w, "gc") /\ UNCHANGED flock
       ELSE /\ Go(w, "idle") /\ flock' = None
            /\ UNCHANGED entry
  /\ staging' = Nothing
  /\ UNCHANGED <<worktree, key, victim, captures, faults>>

(***************************************************************************)
(* gc                                                                      *)
(***************************************************************************)
Sweep ==
  /\ flock = None
  /\ flock' = "sweep"
  /\ UNCHANGED <<worktree, at, key, entry, staging, victim, captures, faults>>

Collecting == flock = "sweep" \/ \E w \in Workspaces : flock = w /\ at[w] = "gc"

Listed == {k \in Keys : entry[k]["manifest"] # None}
Incomplete == {k \in Keys : entry[k] # Nothing} \ Listed
Oldest ==
  {k \in Listed : \A j \in Listed : entry[k]["manifest"].capture <= entry[j]["manifest"].capture}

\* What has no manifest, then the oldest while there are too many or, as long as
\* one is left, too many bytes.
Evict ==
  /\ Collecting /\ victim = None
  /\ victim' \in IF Incomplete # {} THEN Incomplete
                 ELSE IF Cardinality(Listed) > 1 THEN Oldest ELSE {}
  /\ UNCHANGED <<worktree, at, key, entry, staging, flock, captures, faults>>

RemoveFile ==
  /\ victim # None
  /\ \E f \in Files :
       /\ entry[victim][f] # None
       /\ entry' = [entry EXCEPT ![victim][f] = None]
  /\ victim' = IF entry'[victim] = Nothing THEN None ELSE victim
  /\ linked' = [w \in Workspaces |->
       {l \in linked[w] : l[2] = victim => entry'[victim][l[1]] # None}]
  /\ UNCHANGED <<source, native, builds, at, key, staging, flock, captures, faults>>

Collected ==
  /\ Collecting /\ victim = None
  /\ Incomplete = {} /\ Cardinality(Listed) <= MaxEntries
  /\ flock' = None
  /\ at' = [w \in Workspaces |-> IF flock = w THEN "idle" ELSE at[w]]
  /\ UNCHANGED <<worktree, key, entry, staging, victim, captures, faults>>

\* The process stops; the lock file is let go.
Crash ==
  /\ faults < MaxFaults /\ faults' = faults + 1
  /\ at' = [w \in Workspaces |-> "idle"]
  /\ flock' = None /\ victim' = None /\ staging' = Nothing
  /\ UNCHANGED <<worktree, key, entry, captures>>

Next ==
  \/ \E w \in Workspaces :
       \/ Populate(w) \/ LinkNode(w) \/ CopyCompanions(w)
       \/ ChangeSource(w) \/ Build(w) \/ TaskEnds(w)
       \/ Capture(w) \/ Stage(w) \/ Publish(w)
  \/ Sweep \/ Evict \/ RemoveFile \/ Collected
  \/ Crash

Spec == Init /\ [][Next]_vars

-----------------------------------------------------------------------------
\* What lookup() takes for a complete entry comes from one capture, whatever a
\* crash in the removal of an entry has left in its place.
HitIsWhole ==
  \A k \in Keys : Hit(k) =>
    \A f, g \in Files : entry[k][f].capture = entry[k][g].capture

\* "The cache file is never mutated" (populate_workspace): no build in a worktree
\* that was populated from an entry writes into the entry.
EntryIsSealed ==
  [][\A k \in Keys, f \in Files :
       /\ entry[k][f] # None /\ entry'[k][f] # None
       /\ entry'[k][f].capture = entry[k][f].capture
       => entry'[k][f] = entry[k][f]]_vars
=============================================================================
