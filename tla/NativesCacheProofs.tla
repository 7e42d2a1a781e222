------------------------- MODULE NativesCacheProofs -------------------------
(***************************************************************************)
(* An entry of the natives cache is whole and sealed for any number of     *)
(* worktrees, sources, builds, captures and crashes.                       *)
(***************************************************************************)
EXTENDS NativesCache, TLAPS

Shapes ==
  /\ DOMAIN linked = Workspaces /\ DOMAIN at = Workspaces
  /\ DOMAIN entry = Keys /\ DOMAIN staging = Files
  /\ \A k \in Keys : DOMAIN entry[k] = Files

\* Whoever fills the staging directory holds the flock ...
StagerHoldsLock == \A w \in Workspaces : at[w] \in {"stage", "gc"} => flock = w

\* ... so what is in it is of the last capture.
StagingIsOfOne == \A f \in Files : staging[f] # None => staging[f].capture = captures

EntryIsOfOne ==
  \A k \in Keys : \A f, g \in Files :
    entry[k][f] # None /\ entry[k][g] # None => entry[k][f].capture = entry[k][g].capture

\* Companions are copied, and a build renames its node into place.
NoCompanionIsLinked == \A w \in Workspaces, k \in Keys : <<"companions", k>> \notin linked[w]

CacheInv ==
  Shapes /\ StagerHoldsLock /\ StagingIsOfOne /\ EntryIsOfOne /\ NoCompanionIsLinked

\* What the model values are.
Distinct == None \notin Workspaces /\ "sweep" \notin Workspaces

\* At first there is no entry and no link.
LEMMA CacheInvAtFirst ==
  ASSUME Init
  PROVE  CacheInv
<1>1. \A k \in Keys : entry[k] = Nothing
  BY DEF Init
<1>2. \A f \in Files : Nothing[f] = None
  BY DEF Nothing
<1>3. Shapes
  BY DEF Init, Shapes, Nothing
<1>4. StagerHoldsLock /\ NoCompanionIsLinked
  BY DEF Init, StagerHoldsLock, NoCompanionIsLinked
<1>5. StagingIsOfOne /\ EntryIsOfOne
  BY <1>1, <1>2 DEF Init, StagingIsOfOne, EntryIsOfOne
<1> QED
  BY <1>3, <1>4, <1>5 DEF CacheInv

\* A worktree is populated: files of the entry are linked or copied, its
\* companions copied.
LEMMA PopulateSteps ==
  ASSUME CacheInv, NEW w \in Workspaces,
         Populate(w) \/ LinkNode(w) \/ CopyCompanions(w)
  PROVE  CacheInv' /\ entry' = entry
<1> USE DEF CacheInv
<1>1. UNCHANGED cache
  BY DEF Populate, LinkNode, CopyCompanions
<1>2. \E step \in {"link", "copy", "agent"} : Go(w, step)
  BY DEF Populate, LinkNode, CopyCompanions
<1>3. DOMAIN linked' = Workspaces /\ NoCompanionIsLinked'
  <2>1. CASE UNCHANGED linked
    BY <2>1 DEF Shapes, NoCompanionIsLinked
  <2>2. CASE Takes(w, "node", TRUE)
    <3>1. \A k \in Keys : <<"companions", k>> # <<"node", key[w]>>
      OBVIOUS
    <3> QED
      BY <2>2, <3>1 DEF Takes, Shapes, NoCompanionIsLinked
  <2>3. CASE Takes(w, "companions", FALSE)
    BY <2>3 DEF Takes, Shapes, NoCompanionIsLinked
  <2> QED
    BY <2>1, <2>2, <2>3 DEF Populate, LinkNode, CopyCompanions, worktree
<1>4. StagerHoldsLock' /\ DOMAIN at' = Workspaces
  BY <1>1, <1>2 DEF Go, cache, Shapes, StagerHoldsLock
<1> QED
  BY <1>1, <1>3, <1>4 DEF cache, Shapes, StagingIsOfOne, EntryIsOfOne

\* The agent works: no build reaches an entry, for no companion is linked.
LEMMA AgentSteps ==
  ASSUME CacheInv, NEW w \in Workspaces,
         ChangeSource(w) \/ Build(w) \/ TaskEnds(w)
  PROVE  CacheInv' /\ \A k \in Keys : entry'[k] = entry[k]
<1> USE DEF CacheInv
<1>1. UNCHANGED <<staging, flock, captures>>
  BY DEF ChangeSource, Build, TaskEnds, cache
<1>2. DOMAIN entry' = Keys /\ \A k \in Keys : entry'[k] = entry[k]
  BY DEF ChangeSource, Build, TaskEnds, cache, Shapes, NoCompanionIsLinked
<1>3. DOMAIN linked' = Workspaces /\ NoCompanionIsLinked'
  BY DEF ChangeSource, Build, TaskEnds, worktree, Shapes, NoCompanionIsLinked
<1>4. at' = at \/ Go(w, "idle") \/ Go(w, "capture")
  BY DEF ChangeSource, Build, TaskEnds
<1>5. StagerHoldsLock' /\ DOMAIN at' = Workspaces
  BY <1>1, <1>4 DEF Go, Shapes, StagerHoldsLock
<1>6. StagingIsOfOne' /\ EntryIsOfOne'
  BY <1>1, <1>2 DEF StagingIsOfOne, EntryIsOfOne
<1> QED
  BY <1>1, <1>2, <1>3, <1>5, <1>6 DEF Shapes

\* A capture: the staging directory is of one capture and takes a free place.
LEMMA CaptureSteps ==
  ASSUME Distinct, CacheInv, NEW w \in Workspaces, Capture(w) \/ Stage(w) \/ Publish(w)
  PROVE  CacheInv' /\ \A k \in Keys : entry[k] = Nothing \/ entry'[k] = entry[k]
<1> USE DEF CacheInv
<1>0. DOMAIN Nothing = Files /\ \A f \in Files : Nothing[f] = None
  BY DEF Nothing
<1>1. linked' = linked
  BY DEF Capture, Stage, Publish, worktree
<1>2. CASE Capture(w)
  <2>1. staging' = Nothing /\ entry' = entry
    BY <1>2 DEF Capture
  <2>2. StagerHoldsLock' /\ DOMAIN at' = Workspaces
    BY <1>2 DEF Capture, Go, StagerHoldsLock, Distinct, Shapes
  <2> QED
    BY <1>0, <1>1, <2>1, <2>2 DEF Shapes, StagingIsOfOne, EntryIsOfOne, NoCompanionIsLinked
<1>3. CASE Stage(w)
  <2>1. PICK f \in Files : staging' = [staging EXCEPT ![f] = Copied(w, f)]
    BY <1>3 DEF Stage
  <2>2. Copied(w, f).capture = captures
    BY DEF Copied
  <2>3. DOMAIN staging' = Files /\ StagingIsOfOne'
    BY <1>3, <2>1, <2>2 DEF Stage, Shapes, StagingIsOfOne
  <2> QED
    BY <1>1, <1>3, <2>3 DEF Stage, Shapes, StagerHoldsLock, EntryIsOfOne, NoCompanionIsLinked
<1>4. CASE Publish(w)
  <2>1. at[w] = "stage" /\ flock = w /\ staging' = Nothing
    BY <1>4 DEF Publish, StagerHoldsLock
  <2>2. \/ entry' = entry
        \/ entry[key[w]] = Nothing /\ entry' = [entry EXCEPT ![key[w]] = staging]
    BY <1>4 DEF Publish
  <2>3. /\ DOMAIN entry' = Keys
        /\ \A k \in Keys : \/ entry'[k] = entry[k]
                           \/ entry[k] = Nothing /\ entry'[k] = staging
    BY <2>2 DEF Shapes
  <2>4. \A f, g \in Files :
          staging[f] # None /\ staging[g] # None => staging[f].capture = staging[g].capture
    BY DEF StagingIsOfOne
  <2>5. EntryIsOfOne'
    BY <2>3, <2>4 DEF EntryIsOfOne
  <2>6. StagerHoldsLock' /\ DOMAIN at' = Workspaces
    BY <1>4, <2>1 DEF Publish, Go, Shapes, StagerHoldsLock
  <2>7. StagingIsOfOne' /\ Shapes'
    BY <1>0, <1>1, <2>1, <2>3, <2>6 DEF Shapes, StagingIsOfOne
  <2> QED
    BY <1>1, <2>3, <2>5, <2>6, <2>7 DEF NoCompanionIsLinked
<1> QED
  BY <1>2, <1>3, <1>4 DEF Capture, Stage

\* A collection removes files and changes none.
LEMMA CollectSteps ==
  ASSUME Distinct, CacheInv, Sweep \/ Evict \/ RemoveFile \/ Collected \/ Crash
  PROVE  /\ CacheInv'
         /\ \A k \in Keys, f \in Files : entry'[k][f] \in {None, entry[k][f]}
<1> USE DEF CacheInv
<1>0. DOMAIN Nothing = Files /\ \A f \in Files : Nothing[f] = None
  BY DEF Nothing
<1>1. CASE Sweep
  <2>1. StagerHoldsLock'
    BY <1>1 DEF Sweep, Distinct, StagerHoldsLock
  <2> QED
    BY <1>1, <2>1 DEF Sweep, worktree, Shapes, StagingIsOfOne, EntryIsOfOne, NoCompanionIsLinked
<1>2. CASE Evict
  BY <1>2 DEF Evict, worktree, Shapes, StagerHoldsLock, StagingIsOfOne, EntryIsOfOne,
     NoCompanionIsLinked
<1>3. CASE RemoveFile
  <2>1. PICK f \in Files : entry' = [entry EXCEPT ![victim][f] = None]
    BY <1>3 DEF RemoveFile
  <2>2. /\ DOMAIN entry' = Keys
        /\ \A k \in Keys :
             DOMAIN entry'[k] = Files /\ \A g \in Files : entry'[k][g] \in {None, entry[k][g]}
    BY <2>1 DEF Shapes
  <2>3. DOMAIN linked' = Workspaces /\ \A v \in Workspaces : linked'[v] \subseteq linked[v]
    BY <1>3 DEF RemoveFile
  <2>4. EntryIsOfOne'
    BY <2>2 DEF EntryIsOfOne
  <2>5. NoCompanionIsLinked'
    BY <2>3 DEF NoCompanionIsLinked
  <2> QED
    BY <1>3, <2>2, <2>3, <2>4, <2>5 DEF RemoveFile, Shapes, StagerHoldsLock, StagingIsOfOne
<1>4. CASE Collected
  <2>1. StagerHoldsLock' /\ DOMAIN at' = Workspaces
    BY <1>4 DEF Collected, StagerHoldsLock
  <2> QED
    BY <1>4, <2>1 DEF Collected, worktree, Shapes, StagingIsOfOne, EntryIsOfOne,
       NoCompanionIsLinked
<1>5. CASE Crash
  <2>1. StagerHoldsLock' /\ DOMAIN at' = Workspaces /\ staging' = Nothing
    BY <1>5 DEF Crash, StagerHoldsLock
  <2> QED
    BY <1>0, <1>5, <2>1 DEF Crash, worktree, Shapes, StagingIsOfOne, EntryIsOfOne,
       NoCompanionIsLinked
<1> QED
  BY <1>1, <1>2, <1>3, <1>4, <1>5

\* Every step keeps the invariant and seals what is in the cache.
LEMMA CacheStep ==
  ASSUME Distinct, CacheInv, [Next]_vars
  PROVE  /\ CacheInv'
         /\ \A k \in Keys, f \in Files :
              entry[k][f] # None /\ entry'[k][f] # None => entry'[k][f] = entry[k][f]
<1>1. CASE UNCHANGED vars
  BY <1>1 DEF vars, worktree, cache, CacheInv, Shapes, StagerHoldsLock, StagingIsOfOne,
     EntryIsOfOne, NoCompanionIsLinked
<1>2. CASE \E w \in Workspaces : Populate(w) \/ LinkNode(w) \/ CopyCompanions(w)
  BY <1>2, PopulateSteps
<1>3. CASE \E w \in Workspaces : ChangeSource(w) \/ Build(w) \/ TaskEnds(w)
  BY <1>3, AgentSteps
<1>4. CASE \E w \in Workspaces : Capture(w) \/ Stage(w) \/ Publish(w)
  <2>1. CacheInv' /\ \A k \in Keys : entry[k] = Nothing \/ entry'[k] = entry[k]
    BY <1>4, CaptureSteps
  <2>2. \A f \in Files : Nothing[f] = None
    BY DEF Nothing
  <2> QED
    BY <2>1, <2>2
<1>5. CASE Sweep \/ Evict \/ RemoveFile \/ Collected \/ Crash
  BY <1>5, CollectSteps
<1> QED
  BY <1>1, <1>2, <1>3, <1>4, <1>5 DEF Next

\* What lookup() takes for a complete entry comes from one capture, for any
\* worktrees, keys, builds and crashes.
THEOREM HitComesFromOneCapture ==
  ASSUME Distinct
  PROVE  Spec => []HitIsWhole
<1>1. Init => CacheInv
  BY CacheInvAtFirst
<1>2. CacheInv /\ [Next]_vars => CacheInv'
  BY CacheStep
<1>3. CacheInv => HitIsWhole
  BY DEF CacheInv, EntryIsOfOne, HitIsWhole, Hit, Whole
<1> QED
  BY <1>1, <1>2, <1>3, PTL DEF Spec

\* "The cache file is never mutated" (populate_workspace): what a step leaves in
\* an entry, it leaves as it was.
THEOREM CacheFilesAreSealed ==
  ASSUME Distinct
  PROVE  Spec => EntryIsSealed
<1>1. Init => CacheInv
  BY CacheInvAtFirst
<1>2. CacheInv /\ [Next]_vars => CacheInv'
  BY CacheStep
<1>3. CacheInv /\ [Next]_vars =>
        [\A k \in Keys, f \in Files :
           /\ entry[k][f] # None /\ entry'[k][f] # None
           /\ entry'[k][f].capture = entry[k][f].capture
           => entry'[k][f] = entry[k][f]]_vars
  BY CacheStep
<1> QED
  BY <1>1, <1>2, <1>3, PTL DEF Spec, EntryIsSealed
=============================================================================
