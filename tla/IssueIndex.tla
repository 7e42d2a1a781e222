----------------------------- MODULE IssueIndex -----------------------------
(***************************************************************************)
(* The local search index of one repository (issue_index.py): webhooks     *)
(* that write rows, and the sync that lists what was updated since a       *)
(* watermark, page by page, and writes the rows of each page.  The process *)
(* may miss webhooks, and a page is an answer from before its rows are     *)
(* written.  Issues are numbers.                                           *)
(***************************************************************************)
EXTENDS Integers, FiniteSets

CONSTANTS
  Issues, None,
  Overlap,      \* _SYNC_OVERLAP
  PageSize,     \* _PAGE_SIZE
  MaxPages,     \* _MAX_PAGES_PER_TICK
  MaxTime, MaxChanges

Version == [n : 1..MaxChanges, at : 0..MaxTime]

VARIABLES
  now,
  github,     \* each issue as of its last change
  deliveries, \* webhooks under way
  rows,       \* table issue_index
  watermark,  \* table issue_index_sync
  sync,       \* the run of sync_repo
  changes,
  skipped     \* history: issues passed over by a run, or listed by one that passed its own start

vars == <<now, github, deliveries, rows, watermark, sync, changes, skipped>>

Run == [started : 0..MaxTime, since : Int, page : 1..MaxPages,
        seen : SUBSET Issues, last : 0..MaxTime,
        answer : {None} \union SUBSET [issue : Issues, version : Version]]

Init ==
  /\ now = 0
  /\ github = [i \in Issues |-> None] /\ deliveries = {}
  /\ rows = [i \in Issues |-> None] /\ watermark = None /\ sync = None
  /\ changes = 0 /\ skipped = {}

Tick ==
  /\ now < MaxTime
  /\ now' = now + 1
  \* A webhook that is not handled within the overlap is lost.
  /\ deliveries' = {d \in deliveries : d.version.at + Overlap > now}
  /\ UNCHANGED <<github, rows, watermark, sync, changes, skipped>>

\* Opened, edited, commented on, closed, ...
Change(i) ==
  /\ changes < MaxChanges
  /\ changes' = changes + 1
  /\ LET v == [n |-> changes + 1, at |-> now]
     IN /\ github' = [github EXCEPT ![i] = v]
        /\ deliveries' \in {deliveries, deliveries \union {[issue |-> i, version |-> v]}}
  /\ skipped' = skipped \ {i}
  /\ UNCHANGED <<now, rows, watermark, sync>>

\* upsert_issue_index() replaces the row, whichever is newer.
Write(batch) ==
  rows' = [i \in Issues |->
    IF \E e \in batch : e.issue = i THEN (CHOOSE e \in batch : e.issue = i).version ELSE rows[i]]

IngestWebhook(d) ==
  /\ d \in deliveries
  /\ Write({d})
  /\ deliveries' = deliveries \ {d}
  /\ UNCHANGED <<now, github, watermark, sync, changes, skipped>>

(***************************************************************************)
(* sync_repo                                                               *)
(***************************************************************************)
Overlapped_not == watermark
Overlapped == watermark - Overlap

StartSync ==
  /\ sync = None
  /\ sync' = [started |-> now, since |-> IF watermark = None THEN -Overlap ELSE Overlapped,
              page |-> 1, seen |-> {}, last |-> 0, answer |-> None]
  /\ UNCHANGED <<now, github, deliveries, rows, watermark, changes, skipped>>

\* GitHub lists the issues updated since then, the one updated first at the top.
Listed(since) == {i \in Issues : github[i] # None /\ github[i].at >= since}
Above(i, since) ==
  {j \in Listed(since) : \/ github[j].at < github[i].at
                         \/ github[j].at = github[i].at /\ j < i}
Page(p, since) == {i \in Listed(since) : Cardinality(Above(i, since)) \div PageSize = p - 1}

Answer ==
  /\ sync # None /\ sync.answer = None
  /\ sync' = [sync EXCEPT !.answer =
       {[issue |-> i, version |-> github[i]] : i \in Page(sync.page, sync.since)}]
  /\ UNCHANGED <<now, github, deliveries, rows, watermark, changes, skipped>>

Seen == sync.seen \union {e.issue : e \in sync.answer}
Last ==
  LET ats == {sync.last} \union {e.version.at : e \in sync.answer}
  IN CHOOSE t \in ats : \A u \in ats : u <= t

Exhausted == Cardinality(sync.answer) < PageSize

Resume(started, last) == IF Exhausted THEN started ELSE last

\* A short page ends the run; so does the last page that a tick may ask for.
IngestPage ==
  /\ sync # None /\ sync.answer # None
  /\ Write(sync.answer)
  /\ IF Exhausted \/ sync.page = MaxPages
       THEN /\ watermark' = Resume(sync.started, Last)
            /\ sync' = None
       ELSE /\ sync' = [sync EXCEPT !.page = @ + 1, !.seen = Seen, !.last = Last,
                                    !.answer = None]
            /\ UNCHANGED watermark
  /\ skipped' = IF sync' # None THEN skipped
       ELSE skipped \union {i \in Listed(sync.since) :
              \/ github[i].at < watermark' /\ i \notin Seen
              \/ watermark' > sync.started}
  /\ UNCHANGED <<now, github, deliveries, changes>>

\* GitHub fails, or the process stops; the next tick begins again.
SyncFails ==
  /\ sync # None
  /\ sync' = None
  /\ deliveries' \in {deliveries, {}}
  /\ UNCHANGED <<now, github, rows, watermark, changes, skipped>>

Next ==
  \/ Tick \/ \E i \in Issues : Change(i) \/ \E d \in deliveries : IngestWebhook(d)
  \/ StartSync \/ Answer \/ IngestPage \/ SyncFails

Spec == Init /\ [][Next]_vars

-----------------------------------------------------------------------------
TypeOK ==
  /\ now \in 0..MaxTime /\ changes \in 0..MaxChanges
  /\ github \in [Issues -> Version \union {None}]
  /\ deliveries \subseteq [issue : Issues, version : Version]
  /\ rows \in [Issues -> Version \union {None}]
  /\ watermark \in Int \union {None}
  /\ sync \in Run \union {None}
  /\ skipped \subseteq Issues

\* A row that is not what GitHub has will be listed again by the next run: no
\* stale page, late webhook or missed webhook is final (sync_repo, _SYNC_OVERLAP).
StaleIsListed ==
  watermark # None =>
    \A i \in Issues \ skipped :
      rows[i] # github[i] => github[i].at >= watermark - Overlap

\* "Everything up to tick start is ingested" (sync_repo) when the watermark is
\* moved to the start of a run that has come to the last page.
EverythingIsIngested ==
  [][\A i \in Issues :
       IngestPage /\ Exhausted /\ github[i] # None /\ github[i].at < sync.started
       => rows'[i] # None /\ rows'[i].at >= github[i].at]_vars
=============================================================================
