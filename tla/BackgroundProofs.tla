-------------------------- MODULE BackgroundProofs --------------------------
(***************************************************************************)
(* Proofs about the loops beside the handlers: Autoclose, for any issues,  *)
(* window, batch and faults, and IssueIndex, for any issues, pages,        *)
(* overlap and failures.                                                   *)
(***************************************************************************)
EXTENDS MCBackground, WellFoundedInduction, TLAPS

-----------------------------------------------------------------------------
(* The end of answered questions                                             *)

\* Why a veto is heard: the row in hand is the snapshot of the claim, votes
\* are never taken back, and a closing is asked for only without a vote.
VetoInv ==
  /\ latest = watched
  /\ \A i \in vetoed : held[i] \in votes[i]
  /\ VetoIsHeard

Inv == TypeOK /\ ObjectionStands /\ VetoInv

\* Nothing is scheduled, watched or voted down at the start.
LEMMA InitInv == Init => Inv
  BY ConstantsAssumption
     DEF Init, Inv, TypeOK, ObjectionStands, VetoInv, VetoIsHeard, RowStates,
         Stages, NoAnswer

\* Type correctness is inductive by itself.
LEMMA NextTypeOK == ASSUME TypeOK, [Next]_vars PROVE TypeOK'
<1> USE ConstantsAssumption DEF TypeOK, RowStates, Stages, NoAnswer
<1>1. ASSUME NEW i \in Issues, PostAnswer(i) PROVE TypeOK'
  BY <1>1 DEF PostAnswer, table, tick, history
<1>2. ASSUME NEW i \in Issues, Schedule(i) PROVE TypeOK'
  BY <1>2 DEF Schedule, github, tick
<1>3. ASSUME NEW i \in Issues, VoteDown(i) PROVE TypeOK'
  BY <1>3 DEF VoteDown, table, tick, history
<1>4. ASSUME NEW i \in Issues, CloseByOther(i) \/ Reopen(i) PROVE TypeOK'
  BY <1>4 DEF CloseByOther, Reopen, table, tick, history
<1>5. ASSUME NEW i \in Issues, HandleReply(i) \/ HandleClosed(i) PROVE TypeOK'
  BY <1>5 DEF HandleReply, HandleClosed, CallOff, Cancelled, github, tick
<1>6. ASSUME NEW i \in Issues, TakeRow(i) PROVE TypeOK'
  BY <1>6 DEF TakeRow, table, github, history
<1>7. CASE TimePasses
  BY <1>7 DEF TimePasses, table, github, tick, history
<1>8. CASE Claim
  BY <1>8 DEF Claim, Due, github
<1>9. CASE CancelVetoed \/ CloseReturns \/ Fails \/ Gone
  BY <1>9 DEF CancelVetoed, CloseReturns, Fails, Gone, RowDone, Finalize,
              Requeued, Vetoes, history
<1>10. CASE AskToClose \/ CloseApplied
  BY <1>10 DEF AskToClose, CloseApplied, table, github, history
<1>11. CASE Aborts \/ Restart
  BY <1>11 DEF Aborts, Restart, table, github
<1>12. CASE UNCHANGED vars
  BY <1>12 DEF vars, table, github, tick, history
<1>13. QED
  BY <1>1, <1>2, <1>3, <1>4, <1>5, <1>6, <1>7, <1>8, <1>9, <1>10, <1>11, <1>12
     DEF Next, People, Succeeds

\* Only Schedule makes a row pending that was called off, and it forgets the
\* objection; a retry leaves it alone because it requeues claimed rows only.
LEMMA NextObjection ==
  ASSUME TypeOK, ObjectionStands, [Next]_vars PROVE ObjectionStands'
<1> USE DEF TypeOK, ObjectionStands
<1>1. ASSUME NEW i \in Issues, Schedule(i) PROVE ObjectionStands'
  BY <1>1 DEF Schedule
<1>2. ASSUME NEW i \in Issues, HandleReply(i) \/ HandleClosed(i)
      PROVE ObjectionStands'
  BY <1>2 DEF HandleReply, HandleClosed, CallOff, Cancelled
<1>3. CASE Claim
  BY <1>3 DEF Claim, Due
<1>4. CASE CancelVetoed \/ CloseReturns \/ Gone
  BY <1>4 DEF CancelVetoed, CloseReturns, Gone, RowDone, Finalize, Vetoes,
              history
<1>5. CASE Fails
  BY <1>5 DEF Fails, RowDone, Requeued, history
<1>6. CASE UNCHANGED <<row, objected>>
  BY <1>6
<1>7. QED
  BY <1>1, <1>2, <1>3, <1>4, <1>5, <1>6
     DEF Next, People, Succeeds, PostAnswer, VoteDown, CloseByOther, Reopen,
         TakeRow, TimePasses, AskToClose, CloseApplied, Aborts, Restart, vars,
         table, history

\* A snapshot is replaced by a claim only, and a vote is for good.
LEMMA NextVeto ==
  ASSUME TypeOK, VetoInv, [Next]_vars PROVE VetoInv'
<1> USE DEF TypeOK, VetoInv, VetoIsHeard
<1>1. ASSUME NEW i \in Issues, Schedule(i) PROVE VetoInv'
  BY <1>1 DEF Schedule, github, tick
<1>2. ASSUME NEW i \in Issues, VoteDown(i) PROVE VetoInv'
  BY <1>2 DEF VoteDown, table, tick, history
<1>3. CASE Claim
  BY <1>3 DEF Claim, Due, github
<1>4. ASSUME NEW i \in Issues, TakeRow(i) PROVE VetoInv'
  BY <1>4 DEF TakeRow, table, github, history
<1>5. CASE CancelVetoed \/ CloseReturns \/ Fails \/ Gone
  BY <1>5 DEF CancelVetoed, CloseReturns, Fails, Gone, RowDone, history
<1>6. CASE AskToClose \/ CloseApplied
  BY <1>6 DEF AskToClose, CloseApplied, Vetoes, table, github, history
<1>7. CASE Aborts \/ Restart
  BY <1>7 DEF Aborts, Restart, table, github
<1>8. CASE UNCHANGED <<watched, votes, tick, latest, vetoed>>
  BY <1>8 DEF tick
<1>9. QED
  BY <1>1, <1>2, <1>3, <1>4, <1>5, <1>6, <1>7, <1>8
     DEF Next, People, Succeeds, PostAnswer, CloseByOther, Reopen, HandleReply,
         HandleClosed, CallOff, TimePasses, vars, table, github, history

\* Every reachable state of the auto-close subsystem is well typed, and the
\* row in hand is never in the batch that is still to come.
THEOREM TypeCorrect == Spec => []TypeOK
<1>1. Init => TypeOK
  BY InitInv DEF Inv
<1>2. QED
  BY <1>1, NextTypeOK, PTL DEF Spec

\* The conjunction that makes objections and votes count.
THEOREM AutocloseInvariant == Spec => []Inv
<1>1. Inv /\ [Next]_vars => Inv'
  BY NextTypeOK, NextObjection, NextVeto DEF Inv
<1>2. QED
  BY <1>1, InitInv, PTL DEF Spec

\* A schedule that a reply or a closing called off is not taken up again
\* before another answer, whatever fails and restarts.
THEOREM ObjectionIsFinal == Spec => []ObjectionStands
<1>1. Inv => ObjectionStands
  BY DEF Inv
<1>2. QED
  BY <1>1, AutocloseInvariant, PTL

\* An issue whose author voted the last scheduled answer down before the
\* claim is not closed by it.
THEOREM VetoKeepsOpen == Spec => []VetoIsHeard
<1>1. Inv => VetoIsHeard
  BY DEF Inv, VetoInv
<1>2. QED
  BY <1>1, AutocloseInvariant, PTL

-----------------------------------------------------------------------------
(* The search index                                                          *)

\* Pairs of numbers, the smaller one first.
Below == {r \in Nat \X Nat : r[1] < r[2]}

\* A set of numbers up to a bound has a greatest one.
LEMMA Greatest ==
  ASSUME NEW N \in Nat, NEW S \in SUBSET (0..N), S # {}
  PROVE \E t \in S : \A u \in S : u <= t
<1> DEFINE Under == {d \in Nat : d <= N /\ N - d \in S}
<1>1. Under # {}
  <2>1. PICK s \in S : s \in 0..N
    OBVIOUS
  <2>2. N - s \in Under
    BY <2>1
  <2> QED
    BY <2>2
<1>2. PICK x \in Under : \A y \in Under : <<y, x>> \notin Below
  <2>1. Under \subseteq Nat
    OBVIOUS
  <2>2. IsWellFoundedOn(Below, Nat)
    BY NatLessThanWellFounded, Zenon DEF OpToRel, Below
  <2> HIDE DEF Under
  <2> QED
    BY <1>1, <2>1, <2>2, WFMin, Zenon
<1>3. ASSUME NEW y \in Under PROVE x <= y
  <2>1. x \in Nat /\ y \in Nat /\ <<y, x>> \notin Below
    BY <1>2
  <2> HIDE DEF Under
  <2>2. ~(y < x)
    BY <2>1 DEF Below
  <2> QED
    BY <2>1, <2>2
<1>4. ASSUME NEW u \in S PROVE u <= N - x
  <2>1. u \in 0..N
    OBVIOUS
  <2>2. N - u \in Under
    BY <2>1
  <2> QED
    BY <1>3, <2>1, <2>2
<1> QED
  BY <1>4

\* The watermark is a time gone by; what the index and webhooks say, GitHub had.
HistoryHolds ==
  /\ watermark # None => watermark <= time
  /\ \A i \in Numbers : /\ listed[i] # None => listed[i].at <= time
                        /\ listed[i] = None => rows[i] = None
  /\ \A d \in deliveries :
       /\ listed[d.issue] # None
       /\ time - Overlap <= d.version.at /\ d.version.at <= listed[d.issue].at

\* A row that this run has written is what GitHub has, or the issue has changed
\* since, or a webhook that was late by the overlap at most has replaced it.
RunHolds ==
  sync # None =>
    /\ sync.started <= time /\ sync.last <= time
    /\ IF watermark = None THEN sync.since = -Overlap
       ELSE sync.since = watermark - Overlap /\ watermark <= sync.started
    /\ \A i \in sync.seen :
         listed[i] # None /\ (rows[i] = listed[i] \/ sync.started - Overlap <= listed[i].at)
    /\ sync.answer # None => \A e \in sync.answer :
         /\ listed[e.issue] # None /\ e.version.at <= listed[e.issue].at
         /\ e.version = listed[e.issue] \/ sync.started <= listed[e.issue].at

IndexInv == X!TypeOK /\ HistoryHolds /\ RunHolds /\ StaleIsListed

\* upsert_issue_index: a row is that of an entry about it, or what it was.
LEMMA WriteEach ==
  ASSUME NEW entries, X!Write(entries), NEW i \in Numbers
  PROVE  \/ rows'[i] = rows[i] /\ \A e \in entries : e.issue # i
         \/ \E e \in entries : e.issue = i /\ rows'[i] = e.version
<1>1. CASE \E e \in entries : e.issue = i
  <2> DEFINE e == CHOOSE e \in entries : e.issue = i
  <2>1. e \in entries /\ e.issue = i
    BY <1>1
  <2>2. rows'[i] = e.version
    BY <1>1 DEF X!Write
  <2> QED
    BY <2>1, <2>2
<1> QED
  BY <1>1 DEF X!Write

\* The time of the last issue seen is a time gone by.
LEMMA LastIsPast ==
  ASSUME X!TypeOK, HistoryHolds, RunHolds, sync # None, sync.answer # None
  PROVE  X!Last \in 0..LongRun /\ X!Last <= time
<1> DEFINE ats == {sync.last} \union {e.version.at : e \in sync.answer}
<1>1. sync \in X!Run /\ sync.answer \subseteq [issue : Numbers, version : X!Version]
  BY DEF X!TypeOK, X!Run
<1>2. \A u \in ats : u \in 0..LongRun /\ u <= time
  <2>1. sync.last \in 0..LongRun /\ sync.last <= time
    BY <1>1 DEF RunHolds, X!Run
  <2>2. ASSUME NEW e \in sync.answer PROVE e.version.at \in 0..LongRun /\ e.version.at <= time
    <3>1. e.issue \in Numbers /\ e.version \in X!Version /\ e.version.at <= listed[e.issue].at
      BY <1>1 DEF RunHolds
    <3>2. listed[e.issue] \in X!Version /\ listed[e.issue].at <= time
      BY <3>1 DEF RunHolds, HistoryHolds, X!TypeOK
    <3> QED
      BY <3>1, <3>2, IndexAssumption DEF X!Version, X!TypeOK
  <2> QED
    BY <2>1, <2>2
<1>3. ats \in SUBSET (0..LongRun) /\ ats # {}
  BY <1>2
<1>4. \E t \in ats : \A u \in ats : u <= t
  <2> HIDE DEF ats
  <2> QED
    BY <1>3, Greatest, IndexAssumption
<1>5. X!Last \in ats
  BY <1>4 DEF X!Last
<1> QED
  BY <1>2, <1>5

\* Types of the index.
LEMMA IndexTypes ==
  ASSUME X!TypeOK, HistoryHolds, RunHolds, [X!Next]_(X!vars)
  PROVE  X!TypeOK'
<1> USE IndexAssumption
<1>1. CASE X!Tick
  BY <1>1 DEF X!Tick, X!TypeOK
<1>2. ASSUME NEW i \in Numbers, X!Change(i) PROVE X!TypeOK'
  <2> DEFINE v == [n |-> changes + 1, at |-> time]
  <2>1. v \in X!Version /\ changes + 1 \in 0..MaxChanges
    BY <1>2 DEF X!Change, X!TypeOK, X!Version
  <2>2. [issue |-> i, version |-> v] \in [issue : Numbers, version : X!Version]
    BY <2>1
  <2>3. /\ listed' = [listed EXCEPT ![i] = v] /\ changes' = changes + 1 /\ skipped' = skipped \ {i}
        /\ deliveries' \in {deliveries, deliveries \union {[issue |-> i, version |-> v]}}
        /\ UNCHANGED <<time, rows, watermark, sync>>
    BY <1>2 DEF X!Change
  <2> HIDE DEF v
  <2> QED
    BY <2>1, <2>2, <2>3 DEF X!TypeOK
<1>3. ASSUME NEW d \in deliveries, X!IngestWebhook(d) PROVE X!TypeOK'
  <2>1. rows' \in [Numbers -> X!Version \union {None}]
    <3>1. \A i \in Numbers : rows'[i] \in X!Version \union {None}
      BY <1>3, WriteEach DEF X!IngestWebhook, X!TypeOK
    <3>2. rows' = [i \in Numbers |-> rows'[i]]
      BY <1>3 DEF X!IngestWebhook, X!Write
    <3> QED
      BY <3>1, <3>2
  <2> QED
    BY <1>3, <2>1 DEF X!IngestWebhook, X!TypeOK
<1>4. CASE X!StartSync
  <2>1. sync' \in X!Run
    BY <1>4 DEF X!StartSync, X!TypeOK, X!Run, X!Overlapped
  <2> QED
    BY <1>4, <2>1 DEF X!StartSync, X!TypeOK
<1>5. CASE X!Answer
  <2> DEFINE answer == {[issue |-> i, version |-> listed[i]] : i \in X!Page(sync.page, sync.since)}
  <2>1. answer \subseteq [issue : Numbers, version : X!Version]
    BY DEF X!TypeOK, X!Page, X!Listed
  <2>2. sync' = [sync EXCEPT !.answer = answer] /\ sync \in X!Run
        /\ UNCHANGED <<time, listed, deliveries, rows, watermark, changes, skipped>>
    BY <1>5 DEF X!Answer, X!TypeOK
  <2> HIDE DEF answer
  <2>3. sync' \in X!Run
    BY <2>1, <2>2 DEF X!Run
  <2> QED
    BY <2>2, <2>3 DEF X!TypeOK
<1>6. CASE X!IngestPage
  <2>1. sync \in X!Run /\ sync.answer \subseteq [issue : Numbers, version : X!Version]
    BY <1>6 DEF X!IngestPage, X!TypeOK, X!Run
  <2>2. X!Last \in 0..LongRun
    BY <1>6, LastIsPast DEF X!IngestPage
  <2>3. X!Seen \in SUBSET Numbers
    BY <2>1 DEF X!Seen, X!Run
  <2>4. rows' \in [Numbers -> X!Version \union {None}]
    <3>1. \A i \in Numbers : rows'[i] \in X!Version \union {None}
      BY <1>6, <2>1, WriteEach DEF X!IngestPage, X!TypeOK
    <3>2. rows' = [i \in Numbers |-> rows'[i]]
      BY <1>6 DEF X!IngestPage, X!Write
    <3> QED
      BY <3>1, <3>2
  <2>5. watermark' \in Int \union {None} /\ sync' \in X!Run \union {None}
    <3>1. CASE X!Exhausted \/ sync.page = MaxPages
      <4>1. watermark' = X!Resume(sync.started, X!Last) /\ sync' = None
        BY <1>6, <3>1 DEF X!IngestPage
      <4> QED
        BY <2>1, <2>2, <4>1 DEF X!Resume, X!Run
    <3>2. CASE ~(X!Exhausted \/ sync.page = MaxPages)
      <4>1. PICK seen \in SUBSET Numbers, last \in 0..LongRun : seen = X!Seen /\ last = X!Last
        BY <2>2, <2>3
      <4>2. /\ sync' = [sync EXCEPT !.page = sync.page + 1, !.seen = seen, !.last = last,
                                    !.answer = None]
            /\ watermark' = watermark
        BY <1>6, <3>2, <4>1 DEF X!IngestPage
      <4>3. sync.page + 1 \in 1..MaxPages
        BY <2>1, <3>2 DEF X!Run
      <4> QED
        BY <2>1, <4>1, <4>2, <4>3 DEF X!Run, X!TypeOK
    <3> QED
      BY <3>1, <3>2
  <2>6. skipped' \subseteq Numbers
    BY <1>6 DEF X!IngestPage, X!TypeOK, X!Listed
  <2> QED
    BY <1>6, <2>4, <2>5, <2>6 DEF X!IngestPage, X!TypeOK
<1>7. CASE X!SyncFails
  BY <1>7 DEF X!SyncFails, X!TypeOK
<1>8. CASE UNCHANGED X!vars
  BY <1>8 DEF X!vars, X!TypeOK
<1> QED
  BY <1>1, <1>2, <1>3, <1>4, <1>5, <1>6, <1>7, <1>8 DEF X!Next

\* Issues and webhooks: time goes on, and a change is of the present.
LEMMA IndexHistory ==
  ASSUME X!TypeOK, HistoryHolds, RunHolds, [X!Next]_(X!vars)
  PROVE  HistoryHolds'
<1> USE IndexAssumption
<1> DEFINE Known(i) == listed[i] # None => listed[i].at <= time
<1>1. CASE X!Tick
  <2>1. /\ time \in Int /\ time' = time + 1 /\ UNCHANGED <<listed, rows, watermark>>
        /\ deliveries' = {d \in deliveries : d.version.at + Overlap > time}
    BY <1>1 DEF X!Tick, X!TypeOK
  <2>2. \A i \in Numbers : listed[i] # None => listed[i].at \in Int
    BY DEF X!TypeOK, X!Version
  <2>3. \A d \in deliveries : d.version.at \in Int
    BY DEF X!TypeOK, X!Version
  <2>4. watermark # None => watermark \in Int
    BY DEF X!TypeOK
  <2>5. \A d \in deliveries' : d \in deliveries /\ time + 1 - Overlap <= d.version.at
    BY <2>1, <2>3
  <2> QED
    BY <2>1, <2>2, <2>4, <2>5 DEF HistoryHolds
<1>2. ASSUME NEW i \in Numbers, X!Change(i) PROVE HistoryHolds'
  <2> DEFINE v == [n |-> changes + 1, at |-> time]
  <2>1. PICK new \in X!Version : new = v /\ new.at = time /\ new # None
    <3>1. v \in X!Version
      BY <1>2 DEF X!Change, X!TypeOK, X!Version
    <3> QED
      BY <3>1 DEF X!Version
  <2> DEFINE hook == [issue |-> i, version |-> v]
  <2>2. hook.issue = i /\ hook.version = new
    BY <2>1
  <2>3. /\ listed' = [listed EXCEPT ![i] = new]
        /\ deliveries' \subseteq deliveries \union {hook}
        /\ UNCHANGED <<time, rows, watermark, sync>>
    BY <1>2, <2>1 DEF X!Change
  <2> HIDE DEF hook, v
  <2>4. \A j \in Numbers : listed'[j] = IF j = i THEN new ELSE listed[j]
    BY <2>3 DEF X!TypeOK
  <2>5. time \in Int /\ \A j \in Numbers : listed[j] # None => listed[j].at \in Int
    BY DEF X!TypeOK, X!Version
  <2>6. \A d \in deliveries : d.issue \in Numbers /\ d.version.at \in Int
    BY DEF X!TypeOK, X!Version
  <2>7. \A d \in deliveries' : /\ listed'[d.issue] # None
                               /\ time - Overlap <= d.version.at
                               /\ d.version.at <= listed'[d.issue].at
    <3>1. ASSUME NEW d \in deliveries
          PROVE  /\ listed'[d.issue] # None
                 /\ time - Overlap <= d.version.at /\ d.version.at <= listed'[d.issue].at
      <4>1. /\ listed[d.issue] # None /\ listed[d.issue].at <= time
            /\ time - Overlap <= d.version.at /\ d.version.at <= listed[d.issue].at
        BY <2>6 DEF HistoryHolds
      <4> QED
        BY <2>1, <2>4, <2>5, <2>6, <4>1
    <3> QED
      BY <2>1, <2>2, <2>3, <2>4, <2>5, <3>1
  <2>8. \A j \in Numbers : /\ listed'[j] # None => listed'[j].at <= time
                           /\ listed'[j] = None => rows[j] = None
    BY <2>1, <2>4, <2>5 DEF HistoryHolds
  <2> QED
    BY <2>3, <2>7, <2>8 DEF HistoryHolds
<1>3. ASSUME NEW entries, X!Write(entries),
             \A e \in entries : e.issue \in Numbers => listed[e.issue] # None
      PROVE  \A i \in Numbers : listed[i] = None => rows'[i] = None
  BY <1>3, WriteEach DEF HistoryHolds
<1>4. ASSUME NEW d \in deliveries, X!IngestWebhook(d) PROVE HistoryHolds'
  <2>1. \A i \in Numbers : listed[i] = None => rows'[i] = None
    BY <1>3, <1>4 DEF X!IngestWebhook, HistoryHolds
  <2> QED
    BY <1>4, <2>1 DEF X!IngestWebhook, HistoryHolds
<1>5. CASE X!IngestPage
  <2>1. \A i \in Numbers : listed[i] = None => rows'[i] = None
    BY <1>3, <1>5 DEF X!IngestPage, RunHolds
  <2>2. watermark' # None => watermark' <= time
    BY <1>5, LastIsPast DEF X!IngestPage, RunHolds, X!Resume, HistoryHolds
  <2> QED
    BY <1>5, <2>1, <2>2 DEF X!IngestPage, HistoryHolds
<1>6. CASE UNCHANGED <<time, listed, rows, watermark>> /\ deliveries' \subseteq deliveries
  BY <1>6 DEF HistoryHolds
<1> QED
  BY <1>1, <1>2, <1>4, <1>5, <1>6
     DEF X!Next, X!StartSync, X!Answer, X!SyncFails, X!vars

\* A changed issue has changed now.
LEMMA ChangeIsNow ==
  ASSUME X!TypeOK, NEW i \in Numbers, X!Change(i)
  PROVE  /\ listed'[i] # None /\ listed'[i].at = time
         /\ \A j \in Numbers \ {i} : listed'[j] = listed[j]
         /\ UNCHANGED <<time, rows, watermark, sync>> /\ skipped' = skipped \ {i}
<1> DEFINE v == [n |-> changes + 1, at |-> time]
<1>1. v \in X!Version /\ v.at = time
  BY IndexAssumption DEF X!Change, X!TypeOK, X!Version
<1>2. listed' = [listed EXCEPT ![i] = v] /\ v # None
  BY <1>1, IndexAssumption DEF X!Change, X!Version
<1> HIDE DEF v
<1> QED
  BY <1>1, <1>2 DEF X!Change, X!TypeOK

\* What a run has written, and what it is about to write.
LEMMA IndexRun ==
  ASSUME X!TypeOK, HistoryHolds, RunHolds, [X!Next]_(X!vars)
  PROVE  RunHolds'
<1> USE IndexAssumption
<1>1. /\ time \in Int /\ (watermark # None => watermark \in Int)
      /\ sync # None => sync \in X!Run /\ sync.started \in Int /\ sync.last \in Int
                        /\ sync.seen \subseteq Numbers
                        /\ (sync.answer # None =>
                              sync.answer \subseteq [issue : Numbers, version : X!Version])
      /\ \A i \in Numbers : listed[i] # None => listed[i].at \in Int
      /\ \A d \in deliveries :
           d.issue \in Numbers /\ d.version \in X!Version /\ d.version.at \in Int
  BY DEF X!TypeOK, X!Run, X!Version
<1>2. CASE X!Tick
  <2>1. time' = time + 1 /\ UNCHANGED <<listed, rows, watermark, sync>>
    BY <1>2 DEF X!Tick
  <2>2. sync # None => sync.started <= time + 1 /\ sync.last <= time + 1
    BY <1>1 DEF RunHolds
  <2> QED
    BY <2>1, <2>2 DEF RunHolds
<1>3. ASSUME NEW i \in Numbers, X!Change(i) PROVE RunHolds'
  <2>1. \A j \in Numbers : j = i \/ listed'[j] = listed[j]
    BY <1>3, ChangeIsNow
  <2>2. listed'[i] # None /\ listed'[i].at = time /\ UNCHANGED <<time, rows, watermark, sync>>
    BY <1>3, ChangeIsNow
  <2>3. CASE sync # None
    <3>1. sync.started <= time /\ sync.started - Overlap <= time
      BY <1>1, <2>3 DEF RunHolds
    <3>2. \A j \in sync.seen :
            listed'[j] # None /\ (rows[j] = listed'[j] \/ sync.started - Overlap <= listed'[j].at)
      BY <1>1, <2>1, <2>2, <2>3, <3>1 DEF RunHolds
    <3>3. sync.answer # None => \A e \in sync.answer :
            /\ listed'[e.issue] # None /\ e.version.at <= listed'[e.issue].at
            /\ e.version = listed'[e.issue] \/ sync.started <= listed'[e.issue].at
      <4>1. ASSUME sync.answer # None, NEW e \in sync.answer
            PROVE  /\ listed'[e.issue] # None /\ e.version.at <= listed'[e.issue].at
                   /\ e.version = listed'[e.issue] \/ sync.started <= listed'[e.issue].at
        <5>1. /\ e.issue \in Numbers /\ listed[e.issue] # None
              /\ e.version.at <= listed[e.issue].at
              /\ e.version = listed[e.issue] \/ sync.started <= listed[e.issue].at
          BY <1>1, <2>3, <4>1 DEF RunHolds
        <5>2. e.version.at <= time
          <6>1. e.version.at \in Int
            BY <1>1, <2>3, <4>1 DEF X!Version
          <6>2. listed[e.issue].at <= time
            BY <5>1 DEF HistoryHolds
          <6> QED
            BY <1>1, <5>1, <6>1, <6>2
        <5> QED
          BY <2>1, <2>2, <3>1, <5>1, <5>2
      <4> QED
        BY <4>1
    <3> QED
      BY <2>2, <2>3, <3>2, <3>3 DEF RunHolds
  <2> QED
    BY <2>2, <2>3 DEF RunHolds
<1>4. ASSUME NEW d \in deliveries, X!IngestWebhook(d) PROVE RunHolds'
  <2>1. /\ UNCHANGED <<time, listed, watermark, sync>>
        /\ \A j \in Numbers : rows'[j] = rows[j] \/ j = d.issue
    BY <1>4, WriteEach DEF X!IngestWebhook
  <2>2. time - Overlap <= listed[d.issue].at
    BY <1>1 DEF HistoryHolds
  <2>3. sync # None => sync.started - Overlap <= listed[d.issue].at
    BY <1>1, <2>2 DEF RunHolds, HistoryHolds
  <2>4. sync # None => \A j \in sync.seen :
          listed[j] # None /\ (rows'[j] = listed[j] \/ sync.started - Overlap <= listed[j].at)
    BY <1>1, <2>1, <2>3 DEF RunHolds
  <2> QED
    BY <2>1, <2>4 DEF RunHolds
<1>5. CASE X!StartSync
  <2> DEFINE begun == [started |-> time,
                       since |-> IF watermark = None THEN -Overlap ELSE watermark - Overlap,
                       page |-> 1, seen |-> {}, last |-> 0, answer |-> None]
  <2>1. sync' = begun /\ UNCHANGED <<time, listed, rows, watermark>>
    BY <1>5 DEF X!StartSync, X!Overlapped
  <2>2. /\ begun.started = time /\ begun.last = 0 /\ begun.seen = {} /\ begun.answer = None
        /\ begun.since = IF watermark = None THEN -Overlap ELSE watermark - Overlap
    OBVIOUS
  <2>3. 0 <= time /\ (watermark # None => watermark <= time)
    BY DEF X!TypeOK, HistoryHolds
  <2> HIDE DEF begun
  <2> QED
    BY <1>1, <2>1, <2>2, <2>3 DEF RunHolds
<1>6. CASE X!Answer
  <2> DEFINE answer == {[issue |-> i, version |-> listed[i]] : i \in X!Page(sync.page, sync.since)}
  <2>1. \A e \in answer :
          e.issue \in Numbers /\ listed[e.issue] # None /\ e.version = listed[e.issue]
    BY DEF X!Page, X!Listed
  <2>2. /\ sync # None /\ sync' = [sync EXCEPT !.answer = answer]
        /\ UNCHANGED <<time, listed, rows, watermark>>
    BY <1>6 DEF X!Answer
  <2> HIDE DEF answer
  <2>3. /\ sync'.started = sync.started /\ sync'.last = sync.last /\ sync'.since = sync.since
        /\ sync'.seen = sync.seen /\ sync'.answer = answer
    BY <1>1, <2>2 DEF X!Run
  <2>4. \A e \in answer : e.version.at <= listed[e.issue].at
    BY <1>1, <2>1
  <2> QED
    BY <2>1, <2>2, <2>3, <2>4 DEF RunHolds
<1>7. CASE X!IngestPage /\ ~(X!Exhausted \/ sync.page = MaxPages)
  <2>1. PICK seen \in SUBSET Numbers, last \in 0..LongRun :
          seen = sync.seen \union {e.issue : e \in sync.answer} /\ last = X!Last /\ last <= time
    BY <1>1, <1>7, LastIsPast DEF X!IngestPage
  <2>2. /\ sync # None /\ sync.answer # None /\ UNCHANGED <<time, listed, watermark>>
        /\ X!Write(sync.answer)
        /\ sync' = [sync EXCEPT !.page = sync.page + 1, !.seen = seen, !.last = last,
                                !.answer = None]
    BY <1>7, <2>1 DEF X!IngestPage, X!Seen
  <2>3. /\ sync'.started = sync.started /\ sync'.last = last /\ sync'.since = sync.since
        /\ sync'.seen = seen /\ sync'.answer = None
    BY <1>1, <2>2 DEF X!Run
  <2>4. ASSUME NEW j \in seen
        PROVE  listed[j] # None /\ (rows'[j] = listed[j] \/ sync.started - Overlap <= listed[j].at)
    <3>1. j \in Numbers
      BY <2>1
    <3>2. CASE rows'[j] = rows[j] /\ \A e \in sync.answer : e.issue # j
      BY <2>1, <2>2, <2>4, <3>2 DEF RunHolds
    <3>3. CASE \E e \in sync.answer : e.issue = j /\ rows'[j] = e.version
      <4>1. listed[j] # None /\ (rows'[j] = listed[j] \/ sync.started <= listed[j].at)
        BY <2>2, <3>3 DEF RunHolds
      <4> QED
        BY <1>1, <2>2, <3>1, <4>1
    <3> QED
      BY <2>2, <3>1, <3>2, <3>3, WriteEach
  <2> QED
    BY <2>1, <2>2, <2>3, <2>4 DEF RunHolds
<1>8. CASE sync' = None
  BY <1>8 DEF RunHolds
<1>9. CASE UNCHANGED <<time, listed, rows, watermark, sync>>
  BY <1>9 DEF RunHolds
<1>10. X!IngestPage /\ (X!Exhausted \/ sync.page = MaxPages) => sync' = None
  BY DEF X!IngestPage
<1>11. X!SyncFails => sync' = None
  BY DEF X!SyncFails
<1>12. UNCHANGED X!vars => UNCHANGED <<time, listed, rows, watermark, sync>>
  BY DEF X!vars
<1> QED
  BY <1>2, <1>3, <1>4, <1>5, <1>6, <1>7, <1>8, <1>9, <1>10, <1>11, <1>12 DEF X!Next

\* No stale page, late webhook or missed webhook is final.
LEMMA IndexStale ==
  ASSUME X!TypeOK, HistoryHolds, RunHolds, StaleIsListed, [X!Next]_(X!vars)
  PROVE  StaleIsListed'
<1> USE IndexAssumption
<1>1. /\ time \in Int /\ (watermark # None => watermark \in Int)
      /\ sync # None => sync \in X!Run /\ sync.started \in Int
                        /\ (sync.answer # None =>
                              sync.answer \subseteq [issue : Numbers, version : X!Version])
      /\ \A i \in Numbers : listed[i] # None => listed[i].at \in Nat
      /\ \A d \in deliveries : d.issue \in Numbers /\ d.version.at \in Int
  BY DEF X!TypeOK, X!Run, X!Version
<1>2. ASSUME NEW i \in Numbers, X!Change(i) PROVE StaleIsListed'
  <2>1. /\ \A j \in Numbers : j = i \/ listed'[j] = listed[j]
        /\ listed'[i].at = time /\ UNCHANGED <<time, rows, watermark, sync>>
        /\ skipped' = skipped \ {i}
    BY <1>2, ChangeIsNow
  <2>2. watermark # None => watermark - Overlap <= time
    BY <1>1 DEF HistoryHolds
  <2> QED
    BY <2>1, <2>2 DEF StaleIsListed, X!StaleIsListed
<1>3. ASSUME NEW d \in deliveries, X!IngestWebhook(d) PROVE StaleIsListed'
  <2>1. /\ UNCHANGED <<time, listed, watermark, sync, skipped>>
        /\ \A j \in Numbers : rows'[j] = rows[j] \/ j = d.issue
    BY <1>3, WriteEach DEF X!IngestWebhook
  <2>2. watermark # None => watermark - Overlap <= listed[d.issue].at
    BY <1>1 DEF HistoryHolds
  <2> QED
    BY <2>1, <2>2 DEF StaleIsListed, X!StaleIsListed
\* What a page overwrites is current, or has changed since the run began.
<1>4. ASSUME X!IngestPage, NEW j \in Numbers, rows'[j] # listed[j]
      PROVE  \/ rows'[j] = rows[j] /\ \A e \in sync.answer : e.issue # j
             \/ sync.started <= listed[j].at
  BY <1>4, WriteEach DEF X!IngestPage, RunHolds
<1>5. CASE X!IngestPage /\ ~(X!Exhausted \/ sync.page = MaxPages)
  <2>1. UNCHANGED <<listed, watermark>> /\ skipped \subseteq skipped'
    BY <1>5 DEF X!IngestPage
  <2>2. ASSUME NEW j \in Numbers \ skipped', watermark # None, rows'[j] # listed[j]
        PROVE  watermark - Overlap <= listed[j].at
    <3>1. CASE rows'[j] = rows[j]
      BY <2>1, <2>2, <3>1 DEF StaleIsListed, X!StaleIsListed
    <3>2. CASE sync.started <= listed[j].at
      <4>1. listed[j] # None
        BY <2>2, WriteEach, <1>5 DEF HistoryHolds, RunHolds, X!IngestPage
      <4>2. watermark <= sync.started /\ sync.started \in Int
        BY <1>1, <1>5, <2>2 DEF RunHolds, X!IngestPage
      <4> QED
        BY <1>1, <2>2, <3>2, <4>1, <4>2
    <3> QED
      BY <1>4, <1>5, <2>2, <3>1, <3>2
  <2> QED
    BY <2>1, <2>2 DEF StaleIsListed, X!StaleIsListed
<1>6. CASE X!IngestPage /\ (X!Exhausted \/ sync.page = MaxPages)
  <2>1. /\ sync' = None /\ watermark' = X!Resume(sync.started, X!Last)
        /\ sync # None /\ sync.answer # None /\ UNCHANGED listed
        /\ skipped' = skipped \union {i \in X!Listed(sync.since) :
              \/ listed[i].at < watermark' /\ i \notin X!Seen
              \/ watermark' > sync.started}
    BY <1>6 DEF X!IngestPage
  <2>2. watermark' \in Int
    BY <1>1, <2>1, LastIsPast DEF X!Resume
  <2>3. ASSUME NEW j \in Numbers \ skipped', rows'[j] # listed[j]
        PROVE  watermark' - Overlap <= listed[j].at
    <3>1. listed[j] # None
      BY <1>6, <2>1, <2>3, WriteEach DEF HistoryHolds, RunHolds, X!IngestPage
    <3>2. listed[j].at \in Nat /\ j \notin skipped
      BY <1>1, <2>1, <2>3, <3>1
    <3>3. CASE j \notin X!Listed(sync.since)
      <4>1. listed[j].at < sync.since
        BY <1>1, <2>1, <3>1, <3>2, <3>3 DEF X!Listed, X!TypeOK, X!Run
      <4>2. watermark # None /\ listed[j].at < watermark - Overlap /\ watermark <= sync.started
        BY <2>1, <3>2, <4>1 DEF RunHolds
      <4>3. rows[j] = listed[j]
        BY <1>1, <2>3, <3>2, <4>2 DEF StaleIsListed, X!StaleIsListed
      <4>4. sync.started <= listed[j].at
        BY <1>4, <1>6, <2>3, <4>3
      <4> QED
        BY <1>1, <2>1, <3>2, <4>2, <4>4
    <3>4. CASE j \in X!Listed(sync.since)
      <4>1. watermark' <= sync.started /\ (watermark' <= listed[j].at \/ j \in X!Seen)
        BY <1>1, <2>1, <2>2, <2>3, <3>2, <3>4
      <4>2. CASE watermark' <= listed[j].at
        BY <2>2, <3>2, <4>2
      <4>3. CASE j \in X!Seen
        <5>1. CASE sync.started <= listed[j].at
          BY <1>1, <2>1, <2>2, <3>2, <4>1, <5>1
        <5>2. CASE rows'[j] = rows[j] /\ \A e \in sync.answer : e.issue # j
          <6>1. j \in sync.seen
            BY <4>3, <5>2 DEF X!Seen
          <6>2. sync.started - Overlap <= listed[j].at
            BY <2>1, <2>3, <5>2, <6>1 DEF RunHolds
          <6> QED
            BY <1>1, <2>1, <2>2, <3>2, <4>1, <6>2
        <5> QED
          BY <1>4, <1>6, <2>3, <5>1, <5>2
      <4> QED
        BY <4>1, <4>2, <4>3
    <3> QED
      BY <3>3, <3>4
  <2> QED
    BY <2>1, <2>3 DEF StaleIsListed, X!StaleIsListed
<1>7. CASE UNCHANGED <<listed, rows, watermark, skipped>>
  BY <1>7 DEF StaleIsListed, X!StaleIsListed
<1> QED
  BY <1>2, <1>3, <1>5, <1>6, <1>7
     DEF X!Next, X!Tick, X!StartSync, X!Answer, X!SyncFails, X!vars

\* Nothing is listed and nothing indexed at the start.
LEMMA IndexInit == MCInit => IndexInv
  BY IndexAssumption
     DEF MCInit, X!Init, IndexInv, X!TypeOK, HistoryHolds, RunHolds, StaleIsListed,
         X!StaleIsListed

\* For any issues, pages, overlap, lost and late webhooks and failures, a row of
\* the index that is not what GitHub has is listed again by the next run of
\* sync_repo, unless a run has passed the issue over (skipped).
THEOREM IndexIsRefreshed == MCSpec => []StaleIsListed
<1>1. MCInit => IndexInv
  BY IndexInit
<1>2. IndexInv /\ [MCNext]_<<vars, part, indexing>> => IndexInv'
  <2>1. [MCNext]_<<vars, part, indexing>> => [X!Next]_(X!vars)
    BY DEF MCNext, indexing, X!vars
  <2> QED
    BY <2>1, IndexTypes, IndexHistory, IndexRun, IndexStale DEF IndexInv
<1>3. IndexInv => StaleIsListed
  BY DEF IndexInv
<1> QED
  BY <1>1, <1>2, <1>3, PTL DEF MCSpec

\* A behaviour of the two loops is one of each of them.
THEOREM LoopsImplementParts == MCSpec => (Init /\ [][Next]_vars) /\ X!Spec
<1>1. MCInit => Init /\ X!Init
  BY DEF MCInit
<1>2. [MCNext]_<<vars, part, indexing>> => [Next]_vars /\ [X!Next]_(X!vars)
  BY DEF MCNext, indexing, X!vars
<1> QED
  BY <1>1, <1>2, PTL DEF MCSpec, X!Spec
=============================================================================
