----------------------------- MODULE Autoclose -----------------------------
(***************************************************************************)
(* The closing of answered question issues after a silent window: the      *)
(* table pending_closures (db.py), its scheduler (autoclose.py), the agent *)
(* that answers (host_tools.py) and the webhooks that call it off          *)
(* (server.py).  The scheduler awaits GitHub between its steps; webhooks,  *)
(* the agent's thread and people act in between.                           *)
(*                                                                         *)
(* A definition Op_variant is Op with one plausible slip in it: the        *)
(* checks put it in Op's place to see that a property notices.             *)
(***************************************************************************)
EXTENDS Integers, FiniteSets

CONSTANTS
  Issues,
  NoIssue,      \* "none of them"
  Window,       \* question_autoclose_hours
  BatchLimit,   \* the LIMIT of claim_due_closures
  Faults,       \* what GitHub and the process may do besides working
  MaxAnswers,   \* bound: answers to each issue
  MaxTime       \* bound: the clock

ASSUME ConstantsAssumption ==
  /\ NoIssue \notin Issues
  /\ Window \in Nat \ {0} /\ BatchLimit \in Nat \ {0}
  /\ Faults \subseteq {"error", "gone", "outage", "halt"}
  /\ MaxAnswers \in [Issues -> Nat] /\ MaxTime \in Nat

VARIABLES
  \* pending_closures
  row, watched, closeAt,
  \* GitHub
  open,         \* issues that are open
  answers,      \* answers of the bot to each issue
  votes,        \* answers of each issue that its author voted down
  hooks,        \* issues whose "closed" webhook is under way
  \* the agent, between post_comment and _schedule_autoclose
  posting,
  \* the scheduler: rows claimed and not processed, the one in process
  batch, current, stage, held,
  now,
  \* history: the answer scheduled last, and the issues whose schedule was
  \* called off since it was made, whose last scheduled answer had been voted
  \* down when they were claimed, and whose row a broken off tick had claimed
  latest, objected, vetoed, dropped

github == <<open, answers, votes>>
table  == <<row, watched, closeAt>>
tick   == <<batch, current, stage, held>>
history == <<latest, objected, vetoed, dropped>>
vars   == <<table, github, hooks, posting, tick, now, history>>

RowStates == {"none", "pending", "claimed", "closed", "cancelled"}
Stages    == {"idle", "listing", "closing", "closed"}
NoAnswer  == 0

Init ==
  /\ row = [i \in Issues |-> "none"]
  /\ watched = [i \in Issues |-> NoAnswer] /\ closeAt = [i \in Issues |-> 0]
  /\ open = Issues /\ answers = [i \in Issues |-> 0]
  /\ votes = [i \in Issues |-> {}] /\ hooks = {}
  /\ posting = {}
  /\ batch = {} /\ current = NoIssue /\ stage = "idle"
  /\ held = [i \in Issues |-> NoAnswer]
  /\ now = 0 /\ latest = [i \in Issues |-> NoAnswer]
  /\ objected = {} /\ vetoed = {} /\ dropped = {}

-----------------------------------------------------------------------------
(* The agent and people.                                                   *)

\* gh_post_comment: the answer, with its keep-open suffix, is on GitHub ...
PostAnswer(i) ==
  /\ i \in open \ posting /\ answers[i] < MaxAnswers[i]
  /\ answers' = [answers EXCEPT ![i] = @ + 1]
  /\ posting' = posting \cup {i}
  /\ UNCHANGED <<table, open, votes, hooks, tick, now, history>>

\* ... and then upsert_pending_closure starts its window, whatever the state
\* of the row.
Schedule_keepsComment(i) ==
  /\ i \in posting
  /\ posting' = posting \ {i}
  /\ row' = [row EXCEPT ![i] = "pending"]
  /\ watched' = [watched EXCEPT ![i] = IF @ = NoAnswer THEN answers[i] ELSE @]
  /\ closeAt' = [closeAt EXCEPT ![i] = now + Window]
  /\ latest' = [latest EXCEPT ![i] = answers[i]]
  /\ objected' = objected \ {i} /\ dropped' = dropped \ {i}
  /\ UNCHANGED <<github, hooks, tick, now, vetoed>>
Schedule(i) ==
  /\ i \in posting
  /\ posting' = posting \ {i}
  /\ row' = [row EXCEPT ![i] = "pending"]
  /\ watched' = [watched EXCEPT ![i] = answers[i]]
  /\ closeAt' = [closeAt EXCEPT ![i] = now + Window]
  /\ latest' = [latest EXCEPT ![i] = answers[i]]
  /\ objected' = objected \ {i} /\ dropped' = dropped \ {i}
  /\ UNCHANGED <<github, hooks, tick, now, vetoed>>

VoteDown(i) ==
  /\ \E k \in 1 .. answers[i] :
       k \notin votes[i] /\ votes' = [votes EXCEPT ![i] = @ \cup {k}]
  /\ UNCHANGED <<table, open, answers, hooks, posting, tick, now, history>>

\* Someone closes or reopens the issue; gh_close_issue closes it too.
CloseByOther(i) ==
  /\ i \in open
  /\ open' = open \ {i} /\ hooks' = hooks \cup {i}
  /\ UNCHANGED <<table, answers, votes, posting, tick, now, history>>

Reopen(i) ==
  /\ i \notin open
  /\ open' = open \cup {i}
  /\ UNCHANGED <<table, answers, votes, hooks, posting, tick, now, history>>

\* cancel_pending_closure: only a pending row is cancelled.
Cancelled(i) == IF row[i] = "pending" THEN "cancelled" ELSE row[i]
CallOff(i) ==
  /\ row' = [row EXCEPT ![i] = Cancelled(i)]
  /\ objected' = IF row[i] = "pending" THEN objected \cup {i} ELSE objected
  /\ UNCHANGED <<watched, closeAt, github, posting, tick, now, latest, vetoed, dropped>>

\* The webhook of a follow-up comment, and the one of the closing.
HandleReply(i)  == CallOff(i) /\ UNCHANGED hooks
HandleClosed(i) == i \in hooks /\ hooks' = hooks \ {i} /\ CallOff(i)

TimePasses ==
  /\ now < MaxTime /\ now' = now + 1
  /\ UNCHANGED <<table, github, hooks, posting, tick, history>>

-----------------------------------------------------------------------------
(* AutocloseScheduler.                                                     *)

Due == {i \in Issues : row[i] = "pending" /\ closeAt[i] <= now}

\* The rows of one claim: the oldest due ones, as many as fit.
Oldest(S) ==
  /\ S \subseteq Due
  /\ Cardinality(S) = IF Cardinality(Due) < BatchLimit THEN Cardinality(Due)
                      ELSE BatchLimit
  /\ \A i \in S, j \in Due \ S : closeAt[i] <= closeAt[j]

\* claim_due_closures, at the beginning of tick().
Claim ==
  /\ stage = "idle" /\ batch = {} /\ Due # {}
  /\ \E S \in SUBSET Due :
       /\ Oldest(S)
       /\ batch' = S
       /\ row' = [i \in Issues |-> IF i \in S THEN "claimed" ELSE row[i]]
       /\ held' = [i \in Issues |-> IF i \in S THEN watched[i] ELSE held[i]]
       /\ vetoed' = {i \in S : latest[i] \in votes[i]}
  /\ UNCHANGED <<watched, closeAt, github, hooks, posting, current, stage, now, latest,
                 objected, dropped>>

\* _process_row takes the next row and asks for the reactions.
TakeRow_kept(i) ==
  /\ stage = "idle" /\ i \in batch
  /\ current' = i /\ stage' = "listing"
  /\ UNCHANGED <<table, github, hooks, posting, batch, held, now, history>>
TakeRow(i) ==
  /\ stage = "idle" /\ i \in batch
  /\ batch' = batch \ {i} /\ current' = i /\ stage' = "listing"
  /\ UNCHANGED <<table, github, hooks, posting, held, now, history>>

RowDone ==
  /\ current' = NoIssue /\ stage' = "idle"
  /\ UNCHANGED <<watched, closeAt, answers, votes, posting, batch, held, now,
                 history>>

\* finalize_closure, whatever the state of the row.
Finalize(state) == row' = [row EXCEPT ![current] = state]

\* requeue_claimed_closure leaves a row alone that is no longer claimed.
Requeued_always(i) == "pending"
Requeued_never(i) == row[i]
Requeued(i) == IF row[i] = "claimed" THEN "pending" ELSE row[i]

\* The author's vote on the comment of the claimed row keeps the issue open.
Vetoes == stage = "listing" /\ held[current] \in votes[current]

CancelVetoed ==
  /\ Vetoes
  /\ RowDone /\ Finalize("cancelled") /\ UNCHANGED <<open, hooks>>

AskToClose ==
  /\ stage = "listing" /\ ~Vetoes
  /\ stage' = "closing"
  /\ UNCHANGED <<table, github, hooks, posting, batch, current, held, now,
                 history>>

\* GitHub closes the issue, and later its answer is here.
CloseApplied ==
  /\ stage = "closing"
  /\ stage' = "closed" /\ open' = open \ {current}
  /\ hooks' = IF current \in open THEN hooks \cup {current} ELSE hooks
  /\ UNCHANGED <<table, answers, votes, posting, batch, current, held, now,
                 history>>

CloseReturns ==
  /\ stage = "closed"
  /\ RowDone /\ Finalize("closed") /\ UNCHANGED <<open, hooks>>

\* A GitHubError, also in answer to a close that was carried out: the row is tried
\* again by a later tick.
Fails ==
  /\ "error" \in Faults /\ stage # "idle"
  /\ RowDone /\ row' = [row EXCEPT ![current] = Requeued(current)]
  /\ UNCHANGED <<open, hooks>>

\* ... but a 404 on the closing is final.
Gone ==
  /\ "gone" \in Faults /\ stage = "closing"
  /\ RowDone /\ Finalize("cancelled") /\ UNCHANGED <<open, hooks>>

\* Any other exception, such as the httpx error left after the retries of an
\* unreachable GitHub, ends the tick and forgets its rows.
Aborts ==
  /\ "outage" \in Faults /\ stage # "idle"
  /\ dropped' = dropped \cup batch \cup ({current} \ {NoIssue})
  /\ batch' = {} /\ current' = NoIssue /\ stage' = "idle"
  /\ UNCHANGED <<table, github, hooks, posting, held, now, latest, objected, vetoed>>

\* The process stops or dies and starts again: only the table remains.
Restart ==
  /\ "halt" \in Faults /\ (batch # {} \/ stage # "idle" \/ posting # {})
  /\ dropped' = dropped \cup batch \cup ({current} \ {NoIssue})
  /\ batch' = {} /\ current' = NoIssue /\ stage' = "idle" /\ posting' = {}
  /\ UNCHANGED <<table, github, hooks, held, now, latest, objected, vetoed>>

People(i) ==
  \/ PostAnswer(i) \/ Schedule(i) \/ VoteDown(i)
  \/ CloseByOther(i) \/ Reopen(i) \/ HandleReply(i) \/ HandleClosed(i)

Succeeds == CancelVetoed \/ AskToClose \/ CloseApplied \/ CloseReturns

Next ==
  \/ \E i \in Issues : People(i) \/ TakeRow(i)
  \/ TimePasses
  \/ Claim \/ Succeeds \/ Fails \/ Gone
  \/ Aborts \/ Restart

Spec == Init /\ [][Next]_vars

\* The loop keeps ticking, and GitHub does not fail for ever.
Fairness ==
  /\ WF_vars(Claim \/ \E i \in Issues : TakeRow(i))
  /\ SF_vars(CancelVetoed \/ AskToClose)
  /\ SF_vars(CloseApplied) /\ SF_vars(CloseReturns)
FairSpec == Spec /\ Fairness

-----------------------------------------------------------------------------
TypeOK ==
  /\ row \in [Issues -> RowStates]
  /\ watched \in [Issues -> Nat] /\ closeAt \in [Issues -> Nat]
  /\ open \subseteq Issues /\ answers \in [Issues -> Nat]
  /\ votes \in [Issues -> SUBSET Nat]
  /\ \A i \in Issues : watched[i] <= answers[i] /\ votes[i] \subseteq 1 .. answers[i]
  /\ hooks \subseteq Issues /\ posting \subseteq Issues
  /\ batch \subseteq Issues /\ held \in [Issues -> Nat]
  /\ stage \in Stages
  /\ IF stage = "idle" THEN current = NoIssue ELSE current \in Issues \ batch
  /\ now \in Nat /\ latest \in [Issues -> Nat]
  /\ objected \subseteq Issues /\ vetoed \subseteq Issues /\ dropped \subseteq Issues

\* A reply or a closing that called a schedule off is final: the row is not
\* taken up again, by a retry of a claim that was under way either, until
\* another answer is scheduled.
ObjectionStands ==
  \A i \in Issues : row[i] \in {"pending", "claimed"} => i \notin objected

\* An author who had voted the last scheduled answer down before the row was claimed
\* keeps the issue open, also when the answer before it was not voted down
\* and when a failed tick is repeated.
VetoIsHeard == stage \in {"closing", "closed"} => current \notin vetoed

\* Every schedule that is due is decided or moved, across failing requests,
\* a full batch and everything people do meanwhile, unless the tick that
\* claimed it broke off.
DueIsDecided ==
  \A i \in Issues :
    row[i] = "pending" /\ closeAt[i] <= now ~>
      row[i] \in {"closed", "cancelled"} \/ closeAt[i] > now \/ i \in dropped

\* "A failed close requeues the row to `pending` so the next tick retries"
\* (autoclose.py): no row stays claimed when the tick that claimed it is over.
ClaimIsOwned ==
  \A i \in Issues : row[i] = "claimed" => i \in batch \/ i = current
=============================================================================
