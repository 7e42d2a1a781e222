----------------------------- MODULE Admission ------------------------------
(***************************************************************************)
(* The rate limit of deliveries (server.py, db.admit_submission): a        *)
(* submission is counted and recorded in one transaction, and only then is *)
(* its event stored; GitHub may send a delivery again.                     *)
(***************************************************************************)
EXTENDS Naturals, FiniteSets

CONSTANTS
  Deliveries, Logins, By,   \* who a delivery comes from
  Unlimited,                \* rate_limit_unlimited and the maintainers
  Default, Contributor,     \* caps
  Window, MaxTime,
  None

Associations == {"OWNER", "CONTRIBUTOR", "NONE"}

VARIABLES
  now,
  submissions,  \* table submissions
  events,       \* state with which a delivery's event was stored
  admitting     \* the delivery between the two

vars == <<now, submissions, events, admitting>>

Submission == [id : Deliveries, ts : 0..MaxTime, tier : Associations]

TypeOK ==
  /\ now \in 0..MaxTime
  /\ submissions \subseteq Submission
  /\ events \in [Deliveries -> {None, "queued", "skipped"}]
  /\ admitting \in Deliveries \union {None}

Init ==
  /\ now = 0 /\ submissions = {} /\ admitting = None
  /\ events = [d \in Deliveries |-> None]

Tick ==
  /\ now < MaxTime
  /\ now' = now + 1
  /\ UNCHANGED <<submissions, events, admitting>>

\* rate_limit_cap(): none for the unlimited and the trusted.
Capped(d, association) == By[d] \notin Unlimited /\ association # "OWNER"
Cap(association) == IF association = "CONTRIBUTOR" THEN Contributor ELSE Default

Recent(login) == {s \in submissions : By[s.id] = login /\ s.ts >= now - Window}

Full_late(d, association) ==
  Capped(d, association) /\ Cardinality(Recent(By[d])) > Cap(association)

Full(d, association) ==
  Capped(d, association) /\ Cardinality(Recent(By[d])) >= Cap(association)

Known(d) == \E s \in submissions : s.id = d

Store(d, state) == events' = [events EXCEPT ![d] = IF @ = None THEN state ELSE @]

\* A delivery that was admitted before is accepted and not counted again.
Admit(d) ==
  /\ admitting = None
  /\ \E a \in Associations :
       \/ /\ Known(d)
          /\ admitting' = d /\ UNCHANGED <<submissions, events>>
       \/ /\ ~Known(d) /\ ~Full(d, a)
          /\ submissions' = submissions \union {[id |-> d, ts |-> now, tier |-> a]}
          /\ admitting' = d /\ UNCHANGED events
       \/ /\ ~Known(d) /\ Full(d, a)
          /\ Store(d, "skipped")
          /\ UNCHANGED <<submissions, admitting>>
  /\ UNCHANGED now

\* record_event() leaves an event that is there alone.
Queue ==
  /\ admitting # None
  /\ Store(admitting, "queued")
  /\ admitting' = None
  /\ UNCHANGED <<now, submissions>>

\* The process stops; GitHub has no answer and the delivery may be sent again.
Crash ==
  /\ admitting # None
  /\ admitting' = None
  /\ UNCHANGED <<now, submissions, events>>

Next == Tick \/ (\E d \in Deliveries : Admit(d)) \/ Queue \/ Crash

Spec == Init /\ [][Next]_vars

-----------------------------------------------------------------------------
InWindow(s, end) == end - Window <= s.ts /\ s.ts <= end

\* What is queued for a submitter in any window, by deliveries that fall under
\* the default cap, is within that cap, whatever is sent again, however the other
\* deliveries of the same submitter are classed and wherever the process stops.
QueuedWithinCap ==
  \A l \in Logins \ Unlimited, end \in 0..MaxTime :
    Cardinality({s \in submissions : /\ By[s.id] = l /\ s.tier = "NONE"
                                     /\ InWindow(s, end) /\ events[s.id] = "queued"})
      <= Default
=============================================================================
