-------------------------- MODULE AdmissionProofs ---------------------------
(***************************************************************************)
(* The cap on what is queued for a submitter holds in every window of any  *)
(* length, for any caps, deliveries, repetitions and crashes.              *)
(***************************************************************************)
EXTENDS Admission, FiniteSetTheorems, TLAPS

\* What is counted against the default cap in the window that ends at a time.
Counted(l, end) == {s \in submissions : By[s.id] = l /\ s.tier = "NONE" /\ InWindow(s, end)}

Stamped == now \in Nat /\ \A s \in submissions : s.ts \in Nat /\ s.ts <= now

WindowsAreCapped ==
  \A l \in Logins \ Unlimited : \A end \in Nat : Cardinality(Counted(l, end)) <= Default

AdmissionInv == Stamped /\ IsFiniteSet(submissions) /\ WindowsAreCapped

Caps == Default \in Nat /\ Window \in Nat /\ MaxTime \in Nat

\* At first nothing is counted.
LEMMA AdmissionInvAtFirst ==
  ASSUME Caps, Init
  PROVE  AdmissionInv
<1>1. submissions = {} /\ now = 0
  BY DEF Init
<1>2. \A l \in Logins, end \in Nat : Counted(l, end) = {}
  BY <1>1 DEF Counted
<1> QED
  BY <1>1, <1>2, FS_EmptySet DEF AdmissionInv, Stamped, WindowsAreCapped, Caps

\* One more is counted in the windows that contain the present only, and when it
\* is admitted what is recent, that is all of these windows, is below the cap.
LEMMA AdmittedIsCapped ==
  ASSUME Caps, AdmissionInv, NEW d, NEW a \in Associations, ~Full(d, a),
         submissions' = submissions \union {[id |-> d, ts |-> now, tier |-> a]},
         UNCHANGED now
  PROVE  AdmissionInv'
<1> DEFINE new == [id |-> d, ts |-> now, tier |-> a]
<1> USE DEF AdmissionInv
<1>1. Stamped' /\ IsFiniteSet(submissions')
  <2>1. IsFiniteSet(submissions \union {new})
    BY FS_AddElement
  <2>2. new.ts = now
    OBVIOUS
  <2>3. \A s \in submissions' : s \in submissions \/ s = new
    OBVIOUS
  <2> QED
    BY <2>1, <2>2, <2>3 DEF Stamped
<1>2. SUFFICES ASSUME NEW l \in Logins \ Unlimited, NEW end \in Nat
               PROVE  Cardinality(Counted(l, end)') <= Default
  BY <1>1 DEF WindowsAreCapped
<1>3. IsFiniteSet(Counted(l, end)) /\ Cardinality(Counted(l, end)) \in Nat
  BY FS_Subset, FS_CardinalityType DEF Counted
<1>4. CASE By[d] = l /\ a = "NONE" /\ InWindow(new, end)
  <2>1. IsFiniteSet(Recent(l)) /\ Cardinality(Recent(l)) \in Nat
    BY FS_Subset, FS_CardinalityType DEF Recent
  <2>2. Cardinality(Recent(l)) < Default
    BY <1>4, <2>1 DEF Full, Capped, Cap, Caps
  <2>3. Counted(l, end) \subseteq Recent(l)
    BY <1>4 DEF Counted, Recent, InWindow, Stamped, Caps
  <2>4. Cardinality(Counted(l, end)) < Default
    BY <1>3, <2>1, <2>2, <2>3, FS_Subset DEF Caps
  <2>5. Counted(l, end)' \subseteq Counted(l, end) \union {new}
    <3>1. \A s \in submissions' : s \in submissions \/ s = new
      OBVIOUS
    <3> QED
      BY <3>1 DEF Counted, InWindow
  <2>6. /\ IsFiniteSet(Counted(l, end) \union {new})
        /\ Cardinality(Counted(l, end) \union {new}) <= Cardinality(Counted(l, end)) + 1
    <3>1. /\ IsFiniteSet(Counted(l, end) \union {new})
          /\ \/ Cardinality(Counted(l, end) \union {new}) = Cardinality(Counted(l, end))
             \/ Cardinality(Counted(l, end) \union {new}) = Cardinality(Counted(l, end)) + 1
      BY <1>3, FS_AddElement, Zenon
    <3> QED
      BY <1>3, <3>1
  <2>7. Cardinality(Counted(l, end)') \in Nat
    BY <2>5, <2>6, FS_Subset, FS_CardinalityType
  <2> QED
    BY <1>3, <2>4, <2>5, <2>6, <2>7, FS_Subset, FS_CardinalityType DEF Caps
<1>5. CASE ~(By[d] = l /\ a = "NONE" /\ InWindow(new, end))
  <2>1. Counted(l, end)' = Counted(l, end)
    BY <1>5 DEF Counted, InWindow
  <2> QED
    BY <2>1 DEF WindowsAreCapped
<1> QED
  BY <1>4, <1>5

\* Every step keeps the invariant: only an admission counts anything.
LEMMA AdmissionStep ==
  ASSUME Caps, AdmissionInv, [Next]_vars
  PROVE  AdmissionInv'
<1>1. ASSUME submissions' = submissions, now' \in {now, now + 1}
      PROVE  AdmissionInv'
  BY <1>1 DEF AdmissionInv, Stamped, WindowsAreCapped, Counted, InWindow
<1>2. ASSUME NEW d \in Deliveries, Admit(d)
      PROVE  AdmissionInv'
  <2>1. PICK a \in Associations :
          \/ submissions' = submissions
          \/ /\ ~Full(d, a)
             /\ submissions' = submissions \union {[id |-> d, ts |-> now, tier |-> a]}
    BY <1>2 DEF Admit
  <2> QED
    BY <1>1, <1>2, <2>1, AdmittedIsCapped DEF Admit
<1>3. CASE Tick \/ Queue \/ Crash \/ UNCHANGED vars
  BY <1>1, <1>3 DEF Tick, Queue, Crash, vars
<1> QED
  BY <1>2, <1>3 DEF Next

\* What is queued for a submitter by deliveries under the default cap is within it
\* in every window (admit_submission), for any caps, lengths and crashes.
THEOREM QueuedIsCapped ==
  ASSUME Caps
  PROVE  Spec => []QueuedWithinCap
<1>1. Init => AdmissionInv
  BY AdmissionInvAtFirst
<1>2. AdmissionInv /\ [Next]_vars => AdmissionInv'
  BY AdmissionStep
<1>3. ASSUME AdmissionInv
      PROVE  QueuedWithinCap
  <2> SUFFICES ASSUME NEW l \in Logins \ Unlimited, NEW end \in 0..MaxTime
               PROVE  Cardinality({s \in submissions :
                        /\ By[s.id] = l /\ s.tier = "NONE"
                        /\ InWindow(s, end) /\ events[s.id] = "queued"}) <= Default
    BY DEF QueuedWithinCap
  <2> DEFINE queued == {s \in submissions : /\ By[s.id] = l /\ s.tier = "NONE"
                                            /\ InWindow(s, end) /\ events[s.id] = "queued"}
  <2>1. queued \subseteq Counted(l, end) /\ end \in Nat
    BY DEF Counted, Caps
  <2>2. IsFiniteSet(Counted(l, end)) /\ Cardinality(Counted(l, end)) <= Default
    BY <1>3, <2>1, FS_Subset DEF AdmissionInv, WindowsAreCapped, Counted
  <2>3. Cardinality(queued) \in Nat /\ Cardinality(Counted(l, end)) \in Nat
    BY <2>1, <2>2, FS_Subset, FS_CardinalityType
  <2> QED
    BY <2>1, <2>2, <2>3, FS_Subset DEF Caps
<1> QED
  BY <1>1, <1>2, <1>3, PTL DEF Spec
=============================================================================
