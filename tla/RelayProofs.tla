---------------------------- MODULE RelayProofs ----------------------------
(***************************************************************************)
(* For any calls, numbers of attempts and tries, delays and losses: a      *)
(* write is repeated only for an answer that was not waited for.           *)
(***************************************************************************)
EXTENDS Relay, FiniteSetTheorems, TLAPS

\* What may still carry a write out: it is on its way to the proxy, GitHub is
\* asked, or GitHub was silent and may be asked once more.
OnItsWay(c) == {r \in requests : r.call = c}
AtWork(c) == {h \in handlers : h.call = c /\ h.github \in {"asked", "silent"}}
ToCome(c) == IF caller[c].at = "idle" THEN 1 ELSE 0

Shapes ==
  /\ DOMAIN caller = Calls /\ \A c \in Calls : {"at", "n"} \subseteq DOMAIN caller[c]
  /\ applied \in [Calls -> Nat] /\ unanswered \in [Calls -> Nat]
  /\ IsFiniteSet(requests) /\ IsFiniteSet(handlers)
  /\ \A h \in handlers : {"call", "n", "try", "github"} \subseteq DOMAIN h
  /\ \A r \in replies : r.outcome \in Outcomes

\* Every chance of a write to be carried out, taken or still open, is the first
\* one or follows an answer that was not waited for.
ChancesAreCovered ==
  \A c \in Calls \ Reads :
    applied[c] + Cardinality(OnItsWay(c)) + Cardinality(AtWork(c)) + ToCome(c)
      <= 1 + unanswered[c]

RelayInv == Shapes /\ ChancesAreCovered

\* The numbers are numbers.
Counted ==
  \A c \in Calls :
    /\ IsFiniteSet(OnItsWay(c)) /\ Cardinality(OnItsWay(c)) \in Nat
    /\ IsFiniteSet(AtWork(c)) /\ Cardinality(AtWork(c)) \in Nat
    /\ ToCome(c) \in {0, 1} /\ applied[c] \in Nat /\ unanswered[c] \in Nat

\* They are whenever the state has its shape.
LEMMA Counts == Shapes => Counted
<1> SUFFICES ASSUME Shapes, NEW c \in Calls
             PROVE  /\ IsFiniteSet(OnItsWay(c)) /\ Cardinality(OnItsWay(c)) \in Nat
                    /\ IsFiniteSet(AtWork(c)) /\ Cardinality(AtWork(c)) \in Nat
                    /\ ToCome(c) \in {0, 1} /\ applied[c] \in Nat /\ unanswered[c] \in Nat
  BY DEF Counted
<1>1. OnItsWay(c) \in SUBSET requests /\ AtWork(c) \in SUBSET handlers
  BY DEF OnItsWay, AtWork
<1>2. IsFiniteSet(OnItsWay(c)) /\ IsFiniteSet(AtWork(c))
  BY <1>1, FS_Subset, Zenon DEF Shapes
<1> QED
  BY <1>2, FS_CardinalityType DEF Shapes, ToCome

\* One element more is one more at most.
LEMMA OneMore ==
  ASSUME NEW S, NEW T, NEW x, IsFiniteSet(S), T \subseteq S \union {x}
  PROVE  IsFiniteSet(T) /\ Cardinality(T) <= Cardinality(S) + 1
<1>1. /\ IsFiniteSet(S \union {x})
      /\ Cardinality(S \union {x}) = IF x \in S THEN Cardinality(S) ELSE Cardinality(S) + 1
  BY FS_AddElement, Zenon
<1>2. IsFiniteSet(T) /\ Cardinality(T) <= Cardinality(S \union {x})
  <2>1. T \in SUBSET (S \union {x})
    OBVIOUS
  <2> QED
    BY <1>1, <2>1, FS_Subset, Zenon
<1>3. Cardinality(S) \in Nat /\ Cardinality(T) \in Nat
  BY <1>2, FS_CardinalityType
<1> QED
  BY <1>1, <1>2, <1>3

\* One element less is one less.
LEMMA OneLess ==
  ASSUME NEW S, NEW T, NEW x \in S, IsFiniteSet(S), T \subseteq S \ {x}
  PROVE  IsFiniteSet(T) /\ Cardinality(T) <= Cardinality(S) - 1
<1>1. /\ IsFiniteSet(S \ {x})
      /\ Cardinality(S \ {x}) = IF x \in S THEN Cardinality(S) - 1 ELSE Cardinality(S)
  BY FS_RemoveElement, Zenon
<1>2. IsFiniteSet(T) /\ Cardinality(T) <= Cardinality(S \ {x})
  <2>1. T \in SUBSET (S \ {x})
    OBVIOUS
  <2> QED
    BY <1>1, <2>1, FS_Subset, Zenon
<1> QED
  BY <1>1, <1>2

\* A part is no more than the whole.
LEMMA Fewer ==
  ASSUME NEW S, NEW T, IsFiniteSet(S), T \subseteq S
  PROVE  Cardinality(T) <= Cardinality(S)
<1>1. T \in SUBSET S
  OBVIOUS
<1> QED
  BY <1>1, FS_Subset, Zenon

\* At first every write is to come.
LEMMA RelayInvAtFirst ==
  ASSUME Init
  PROVE  RelayInv
<1>1. Shapes
  BY FS_EmptySet DEF Init, Shapes
<1>2. ASSUME NEW c \in Calls
      PROVE  OnItsWay(c) = {} /\ AtWork(c) = {} /\ applied[c] = 0 /\ unanswered[c] = 0
  BY DEF Init, OnItsWay, AtWork
<1> QED
  BY <1>1, <1>2, FS_EmptySet DEF RelayInv, ChancesAreCovered, ToCome

\* What a step may add to a write is an answer less, and what it adds to it takes
\* the place of something else.
LEMMA Covered ==
  ASSUME RelayInv, Shapes',
         \A c \in Calls \ Reads :
           applied'[c] + Cardinality(OnItsWay(c)') + Cardinality(AtWork(c)') + ToCome(c)'
               + unanswered[c]
             <= applied[c] + Cardinality(OnItsWay(c)) + Cardinality(AtWork(c)) + ToCome(c)
                  + unanswered'[c]
  PROVE  RelayInv'
<1> SUFFICES ASSUME NEW c \in Calls \ Reads
             PROVE  applied'[c] + Cardinality(OnItsWay(c)') + Cardinality(AtWork(c)')
                      + ToCome(c)' <= 1 + unanswered'[c]
  BY DEF RelayInv, ChancesAreCovered
<1>0. Counted /\ Counted'
  BY Counts, PTL DEF RelayInv
<1>1. /\ Cardinality(OnItsWay(c)) \in Nat /\ Cardinality(AtWork(c)) \in Nat
      /\ ToCome(c) \in Nat /\ applied[c] \in Nat /\ unanswered[c] \in Nat
  BY <1>0 DEF Counted
<1>2. /\ Cardinality(OnItsWay(c)') \in Nat /\ Cardinality(AtWork(c)') \in Nat
      /\ ToCome(c)' \in Nat /\ applied'[c] \in Nat /\ unanswered'[c] \in Nat
  BY <1>0 DEF Counted
<1>3. applied[c] + Cardinality(OnItsWay(c)) + Cardinality(AtWork(c)) + ToCome(c)
        <= 1 + unanswered[c]
  BY DEF RelayInv, ChancesAreCovered
<1> QED
  BY <1>1, <1>2, <1>3

\* One if it is so.
One(b) == IF b THEN 1 ELSE 0
Live(h) == h.github \in {"asked", "silent"}

\* A request is sent ...
LEMMA RequestMore ==
  ASSUME Shapes, Shapes', NEW r, requests' \subseteq requests \union {r}, NEW c \in Calls
  PROVE  Cardinality(OnItsWay(c)') <= Cardinality(OnItsWay(c)) + One(r.call = c)
<1>0. Counted /\ Counted'
  BY Counts, PTL
<1>1. CASE r.call = c
  <2>1. OnItsWay(c)' \subseteq OnItsWay(c) \union {r}
    BY DEF OnItsWay
  <2> QED
    BY <1>0, <1>1, <2>1, OneMore DEF Counted, One
<1>2. CASE r.call # c
  <2>1. OnItsWay(c)' \subseteq OnItsWay(c)
    BY <1>2 DEF OnItsWay
  <2>2. Cardinality(OnItsWay(c)') <= Cardinality(OnItsWay(c))
    BY <1>0, <2>1, Fewer, Zenon DEF Counted
  <2> QED
    BY <1>0, <1>2, <2>2 DEF One, Counted
<1> QED
  BY <1>1, <1>2

\* ... or arrives, or is lost.
LEMMA RequestLess ==
  ASSUME Shapes, Shapes', NEW r \in requests, requests' = requests \ {r}, NEW c \in Calls
  PROVE  Cardinality(OnItsWay(c)') <= Cardinality(OnItsWay(c)) - One(r.call = c)
<1>0. Counted /\ Counted'
  BY Counts, PTL
<1>1. CASE r.call = c
  <2>1. OnItsWay(c)' \subseteq OnItsWay(c) \ {r} /\ r \in OnItsWay(c)
    BY <1>1 DEF OnItsWay
  <2> QED
    BY <1>0, <1>1, <2>1, OneLess DEF Counted, One
<1>2. CASE r.call # c
  <2>1. OnItsWay(c)' \subseteq OnItsWay(c)
    BY <1>2 DEF OnItsWay
  <2>2. Cardinality(OnItsWay(c)') <= Cardinality(OnItsWay(c))
    BY <1>0, <2>1, Fewer, Zenon DEF Counted
  <2> QED
    BY <1>0, <1>2, <2>2 DEF One, Counted
<1> QED
  BY <1>1, <1>2

\* The proxy begins to work on an attempt ...
LEMMA HandlerMore ==
  ASSUME Shapes, Shapes', NEW k, handlers' \subseteq handlers \union {k}, NEW c \in Calls
  PROVE  Cardinality(AtWork(c)') <= Cardinality(AtWork(c)) + One(k.call = c /\ Live(k))
<1>0. Counted /\ Counted'
  BY Counts, PTL
<1>1. CASE k.call = c /\ Live(k)
  <2>1. AtWork(c)' \subseteq AtWork(c) \union {k}
    BY DEF AtWork
  <2> QED
    BY <1>0, <1>1, <2>1, OneMore DEF Counted, One
<1>2. CASE ~(k.call = c /\ Live(k))
  <2>1. AtWork(c)' \subseteq AtWork(c)
    BY <1>2 DEF AtWork, Live
  <2>2. Cardinality(AtWork(c)') <= Cardinality(AtWork(c))
    BY <1>0, <2>1, Fewer, Zenon DEF Counted
  <2> QED
    BY <1>0, <1>2, <2>2 DEF One, Counted
<1> QED
  BY <1>1, <1>2

\* ... and goes on with it, or is done with it: what was live is replaced.
LEMMA HandlerSwap ==
  ASSUME Shapes, Shapes', NEW h \in handlers, NEW k,
         handlers' \subseteq (handlers \ {h}) \union {k}, NEW c \in Calls
  PROVE  Cardinality(AtWork(c)')
           <= Cardinality(AtWork(c)) - One(h.call = c /\ Live(h)) + One(k.call = c /\ Live(k))
<1> DEFINE rest == AtWork(c) \ {h}
<1>0. Counted /\ Counted'
  BY Counts, PTL
<1>1. IsFiniteSet(rest) /\ Cardinality(rest) \in Nat
  BY <1>0, FS_RemoveElement, FS_CardinalityType, Zenon DEF Counted
<1>2. Cardinality(rest) <= Cardinality(AtWork(c)) - One(h.call = c /\ Live(h))
  <2>1. CASE h.call = c /\ Live(h)
    <3>1. h \in AtWork(c)
      BY <2>1 DEF AtWork, Live
    <3>2. Cardinality(rest) <= Cardinality(AtWork(c)) - 1
      BY <1>0, <3>1, OneLess DEF Counted
    <3> QED
      BY <2>1, <3>2 DEF One
  <2>2. CASE ~(h.call = c /\ Live(h))
    <3>1. Cardinality(rest) <= Cardinality(AtWork(c))
      BY <1>0, Fewer DEF Counted
    <3> QED
      BY <1>0, <1>1, <2>2, <3>1 DEF One, Counted
  <2> QED
    BY <2>1, <2>2
<1>3. Cardinality(AtWork(c)') <= Cardinality(rest) + One(k.call = c /\ Live(k))
  <2>1. CASE k.call = c /\ Live(k)
    <3>1. AtWork(c)' \subseteq rest \union {k}
      BY DEF AtWork
    <3>2. Cardinality(AtWork(c)') <= Cardinality(rest) + 1
      BY <1>1, <3>1, OneMore, Zenon
    <3> QED
      BY <2>1, <3>2 DEF One
  <2>2. CASE ~(k.call = c /\ Live(k))
    <3>1. AtWork(c)' \subseteq rest
      BY <2>2 DEF AtWork, Live
    <3>2. Cardinality(AtWork(c)') <= Cardinality(rest)
      BY <1>1, <3>1, Fewer, Zenon
    <3> QED
      BY <1>0, <1>1, <2>2, <3>2 DEF One, Counted
  <2> QED
    BY <2>1, <2>2
<1>4. One(h.call = c /\ Live(h)) \in Nat /\ One(k.call = c /\ Live(k)) \in Nat
  BY DEF One
<1>5. Cardinality(AtWork(c)) \in Nat /\ Cardinality(AtWork(c)') \in Nat
  BY <1>0 DEF Counted
<1> HIDE DEF rest
<1> QED
  BY <1>1, <1>2, <1>3, <1>4, <1>5

\* The calling side: a call begins, an attempt is given up, an answer arrives.
LEMMA CallerSteps ==
  ASSUME RelayInv,
         \/ Tick \/ \E c \in Calls : Call(c) \/ GiveUp(c)
         \/ \E r \in replies : Answered(r)
  PROVE  RelayInv'
<1>0. Shapes /\ Counted
  BY Counts DEF RelayInv
<1>1. CASE Tick
  BY <1>1 DEF Tick, RelayInv, Shapes, ChancesAreCovered, OnItsWay, AtWork, ToCome
<1>2. ASSUME NEW c \in Calls, Call(c)
      PROVE  RelayInv'
  <2> DEFINE new == [call |-> c, n |-> 1, signed |-> now]
  <2>1. /\ requests' = requests \union {new} /\ new.call = c
        /\ UNCHANGED <<handlers, replies, applied, unanswered>>
    BY <1>2 DEF Call, Sent
  <2>2. /\ caller[c].at = "idle" /\ caller'[c].at = "waiting"
        /\ \A e \in Calls : e # c => caller'[e] = caller[e]
    BY <1>0, <1>2 DEF Call, Shapes
  <2>3. IsFiniteSet(requests')
    BY <1>0, <2>1, FS_AddElement DEF Shapes
  <2>4. Shapes'
    BY <1>0, <1>2, <2>1, <2>3 DEF Call, Shapes
  <2>5. Counted'
    BY <2>4, Counts, PTL
  <2> HIDE DEF new
  <2>6. ASSUME NEW e \in Calls \ Reads
        PROVE  applied'[e] + Cardinality(OnItsWay(e)') + Cardinality(AtWork(e)') + ToCome(e)'
                   + unanswered[e]
                 <= applied[e] + Cardinality(OnItsWay(e)) + Cardinality(AtWork(e)) + ToCome(e)
                      + unanswered'[e]
    <3>1. Cardinality(OnItsWay(e)') <= Cardinality(OnItsWay(e)) + One(c = e)
      BY <1>0, <2>1, <2>4, RequestMore
    <3>2. AtWork(e)' = AtWork(e)
      BY <2>1 DEF AtWork
    <3>3. ToCome(e)' + One(c = e) <= ToCome(e)
      BY <2>2 DEF ToCome, One
    <3> QED
      BY <1>0, <2>1, <2>5, <3>1, <3>2, <3>3 DEF Counted, One
  <2> QED
    BY <2>4, <2>6, Covered
<1>3. ASSUME NEW c \in Calls, GiveUp(c)
      PROVE  RelayInv'
  <2> DEFINE new == [call |-> c, n |-> caller[c].n + 1, signed |-> now]
  <2>1. /\ requests' \subseteq requests \union {new} /\ new.call = c
        /\ UNCHANGED <<handlers, replies, applied>>
    BY <1>3 DEF GiveUp, Sent
  <2>2. /\ \A e \in Calls : caller'[e].at = "idle" => caller[e].at = "idle"
        /\ DOMAIN caller' = Calls
        /\ \A e \in Calls : {"at", "n"} \subseteq DOMAIN caller'[e]
    BY <1>0, <1>3 DEF GiveUp, Shapes
  <2>3. /\ unanswered'[c] = unanswered[c] + 1
        /\ \A e \in Calls : e # c => unanswered'[e] = unanswered[e]
        /\ unanswered' \in [Calls -> Nat]
    BY <1>0, <1>3 DEF GiveUp, Shapes
  <2>4. IsFiniteSet(requests')
    BY <1>0, <2>1, OneMore DEF Shapes
  <2>5. Shapes'
    BY <1>0, <2>1, <2>2, <2>3, <2>4 DEF Shapes
  <2>6. Counted'
    BY <2>5, Counts, PTL
  <2> HIDE DEF new
  <2>7. ASSUME NEW e \in Calls \ Reads
        PROVE  applied'[e] + Cardinality(OnItsWay(e)') + Cardinality(AtWork(e)') + ToCome(e)'
                   + unanswered[e]
                 <= applied[e] + Cardinality(OnItsWay(e)) + Cardinality(AtWork(e)) + ToCome(e)
                      + unanswered'[e]
    <3>1. Cardinality(OnItsWay(e)') <= Cardinality(OnItsWay(e)) + One(c = e)
      BY <1>0, <2>1, <2>5, RequestMore
    <3>2. AtWork(e)' = AtWork(e)
      BY <2>1 DEF AtWork
    <3>3. ToCome(e)' <= ToCome(e)
      BY <2>2 DEF ToCome
    <3>4. unanswered[e] + One(c = e) = unanswered'[e]
      BY <1>0, <2>3 DEF One, Counted
    <3> QED
      BY <1>0, <2>1, <2>6, <3>1, <3>2, <3>3, <3>4 DEF Counted, One
  <2> QED
    BY <2>5, <2>7, Covered
<1>4. ASSUME NEW r \in replies, Answered(r)
      PROVE  RelayInv'
  <2>1. UNCHANGED <<requests, handlers, applied, unanswered>> /\ replies' \subseteq replies
    BY <1>4 DEF Answered
  <2>2. /\ \A e \in Calls : caller'[e].at = "idle" => caller[e].at = "idle"
        /\ DOMAIN caller' = Calls
        /\ \A e \in Calls : {"at", "n"} \subseteq DOMAIN caller'[e]
    BY <1>0, <1>4 DEF Answered, Shapes, Outcomes
  <2>3. Shapes'
    BY <1>0, <2>1, <2>2 DEF Shapes
  <2>4. ASSUME NEW e \in Calls
        PROVE  OnItsWay(e)' = OnItsWay(e) /\ AtWork(e)' = AtWork(e) /\ ToCome(e)' <= ToCome(e)
    BY <2>1, <2>2 DEF OnItsWay, AtWork, ToCome
  <2>5. Counted'
    BY <2>3, Counts, PTL
  <2> QED
    BY <1>0, <2>1, <2>3, <2>4, <2>5, Covered DEF Counted
<1> QED
  BY <1>1, <1>2, <1>3, <1>4

\* A request arrives at the proxy, which refuses it or begins to work on it, or is
\* lost on the way.
LEMMA RequestSteps ==
  ASSUME RelayInv, NEW r \in requests, Accept(r) \/ Lost(r)
  PROVE  RelayInv'
<1> DEFINE new == [call |-> r.call, n |-> r.n, try |-> 1, github |-> "asked"]
<1>0. Shapes /\ Counted
  BY Counts DEF RelayInv
<1>1. /\ requests' = requests \ {r} /\ UNCHANGED <<caller, applied, unanswered>>
      /\ handlers' \subseteq handlers \union {new}
  BY DEF Accept, Lost
<1>2. new.call = r.call /\ {"call", "n", "try", "github"} \subseteq DOMAIN new
  OBVIOUS
<1>3. \A a \in replies' : a.outcome \in Outcomes
  BY <1>0 DEF Accept, Lost, Reply, Shapes, Outcomes
<1> HIDE DEF new
<1>4. Shapes'
  <2>1. IsFiniteSet(requests')
    BY <1>0, <1>1, FS_RemoveElement DEF Shapes
  <2>2. IsFiniteSet(handlers')
    BY <1>0, <1>1, OneMore DEF Shapes
  <2> QED
    BY <1>0, <1>1, <1>2, <1>3, <2>1, <2>2 DEF Shapes
<1>5. Counted'
  BY <1>4, Counts, PTL
<1>6. ASSUME NEW e \in Calls
      PROVE  /\ Cardinality(OnItsWay(e)') <= Cardinality(OnItsWay(e)) - One(r.call = e)
             /\ Cardinality(AtWork(e)') <= Cardinality(AtWork(e)) + One(r.call = e)
             /\ ToCome(e)' = ToCome(e)
  <2>1. Cardinality(OnItsWay(e)') <= Cardinality(OnItsWay(e)) - One(r.call = e)
    BY <1>0, <1>1, <1>4, RequestLess
  <2>2. Cardinality(AtWork(e)') <= Cardinality(AtWork(e)) + One(new.call = e /\ Live(new))
    BY <1>0, <1>1, <1>4, HandlerMore
  <2>3. One(new.call = e /\ Live(new)) <= One(r.call = e)
    BY <1>2 DEF One
  <2>4. /\ One(new.call = e /\ Live(new)) \in Nat /\ One(r.call = e) \in Nat
        /\ Cardinality(AtWork(e)') \in Nat /\ Cardinality(AtWork(e)) \in Nat
    BY <1>0, <1>5 DEF One, Counted
  <2>5. ToCome(e)' = ToCome(e)
    BY <1>1 DEF ToCome
  <2> QED
    BY <2>1, <2>2, <2>3, <2>4, <2>5
<1>7. \A e \in Calls : One(r.call = e) \in Nat
  BY DEF One
<1> QED
  BY <1>0, <1>1, <1>4, <1>5, <1>6, <1>7, Covered DEF Counted

\* GitHub does what it is asked for, or does not, and answers, or does not.
LEMMA GitHubSteps ==
  ASSUME RelayInv, NEW h \in handlers, GitHub(h)
  PROVE  RelayInv'
<1>0. Shapes /\ Counted
  BY Counts DEF RelayInv
<1>1. PICK answer \in GitHubAnswers, done \in {0, 1} :
        /\ handlers' = (handlers \ {h}) \union {[h EXCEPT !.github = answer]}
        /\ answer = "ok" => done = 1
        /\ answer = "4xx" => done = 0
        /\ applied' = [applied EXCEPT ![h.call] = @ + done]
        /\ unanswered' = [unanswered EXCEPT ![h.call] = IF answer = "silent" THEN @ + 1 ELSE @]
  BY DEF GitHub
<1>2. PICK k : k = [h EXCEPT !.github = answer]
  OBVIOUS
<1>3. /\ k.call = h.call /\ k.github = answer
      /\ {"call", "n", "try", "github"} \subseteq DOMAIN k
  BY <1>0, <1>2 DEF Shapes
<1>4. handlers' \subseteq (handlers \ {h}) \union {k} /\ h.github = "asked"
  BY <1>1, <1>2 DEF GitHub
<1>5. UNCHANGED <<caller, requests, replies>>
  BY DEF GitHub
<1>6. \A e \in Calls :
        /\ applied'[e] = applied[e] + (IF e = h.call THEN done ELSE 0)
        /\ unanswered'[e] = unanswered[e] + One(e = h.call /\ answer = "silent")
  BY <1>0, <1>1 DEF Shapes, One
<1>7. Shapes'
  <2>1. IsFiniteSet(handlers')
    BY <1>0, <1>4, FS_RemoveElement, OneMore DEF Shapes
  <2>2. applied' \in [Calls -> Nat] /\ unanswered' \in [Calls -> Nat]
    <3>1. /\ applied' = [e \in Calls |-> IF e = h.call THEN applied[e] + done ELSE applied[e]]
          /\ unanswered' = [e \in Calls |-> IF e = h.call /\ answer = "silent"
                                              THEN unanswered[e] + 1 ELSE unanswered[e]]
      BY <1>0, <1>1 DEF Shapes
    <3>2. \A n \in Nat : n + done \in Nat /\ n + 1 \in Nat
      OBVIOUS
    <3> QED
      BY <1>0, <3>1, <3>2 DEF Shapes
  <2> QED
    BY <1>0, <1>3, <1>4, <1>5, <2>1, <2>2 DEF Shapes
<1>8. Counted'
  BY <1>7, Counts, PTL
<1>9. ASSUME NEW e \in Calls
      PROVE  /\ Cardinality(AtWork(e)') + (IF e = h.call THEN done ELSE 0)
                  <= Cardinality(AtWork(e)) + One(e = h.call /\ answer = "silent")
             /\ OnItsWay(e)' = OnItsWay(e) /\ ToCome(e)' = ToCome(e)
  <2>1. Cardinality(AtWork(e)')
          <= Cardinality(AtWork(e)) - One(h.call = e /\ Live(h)) + One(k.call = e /\ Live(k))
    BY <1>0, <1>4, <1>7, HandlerSwap
  <2>2. One(h.call = e /\ Live(h)) = IF e = h.call THEN 1 ELSE 0
    BY <1>4 DEF One, Live
  <2>3. One(k.call = e /\ Live(k)) = One(e = h.call /\ answer = "silent")
    BY <1>1, <1>3 DEF One, Live, GitHubAnswers
  <2>4. /\ One(e = h.call /\ answer = "silent") \in Nat
        /\ Cardinality(AtWork(e)') \in Nat /\ Cardinality(AtWork(e)) \in Nat
    BY <1>0, <1>8 DEF One, Counted
  <2>5. (IF e = h.call THEN done ELSE 0) <= IF e = h.call THEN 1 ELSE 0
    OBVIOUS
  <2>6. OnItsWay(e)' = OnItsWay(e) /\ ToCome(e)' = ToCome(e)
    BY <1>5 DEF OnItsWay, ToCome
  <2> QED
    BY <2>1, <2>2, <2>3, <2>4, <2>5, <2>6
<1>10. \A e \in Calls :
         (IF e = h.call THEN done ELSE 0) \in Nat /\ One(e = h.call /\ answer = "silent") \in Nat
  BY DEF One
<1> QED
  BY <1>0, <1>6, <1>7, <1>8, <1>9, <1>10, Covered DEF Counted

\* The client in the proxy asks once more, which for a write follows silence only, or
\* the proxy answers.
LEMMA HandlerSteps ==
  ASSUME RelayInv, NEW h \in handlers, Retry(h) \/ Relayed(h)
  PROVE  RelayInv'
<1>0. Shapes /\ Counted
  BY Counts DEF RelayInv
<1>1. PICK k : k = IF Retry(h) THEN [h EXCEPT !.try = @ + 1, !.github = "asked"] ELSE h
  OBVIOUS
<1>2. k.call = h.call /\ {"call", "n", "try", "github"} \subseteq DOMAIN k
  BY <1>0, <1>1 DEF Shapes
<1>3. /\ UNCHANGED <<caller, requests, applied, unanswered>>
      /\ \A a \in replies' : a.outcome \in Outcomes
  BY <1>0 DEF Retry, Relayed, Reply, Shapes, Outcomes
<1>4. handlers' \subseteq (handlers \ {h}) \union {k}
  BY <1>1 DEF Retry, Relayed
<1>5. Shapes'
  <2>1. IsFiniteSet(handlers')
    BY <1>0, <1>4, FS_RemoveElement, OneMore DEF Shapes
  <2> QED
    BY <1>0, <1>2, <1>3, <1>4, <2>1 DEF Shapes
<1>6. Counted'
  BY <1>5, Counts, PTL
<1>7. ASSUME NEW e \in Calls \ Reads
      PROVE  /\ Cardinality(AtWork(e)') <= Cardinality(AtWork(e))
             /\ OnItsWay(e)' = OnItsWay(e) /\ ToCome(e)' = ToCome(e)
  <2>1. Cardinality(AtWork(e)')
          <= Cardinality(AtWork(e)) - One(h.call = e /\ Live(h)) + One(k.call = e /\ Live(k))
    BY <1>0, <1>4, <1>5, HandlerSwap
  <2>2. k.call = e /\ Live(k) => h.call = e /\ Live(h)
    BY <1>1, <1>2 DEF Retry, Relayed, Retryable, Transient5xx, Live
  <2>3. One(k.call = e /\ Live(k)) <= One(h.call = e /\ Live(h))
    BY <2>2 DEF One
  <2>4. /\ One(h.call = e /\ Live(h)) \in Nat /\ One(k.call = e /\ Live(k)) \in Nat
        /\ Cardinality(AtWork(e)') \in Nat /\ Cardinality(AtWork(e)) \in Nat
    BY <1>0, <1>6 DEF One, Counted
  <2>5. OnItsWay(e)' = OnItsWay(e) /\ ToCome(e)' = ToCome(e)
    BY <1>3 DEF OnItsWay, ToCome
  <2> QED
    BY <2>1, <2>3, <2>4, <2>5
<1> QED
  BY <1>0, <1>3, <1>5, <1>6, <1>7, Covered DEF Counted

\* The invariant is inductive.
LEMMA RelayInvNext == RelayInv /\ [Next]_vars => RelayInv'
<1> SUFFICES ASSUME RelayInv, [Next]_vars PROVE RelayInv'
  OBVIOUS
<1>1. CASE Next
  BY <1>1, CallerSteps, RequestSteps, GitHubSteps, HandlerSteps DEF Next
<1>2. CASE UNCHANGED vars
  BY <1>2 DEF vars, RelayInv, Shapes, ChancesAreCovered, OnItsWay, AtWork, ToCome
<1> QED
  BY <1>1, <1>2

\* What no answer was waited for is all that a write is repeated for, wherever
\* requests and answers are lost or late (RepeatedOnlyUnanswered).
THEOREM WritesAreNotRepeated == Spec => []RepeatedOnlyUnanswered
<1>1. RelayInv => RepeatedOnlyUnanswered
  <2> SUFFICES ASSUME RelayInv, NEW c \in Calls \ Reads
               PROVE  applied[c] <= 1 + unanswered[c]
    BY DEF RepeatedOnlyUnanswered
  <2>1. Counted
    BY Counts DEF RelayInv
  <2> QED
    BY <2>1 DEF Counted, RelayInv, ChancesAreCovered
<1>2. Init => RelayInv
  BY RelayInvAtFirst
<1> QED
  BY <1>1, <1>2, RelayInvNext, PTL DEF Spec
=============================================================================
