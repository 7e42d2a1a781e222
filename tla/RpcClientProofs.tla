-------------------------- MODULE RpcClientProofs ---------------------------
(***************************************************************************)
(* For any threads, calls, events, histories and faults of the agent: the  *)
(* types of the state and of the frames in the pipes; a reply is neither   *)
(* lost nor doubled, no wakeup is lost, and the process that the client    *)
(* forgets is dead; a turn is complete.  With no deadline that strikes, no *)
(* late error and no hook, a reply answers its request.  If one caller     *)
(* drives the agent and gives up on the first error, its turn ends with    *)
(* its own run, and the counts of runs agree.                              *)
(***************************************************************************)
EXTENDS RpcClient, FiniteSetTheorems, TLAPS

\* stop() has killed the process before it closes stdout and marks the end.
KilledFirst ==
  /\ \A s \in Stoppers : phase[s] \in {"closingStdout", "marking"} => ~alive
  /\ ForgottenProcessIsDead

\* _mark_closed is run by a stop or a reader that waits for it.
MarkersAtWork ==
  /\ \A s \in Stoppers :
       marking[s] \in {"check", "set", "fail", "notify"} => phase[s] \in {"marking", "hookMarking"}
  /\ marking[Reader] \in {"check", "set", "fail", "notify"} => reader = "closing"

EndInv ==
  /\ DOMAIN phase = Stoppers /\ DOMAIN marking = Markers
  /\ KilledFirst /\ MarkersAtWork

\* Everything that the end of the client is made of.
atTheEnd == <<phase, marking, reader, alive, process>>

\* What leaves that alone keeps the invariant.
LEMMA EndUntouched ==
  ASSUME EndInv, UNCHANGED atTheEnd
  PROVE  EndInv'
BY DEF EndInv, KilledFirst, ForgottenProcessIsDead, MarkersAtWork, atTheEnd

\* The reader: it starts its marking when it fails, and is done with it when it ends.
LEMMA ReaderEndStep ==
  ASSUME EndInv, ReaderStep
  PROVE  EndInv'
<1> USE DEF EndInv
<1>1. Reader \notin Stoppers /\ Reader \in Markers
  BY ConstantsAssumption DEF Markers
<1>2. UNCHANGED <<phase, alive, process>>
  BY DEF ReaderStep, MatchResponse, Put, Unmatched, ReadEvent, ReadBadEnd, Complete, ReadToolCall,
     ReaderFails, ReaderEnds, Take, agentVars, endVars
<1>3. \/ marking' = marking /\ (reader # "closing" \/ reader' = "closing" \/ marking[Reader] = "done")
      \/ marking' = [marking EXCEPT ![Reader] = "check"] /\ reader' = "closing"
  BY DEF ReaderStep, MatchResponse, Put, Unmatched, ReadEvent, ReadBadEnd, Complete, ReadToolCall,
     ReaderFails, ReaderEnds, Frames, StartMarking, endVars, readerVars
<1> QED
  BY <1>1, <1>2, <1>3 DEF KilledFirst, ForgottenProcessIsDead, MarkersAtWork, Markers

\* _mark_closed goes on.
LEMMA MarkEndStep ==
  ASSUME EndInv, NEW m \in Markers, MarkStep(m)
  PROVE  EndInv'
<1> USE DEF EndInv
<1>1. UNCHANGED <<phase, reader, alive, process>>
  BY DEF MarkStep, MarkCheck, MarkSet, MarkFail, MarkNotify, Marking, agentVars, readerVars
<1>2. /\ marking[m] \in {"check", "set", "fail", "notify"}
      /\ DOMAIN marking' = Markers /\ \A n \in Markers : n # m => marking'[n] = marking[n]
  BY DEF MarkStep, MarkCheck, MarkSet, MarkFail, MarkNotify, Marking
<1> QED
  BY <1>1, <1>2 DEF KilledFirst, ForgottenProcessIsDead, MarkersAtWork, Markers

\* stop() and the cancel hook go on.
LEMMA StopEndStep ==
  ASSUME EndInv, NEW s \in Stoppers, StopBegins(s) \/ StopContinues(s)
  PROVE  EndInv'
<1> USE DEF EndInv
<1>0. s # Reader /\ s \in Markers
  BY ConstantsAssumption DEF Markers
<1>1. reader' = reader /\ (~alive => ~alive')
  BY DEF StopBegins, StopContinues, StopIterates, StopClosesStdin, StopKills, StopClosesStdout,
     StopClears, HookMarks, Stopping, readerVars
<1>2. /\ DOMAIN phase' = Stoppers /\ DOMAIN marking' = Markers
      /\ \A t \in Stoppers : t # s => phase'[t] = phase[t]
      /\ \A m \in Markers : m # s => marking'[m] = marking[m]
  BY DEF StopBegins, StopContinues, StopIterates, StopClosesStdin, StopKills, StopClosesStdout,
     StopClears, HookMarks, Stopping, StartMarking
<1>3. /\ phase'[s] \in {"closingStdout", "marking"} => ~alive'
      /\ ~process' => ~alive'
  BY DEF StopBegins, StopContinues, StopIterates, StopClosesStdin, StopKills, StopClosesStdout,
     StopClears, HookMarks, Stopping, KilledFirst, ForgottenProcessIsDead
<1>4. marking'[s] \in {"check", "set", "fail", "notify"} => phase'[s] \in {"marking", "hookMarking"}
  BY <1>0 DEF StopBegins, StopContinues, StopIterates, StopClosesStdin, StopKills,
     StopClosesStdout, StopClears, HookMarks, Stopping, StartMarking, MarkersAtWork
<1>5. \A t \in Stoppers : t # s => marking'[t] = marking[t] /\ phase'[t] = phase[t]
  BY <1>2 DEF Markers
<1>6. marking'[Reader] = marking[Reader]
  BY <1>0, <1>2 DEF Markers
<1>7. MarkersAtWork'
  BY <1>1, <1>4, <1>5, <1>6 DEF MarkersAtWork
<1>8. KilledFirst'
  BY <1>1, <1>3, <1>5 DEF KilledFirst, ForgottenProcessIsDead
<1> QED
  BY <1>2, <1>7, <1>8

\* Every step keeps the invariant of the end.
LEMMA EndStep ==
  ASSUME EndInv, [Next]_vars
  PROVE  EndInv'
<1>1. CASE UNCHANGED vars \/ \E t \in ToolCalls : ToolEnds(t)
  <2>1. UNCHANGED atTheEnd
    BY <1>1 DEF ToolEnds, vars, agentVars, endVars, readerVars, atTheEnd
  <2> QED
    BY <2>1, EndUntouched
<1>2. ASSUME NEW c \in Callers, Caller(c)
      PROVE  EndInv'
  <2>1. UNCHANGED <<endVars, readerVars, alive>>
    BY <1>2 DEF Caller, Refused, Acquire, Send, ReadEventIndex, ReadErrorIndex, CheckAsyncErrors,
       Register, Write, GetReply, RequestTimesOut, MarkScheduled, Collect, WaitTimesOut,
       agentVars
  <2> QED
    BY <2>1, EndUntouched DEF endVars, readerVars, atTheEnd
<1>3. CASE AgentStep
  <2>1. UNCHANGED <<phase, marking, reader, process>> /\ (~alive => ~alive')
    BY <1>3 DEF AgentStep, AgentReads, AgentStarts, AgentEnds, AgentBreaks, AgentEmits,
       AgentCallsTool, Agent, readerVars
  <2> QED
    BY <2>1 DEF EndInv, KilledFirst, ForgottenProcessIsDead, MarkersAtWork
<1> QED
  BY <1>1, <1>2, <1>3, ReaderEndStep, MarkEndStep, StopEndStep DEF Next

-----------------------------------------------------------------------------
\* A caller that sleeps has looked at all there is.
WakeInv ==
  /\ DOMAIN at = Callers /\ DOMAIN start = Callers /\ DOMAIN errStart = Callers
  /\ NoLostWakeup

\* What a wait looks at, and who is about to end every wait.
history == <<closed, events, offset, errors, marking>>

\* A step of a caller: it alone moves, and it falls asleep on what it has seen.
LEMMA CallerWakeStep ==
  ASSUME WakeInv, NEW c \in Callers, Caller(c)
  PROVE  WakeInv'
<1> USE DEF WakeInv
<1>1. UNCHANGED history
  BY DEF Caller, Refused, Acquire, Send, ReadEventIndex, ReadErrorIndex, CheckAsyncErrors,
     Register, Write, GetReply, RequestTimesOut, MarkScheduled, Collect, WaitTimesOut,
     runVars, endVars, history
<1>2. /\ DOMAIN at' = Callers /\ DOMAIN start' = Callers /\ DOMAIN errStart' = Callers
      /\ \A d \in Callers : d # c =>
           at'[d] = at[d] /\ start'[d] = start[d] /\ errStart'[d] = errStart[d]
  BY DEF Caller, Refused, Acquire, Send, ReadEventIndex, ReadErrorIndex, CheckAsyncErrors,
     Register, Write, GetReply, RequestTimesOut, MarkScheduled, Collect, WaitTimesOut,
     MayCall, GoTo, Return
<1>3. at'[c] = "waiting" =>
        /\ start'[c] = start[c] /\ errStart'[c] = errStart[c]
        /\ at[c] = "waiting" \/ Outcome(c) = "none"
  BY DEF Caller, Refused, Acquire, Send, ReadEventIndex, ReadErrorIndex, CheckAsyncErrors,
     Register, Write, GetReply, RequestTimesOut, MarkScheduled, Collect, WaitTimesOut,
     MayCall, GoTo, Return
<1>4. ASSUME NEW d \in Callers, start'[d] = start[d], errStart'[d] = errStart[d]
      PROVE  Outcome(d)' = Outcome(d)
  BY <1>1, <1>4 DEF Outcome, HasEnded, SnapshotFrom, history
<1>5. NoLostWakeup'
  BY <1>1, <1>2, <1>3, <1>4 DEF NoLostWakeup, history
<1> QED
  BY <1>2, <1>5

\* A step that wakes everybody, or one that leaves callers and history alone and
\* calls off no marking.
LEMMA OtherWakeStep ==
  ASSUME WakeInv, UNCHANGED <<start, errStart>>,
         \/ NotifyAll
         \/ /\ UNCHANGED <<at, closed, events, offset, errors>>
            /\ \A m \in Markers :
                 marking[m] \in {"fail", "notify"} => marking'[m] \in {"fail", "notify"}
         \/ UNCHANGED at /\ \E m \in Markers : marking'[m] = "fail"
  PROVE  WakeInv'
<1> USE DEF WakeInv
<1>1. DOMAIN at' = Callers /\ DOMAIN start' = Callers /\ DOMAIN errStart' = Callers
  BY DEF NotifyAll
<1>2. CASE NotifyAll
  BY <1>1, <1>2 DEF NotifyAll, NoLostWakeup
<1>3. CASE /\ UNCHANGED <<at, closed, events, offset, errors>>
           /\ \A m \in Markers :
                marking[m] \in {"fail", "notify"} => marking'[m] \in {"fail", "notify"}
  <2>1. \A c \in Callers : Outcome(c)' = Outcome(c)
    BY <1>3 DEF Outcome, HasEnded, SnapshotFrom
  <2> QED
    BY <1>1, <1>3, <2>1 DEF NoLostWakeup
<1>4. CASE UNCHANGED at /\ \E m \in Markers : marking'[m] = "fail"
  BY <1>1, <1>4 DEF NoLostWakeup
<1> QED
  BY <1>2, <1>3, <1>4

\* The reader wakes everybody when it adds to the history.
LEMMA ReaderWakeStep ==
  ASSUME EndInv, WakeInv, ReaderStep
  PROVE  WakeInv'
<1>1. UNCHANGED <<start, errStart, closed>>
  BY DEF ReaderStep, MatchResponse, Put, Unmatched, ReadEvent, ReadBadEnd, Complete, ReadToolCall,
     ReaderFails, ReaderEnds, callVars, endVars
<1>2. NotifyAll \/ UNCHANGED <<at, events, offset, errors>>
  BY DEF ReaderStep, MatchResponse, Put, Unmatched, ReadEvent, ReadBadEnd, Complete, ReadToolCall,
     ReaderFails, ReaderEnds, runVars
<1>3. \/ marking' = marking
      \/ reader = "reading" /\ marking' = [marking EXCEPT ![Reader] = "check"]
  BY DEF ReaderStep, MatchResponse, Put, Unmatched, ReadEvent, ReadBadEnd, Complete, ReadToolCall,
     ReaderFails, ReaderEnds, Frames, StartMarking, endVars
<1>4. \A m \in Markers :
        marking[m] \in {"fail", "notify"} => marking'[m] \in {"fail", "notify"}
  BY <1>3 DEF EndInv, MarkersAtWork
<1> QED
  BY <1>1, <1>2, <1>4, OtherWakeStep

\* _mark_closed sets the error before it wakes everybody.
LEMMA MarkWakeStep ==
  ASSUME EndInv, WakeInv, NEW m \in Markers, MarkStep(m)
  PROVE  WakeInv'
<1>1. UNCHANGED <<start, errStart, events, offset, errors>>
  BY DEF MarkStep, MarkCheck, MarkSet, MarkFail, MarkNotify, Marking, callVars, runVars
<1>2. CASE MarkCheck(m)
  <2>1. \A n \in Markers :
          marking[n] \in {"fail", "notify"} => marking'[n] \in {"fail", "notify"}
    BY <1>2 DEF MarkCheck, Marking, EndInv
  <2> QED
    BY <1>1, <1>2, <2>1, OtherWakeStep DEF MarkCheck
<1>3. CASE MarkSet(m)
  BY <1>1, <1>3, OtherWakeStep DEF MarkSet, Marking, EndInv
<1>4. CASE MarkFail(m)
  <2>1. \A n \in Markers :
          marking[n] \in {"fail", "notify"} => marking'[n] \in {"fail", "notify"}
    BY <1>4 DEF MarkFail, Marking, EndInv
  <2> QED
    BY <1>1, <1>4, <2>1, OtherWakeStep DEF MarkFail
<1>5. CASE MarkNotify(m)
  BY <1>1, <1>5, OtherWakeStep DEF MarkNotify
<1> QED
  BY <1>2, <1>3, <1>4, <1>5 DEF MarkStep

\* stop() starts a marking only where none is at work.
LEMMA StopWakeStep ==
  ASSUME EndInv, WakeInv, NEW s \in Stoppers, StopBegins(s) \/ StopContinues(s)
  PROVE  WakeInv'
<1>1. UNCHANGED <<start, errStart, at, closed, events, offset, errors>>
  BY DEF StopBegins, StopContinues, StopIterates, StopClosesStdin, StopKills, StopClosesStdout,
     StopClears, HookMarks, Stopping, callVars, runVars
<1>2. \/ marking' = marking
      \/ /\ phase[s] \in {"closingStdout", "done", "raised"}
         /\ marking' = [marking EXCEPT ![s] = "check"]
  BY DEF StopBegins, StopContinues, StopIterates, StopClosesStdin, StopKills, StopClosesStdout,
     StopClears, HookMarks, Stopping, StartMarking
<1>3. \A m \in Markers :
        marking[m] \in {"fail", "notify"} => marking'[m] \in {"fail", "notify"}
  BY <1>2 DEF EndInv, MarkersAtWork
<1> QED
  BY <1>1, <1>3, OtherWakeStep

\* Every step keeps what sleepers have seen true.
LEMMA WakeStep ==
  ASSUME EndInv, WakeInv, [Next]_vars
  PROVE  WakeInv'
<1>1. CASE UNCHANGED vars \/ AgentStep \/ \E t \in ToolCalls : ToolEnds(t)
  <2>1. UNCHANGED <<start, errStart, at, history>>
    BY <1>1 DEF AgentStep, AgentReads, AgentStarts, AgentEnds, AgentBreaks, AgentEmits,
       AgentCallsTool, Agent, ToolEnds, vars, runVars, endVars, callVars, history
  <2> QED
    BY <2>1, OtherWakeStep DEF history
<1>2. CASE \E c \in Callers : Caller(c)
  BY <1>2, CallerWakeStep
<1> QED
  BY <1>1, <1>2, ReaderWakeStep, MarkWakeStep, StopWakeStep DEF Next

\* So both always hold.
LEMMA EndAndWakeInvariant == Spec => [](EndInv /\ WakeInv)
<1>1. Init => EndInv /\ WakeInv
  BY DEF Init, EndInv, KilledFirst, ForgottenProcessIsDead, MarkersAtWork, Markers, WakeInv,
     NoLostWakeup
<1>2. EndInv /\ WakeInv /\ [Next]_vars => (EndInv /\ WakeInv)'
  BY EndStep, WakeStep
<1> QED
  BY <1>1, <1>2, PTL DEF Spec

\* stop() forgets the process only when it is dead, whoever stops the client.
THEOREM RpcForgottenProcessIsDead == Spec => []ForgottenProcessIsDead
<1>1. EndInv => ForgottenProcessIsDead
  BY DEF EndInv, KilledFirst
<1> QED
  BY <1>1, EndAndWakeInvariant, PTL

\* No wakeup of _wait_for_agent_end is lost.
THEOREM RpcNoLostWakeup == Spec => []NoLostWakeup
<1>1. WakeInv => NoLostWakeup
  BY DEF WakeInv
<1> QED
  BY <1>1, EndAndWakeInvariant, PTL

-----------------------------------------------------------------------------
\* The callers that have begun a call and not registered its request.
Unsent ==
  {c \in Callers : at[c] = "sending" \/ (at[c] \in {"busy", "indexed"} /\ op[c] = "prompt_and_wait")}

\* Each call makes one request at most, so there is an id for it.
IdsSuffice ==
  /\ requestId \in Nat /\ calls \in Nat /\ calls <= MaxCalls
  /\ IsFiniteSet(Unsent) /\ requestId + Cardinality(Unsent) <= calls

InFlight == {c \in Callers : at[c] \in {"writing", "awaiting"}}

\* A request is its caller's own.
OwnRequests ==
  /\ \A c \in Callers : rid[c] \in 0..requestId
  /\ \A c \in InFlight : rid[c] # 0
  /\ \A c, d \in InFlight : c # d => rid[c] # rid[d]

\* What is pending is not answered, and nothing is answered twice.
AnsweredOnce ==
  /\ pending \subseteq 1..requestId
  /\ \A r \in Requests : box[r] = <<>> \/ \E f : box[r] = <<f>>
  /\ \A r \in Requests : r \in pending \/ r > requestId => box[r] = <<>>
  /\ reader = "putting" =>
       target \in Requests \ pending /\ target <= requestId /\ box[target] = <<>>

\* A reply is on its way from the moment the request is registered.
Reachable ==
  \A c \in InFlight :
    rid[c] \in pending \/ box[rid[c]] # <<>> \/ (reader = "putting" /\ target = rid[c])

ReplyInv ==
  /\ DOMAIN at = Callers /\ DOMAIN op = Callers /\ DOMAIN rid = Callers /\ DOMAIN box = Requests
  /\ IdsSuffice /\ OwnRequests /\ AnsweredOnce /\ Reachable

\* What a step of somebody else does not move.
unmoved == <<op, rid, calls, requestId>>

\* Ids stay sufficient when at most the callers that have not sent leave.
LEMMA FewerUnsent ==
  ASSUME IdsSuffice, Unsent' \subseteq Unsent, UNCHANGED <<calls, requestId>>
  PROVE  IdsSuffice'
<1>1. IsFiniteSet(Unsent') /\ Cardinality(Unsent') <= Cardinality(Unsent)
  BY FS_Subset DEF IdsSuffice
<1>2. Cardinality(Unsent) \in Nat /\ Cardinality(Unsent') \in Nat
  BY <1>1, FS_CardinalityType DEF IdsSuffice
<1> QED
  BY <1>1, <1>2 DEF IdsSuffice

\* A call begins: one more that has not sent, and one more call.
LEMMA OneMoreUnsent ==
  ASSUME IdsSuffice, NEW c, Unsent' \subseteq Unsent \union {c},
         calls < MaxCalls, calls' = calls + 1, requestId' = requestId
  PROVE  IdsSuffice'
<1>1. /\ IsFiniteSet(Unsent \union {c})
      /\ \/ Cardinality(Unsent \union {c}) = Cardinality(Unsent)
         \/ Cardinality(Unsent \union {c}) = Cardinality(Unsent) + 1
  BY FS_AddElement, Zenon DEF IdsSuffice
<1>2. /\ IsFiniteSet(Unsent')
      /\ Cardinality(Unsent') <= Cardinality(Unsent \union {c})
  BY <1>1, FS_Subset
<1>3. Cardinality(Unsent) \in Nat /\ Cardinality(Unsent') \in Nat
  BY <1>2, FS_CardinalityType DEF IdsSuffice
<1> QED
  BY <1>1, <1>2, <1>3, ConstantsAssumption DEF IdsSuffice

\* A request is registered: one less that has not sent, and one more id.
LEMMA OneLessUnsent ==
  ASSUME IdsSuffice, NEW c \in Unsent, Unsent' = Unsent \ {c},
         calls' = calls, requestId' = requestId + 1
  PROVE  IdsSuffice' /\ requestId' \in Requests
<1>1. IsFiniteSet(Unsent') /\ Cardinality(Unsent') = Cardinality(Unsent) - 1
  BY FS_RemoveElement, Zenon DEF IdsSuffice
<1>2. Cardinality(Unsent) \in Nat /\ Cardinality(Unsent') \in Nat
  BY <1>1, FS_CardinalityType DEF IdsSuffice
<1> QED
  BY <1>1, <1>2, ConstantsAssumption DEF IdsSuffice, Requests

\* A step that leaves requests, boxes and the reader alone, where callers begin
\* nothing new, keeps the invariant.
LEMMA RepliesUntouched ==
  ASSUME ReplyInv, UNCHANGED <<pending, box, reader, target, rid, requestId>>,
         DOMAIN at' = Callers, DOMAIN op' = Callers, InFlight' \subseteq InFlight, IdsSuffice'
  PROVE  ReplyInv'
BY DEF ReplyInv, OwnRequests, AnsweredOnce, Reachable

\* Calls begin, and go on before and after their request.
LEMMA CallReplyStep ==
  ASSUME ReplyInv, NEW c \in Callers,
         \/ \E o \in Operations : Refused(c, o) \/ Acquire(c, o) \/ Send(c, o)
         \/ ReadEventIndex(c) \/ ReadErrorIndex(c) \/ CheckAsyncErrors(c)
         \/ MarkScheduled(c) \/ Collect(c) \/ WaitTimesOut(c)
  PROVE  ReplyInv'
<1> USE DEF ReplyInv
<1>1. UNCHANGED <<pending, box, reader, target, rid, requestId>>
  BY DEF Refused, Acquire, Send, ReadEventIndex, ReadErrorIndex, CheckAsyncErrors,
     MarkScheduled, Collect, WaitTimesOut, replyVars, readerVars
<1>2. /\ DOMAIN at' = Callers /\ DOMAIN op' = Callers
      /\ \A d \in Callers : d # c => at'[d] = at[d] /\ op'[d] = op[d]
      /\ at'[c] = at[c] \/ at'[c] \notin {"writing", "awaiting"}
  BY DEF Refused, Acquire, Send, ReadEventIndex, ReadErrorIndex, CheckAsyncErrors,
     MarkScheduled, Collect, WaitTimesOut, MayCall, GoTo, Return
<1>3. InFlight' \subseteq InFlight
  BY <1>2 DEF InFlight
<1>4. CASE \E o \in Operations : Refused(c, o) \/ Acquire(c, o) \/ Send(c, o)
  <2>1. calls < MaxCalls /\ calls' = calls + 1
    BY <1>4 DEF Refused, Acquire, Send, MayCall
  <2>2. Unsent' \subseteq Unsent \union {c}
    BY <1>2 DEF Unsent
  <2> QED
    BY <1>1, <1>2, <1>3, <2>1, <2>2, OneMoreUnsent, RepliesUntouched
<1>5. CASE \/ ReadEventIndex(c) \/ ReadErrorIndex(c) \/ CheckAsyncErrors(c)
           \/ MarkScheduled(c) \/ Collect(c) \/ WaitTimesOut(c)
  <2>1. UNCHANGED <<op, calls>>
    BY <1>5 DEF ReadEventIndex, ReadErrorIndex, CheckAsyncErrors, MarkScheduled, Collect,
       WaitTimesOut
  <2>2. /\ at'[c] # "sending" \/ (at[c] = "indexed" /\ op[c] = "prompt_and_wait")
        /\ at'[c] \in {"busy", "indexed"} => at[c] \in {"busy", "indexed"}
    BY <1>5 DEF ReadEventIndex, ReadErrorIndex, CheckAsyncErrors, MarkScheduled, Collect,
       WaitTimesOut, GoTo, Return
  <2>3. Unsent' \subseteq Unsent
    BY <1>2, <2>1, <2>2 DEF Unsent
  <2> QED
    BY <1>1, <1>2, <1>3, <2>1, <2>3, FewerUnsent, RepliesUntouched
<1> QED
  BY <1>4, <1>5

\* A request is registered under an id of its own, or not at all.
LEMMA RegisterReplyStep ==
  ASSUME ReplyInv, NEW c \in Callers, Register(c)
  PROVE  ReplyInv'
<1> USE DEF ReplyInv
<1>1. /\ UNCHANGED <<box, reader, target, op, calls>>
      /\ DOMAIN at' = Callers /\ \A d \in Callers : d # c => at'[d] = at[d]
  BY DEF Register, GoTo, Return, replyVars, readerVars
<1>2. CASE UNCHANGED <<replyVars, rid>> /\ at'[c] \in {"gaveUp", "out"}
  <2>1. Unsent' \subseteq Unsent /\ InFlight' \subseteq InFlight
    BY <1>1, <1>2 DEF Unsent, InFlight
  <2> QED
    BY <1>1, <1>2, <2>1, FewerUnsent, RepliesUntouched DEF replyVars
<1>3. CASE /\ at[c] = "sending" /\ at'[c] = "writing" /\ requestId' = requestId + 1
           /\ pending' = pending \union {requestId'} /\ rid' = [rid EXCEPT ![c] = requestId']
  <2>1. c \in Unsent /\ Unsent' = Unsent \ {c}
    BY <1>1, <1>3 DEF Unsent
  <2>2. IdsSuffice' /\ requestId' \in Requests
    BY <1>1, <1>3, <2>1, OneLessUnsent
  <2>3. requestId \in Nat /\ requestId' \in Nat /\ requestId' > requestId
    BY <1>3 DEF IdsSuffice
  <2>4. InFlight' = InFlight \union {c} /\ c \notin InFlight
    BY <1>1, <1>3 DEF InFlight
  <2>5. /\ rid'[c] = requestId' /\ DOMAIN rid' = Callers
        /\ \A d \in Callers : d # c => rid'[d] = rid[d]
    BY <1>3
  <2>6. OwnRequests'
    BY <2>3, <2>4, <2>5 DEF OwnRequests, InFlight
  <2>7. AnsweredOnce'
    <3>1. pending' \subseteq 1..requestId'
      BY <1>3, <2>3 DEF AnsweredOnce
    <3>2. \A r \in Requests : r \in pending' \/ r > requestId' => box[r] = <<>>
      BY <1>3, <2>3 DEF AnsweredOnce, Requests
    <3>3. reader = "putting" => target # requestId' /\ target <= requestId'
      BY <2>3 DEF AnsweredOnce, Requests
    <3> QED
      BY <1>1, <1>3, <3>1, <3>2, <3>3 DEF AnsweredOnce
  <2>8. Reachable'
    BY <1>1, <1>3, <2>4, <2>5 DEF Reachable, InFlight
  <2> QED
    BY <1>1, <2>2, <2>5, <2>6, <2>7, <2>8
<1> QED
  BY <1>2, <1>3 DEF Register, Return, GoTo

\* The command is written; when that fails, the caller leaves with its request.
LEMMA WriteReplyStep ==
  ASSUME ReplyInv, NEW c \in Callers, Write(c) \/ RequestTimesOut(c)
  PROVE  ReplyInv'
<1> USE DEF ReplyInv
<1>1. /\ UNCHANGED <<box, reader, target, op, calls, rid, requestId>>
      /\ DOMAIN at' = Callers /\ \A d \in Callers : d # c => at'[d] = at[d]
      /\ c \in InFlight
  BY DEF Write, RequestTimesOut, GoTo, Return, readerVars, InFlight
<1>2. \/ at'[c] = "awaiting" /\ pending' = pending
      \/ at'[c] \in {"out", "gaveUp"} /\ pending' = pending \ {rid[c]}
  BY DEF Write, RequestTimesOut, GoTo, Return
<1>3. IdsSuffice'
  <2>1. Unsent' \subseteq Unsent
    BY <1>1, <1>2 DEF Unsent
  <2> QED
    BY <1>1, <2>1, FewerUnsent
<1>4. InFlight' \subseteq InFlight /\ (pending' = pending \/ c \notin InFlight')
  BY <1>1, <1>2 DEF InFlight
<1>5. OwnRequests' /\ AnsweredOnce'
  BY <1>1, <1>2, <1>4 DEF OwnRequests, AnsweredOnce
<1>6. Reachable'
  BY <1>1, <1>2, <1>4 DEF OwnRequests, Reachable
<1> QED
  BY <1>1, <1>3, <1>5, <1>6

\* A reply is taken out of its queue, which is empty again.
LEMMA GetReplyStep ==
  ASSUME ReplyInv, NEW c \in Callers, GetReply(c)
  PROVE  ReplyInv'
<1> USE DEF ReplyInv
<1>1. /\ UNCHANGED <<pending, reader, target, op, calls, rid, requestId>>
      /\ DOMAIN at' = Callers /\ \A d \in Callers : d # c => at'[d] = at[d]
      /\ c \in InFlight /\ at'[c] \in {"accepted", "out", "gaveUp"}
  BY DEF GetReply, GoTo, Return, readerVars, InFlight
<1>2. \A d \in InFlight : rid[d] \in Requests
  <2>1. Cardinality(Unsent) \in Nat
    BY FS_CardinalityType DEF IdsSuffice
  <2> QED
    BY <2>1, ConstantsAssumption DEF IdsSuffice, OwnRequests, Requests, InFlight
<1>3. DOMAIN box' = Requests /\ box'[rid[c]] = <<>>
      /\ \A r \in Requests : r # rid[c] => box'[r] = box[r]
  <2>1. PICK f : box[rid[c]] = <<f>>
    BY <1>1, <1>2 DEF GetReply, AnsweredOnce
  <2>2. Tail(<<f>>) = <<>>
    OBVIOUS
  <2> QED
    BY <1>1, <1>2, <2>1, <2>2 DEF GetReply
<1>4. IdsSuffice'
  <2>1. Unsent' \subseteq Unsent
    BY <1>1 DEF Unsent
  <2> QED
    BY <1>1, <2>1, FewerUnsent
<1>5. InFlight' = InFlight \ {c}
  BY <1>1 DEF InFlight
<1>6. OwnRequests'
  BY <1>1, <1>5 DEF OwnRequests
<1>7. AnsweredOnce'
  BY <1>1, <1>2, <1>3 DEF AnsweredOnce
<1>8. Reachable'
  <2>1. ASSUME NEW d \in InFlight'
        PROVE  rid[d] # rid[c] /\ box'[rid[d]] = box[rid[d]]
    BY <1>1, <1>2, <1>3, <1>5, <2>1 DEF OwnRequests
  <2> QED
    BY <1>1, <1>5, <2>1 DEF Reachable
<1> QED
  BY <1>1, <1>3, <1>4, <1>6, <1>7, <1>8

\* The reader carries a reply from the request that it took out of _pending to the
\* queue of that request.
LEMMA ReaderReplyStep ==
  ASSUME ReplyInv, ReaderStep
  PROVE  ReplyInv'
<1> USE DEF ReplyInv
<1>1. /\ UNCHANGED <<op, calls, rid, requestId>>
      /\ DOMAIN at' = Callers
      /\ \A c \in Callers : at'[c] = at[c] \/ (at[c] = "waiting" /\ at'[c] = "collecting")
  BY DEF ReaderStep, MatchResponse, Put, Unmatched, ReadEvent, ReadBadEnd, Complete, ReadToolCall,
     ReaderFails, ReaderEnds, NotifyAll, callVars, replyVars
<1>2. Unsent' \subseteq Unsent /\ InFlight' = InFlight
  BY <1>1 DEF Unsent, InFlight
<1>3. IdsSuffice' /\ OwnRequests'
  BY <1>1, <1>2, FewerUnsent DEF OwnRequests
<1>4. CASE \E r \in Requests : MatchResponse(r)
  <2>1. PICK r \in Requests : MatchResponse(r)
    BY <1>4
  <2>2. /\ r \in pending /\ pending' = pending \ {r} /\ target' = r /\ box' = box
        /\ reader = "reading"
    BY <2>1 DEF MatchResponse, Popped, Frames, Correlated
  <2>3. /\ AnsweredOnce /\ r <= requestId /\ box[r] = <<>>
        /\ r \in Requests /\ requestId' = requestId
    BY <1>1, <2>1, <2>2 DEF AnsweredOnce
  <2>4. AnsweredOnce'
    BY <2>2, <2>3 DEF AnsweredOnce
  <2>5. Reachable'
    BY <1>1, <1>2, <2>1, <2>2 DEF Reachable, MatchResponse
  <2> QED
    BY <1>1, <1>3, <2>2, <2>4, <2>5
<1>5. CASE Put
  <2>1. PICK f : box' = [box EXCEPT ![target] = <<f>>]
    BY <1>5 DEF Put
  <2>2. /\ pending' = pending /\ reader = "putting" /\ reader' = "reading"
        /\ target \in Requests \ pending /\ target <= requestId
    BY <1>5 DEF Put, AnsweredOnce
  <2>3. /\ DOMAIN box' = Requests /\ box'[target] = <<f>>
        /\ \A r \in Requests : r # target => box'[r] = box[r]
    BY <2>1, <2>2
  <2>4. requestId \in Nat
    BY DEF IdsSuffice
  <2>5. AnsweredOnce'
    BY <1>1, <2>2, <2>3, <2>4 DEF AnsweredOnce, Requests
  <2>6. <<f>> # <<>>
    OBVIOUS
  <2>7. \A r : r # target => box'[r] = box[r]
    BY <2>1
  <2>8. Reachable'
    BY <1>1, <1>2, <2>2, <2>3, <2>6, <2>7 DEF Reachable
  <2> QED
    BY <1>1, <1>3, <2>3, <2>5, <2>8
<1>6. CASE /\ UNCHANGED <<pending, box, target>>
           /\ reader # "putting" /\ reader' # "putting"
  BY <1>1, <1>2, <1>3, <1>6 DEF AnsweredOnce, Reachable
<1>7. CASE \/ Unmatched \/ ReadEvent \/ ReadBadEnd \/ Complete
           \/ \E t \in ToolCalls : ReadToolCall(t)
           \/ ReaderFails \/ ReaderEnds
  BY <1>6, <1>7 DEF Unmatched, ReadEvent, ReadBadEnd, Complete, ReadToolCall, ReaderFails,
     ReaderEnds, Frames, replyVars, readerVars
<1> QED
  BY <1>4, <1>5, <1>7 DEF ReaderStep

\* _fail_pending answers what is pending.
LEMMA MarkReplyStep ==
  ASSUME ReplyInv, NEW m \in Markers, MarkStep(m)
  PROVE  ReplyInv'
<1> USE DEF ReplyInv
<1>1. /\ UNCHANGED <<op, calls, rid, requestId, reader, target>>
      /\ DOMAIN at' = Callers
      /\ \A c \in Callers : at'[c] = at[c] \/ (at[c] = "waiting" /\ at'[c] = "collecting")
  BY DEF MarkStep, MarkCheck, MarkSet, MarkFail, MarkNotify, Marking, NotifyAll, callVars,
     readerVars
<1>2. Unsent' \subseteq Unsent /\ InFlight' = InFlight
  BY <1>1 DEF Unsent, InFlight
<1>3. IdsSuffice' /\ OwnRequests'
  BY <1>1, <1>2, FewerUnsent DEF OwnRequests
<1>4. CASE MarkFail(m)
  <2>1. pending' = {} /\ DOMAIN box' = Requests
    BY <1>4 DEF MarkFail
  <2>2. \A r \in Requests : box'[r] = IF r \in pending THEN <<Closed>> ELSE box[r]
    <3>1. Append(<<>>, Closed) = <<Closed>>
      OBVIOUS
    <3> QED
      BY <1>4, <3>1 DEF MarkFail, AnsweredOnce
  <2>3. \A c \in InFlight : rid[c] \in Requests
    <3>1. Cardinality(Unsent) \in Nat
      BY FS_CardinalityType DEF IdsSuffice
    <3> QED
      BY <3>1, ConstantsAssumption DEF IdsSuffice, OwnRequests, Requests, InFlight
  <2>4. requestId \in Nat
    BY DEF IdsSuffice
  <2>5. AnsweredOnce'
    BY <1>1, <2>1, <2>2, <2>4 DEF AnsweredOnce, Requests
  <2>6. <<Closed>> # <<>>
    OBVIOUS
  <2>7. Reachable'
    BY <1>1, <1>2, <2>1, <2>2, <2>3, <2>6 DEF Reachable
  <2> QED
    BY <1>1, <1>3, <2>1, <2>5, <2>7
<1>5. CASE UNCHANGED <<pending, box>>
  BY <1>1, <1>2, <1>3, <1>5 DEF AnsweredOnce, Reachable
<1> QED
  BY <1>4, <1>5 DEF MarkStep, MarkCheck, MarkSet, MarkNotify

\* Every step keeps replies single and on their way.
LEMMA ReplyStep ==
  ASSUME ReplyInv, [Next]_vars
  PROVE  ReplyInv'
<1>1. CASE \/ UNCHANGED vars \/ AgentStep \/ \E t \in ToolCalls : ToolEnds(t)
           \/ \E s \in Stoppers : StopBegins(s) \/ StopContinues(s)
  <2>1. UNCHANGED <<replyVars, readerVars, callVars, at>>
    BY <1>1 DEF AgentStep, AgentReads, AgentStarts, AgentEnds, AgentBreaks, AgentEmits,
       AgentCallsTool, Agent, ToolEnds, StopBegins, StopContinues, StopIterates,
       StopClosesStdin, StopKills, StopClosesStdout, StopClears, HookMarks, Stopping, vars
  <2>2. Unsent' = Unsent /\ InFlight' = InFlight
    BY <2>1 DEF Unsent, InFlight, callVars
  <2> QED
    BY <2>1, <2>2, FewerUnsent, RepliesUntouched DEF replyVars, readerVars, callVars, ReplyInv
<1>2. ASSUME NEW c \in Callers, Caller(c)
      PROVE  ReplyInv'
  BY <1>2, CallReplyStep, RegisterReplyStep, WriteReplyStep, GetReplyStep DEF Caller
<1> QED
  BY <1>1, <1>2, ReaderReplyStep, MarkReplyStep DEF Next

\* So they always are.
LEMMA ReplyInvariant == Spec => []ReplyInv
<1>1. ASSUME Init
      PROVE  ReplyInv
  <2>1. Unsent = {} /\ InFlight = {}
    BY <1>1 DEF Init, Unsent, InFlight
  <2>2. IdsSuffice
    BY <1>1, <2>1, FS_EmptySet, ConstantsAssumption DEF Init, IdsSuffice
  <2>3. OwnRequests /\ Reachable
    BY <1>1, <2>1 DEF Init, OwnRequests, Reachable, NoRequest
  <2>4. DOMAIN box = Requests /\ \A r \in Requests : box[r] = <<>>
    BY <1>1 DEF Init
  <2>5. AnsweredOnce
    BY <1>1, <2>4 DEF Init, AnsweredOnce
  <2> QED
    BY <1>1, <2>2, <2>3, <2>4, <2>5 DEF Init, ReplyInv
<1>2. ReplyInv /\ [Next]_vars => ReplyInv'
  BY ReplyStep
<1> QED
  BY <1>1, <1>2, PTL DEF Spec

\* A request is answered once, and the reader never finds its queue full.
THEOREM RpcOneReplyPerRequest == Spec => []OneReplyPerRequest
<1>1. ASSUME ReplyInv
      PROVE  OneReplyPerRequest
  <2>1. ASSUME NEW r \in Requests
        PROVE  Len(box[r]) <= 1
    <3>1. CASE box[r] = <<>>
      BY <3>1
    <3>2. ASSUME NEW f, box[r] = <<f>>
          PROVE  Len(box[r]) <= 1
      BY <3>2
    <3> QED
      BY <1>1, <3>1, <3>2 DEF ReplyInv, AnsweredOnce
  <2> QED
    BY <1>1, <2>1 DEF ReplyInv, AnsweredOnce, OneReplyPerRequest
<1> QED
  BY <1>1, ReplyInvariant, PTL

-----------------------------------------------------------------------------
\* A stop() that has not come to its end: it will mark the client closed, or has raised.
UnderWay(s) ==
  \/ phase[s] \in {"iterating", "closingStdin", "killing", "closingStdout", "raised"}
  \/ phase[s] \in {"marking", "hookMarking"} /\ marking[s] \in {"check", "set"}

\* Who marks the client closed has begun at "check", and has closed it by "fail".
MarksClose ==
  /\ \A m \in Markers : marking[m] \in MarkPoints
  /\ \A m \in Markers : marking[m] \in {"fail", "notify", "done"} => closed
  /\ \A s \in Stoppers : phase[s] \in {"marking", "hookMarking"} => marking[s] # "no"
  /\ reader \in ReaderPoints
  /\ reader = "closing" => marking[Reader] # "no"

\* The reader leaves an open client only to a stop().
LeftToStop ==
  ~closed =>
    /\ reader = "exited" => stopping
    /\ stopping => \E s \in Stoppers : UnderWay(s)

\* What the closing has found pending is failed.
RestIsFailed ==
  closed /\ pending \ latecomers # {} => \E m \in Markers : marking[m] = "fail"

AttendInv ==
  /\ MarksClose /\ LeftToStop /\ RestIsFailed
  /\ latecomers \subseteq 1..requestId

\* A step that leaves the end alone, and adds nothing pending that is not late.
LEMMA AttendUntouched ==
  ASSUME AttendInv, UNCHANGED <<closed, stopping, phase, marking, reader>>,
         pending' \ latecomers' \subseteq pending \ latecomers \/ ~closed,
         latecomers' \subseteq 1..requestId'
  PROVE  AttendInv'
BY DEF AttendInv, MarksClose, LeftToStop, RestIsFailed, UnderWay

\* A caller registers a request, as a late one if the client is closed, or takes one back.
LEMMA CallerAttendStep ==
  ASSUME ReplyInv, AttendInv, NEW c \in Callers, Caller(c)
  PROVE  AttendInv'
<1>1. UNCHANGED <<closed, stopping, phase, marking, reader>>
  BY DEF Caller, Refused, Acquire, Send, ReadEventIndex, ReadErrorIndex, CheckAsyncErrors,
     Register, Write, GetReply, RequestTimesOut, MarkScheduled, Collect, WaitTimesOut,
     endVars, readerVars
<1>2. requestId \in Nat
  BY DEF ReplyInv, IdsSuffice
<1>3. CASE Register(c)
  <2>1. CASE UNCHANGED replyVars
    BY <1>1, <2>1, AttendUntouched DEF AttendInv, replyVars
  <2>2. CASE /\ requestId' = requestId + 1 /\ pending' = pending \union {requestId'}
             /\ latecomers' = IF closed THEN latecomers \union {requestId'} ELSE latecomers
    <3>1. latecomers' \subseteq 1..requestId'
      BY <1>2, <2>2 DEF AttendInv
    <3>2. closed => pending' \ latecomers' \subseteq pending \ latecomers
      BY <2>2
    <3> QED
      BY <1>1, <3>1, <3>2, AttendUntouched
  <2> QED
    BY <1>3, <2>1, <2>2 DEF Register
<1>4. CASE ~Register(c)
  <2>1. pending' \subseteq pending /\ UNCHANGED <<latecomers, requestId>>
    BY <1>4 DEF Caller, Refused, Acquire, Send, ReadEventIndex, ReadErrorIndex,
       CheckAsyncErrors, Write, GetReply, RequestTimesOut, MarkScheduled, Collect,
       WaitTimesOut, replyVars
  <2>2. pending' \ latecomers' \subseteq pending \ latecomers
    BY <2>1
  <2>3. latecomers' \subseteq 1..requestId'
    BY <2>1 DEF AttendInv
  <2> QED
    BY <1>1, <2>2, <2>3, AttendUntouched
<1> QED
  BY <1>3, <1>4

\* The reader takes requests out, and leaves after its own marking or in a stop().
LEMMA ReaderAttendStep ==
  ASSUME EndInv, AttendInv, ReaderStep
  PROVE  AttendInv'
<1>1. /\ UNCHANGED <<closed, stopping, phase, latecomers, requestId>>
      /\ pending' \subseteq pending
  BY DEF ReaderStep, MatchResponse, Popped, Put, Unmatched, ReadEvent, ReadBadEnd, Complete,
     ReadToolCall, ReaderFails, ReaderEnds, replyVars, endVars
<1>2. latecomers' \subseteq 1..requestId' /\ pending' \ latecomers' \subseteq pending \ latecomers
  BY <1>1 DEF AttendInv
<1>3. Reader \in Markers /\ Reader \notin Stoppers
  BY ConstantsAssumption DEF Markers
<1>4. CASE ReaderFails
  <2>1. /\ reader \in {"reading"} /\ reader' = "closing"
        /\ marking' = [marking EXCEPT ![Reader] = "check"]
    BY <1>4 DEF ReaderFails, Frames, StartMarking
  <2>2. marking'[Reader] = "check" /\ \A m : m # Reader => marking'[m] = marking[m]
    BY <1>3, <2>1 DEF EndInv
  <2>3. marking[Reader] # "fail"
    BY <2>1 DEF EndInv, MarkersAtWork
  <2>4. \A s \in Stoppers : s # Reader
    BY <1>3
  <2>5. MarksClose'
    BY <1>1, <2>1, <2>2, <2>4 DEF AttendInv, MarksClose, MarkPoints, ReaderPoints
  <2>6. LeftToStop'
    BY <1>1, <2>1, <2>2, <2>4 DEF AttendInv, LeftToStop, UnderWay
  <2>7. RestIsFailed'
    BY <1>1, <1>2, <2>2, <2>3 DEF AttendInv, RestIsFailed
  <2> QED
    BY <1>2, <2>5, <2>6, <2>7 DEF AttendInv
<1>5. CASE ReaderEnds
  <2>1. marking' = marking /\ reader' = "exited" /\ (closed \/ stopping)
    BY <1>3, <1>5 DEF ReaderEnds, endVars, AttendInv, MarksClose
  <2> QED
    BY <1>1, <1>2, <2>1 DEF AttendInv, MarksClose, LeftToStop, UnderWay, RestIsFailed, ReaderPoints
<1>6. CASE ~ReaderFails /\ ~ReaderEnds
  <2>1. marking' = marking /\ reader' \in {"reading", "putting", "completing"}
    BY <1>6 DEF ReaderStep, MatchResponse, Put, Unmatched, ReadEvent, ReadBadEnd, Complete,
       ReadToolCall, endVars, readerVars, Frames
  <2> QED
    BY <1>1, <1>2, <2>1 DEF AttendInv, MarksClose, LeftToStop, UnderWay, RestIsFailed, ReaderPoints
<1> QED
  BY <1>4, <1>5, <1>6

\* _mark_closed closes the client before it fails what it finds.
LEMMA MarkAttendStep ==
  ASSUME EndInv, AttendInv, NEW m \in Markers, MarkStep(m)
  PROVE  AttendInv'
<1>1. /\ UNCHANGED <<stopping, phase, reader, latecomers, requestId>>
      /\ \A n \in Markers : n # m => marking'[n] = marking[n]
      /\ Stoppers \subseteq Markers /\ Reader \in Markers
  BY DEF MarkStep, MarkCheck, MarkSet, MarkFail, MarkNotify, Marking, readerVars, EndInv, Markers
<1>2. latecomers' \subseteq 1..requestId'
  BY <1>1 DEF AttendInv
<1>3. \/ /\ marking[m] = "check" /\ UNCHANGED <<closed, pending>>
         /\ marking'[m] = IF closed THEN "done" ELSE "set"
      \/ marking[m] = "set" /\ marking'[m] = "fail" /\ closed' /\ pending' = pending
      \/ marking[m] = "fail" /\ marking'[m] = "notify" /\ pending' = {} /\ closed' = closed
      \/ marking[m] = "notify" /\ marking'[m] = "done" /\ UNCHANGED <<closed, pending>>
  BY DEF MarkStep, MarkCheck, MarkSet, MarkFail, MarkNotify, Marking, EndInv
<1>4. MarksClose'
  <2>1. closed => closed'
    BY <1>3
  <2>2. marking'[m] \in MarkPoints \ {"no"} /\ (marking'[m] \in {"fail", "notify", "done"} => closed')
    BY <1>3 DEF AttendInv, MarksClose, MarkPoints
  <2> QED
    BY <1>1, <2>1, <2>2 DEF AttendInv, MarksClose
<1>5. LeftToStop'
  <2>1. ASSUME ~closed'
        PROVE  ~closed /\ marking[m] = "check" /\ marking'[m] = "set"
    BY <1>3, <2>1 DEF AttendInv, MarksClose
  <2>2. ASSUME ~closed', NEW s \in Stoppers, UnderWay(s)
        PROVE  UnderWay(s)'
    BY <1>1, <2>1, <2>2 DEF UnderWay
  <2> QED
    BY <1>1, <2>1, <2>2 DEF AttendInv, LeftToStop
<1>6. RestIsFailed'
  BY <1>1, <1>3 DEF AttendInv, MarksClose, RestIsFailed
<1> QED
  BY <1>2, <1>4, <1>5, <1>6 DEF AttendInv

\* stop() and the hook stay on the way to their marking.
LEMMA StopAttendStep ==
  ASSUME EndInv, AttendInv, NEW s \in Stoppers, StopBegins(s) \/ StopContinues(s)
  PROVE  AttendInv'
<1>1. /\ UNCHANGED <<closed, reader, pending, latecomers, requestId>>
      /\ \A t \in Stoppers : t # s => phase'[t] = phase[t]
      /\ \A t \in Markers : t # s => marking'[t] = marking[t]
  BY DEF StopBegins, StopContinues, StopIterates, StopClosesStdin, StopKills, StopClosesStdout,
     StopClears, HookMarks, Stopping, StartMarking, replyVars, readerVars, EndInv
<1>2. s \in Markers /\ s # Reader /\ Stoppers \subseteq Markers /\ Reader \in Markers
  BY ConstantsAssumption DEF Markers
<1>3. /\ marking'[s] = marking[s] \/ (marking[s] # "fail" /\ marking'[s] = "check")
      /\ phase'[s] \in {"marking", "hookMarking"} => marking'[s] = "check"
  BY <1>2 DEF StopBegins, StopContinues, StopIterates, StopClosesStdin, StopKills,
     StopClosesStdout, StopClears, HookMarks, Stopping, StartMarking, EndInv, MarkersAtWork
<1>4. MarksClose'
  BY <1>1, <1>2, <1>3 DEF AttendInv, MarksClose, MarkPoints
<1>5. \/ (stopping' <=> stopping) /\ ~UnderWay(s)
      \/ UnderWay(s)'
      \/ closed
  <2>1. CASE StopBegins(s)
    <3>1. /\ phase'[s] = IF process THEN "iterating" ELSE "done"
          /\ phase[s] = "none" /\ stopping' = (stopping \/ process)
      BY <2>1 DEF StopBegins, Stopping, EndInv
    <3>2. CASE process
      BY <3>1, <3>2 DEF UnderWay
    <3>3. CASE ~process
      BY <3>1, <3>3 DEF UnderWay
    <3> QED
      BY <3>2, <3>3
  <2>2. CASE StopContinues(s)
    <3>1. marking[s] = "done" => closed
      BY <1>2 DEF AttendInv, MarksClose
    <3>2. CASE StopClears(s)
      BY <3>1, <3>2 DEF StopClears
    <3>3. CASE HookMarks(s)
      BY <1>2, <3>1, <3>3 DEF HookMarks, Stopping, StartMarking, UnderWay, EndInv
    <3>4. CASE StopClosesStdout(s)
      BY <1>2, <3>4 DEF StopClosesStdout, Stopping, StartMarking, UnderWay, EndInv
    <3>5. CASE StopIterates(s) \/ StopClosesStdin(s) \/ StopKills(s)
      BY <3>5 DEF StopIterates, StopClosesStdin, StopKills, Stopping, UnderWay, EndInv
    <3> QED
      BY <2>2, <3>2, <3>3, <3>4, <3>5 DEF StopContinues
  <2> QED
    BY <2>1, <2>2
<1>6. LeftToStop'
  <2>1. \A t \in Stoppers : t # s => (UnderWay(t)' <=> UnderWay(t))
    BY <1>1, <1>2 DEF UnderWay
  <2>2. stopping => stopping'
    BY DEF StopBegins, StopContinues, StopIterates, StopClosesStdin, StopKills,
       StopClosesStdout, StopClears, HookMarks
  <2> QED
    BY <1>1, <1>5, <2>1, <2>2 DEF AttendInv, LeftToStop
<1>7. RestIsFailed'
  BY <1>1, <1>3 DEF AttendInv, RestIsFailed
<1> QED
  BY <1>1, <1>4, <1>6, <1>7 DEF AttendInv

\* Every step keeps what is pending attended.
LEMMA AttendStep ==
  ASSUME EndInv, ReplyInv, AttendInv, [Next]_vars
  PROVE  AttendInv'
<1>1. CASE UNCHANGED vars \/ AgentStep \/ \E t \in ToolCalls : ToolEnds(t)
  <2>1. UNCHANGED <<closed, stopping, phase, marking, reader, pending, latecomers, requestId>>
    BY <1>1 DEF AgentStep, AgentReads, AgentStarts, AgentEnds, AgentBreaks, AgentEmits,
       AgentCallsTool, Agent, ToolEnds, vars, replyVars, endVars, readerVars
  <2> QED
    BY <2>1, AttendUntouched DEF AttendInv
<1> QED
  BY <1>1, CallerAttendStep, ReaderAttendStep, MarkAttendStep, StopAttendStep DEF Next

\* So it always is.
LEMMA AttendInvariant == Spec => [](EndInv /\ ReplyInv /\ AttendInv)
<1>1. Init => AttendInv
  BY DEF Init, AttendInv, MarksClose, LeftToStop, RestIsFailed, Markers, MarkPoints, ReaderPoints
<1>2. EndInv /\ ReplyInv /\ AttendInv /\ [Next]_vars => AttendInv'
  BY AttendStep
<1> QED
  BY <1>1, <1>2, EndAndWakeInvariant, ReplyInvariant, PTL DEF Spec

\* Whoever waits for a reply can still get one, or the error of the end, but for the
\* requests registered after the closing and those of a client whose stop() raised.
THEOREM RpcAwaitedIsReachable == Spec => []AwaitedIsReachable
<1>1. ASSUME AttendInv, NEW r \in pending
      PROVE  Attended \/ r \in latecomers \/ Deserted
  <2>1. CASE closed
    BY <1>1, <2>1 DEF AttendInv, RestIsFailed, Attended
  <2>2. CASE ~closed /\ reader \in {"reading", "putting", "completing"}
    BY <2>2 DEF Attended
  <2>3. CASE ~closed /\ reader = "closing"
    <3>1. Reader \in Markers
      BY DEF Markers
    <3>2. marking[Reader] \in {"check", "set"}
      BY <1>1, <2>3, <3>1 DEF AttendInv, MarksClose, MarkPoints
    <3> QED
      BY <2>3, <3>1, <3>2 DEF Attended
  <2>4. CASE ~closed /\ reader = "exited"
    <3>1. PICK s \in Stoppers : UnderWay(s)
      BY <1>1, <2>4 DEF AttendInv, LeftToStop
    <3>2. s \in Markers
      BY DEF Markers
    <3> QED
      BY <2>4, <3>1, <3>2 DEF UnderWay, Attended, Deserted
  <2> QED
    BY <1>1, <2>1, <2>2, <2>3, <2>4 DEF AttendInv, MarksClose, ReaderPoints
<1>2. ReplyInv /\ AttendInv => AwaitedIsReachable
  BY <1>1 DEF ReplyInv, Reachable, InFlight, AwaitedIsReachable
<1> QED
  BY <1>2, AttendInvariant, PTL

-----------------------------------------------------------------------------
\* What is on the pipes and in the history.
Lines == [type : {"reply", "error", "event", "continued", "agent_end", "badEnd",
                    "toolCall", "garbage"},
            id : Requests \union {NoRequest}, cmd : {"none", "parse", "prompt", "request"},
            of : Requests \union {NoRequest}]

\* The types of the variables, by whom they belong to.
AgentTypes ==
  /\ inp \in Seq(Requests) /\ out \in Seq(Lines)
  /\ todo \in Seq(Requests) /\ run \in Requests \union {NoRequest}
  /\ emitted \in 0..MaxEvents /\ ended \subseteq Requests
  /\ command \in [Requests -> {"none", "prompt", "request"}]
PipeTypes == alive \in BOOLEAN /\ stdinOpen \in BOOLEAN /\ stdoutOpen \in BOOLEAN
HistoryTypes ==
  /\ events \in Seq(Lines) /\ Len(events) <= HistoryLimit /\ offset \in Nat
  /\ errors \in Nat /\ scheduled \in Nat /\ completed \in Nat /\ lastErrorIndex \in 0..errors
FlagTypes == closed \in BOOLEAN /\ stopping \in BOOLEAN /\ process \in BOOLEAN
EndTypes ==
  /\ tools \subseteq ToolCalls
  /\ toolAt \in [ToolCalls -> {"none", "called", "running", "finished"}]
  /\ phase \in [Stoppers -> StopPhases] /\ size \in [Stoppers -> Nat]
  /\ marking \in [Markers -> MarkPoints]
CallTypes ==
  /\ active \in Callers \union {NoCaller}
  /\ at \in [Callers -> CallerPoints] /\ op \in [Callers -> Operations \union {"none"}]
  /\ rid \in [Callers -> Nat] /\ start \in [Callers -> Nat] /\ errStart \in [Callers -> Nat]
  /\ DOMAIN last = Callers /\ \A c \in Callers : last[c].status \in Statuses
ReaderTypes ==
  /\ reader \in ReaderPoints /\ target \in Requests \union {NoRequest}
  /\ reader = "putting" => out # <<>>

TypeInv ==
  AgentTypes /\ PipeTypes /\ HistoryTypes /\ FlagTypes /\ EndTypes /\ CallTypes /\ ReaderTypes

\* The steps of the callers.
LEMMA CallerTypes ==
  ASSUME ReplyInv, TypeInv, NEW c \in Callers, Caller(c)
  PROVE  TypeInv'
<1> USE DEF TypeInv
<1>1. UNCHANGED <<out, alive, stdinOpen, stdoutOpen, todo, run, emitted, ended, endVars,
                  readerVars, events, offset, errors, completed>>
  BY DEF Caller, Refused, Acquire, Send, ReadEventIndex, ReadErrorIndex, CheckAsyncErrors,
     Register, Write, GetReply, RequestTimesOut, MarkScheduled, Collect, WaitTimesOut,
     agentVars, runVars
<1>2. PipeTypes' /\ FlagTypes' /\ EndTypes' /\ ReaderTypes'
  BY <1>1 DEF PipeTypes, FlagTypes, EndTypes, ReaderTypes, endVars, readerVars
<1>3. rid[c] \in Requests \/ at[c] # "writing"
  <2>1. Cardinality(Unsent) \in Nat
    BY FS_CardinalityType DEF ReplyInv, IdsSuffice
  <2> QED
    BY <2>1, ConstantsAssumption DEF ReplyInv, IdsSuffice, OwnRequests, Requests, InFlight
<1>4. AgentTypes'
  <2>1. inp' = inp \/ (at[c] = "writing" /\ inp' = Append(inp, rid[c]))
    BY DEF Caller, Refused, Acquire, Send, ReadEventIndex, ReadErrorIndex,
       CheckAsyncErrors, Register, Write, GetReply, RequestTimesOut, MarkScheduled, Collect,
       WaitTimesOut, agentVars
  <2>2. \/ command' = command
        \/ command' = [command EXCEPT ![requestId'] = "prompt"]
        \/ command' = [command EXCEPT ![requestId'] = "request"]
    BY DEF Caller, Refused, Acquire, Send, ReadEventIndex, ReadErrorIndex,
       CheckAsyncErrors, Register, Write, GetReply, RequestTimesOut, MarkScheduled, Collect,
       WaitTimesOut, replyVars
  <2>3. inp' \in Seq(Requests)
    <3>1. \A r \in Requests : inp \in Seq(Requests) => Append(inp, r) \in Seq(Requests)
      OBVIOUS
    <3> QED
      BY <1>3, <2>1, <3>1 DEF AgentTypes
  <2>4. command' \in [Requests -> {"none", "prompt", "request"}]
    <3>1. PICK r : r = requestId'
      OBVIOUS
    <3>2. \/ command' = command
          \/ command' = [command EXCEPT ![r] = "prompt"]
          \/ command' = [command EXCEPT ![r] = "request"]
      BY <2>2, <3>1
    <3> QED
      BY <3>2 DEF AgentTypes
  <2> QED
    BY <1>1, <2>3, <2>4 DEF AgentTypes
<1>5. HistoryTypes'
  <2>1. \/ UNCHANGED <<scheduled, lastErrorIndex>>
        \/ scheduled' = scheduled + 1 /\ lastErrorIndex' = errors
    BY DEF Caller, Refused, Acquire, Send, ReadEventIndex, ReadErrorIndex,
       CheckAsyncErrors, Register, Write, GetReply, RequestTimesOut, MarkScheduled, Collect,
       WaitTimesOut, runVars
  <2>2. scheduled' \in Nat /\ lastErrorIndex' \in 0..errors
    BY <2>1 DEF HistoryTypes
  <2> QED
    BY <1>1, <2>2 DEF HistoryTypes
<1>6. CallTypes'
  <2>0. rid' \in [Callers -> Nat]
    <3>1. rid' = rid \/ (rid' = [rid EXCEPT ![c] = requestId'] /\ requestId' = requestId + 1)
      BY DEF Caller, Refused, Acquire, Send, ReadEventIndex, ReadErrorIndex, CheckAsyncErrors,
         Register, Write, GetReply, RequestTimesOut, MarkScheduled, Collect, WaitTimesOut
    <3>2. requestId + 1 \in Nat
      BY DEF ReplyInv, IdsSuffice
    <3> QED
      BY <3>1, <3>2 DEF CallTypes
  <2>1. Outcome(c) \in {"exit", "overflow", "async", "ok", "none"}
    BY DEF Outcome
  <2>2. CurrentIndex \in Nat
    BY DEF CurrentIndex, HistoryTypes
  <2>3. ASSUME NEW status \in Statuses, Return(c, status), op' = op
        PROVE  CallTypes'
    BY <2>0, <2>3 DEF Return, CallTypes, CallerPoints
  <2>4. ASSUME NEW point \in CallerPoints, GoTo(c, point),
               op' = op \/ \E o \in Operations : op' = [op EXCEPT ![c] = o]
        PROVE  CallTypes'
    BY <2>0, <2>4 DEF GoTo, CallTypes
  <2>5. ASSUME NEW o \in Operations, Refused(c, o)
        PROVE  CallTypes'
    <3>1. PICK result : result = [NoResult EXCEPT !.op = o, !.status = "refused"]
      OBVIOUS
    <3>2. result.status = "refused"
      BY <3>1 DEF NoResult
    <3> QED
      BY <2>0, <2>5, <3>1, <3>2 DEF Refused, MayCall, CallTypes, Statuses
  <2>6. ASSUME NEW o \in Operations, Acquire(c, o)
        PROVE  CallTypes'
    BY <2>0, <2>2, <2>6 DEF Acquire, MayCall, CallTypes, CallerPoints
  <2>7. ASSUME NEW o \in Operations, Send(c, o)
        PROVE  CallTypes'
    BY <2>4, <2>7 DEF Send, MayCall, CallerPoints
  <2>8. CASE ReadEventIndex(c) \/ ReadErrorIndex(c)
    <3>1. CASE ReadEventIndex(c)
      BY <2>0, <2>2, <3>1 DEF ReadEventIndex, CallTypes, CallerPoints
    <3>2. CASE ReadErrorIndex(c)
      <4>1. errors \in Nat
        BY DEF HistoryTypes
      <4>2. UNCHANGED <<op, start, last, active>>
        BY <3>2 DEF ReadErrorIndex
      <4>3. errStart' \in [Callers -> Nat]
        BY <3>2, <4>1 DEF ReadErrorIndex, CallTypes
      <4>4. at' \in [Callers -> CallerPoints]
        BY <3>2 DEF ReadErrorIndex, CallTypes, CallerPoints
      <4> QED
        BY <2>0, <4>2, <4>3, <4>4 DEF CallTypes
    <3> QED
      BY <2>8, <3>1, <3>2
  <2>9. CASE CheckAsyncErrors(c) \/ RequestTimesOut(c) \/ Collect(c) \/ WaitTimesOut(c)
    <3>1. \/ \E status \in Statuses : Return(c, status) /\ op' = op
          \/ GoTo(c, "waiting") /\ op' = op
      BY <2>1, <2>9 DEF CheckAsyncErrors, RequestTimesOut, Collect, WaitTimesOut, Statuses
    <3> QED
      BY <2>3, <2>4, <3>1 DEF CallerPoints
  <2>10. CASE Register(c) \/ Write(c)
    BY <2>3, <2>4, <2>10 DEF Register, Write, Statuses, CallerPoints
  <2>11. CASE GetReply(c) \/ MarkScheduled(c)
    BY <2>3, <2>4, <2>11 DEF GetReply, MarkScheduled, Statuses, CallerPoints
  <2> QED
    BY <2>5, <2>6, <2>7, <2>8, <2>9, <2>10, <2>11 DEF Caller
<1> QED
  BY <1>2, <1>4, <1>5, <1>6

\* The history never grows over its limit, and its index is that of the events seen.
LEMMA AppendTypes ==
  ASSUME HistoryTypes, NEW f \in Lines, AppendEvent(f)
  PROVE  /\ events' \in Seq(Lines) /\ Len(events') <= HistoryLimit /\ offset' \in Nat
         /\ CurrentIndex' = CurrentIndex + 1 /\ offset' >= offset
         /\ \A j \in DOMAIN events' :
              \/ events'[j] = f /\ offset' + j = CurrentIndex'
              \/ \E i \in DOMAIN events : events'[j] = events[i] /\ offset' + j = offset + i
<1> DEFINE items == Append(events, f)
           trim == IF Len(items) > HistoryLimit THEN Len(items) - HistoryLimit ELSE 0
<1> USE ConstantsAssumption DEF HistoryTypes
<1>1. /\ items \in Seq(Lines) /\ Len(items) = Len(events) + 1 /\ Len(events) \in Nat
      /\ items[Len(events) + 1] = f
      /\ \A i \in 1..Len(events) : items[i] = events[i]
  OBVIOUS
<1>2. trim \in Nat /\ trim <= Len(items) /\ Len(items) - trim <= HistoryLimit
  BY <1>1
<1>3. events' = SubSeq(items, trim + 1, Len(items)) /\ offset' = offset + trim
  BY DEF AppendEvent
<1> HIDE DEF items, trim
<1>4. /\ events' \in Seq(Lines) /\ Len(events') = Len(items) - trim
      /\ \A j \in 1..Len(events') : events'[j] = items[trim + j]
  BY <1>1, <1>2, <1>3
<1>5. /\ offset' \in Nat /\ offset' >= offset /\ Len(events') <= HistoryLimit
      /\ CurrentIndex' = CurrentIndex + 1
  <2>1. PICK n \in Nat : n = trim /\ n <= Len(items) /\ Len(items) - n <= HistoryLimit
    BY <1>2
  <2>2. PICK l \in Nat : l = Len(events) /\ Len(items) = l + 1
    BY <1>1
  <2>3. offset' = offset + n /\ Len(events') = l + 1 - n
    BY <1>3, <1>4, <2>1, <2>2
  <2> QED
    BY <2>1, <2>2, <2>3 DEF CurrentIndex
<1>6. ASSUME NEW j \in DOMAIN events'
      PROVE  \/ events'[j] = f /\ offset' + j = CurrentIndex'
             \/ \E i \in DOMAIN events : events'[j] = events[i] /\ offset' + j = offset + i
  <2>1. PICK n \in Nat : n = trim /\ n <= Len(items)
    BY <1>2
  <2>2. PICK l \in Nat : l = Len(events) /\ Len(items) = l + 1
    BY <1>1
  <2>3. /\ j \in Nat /\ 1 <= j /\ j <= l + 1 - n /\ events'[j] = items[n + j]
        /\ offset' = offset + n /\ Len(events') = l + 1 - n
    BY <1>3, <1>4, <2>1, <2>2
  <2>4. CASE n + j = l + 1
    <3>1. events'[j] = f
      BY <1>1, <2>2, <2>3, <2>4
    <3>2. offset' + j = offset' + Len(events')
      BY <2>1, <2>2, <2>3, <2>4
    <3> QED
      BY <3>1, <3>2 DEF CurrentIndex
  <2>5. CASE n + j # l + 1
    <3>1. n + j \in 1..l
      BY <2>1, <2>2, <2>3, <2>5
    <3>2. n + j \in DOMAIN events /\ events'[j] = events[n + j]
      BY <1>1, <2>2, <2>3, <3>1
    <3>3. offset' + j = offset + (n + j)
      BY <2>1, <2>3
    <3> QED
      BY <3>2, <3>3
  <2> QED
    BY <2>4, <2>5
<1> QED
  BY <1>4, <1>5, <1>6

\* Waking everybody leaves every caller at a point of its call.
LEMMA NotifyTypes ==
  ASSUME CallTypes, NotifyAll, UNCHANGED callVars
  PROVE  CallTypes'
BY DEF CallTypes, NotifyAll, callVars, CallerPoints

\* The steps of the reader.
LEMMA ReaderTypesStep ==
  ASSUME TypeInv, ReaderStep
  PROVE  TypeInv'
<1> USE DEF TypeInv
<1>1. UNCHANGED <<inp, alive, stdinOpen, stdoutOpen, todo, run, emitted, ended, command, callVars,
                  closed, stopping, process, phase, size, scheduled, lastErrorIndex>>
  BY DEF ReaderStep, MatchResponse, Put, Unmatched, ReadEvent, ReadBadEnd, Complete, ReadToolCall,
     ReaderFails, ReaderEnds, Take, agentVars, replyVars, runVars, endVars
<1>2. PipeTypes' /\ FlagTypes'
  BY <1>1 DEF PipeTypes, FlagTypes
<1>3. CallTypes'
  <2>1. at' = at \/ NotifyAll
    BY DEF ReaderStep, MatchResponse, Put, Unmatched, ReadEvent, ReadBadEnd, Complete,
       ReadToolCall, ReaderFails, ReaderEnds
  <2> QED
    BY <1>1, <2>1, NotifyTypes DEF CallTypes, callVars
<1>4. AgentTypes'
  <2>1. out' = out \/ (out' = Tail(out) /\ out # <<>>)
    BY DEF ReaderStep, MatchResponse, Put, Unmatched, ReadEvent, ReadBadEnd, Complete,
       ReadToolCall, ReaderFails, ReaderEnds, Take, agentVars, Frames, ReaderTypes
  <2>2. out \in Seq(Lines)
    BY DEF AgentTypes
  <2>3. out # <<>> => Tail(out) \in Seq(Lines)
    BY <2>2
  <2>4. out' \in Seq(Lines)
    BY <2>1, <2>2, <2>3
  <2> QED
    BY <1>1, <2>4 DEF AgentTypes
<1>5. HistoryTypes'
  <2>1. \/ UNCHANGED <<events, offset>>
        \/ Frames /\ AppendEvent(Head(out))
    <3>1. CASE ReadEvent
      BY <3>1 DEF ReadEvent
    <3>2. CASE ~ReadEvent
      BY <3>2 DEF ReaderStep, MatchResponse, Put, Unmatched, ReadBadEnd, Complete,
         ReadToolCall, ReaderFails, ReaderEnds, runVars
    <3> QED
      BY <3>1, <3>2
  <2>2. /\ events' \in Seq(Lines) /\ Len(events') <= HistoryLimit /\ offset' \in Nat
    <3>1. CASE Frames /\ AppendEvent(Head(out))
      <4>1. Head(out) \in Lines
        BY <3>1 DEF Frames, AgentTypes
      <4> QED
        BY <3>1, <4>1, AppendTypes
    <3> QED
      BY <2>1, <3>1 DEF HistoryTypes
  <2>3. errors' \in {errors, errors + 1} /\ completed' \in {completed, completed + 1}
    BY DEF ReaderStep, MatchResponse, Put, Unmatched, ReadEvent, ReadBadEnd, Complete,
       ReadToolCall, ReaderFails, ReaderEnds, runVars
  <2>4. /\ errors' \in Nat /\ completed' \in Nat /\ scheduled' \in Nat
        /\ lastErrorIndex' \in 0..errors'
    BY <1>1, <2>3 DEF HistoryTypes
  <2> QED
    BY <2>2, <2>4 DEF HistoryTypes
<1>6. EndTypes'
  <2>1. \/ UNCHANGED <<tools, toolAt>>
        \/ \E t \in ToolCalls : ReadToolCall(t)
    BY DEF ReaderStep, MatchResponse, Put, Unmatched, ReadEvent, ReadBadEnd, Complete,
       ReaderFails, ReaderEnds, endVars
  <2>2. marking' = marking \/ StartMarking(Reader)
    BY DEF ReaderStep, MatchResponse, Put, Unmatched, ReadEvent, ReadBadEnd, Complete,
       ReadToolCall, ReaderFails, ReaderEnds, endVars
  <2>3. marking' \in [Markers -> MarkPoints]
    BY <2>2 DEF StartMarking, EndTypes, MarkPoints
  <2>4. tools' \subseteq ToolCalls
    BY <2>1 DEF ReadToolCall, EndTypes
  <2>5. toolAt' \in [ToolCalls -> {"none", "called", "running", "finished"}]
    BY <2>1 DEF ReadToolCall, EndTypes
  <2> QED
    BY <1>1, <2>3, <2>4, <2>5 DEF EndTypes
<1>7. ReaderTypes'
  <2>1. reader' \in ReaderPoints
    BY DEF ReaderStep, MatchResponse, Put, Unmatched, ReadEvent, ReadBadEnd, Complete,
       ReadToolCall, ReaderFails, ReaderEnds, ReaderTypes, ReaderPoints, readerVars
  <2>2. target' = target \/ target' \in Requests \/ target' = NoRequest
    BY DEF ReaderStep, MatchResponse, Put, Unmatched, ReadEvent, ReadBadEnd, Complete,
       ReadToolCall, ReaderFails, ReaderEnds, readerVars
  <2>3. reader' = "putting" => out' = out /\ out # <<>>
    BY DEF ReaderStep, MatchResponse, Put, Unmatched, ReadEvent, ReadBadEnd, Complete,
       ReadToolCall, ReaderFails, ReaderEnds, readerVars, agentVars, Frames, ReaderTypes
  <2> QED
    BY <2>1, <2>2, <2>3 DEF ReaderTypes
<1> QED
  BY <1>2, <1>3, <1>4, <1>5, <1>6, <1>7

\* The steps of _mark_closed, of stop() and of the threads of tools.
LEMMA EndTypesStep ==
  ASSUME TypeInv,
         \/ \E m \in Markers : MarkStep(m)
         \/ \E s \in Stoppers : StopBegins(s) \/ StopContinues(s)
         \/ \E t \in ToolCalls : ToolEnds(t)
  PROVE  TypeInv'
<1> USE DEF TypeInv
<1>1. ASSUME NEW m \in Markers, MarkStep(m)
      PROVE  TypeInv'
  <2>1. UNCHANGED <<agentVars, command, runVars, stopping, process, tools, toolAt, phase, size,
                    callVars, readerVars>>
    BY <1>1 DEF MarkStep, MarkCheck, MarkSet, MarkFail, MarkNotify, Marking
  <2>2. at' = at \/ NotifyAll
    BY <1>1 DEF MarkStep, MarkCheck, MarkSet, MarkFail, MarkNotify
  <2>3. CallTypes'
    BY <2>1, <2>2, NotifyTypes DEF CallTypes, callVars
  <2>4. closed' \in BOOLEAN
    BY <1>1, Zenon DEF MarkStep, MarkCheck, MarkSet, MarkFail, MarkNotify, FlagTypes
  <2>5. marking' \in [Markers -> MarkPoints]
    BY <1>1 DEF MarkStep, MarkCheck, MarkSet, MarkFail, MarkNotify, Marking, EndTypes, MarkPoints
  <2>6. FlagTypes' /\ PipeTypes'
    BY <2>1, <2>4 DEF FlagTypes, PipeTypes, agentVars
  <2>7. AgentTypes' /\ HistoryTypes' /\ ReaderTypes'
    BY <2>1 DEF AgentTypes, HistoryTypes, ReaderTypes, agentVars, runVars, readerVars
  <2> QED
    BY <2>1, <2>3, <2>5, <2>6, <2>7 DEF EndTypes
<1>2. ASSUME NEW s \in Stoppers, StopBegins(s) \/ StopContinues(s)
      PROVE  TypeInv'
  <2>1. UNCHANGED <<inp, out, todo, run, emitted, ended, command, runVars, closed, toolAt, at,
                    callVars, readerVars>>
    BY <1>2 DEF StopBegins, StopContinues, StopIterates, StopClosesStdin, StopKills,
       StopClosesStdout, StopClears, HookMarks, Stopping, replyVars
  <2>2. AgentTypes' /\ HistoryTypes' /\ ReaderTypes' /\ CallTypes'
    BY <2>1 DEF AgentTypes, HistoryTypes, ReaderTypes, CallTypes, runVars, callVars, readerVars
  <2>3. alive' \in BOOLEAN /\ stdinOpen' \in BOOLEAN /\ stdoutOpen' \in BOOLEAN
    BY <1>2, Zenon DEF StopBegins, StopContinues, StopIterates, StopClosesStdin, StopKills,
       StopClosesStdout, StopClears, HookMarks, PipeTypes
  <2>4. stopping' \in BOOLEAN /\ process' \in BOOLEAN
    BY <1>2, Zenon DEF StopBegins, StopContinues, StopIterates, StopClosesStdin, StopKills,
       StopClosesStdout, StopClears, HookMarks, FlagTypes
  <2>5. EndTypes'
    <3>1. Cardinality(tools) \in Nat
      BY ConstantsAssumption, FS_Subset, FS_CardinalityType DEF EndTypes
    <3>2. tools' \subseteq ToolCalls
      BY <1>2 DEF StopBegins, StopContinues, StopIterates, StopClosesStdin, StopKills,
         StopClosesStdout, StopClears, HookMarks, EndTypes
    <3>3. phase' \in [Stoppers -> StopPhases]
      BY <1>2 DEF StopBegins, StopContinues, StopIterates, StopClosesStdin, StopKills,
         StopClosesStdout, StopClears, HookMarks, Stopping, EndTypes, StopPhases
    <3>4. size' \in [Stoppers -> Nat]
      BY <1>2, <3>1 DEF StopBegins, StopContinues, StopIterates, StopClosesStdin, StopKills,
         StopClosesStdout, StopClears, HookMarks, EndTypes
    <3>5. marking' \in [Markers -> MarkPoints]
      BY <1>2 DEF StopBegins, StopContinues, StopIterates, StopClosesStdin, StopKills,
         StopClosesStdout, StopClears, HookMarks, StartMarking, EndTypes, MarkPoints
    <3> QED
      BY <2>1, <3>2, <3>3, <3>4, <3>5 DEF EndTypes
  <2>6. FlagTypes'
    BY <2>1, <2>4 DEF FlagTypes
  <2> QED
    BY <2>2, <2>3, <2>5, <2>6 DEF PipeTypes
<1>3. ASSUME NEW t \in ToolCalls, ToolEnds(t)
      PROVE  TypeInv'
  <2>1. EndTypes'
    BY <1>3 DEF ToolEnds, EndTypes
  <2>2. UNCHANGED <<agentVars, command, runVars, closed, stopping, process, at, callVars,
                    readerVars>>
    BY <1>3 DEF ToolEnds, replyVars
  <2>3. AgentTypes' /\ PipeTypes' /\ HistoryTypes' /\ FlagTypes' /\ CallTypes' /\ ReaderTypes'
    BY <2>2 DEF AgentTypes, PipeTypes, HistoryTypes, FlagTypes, CallTypes, ReaderTypes,
       agentVars, runVars, callVars, readerVars
  <2> QED
    BY <2>1, <2>3
<1> QED
  BY <1>1, <1>2, <1>3

\* The steps of the agent.
LEMMA AgentTypesStep ==
  ASSUME TypeInv, AgentStep
  PROVE  TypeInv'
<1> USE DEF TypeInv
<1>1. UNCHANGED <<stdinOpen, stdoutOpen, replyVars, runVars, closed, stopping, process, tools,
                  phase, size, marking, at, callVars, readerVars>>
  BY DEF AgentStep, AgentReads, AgentStarts, AgentEnds, AgentBreaks, AgentEmits, AgentCallsTool,
     Agent
<1>2. HistoryTypes' /\ FlagTypes' /\ CallTypes'
  BY <1>1 DEF HistoryTypes, FlagTypes, CallTypes, runVars, callVars
<1>3. PipeTypes'
  <2>1. alive' = alive \/ alive' = FALSE
    BY DEF AgentStep, AgentReads, AgentStarts, AgentEnds, AgentBreaks, AgentEmits, AgentCallsTool
  <2> QED
    BY <1>1, <2>1, Zenon DEF PipeTypes
<1>4. EndTypes'
  <2>1. \/ toolAt' = toolAt
        \/ \E t \in ToolCalls : toolAt' = [toolAt EXCEPT ![t] = "called"]
    BY DEF AgentStep, AgentReads, AgentStarts, AgentEnds, AgentBreaks, AgentEmits, AgentCallsTool
  <2>2. toolAt' \in [ToolCalls -> {"none", "called", "running", "finished"}]
    BY <2>1 DEF EndTypes
  <2> QED
    BY <1>1, <2>2 DEF EndTypes
<1>5. out' = out \/ \E f \in Lines : out' = Append(out, f)
  <2>1. CASE AgentReads
    <3>1. PICK r : r = Head(inp)
      OBVIOUS
    <3>2. r \in Requests /\ command[r] \in {"none", "prompt", "request"}
      BY <2>1, <3>1 DEF AgentReads, AgentTypes
    <3>3. /\ Frame("reply", r, command[r], r) \in Lines
          /\ Frame("error", r, command[r], r) \in Lines
          /\ Frame("error", NoRequest, command[r], r) \in Lines
          /\ Frame("error", NoRequest, "parse", r) \in Lines
      BY <3>2 DEF Frame, Lines
    <3> QED
      BY <2>1, <3>1, <3>3 DEF AgentReads, Emit
  <2>2. CASE AgentStarts
    <3>1. PICK r : r = Head(todo)
      OBVIOUS
    <3>2. r \in Requests
      BY <2>2, <3>1 DEF AgentStarts, AgentTypes
    <3>3. Frame("error", r, "prompt", r) \in Lines
      BY <3>2 DEF Frame, Lines
    <3> QED
      BY <2>2, <3>1, <3>3 DEF AgentStarts, Emit
  <2>3. CASE AgentEnds \/ AgentBreaks
    <3>1. /\ Frame("agent_end", NoRequest, "none", run) \in Lines
          /\ Frame("badEnd", NoRequest, "none", run) \in Lines
          /\ Frame("garbage", NoRequest, "none", NoRequest) \in Lines
      BY DEF Frame, Lines, AgentTypes
    <3> QED
      BY <2>3, <3>1 DEF AgentEnds, AgentBreaks, Emit
  <2>4. ASSUME NEW type \in {"event", "continued"}, AgentEmits(type)
        PROVE  \E f \in Lines : out' = Append(out, f)
    <3>1. Frame(type, NoRequest, "none", run) \in Lines
      BY DEF Frame, Lines, AgentTypes
    <3> QED
      BY <2>4, <3>1 DEF AgentEmits, Emit
  <2>5. ASSUME NEW t \in ToolCalls, AgentCallsTool(t)
        PROVE  \E f \in Lines : out' = Append(out, f)
    <3>1. Frame("toolCall", NoRequest, "none", run) \in Lines
      BY DEF Frame, Lines, AgentTypes
    <3> QED
      BY <2>5, <3>1 DEF AgentCallsTool, Emit
  <2> QED
    BY <2>1, <2>2, <2>3, <2>4, <2>5 DEF AgentStep
<1>6. out' \in Seq(Lines) /\ (out # <<>> => out' # <<>>)
  <2>1. \A f \in Lines : out \in Seq(Lines) =>
          Append(out, f) \in Seq(Lines) /\ Append(out, f) # <<>>
    OBVIOUS
  <2> QED
    BY <1>5, <2>1 DEF AgentTypes
<1>7. ReaderTypes'
  BY <1>1, <1>6 DEF ReaderTypes, readerVars
<1>8. AgentTypes'
  <2>1. \/ inp' = inp
        \/ inp' = Tail(inp) /\ inp # <<>>
    BY DEF AgentStep, AgentReads, AgentStarts, AgentEnds, AgentBreaks, AgentEmits, AgentCallsTool
  <2>2. \/ todo' = todo
        \/ todo' = Tail(todo) /\ todo # <<>>
        \/ todo' = Append(todo, Head(inp)) /\ inp # <<>>
    BY DEF AgentStep, AgentReads, AgentStarts, AgentEnds, AgentBreaks, AgentEmits, AgentCallsTool
  <2>3. run' = run \/ run' = NoRequest \/ (run' = Head(todo) /\ todo # <<>>)
    BY DEF AgentStep, AgentReads, AgentStarts, AgentEnds, AgentBreaks, AgentEmits, AgentCallsTool
  <2>4. emitted' \in 0..MaxEvents
    BY ConstantsAssumption DEF AgentStep, AgentReads, AgentStarts, AgentEnds, AgentBreaks,
       AgentEmits, AgentCallsTool, AgentTypes
  <2>5. ended' = ended \/ (ended' = ended \union {run} /\ run # NoRequest)
    BY DEF AgentStep, AgentReads, AgentStarts, AgentEnds, AgentBreaks, AgentEmits, AgentCallsTool
  <2>6. /\ inp # <<>> => Head(inp) \in Requests /\ Tail(inp) \in Seq(Requests)
        /\ todo # <<>> => Head(todo) \in Requests /\ Tail(todo) \in Seq(Requests)
    <3>1. inp \in Seq(Requests) /\ todo \in Seq(Requests)
      BY DEF AgentTypes
    <3> QED
      BY <3>1
  <2>7. inp' \in Seq(Requests)
    BY <2>1, <2>6 DEF AgentTypes
  <2>8. run' \in Requests \union {NoRequest} /\ ended' \subseteq Requests
    BY <2>3, <2>5, <2>6 DEF AgentTypes
  <2>9. todo' \in Seq(Requests)
    <3>1. \A r \in Requests : todo \in Seq(Requests) => Append(todo, r) \in Seq(Requests)
      OBVIOUS
    <3> QED
      BY <2>2, <2>6, <3>1 DEF AgentTypes
  <2> QED
    BY <1>1, <1>6, <2>4, <2>7, <2>8, <2>9 DEF AgentTypes, replyVars
<1> QED
  BY <1>2, <1>3, <1>4, <1>7, <1>8

\* So the variables keep their types, once each request has an id.
LEMMA TypeInvariant == Spec => [](ReplyInv /\ TypeInv)
<1>1. ASSUME Init
      PROVE  TypeInv
  <2>1. 0 \in 0..MaxEvents
    BY ConstantsAssumption
  <2>2. AgentTypes /\ HistoryTypes
    BY <1>1, <2>1, ConstantsAssumption DEF Init, AgentTypes, HistoryTypes
  <2>3. PipeTypes /\ FlagTypes
    BY <1>1, Zenon DEF Init, PipeTypes, FlagTypes
  <2>4. EndTypes /\ ReaderTypes
    BY <1>1 DEF Init, EndTypes, ReaderTypes, StopPhases, MarkPoints, ReaderPoints
  <2>5. CallTypes
    <3>1. NoResult.status \in Statuses
      BY DEF NoResult, Statuses
    <3>2. DOMAIN last = Callers /\ \A c \in Callers : last[c].status \in Statuses
      BY <1>1, <3>1 DEF Init
    <3> QED
      BY <1>1, <3>2 DEF Init, CallTypes, CallerPoints, NoRequest
  <2> QED
    BY <2>2, <2>3, <2>4, <2>5 DEF TypeInv
<1>2. ASSUME ReplyInv, TypeInv, [Next]_vars
      PROVE  TypeInv'
  <2>1. CASE UNCHANGED vars
    BY <1>2, <2>1 DEF TypeInv, AgentTypes, PipeTypes, HistoryTypes, FlagTypes, EndTypes,
       CallTypes, ReaderTypes, vars, agentVars, replyVars, runVars, endVars, callVars,
       readerVars
  <2> QED
    BY <1>2, <2>1, CallerTypes, ReaderTypesStep, EndTypesStep, AgentTypesStep DEF Next
<1>3. Init => TypeInv
  BY <1>1
<1>4. ReplyInv /\ TypeInv /\ [Next]_vars => TypeInv'
  BY <1>2
<1> QED
  BY <1>3, <1>4, ReplyInvariant, PTL DEF Spec

\* The client keeps the types of its variables; its history never exceeds its limit,
\* and it never runs out of ids.
THEOREM RpcTypeOK == Spec => []TypeOK
<1>1. ASSUME ReplyInv, TypeInv, AttendInv
      PROVE  TypeOK
  <2>1. Cardinality(Unsent) \in Nat
    BY <1>1, FS_CardinalityType DEF ReplyInv, IdsSuffice
  <2>2. requestId \in 0..MaxCalls /\ calls \in 0..MaxCalls
    BY <1>1, <2>1, ConstantsAssumption DEF ReplyInv, IdsSuffice
  <2>3. /\ rid \in [Callers -> 0..requestId] /\ pending \union latecomers \subseteq 1..requestId
        /\ DOMAIN box = Requests
    <3>1. \A c \in Callers : rid[c] \in 0..requestId
      BY <1>1 DEF ReplyInv, OwnRequests
    <3>2. rid \in [Callers -> 0..requestId]
      BY <1>1, <3>1 DEF TypeInv, CallTypes
    <3> QED
      BY <1>1, <3>2 DEF ReplyInv, AnsweredOnce, AttendInv
  <2>4. \A i \in DOMAIN out : out[i].id \in Requests \union {NoRequest}
    <3>1. ASSUME NEW i \in DOMAIN out
          PROVE  out[i] \in Lines
      BY <1>1, <3>1 DEF TypeInv, AgentTypes
    <3> QED
      BY <3>1 DEF Lines
  <2> QED
    BY <1>1, <2>2, <2>3, <2>4 DEF TypeOK, TypeInv, AgentTypes, PipeTypes, HistoryTypes,
       FlagTypes, EndTypes, CallTypes, ReaderTypes
<1>2. ReplyInv /\ TypeInv /\ AttendInv => TypeOK
  BY <1>1
<1> QED
  BY <1>2, TypeInvariant, AttendInvariant, PTL

-----------------------------------------------------------------------------
\* A call begins at an index that the history has reached, and what it returned was whole.
TurnInv ==
  /\ \A c \in Callers : start[c] <= CurrentIndex
  /\ TurnIsComplete

\* The index of the history never goes back.
LEMMA IndexGrows ==
  ASSUME TypeInv, [Next]_vars
  PROVE  CurrentIndex \in Nat /\ CurrentIndex' \in Nat /\ CurrentIndex <= CurrentIndex'
<1>1. CurrentIndex \in Nat
  BY DEF CurrentIndex, TypeInv, HistoryTypes
<1>2. UNCHANGED <<events, offset>> => CurrentIndex' = CurrentIndex
  BY DEF CurrentIndex
<1>3. UNCHANGED <<events, offset>> \/ (Frames /\ AppendEvent(Head(out)))
  <2>1. CASE ReadEvent
    BY <2>1 DEF ReadEvent
  <2>2. CASE ReaderStep /\ ~ReadEvent
    BY <2>2 DEF ReaderStep, MatchResponse, Put, Unmatched, ReadBadEnd, Complete, ReadToolCall,
       ReaderFails, ReaderEnds, runVars
  <2>3. CASE \E c \in Callers : Caller(c)
    <3>1. PICK c \in Callers : Caller(c)
      BY <2>3
    <3>2. CASE \E o \in Operations : Refused(c, o) \/ Acquire(c, o) \/ Send(c, o)
      BY <3>2 DEF Refused, Acquire, Send, runVars
    <3>3. CASE ReadEventIndex(c) \/ ReadErrorIndex(c) \/ CheckAsyncErrors(c)
      BY <3>3 DEF ReadEventIndex, ReadErrorIndex, CheckAsyncErrors, runVars
    <3>4. CASE Register(c) \/ Write(c)
      BY <3>4 DEF Register, Write, runVars
    <3>5. CASE GetReply(c) \/ RequestTimesOut(c)
      BY <3>5 DEF GetReply, RequestTimesOut, runVars
    <3>6. CASE MarkScheduled(c) \/ Collect(c) \/ WaitTimesOut(c)
      BY <3>6 DEF MarkScheduled, Collect, WaitTimesOut, runVars
    <3> QED
      BY <3>1, <3>2, <3>3, <3>4, <3>5, <3>6 DEF Caller
  <2>4. CASE (\E m \in Markers : MarkStep(m)) \/ (\E t \in ToolCalls : ToolEnds(t))
    BY <2>4 DEF MarkStep, MarkCheck, MarkSet, MarkFail, MarkNotify, Marking, ToolEnds, runVars
  <2>5. CASE \E s \in Stoppers : StopBegins(s) \/ StopContinues(s)
    BY <2>5 DEF StopBegins, StopContinues, StopIterates, StopClosesStdin, StopKills,
       StopClosesStdout, StopClears, HookMarks, Stopping, runVars
  <2>6. CASE AgentStep
    BY <2>6 DEF AgentStep, AgentReads, AgentStarts, AgentEnds, AgentBreaks, AgentEmits,
       AgentCallsTool, Agent, runVars
  <2>7. CASE UNCHANGED vars
    BY <2>7 DEF vars, runVars
  <2> QED
    BY <2>1, <2>2, <2>3, <2>4, <2>5, <2>6, <2>7 DEF Next
<1>4. CASE Frames /\ AppendEvent(Head(out))
  <2>1. Head(out) \in Lines
    BY <1>4 DEF Frames, TypeInv, AgentTypes
  <2>2. CurrentIndex' = CurrentIndex + 1
    BY <1>4, <2>1, AppendTypes DEF TypeInv
  <2> QED
    BY <1>1, <2>2
<1> QED
  BY <1>1, <1>2, <1>3, <1>4

\* A collection that ends well ends on an unbroken history.
LEMMA WholeOutcome ==
  ASSUME TypeInv, TurnInv, NEW c \in Callers, Outcome(c) = "ok"
  PROVE  Len(SnapshotFrom(start[c])) = CurrentIndex - start[c]
<1>1. PICK k \in Int : k = start[c] - offset
  BY DEF TypeInv, CallTypes, HistoryTypes
<1>2. k >= 0 /\ k <= Len(events)
  BY <1>1 DEF Outcome, TypeInv, CallTypes, HistoryTypes, TurnInv, CurrentIndex
<1>3. SnapshotFrom(start[c]) = SubSeq(events, k + 1, Len(events))
  BY <1>1, <1>2 DEF SnapshotFrom
<1>4. Len(SubSeq(events, k + 1, Len(events))) = Len(events) - k
  BY <1>2 DEF TypeInv, HistoryTypes
<1> QED
  BY <1>1, <1>3, <1>4 DEF CurrentIndex, TypeInv, CallTypes, HistoryTypes

\* No step makes a call begin later than now or return part of a turn.
LEMMA TurnStep ==
  ASSUME TypeInv, TurnInv, [Next]_vars
  PROVE  TurnInv'
<1>1. CurrentIndex \in Nat /\ CurrentIndex' \in Nat /\ CurrentIndex <= CurrentIndex'
  BY IndexGrows
<1>2. ASSUME NEW c \in Callers, Caller(c)
      PROVE  TurnInv'
  <2>1. \/ start' = start
        \/ start' = [start EXCEPT ![c] = 0]
        \/ start' = [start EXCEPT ![c] = CurrentIndex]
    BY <1>2 DEF Caller, Refused, Acquire, Send, ReadEventIndex, ReadErrorIndex,
       CheckAsyncErrors, Register, Write, GetReply, RequestTimesOut, MarkScheduled, Collect,
       WaitTimesOut, Return, GoTo
  <2>2. \A d \in Callers : start'[d] <= CurrentIndex'
    BY <1>1, <2>1 DEF TypeInv, CallTypes, TurnInv
  <2>3. ASSUME NEW status, Return(c, status),
               at[c] \in {"collecting", "waiting"} /\ status = "ok" => Outcome(c) = "ok"
        PROVE  TurnIsComplete'
    <3>1. DEFINE w == at[c] \in {"collecting", "waiting"} /\ status = "ok" =>
                        Len(SnapshotFrom(start[c])) = CurrentIndex - start[c]
    <3>2. w
      BY <2>3, WholeOutcome
    <3>3. last' = [last EXCEPT ![c] = [op |-> op[c], status |-> status, rid |-> rid[c],
                                        whole |-> w]]
      BY <2>3 DEF Return
    <3> HIDE DEF w
    <3> QED
      BY <3>2, <3>3, Zenon DEF TurnInv, TurnIsComplete, TypeInv, CallTypes
  <2>4. ASSUME NEW o \in Operations, Refused(c, o)
        PROVE  TurnIsComplete'
    <3>1. PICK result : result = [NoResult EXCEPT !.op = o, !.status = "refused"]
      OBVIOUS
    <3>2. result.whole
      BY <3>1 DEF NoResult
    <3>3. last' = [last EXCEPT ![c] = result]
      BY <2>4, <3>1 DEF Refused
    <3> QED
      BY <3>2, <3>3, Zenon DEF TurnInv, TurnIsComplete, TypeInv, CallTypes
  <2>5. last' = last => TurnIsComplete'
    BY DEF TurnInv, TurnIsComplete
  <2>6. \/ last' = last
        \/ \E o \in Operations : Refused(c, o)
        \/ \E status : /\ Return(c, status)
                       /\ at[c] \in {"collecting", "waiting"} /\ status = "ok" => Outcome(c) = "ok"
    BY <1>2 DEF Caller, Acquire, Send, ReadEventIndex, ReadErrorIndex,
       CheckAsyncErrors, Register, Write, GetReply, RequestTimesOut, MarkScheduled, Collect,
       WaitTimesOut, GoTo
  <2> QED
    BY <2>2, <2>3, <2>4, <2>5, <2>6 DEF TurnInv
<1>3. CASE UNCHANGED <<start, last>>
  BY <1>1, <1>3 DEF TurnInv, TurnIsComplete, TypeInv, CallTypes
<1>4. CASE ~\E c \in Callers : Caller(c)
  <2>1. CASE ReaderStep
    BY <1>3, <2>1 DEF ReaderStep, MatchResponse, Put, Unmatched, ReadEvent, ReadBadEnd,
       Complete, ReadToolCall, ReaderFails, ReaderEnds, callVars
  <2>2. CASE (\E m \in Markers : MarkStep(m)) \/ (\E t \in ToolCalls : ToolEnds(t))
    BY <1>3, <2>2 DEF MarkStep, MarkCheck, MarkSet, MarkFail, MarkNotify, Marking, ToolEnds,
       callVars
  <2>3. CASE \E s \in Stoppers : StopBegins(s) \/ StopContinues(s)
    BY <1>3, <2>3 DEF StopBegins, StopContinues, StopIterates, StopClosesStdin, StopKills,
       StopClosesStdout, StopClears, HookMarks, Stopping, callVars
  <2>4. CASE AgentStep
    BY <1>3, <2>4 DEF AgentStep, AgentReads, AgentStarts, AgentEnds, AgentBreaks, AgentEmits,
       AgentCallsTool, Agent, callVars
  <2>5. CASE UNCHANGED vars
    BY <1>3, <2>5 DEF vars, callVars
  <2> QED
    BY <1>4, <2>1, <2>2, <2>3, <2>4, <2>5 DEF Next
<1> QED
  BY <1>2, <1>4

\* A turn is returned with every event since its call began, whatever the history
\* has dropped meanwhile.
THEOREM RpcTurnIsComplete == Spec => []TurnIsComplete
<1>1. ASSUME Init
      PROVE  TurnInv
  <2>1. \A c \in Callers : start[c] <= CurrentIndex
    BY <1>1 DEF Init, CurrentIndex
  <2>2. TurnIsComplete
    BY <1>1, Zenon DEF Init, NoResult, TurnIsComplete
  <2> QED
    BY <2>1, <2>2 DEF TurnInv
<1>2. Init => TurnInv
  BY <1>1
<1>3. TypeInv /\ TurnInv /\ [Next]_vars => TurnInv'
  BY TurnStep
<1>4. TurnInv => TurnIsComplete
  BY DEF TurnInv
<1> QED
  BY <1>2, <1>3, <1>4, TypeInvariant, PTL DEF Spec

-----------------------------------------------------------------------------
\* Nothing is read from stdout any more.
Over == ~stdoutOpen \/ reader \in {"closing", "exited"}

\* A request that the agent has still to read, or whose reply is still to be read.
Traced(r) ==
  \/ \E i \in DOMAIN inp : inp[i] = r
  \/ \E i \in DOMAIN out : Response(out[i]) /\ out[i].of = r

\* Each is there once.
OneTrace ==
  /\ \A i, j \in DOMAIN inp : inp[i] = inp[j] => i = j
  /\ \A i, j \in DOMAIN out :
       Response(out[i]) /\ Response(out[j]) /\ out[i].of = out[j].of => i = j
  /\ \A i \in DOMAIN inp, j \in DOMAIN out : Response(out[j]) => out[j].of # inp[i]

\* What is not written leaves no trace.
NotWritten ==
  /\ \A c \in Callers : at[c] = "writing" => ~Traced(rid[c]) /\ (rid[c] \in pending \/ Over)
  /\ \A r \in Requests : Traced(r) => r <= requestId

\* A response tells what it is about, or is an error that names the command.
Telling ==
  \A i \in DOMAIN out : Response(out[i]) =>
    /\ out[i].of \in Requests
    /\ \/ out[i].id = out[i].of
       \/ /\ out[i].id = NoRequest /\ out[i].type = "error"
          /\ out[i].cmd \in {command[out[i].of], "parse"}

\* While stdout is read, somebody waits for every reply on its way ...
Expected ==
  ~Over =>
    /\ \A i \in DOMAIN inp : inp[i] \in pending
    /\ \A i \in DOMAIN out :
         Response(out[i]) => out[i].of \in pending \/ (i = 1 /\ reader = "putting")

\* ... and the reader carries it to the request that it is about.
Carried == reader = "putting" => Response(out[1]) /\ out[1].of = target

\* Without the hook the client is marked closed only when stdout is.
ClosedFirst ==
  \A s \in Stoppers : phase[s] # "hookMarking" /\ (phase[s] = "marking" => ~stdoutOpen)

TraceInv ==
  /\ OneTrace /\ NotWritten /\ Telling /\ Expected /\ Carried /\ ClosedFirst
  /\ ReplyAnswersItsRequest

\* t is s with x at its end; t is s without its head.
Grown(s, t, x) ==
  \E n \in Nat : /\ DOMAIN s = 1..n /\ DOMAIN t = 1..n + 1
                 /\ t[n + 1] = x /\ \A i \in 1..n : t[i] = s[i]
Shrunk(s, t) ==
  \E n \in Nat : /\ DOMAIN s = 1..n + 1 /\ DOMAIN t = 1..n
                 /\ \A i \in 1..n : t[i] = s[i + 1]

\* That is what Append and Tail do.
LEMMA AppendGrows ==
  ASSUME NEW S, NEW s \in Seq(S), NEW x \in S
  PROVE  Grown(s, Append(s, x), x)
<1>1. /\ Len(s) \in Nat /\ DOMAIN s = 1..Len(s)
      /\ DOMAIN Append(s, x) = 1..Len(s) + 1 /\ Append(s, x)[Len(s) + 1] = x
      /\ \A i \in 1..Len(s) : Append(s, x)[i] = s[i]
  OBVIOUS
<1> QED
  BY <1>1 DEF Grown

\* The same for Tail.
LEMMA TailShrinks ==
  ASSUME NEW S, NEW s \in Seq(S), s # <<>>
  PROVE  Shrunk(s, Tail(s)) /\ Head(s) = s[1] /\ 1 \in DOMAIN s
<1>1. PICK n \in Nat : Len(s) = n + 1
  <2>1. Len(s) \in Nat /\ Len(s) # 0
    OBVIOUS
  <2> QED
    BY <2>1
<1>2. /\ DOMAIN s = 1..n + 1 /\ DOMAIN Tail(s) = 1..n /\ Head(s) = s[1]
      /\ \A i \in 1..n : Tail(s)[i] = s[i + 1]
  BY <1>1
<1> QED
  BY <1>2 DEF Shrunk

\* What concerns neither the pipes nor the requests keeps the traces.
LEMMA TraceUntouched ==
  ASSUME TraceInv, UNCHANGED <<inp, out, pending, requestId, command, target>>,
         Over => Over', UNCHANGED reader \/ Over', reader' = "putting" => reader = "putting",
         \A c \in Callers : at'[c] = "writing" => at[c] = "writing" /\ rid'[c] = rid[c],
         ClosedFirst', ReplyAnswersItsRequest'
  PROVE  TraceInv'
<1> USE DEF TraceInv
<1>1. OneTrace' /\ Telling'
  BY DEF OneTrace, Telling
<1>2. \A r : Traced(r)' <=> Traced(r)
  BY DEF Traced
<1>3. NotWritten'
  BY <1>1, <1>2 DEF NotWritten
<1>4. Expected' /\ Carried'
  BY DEF Expected, Carried
<1> QED
  BY <1>1, <1>3, <1>4

\* The callers, but for the registration of a request and its write.
LEMMA CallTraceStep ==
  ASSUME Timeouts = FALSE, ReplyInv, TypeInv, TraceInv, NEW c \in Callers, Caller(c), ~Write(c),
         requestId' = requestId
  PROVE  TraceInv'
<1>0. /\ Register(c) => /\ UNCHANGED <<agentVars, replyVars, rid, readerVars, endVars>>
                        /\ Return(c, "notStarted")
      /\ ~RequestTimesOut(c)
  <2>1. requestId \in Nat
    BY DEF ReplyInv, IdsSuffice
  <2> QED
    BY <2>1 DEF Register, RequestTimesOut
<1>1. UNCHANGED <<inp, out, pending, requestId, command, target, reader, stdoutOpen, phase>>
  BY <1>0 DEF Caller, Refused, Acquire, Send, ReadEventIndex, ReadErrorIndex, CheckAsyncErrors,
     GetReply, MarkScheduled, Collect, WaitTimesOut, agentVars, replyVars, readerVars, endVars
<1>2. rid' = rid
  BY <1>0 DEF Caller, Refused, Acquire, Send, ReadEventIndex, ReadErrorIndex, CheckAsyncErrors,
     GetReply, MarkScheduled, Collect, WaitTimesOut
<1>3. \A d \in Callers : at'[d] = "writing" => at[d] = "writing"
  <2>1. \/ at' = at
        \/ \E point \in CallerPoints \ {"writing"} : at' = [at EXCEPT ![c] = point]
    BY <1>0 DEF Caller, Refused, Acquire, Send, ReadEventIndex, ReadErrorIndex,
       CheckAsyncErrors, GetReply, MarkScheduled, Collect, WaitTimesOut, MayCall, Return, GoTo,
       CallerPoints
  <2> QED
    BY <2>1 DEF ReplyInv
<1>4. ReplyAnswersItsRequest'
  <2>1. box' = box \/ GetReply(c)
    BY <1>0 DEF Caller, Refused, Acquire, Send, ReadEventIndex, ReadErrorIndex,
       CheckAsyncErrors, MarkScheduled, Collect, WaitTimesOut, replyVars
  <2>2. CASE box' = box
    BY <2>2 DEF TraceInv, ReplyAnswersItsRequest
  <2>3. CASE GetReply(c)
    <3>1. box' = [box EXCEPT ![rid[c]] = Tail(box[rid[c]])] /\ box[rid[c]] # <<>> /\ at[c] = "awaiting"
      BY <2>3 DEF GetReply
    <3>2. rid[c] \in Requests
      <4>1. Cardinality(Unsent) \in Nat
        BY FS_CardinalityType DEF ReplyInv, IdsSuffice
      <4> QED
        BY <3>1, <4>1, ConstantsAssumption DEF ReplyInv, OwnRequests, InFlight, IdsSuffice,
           Requests
    <3>3. DOMAIN Tail(box[rid[c]]) = {}
      <4>1. PICK f : box[rid[c]] = <<f>>
        BY <3>1, <3>2 DEF ReplyInv, AnsweredOnce
      <4> QED
        BY <4>1
    <3> QED
      BY <3>1, <3>2, <3>3 DEF TraceInv, ReplyAnswersItsRequest, ReplyInv
  <2> QED
    BY <2>1, <2>2, <2>3
<1>5. ClosedFirst'
  BY <1>1 DEF TraceInv, ClosedFirst
<1> QED
  BY <1>1, <1>2, <1>3, <1>4, <1>5, TraceUntouched DEF Over

\* A new request is pending and leaves no trace yet.
LEMMA RegisterTraceStep ==
  ASSUME ReplyInv, TypeInv, TraceInv, NEW c \in Callers, Register(c), requestId' # requestId
  PROVE  TraceInv'
<1> USE DEF TraceInv
<1>1. PICK n \in Nat : n = requestId + 1
  BY DEF ReplyInv, IdsSuffice
<1>2. /\ requestId' = n /\ pending' = pending \union {n} /\ rid' = [rid EXCEPT ![c] = n]
      /\ \/ command' = [command EXCEPT ![n] = "prompt"]
         \/ command' = [command EXCEPT ![n] = "request"]
      /\ at' = [at EXCEPT ![c] = "writing"] /\ box' = box
      /\ UNCHANGED <<inp, out, stdoutOpen, reader, target, phase>>
  BY <1>1 DEF Register, GoTo, agentVars, replyVars, readerVars, endVars
<1>3. /\ \A r : Traced(r)' <=> Traced(r)
      /\ Over' <=> Over
  BY <1>2 DEF Traced, Over
<1>4. ASSUME NEW r \in Requests, Traced(r)
      PROVE  r <= requestId /\ r # n
  BY <1>1, <1>4 DEF NotWritten, Requests, ReplyInv, IdsSuffice
<1>5. n \in Requests
  <2>1. c \in Unsent /\ at[c] = "sending"
    BY DEF Register, Unsent
  <2>2. Cardinality(Unsent) \in Nat /\ Cardinality(Unsent) # 0
    BY <2>1, FS_EmptySet, FS_CardinalityType DEF ReplyInv, IdsSuffice
  <2> QED
    BY <1>1, <2>2, ConstantsAssumption DEF ReplyInv, IdsSuffice, Requests
<1>6. ~Traced(n)
  BY <1>4, <1>5
<1>7. OneTrace' /\ Carried' /\ ClosedFirst' /\ ReplyAnswersItsRequest'
  BY <1>2 DEF OneTrace, Carried, ClosedFirst, ReplyAnswersItsRequest
<1>8. NotWritten'
  <2>1. \A d \in Callers : d # c /\ at'[d] = "writing" => at[d] = "writing" /\ rid'[d] = rid[d]
    BY <1>2 DEF ReplyInv
  <2>2. rid'[c] = n /\ n \in pending'
    BY <1>2 DEF ReplyInv
  <2>3. \A d \in Callers :
          at'[d] = "writing" => ~Traced(rid'[d]) /\ (rid'[d] \in pending' \/ Over)
    BY <1>2, <1>6, <2>1, <2>2 DEF NotWritten
  <2>4. \A r \in Requests : Traced(r) => r <= n
    BY <1>1, <1>4 DEF ReplyInv, IdsSuffice, Requests
  <2>5. \A d \in Callers : Traced(rid[d])' <=> Traced(rid'[d])
    BY <1>2 DEF Traced
  <2> QED
    BY <1>2, <1>3, <2>3, <2>4, <2>5 DEF NotWritten
<1>9. Telling'
  <2>1. ASSUME NEW i \in DOMAIN out, Response(out[i])
        PROVE  out[i].of \in Requests /\ command'[out[i].of] = command[out[i].of]
    BY <1>2, <1>4, <2>1 DEF Telling, Traced, TypeInv, AgentTypes
  <2> QED
    BY <1>2, <2>1 DEF Telling
<1>10. Expected'
  BY <1>2, <1>3 DEF Expected
<1> QED
  BY <1>7, <1>8, <1>9, <1>10

\* A command that is written is traced; one that is not is no longer pending.
LEMMA WriteTraceStep ==
  ASSUME ReplyInv, TypeInv, TraceInv, NEW c \in Callers, Write(c)
  PROVE  TraceInv'
<1> USE DEF TraceInv
<1>1. PICK r : r = rid[c]
  OBVIOUS
<1>2. /\ at[c] = "writing" /\ ~Traced(r) /\ (r \in pending \/ Over)
      /\ UNCHANGED <<out, stdoutOpen, reader, target, phase, command, box, requestId, rid>>
  BY <1>1 DEF Write, NotWritten, runVars, endVars, readerVars
<1>3. r \in Requests /\ r <= requestId
  <2>1. Cardinality(Unsent) \in Nat
    BY FS_CardinalityType DEF ReplyInv, IdsSuffice
  <2> QED
    BY <1>1, <1>2, <2>1, ConstantsAssumption
    DEF ReplyInv, OwnRequests, InFlight, IdsSuffice, Requests
<1>4. \A d \in Callers : at'[d] = "writing" => at[d] = "writing" /\ d # c /\ rid[d] # r
  <2>1. \/ at' = [at EXCEPT ![c] = "awaiting"]
        \/ at' = [at EXCEPT ![c] = "gaveUp"]
        \/ at' = [at EXCEPT ![c] = "out"]
    BY DEF Write, GoTo, Return
  <2>2. \A d \in Callers : at'[d] = "writing" => at[d] = "writing" /\ d # c
    BY <2>1 DEF ReplyInv
  <2> QED
    BY <1>1, <1>2, <2>2 DEF ReplyInv, OwnRequests, InFlight
<1>5. Telling' /\ Carried' /\ ClosedFirst' /\ ReplyAnswersItsRequest' /\ (Over' <=> Over)
  BY <1>2 DEF Telling, Carried, ClosedFirst, ReplyAnswersItsRequest, Over
<1>6. CASE inp' = Append(inp, r) /\ pending' = pending
  <2>1. Grown(inp, inp', r)
    <3>1. inp \in Seq(Requests)
      BY DEF TypeInv, AgentTypes
    <3> QED
      BY <1>3, <1>6, <3>1, AppendGrows
  <2>2. \A q : Traced(q)' <=> Traced(q) \/ q = r
    BY <1>2, <2>1 DEF Grown, Traced
  <2>3. OneTrace'
    BY <1>2, <2>1 DEF OneTrace, Grown, Traced
  <2>4. NotWritten'
    BY <1>2, <1>3, <1>4, <1>5, <1>6, <2>2 DEF NotWritten
  <2>5. Expected'
    BY <1>2, <1>5, <1>6, <2>1 DEF Expected, Grown
  <2> QED
    BY <1>5, <2>3, <2>4, <2>5
<1>7. CASE inp' = inp /\ pending' = pending \ {r}
  <2>1. \A q : Traced(q)' <=> Traced(q)
    BY <1>2, <1>7 DEF Traced
  <2>2. OneTrace'
    BY <1>2, <1>7 DEF OneTrace
  <2>3. NotWritten'
    BY <1>2, <1>4, <1>5, <1>7, <2>1 DEF NotWritten
  <2>4. Expected'
    BY <1>2, <1>5, <1>7 DEF Expected, Traced
  <2> QED
    BY <1>5, <2>2, <2>3, <2>4
<1> QED
  BY <1>1, <1>6, <1>7 DEF Write

\* The head of stdout leaves the pipe, whatever it was.
LEMMA TakeTraceStep ==
  ASSUME TypeInv, TraceInv, out # <<>>, out' = Tail(out), reader' # "putting",
         UNCHANGED <<inp, pending, requestId, command, rid, phase, stdoutOpen>>, Over => Over',
         \A c \in Callers : at'[c] = "writing" => at[c] = "writing",
         ReplyAnswersItsRequest'
  PROVE  TraceInv'
<1> USE DEF TraceInv
<1>1. Shrunk(out, out')
  <2>1. out \in Seq(Lines)
    BY DEF TypeInv, AgentTypes
  <2> QED
    BY <2>1, TailShrinks
<1>2. PICK n \in Nat : /\ DOMAIN out = 1..n + 1 /\ DOMAIN out' = 1..n
                       /\ \A i \in 1..n : out'[i] = out[i + 1]
  BY <1>1 DEF Shrunk
<1>3. \A i \in DOMAIN out' : i \in Nat /\ i + 1 \in DOMAIN out /\ out'[i] = out[i + 1] /\ i + 1 # 1
  BY <1>2
<1>4. \A r : Traced(r)' => Traced(r)
  BY <1>3 DEF Traced
<1>5. OneTrace'
  <2>1. \A i, j \in DOMAIN out' : i + 1 = j + 1 => i = j
    BY <1>3
  <2> QED
    BY <1>3, <2>1 DEF OneTrace
<1>6. NotWritten'
  BY <1>4 DEF NotWritten
<1>7. Telling'
  BY <1>3 DEF Telling
<1>8. Expected'
  BY <1>3 DEF Expected
<1>9. Carried' /\ ClosedFirst'
  BY DEF Carried, ClosedFirst
<1> QED
  BY <1>5, <1>6, <1>7, <1>8, <1>9

\* The reader takes the request of a response out of the pending ones.
LEMMA MatchTraceStep ==
  ASSUME ReplyInv, TypeInv, TraceInv, NEW r \in Requests, MatchResponse(r)
  PROVE  TraceInv'
<1> USE DEF TraceInv
<1>1. PICK f : f = out[1] /\ f = Head(out) /\ 1 \in DOMAIN out
  <2>1. out \in Seq(Lines) /\ out # <<>>
    BY DEF MatchResponse, Frames, TypeInv, AgentTypes
  <2> QED
    BY <2>1, TailShrinks
<1>2. /\ ~Over /\ reader = "reading" /\ Response(f)
      /\ UNCHANGED <<inp, out, requestId, command, box, rid, phase, stdoutOpen, at>>
      /\ pending' = pending \ {r} /\ target' = r /\ reader' = "putting"
      /\ r \in pending
  <2>1. r \in pending
    BY DEF MatchResponse, Correlated
  <2> QED
    BY <1>1, <2>1 DEF MatchResponse, Frames, Over, Popped, agentVars, callVars, endVars
<1>3. /\ f.of \in Requests /\ f.of \in pending
      /\ f.id = f.of \/ (f.id = NoRequest /\ f.cmd \in {command[f.of], "parse"})
  BY <1>1, <1>2 DEF Telling, Expected
<1>4. r = f.of
  <2>1. CASE r = f.id
    BY <1>3, <2>1 DEF Requests, NoRequest
  <2>2. CASE f.id \notin pending /\ r \in Correlated(f)
    <3>1. f.cmd \in {command[f.of], "parse"}
      BY <1>3, <2>2
    <3>2. \A q \in pending : command[q] # "parse"
      <4>1. Cardinality(Unsent) \in Nat
        BY FS_CardinalityType DEF ReplyInv, IdsSuffice
      <4>2. pending \subseteq Requests
        BY <4>1, ConstantsAssumption DEF ReplyInv, AnsweredOnce, IdsSuffice, Requests
      <4> QED
        BY <4>2 DEF TypeInv, AgentTypes
    <3>3. IsFiniteSet(pending)
      <4>1. IsFiniteSet(1..requestId)
        <5>1. 1 \in Int /\ requestId \in Int
          BY DEF ReplyInv, IdsSuffice
        <5> QED
          BY <5>1, FS_Interval
      <4>2. pending \subseteq 1..requestId
        BY DEF ReplyInv, AnsweredOnce
      <4> QED
        BY <4>1, <4>2, FS_Subset
    <3>4. DEFINE matching == {q \in pending : command[q] = f.cmd}
    <3>5. CASE Cardinality(matching) = 1 /\ r \in matching
      <4>1. f.cmd = command[f.of] /\ f.of \in matching
        BY <1>3, <3>1, <3>2, <3>5
      <4>2. IsFiniteSet(matching)
        BY <3>3, FS_Subset
      <4> QED
        BY <3>5, <4>1, <4>2, FS_Singleton
    <3>6. CASE Cardinality(pending) = 1 /\ r \in pending
      BY <1>3, <3>3, <3>6, FS_Singleton
    <3> QED
      BY <2>2, <3>5, <3>6 DEF Correlated
  <2> QED
    BY <1>1, <2>1, <2>2 DEF MatchResponse
<1>5. OneTrace' /\ Telling' /\ ClosedFirst' /\ ReplyAnswersItsRequest'
  BY <1>2 DEF OneTrace, Telling, ClosedFirst, ReplyAnswersItsRequest
<1>6. Traced(r) /\ (\A q : Traced(q)' <=> Traced(q)) /\ ~Over'
  BY <1>1, <1>2, <1>4 DEF Traced, Over
<1>7. NotWritten'
  <2>1. \A c \in Callers : at[c] = "writing" => rid[c] # r
    BY <1>6 DEF NotWritten
  <2> QED
    BY <1>2, <1>6, <2>1 DEF NotWritten
<1>8. Expected'
  <2>1. \A i \in DOMAIN inp : inp[i] # r
    BY <1>1, <1>2, <1>4 DEF OneTrace
  <2>2. \A i \in DOMAIN out : Response(out[i]) /\ out[i].of = r => i = 1
    BY <1>1, <1>2, <1>4 DEF OneTrace
  <2> QED
    BY <1>2, <1>6, <2>1, <2>2 DEF Expected
<1>9. Carried'
  BY <1>1, <1>2, <1>4 DEF Carried
<1> QED
  BY <1>5, <1>7, <1>8, <1>9

\* A response is put into the queue of the request that it is about.
LEMMA PutTraceStep ==
  ASSUME ReplyInv, TypeInv, TraceInv, Put
  PROVE  TraceInv'
<1>1. /\ UNCHANGED <<inp, pending, requestId, command, rid, phase, stdoutOpen, at>>
      /\ reader = "putting" /\ reader' = "reading" /\ out' = Tail(out) /\ out # <<>>
      /\ target \in Requests
  BY DEF Put, Take, callVars, endVars, TypeInv, ReaderTypes, ReplyInv, AnsweredOnce
<1>2. PICK f : f = Head(out) /\ f.of = target
  <2>1. out \in Seq(Lines)
    BY DEF TypeInv, AgentTypes
  <2> QED
    BY <1>1, <2>1, TailShrinks DEF TraceInv, Carried
<1>3. box' = [box EXCEPT ![target] = <<f>>]
  BY <1>2 DEF Put
<1>4. ReplyAnswersItsRequest'
  <2>1. DOMAIN <<f>> = {1} /\ <<f>>[1] = f
    OBVIOUS
  <2>2. box'[target] = <<f>> /\ \A r \in Requests : r # target => box'[r] = box[r]
    BY <1>1, <1>3 DEF ReplyInv
  <2>3. ASSUME NEW r \in Requests, NEW i \in DOMAIN box'[r]
        PROVE  box'[r][i].type = "closed" \/ box'[r][i].of = r
    <3>1. CASE r = target
      BY <1>2, <2>1, <2>2, <2>3, <3>1
    <3>2. CASE r # target
      BY <2>2, <2>3, <3>2 DEF TraceInv, ReplyAnswersItsRequest
    <3> QED
      BY <3>1, <3>2
  <2> QED
    BY <2>3 DEF ReplyAnswersItsRequest
<1> QED
  BY <1>1, <1>4, TakeTraceStep DEF Over

\* The other steps of the reader.
LEMMA ReaderTraceStep ==
  ASSUME ReplyInv, TypeInv, TraceInv, ReaderStep
  PROVE  TraceInv'
<1>1. CASE Put \/ \E r \in Requests : MatchResponse(r)
  BY <1>1, PutTraceStep, MatchTraceStep
<1>2. CASE Unmatched \/ ReadEvent \/ ReadBadEnd \/ \E t \in ToolCalls : ReadToolCall(t)
  <2>1. /\ out # <<>> /\ out' = Tail(out) /\ reader = "reading" /\ reader' # "putting"
        /\ UNCHANGED <<inp, pending, requestId, command, box, rid, phase, stdoutOpen>>
    BY <1>2 DEF Unmatched, ReadEvent, ReadBadEnd, ReadToolCall, Frames, Take, replyVars,
       callVars, endVars, readerVars
  <2>2. at' = at \/ NotifyAll
    BY <1>2 DEF Unmatched, ReadEvent, ReadBadEnd, ReadToolCall
  <2>3. \A c \in Callers : at'[c] = "writing" => at[c] = "writing"
    BY <2>2 DEF NotifyAll
  <2>4. ReplyAnswersItsRequest'
    BY <2>1 DEF TraceInv, ReplyAnswersItsRequest
  <2> QED
    BY <2>1, <2>3, <2>4, TakeTraceStep DEF Over
<1>3. CASE Complete \/ ReaderFails \/ ReaderEnds
  <2>1. /\ UNCHANGED <<inp, out, pending, requestId, command, target, box, rid, phase, stdoutOpen>>
        /\ reader \notin {"putting", "exited"}
        /\ \/ reader = "completing" /\ reader' = "reading"
           \/ reader' \in {"closing", "exited"}
    BY <1>3 DEF Complete, ReaderFails, ReaderEnds, Frames, replyVars, callVars, endVars,
       agentVars
  <2>2. at' = at \/ NotifyAll
    BY <1>3 DEF Complete, ReaderFails, ReaderEnds
  <2>3. \A c \in Callers : at'[c] = "writing" => at[c] = "writing"
    BY <2>2 DEF NotifyAll
  <2>4. ReplyAnswersItsRequest' /\ ClosedFirst'
    BY <2>1 DEF TraceInv, ReplyAnswersItsRequest, ClosedFirst
  <2>5. CASE reader' \in {"closing", "exited"}
    BY <2>1, <2>3, <2>4, <2>5, TraceUntouched DEF Over
  <2>6. CASE reader = "completing" /\ reader' = "reading"
    <3>1. Over' <=> Over
      BY <2>1, <2>6 DEF Over
    <3>2. \A r : Traced(r)' <=> Traced(r)
      BY <2>1 DEF Traced
    <3>3. OneTrace' /\ Telling' /\ Expected' /\ Carried'
      BY <2>1, <2>6, <3>1 DEF TraceInv, OneTrace, Telling, Expected, Carried
    <3>4. NotWritten'
      BY <2>1, <2>3, <3>1, <3>2 DEF TraceInv, NotWritten
    <3> QED
      BY <2>4, <3>3, <3>4 DEF TraceInv
  <2> QED
    BY <2>1, <2>5, <2>6
<1> QED
  BY <1>1, <1>2, <1>3 DEF ReaderStep

\* What is pending fails once nothing is read any more.
LEMMA MarkTraceStep ==
  ASSUME EndInv, ReplyInv, TypeInv, TraceInv, NEW m \in Markers, MarkStep(m)
  PROVE  TraceInv'
<1>1. /\ UNCHANGED <<inp, out, requestId, command, target, reader, rid, phase, stdoutOpen>>
      /\ \A c \in Callers : at'[c] = "writing" => at[c] = "writing"
  <2>1. at' = at \/ NotifyAll
    BY DEF MarkStep, MarkCheck, MarkSet, MarkFail, MarkNotify
  <2>2. \A c \in Callers : at'[c] = "writing" => at[c] = "writing"
    BY <2>1 DEF NotifyAll
  <2> QED
    BY <2>2 DEF MarkStep, MarkCheck, MarkSet, MarkFail, MarkNotify, Marking, agentVars,
       callVars, readerVars
<1>2. ClosedFirst'
  BY <1>1 DEF TraceInv, ClosedFirst
<1>3. CASE ~MarkFail(m)
  <2>1. UNCHANGED <<pending, box>>
    BY <1>3 DEF MarkStep, MarkCheck, MarkSet, MarkNotify
  <2>2. ReplyAnswersItsRequest'
    BY <2>1 DEF TraceInv, ReplyAnswersItsRequest
  <2> QED
    BY <1>1, <1>2, <2>1, <2>2, TraceUntouched DEF Over
<1>4. CASE MarkFail(m)
  <2>1. Over
    <3>1. CASE m = Reader
      BY <1>4, <3>1 DEF MarkFail, Marking, EndInv, MarkersAtWork, Over
    <3>2. CASE m \in Stoppers
      BY <1>4, <3>2 DEF MarkFail, Marking, EndInv, MarkersAtWork, Over, TraceInv, ClosedFirst
    <3> QED
      BY <3>1, <3>2 DEF Markers
  <2>2. Over'
    BY <1>1, <2>1 DEF Over
  <2>3. OneTrace' /\ Telling' /\ Carried' /\ Expected'
    BY <1>1, <2>2 DEF TraceInv, OneTrace, Telling, Carried, Expected
  <2>4. NotWritten'
    <3>1. \A r : Traced(r)' <=> Traced(r)
      BY <1>1 DEF Traced
    <3> QED
      BY <1>1, <2>2, <3>1 DEF TraceInv, NotWritten
  <2>5. ReplyAnswersItsRequest'
    <3>1. ASSUME NEW r \in Requests, NEW i \in DOMAIN box'[r]
          PROVE  box'[r][i].type = "closed" \/ box'[r][i].of = r
      <4>1. CASE r \notin pending
        BY <1>4, <3>1, <4>1 DEF MarkFail, TraceInv, ReplyAnswersItsRequest
      <4>2. CASE r \in pending
        <5>1. box[r] = <<>> /\ box'[r] = Append(box[r], Closed)
          BY <1>4, <4>2 DEF MarkFail, ReplyInv, AnsweredOnce
        <5>2. box'[r] = <<Closed>>
          BY <5>1
        <5>3. DOMAIN <<Closed>> = {1} /\ <<Closed>>[1] = Closed
          OBVIOUS
        <5> QED
          BY <3>1, <5>2, <5>3 DEF Closed, Frame
      <4> QED
        BY <4>1, <4>2
    <3> QED
      BY <3>1 DEF ReplyAnswersItsRequest
  <2> QED
    BY <1>2, <2>3, <2>4, <2>5 DEF TraceInv
<1> QED
  BY <1>3, <1>4

\* stop() closes stdout before it marks the client closed.
LEMMA StopTraceStep ==
  ASSUME Hooks = {}, EndInv, TraceInv, NEW s \in Stoppers, StopBegins(s) \/ StopContinues(s)
  PROVE  TraceInv'
<1>1. /\ UNCHANGED <<inp, out, pending, requestId, command, target, reader, box, rid, at>>
      /\ stdoutOpen' = stdoutOpen \/ stdoutOpen' = FALSE
  BY DEF StopBegins, StopContinues, StopIterates, StopClosesStdin, StopKills, StopClosesStdout,
     StopClears, HookMarks, Stopping, replyVars, callVars, readerVars
<1>2. ClosedFirst'
  <2>1. \/ phase' = [phase EXCEPT ![s] = "marking"] /\ ~stdoutOpen'
        \/ /\ stdoutOpen' = stdoutOpen
           /\ \E p \in StopPhases \ {"marking", "hookMarking"} : phase' = [phase EXCEPT ![s] = p]
    BY DEF StopBegins, StopContinues, StopIterates, StopClosesStdin, StopKills,
       StopClosesStdout, StopClears, HookMarks, Stopping, StopPhases
  <2> QED
    BY <2>1 DEF TraceInv, ClosedFirst, EndInv
<1>3. ReplyAnswersItsRequest'
  BY <1>1 DEF TraceInv, ReplyAnswersItsRequest
<1> QED
  BY <1>1, <1>2, <1>3, TraceUntouched DEF Over

\* The agent answers the command it reads; what else it writes is no response.
LEMMA AgentTraceStep ==
  ASSUME "late" \notin AgentFaults, ReplyInv, TypeInv, TraceInv, AgentStep
  PROVE  TraceInv'
<1> USE DEF TraceInv
<1>1. UNCHANGED <<pending, requestId, command, target, reader, box, rid, at, stdoutOpen, phase>>
  BY DEF AgentStep, AgentReads, AgentStarts, AgentEnds, AgentBreaks, AgentEmits, AgentCallsTool,
     Agent, replyVars, callVars, readerVars
<1>2. ClosedFirst' /\ ReplyAnswersItsRequest' /\ (Over' <=> Over)
  BY <1>1 DEF ClosedFirst, ReplyAnswersItsRequest, Over
<1>3. inp \in Seq(Requests) /\ out \in Seq(Lines)
  BY DEF TypeInv, AgentTypes
<1>4. CASE out' = out /\ inp' = inp
  BY <1>1, <1>2, <1>4, TraceUntouched
<1>5. ASSUME NEW f \in Lines, ~Response(f), out' = Append(out, f), inp' = inp
      PROVE  TraceInv'
  <2>1. Grown(out, out', f)
    BY <1>3, <1>5, AppendGrows
  <2>2. PICK n \in Nat : /\ DOMAIN out = 1..n /\ DOMAIN out' = 1..n + 1 /\ out'[n + 1] = f
                         /\ \A i \in 1..n : out'[i] = out[i]
    BY <2>1 DEF Grown
  <2>3. \A i \in DOMAIN out' : Response(out'[i]) => i \in DOMAIN out /\ out'[i] = out[i]
    BY <1>5, <2>2
  <2>4. \A r : Traced(r)' <=> Traced(r)
    BY <1>5, <2>2, <2>3 DEF Traced
  <2>5. OneTrace'
    BY <1>5, <2>3 DEF OneTrace
  <2>6. NotWritten'
    BY <1>1, <1>2, <2>4 DEF NotWritten
  <2>7. Telling'
    BY <1>1, <2>3 DEF Telling
  <2>8. Expected'
    BY <1>1, <1>2, <1>5, <2>3 DEF Expected
  <2>9. Carried'
    BY <1>1, <1>3, <2>2 DEF Carried, TypeInv, ReaderTypes
  <2> QED
    BY <1>2, <2>5, <2>6, <2>7, <2>8, <2>9
<1>6. CASE AgentReads
  <2>1. PICK r : r = inp[1] /\ r = Head(inp) /\ 1 \in DOMAIN inp /\ r \in Requests
    <3>1. inp # <<>>
      BY <1>6 DEF AgentReads
    <3> QED
      BY <1>3, <3>1, TailShrinks
  <2>2. PICK f : /\ f \in {Frame("reply", r, command[r], r), Frame("error", r, command[r], r),
                           Frame("error", NoRequest, command[r], r),
                           Frame("error", NoRequest, "parse", r)}
                 /\ out' = Append(out, f)
    BY <1>6, <2>1 DEF AgentReads, Emit
  <2>3. /\ f \in Lines /\ Response(f) /\ f.of = r
        /\ \/ f.id = r
           \/ f.id = NoRequest /\ f.type = "error" /\ f.cmd \in {command[r], "parse"}
    <3>1. command[r] \in {"none", "prompt", "request"}
      BY <2>1 DEF TypeInv, AgentTypes
    <3> QED
      BY <2>1, <2>2, <3>1 DEF Lines, Frame, Response
  <2>4. PICK n \in Nat : /\ DOMAIN out = 1..n /\ DOMAIN out' = 1..n + 1 /\ out'[n + 1] = f
                         /\ \A i \in 1..n : out'[i] = out[i]
    <3>1. Grown(out, out', f)
      BY <1>3, <2>2, <2>3, AppendGrows
    <3> QED
      BY <3>1 DEF Grown
  <2>5. PICK k \in Nat : /\ DOMAIN inp = 1..k + 1 /\ DOMAIN inp' = 1..k
                         /\ \A i \in 1..k : inp'[i] = inp[i + 1]
    <3>1. inp # <<>> /\ inp' = Tail(inp)
      BY <1>6 DEF AgentReads
    <3>2. Shrunk(inp, inp')
      BY <1>3, <3>1, TailShrinks
    <3> QED
      BY <3>2 DEF Shrunk
  <2>6. \A i \in DOMAIN inp' :
          i \in Nat /\ i + 1 \in DOMAIN inp /\ inp'[i] = inp[i + 1] /\ i + 1 # 1
    BY <2>5
  <2>7. \A i \in DOMAIN out' :
          (i \in DOMAIN out /\ out'[i] = out[i]) \/ (i = n + 1 /\ out'[i] = f)
    BY <2>4
  <2>8. \A q : Traced(q)' => Traced(q)
    BY <2>1, <2>3, <2>6, <2>7 DEF Traced
  <2>9. OneTrace'
    <3>1. \A i, j \in DOMAIN inp' : inp'[i] = inp'[j] => i = j
      <4>1. \A i, j \in DOMAIN inp' : i + 1 = j + 1 => i = j
        BY <2>6
      <4> QED
        BY <2>6, <4>1 DEF OneTrace
    <3>2. \A i \in DOMAIN out : Response(out[i]) => out[i].of # r
      BY <2>1 DEF OneTrace
    <3>3. \A i, j \in DOMAIN out' :
            Response(out'[i]) /\ Response(out'[j]) /\ out'[i].of = out'[j].of => i = j
      BY <2>3, <2>7, <3>2 DEF OneTrace
    <3>4. \A i \in DOMAIN inp' : inp'[i] # r
      BY <2>1, <2>6 DEF OneTrace
    <3>5. \A i \in DOMAIN inp', j \in DOMAIN out' : Response(out'[j]) => out'[j].of # inp'[i]
      BY <2>3, <2>6, <2>7, <3>4 DEF OneTrace
    <3> QED
      BY <3>1, <3>3, <3>5 DEF OneTrace
  <2>10. NotWritten'
    BY <1>1, <1>2, <2>8 DEF NotWritten
  <2>11. Telling'
    BY <1>1, <2>1, <2>3, <2>7 DEF Telling
  <2>12. Expected'
    BY <1>1, <1>2, <2>1, <2>3, <2>6, <2>7 DEF Expected
  <2>13. Carried'
    <3>1. reader = "putting" => 1 \in DOMAIN out
      BY <1>3, <2>4 DEF TypeInv, ReaderTypes
    <3> QED
      BY <1>1, <2>4, <3>1 DEF Carried
  <2> QED
    BY <1>2, <2>9, <2>10, <2>11, <2>12, <2>13
<1>7. CASE AgentStarts
  BY <1>4, <1>7 DEF AgentStarts, May
<1>8. CASE ~AgentReads /\ ~AgentStarts
  <2>1. /\ inp' = inp
        /\ \/ out' = out
           \/ \E type \in {"agent_end", "badEnd", "event", "continued", "toolCall"} :
                out' = Append(out, Frame(type, NoRequest, "none", run))
           \/ out' = Append(out, Frame("garbage", NoRequest, "none", NoRequest))
    BY <1>8 DEF AgentStep, AgentEnds, AgentBreaks, AgentEmits, AgentCallsTool, Emit
  <2>2. /\ \A type \in {"agent_end", "badEnd", "event", "continued", "toolCall"} :
             LET f == Frame(type, NoRequest, "none", run) IN f \in Lines /\ ~Response(f)
        /\ LET f == Frame("garbage", NoRequest, "none", NoRequest) IN f \in Lines /\ ~Response(f)
    BY DEF Frame, Lines, Response, TypeInv, AgentTypes
  <2> QED
    BY <1>4, <1>5, <2>1, <2>2
<1> QED
  BY <1>6, <1>7, <1>8

\* What the reader delivers to a request is about that request, also when the reply has
\* no id: as long as no wait reaches a deadline, no accepted prompt fails late and no
\* hook marks the client closed before stdout is, for then nothing that is pending has
\* lost its reply.
THEOREM RpcReplyAnswersItsRequest ==
  ASSUME Timeouts = FALSE, Hooks = {}, "late" \notin AgentFaults
  PROVE  Spec => []ReplyAnswersItsRequest
<1>1. ASSUME Init
      PROVE  TraceInv
  <2>1. /\ DOMAIN inp = {} /\ DOMAIN out = {} /\ reader = "reading"
        /\ \A r \in Requests : DOMAIN box[r] = {}
    BY <1>1 DEF Init
  <2>2. OneTrace /\ Telling /\ Expected /\ Carried /\ ReplyAnswersItsRequest
    BY <2>1 DEF OneTrace, Telling, Expected, Carried, ReplyAnswersItsRequest
  <2>3. NotWritten /\ ClosedFirst
    BY <1>1, <2>1 DEF Init, NotWritten, Traced, ClosedFirst
  <2> QED
    BY <2>2, <2>3 DEF TraceInv
<1>2. ASSUME EndInv, ReplyInv, TypeInv, TraceInv, [Next]_vars
      PROVE  TraceInv'
  <2>1. CASE UNCHANGED vars
    <3>1. UNCHANGED <<inp, out, pending, requestId, command, target, reader, box, rid, at,
                      stdoutOpen, phase>>
      BY <2>1 DEF vars, agentVars, replyVars, endVars, callVars, readerVars
    <3> QED
      BY <1>2, <3>1, TraceUntouched DEF Over, TraceInv, ClosedFirst, ReplyAnswersItsRequest
  <2>2. CASE \E t \in ToolCalls : ToolEnds(t)
    <3>1. UNCHANGED <<inp, out, pending, requestId, command, target, reader, box, rid, at,
                      stdoutOpen, phase>>
      BY <2>2 DEF ToolEnds, agentVars, replyVars, callVars, readerVars
    <3> QED
      BY <1>2, <3>1, TraceUntouched DEF Over, TraceInv, ClosedFirst, ReplyAnswersItsRequest
  <2>3. ASSUME NEW c \in Callers, Caller(c)
        PROVE  TraceInv'
    <3>1. requestId' = requestId \/ Register(c)
      BY <2>3 DEF Caller, Refused, Acquire, Send, ReadEventIndex, ReadErrorIndex,
         CheckAsyncErrors, Write, GetReply, RequestTimesOut, MarkScheduled, Collect,
         WaitTimesOut, replyVars
    <3> QED
      BY <1>2, <2>3, <3>1, CallTraceStep, RegisterTraceStep, WriteTraceStep
  <2> QED
    BY <1>2, <2>1, <2>2, <2>3, ReaderTraceStep, MarkTraceStep, StopTraceStep, AgentTraceStep
    DEF Next
<1>3. Init => TraceInv
  BY <1>1
<1>4. EndInv /\ ReplyInv /\ TypeInv /\ TraceInv /\ [Next]_vars => TraceInv'
  BY <1>2
<1>5. TraceInv => ReplyAnswersItsRequest
  BY DEF TraceInv
<1> QED
  BY <1>3, <1>4, <1>5, EndAndWakeInvariant, TypeInvariant, PTL DEF Spec

-----------------------------------------------------------------------------
\* The driver of robomp: one caller, which prompts only to wait for the end of the turn
\* and calls no more after an error.
OneDriver ==
  GivesUp = TRUE /\ (\E c : Callers = {c}) /\ "prompt" \notin Operations

\* c has read the event index that its collection begins at.
Collects(c) ==
  /\ op[c] \in Collecting
  /\ at[c] \in {"indexed", "sending", "writing", "awaiting", "accepted", "collecting", "waiting"}

\* c has written a prompt whose end it is going to wait for.
InTurn(c) ==
  op[c] = "prompt_and_wait" /\ at[c] \in {"awaiting", "accepted", "collecting", "waiting"}

\* The traces of a prompt r from its command to the end that c collects.
Mark(c, place, i, r) ==
  \/ place = "inp" /\ i \in DOMAIN inp /\ command[inp[i]] = "prompt" /\ r = inp[i]
  \/ place = "todo" /\ i \in DOMAIN todo /\ r = todo[i]
  \/ place = "run" /\ i = 0 /\ run # NoRequest /\ r = run
  \/ place = "out" /\ i \in DOMAIN out /\ out[i].type = "agent_end" /\ r = out[i].of
  \/ /\ place = "history" /\ i \in DOMAIN events /\ Terminal(events[i]) /\ r = events[i].of
     /\ Collects(c) /\ offset + i > start[c]
Places == {"inp", "todo", "run", "out", "history"}

\* While the driver goes on there is one at most, and it is of the prompt it waits for.
OneMark ==
  \A c \in Callers : at[c] # "gaveUp" =>
    /\ \A p, q \in Places, i, j \in Nat, r, s \in Requests :
         Mark(c, p, i, r) /\ Mark(c, q, j, s) => p = q /\ i = j
    /\ \A p \in Places, i \in Nat, r \in Requests : Mark(c, p, i, r) => InTurn(c) /\ r = rid[c]

\* An agent_end is that of a prompt which has ended.
EndsAreTrue ==
  /\ \A i \in DOMAIN out : out[i].type = "agent_end" => out[i].of \in ended
  /\ \A i \in DOMAIN events : Terminal(events[i]) => events[i].of \in ended

\* What is written has an id, and only a prompt of prompt_and_wait is a prompt.
WrittenAsCalled ==
  /\ \A i \in DOMAIN inp : inp[i] <= requestId
  /\ \A c \in Callers : at[c] = "idle" => op[c] = "wait_for_idle"
  /\ \A c \in Callers : at[c] = "writing" /\ command[rid[c]] = "prompt" => op[c] = "prompt_and_wait"

OwnTurnInv == OneMark /\ EndsAreTrue /\ WrittenAsCalled /\ TurnIsItsOwn

\* Nothing is under way for a driver that is not in a turn.
LEMMA NoMarks ==
  ASSUME OneMark, NEW c \in Callers, at[c] # "gaveUp", ~InTurn(c)
  PROVE  \A p \in Places, i \in Nat, r \in Requests : ~Mark(c, p, i, r)
BY DEF OneMark

\* A step of somebody else moves the one mark there is, or drops it.
LEMMA MarksFollow ==
  ASSUME OneMark, UNCHANGED <<op, rid>>, at' = at \/ NotifyAll,
         \A c \in Callers : at[c] # "gaveUp" =>
           /\ \A p \in Places, i \in Nat, r \in Requests :
                Mark(c, p, i, r)' => \E q \in Places, j \in Nat : Mark(c, q, j, r)
           /\ \A p, q \in Places, i, j \in Nat, r, s \in Requests :
                Mark(c, p, i, r)' /\ Mark(c, q, j, s)' => p = q /\ i = j
  PROVE  OneMark'
<1>1. ASSUME NEW c \in Callers
      PROVE  /\ at'[c] # "gaveUp" => at[c] # "gaveUp"
             /\ InTurn(c) => InTurn(c)'
  BY DEF NotifyAll, InTurn
<1>2. ASSUME NEW c \in Callers, at'[c] # "gaveUp"
      PROVE  /\ \A p, q \in Places, i, j \in Nat, r, s \in Requests :
                  Mark(c, p, i, r)' /\ Mark(c, q, j, s)' => p = q /\ i = j
             /\ \A p \in Places, i \in Nat, r \in Requests :
                  Mark(c, p, i, r)' => InTurn(c)' /\ r = rid'[c]
  BY <1>1, <1>2 DEF OneMark
<1> QED
  BY <1>2 DEF OneMark

\* A step that touches neither the commands nor the history leaves the marks.
LEMMA MarksStay ==
  ASSUME OneMark, UNCHANGED <<op, rid, start, inp, command, todo, run, out, events, offset>>,
         at' = at \/ NotifyAll
  PROVE  OneMark'
<1>1. \A c \in Callers : Collects(c)' => Collects(c)
  BY DEF Collects, NotifyAll
<1>2. \A c \in Callers : \A p, i, r : Mark(c, p, i, r)' => Mark(c, p, i, r)
  BY <1>1 DEF Mark
<1> QED
  BY <1>2, MarksFollow DEF OneMark

\* A collection that ends well has found the end of a run.
LEMMA EndIsSeen ==
  ASSUME TypeInv, EndsAreTrue, NEW c \in Callers, Outcome(c) = "ok", Collects(c)
  PROVE  \E i \in Nat, r \in Requests : Mark(c, "history", i, r)
<1>1. PICK k \in Int : k = start[c] - offset
  BY DEF TypeInv, CallTypes, HistoryTypes
<1>2. k >= 0 /\ HasEnded(SnapshotFrom(start[c]))
  BY <1>1 DEF Outcome, TypeInv, CallTypes, HistoryTypes
<1>3. HasEnded(SubSeq(events, k + 1, Len(events)))
  BY <1>1, <1>2 DEF SnapshotFrom
<1>4. PICK i \in DOMAIN SubSeq(events, k + 1, Len(events)) :
             Terminal(SubSeq(events, k + 1, Len(events))[i])
  BY <1>3 DEF HasEnded
<1>5. PICK n \in Nat : n = Len(events) /\ events \in Seq(Lines) /\ DOMAIN events = 1..n
  BY DEF TypeInv, HistoryTypes
<1>6. i \in Nat /\ 1 <= i /\ k + i \in DOMAIN events /\ Terminal(events[k + i])
  <2>1. k \in Nat
    BY <1>2
  <2>2. \A x \in DOMAIN SubSeq(events, k + 1, n) :
          /\ x \in Nat /\ 1 <= x /\ x + k <= n
          /\ SubSeq(events, k + 1, n)[x] = events[k + 1 + x - 1]
    BY <1>5, <2>1
  <2>3. i \in Nat /\ 1 <= i /\ i + k <= n /\ Terminal(events[k + 1 + i - 1])
    BY <1>4, <1>5, <2>2
  <2>4. k + 1 + i - 1 = k + i
    BY <2>1, <2>3
  <2> QED
    BY <1>5, <2>1, <2>3, <2>4
<1>7. offset + (k + i) > start[c] /\ k + i \in Nat
  <2>1. start[c] \in Nat /\ offset \in Nat /\ k \in Nat /\ i \in Nat /\ 1 <= i
    BY <1>2, <1>6 DEF TypeInv, CallTypes, HistoryTypes
  <2>2. \A b, o, d, m \in Nat : d = b - o /\ 1 <= m => o + (d + m) > b /\ d + m \in Nat
    OBVIOUS
  <2> QED
    BY <1>1, <2>1, <2>2
<1>8. events[k + i].of \in Requests
  BY <1>6 DEF EndsAreTrue, TypeInv, AgentTypes
<1> QED
  BY <1>6, <1>7, <1>8 DEF Mark

\* The driver begins, goes on, gives up or returns.
LEMMA CallMarkStep ==
  ASSUME OneDriver, ReplyInv, TypeInv, OneMark, EndsAreTrue, WrittenAsCalled, NEW c \in Callers,
         Caller(c), inp' = inp
  PROVE  OneMark'
<1>1. UNCHANGED <<inp, todo, run, out, events, offset>>
  BY DEF Caller, Refused, Acquire, Send, ReadEventIndex, ReadErrorIndex, CheckAsyncErrors,
     Register, Write, GetReply, RequestTimesOut, MarkScheduled, Collect, WaitTimesOut, agentVars,
     runVars
<1>2. \A i \in DOMAIN inp : command'[inp[i]] = command[inp[i]]
  <2>1. command' = command \/ Register(c)
    BY DEF Caller, Refused, Acquire, Send, ReadEventIndex, ReadErrorIndex, CheckAsyncErrors,
       Write, GetReply, RequestTimesOut, MarkScheduled, Collect, WaitTimesOut, replyVars
  <2>2. CASE Register(c)
    <3>1. PICK n : n = requestId + 1
      OBVIOUS
    <3>2. command' = command \/ \E x : command' = [command EXCEPT ![n] = x]
      BY <2>2, <3>1 DEF Register, replyVars
    <3>3. \A i \in DOMAIN inp : inp[i] # n /\ inp[i] \in Requests
      BY <3>1 DEF WrittenAsCalled, ReplyInv, IdsSuffice, TypeInv, AgentTypes
    <3> QED
      BY <3>2, <3>3 DEF TypeInv, AgentTypes
  <2> QED
    BY <2>1, <2>2
<1>3. \A p, i, r : p # "history" => (Mark(c, p, i, r)' => Mark(c, p, i, r))
  BY <1>1, <1>2 DEF Mark
<1>4. \A i, r : Mark(c, "history", i, r)' => Mark(c, "history", i, r)
  <2>1. Collects(c)' => start'[c] = CurrentIndex \/ (Collects(c) /\ start'[c] = start[c])
    <3>1. ASSUME NEW status, Return(c, status)
          PROVE  ~Collects(c)'
      BY <3>1 DEF Return, Collects, TypeInv, CallTypes
    <3>2. ASSUME GoTo(c, "writing") \/ GoTo(c, "awaiting") \/ GoTo(c, "accepted")
                   \/ GoTo(c, "collecting") \/ GoTo(c, "waiting"),
                 op' = op, at[c] \in {"sending", "writing", "awaiting", "accepted", "collecting"}
          PROVE  Collects(c)' => Collects(c) /\ start'[c] = start[c]
      BY <3>2 DEF GoTo, Collects
    <3>3. ASSUME NEW o \in Operations, Refused(c, o) \/ Acquire(c, o) \/ Send(c, o)
          PROVE  Collects(c)' => start'[c] = CurrentIndex
      <4>1. CASE Refused(c, o)
        BY <4>1 DEF Refused, MayCall, Collects
      <4>2. CASE Acquire(c, o)
        BY <4>2 DEF Acquire, Collects, TypeInv, CallTypes
      <4>3. CASE Send(c, o)
        BY <4>3 DEF Send, MayCall, GoTo, Collects, Collecting, TypeInv, CallTypes
      <4> QED
        BY <3>3, <4>1, <4>2, <4>3
    <3>4. CASE ReadEventIndex(c) \/ ReadErrorIndex(c)
      BY <3>4 DEF ReadEventIndex, ReadErrorIndex, Collects, TypeInv, CallTypes
    <3>5. CASE CheckAsyncErrors(c) \/ RequestTimesOut(c) \/ Collect(c) \/ WaitTimesOut(c)
      BY <3>1, <3>2, <3>5 DEF CheckAsyncErrors, RequestTimesOut, Collect, WaitTimesOut
    <3>6. CASE Register(c) \/ Write(c) \/ GetReply(c) \/ MarkScheduled(c)
      BY <3>1, <3>2, <3>6 DEF Register, Write, GetReply, MarkScheduled
    <3> QED
      BY <3>3, <3>4, <3>5, <3>6 DEF Caller
  <2>2. \A i \in DOMAIN events : ~(offset + i > CurrentIndex)
    BY DEF CurrentIndex, TypeInv, HistoryTypes
  <2> QED
    BY <1>1, <2>1, <2>2 DEF Mark
<1>5. \/ at'[c] = "gaveUp"
      \/ InTurn(c) => InTurn(c)' /\ rid'[c] = rid[c]
      \/ Outcome(c) = "ok" /\ at[c] \in {"collecting", "waiting"} /\ at'[c] = "out"
  BY DEF Caller, Refused, Acquire, Send, ReadEventIndex, ReadErrorIndex, CheckAsyncErrors,
     Register, Write, GetReply, RequestTimesOut, MarkScheduled, Collect, WaitTimesOut, MayCall,
     GoTo, Return, InTurn, OneDriver, TypeInv, CallTypes, Prompting
<1>6. at'[c] # "gaveUp" => at[c] # "gaveUp"
  BY DEF Caller, Refused, Acquire, Send, ReadEventIndex, ReadErrorIndex, CheckAsyncErrors,
     Register, Write, GetReply, RequestTimesOut, MarkScheduled, Collect, WaitTimesOut, MayCall
<1>7. CASE at'[c] # "gaveUp" /\ (InTurn(c) => InTurn(c)' /\ rid'[c] = rid[c])
  <2>1. \A p \in Places, i \in Nat, r \in Requests : Mark(c, p, i, r)' => Mark(c, p, i, r)
    BY <1>3, <1>4
  <2>2. at[c] # "gaveUp" /\ \A d \in Callers : d = c
    BY <1>6, <1>7 DEF OneDriver
  <2>3. \A p, q \in Places, i, j \in Nat, r, s \in Requests :
          Mark(c, p, i, r)' /\ Mark(c, q, j, s)' => p = q /\ i = j
    BY <2>1, <2>2 DEF OneMark
  <2>4. \A p \in Places, i \in Nat, r \in Requests : Mark(c, p, i, r)' => InTurn(c)' /\ r = rid'[c]
    BY <1>7, <2>1, <2>2 DEF OneMark
  <2>5. ASSUME NEW d \in Callers
        PROVE  /\ \A p, q \in Places, i, j \in Nat, r, s \in Requests :
                    Mark(d, p, i, r)' /\ Mark(d, q, j, s)' => p = q /\ i = j
               /\ \A p \in Places, i \in Nat, r \in Requests :
                    Mark(d, p, i, r)' => InTurn(d)' /\ r = rid'[d]
    BY <2>2, <2>3, <2>4
  <2> QED
    BY <2>5 DEF OneMark
<1>8. CASE Outcome(c) = "ok" /\ at[c] \in {"collecting", "waiting"} /\ at'[c] = "out" /\ InTurn(c)
  <2>1. \E i \in Nat, r \in Requests : Mark(c, "history", i, r)
    BY <1>8, EndIsSeen DEF Collects, InTurn, Collecting
  <2>2. \A p \in Places, i \in Nat, r \in Requests : ~Mark(c, p, i, r)'
    <3>1. ~Collects(c)'
      BY <1>8 DEF Collects
    <3>2. \A i, r : ~Mark(c, "history", i, r)'
      BY <3>1 DEF Mark
    <3> QED
      BY <1>3, <1>8, <2>1, <3>2 DEF OneMark, Places
  <2> QED
    BY <2>2 DEF OneMark, OneDriver
<1> QED
  BY <1>5, <1>7, <1>8 DEF OneMark, OneDriver

\* The command of a turn is the first mark of its prompt.
LEMMA WriteMarkStep ==
  ASSUME OneDriver, ReplyInv, TypeInv, OneMark, WrittenAsCalled, NEW c \in Callers, Write(c),
         inp' # inp
  PROVE  OneMark'
<1>1. PICK r : r = rid[c]
  OBVIOUS
<1>2. /\ at[c] = "writing" /\ at' = [at EXCEPT ![c] = "awaiting"] /\ inp' = Append(inp, r)
      /\ UNCHANGED <<out, todo, run, events, offset, command, rid, op, start>>
  BY <1>1 DEF Write, GoTo, runVars
<1>3. r \in Requests
  <2>1. Cardinality(Unsent) \in Nat
    BY FS_CardinalityType DEF ReplyInv, IdsSuffice
  <2> QED
    BY <1>1, <1>2, <2>1, ConstantsAssumption
    DEF ReplyInv, OwnRequests, InFlight, IdsSuffice, Requests
<1>4. PICK n \in Nat : /\ DOMAIN inp = 1..n /\ DOMAIN inp' = 1..n + 1 /\ inp'[n + 1] = r
                       /\ \A i \in 1..n : inp'[i] = inp[i]
  <2>1. inp \in Seq(Requests)
    BY DEF TypeInv, AgentTypes
  <2>2. Grown(inp, inp', r)
    BY <1>2, <1>3, <2>1, AppendGrows
  <2> QED
    BY <2>2 DEF Grown
<1>5. \A p \in Places, i \in Nat, q \in Requests : ~Mark(c, p, i, q)
  BY <1>2, NoMarks DEF InTurn
<1>6. ASSUME NEW p \in Places, NEW i \in Nat, NEW q \in Requests, Mark(c, p, i, q)'
      PROVE  p = "inp" /\ i = n + 1 /\ q = r /\ command[r] = "prompt"
  <2>1. CASE p = "inp"
    <3>1. i \in DOMAIN inp' /\ command[inp'[i]] = "prompt" /\ q = inp'[i]
      BY <1>2, <1>6, <2>1 DEF Mark
    <3>2. i \notin 1..n
      BY <1>4, <1>5, <2>1, <3>1 DEF Mark
    <3> QED
      BY <1>4, <2>1, <3>1, <3>2
  <2>2. CASE p # "inp"
    <3>1. Collects(c)' => Collects(c)
      BY <1>2 DEF Collects
    <3>2. Mark(c, p, i, q)
      BY <1>2, <1>6, <2>2, <3>1 DEF Mark
    <3> QED
      BY <1>5, <3>2
  <2> QED
    BY <2>1, <2>2
<1>7. command[r] = "prompt" => InTurn(c)'
  BY <1>1, <1>2 DEF WrittenAsCalled, InTurn, TypeInv, CallTypes
<1>8. \A d \in Callers : d = c
  BY DEF OneDriver
<1>9. ASSUME NEW d \in Callers
      PROVE  /\ \A p, q \in Places, i, j \in Nat, t, s \in Requests :
                  Mark(d, p, i, t)' /\ Mark(d, q, j, s)' => p = q /\ i = j
             /\ \A p \in Places, i \in Nat, t \in Requests :
                  Mark(d, p, i, t)' => InTurn(d)' /\ t = rid'[d]
  <2>1. d = c /\ rid'[c] = r
    BY <1>1, <1>2, <1>8
  <2> QED
    BY <1>6, <1>7, <2>1
<1> QED
  BY <1>9 DEF OneMark

\* The end of a run goes from stdout to the history.
LEMMA ReaderMarkStep ==
  ASSUME TypeInv, OneMark, ReaderStep
  PROVE  OneMark'
<1>1. /\ UNCHANGED <<op, rid, start, inp, command, todo, run>>
      /\ at' = at \/ NotifyAll
  BY DEF ReaderStep, MatchResponse, Put, Unmatched, ReadEvent, ReadBadEnd, Complete, ReadToolCall,
     ReaderFails, ReaderEnds, Take, agentVars, replyVars, callVars
<1>2. \A c \in Callers : Collects(c)' => Collects(c)
  BY <1>1 DEF Collects, NotifyAll
<1>3. CASE out' = out
  <2>1. UNCHANGED <<events, offset>>
    <3>1. ~(out # <<>> /\ out' = Tail(out))
      <4>1. out # <<>> => Tail(out) # out
        <5>1. out \in Seq(Lines)
          BY DEF TypeInv, AgentTypes
        <5>2. out # <<>> => Len(Tail(out)) # Len(out)
          BY <5>1
        <5> QED
          BY <5>2
      <4> QED
        BY <1>3, <4>1
    <3> QED
      BY <3>1 DEF ReaderStep, MatchResponse, Put, Unmatched, ReadEvent, ReadBadEnd, Complete,
         ReadToolCall, ReaderFails, ReaderEnds, Take, Frames, runVars
  <2> QED
    BY <1>1, <1>3, <2>1, MarksStay
<1>4. CASE out # <<>> /\ out' = Tail(out)
  <2>1. PICK n \in Nat : /\ DOMAIN out = 1..n + 1 /\ DOMAIN out' = 1..n
                         /\ \A i \in 1..n : out'[i] = out[i + 1]
    <3>1. out \in Seq(Lines)
      BY DEF TypeInv, AgentTypes
    <3>2. Shrunk(out, out')
      BY <1>4, <3>1, TailShrinks
    <3> QED
      BY <3>2 DEF Shrunk
  <2>2. \A i \in DOMAIN out' : i \in Nat /\ i + 1 \in Nat /\ i + 1 \in DOMAIN out
                               /\ out'[i] = out[i + 1] /\ i + 1 # 1
    BY <2>1
  <2>3. PICK f : f = out[1] /\ f = Head(out) /\ f \in Lines /\ 1 \in DOMAIN out
    <3>1. out \in Seq(Lines)
      BY DEF TypeInv, AgentTypes
    <3> QED
      BY <1>4, <3>1, TailShrinks
  <2>4. \/ UNCHANGED <<events, offset>>
        \/ AppendEvent(f)
    <3>1. CASE ReadEvent
      BY <2>3, <3>1 DEF ReadEvent
    <3>2. CASE ~ReadEvent
      BY <3>2 DEF ReaderStep, MatchResponse, Put, Unmatched, ReadBadEnd, Complete,
         ReadToolCall, ReaderFails, ReaderEnds, runVars
    <3> QED
      BY <3>1, <3>2
  <2>5. CASE UNCHANGED <<events, offset>>
    <3>1. ASSUME NEW c \in Callers, NEW p \in Places, NEW i \in Nat, NEW r \in Requests,
                 Mark(c, p, i, r)'
          PROVE  \/ p = "out" /\ i + 1 \in Nat /\ Mark(c, "out", i + 1, r)
                 \/ p # "out" /\ Mark(c, p, i, r)
      <4>1. CASE p = "out"
        BY <2>2, <3>1, <4>1 DEF Mark
      <4>2. CASE p # "out"
        BY <1>1, <1>2, <2>5, <3>1, <4>2 DEF Mark
      <4> QED
        BY <4>1, <4>2
    <3>2. \A i, j \in Nat : i + 1 = j + 1 => i = j
      OBVIOUS
    <3>3. "out" \in Places
      BY DEF Places
    <3>4. ASSUME NEW c \in Callers, at[c] # "gaveUp"
          PROVE  /\ \A p \in Places, i \in Nat, r \in Requests :
                      Mark(c, p, i, r)' => \E q \in Places, j \in Nat : Mark(c, q, j, r)
                 /\ \A p, q \in Places, i, j \in Nat, r, s \in Requests :
                      Mark(c, p, i, r)' /\ Mark(c, q, j, s)' => p = q /\ i = j
      <4>1. \A p, q \in Places, i, j \in Nat, r, s \in Requests :
              Mark(c, p, i, r) /\ Mark(c, q, j, s) => p = q /\ i = j
        BY <3>4 DEF OneMark
      <4>2. \A p \in Places, i \in Nat, r \in Requests :
              Mark(c, p, i, r)' => \E q \in Places, j \in Nat : Mark(c, q, j, r)
        BY <3>1, <3>2, <3>3
      <4>3. ASSUME NEW p \in Places, NEW q \in Places, NEW i \in Nat, NEW j \in Nat,
                   NEW r \in Requests, NEW s \in Requests,
                   Mark(c, p, i, r)', Mark(c, q, j, s)'
            PROVE  p = q /\ i = j
        BY <3>1, <3>2, <3>3, <4>1, <4>3
      <4> QED
        BY <4>2, <4>3
    <3> QED
      BY <1>1, <3>4, MarksFollow
  <2>6. CASE AppendEvent(f)
    <3>1. /\ events' \in Seq(Lines) /\ offset' \in Nat
          /\ \A j \in DOMAIN events' :
               \/ events'[j] = f /\ offset' + j = CurrentIndex'
               \/ \E i \in DOMAIN events : events'[j] = events[i] /\ offset' + j = offset + i
      BY <2>3, <2>6, AppendTypes DEF TypeInv
    <3>2. ASSUME NEW c \in Callers, NEW p \in Places, NEW i \in Nat, NEW r \in Requests,
                 Mark(c, p, i, r)'
          PROVE  \/ p = "out" /\ i + 1 \in Nat /\ i + 1 # 1 /\ Mark(c, "out", i + 1, r)
                 \/ p = "history" /\ offset' + i = CurrentIndex' /\ Mark(c, "out", 1, r)
                 \/ p = "history" /\ \E k \in Nat : Mark(c, "history", k, r)
                                                    /\ offset' + i = offset + k
                 \/ p \notin {"out", "history"} /\ Mark(c, p, i, r)
      <4>1. CASE p = "out"
        BY <2>2, <3>2, <4>1 DEF Mark
      <4>2. CASE p = "history"
        <5>1. /\ i \in DOMAIN events' /\ Terminal(events'[i]) /\ r = events'[i].of
              /\ Collects(c) /\ offset' + i > start[c]
          BY <1>1, <1>2, <3>2, <4>2 DEF Mark
        <5>2. CASE events'[i] = f /\ offset' + i = CurrentIndex'
          BY <2>3, <4>2, <5>1, <5>2 DEF Mark, Terminal
        <5>3. ASSUME NEW k \in DOMAIN events, events'[i] = events[k], offset' + i = offset + k
              PROVE  k \in Nat /\ Mark(c, "history", k, r)
          <6>1. k \in Nat
            BY DEF TypeInv, HistoryTypes
          <6> QED
            BY <5>1, <5>3, <6>1 DEF Mark
        <5> QED
          BY <3>1, <4>2, <5>1, <5>2, <5>3
      <4>3. CASE p \notin {"out", "history"}
        BY <1>1, <3>2, <4>3 DEF Mark
      <4> QED
        BY <4>1, <4>2, <4>3
    <3>3. /\ \A i, j \in Nat : i + 1 = j + 1 => i = j
          /\ \A i, j \in Nat : offset' + i = offset' + j => i = j
      BY <3>1
    <3>4. "out" \in Places /\ "history" \in Places /\ 1 \in Nat
      BY DEF Places
    <3>5. ASSUME NEW c \in Callers, at[c] # "gaveUp"
          PROVE  /\ \A p \in Places, i \in Nat, r \in Requests :
                      Mark(c, p, i, r)' => \E q \in Places, j \in Nat : Mark(c, q, j, r)
                 /\ \A p, q \in Places, i, j \in Nat, r, s \in Requests :
                      Mark(c, p, i, r)' /\ Mark(c, q, j, s)' => p = q /\ i = j
      <4>1. \A p \in Places, i \in Nat, r \in Requests :
              Mark(c, p, i, r)' => \E q \in Places, j \in Nat : Mark(c, q, j, r)
        BY <3>2, <3>4
      <4>2. \A p, q \in Places, i, j \in Nat, r, s \in Requests :
              Mark(c, p, i, r) /\ Mark(c, q, j, s) => p = q /\ i = j
        BY <3>5 DEF OneMark
      <4>3. ASSUME NEW p \in Places, NEW q \in Places, NEW i \in Nat, NEW j \in Nat,
                   NEW r \in Requests, NEW s \in Requests,
                   Mark(c, p, i, r)', Mark(c, q, j, s)'
            PROVE  p = q /\ i = j
        BY <3>2, <3>3, <3>4, <4>2, <4>3
      <4> QED
        BY <4>1, <4>3
    <3> QED
      BY <1>1, <3>5, MarksFollow
  <2> QED
    BY <2>4, <2>5, <2>6
<1>5. out' = out \/ (out # <<>> /\ out' = Tail(out))
  BY DEF ReaderStep, MatchResponse, Put, Unmatched, ReadEvent, ReadBadEnd, Complete,
     ReadToolCall, ReaderFails, ReaderEnds, Take, agentVars, Frames, TypeInv, ReaderTypes
<1> QED
  BY <1>3, <1>4, <1>5

\* The agent passes the mark on: the command is accepted, run and ended.
LEMMA AgentMarkStep ==
  ASSUME TypeInv, OneMark, AgentStep
  PROVE  OneMark'
<1>1. UNCHANGED <<op, rid, start, at, command, events, offset>>
  BY DEF AgentStep, AgentReads, AgentStarts, AgentEnds, AgentBreaks, AgentEmits, AgentCallsTool,
     Agent, replyVars, runVars, callVars
<1>2. \A c \in Callers : Collects(c)' => Collects(c)
  BY <1>1 DEF Collects
<1>3. inp \in Seq(Requests) /\ todo \in Seq(Requests) /\ out \in Seq(Lines)
  BY DEF TypeInv, AgentTypes
<1>4. /\ \A i, j \in Nat : i + 1 = j + 1 => i = j
      /\ Places = {"inp", "todo", "run", "out", "history"}
  BY DEF Places
<1>5. ASSUME NEW f \in Lines, out' = Append(out, f)
      PROVE  \A i \in DOMAIN out' : \/ i \in DOMAIN out /\ out'[i] = out[i]
                                    \/ i = Len(out) + 1 /\ out'[i] = f
  <2>1. Grown(out, out', f)
    BY <1>3, <1>5, AppendGrows
  <2>2. DOMAIN out = 1..Len(out) /\ Len(out) \in Nat
    BY <1>3
  <2>3. PICK n \in Nat : /\ DOMAIN out = 1..n /\ DOMAIN out' = 1..n + 1 /\ out'[n + 1] = f
                         /\ \A i \in 1..n : out'[i] = out[i]
    BY <2>1 DEF Grown
  <2>4. n = Len(out)
    BY <1>3, <2>3
  <2> QED
    BY <2>3, <2>4
<1>6. CASE AgentReads
  <2>1. PICK k \in Nat : /\ DOMAIN inp = 1..k + 1 /\ DOMAIN inp' = 1..k
                         /\ \A i \in 1..k : inp'[i] = inp[i + 1]
    <3>1. inp # <<>> /\ inp' = Tail(inp)
      BY <1>6 DEF AgentReads
    <3>2. Shrunk(inp, inp')
      BY <1>3, <3>1, TailShrinks
    <3> QED
      BY <3>2 DEF Shrunk
  <2>2. \A i \in DOMAIN inp' : i + 1 \in DOMAIN inp /\ inp'[i] = inp[i + 1]
                               /\ i \in Nat /\ i + 1 \in Nat /\ i + 1 # 1
    BY <2>1
  <2>3. PICK r0 : r0 = inp[1] /\ r0 = Head(inp) /\ 1 \in DOMAIN inp /\ r0 \in Requests
    <3>1. inp # <<>>
      BY <1>6 DEF AgentReads
    <3> QED
      BY <1>3, <3>1, TailShrinks
  <2>4. run' = run /\ \A i \in DOMAIN out' :
          out'[i].type = "agent_end" => i \in DOMAIN out /\ out'[i] = out[i]
    <3>1. PICK f : /\ f \in {Frame("reply", r0, command[r0], r0),
                             Frame("error", r0, command[r0], r0),
                             Frame("error", NoRequest, command[r0], r0),
                             Frame("error", NoRequest, "parse", r0)}
                   /\ out' = Append(out, f) /\ run' = run
      BY <1>6, <2>3 DEF AgentReads, Emit
    <3>2. command[r0] \in {"none", "prompt", "request"}
      BY <2>3 DEF TypeInv, AgentTypes
    <3>3. f \in Lines /\ f.type # "agent_end"
      BY <2>3, <3>1, <3>2 DEF Lines, Frame
    <3> QED
      BY <1>5, <3>1, <3>3
  <2>5. PICK m \in Nat : DOMAIN todo = 1..m
    BY <1>3
  <2>6. \A i \in DOMAIN todo' :
          \/ i \in DOMAIN todo /\ todo'[i] = todo[i]
          \/ i = m + 1 /\ todo'[i] = r0 /\ command[r0] = "prompt"
    <3>1. todo' = todo \/ (todo' = Append(todo, r0) /\ command[r0] = "prompt")
      BY <1>6, <2>3 DEF AgentReads
    <3>2. CASE todo' = Append(todo, r0) /\ command[r0] = "prompt"
      <4>1. Grown(todo, todo', r0)
        BY <1>3, <2>3, <3>2, AppendGrows
      <4>2. PICK n \in Nat : /\ DOMAIN todo = 1..n /\ DOMAIN todo' = 1..n + 1
                             /\ todo'[n + 1] = r0 /\ \A i \in 1..n : todo'[i] = todo[i]
        BY <4>1 DEF Grown
      <4>3. n = m
        BY <1>3, <2>5, <4>2
      <4> QED
        BY <3>2, <4>2, <4>3
    <3> QED
      BY <3>1, <3>2
  <2>7. ASSUME NEW c \in Callers, NEW p \in Places, NEW i \in Nat, NEW r \in Requests,
               Mark(c, p, i, r)'
        PROVE  \/ p = "inp" /\ i + 1 \in Nat /\ i + 1 # 1 /\ Mark(c, "inp", i + 1, r)
               \/ p = "todo" /\ i = m + 1 /\ Mark(c, "inp", 1, r)
               \/ p # "inp" /\ Mark(c, p, i, r)
    <3>1. CASE p = "inp"
      BY <1>1, <2>2, <2>7, <3>1 DEF Mark
    <3>2. CASE p = "todo"
      BY <2>3, <2>6, <2>7, <3>2 DEF Mark
    <3>3. CASE p = "out"
      BY <2>4, <2>7, <3>3 DEF Mark
    <3>4. CASE p = "run" \/ p = "history"
      BY <1>1, <1>2, <2>4, <2>7, <3>4 DEF Mark
    <3> QED
      BY <1>4, <3>1, <3>2, <3>3, <3>4
  <2>8. ASSUME NEW c \in Callers, at[c] # "gaveUp"
        PROVE  /\ \A p \in Places, i \in Nat, r \in Requests :
                    Mark(c, p, i, r)' => \E q \in Places, j \in Nat : Mark(c, q, j, r)
               /\ \A p, q \in Places, i, j \in Nat, r, s \in Requests :
                    Mark(c, p, i, r)' /\ Mark(c, q, j, s)' => p = q /\ i = j
    <3>1. \A p, q \in Places, i, j \in Nat, r, s \in Requests :
            Mark(c, p, i, r) /\ Mark(c, q, j, s) => p = q /\ i = j
      BY <2>8 DEF OneMark
    <3>2. "inp" \in Places /\ 1 \in Nat
      BY <1>4
    <3>3. \A p \in Places, i \in Nat, r \in Requests :
            Mark(c, p, i, r)' => \E q \in Places, j \in Nat : Mark(c, q, j, r)
      BY <2>7, <3>2
    <3>4. ASSUME NEW p \in Places, NEW q \in Places, NEW i \in Nat, NEW j \in Nat,
                 NEW r \in Requests, NEW s \in Requests,
                 Mark(c, p, i, r)', Mark(c, q, j, s)'
          PROVE  p = q /\ i = j
      BY <1>4, <2>7, <3>1, <3>2, <3>4
    <3> QED
      BY <3>3, <3>4
  <2> QED
    BY <1>1, <2>8, MarksFollow
<1>7. CASE AgentStarts
  <2>1. todo # <<>> /\ todo' = Tail(todo) /\ run = NoRequest /\ inp' = inp
    BY <1>7 DEF AgentStarts
  <2>2. PICK k \in Nat : /\ DOMAIN todo = 1..k + 1 /\ DOMAIN todo' = 1..k
                         /\ \A i \in 1..k : todo'[i] = todo[i + 1]
    BY <1>3, <2>1, TailShrinks DEF Shrunk
  <2>3. \A i \in DOMAIN todo' : i + 1 \in DOMAIN todo /\ todo'[i] = todo[i + 1]
                                /\ i \in Nat /\ i + 1 \in Nat /\ i + 1 # 1
    BY <2>2
  <2>4. PICK r0 : r0 = todo[1] /\ r0 = Head(todo) /\ 1 \in DOMAIN todo /\ r0 \in Requests
    BY <1>3, <2>1, TailShrinks
  <2>5. /\ run' = r0 \/ run' = NoRequest
        /\ \A i \in DOMAIN out' :
             out'[i].type = "agent_end" => i \in DOMAIN out /\ out'[i] = out[i]
    <3>1. PICK f : f = Frame("error", r0, "prompt", r0)
      OBVIOUS
    <3>2. f \in Lines /\ f.type # "agent_end"
      BY <2>4, <3>1 DEF Lines, Frame
    <3>3. (run' = r0 /\ out' = out) \/ (run' = NoRequest /\ out' = Append(out, f))
      BY <1>7, <2>1, <2>4, <3>1 DEF AgentStarts, Emit
    <3> QED
      BY <1>5, <3>2, <3>3
  <2>6. ASSUME NEW c \in Callers, NEW p \in Places, NEW i \in Nat, NEW r \in Requests,
               Mark(c, p, i, r)'
        PROVE  \/ p = "todo" /\ i + 1 \in Nat /\ i + 1 # 1 /\ Mark(c, "todo", i + 1, r)
               \/ p = "run" /\ i = 0 /\ Mark(c, "todo", 1, r)
               \/ p \notin {"todo", "run"} /\ Mark(c, p, i, r)
    <3>1. CASE p = "todo"
      BY <2>3, <2>6, <3>1 DEF Mark
    <3>2. CASE p = "run"
      BY <2>4, <2>5, <2>6, <3>2 DEF Mark
    <3>3. CASE p = "out"
      BY <2>5, <2>6, <3>3 DEF Mark
    <3>4. CASE p = "inp" \/ p = "history"
      BY <1>1, <1>2, <2>1, <2>6, <3>4 DEF Mark
    <3> QED
      BY <1>4, <3>1, <3>2, <3>3, <3>4
  <2>7. "todo" \in Places /\ 1 \in Nat
    BY <1>4
  <2>8. ASSUME NEW c \in Callers, at[c] # "gaveUp"
        PROVE  /\ \A p \in Places, i \in Nat, r \in Requests :
                    Mark(c, p, i, r)' => \E q \in Places, j \in Nat : Mark(c, q, j, r)
               /\ \A p, q \in Places, i, j \in Nat, r, s \in Requests :
                    Mark(c, p, i, r)' /\ Mark(c, q, j, s)' => p = q /\ i = j
    <3>1. \A p, q \in Places, i, j \in Nat, r, s \in Requests :
            Mark(c, p, i, r) /\ Mark(c, q, j, s) => p = q /\ i = j
      BY <2>8 DEF OneMark
    <3>2. \A p \in Places, i \in Nat, r \in Requests :
            Mark(c, p, i, r)' => \E q \in Places, j \in Nat : Mark(c, q, j, r)
      BY <1>4, <2>6, <2>7
    <3>3. ASSUME NEW p \in Places, NEW q \in Places, NEW i \in Nat, NEW j \in Nat,
                 NEW r \in Requests, NEW s \in Requests,
                 Mark(c, p, i, r)', Mark(c, q, j, s)'
          PROVE  p = q /\ i = j
      BY <1>4, <2>6, <2>7, <3>1, <3>3
    <3> QED
      BY <3>2, <3>3
  <2> QED
    BY <1>1, <2>8, MarksFollow
<1>8. CASE AgentEnds
  <2>1. run' = NoRequest /\ run # NoRequest /\ UNCHANGED <<inp, todo>>
    BY <1>8 DEF AgentEnds
  <2>2. PICK m \in Nat : DOMAIN out = 1..m /\ m = Len(out)
    BY <1>3
  <2>3. \A i \in DOMAIN out' :
          \/ i \in DOMAIN out /\ out'[i] = out[i]
          \/ i = m + 1 /\ out'[i].of = run
    <3>1. PICK f : /\ f \in {Frame("agent_end", NoRequest, "none", run),
                             Frame("badEnd", NoRequest, "none", run)}
                   /\ out' = Append(out, f)
      BY <1>8 DEF AgentEnds, Emit
    <3>2. f \in Lines /\ f.of = run
      BY <3>1 DEF Lines, Frame, TypeInv, AgentTypes
    <3> QED
      BY <1>5, <2>2, <3>1, <3>2
  <2>4. ASSUME NEW c \in Callers, NEW p \in Places, NEW i \in Nat, NEW r \in Requests,
               Mark(c, p, i, r)'
        PROVE  \/ p = "out" /\ i = m + 1 /\ Mark(c, "run", 0, r)
               \/ p # "run" /\ Mark(c, p, i, r)
    <3>1. CASE p = "out"
      BY <2>1, <2>3, <2>4, <3>1 DEF Mark
    <3>2. CASE p = "run"
      BY <2>1, <2>4, <3>2 DEF Mark
    <3>3. CASE p \in {"inp", "todo", "history"}
      BY <1>1, <1>2, <2>1, <2>4, <3>3 DEF Mark
    <3> QED
      BY <1>4, <3>1, <3>2, <3>3
  <2>5. "run" \in Places /\ 0 \in Nat
    BY <1>4
  <2>6. ASSUME NEW c \in Callers, at[c] # "gaveUp"
        PROVE  /\ \A p \in Places, i \in Nat, r \in Requests :
                    Mark(c, p, i, r)' => \E q \in Places, j \in Nat : Mark(c, q, j, r)
               /\ \A p, q \in Places, i, j \in Nat, r, s \in Requests :
                    Mark(c, p, i, r)' /\ Mark(c, q, j, s)' => p = q /\ i = j
    <3>1. \A p, q \in Places, i, j \in Nat, r, s \in Requests :
            Mark(c, p, i, r) /\ Mark(c, q, j, s) => p = q /\ i = j
      BY <2>6 DEF OneMark
    <3>2. \A p \in Places, i \in Nat, r \in Requests :
            Mark(c, p, i, r)' => \E q \in Places, j \in Nat : Mark(c, q, j, r)
      BY <1>4, <2>4, <2>5
    <3>3. ASSUME NEW p \in Places, NEW q \in Places, NEW i \in Nat, NEW j \in Nat,
                 NEW r \in Requests, NEW s \in Requests,
                 Mark(c, p, i, r)', Mark(c, q, j, s)'
          PROVE  p = q /\ i = j
      BY <1>4, <2>4, <2>5, <3>1, <3>3
    <3> QED
      BY <3>2, <3>3
  <2> QED
    BY <1>1, <2>6, MarksFollow
<1>9. CASE ~AgentReads /\ ~AgentStarts /\ ~AgentEnds
  <2>1. /\ UNCHANGED <<inp, todo, run>>
        /\ \/ out' = out
           \/ \E type \in {"event", "continued", "toolCall"} :
                out' = Append(out, Frame(type, NoRequest, "none", run))
           \/ out' = Append(out, Frame("garbage", NoRequest, "none", NoRequest))
    BY <1>9 DEF AgentStep, AgentBreaks, AgentEmits, AgentCallsTool, Emit
  <2>2. /\ \A type \in {"event", "continued", "toolCall"} :
             LET f == Frame(type, NoRequest, "none", run) IN f \in Lines /\ f.type # "agent_end"
        /\ LET f == Frame("garbage", NoRequest, "none", NoRequest)
           IN  f \in Lines /\ f.type # "agent_end"
    BY DEF Frame, Lines, TypeInv, AgentTypes
  <2>3. out' = out \/ \E f \in Lines : f.type # "agent_end" /\ out' = Append(out, f)
    BY <2>1, <2>2
  <2>4. \A i \in DOMAIN out' : out'[i].type = "agent_end" => i \in DOMAIN out /\ out'[i] = out[i]
    BY <1>5, <2>3
  <2>5. \A c \in Callers : \A p, i, r : Mark(c, p, i, r)' => Mark(c, p, i, r)
    BY <1>1, <1>2, <2>1, <2>4 DEF Mark
  <2> QED
    BY <1>1, <2>5, MarksFollow DEF OneMark
<1> QED
  BY <1>6, <1>7, <1>8, <1>9

\* The agent says that a run has ended only when it has, and the reader keeps its word.
LEMMA EndsStep ==
  ASSUME TypeInv, EndsAreTrue, [Next]_vars
  PROVE  EndsAreTrue'
<1>1. CASE UNCHANGED <<out, events, ended>>
  BY <1>1 DEF EndsAreTrue
<1>2. CASE ReaderStep
  <2>1. /\ ended' = ended
        /\ out' = out \/ (out # <<>> /\ out' = Tail(out))
    BY <1>2 DEF ReaderStep, MatchResponse, Put, Unmatched, ReadEvent, ReadBadEnd, Complete,
       ReadToolCall, ReaderFails, ReaderEnds, Take, agentVars, Frames, TypeInv, ReaderTypes
  <2>2. out \in Seq(Lines)
    BY DEF TypeInv, AgentTypes
  <2>3. \A i \in DOMAIN out' : out'[i].type = "agent_end" => out'[i].of \in ended
    <3>1. CASE out # <<>> /\ out' = Tail(out)
      <4>1. Shrunk(out, out')
        BY <2>2, <3>1, TailShrinks
      <4>2. PICK n \in Nat : /\ DOMAIN out = 1..n + 1 /\ DOMAIN out' = 1..n
                             /\ \A i \in 1..n : out'[i] = out[i + 1]
        BY <4>1 DEF Shrunk
      <4>3. \A i \in DOMAIN out' : i + 1 \in DOMAIN out /\ out'[i] = out[i + 1]
        BY <4>2
      <4> QED
        BY <4>3 DEF EndsAreTrue
    <3> QED
      BY <2>1, <3>1 DEF EndsAreTrue
  <2>4. \A i \in DOMAIN events' : Terminal(events'[i]) => events'[i].of \in ended
    <3>1. CASE ReadEvent
      <4>1. PICK f : f = out[1] /\ f = Head(out) /\ f \in Lines /\ 1 \in DOMAIN out
        BY <2>2, <3>1, TailShrinks DEF ReadEvent, Frames
      <4>2. \A j \in DOMAIN events' :
              events'[j] = f \/ \E i \in DOMAIN events : events'[j] = events[i]
        BY <3>1, <4>1, AppendTypes DEF ReadEvent, TypeInv
      <4> QED
        BY <4>1, <4>2 DEF EndsAreTrue, Terminal
    <3>2. CASE ~ReadEvent
      <4>1. events' = events
        BY <1>2, <3>2 DEF ReaderStep, MatchResponse, Put, Unmatched, ReadBadEnd, Complete,
           ReadToolCall, ReaderFails, ReaderEnds, runVars
      <4> QED
        BY <4>1 DEF EndsAreTrue
    <3> QED
      BY <3>1, <3>2
  <2> QED
    BY <2>1, <2>3, <2>4 DEF EndsAreTrue
<1>3. CASE AgentStep
  <2>1. events' = events
    BY <1>3 DEF AgentStep, AgentReads, AgentStarts, AgentEnds, AgentBreaks, AgentEmits,
       AgentCallsTool, Agent, runVars
  <2>2. ended \subseteq ended'
    BY <1>3 DEF AgentStep, AgentReads, AgentStarts, AgentEnds, AgentBreaks, AgentEmits,
       AgentCallsTool
  <2>3. out' = out \/ \E f : out' = Append(out, f) /\ (f.type = "agent_end" => f.of \in ended')
    <3>1. CASE AgentEnds
      <4>1. PICK f : /\ f \in {Frame("agent_end", NoRequest, "none", run),
                               Frame("badEnd", NoRequest, "none", run)}
                     /\ out' = Append(out, f)
        BY <3>1 DEF AgentEnds, Emit
      <4>2. f.of = run /\ run \in ended'
        BY <3>1, <4>1 DEF AgentEnds, Frame
      <4> QED
        BY <4>1, <4>2
    <3>2. CASE AgentReads
      <4>1. PICK r : r = Head(inp)
        OBVIOUS
      <4>2. PICK f : /\ f \in {Frame("reply", r, command[r], r), Frame("error", r, command[r], r),
                               Frame("error", NoRequest, command[r], r),
                               Frame("error", NoRequest, "parse", r)}
                     /\ out' = Append(out, f)
        BY <3>2, <4>1 DEF AgentReads, Emit
      <4>3. f.type # "agent_end"
        BY <4>2 DEF Frame
      <4> QED
        BY <4>2, <4>3
    <3>3. CASE ~AgentReads /\ ~AgentEnds
      <4>1. \/ out' = out
            \/ \E type \in {"event", "continued", "toolCall"} :
                 out' = Append(out, Frame(type, NoRequest, "none", run))
            \/ out' = Append(out, Frame("garbage", NoRequest, "none", NoRequest))
            \/ out' = Append(out, Frame("error", Head(todo), "prompt", Head(todo)))
        BY <1>3, <3>3 DEF AgentStep, AgentStarts, AgentBreaks, AgentEmits, AgentCallsTool, Emit
      <4>2. /\ \A type \in {"event", "continued", "toolCall"} :
                 Frame(type, NoRequest, "none", run).type # "agent_end"
            /\ Frame("garbage", NoRequest, "none", NoRequest).type # "agent_end"
            /\ Frame("error", Head(todo), "prompt", Head(todo)).type # "agent_end"
        BY DEF Frame
      <4> QED
        BY <4>1, <4>2
    <3> QED
      BY <3>1, <3>2, <3>3
  <2>4. \A i \in DOMAIN out' : out'[i].type = "agent_end" => out'[i].of \in ended'
    <3>1. CASE out' = out
      BY <2>2, <3>1 DEF EndsAreTrue
    <3>2. ASSUME NEW f, out' = Append(out, f), f.type = "agent_end" => f.of \in ended'
          PROVE  \A i \in DOMAIN out' : out'[i].type = "agent_end" => out'[i].of \in ended'
      <4>1. /\ DOMAIN out = 1..Len(out) /\ DOMAIN out' = 1..Len(out) + 1 /\ Len(out) \in Nat
            /\ out'[Len(out) + 1] = f /\ \A i \in 1..Len(out) : out'[i] = out[i]
        BY <3>2 DEF TypeInv, AgentTypes
      <4>2. \A i \in DOMAIN out' : (i \in DOMAIN out /\ out'[i] = out[i]) \/ out'[i] = f
        BY <4>1
      <4> QED
        BY <2>2, <3>2, <4>2 DEF EndsAreTrue
    <3> QED
      BY <2>3, <3>1, <3>2
  <2> QED
    BY <2>1, <2>2, <2>4 DEF EndsAreTrue
<1>4. CASE \E c \in Callers : Caller(c)
  BY <1>1, <1>4 DEF Caller, Refused, Acquire, Send, ReadEventIndex, ReadErrorIndex,
     CheckAsyncErrors, Register, Write, GetReply, RequestTimesOut, MarkScheduled, Collect,
     WaitTimesOut, agentVars, runVars
<1>5. CASE (\E m \in Markers : MarkStep(m)) \/ (\E t \in ToolCalls : ToolEnds(t))
  BY <1>1, <1>5 DEF MarkStep, MarkCheck, MarkSet, MarkFail, MarkNotify, Marking, ToolEnds,
     agentVars, runVars
<1>6. CASE \E s \in Stoppers : StopBegins(s) \/ StopContinues(s)
  BY <1>1, <1>6 DEF StopBegins, StopContinues, StopIterates, StopClosesStdin, StopKills,
     StopClosesStdout, StopClears, HookMarks, Stopping, runVars
<1>7. CASE UNCHANGED vars
  BY <1>1, <1>7 DEF vars, agentVars, runVars
<1> QED
  BY <1>2, <1>3, <1>4, <1>5, <1>6, <1>7 DEF Next

\* The driver writes a prompt only for a prompt_and_wait.
LEMMA WrittenStep ==
  ASSUME OneDriver, ReplyInv, TypeInv, WrittenAsCalled, [Next]_vars
  PROVE  WrittenAsCalled'
<1>1. requestId \in Nat /\ inp \in Seq(Requests)
  BY DEF ReplyInv, IdsSuffice, TypeInv, AgentTypes
<1>2. ASSUME UNCHANGED <<requestId, command, op, rid>>, at' = at \/ NotifyAll,
             inp' = inp \/ (inp # <<>> /\ inp' = Tail(inp))
      PROVE  WrittenAsCalled'
  <2>1. \A c \in Callers : /\ at'[c] = "idle" => at[c] = "idle"
                           /\ at'[c] = "writing" => at[c] = "writing"
    BY <1>2 DEF NotifyAll
  <2>2. \A i \in DOMAIN inp' : inp'[i] <= requestId
    <3>1. CASE inp # <<>> /\ inp' = Tail(inp)
      <4>1. Shrunk(inp, inp')
        BY <1>1, <3>1, TailShrinks
      <4>2. \A i \in DOMAIN inp' : i + 1 \in DOMAIN inp /\ inp'[i] = inp[i + 1]
        BY <4>1 DEF Shrunk
      <4> QED
        BY <4>2 DEF WrittenAsCalled
    <3> QED
      BY <1>2, <3>1 DEF WrittenAsCalled
  <2> QED
    BY <1>2, <2>1, <2>2 DEF WrittenAsCalled
<1>3. ASSUME NEW c \in Callers, Caller(c)
      PROVE  WrittenAsCalled'
  <2>1. \A d \in Callers : d = c
    BY DEF OneDriver
  <2>2. \A i \in DOMAIN inp' : inp'[i] <= requestId'
    <3>1. \/ inp' = inp /\ (requestId' = requestId \/ requestId' = requestId + 1)
          \/ inp' = Append(inp, rid[c]) /\ requestId' = requestId
      BY <1>3 DEF Caller, Refused, Acquire, Send, ReadEventIndex, ReadErrorIndex,
         CheckAsyncErrors, Register, Write, GetReply, RequestTimesOut, MarkScheduled, Collect,
         WaitTimesOut, agentVars, replyVars
    <3>2. rid[c] <= requestId /\ rid[c] \in Nat
      BY DEF ReplyInv, OwnRequests, IdsSuffice
    <3>3. \A i \in DOMAIN inp : inp[i] <= requestId /\ inp[i] \in Nat
      <4>1. \A i \in DOMAIN inp : inp[i] \in Requests
        BY <1>1
      <4>2. \A r \in Requests : r \in Nat
        BY ConstantsAssumption DEF Requests
      <4> QED
        BY <4>1, <4>2 DEF WrittenAsCalled
    <3>4. CASE inp' = Append(inp, rid[c]) /\ requestId' = requestId
      <4>1. /\ DOMAIN inp = 1..Len(inp) /\ DOMAIN inp' = 1..Len(inp) + 1 /\ Len(inp) \in Nat
            /\ inp'[Len(inp) + 1] = rid[c] /\ \A i \in 1..Len(inp) : inp'[i] = inp[i]
        BY <1>1, <3>4
      <4>2. \A i \in DOMAIN inp' : (i \in DOMAIN inp /\ inp'[i] = inp[i]) \/ inp'[i] = rid[c]
        BY <4>1
      <4> QED
        BY <3>2, <3>3, <3>4, <4>2
    <3>5. CASE inp' = inp /\ (requestId' = requestId \/ requestId' = requestId + 1)
      BY <1>1, <3>3, <3>5
    <3> QED
      BY <3>1, <3>4, <3>5
  <2>3. at'[c] = "idle" => op'[c] = "wait_for_idle"
    <3>1. ASSUME NEW o \in Operations, Refused(c, o) \/ Acquire(c, o) \/ Send(c, o)
          PROVE  at'[c] = "idle" => op'[c] = "wait_for_idle"
      BY <3>1 DEF Refused, Acquire, Send, MayCall, GoTo, TypeInv, CallTypes
    <3>2. CASE ~\E o \in Operations : Refused(c, o) \/ Acquire(c, o) \/ Send(c, o)
      BY <1>3, <3>2 DEF Caller, ReadEventIndex, ReadErrorIndex, CheckAsyncErrors, Register,
         Write, GetReply, RequestTimesOut, MarkScheduled, Collect, WaitTimesOut, Return, GoTo,
         TypeInv, CallTypes
    <3> QED
      BY <3>1, <3>2
  <2>4. at'[c] = "writing" /\ command'[rid'[c]] = "prompt" => op'[c] = "prompt_and_wait"
    <3>1. CASE Register(c)
      <4>1. PICK n : n = requestId'
        OBVIOUS
      <4>2. /\ op' = op
            /\ at'[c] = "writing" =>
                 /\ rid' = [rid EXCEPT ![c] = n] /\ n = requestId + 1
                 /\ command' = [command EXCEPT ![n] =
                                  IF op[c] \in Prompting THEN "prompt" ELSE "request"]
        BY <3>1, <4>1 DEF Register, Return, TypeInv, CallTypes
      <4>3. op[c] # "prompt"
        BY DEF OneDriver, TypeInv, CallTypes
      <4>4. at'[c] = "writing" => n \in Requests
        <5>1. \/ UNCHANGED <<rid, replyVars>> /\ at'[c] \in {"gaveUp", "out"}
              \/ at[c] = "sending"
          BY <3>1 DEF Register
        <5>2. at'[c] = "writing" => c \in Unsent
          BY <3>1 DEF Unsent, Register
        <5>3. c \in Unsent => Cardinality(Unsent) \in Nat /\ Cardinality(Unsent) # 0
          BY FS_EmptySet, FS_CardinalityType DEF ReplyInv, IdsSuffice
        <5> QED
          BY <4>2, <5>2, <5>3, ConstantsAssumption DEF ReplyInv, IdsSuffice, Requests
      <4>5. at'[c] = "writing" =>
              /\ rid'[c] = n
              /\ command'[n] = IF op[c] \in Prompting THEN "prompt" ELSE "request"
        BY <4>2, <4>4 DEF TypeInv, CallTypes, AgentTypes
      <4> QED
        BY <4>2, <4>3, <4>5 DEF Prompting
    <3>2. CASE ~Register(c)
      <4>1. at'[c] # "writing" \/ (at'[c] = at[c] /\ at[c] = "gaveUp") \/ UNCHANGED <<op, at, rid, command>>
        <5>1. ASSUME NEW o \in Operations, Refused(c, o) \/ Acquire(c, o) \/ Send(c, o)
              PROVE  at'[c] # "writing"
          BY <5>1 DEF Refused, Acquire, Send, MayCall, GoTo, TypeInv, CallTypes
        <5>2. CASE ~\E o \in Operations : Refused(c, o) \/ Acquire(c, o) \/ Send(c, o)
          BY <1>3, <3>2, <5>2 DEF Caller, ReadEventIndex, ReadErrorIndex, CheckAsyncErrors,
             Write, GetReply, RequestTimesOut, MarkScheduled, Collect, WaitTimesOut, Return,
             GoTo, TypeInv, CallTypes
        <5> QED
          BY <5>1, <5>2
      <4> QED
        BY <4>1 DEF WrittenAsCalled
    <3> QED
      BY <3>1, <3>2
  <2> QED
    BY <2>1, <2>2, <2>3, <2>4 DEF WrittenAsCalled
<1>4. CASE ReaderStep
  BY <1>2, <1>4 DEF ReaderStep, MatchResponse, Put, Unmatched, ReadEvent, ReadBadEnd, Complete,
     ReadToolCall, ReaderFails, ReaderEnds, Take, agentVars, replyVars, callVars
<1>5. CASE AgentStep
  BY <1>2, <1>5 DEF AgentStep, AgentReads, AgentStarts, AgentEnds, AgentBreaks, AgentEmits,
     AgentCallsTool, Agent, replyVars, callVars
<1>6. CASE (\E m \in Markers : MarkStep(m)) \/ (\E t \in ToolCalls : ToolEnds(t))
  BY <1>2, <1>6 DEF MarkStep, MarkCheck, MarkSet, MarkFail, MarkNotify, Marking, ToolEnds,
     agentVars, replyVars, callVars
<1>7. CASE \E s \in Stoppers : StopBegins(s) \/ StopContinues(s)
  BY <1>2, <1>7 DEF StopBegins, StopContinues, StopIterates, StopClosesStdin, StopKills,
     StopClosesStdout, StopClears, HookMarks, Stopping, replyVars, callVars
<1>8. CASE UNCHANGED vars
  BY <1>2, <1>8 DEF vars, agentVars, replyVars, callVars
<1> QED
  BY <1>3, <1>4, <1>5, <1>6, <1>7, <1>8 DEF Next

\* A prompt_and_wait that ends well has collected the end of its own run.
LEMMA OwnTurnStep ==
  ASSUME OneDriver, TypeInv, OneMark, EndsAreTrue, WrittenAsCalled, TurnIsItsOwn, [Next]_vars
  PROVE  TurnIsItsOwn'
<1>1. ended \subseteq ended'
  <2>1. ended' = ended \/ AgentStep
    <3>1. CASE \E c \in Callers : Caller(c)
      BY <3>1 DEF Caller, Refused, Acquire, Send, ReadEventIndex, ReadErrorIndex,
         CheckAsyncErrors, Register, Write, GetReply, RequestTimesOut, MarkScheduled, Collect,
         WaitTimesOut, agentVars
    <3>2. CASE ReaderStep
      BY <3>2 DEF ReaderStep, MatchResponse, Put, Unmatched, ReadEvent, ReadBadEnd, Complete,
         ReadToolCall, ReaderFails, ReaderEnds, Take, agentVars
    <3>3. CASE (\E m \in Markers : MarkStep(m)) \/ (\E t \in ToolCalls : ToolEnds(t))
      BY <3>3 DEF MarkStep, MarkCheck, MarkSet, MarkFail, MarkNotify, Marking, ToolEnds,
         agentVars
    <3>4. CASE \E s \in Stoppers : StopBegins(s) \/ StopContinues(s)
      BY <3>4 DEF StopBegins, StopContinues, StopIterates, StopClosesStdin, StopKills,
         StopClosesStdout, StopClears, HookMarks, Stopping
    <3>5. CASE UNCHANGED vars
      BY <3>5 DEF vars, agentVars
    <3> QED
      BY <3>1, <3>2, <3>3, <3>4, <3>5 DEF Next
  <2>2. AgentStep => ended \subseteq ended'
    BY DEF AgentStep, AgentReads, AgentStarts, AgentEnds, AgentBreaks, AgentEmits,
       AgentCallsTool
  <2> QED
    BY <2>1, <2>2
<1>2. CASE last' = last
  BY <1>1, <1>2 DEF TurnIsItsOwn
<1>3. ASSUME NEW c \in Callers, Caller(c)
      PROVE  TurnIsItsOwn'
  <2>1. ASSUME NEW status, Return(c, status),
               op[c] = "prompt_and_wait" /\ status = "ok" => rid[c] \in ended
        PROVE  TurnIsItsOwn'
    <3> DEFINE w == at[c] \in {"collecting", "waiting"} /\ status = "ok" =>
                      Len(SnapshotFrom(start[c])) = CurrentIndex - start[c]
    <3>1. last' = [last EXCEPT ![c] = [op |-> op[c], status |-> status, rid |-> rid[c],
                                       whole |-> w]]
      BY <2>1 DEF Return
    <3> HIDE DEF w
    <3>2. PICK result : result = [op |-> op[c], status |-> status, rid |-> rid[c], whole |-> w]
      OBVIOUS
    <3>3. /\ result.op = op[c] /\ result.status = status /\ result.rid = rid[c]
          /\ last' = [last EXCEPT ![c] = result]
      BY <3>1, <3>2
    <3> QED
      BY <1>1, <2>1, <3>3 DEF TurnIsItsOwn, TypeInv, CallTypes
  <2>2. ASSUME NEW o \in Operations, Refused(c, o)
        PROVE  TurnIsItsOwn'
    <3>1. PICK result : result = [NoResult EXCEPT !.op = o, !.status = "refused"]
      OBVIOUS
    <3>2. result.status = "refused"
      BY <3>1 DEF NoResult
    <3>3. last' = [last EXCEPT ![c] = result]
      BY <2>2, <3>1 DEF Refused
    <3> QED
      BY <1>1, <3>2, <3>3 DEF TurnIsItsOwn, TypeInv, CallTypes
  <2>3. ASSUME Outcome(c) = "ok", at[c] \in {"collecting", "waiting"}, op[c] = "prompt_and_wait"
        PROVE  rid[c] \in ended
    <3>1. PICK i \in Nat, r \in Requests : Mark(c, "history", i, r)
      BY <2>3, EndIsSeen DEF Collects, Collecting
    <3>2. r = rid[c]
      BY <2>3, <3>1 DEF OneMark, Places
    <3> QED
      BY <3>1, <3>2 DEF Mark, EndsAreTrue
  <2>4. \/ last' = last
        \/ \E o \in Operations : Refused(c, o)
        \/ \E status : /\ Return(c, status)
                       /\ \/ status # "ok"
                          \/ op[c] # "prompt_and_wait"
                          \/ Outcome(c) = "ok" /\ at[c] \in {"collecting", "waiting"}
    <3>1. CASE CheckAsyncErrors(c)
      BY <3>1 DEF CheckAsyncErrors, WrittenAsCalled
    <3>2. CASE Collect(c) \/ WaitTimesOut(c)
      BY <3>2 DEF Collect, WaitTimesOut, GoTo
    <3>3. CASE Register(c) \/ Write(c) \/ RequestTimesOut(c) \/ MarkScheduled(c)
      BY <3>3 DEF Register, Write, RequestTimesOut, MarkScheduled, GoTo
    <3>6. CASE GetReply(c)
      BY <3>6 DEF GetReply, GoTo, Prompting
    <3>4. CASE ReadEventIndex(c) \/ ReadErrorIndex(c)
      BY <3>4 DEF ReadEventIndex, ReadErrorIndex
    <3>5. CASE \E o \in Operations : Acquire(c, o) \/ Send(c, o)
      BY <3>5 DEF Acquire, Send, GoTo
    <3> QED
      BY <1>3, <3>1, <3>2, <3>3, <3>4, <3>5, <3>6 DEF Caller
  <2> QED
    BY <1>2, <2>1, <2>2, <2>3, <2>4
<1>4. CASE ~\E c \in Callers : Caller(c)
  <2>1. CASE ReaderStep
    BY <1>2, <2>1 DEF ReaderStep, MatchResponse, Put, Unmatched, ReadEvent, ReadBadEnd,
       Complete, ReadToolCall, ReaderFails, ReaderEnds, callVars
  <2>2. CASE (\E m \in Markers : MarkStep(m)) \/ (\E t \in ToolCalls : ToolEnds(t))
    BY <1>2, <2>2 DEF MarkStep, MarkCheck, MarkSet, MarkFail, MarkNotify, Marking, ToolEnds,
       callVars
  <2>3. CASE \E s \in Stoppers : StopBegins(s) \/ StopContinues(s)
    BY <1>2, <2>3 DEF StopBegins, StopContinues, StopIterates, StopClosesStdin, StopKills,
       StopClosesStdout, StopClears, HookMarks, Stopping, callVars
  <2>4. CASE AgentStep
    BY <1>2, <2>4 DEF AgentStep, AgentReads, AgentStarts, AgentEnds, AgentBreaks, AgentEmits,
       AgentCallsTool, Agent, callVars
  <2>5. CASE UNCHANGED vars
    BY <1>2, <2>5 DEF vars, callVars
  <2> QED
    BY <1>4, <2>1, <2>2, <2>3, <2>4, <2>5 DEF Next
<1> QED
  BY <1>3, <1>4

\* The one mark of the turn stays one.
LEMMA OneMarkStep ==
  ASSUME OneDriver, ReplyInv, TypeInv, OneMark, EndsAreTrue, WrittenAsCalled, [Next]_vars
  PROVE  OneMark'
<1>1. ASSUME NEW c \in Callers, Caller(c)
      PROVE  OneMark'
  <2>1. inp' = inp \/ Write(c)
    BY <1>1 DEF Caller, Refused, Acquire, Send, ReadEventIndex, ReadErrorIndex,
       CheckAsyncErrors, Register, GetReply, RequestTimesOut, MarkScheduled, Collect,
       WaitTimesOut, agentVars
  <2> QED
    BY <1>1, <2>1, CallMarkStep, WriteMarkStep
<1>2. CASE (\E m \in Markers : MarkStep(m)) \/ (\E t \in ToolCalls : ToolEnds(t))
  BY <1>2, MarksStay DEF MarkStep, MarkCheck, MarkSet, MarkFail, MarkNotify, Marking, ToolEnds,
     agentVars, replyVars, runVars, callVars
<1>3. CASE \E s \in Stoppers : StopBegins(s) \/ StopContinues(s)
  BY <1>3, MarksStay DEF StopBegins, StopContinues, StopIterates, StopClosesStdin, StopKills,
     StopClosesStdout, StopClears, HookMarks, Stopping, replyVars, runVars, callVars
<1>4. CASE UNCHANGED vars
  BY <1>4, MarksStay DEF vars, agentVars, replyVars, runVars, callVars
<1> QED
  BY <1>1, <1>2, <1>3, <1>4, ReaderMarkStep, AgentMarkStep DEF Next

\* The driver's turns are its own, in all reachable states.
LEMMA OwnTurnInvariant == OneDriver => (Spec => [](ReplyInv /\ TypeInv /\ OwnTurnInv))
<1> SUFFICES ASSUME OneDriver
             PROVE  Spec => [](ReplyInv /\ TypeInv /\ OwnTurnInv)
  OBVIOUS
<1>1. ASSUME Init
      PROVE  OwnTurnInv
  <2>1. /\ DOMAIN inp = {} /\ DOMAIN out = {} /\ DOMAIN todo = {} /\ DOMAIN events = {}
        /\ run = NoRequest
        /\ \A c \in Callers : at[c] = "out" /\ last[c].status = "none"
    BY <1>1 DEF Init, NoResult
  <2>2. OneMark
    BY <2>1 DEF OneMark, Mark
  <2> QED
    BY <2>1, <2>2 DEF OwnTurnInv, EndsAreTrue, WrittenAsCalled, TurnIsItsOwn
<1>2. Init => OwnTurnInv
  BY <1>1
<1>3. ReplyInv /\ TypeInv /\ OwnTurnInv /\ [Next]_vars => OwnTurnInv'
  BY OneMarkStep, EndsStep, WrittenStep, OwnTurnStep DEF OwnTurnInv
<1> QED
  BY <1>2, <1>3, TypeInvariant, PTL DEF Spec

\* For the driver of robomp, whatever the agent does and whoever stops the client: a
\* prompt_and_wait that returns has waited for the end of its own run, never of another.
THEOREM RpcTurnIsItsOwn == OneDriver => (Spec => []TurnIsItsOwn)
<1>1. OwnTurnInv => TurnIsItsOwn
  BY DEF OwnTurnInv
<1> QED
  BY <1>1, OwnTurnInvariant, PTL

-----------------------------------------------------------------------------
\* The counts of runs.

\* c waits for an answer, and out[i] is that answer: the first response there is.
Unanswered(c) == at[c] = "awaiting" /\ box[rid[c]] = <<>>
Answer(c, i) ==
  /\ Unanswered(c) /\ i \in DOMAIN out /\ Response(out[i])
  /\ \A j \in DOMAIN out : Response(out[j]) => i <= j

\* Where the end of an accepted run is to be found, before the reader counts it.
\* A response that is no answer is the failure of a prompt after it was accepted.
RunEnd(c, place, i) ==
  \/ place = "todo" /\ i \in DOMAIN todo
  \/ place = "run" /\ i = 0 /\ run # NoRequest
  \/ /\ place = "out" /\ i \in DOMAIN out
     /\ \/ out[i].type \in {"agent_end", "badEnd"}
        \/ Response(out[i]) /\ ~Answer(c, i)
RunPlaces == {"todo", "run", "out"}
Owed(c) == \E p \in RunPlaces, i \in Nat : RunEnd(c, p, i)

\* A prompt of c is accepted and not counted yet.
Accepted(f) == f.type = "reply"
Told(c) ==
  \/ at[c] = "accepted"
  \/ /\ at[c] = "awaiting" /\ command[rid[c]] = "prompt"
     /\ \/ box[rid[c]] # <<>> /\ Accepted(box[rid[c]][1])
        \/ \E i \in DOMAIN out : Answer(c, i) /\ Accepted(out[i])

Count(p) == IF p THEN 1 ELSE 0

\* A command that is not read is the driver's, and all there is.
Asking(c) ==
  inp # <<>> =>
    /\ Unanswered(c) /\ inp = <<rid[c]>> /\ ~Owed(c)
    /\ \A i \in DOMAIN out : ~Response(out[i])

\* Its answer is on its way, with an end when it is accepted, and nobody else waits.
Answering(c) ==
  /\ Unanswered(c) /\ inp = <<>> => \E i \in DOMAIN out : Answer(c, i)
  /\ \A i \in DOMAIN out : Answer(c, i) =>
       /\ \/ out[i].id = rid[c]
          \/ /\ out[i].type = "error" /\ out[i].id = NoRequest
             /\ out[i].cmd \in {command[rid[c]], "parse"}
       /\ Owed(c) => Accepted(out[i]) /\ command[rid[c]] = "prompt"
  /\ at[c] = "awaiting" /\ box[rid[c]] # <<>> =>
       /\ Response(box[rid[c]][1])
       /\ Owed(c) => Accepted(box[rid[c]][1]) /\ command[rid[c]] = "prompt"
  /\ pending = IF at[c] = "writing" \/ (Unanswered(c) /\ reader # "putting") THEN {rid[c]} ELSE {}
  /\ reader = "putting" => Answer(c, 1) /\ target = rid[c]

\* One run is owed at most, that of the driver's turn, and it is not in the history.
OneRun(c) ==
  /\ \A p, q \in RunPlaces, i, j \in Nat : RunEnd(c, p, i) /\ RunEnd(c, q, j) => p = q /\ i = j
  /\ \A i \in DOMAIN out : Response(out[i]) /\ ~Answer(c, i) =>
       out[i].type = "error" /\ out[i].cmd = "prompt"
  /\ Owed(c) => at[c] = "gaveUp" \/ InTurn(c)
  /\ at[c] \in {"writing", "awaiting", "accepted"} =>
       (command[rid[c]] = "prompt" <=> op[c] = "prompt_and_wait")
  /\ InTurn(c) /\ (\E i \in DOMAIN events : Terminal(events[i]) /\ offset + i > start[c]) =>
       ~Owed(c)

\* Scheduled and completed runs differ by those that are under way.
Balanced(c) ==
  scheduled + Count(Told(c)) = completed + Count(Owed(c)) + Count(reader = "completing")

\* After a timeout a reply may come to nobody, and at the end replies are dropped.
Abandoned(c) == closed \/ (at[c] = "gaveUp" /\ last[c].status = "timeout")

CountInv(c) == ~Abandoned(c) => Asking(c) /\ Answering(c) /\ OneRun(c) /\ Balanced(c)
ClosedIsMarked == \A m \in Markers : marking[m] \in {"fail", "notify"} => closed

Counted(c) == Asking(c) /\ Answering(c) /\ OneRun(c) /\ Balanced(c)

\* The driver has a request of its own while it asks.
LEMMA DriverTypes ==
  ASSUME ReplyInv, TypeInv, NEW c \in Callers
  PROVE  /\ at[c] \in CallerPoints /\ rid[c] \in Nat
         /\ at[c] \in {"writing", "awaiting"} => rid[c] \in Requests
         /\ out \in Seq(Lines) /\ DOMAIN out = 1..Len(out) /\ Len(out) \in Nat
         /\ \A r \in Requests : box[r] = <<>> \/ (\E f : box[r] = <<f>>)
         /\ scheduled \in Nat /\ completed \in Nat
<1>1. Cardinality(Unsent) \in Nat
  BY FS_CardinalityType DEF ReplyInv, IdsSuffice
<1>2. at[c] \in {"writing", "awaiting"} => rid[c] \in Requests
  BY <1>1, ConstantsAssumption DEF ReplyInv, OwnRequests, InFlight, IdsSuffice, Requests
<1> QED
  BY <1>2 DEF TypeInv, AgentTypes, CallTypes, HistoryTypes, ReplyInv, AnsweredOnce

\* A turn is seen alike, and so are runs, while the frames stay.
LEMMA SameView ==
  ASSUME UNCHANGED <<out, todo, run>>, NEW c, Unanswered(c)' <=> Unanswered(c)
  PROVE  /\ \A i : Answer(c, i)' <=> Answer(c, i)
         /\ \A p, i : RunEnd(c, p, i)' <=> RunEnd(c, p, i)
         /\ Owed(c)' <=> Owed(c)
<1>1. \A i : Answer(c, i)' <=> Answer(c, i)
  BY DEF Answer
<1>2. \A p, i : RunEnd(c, p, i)' <=> RunEnd(c, p, i)
  BY <1>1 DEF RunEnd
<1> QED
  BY <1>1, <1>2 DEF Owed

\* The reader takes a frame: what is owed moves up.
LEMMA TailView ==
  ASSUME Shrunk(out, out'), UNCHANGED <<todo, run>>, NEW c,
         Unanswered(c)' <=> Unanswered(c) /\ ~Answer(c, 1)
  PROVE  /\ \A i \in Nat : Answer(c, i)' <=> i >= 1 /\ Answer(c, i + 1)
         /\ \A i \in Nat : RunEnd(c, "out", i)' <=> i >= 1 /\ RunEnd(c, "out", i + 1)
         /\ \A i \in Nat : RunEnd(c, "todo", i)' <=> RunEnd(c, "todo", i)
         /\ \A i \in Nat : RunEnd(c, "run", i)' <=> RunEnd(c, "run", i)
<1>1. PICK n \in Nat : /\ DOMAIN out = 1..n + 1 /\ DOMAIN out' = 1..n
                       /\ \A i \in 1..n : out'[i] = out[i + 1]
  BY DEF Shrunk
<1>2. ASSUME NEW i \in Nat
      PROVE  Answer(c, i)' <=> i >= 1 /\ Answer(c, i + 1)
  <2>1. ASSUME Answer(c, i)' PROVE i >= 1 /\ Answer(c, i + 1)
    <3>1. i \in 1..n /\ Response(out[i + 1]) /\ Unanswered(c) /\ ~Answer(c, 1)
          /\ \A j \in 1..n : Response(out[j + 1]) => i <= j
      BY <1>1, <2>1 DEF Answer, Response
    <3>2. \A j \in 1..n + 1 : Response(out[j]) => i + 1 <= j
      <4>1. ASSUME NEW j \in 1..n + 1, Response(out[j]), j # 1 PROVE i + 1 <= j
        <5>1. j - 1 \in 1..n /\ j = (j - 1) + 1
          BY <1>1, <4>1
        <5>2. i <= j - 1
          BY <3>1, <4>1, <5>1
        <5> QED
          BY <1>1, <4>1, <5>2
      <4>2. ~Response(out[1])
        <5>1. Response(out[1]) => Answer(c, 1)
          BY <1>1, <3>1 DEF Answer
        <5> QED
          BY <3>1, <5>1
      <4> QED
        BY <4>1, <4>2
    <3> QED
      BY <1>1, <3>1, <3>2 DEF Answer
  <2>2. ASSUME i >= 1, Answer(c, i + 1) PROVE Answer(c, i)'
    <3>1. i \in 1..n /\ Response(out[i + 1]) /\ Unanswered(c)
          /\ \A j \in 1..n + 1 : Response(out[j]) => i + 1 <= j
      BY <1>1, <2>2 DEF Answer
    <3>2. ~Answer(c, 1)
      BY <1>1, <3>1 DEF Answer
    <3>3. ASSUME NEW j \in 1..n, Response(out[j + 1]) PROVE i <= j
      <4>1. j + 1 \in 1..n + 1
        BY <1>1
      <4>2. i + 1 <= j + 1
        BY <3>1, <3>3, <4>1
      <4> QED
        BY <4>2
    <3> QED
      BY <1>1, <3>1, <3>2, <3>3 DEF Answer, Response
  <2> QED
    BY <2>1, <2>2
<1>3. ASSUME NEW i \in Nat
      PROVE  RunEnd(c, "out", i)' <=> i >= 1 /\ RunEnd(c, "out", i + 1)
  <2>1. i \in DOMAIN out' <=> i >= 1 /\ i + 1 \in DOMAIN out
    BY <1>1
  <2>2. i \in DOMAIN out' => out'[i] = out[i + 1]
    BY <1>1
  <2> QED
    BY <1>2, <2>1, <2>2 DEF RunEnd, Response
<1>4. \A i \in Nat : /\ RunEnd(c, "todo", i)' <=> RunEnd(c, "todo", i)
                     /\ RunEnd(c, "run", i)' <=> RunEnd(c, "run", i)
  BY DEF RunEnd
<1> QED
  BY <1>2, <1>3, <1>4

\* No response is on its way.
Unheard == \A i \in DOMAIN out : ~Response(out[i])

\* The agent adds a frame.
LEMMA GrowView ==
  ASSUME NEW x, Grown(out, out', x), NEW c, UNCHANGED Unanswered(c)
  PROVE  \E n \in Nat : 
         /\ DOMAIN out = 1..n /\ DOMAIN out' = 1..n + 1
         /\ out'[n + 1] = x /\ \A i \in 1..n : out'[i] = out[i]
         /\ \A i \in Nat : Answer(c, i)' <=>
              \/ Answer(c, i)
              \/ i = n + 1 /\ Unanswered(c) /\ Response(x) /\ Unheard
         /\ \A i \in Nat : RunEnd(c, "out", i)' <=>
              \/ RunEnd(c, "out", i)
              \/ /\ i = n + 1
                 /\ \/ x.type \in {"agent_end", "badEnd"}
                    \/ Response(x) /\ ~(Unanswered(c) /\ Unheard)
<1>1. PICK n \in Nat : /\ DOMAIN out = 1..n /\ DOMAIN out' = 1..n + 1
                       /\ out'[n + 1] = x /\ \A i \in 1..n : out'[i] = out[i]
  BY DEF Grown
<1>2. ASSUME NEW i \in Nat
      PROVE  Answer(c, i)' <=> \/ Answer(c, i)
                               \/ i = n + 1 /\ Unanswered(c) /\ Response(x) /\ Unheard
  <2>1. CASE i \in 1..n
    <3>1. Answer(c, i)' => Answer(c, i)
      <4>1. \A j \in 1..n : j \in 1..n + 1
        BY <1>1
      <4> QED
        BY <1>1, <2>1, <4>1 DEF Answer, Response
    <3>2. Answer(c, i) => Answer(c, i)'
      <4>1. i <= n + 1 /\ \A j \in 1..n + 1 : j = n + 1 \/ j \in 1..n
        BY <1>1, <2>1
      <4> QED
        BY <1>1, <2>1, <4>1 DEF Answer, Response
    <3>3. i # n + 1
      BY <1>1, <2>1
    <3> QED
      BY <3>1, <3>2, <3>3
  <2>2. CASE i = n + 1
    <3>1. ~Answer(c, i)
      BY <1>1, <2>2 DEF Answer
    <3>2. Answer(c, i)' => Unanswered(c) /\ Response(x) /\ Unheard
      <4>1. \A j \in 1..n : j \in 1..n + 1 /\ ~(n + 1 <= j)
        BY <1>1
      <4> QED
        BY <1>1, <2>2, <4>1 DEF Answer, Response, Unheard
    <3>3. Unanswered(c) /\ Response(x) /\ Unheard => Answer(c, i)'
      <4>1. n + 1 \in 1..n + 1 /\ \A j \in 1..n + 1 : j \in 1..n \/ n + 1 <= j
        BY <1>1
      <4> QED
        BY <1>1, <2>2, <4>1 DEF Answer, Response, Unheard
    <3> QED
      BY <2>2, <3>1, <3>2, <3>3
  <2>3. CASE i \notin 1..n + 1
    <3>1. i # n + 1 /\ i \notin 1..n
      BY <1>1, <2>3
    <3> QED
      BY <1>1, <2>3, <3>1 DEF Answer
  <2>4. i \in 1..n \/ i = n + 1 \/ i \notin 1..n + 1
    BY <1>1
  <2> QED
    BY <2>1, <2>2, <2>3, <2>4
<1>3. ASSUME NEW i \in Nat
      PROVE  RunEnd(c, "out", i)' <=>
              \/ RunEnd(c, "out", i)
              \/ /\ i = n + 1
                 /\ \/ x.type \in {"agent_end", "badEnd"}
                    \/ Response(x) /\ ~(Unanswered(c) /\ Unheard)
  <2>1. CASE i \in 1..n
    <3>1. i # n + 1 /\ i \in 1..n + 1
      BY <1>1, <2>1
    <3>2. Answer(c, i)' <=> Answer(c, i)
      BY <1>2, <3>1
    <3> QED
      BY <1>1, <2>1, <3>1, <3>2 DEF RunEnd, Response
  <2>2. CASE i = n + 1
    <3>1. i \in 1..n + 1 /\ i \notin 1..n
      BY <1>1, <2>2
    <3>2. ~Answer(c, i) /\ ~RunEnd(c, "out", i)
      BY <1>1, <3>1 DEF Answer, RunEnd
    <3>3. Answer(c, i)' <=> Unanswered(c) /\ Response(x) /\ Unheard
      BY <1>2, <2>2, <3>2
    <3> QED
      BY <1>1, <2>2, <3>1, <3>2, <3>3 DEF RunEnd, Response
  <2>3. CASE i \notin 1..n + 1
    <3>1. i # n + 1 /\ i \notin 1..n
      BY <1>1, <2>3
    <3> QED
      BY <1>1, <2>3, <3>1 DEF RunEnd
  <2>4. i \in 1..n \/ i = n + 1 \/ i \notin 1..n + 1
    BY <1>1
  <2> QED
    BY <2>1, <2>2, <2>3, <2>4
<1> QED
  BY <1>1, <1>2, <1>3

\* Calls that touch no request: the driver's turn goes on, or nothing is owed to it.
LEMMA QuietCallCount ==
  ASSUME ReplyInv, TypeInv, NEW c \in Callers, Counted(c),
         UNCHANGED <<inp, out, todo, run, pending, box, command, scheduled, completed, reader,
                     target, events, offset, rid>>,
         at[c] \notin {"writing", "awaiting", "accepted"},
         at'[c] \notin {"writing", "awaiting", "accepted"},
         Owed(c) => at'[c] = "gaveUp" \/ InTurn(c)',
         InTurn(c)' => InTurn(c) /\ start'[c] = start[c]
  PROVE  Counted(c)'
<1>1. ~Unanswered(c) /\ ~Unanswered(c)'
  BY DEF Unanswered
<1>2. /\ \A i : ~Answer(c, i) /\ ~Answer(c, i)'
      /\ \A p, i : RunEnd(c, p, i)' <=> RunEnd(c, p, i)
      /\ Owed(c)' <=> Owed(c)
      /\ ~Told(c) /\ ~Told(c)'
  BY <1>1, SameView DEF Answer, Told
<1>3. Asking(c)' /\ Answering(c)'
  BY <1>1, <1>2 DEF Counted, Asking, Answering
<1>4. OneRun(c)'
  BY <1>2 DEF Counted, OneRun
<1>5. Balanced(c)'
  BY <1>2 DEF Counted, Balanced, Count
<1> QED
  BY <1>3, <1>4, <1>5 DEF Counted

\* A driver outside its turns is owed nothing.
LEMMA NothingOwed ==
  ASSUME NEW c, OneRun(c), at[c] # "gaveUp", ~InTurn(c)
  PROVE  /\ ~Owed(c) /\ \A p \in RunPlaces, i \in Nat : ~RunEnd(c, p, i)
BY DEF OneRun, Owed

\* _request: a new id, then the command.
LEMMA RegisterCount ==
  ASSUME OneDriver, ReplyInv, TypeInv, NEW c \in Callers, Counted(c), Register(c), process
  PROVE  Counted(c)'
<1>1. PICK r : r = requestId + 1
  OBVIOUS
<1>2. /\ at[c] = "sending" /\ at' = [at EXCEPT ![c] = "writing"]
      /\ UNCHANGED <<start, op, box, inp, out, todo, run, scheduled, completed, reader, target,
                     events, offset>>
      /\ pending' = pending \union {r} /\ rid' = [rid EXCEPT ![c] = r]
      /\ command' = [command EXCEPT ![r] = IF op[c] \in Prompting THEN "prompt" ELSE "request"]
  BY <1>1 DEF Register, GoTo, agentVars, runVars, readerVars
<1>3. r \in Requests
  <2>1. Cardinality(Unsent) \in Nat /\ c \in Unsent /\ IsFiniteSet(Unsent)
    BY <1>2, FS_CardinalityType DEF ReplyInv, IdsSuffice, Unsent
  <2>2. Cardinality(Unsent) # 0
    BY <2>1, FS_EmptySet
  <2> QED
    BY <1>1, <2>1, <2>2, ConstantsAssumption DEF ReplyInv, IdsSuffice, Requests
<1>4. at'[c] = "writing" /\ rid'[c] = r /\ (command'[r] = "prompt" <=> op[c] = "prompt_and_wait")
  <2>1. op[c] # "prompt"
    BY ConstantsAssumption DEF OneDriver, TypeInv, CallTypes
  <2> QED
    BY <1>2, <1>3, <2>1 DEF Prompting, TypeInv, CallTypes, AgentTypes
<1>5. ~Unanswered(c) /\ ~Unanswered(c)' /\ ~InTurn(c) /\ ~InTurn(c)'
  BY <1>2, <1>4 DEF Unanswered, InTurn
<1>6. /\ \A i : ~Answer(c, i) /\ ~Answer(c, i)'
      /\ \A p, i : RunEnd(c, p, i)' <=> RunEnd(c, p, i)
      /\ ~Owed(c) /\ ~Owed(c)'
      /\ \A p \in RunPlaces, i \in Nat : ~RunEnd(c, p, i)
  BY <1>2, <1>5, SameView, NothingOwed DEF Answer, Counted
<1>7. inp = <<>> /\ pending = {} /\ reader # "putting"
  BY <1>2, <1>5, <1>6 DEF Counted, Asking, Answering
<1>8. Asking(c)' /\ Answering(c)'
  BY <1>2, <1>4, <1>5, <1>6, <1>7 DEF Asking, Answering
<1>9. OneRun(c)'
  <2>1. \A i \in DOMAIN out : ~Response(out[i])
    <3>1. DOMAIN out \subseteq Nat
      BY DriverTypes
    <3> QED
      BY <1>6, <3>1 DEF RunEnd, RunPlaces
  <2> QED
    BY <1>2, <1>4, <1>5, <1>6, <2>1 DEF OneRun, Response
<1>10. Balanced(c)'
  <2>1. ~Told(c) /\ ~Told(c)'
    BY <1>2, <1>4 DEF Told
  <2> QED
    BY <1>2, <1>6, <2>1 DEF Counted, Balanced, Count
<1> QED
  BY <1>8, <1>9, <1>10 DEF Counted

\* The command is on the pipe, or the pipe is broken.
LEMMA WriteCount ==
  ASSUME OneDriver, ReplyInv, TypeInv, OneMark, NEW c \in Callers, Counted(c), Write(c),
         ~Abandoned(c)'
  PROVE  Counted(c)'
<1>1. /\ at[c] = "writing"
      /\ UNCHANGED <<op, rid, box, command, out, todo, run, scheduled, completed, reader, target,
                     events, offset>>
  BY DEF Write, runVars, readerVars
<1>2. ~Unanswered(c) /\ ~InTurn(c) /\ ~Told(c) /\ \A i : ~Answer(c, i)
  BY <1>1 DEF Unanswered, InTurn, Told, Answer
<1>3. ~Owed(c) /\ (\A p \in RunPlaces, i \in Nat : ~RunEnd(c, p, i))
  BY <1>1, <1>2, NothingOwed DEF Counted
<1>4. Unheard /\ \A i \in DOMAIN out : out[i].type \notin {"agent_end", "badEnd"}
  <2>1. DOMAIN out \subseteq Nat
    BY DriverTypes
  <2> QED
    BY <1>2, <1>3, <2>1 DEF RunEnd, RunPlaces, Unheard
<1>5. inp = <<>> /\ pending = {rid[c]} /\ reader # "putting"
      /\ (command[rid[c]] = "prompt" <=> op[c] = "prompt_and_wait")
  BY <1>1, <1>2 DEF Counted, Asking, Answering, OneRun
<1>6. \A p \in RunPlaces, i \in Nat : ~RunEnd(c, p, i)'
  BY <1>1, <1>3, <1>4 DEF RunEnd, RunPlaces, Response, Unheard
<1>7. ~Owed(c)' /\ \A i : ~Answer(c, i)'
  BY <1>1, <1>4, <1>6 DEF Owed, Answer, Unheard, Response
<1>8. rid[c] \in Requests /\ box[rid[c]] = <<>>
  BY <1>1, <1>5, DriverTypes DEF ReplyInv, AnsweredOnce
<1>9. ~Told(c)'
  <2>1. at'[c] # "accepted"
    BY <1>1 DEF Write, GoTo, Return, ReplyInv
  <2> QED
    BY <1>1, <1>7, <1>8, <2>1 DEF Told
<1>10. Balanced(c)'
  BY <1>1, <1>2, <1>3, <1>7, <1>9 DEF Counted, Balanced, Count
<1>11. CASE inp' # inp
  <2>1. at'[c] = "awaiting" /\ inp' = Append(inp, rid[c]) /\ UNCHANGED <<pending, start>>
    BY <1>11 DEF Write, GoTo, ReplyInv
  <2>2. inp' = <<rid[c]>> /\ Unanswered(c)' /\ UNCHANGED <<pending, start>> /\ at'[c] # "writing"
    BY <1>1, <1>5, <1>8, <2>1 DEF Unanswered
  <2>3. Asking(c)'
    BY <1>1, <1>4, <1>7, <2>2 DEF Asking, Unheard, Response
  <2>4. inp' # <<>>
    BY <2>2
  <2>5. Answering(c)'
    BY <1>1, <1>5, <1>7, <1>8, <2>1, <2>2, <2>4 DEF Answering
  <2>6. OneRun(c)'
    BY <1>1, <1>4, <1>5, <1>6, <1>7 DEF OneRun, Unheard, Response
  <2> QED
    BY <1>10, <2>3, <2>5, <2>6 DEF Counted
<1>12. CASE inp' = inp
  <2>1. at'[c] = "gaveUp" /\ pending' = {}
    <3>1. at'[c] = "awaiting" => inp' # inp
      BY <1>1, <1>5 DEF Write, Return, ReplyInv
    <3> QED
      BY <1>1, <1>5, <3>1, <1>12 DEF Write, GoTo, Return, ReplyInv, OneDriver
  <2>2. ~Unanswered(c)' /\ ~InTurn(c)'
    BY <2>1 DEF Unanswered, InTurn
  <2>3. Asking(c)' /\ Answering(c)'
    BY <1>1, <1>5, <1>7, <1>12, <2>1, <2>2 DEF Asking, Answering
  <2>4. OneRun(c)'
    BY <1>1, <1>4, <1>6, <1>7, <2>1, <2>2 DEF OneRun, Unheard, Response
  <2> QED
    BY <1>10, <2>3, <2>4 DEF Counted
<1> QED
  BY <1>11, <1>12

\* The answer is taken from its queue.
LEMMA GetReplyCount ==
  ASSUME OneDriver, ReplyInv, TypeInv, NEW c \in Callers, Counted(c), GetReply(c),
         box[rid[c]][1].type \in {"reply", "error"}
  PROVE  Counted(c)'
<1>1. /\ at[c] = "awaiting" /\ box[rid[c]] # <<>> /\ box' = [box EXCEPT ![rid[c]] = Tail(@)]
      /\ UNCHANGED <<op, rid, pending, command, inp, out, todo, run, scheduled, completed, reader,
                     target, events, offset>>
  BY DEF GetReply, agentVars, runVars, readerVars
<1>2. PICK f : box[rid[c]] = <<f>> /\ Head(box[rid[c]]) = f /\ box[rid[c]][1] = f
  BY <1>1, DriverTypes
<1>3. ~Unanswered(c) /\ ~Unanswered(c)'
  <2>1. at'[c] # "awaiting"
    BY <1>1, <1>2 DEF GetReply, GoTo, Return, ReplyInv
  <2> QED
    BY <1>1, <2>1 DEF Unanswered
<1>4. /\ \A i : ~Answer(c, i) /\ ~Answer(c, i)'
      /\ \A p, i : RunEnd(c, p, i)' <=> RunEnd(c, p, i)
      /\ Owed(c)' <=> Owed(c)
  BY <1>1, <1>3, SameView DEF Answer
<1>5. inp = <<>> /\ pending = {} /\ reader # "putting"
      /\ (command[rid[c]] = "prompt" <=> op[c] = "prompt_and_wait")
      /\ (Owed(c) => f.type = "reply" /\ command[rid[c]] = "prompt")
  BY <1>1, <1>2, <1>3, <1>4 DEF Counted, Asking, Answering, OneRun, Accepted
<1>6. \/ /\ f.type = "reply" /\ op[c] = "prompt_and_wait"
         /\ at' = [at EXCEPT ![c] = "accepted"] /\ UNCHANGED start
      \/ /\ ~(f.type = "reply" /\ op[c] = "prompt_and_wait")
         /\ at'[c] \in {"out", "gaveUp"}
  <2>1. op[c] # "prompt"
    BY ConstantsAssumption DEF OneDriver, TypeInv, CallTypes
  <2> QED
    BY <1>1, <1>2, <2>1 DEF GetReply, GoTo, Return, ReplyInv, Prompting
<1>7. Asking(c)' /\ Answering(c)'
  <2>1. at'[c] \in {"accepted", "out", "gaveUp"}
    BY <1>1, <1>6 DEF ReplyInv
  <2> QED
    BY <1>1, <1>3, <1>4, <1>5, <2>1 DEF Asking, Answering
<1>8. CASE f.type = "reply" /\ op[c] = "prompt_and_wait"
  <2>1. at'[c] = "accepted" /\ UNCHANGED start
    BY <1>6, <1>8 DEF ReplyInv
  <2>2. InTurn(c) /\ InTurn(c)'
    BY <1>1, <1>8, <2>1 DEF InTurn
  <2>3. Told(c) /\ Told(c)'
    BY <1>1, <1>2, <1>5, <1>8, <2>1 DEF Told, Accepted
  <2>4. OneRun(c)'
    BY <1>1, <1>4, <1>5, <1>8, <2>1, <2>2 DEF Counted, OneRun
  <2>5. Balanced(c)'
    BY <1>1, <1>4, <2>3 DEF Counted, Balanced, Count
  <2> QED
    BY <1>7, <2>4, <2>5 DEF Counted
<1>9. CASE ~(f.type = "reply" /\ op[c] = "prompt_and_wait")
  <2>1. at'[c] \in {"out", "gaveUp"} /\ ~InTurn(c)' /\ ~Owed(c)
    BY <1>5, <1>6, <1>9 DEF InTurn
  <2>2. ~Told(c)' /\ ~Told(c)
    BY <1>1, <1>2, <1>4, <1>5, <1>9, <2>1 DEF Told, Accepted
  <2>3. OneRun(c)'
    BY <1>1, <1>4, <2>1 DEF Counted, OneRun
  <2>4. Balanced(c)'
    BY <1>1, <1>4, <2>1, <2>2 DEF Counted, Balanced, Count
  <2> QED
    BY <1>7, <2>3, <2>4 DEF Counted
<1> QED
  BY <1>8, <1>9

\* The run that was accepted is counted.
LEMMA MarkScheduledCount ==
  ASSUME OneDriver, ReplyInv, TypeInv, NEW c \in Callers, Counted(c), MarkScheduled(c)
  PROVE  Counted(c)'
<1>1. op[c] # "prompt"
  BY ConstantsAssumption DEF OneDriver, TypeInv, CallTypes
<1>2. /\ at[c] = "accepted" /\ at' = [at EXCEPT ![c] = "collecting"] /\ scheduled' = scheduled + 1
      /\ UNCHANGED <<op, rid, start, pending, box, command, inp, out, todo, run, completed, reader,
                     target, events, offset>>
  BY <1>1 DEF MarkScheduled, GoTo, agentVars, replyVars, readerVars
<1>3. at'[c] = "collecting"
  BY <1>2 DEF ReplyInv
<1>4. ~Unanswered(c) /\ ~Unanswered(c)' /\ Told(c) /\ ~Told(c)'
      /\ (InTurn(c)' => InTurn(c)) /\ (InTurn(c) => InTurn(c)')
  BY <1>2, <1>3 DEF Unanswered, Told, InTurn
<1>5. /\ \A i : ~Answer(c, i) /\ ~Answer(c, i)'
      /\ \A p, i : RunEnd(c, p, i)' <=> RunEnd(c, p, i)
      /\ Owed(c)' <=> Owed(c)
  BY <1>2, <1>4, SameView DEF Answer
<1>6. Asking(c)' /\ Answering(c)'
  BY <1>2, <1>3, <1>4, <1>5 DEF Counted, Asking, Answering
<1>7. OneRun(c)'
  BY <1>2, <1>3, <1>4, <1>5 DEF Counted, OneRun
<1>8. Balanced(c)'
  BY <1>2, <1>4, <1>5, DriverTypes DEF Counted, Balanced, Count
<1> QED
  BY <1>6, <1>7, <1>8 DEF Counted

\* A turn ends well when its end is in the history, so that it is owed nothing more.
LEMMA TurnEndCount ==
  ASSUME OneDriver, ReplyInv, TypeInv, EndsAreTrue, NEW c \in Callers, Counted(c),
         Collect(c) \/ WaitTimesOut(c)
  PROVE  Counted(c)'
<1>1. /\ at[c] \in {"collecting", "waiting"}
      /\ UNCHANGED <<inp, out, todo, run, pending, box, command, scheduled, completed, reader,
                     target, events, offset, rid, op>>
  BY DEF Collect, WaitTimesOut, agentVars, replyVars, runVars, readerVars
<1>2. \/ at'[c] = "waiting" /\ start'[c] = start[c]
      \/ at'[c] = "gaveUp"
      \/ at'[c] = "out" /\ Outcome(c) = "ok"
  BY <1>1 DEF Collect, WaitTimesOut, GoTo, Return, ReplyInv, OneDriver
<1>3. CASE at'[c] = "out" /\ Outcome(c) = "ok"
  <2>1. ~Owed(c)
    <3>1. CASE InTurn(c)
      <4>1. Collects(c)
        BY <3>1 DEF Collects, InTurn, Collecting
      <4>2. PICK i \in Nat, r \in Requests : Mark(c, "history", i, r)
        BY <1>3, <4>1, EndIsSeen
      <4>3. i \in DOMAIN events /\ Terminal(events[i]) /\ offset + i > start[c]
        BY <4>2 DEF Mark
      <4> QED
        BY <3>1, <4>3 DEF Counted, OneRun
    <3>2. CASE ~InTurn(c)
      BY <1>1, <3>2 DEF Counted, OneRun
    <3> QED
      BY <3>1, <3>2
  <2>2. ~InTurn(c)'
    BY <1>3 DEF InTurn
  <2> QED
    BY <1>1, <1>3, <2>1, <2>2, QuietCallCount
<1>4. CASE at'[c] = "gaveUp"
  <2>1. ~InTurn(c)'
    BY <1>4 DEF InTurn
  <2> QED
    BY <1>1, <1>4, <2>1, QuietCallCount
<1>5. CASE at'[c] = "waiting" /\ start'[c] = start[c]
  <2>1. InTurn(c)' <=> InTurn(c)
    BY <1>1, <1>5 DEF InTurn
  <2>2. Owed(c) => InTurn(c)'
    BY <1>1, <2>1 DEF Counted, OneRun
  <2> QED
    BY <1>1, <1>5, <2>1, <2>2, QuietCallCount
<1> QED
  BY <1>2, <1>3, <1>4, <1>5

\* The steps of the driver.
LEMMA CallCount ==
  ASSUME OneDriver, ReplyInv, TypeInv, OneMark, EndsAreTrue, NEW c \in Callers, CountInv(c),
         Caller(c)
  PROVE  CountInv(c)'
<1>1. ASSUME Abandoned(c) PROVE Abandoned(c)'
  <2>1. closed' = closed /\ (at[c] = "gaveUp" => UNCHANGED <<at, last>>)
    BY DEF Caller, Refused, Acquire, Send, MayCall, ReadEventIndex, ReadErrorIndex,
       CheckAsyncErrors, Register, Write, GetReply, RequestTimesOut, MarkScheduled, Collect,
       WaitTimesOut, endVars
  <2> QED
    BY <1>1, <2>1 DEF Abandoned
<1>2. SUFFICES ASSUME ~Abandoned(c), ~Abandoned(c)', Counted(c)
               PROVE  Counted(c)'
  BY <1>1 DEF CountInv, Counted
<1>3. CASE \/ \E o \in Operations : Refused(c, o) \/ Acquire(c, o) \/ Send(c, o)
           \/ ReadEventIndex(c) \/ ReadErrorIndex(c) \/ CheckAsyncErrors(c)
           \/ (Register(c) /\ ~process)
  <2>1. /\ UNCHANGED <<inp, out, todo, run, pending, box, command, scheduled, completed, reader,
                       target, events, offset, rid>>
        /\ at[c] \in {"out", "busy", "indexed", "idle", "sending"}
    BY <1>3 DEF Refused, Acquire, Send, MayCall, ReadEventIndex, ReadErrorIndex,
       CheckAsyncErrors, Register, agentVars, replyVars, runVars, readerVars
  <2>2. \/ at'[c] \in {"out", "busy", "indexed", "idle", "sending", "gaveUp"}
        \/ at'[c] = "collecting" /\ op'[c] # "prompt_and_wait"
    BY <1>3, <2>1 DEF Refused, Acquire, Send, MayCall, ReadEventIndex, ReadErrorIndex,
       CheckAsyncErrors, Register, GoTo, Return, ReplyInv
  <2>3. ~InTurn(c) /\ ~InTurn(c)' /\ ~Owed(c)
    BY <1>2, <2>1, <2>2, NothingOwed DEF InTurn, Counted
  <2> QED
    BY <1>2, <2>1, <2>2, <2>3, QuietCallCount
<1>4. CASE Register(c) /\ process
  BY <1>2, <1>4, RegisterCount
<1>5. CASE Write(c)
  BY <1>2, <1>5, WriteCount
<1>6. CASE GetReply(c)
  <2>1. box[rid[c]][1].type \in {"reply", "error"}
    <3>1. at[c] = "awaiting" /\ box[rid[c]] # <<>> /\ Head(box[rid[c]]) = box[rid[c]][1]
      BY <1>6, DriverTypes DEF GetReply
    <3> QED
      BY <1>2, <3>1 DEF Counted, Answering, Response
  <2> QED
    BY <1>2, <1>6, <2>1, GetReplyCount
<1>7. CASE RequestTimesOut(c)
  <2>1. Abandoned(c)'
    BY <1>7 DEF RequestTimesOut, Return, Abandoned, ReplyInv, TypeInv, CallTypes, OneDriver
  <2> QED
    BY <1>2, <2>1
<1>8. CASE MarkScheduled(c)
  BY <1>2, <1>8, MarkScheduledCount
<1>9. CASE Collect(c) \/ WaitTimesOut(c)
  BY <1>2, <1>9, TurnEndCount
<1> QED
  BY <1>3, <1>4, <1>5, <1>6, <1>7, <1>8, <1>9 DEF Caller

\* What others do leaves the driver in its call.
LEMMA SameCall ==
  ASSUME ReplyInv, NEW c \in Callers, UNCHANGED <<op, rid, start>>, at' = at \/ NotifyAll
  PROVE  /\ InTurn(c)' <=> InTurn(c)
         /\ \A p \in {"writing", "awaiting", "accepted", "gaveUp"} : at'[c] = p <=> at[c] = p
BY DEF NotifyAll, InTurn

\* Whoever looks on changes nothing.
LEMMA BystanderCount ==
  ASSUME ReplyInv, TypeInv, NEW c \in Callers, Counted(c), at' = at \/ NotifyAll,
         UNCHANGED <<op, rid, start, inp, out, todo, run, pending, box, command, scheduled, events,
                     offset, target>>,
         \/ UNCHANGED <<reader, completed>>
         \/ reader # "putting" /\ reader' # "putting" /\ UNCHANGED completed
            /\ (reader' = "completing" <=> reader = "completing")
         \/ Complete
  PROVE  Counted(c)'
<1>1. Unanswered(c)' <=> Unanswered(c)
  BY SameCall DEF Unanswered
<1>2. /\ \A i : Answer(c, i)' <=> Answer(c, i)
      /\ \A p, i : RunEnd(c, p, i)' <=> RunEnd(c, p, i)
      /\ Owed(c)' <=> Owed(c)
  BY <1>1, SameView
<1>3. /\ reader' = "putting" <=> reader = "putting"
      /\ completed' + Count(reader' = "completing") = completed + Count(reader = "completing")
  BY DriverTypes DEF Complete, Count
<1>4. Told(c)' <=> Told(c)
  BY <1>2, SameCall DEF Told
<1>5. Asking(c)'
  BY <1>1, <1>2 DEF Counted, Asking
<1>6. Answering(c)'
  BY <1>1, <1>2, <1>3, SameCall DEF Counted, Answering
<1>7. OneRun(c)'
  <2>1. (InTurn(c)' <=> InTurn(c)) /\ (at'[c] = "gaveUp" <=> at[c] = "gaveUp")
        /\ (at'[c] \in {"writing", "awaiting", "accepted"}
              <=> at[c] \in {"writing", "awaiting", "accepted"})
    BY SameCall
  <2> QED
    BY <1>2, <2>1 DEF Counted, OneRun
<1>8. Balanced(c)'
  <2>1. \A a, b, d, e, g, h \in Nat : a + b = d + e + g /\ h = d + g => a + b = h + e
    OBVIOUS
  <2>2. /\ scheduled + Count(Told(c)) = completed + Count(Owed(c)) + Count(reader = "completing")
        /\ completed' + Count((reader = "completing")') = completed + Count(reader = "completing")
        /\ completed' \in Nat
    BY <1>3, DriverTypes DEF Counted, Balanced, Complete
  <2>3. scheduled + Count(Told(c)) = completed' + Count(Owed(c)) + Count((reader = "completing")')
    BY <2>2, DriverTypes DEF Count
  <2> QED
    BY <1>2, <1>4, <2>3 DEF Balanced, Count
<1> QED
  BY <1>5, <1>6, <1>7, <1>8 DEF Counted

\* A response is popped for the driver that waits for it.
LEMMA MatchCount ==
  ASSUME ReplyInv, TypeInv, NEW c \in Callers, Counted(c), NEW r \in Requests, MatchResponse(r)
  PROVE  Counted(c)'
<1>1. /\ reader = "reading" /\ reader' = "putting" /\ target' = r /\ r \in pending
      /\ pending' = pending \ {r} /\ out # <<>> /\ Response(Head(out))
      /\ UNCHANGED <<at, op, rid, start, box, command, inp, out, todo, run, scheduled, completed,
                     events, offset>>
  BY DEF MatchResponse, Frames, Popped, Correlated, agentVars, runVars, callVars
<1>2. Head(out) = out[1] /\ 1 \in DOMAIN out /\ DOMAIN out \subseteq Nat
      /\ \A i \in DOMAIN out : 1 <= i
  BY <1>1, DriverTypes
<1>3. pending = {rid[c]} /\ r = rid[c] /\ pending' = {} /\ (at[c] = "writing" \/ Unanswered(c))
  BY <1>1 DEF Counted, Answering
<1>4. at[c] # "writing"
  <2>1. ASSUME at[c] = "writing" PROVE FALSE
    <3>1. ~InTurn(c) /\ \A i : ~Answer(c, i)
      BY <2>1 DEF InTurn, Answer, Unanswered
    <3>2. RunEnd(c, "out", 1)
      BY <1>1, <1>2, <3>1 DEF RunEnd
    <3> QED
      BY <2>1, <3>1, <3>2, NothingOwed DEF Counted, RunPlaces
  <2> QED
    BY <2>1
<1>5. Answer(c, 1) /\ Unanswered(c)
  BY <1>1, <1>2, <1>3, <1>4 DEF Answer
<1>6. Unanswered(c)' <=> Unanswered(c)
  BY <1>1 DEF Unanswered
<1>7. /\ \A i : Answer(c, i)' <=> Answer(c, i)
      /\ \A p, i : RunEnd(c, p, i)' <=> RunEnd(c, p, i)
      /\ Owed(c)' <=> Owed(c)
  BY <1>1, <1>6, SameView
<1>8. Asking(c)'
  BY <1>1, <1>6, <1>7 DEF Counted, Asking
<1>9. Answering(c)'
  BY <1>1, <1>3, <1>4, <1>5, <1>6, <1>7 DEF Counted, Answering
<1>10. OneRun(c)'
  BY <1>1, <1>7 DEF Counted, OneRun, InTurn
<1>11. Balanced(c)'
  BY <1>1, <1>7 DEF Counted, Balanced, Told, Count
<1> QED
  BY <1>8, <1>9, <1>10, <1>11 DEF Counted

\* ... and put where the driver finds it.
LEMMA PutCount ==
  ASSUME ReplyInv, TypeInv, NEW c \in Callers, Counted(c), Put
  PROVE  Counted(c)'
<1>1. /\ reader = "putting" /\ reader' = "reading" /\ box' = [box EXCEPT ![target] = <<Head(out)>>]
      /\ out' = Tail(out)
      /\ UNCHANGED <<at, op, rid, start, pending, command, inp, todo, run, scheduled, completed,
                     events, offset>>
  BY DEF Put, Take, runVars, callVars
<1>2. Answer(c, 1) /\ target = rid[c] /\ Unanswered(c) /\ rid[c] \in Requests
  BY <1>1, DriverTypes DEF Counted, Answering, Answer, Unanswered
<1>3. PICK f : f = out[1] /\ f = Head(out) /\ Response(f) /\ 1 \in DOMAIN out
               /\ Shrunk(out, out')
  <2>1. out \in Seq(Lines) /\ out # <<>>
    BY <1>1 DEF TypeInv, AgentTypes, ReaderTypes
  <2> QED
    BY <1>1, <1>2, <2>1, TailShrinks DEF Answer
<1>4. box'[rid[c]] = <<f>> /\ <<f>>[1] = f /\ box'[rid[c]] # <<>>
  BY <1>1, <1>2, <1>3 DEF ReplyInv
<1>5. ~Unanswered(c)' /\ at[c] = "awaiting"
  BY <1>1, <1>2, <1>4 DEF Unanswered
<1>6. /\ \A i \in Nat : Answer(c, i)' <=> i >= 1 /\ Answer(c, i + 1)
      /\ \A i \in Nat : RunEnd(c, "out", i)' <=> i >= 1 /\ RunEnd(c, "out", i + 1)
      /\ \A i \in Nat : RunEnd(c, "todo", i)' <=> RunEnd(c, "todo", i)
      /\ \A i \in Nat : RunEnd(c, "run", i)' <=> RunEnd(c, "run", i)
  BY <1>1, <1>2, <1>3, <1>5, TailView
<1>7. ~RunEnd(c, "out", 1) /\ ~RunEnd(c, "out", 0)
  <2>1. DOMAIN out = 1..Len(out)
    BY DriverTypes
  <2> QED
    BY <1>2, <1>3, <2>1 DEF RunEnd, Response
<1>8. Owed(c)' <=> Owed(c)
  <2>1. ASSUME Owed(c)' PROVE Owed(c)
    BY <1>6, <2>1 DEF Owed, RunPlaces
  <2>2. ASSUME NEW p \in RunPlaces, NEW i \in Nat, RunEnd(c, p, i)
        PROVE  \E j \in Nat : RunEnd(c, p, j)'
    <3>1. CASE p = "out"
      <4>1. i - 1 \in Nat /\ i - 1 >= 1 /\ (i - 1) + 1 = i
        BY <1>7, <2>2, <3>1
      <4> QED
        BY <1>6, <2>2, <3>1, <4>1
    <3> QED
      BY <1>6, <2>2, <3>1 DEF RunPlaces
  <2> QED
    BY <2>1, <2>2 DEF Owed
<1>9. \A i : ~Answer(c, i)'
  BY <1>5 DEF Answer
<1>10. Told(c)' <=> Told(c)
  <2>1. \A i \in DOMAIN out : Answer(c, i) => i = 1
    <3>1. DOMAIN out = 1..Len(out)
      BY DriverTypes
    <3> QED
      BY <1>2, <3>1 DEF Answer
  <2> QED
    BY <1>1, <1>2, <1>3, <1>4, <1>5, <1>9, <2>1 DEF Told, Unanswered
<1>11. inp = <<>> /\ pending = {}
  BY <1>1, <1>2, <1>3, <1>5 DEF Counted, Asking, Answering
<1>12. Asking(c)'
  BY <1>1, <1>11 DEF Asking
<1>13. Answering(c)'
  <2>1. Owed(c) => Accepted(f) /\ command[rid[c]] = "prompt"
    BY <1>2, <1>3 DEF Counted, Answering
  <2> QED
    BY <1>1, <1>3, <1>4, <1>5, <1>8, <1>9, <1>11, <2>1 DEF Answering
<1>14. OneRun(c)'
  <2>1. \A p, q \in RunPlaces, i, j \in Nat : RunEnd(c, p, i) /\ RunEnd(c, q, j) => p = q /\ i = j
    BY DEF Counted, OneRun
  <2>2. ASSUME NEW p \in RunPlaces, NEW q \in RunPlaces, NEW i \in Nat, NEW j \in Nat,
               RunEnd(c, p, i)', RunEnd(c, q, j)'
        PROVE  p = q /\ i = j
    <3>1. /\ \E k \in Nat : RunEnd(c, p, k) /\ k = IF p = "out" THEN i + 1 ELSE i
          /\ \E k \in Nat : RunEnd(c, q, k) /\ k = IF q = "out" THEN j + 1 ELSE j
      BY <1>6, <2>2 DEF RunPlaces
    <3> QED
      BY <2>1, <3>1
  <2>3. ASSUME NEW i \in DOMAIN out', Response(out'[i]), ~Answer(c, i)'
        PROVE  out'[i].type = "error" /\ out'[i].cmd = "prompt"
    <3>1. PICK n \in Nat : /\ DOMAIN out = 1..n + 1 /\ DOMAIN out' = 1..n
                           /\ \A j \in 1..n : out'[j] = out[j + 1]
      BY <1>3 DEF Shrunk
    <3>2. i + 1 \in DOMAIN out /\ out'[i] = out[i + 1] /\ i + 1 # 1
      BY <2>3, <3>1
    <3>3. ~Answer(c, i + 1)
      BY <1>2, <3>1, <3>2 DEF Answer
    <3> QED
      BY <2>3, <3>2, <3>3 DEF Counted, OneRun, Response
  <2> QED
    BY <1>1, <1>8, <2>2, <2>3 DEF Counted, OneRun, InTurn
<1>15. Balanced(c)'
  BY <1>1, <1>8, <1>10 DEF Counted, Balanced, Count
<1> QED
  BY <1>12, <1>13, <1>14, <1>15 DEF Counted

\* A frame that nobody waits for is dropped: an end of a run is counted next.
LEMMA TakeCount ==
  ASSUME ReplyInv, TypeInv, NEW c \in Callers, Counted(c),
         Unmatched \/ ReadEvent \/ ReadBadEnd \/ \E t \in ToolCalls : ReadToolCall(t)
  PROVE  Counted(c)'
<1>1. /\ reader = "reading" /\ out # <<>> /\ out' = Tail(out) /\ (at' = at \/ NotifyAll)
      /\ UNCHANGED <<op, rid, start, inp, todo, run, pending, box, command, scheduled, completed,
                     target>>
      /\ reader' \in {"reading", "completing"}
  BY DEF Unmatched, ReadEvent, ReadBadEnd, ReadToolCall, Take, Frames, replyVars, runVars, callVars,
     readerVars
<1>2. PICK f : f = out[1] /\ f = Head(out) /\ 1 \in DOMAIN out /\ Shrunk(out, out')
  <2>1. out \in Seq(Lines)
    BY DriverTypes
  <2> QED
    BY <1>1, <2>1, TailShrinks
<1>3. ~Answer(c, 1)
  <2>1. ASSUME Answer(c, 1) PROVE FALSE
    <3>1. PICK x : x = rid[c] /\ pending = {x}
      BY <1>1, <2>1 DEF Answer, Counted, Answering
    <3>2. f.id \notin pending /\ Response(f) /\ (f.type = "error" => Correlated(f) = {})
      BY <1>2, <2>1 DEF Unmatched, ReadEvent, ReadBadEnd, ReadToolCall, Event, Response, Answer
    <3>3. f.type = "error" /\ f.cmd \in {command[x], "parse"}
      BY <1>2, <2>1, <3>1, <3>2 DEF Counted, Answering
    <3>4. Cardinality({x}) = 1 /\ Cardinality({}) # 1
      BY FS_Singleton, FS_EmptySet
    <3>5. CASE f.cmd = command[x]
      <4>1. {r \in pending : command[r] = f.cmd} = {x}
        BY <3>1, <3>5
      <4> QED
        BY <3>2, <3>3, <3>4, <4>1 DEF Correlated
    <3>6. CASE f.cmd # command[x]
      <4>1. {r \in pending : command[r] = f.cmd} = {}
        BY <3>1, <3>6
      <4> QED
        BY <3>1, <3>2, <3>3, <3>4, <3>6, <4>1 DEF Correlated
    <3> QED
      BY <3>3, <3>5, <3>6
  <2> QED
    BY <2>1
<1>4. Unanswered(c)' <=> Unanswered(c)
  BY <1>1, SameCall DEF Unanswered
<1>5. /\ \A i \in Nat : Answer(c, i)' <=> i >= 1 /\ Answer(c, i + 1)
      /\ \A i \in Nat : RunEnd(c, "out", i)' <=> i >= 1 /\ RunEnd(c, "out", i + 1)
      /\ \A i \in Nat : RunEnd(c, "todo", i)' <=> RunEnd(c, "todo", i)
      /\ \A i \in Nat : RunEnd(c, "run", i)' <=> RunEnd(c, "run", i)
  BY <1>1, <1>2, <1>3, <1>4, TailView
<1>6. RunEnd(c, "out", 1) <=> reader' = "completing"
  <2>1. RunEnd(c, "out", 1) <=> f.type \in {"agent_end", "badEnd"} \/ Response(f)
    BY <1>2, <1>3 DEF RunEnd
  <2>2. Response(f) => f.type = "error" /\ f.cmd = "prompt"
    BY <1>2, <1>3 DEF Counted, OneRun
  <2>3. CASE Unmatched
    BY <1>2, <2>1, <2>2, <2>3 DEF Unmatched, Response
  <2>4. CASE ReadEvent
    BY <1>2, <2>1, <2>4 DEF ReadEvent, Event, Terminal, Response
  <2>5. CASE ReadBadEnd
    BY <1>2, <2>1, <2>5 DEF ReadBadEnd
  <2>6. CASE \E t \in ToolCalls : ReadToolCall(t)
    BY <1>1, <1>2, <2>1, <2>6 DEF ReadToolCall, Response, readerVars
  <2> QED
    BY <2>3, <2>4, <2>5, <2>6
<1>7. \A p, q \in RunPlaces, i, j \in Nat : RunEnd(c, p, i) /\ RunEnd(c, q, j) => p = q /\ i = j
  BY DEF Counted, OneRun
<1>8. ASSUME NEW p \in RunPlaces, NEW i \in Nat, RunEnd(c, p, i)'
      PROVE  \E k \in Nat : RunEnd(c, p, k) /\ k = IF p = "out" THEN i + 1 ELSE i
  BY <1>5, <1>8 DEF RunPlaces
<1>9. RunEnd(c, "out", 1) => Owed(c) /\ ~Owed(c)'
  <2>1. ASSUME RunEnd(c, "out", 1), NEW p \in RunPlaces, NEW i \in Nat, RunEnd(c, p, i)'
        PROVE  FALSE
    <3>1. PICK k \in Nat : RunEnd(c, p, k) /\ k = IF p = "out" THEN i + 1 ELSE i
      BY <1>8, <2>1
    <3>2. p = "out" /\ k = 1
      BY <1>7, <2>1, <3>1 DEF RunPlaces
    <3>3. i >= 1
      BY <1>5, <2>1, <3>2
    <3> QED
      BY <3>1, <3>2, <3>3
  <2> QED
    BY <2>1 DEF Owed, RunPlaces
<1>10. Owed(c)' => Owed(c)
  BY <1>8 DEF Owed
<1>11. ~RunEnd(c, "out", 1) => (Owed(c) => Owed(c)')
  <2>1. ASSUME ~RunEnd(c, "out", 1), NEW p \in RunPlaces, NEW i \in Nat, RunEnd(c, p, i)
        PROVE  \E j \in Nat : RunEnd(c, p, j)'
    <3>1. CASE p = "out"
      <4>1. i # 1 /\ i # 0
        BY <2>1, <3>1, DriverTypes DEF RunEnd
      <4>2. i - 1 \in Nat /\ i - 1 >= 1 /\ (i - 1) + 1 = i
        BY <4>1
      <4> QED
        BY <1>5, <2>1, <3>1, <4>2
    <3> QED
      BY <1>5, <2>1, <3>1 DEF RunPlaces
  <2> QED
    BY <2>1 DEF Owed
<1>12. PICK n \in Nat : /\ DOMAIN out = 1..n + 1 /\ DOMAIN out' = 1..n
                        /\ \A j \in 1..n : out'[j] = out[j + 1]
  BY <1>2 DEF Shrunk
<1>13. \A i \in DOMAIN out' : i \in Nat /\ i >= 1 /\ i + 1 \in DOMAIN out /\ out'[i] = out[i + 1]
  BY <1>12
<1>14. \A i \in DOMAIN out : i = 1 \/ (\E j \in DOMAIN out' : i = j + 1)
  <2>1. \A i \in 1..n + 1 : i = 1 \/ (i - 1 \in 1..n /\ i = (i - 1) + 1)
    OBVIOUS
  <2> QED
    BY <1>12, <2>1
<1>15. Told(c)' <=> Told(c)
  <2>1. (\E i \in DOMAIN out : Answer(c, i) /\ Accepted(out[i]))
          <=> (\E i \in DOMAIN out' : Answer(c, i)' /\ Accepted(out'[i]))
    BY <1>3, <1>5, <1>13, <1>14
  <2>2. (at'[c] = "accepted" <=> at[c] = "accepted") /\ (at'[c] = "awaiting" <=> at[c] = "awaiting")
    BY <1>1, SameCall
  <2> QED
    BY <1>1, <2>1, <2>2 DEF Told, Accepted
<1>16. Asking(c)'
  BY <1>1, <1>4, <1>10, <1>13 DEF Counted, Asking, Response
<1>17. Answering(c)'
  <2>1. /\ Unanswered(c)' /\ inp' = <<>> => \E i \in DOMAIN out' : Answer(c, i)'
    <3>1. ASSUME Unanswered(c), inp = <<>> PROVE \E i \in DOMAIN out' : Answer(c, i)'
      <4>1. PICK i \in DOMAIN out : Answer(c, i)
        BY <3>1 DEF Counted, Answering
      <4>2. PICK j \in DOMAIN out' : i = j + 1
        BY <1>3, <1>14, <4>1
      <4> QED
        BY <1>5, <1>13, <4>1, <4>2
    <3> QED
      BY <1>1, <1>4, <3>1
  <2>2. \A i \in DOMAIN out' : Answer(c, i)' => Answer(c, i + 1)
    BY <1>5, <1>13
  <2>3. /\ \A i \in DOMAIN out' : Answer(c, i)' =>
             /\ \/ out'[i].id = rid'[c]
                \/ /\ out'[i].type = "error" /\ out'[i].id = NoRequest
                   /\ out'[i].cmd \in {command'[rid'[c]], "parse"}
             /\ Owed(c)' => Accepted(out'[i]) /\ command'[rid'[c]] = "prompt"
    BY <1>1, <1>10, <1>13, <2>2 DEF Counted, Answering
  <2>4. \A p \in {"writing", "awaiting", "accepted", "gaveUp"} : at'[c] = p <=> at[c] = p
    BY <1>1, SameCall
  <2>5. at'[c] = "awaiting" /\ box'[rid'[c]] # <<>> =>
          /\ Response(box'[rid'[c]][1])
          /\ Owed(c)' => Accepted(box'[rid'[c]][1]) /\ command'[rid'[c]] = "prompt"
    BY <1>1, <1>10, <2>4 DEF Counted, Answering
  <2>6. reader # "putting" /\ reader' # "putting"
    BY <1>1
  <2>7. pending' = IF at'[c] = "writing" \/ (Unanswered(c)' /\ reader' # "putting")
                   THEN {rid'[c]} ELSE {}
    BY <1>1, <1>4, <2>4, <2>6 DEF Counted, Answering
  <2> QED
    BY <2>1, <2>3, <2>5, <2>6, <2>7 DEF Answering, Response, Accepted
<1>18. OneRun(c)'
  <2>1. \A p, q \in RunPlaces, i, j \in Nat : RunEnd(c, p, i)' /\ RunEnd(c, q, j)' => p = q /\ i = j
    <3>1. ASSUME NEW p \in RunPlaces, NEW q \in RunPlaces, NEW i \in Nat, NEW j \in Nat,
                 RunEnd(c, p, i)', RunEnd(c, q, j)'
          PROVE  p = q /\ i = j
      <4>1. /\ \E k \in Nat : RunEnd(c, p, k) /\ k = IF p = "out" THEN i + 1 ELSE i
            /\ \E k \in Nat : RunEnd(c, q, k) /\ k = IF q = "out" THEN j + 1 ELSE j
        BY <1>8, <3>1
      <4> QED
        BY <1>7, <4>1
    <3> QED
      BY <3>1
  <2>2. \A i \in DOMAIN out' : Response(out'[i]) /\ ~Answer(c, i)' =>
          out'[i].type = "error" /\ out'[i].cmd = "prompt"
    BY <1>1, <1>5, <1>13 DEF Counted, OneRun
  <2>3. \A p \in {"writing", "awaiting", "accepted", "gaveUp"} : at'[c] = p <=> at[c] = p
    BY <1>1, SameCall
  <2>4. InTurn(c)' <=> InTurn(c)
    BY <1>1, SameCall
  <2>5. Owed(c)' => at'[c] = "gaveUp" \/ InTurn(c)'
    BY <1>10, <2>3, <2>4 DEF Counted, OneRun
  <2>6. at'[c] \in {"writing", "awaiting", "accepted"} =>
          (command'[rid'[c]] = "prompt" <=> op'[c] = "prompt_and_wait")
    BY <1>1, <2>3 DEF Counted, OneRun
  <2>7. ASSUME InTurn(c), NEW j \in DOMAIN events', Terminal(events'[j]), offset' + j > start'[c],
               Owed(c)'
        PROVE  FALSE
    <3>1. ~RunEnd(c, "out", 1)
      BY <1>9, <2>7
    <3>2. \E i \in DOMAIN events : Terminal(events[i]) /\ offset + i > start[c]
      <4>1. CASE ReadEvent
        <5>1. HistoryTypes /\ f \in Lines /\ AppendEvent(f)
          <6>1. out \in Seq(Lines)
            BY DriverTypes
          <6> QED
            BY <1>1, <1>2, <4>1, <6>1 DEF ReadEvent, TypeInv
        <5>2. \/ events'[j] = f
              \/ \E i \in DOMAIN events : events'[j] = events[i] /\ offset' + j = offset + i
          BY <2>7, <5>1, AppendTypes
        <5>3. events'[j] # f
          BY <1>2, <2>7, <3>1 DEF RunEnd, Terminal
        <5> QED
          BY <1>1, <2>7, <5>2, <5>3
      <4>2. CASE ~ReadEvent
        <5>1. UNCHANGED <<events, offset>>
          BY <4>2 DEF Unmatched, ReadBadEnd, ReadToolCall, runVars
        <5> QED
          BY <1>1, <2>7, <5>1
      <4> QED
        BY <4>1, <4>2
    <3> QED
      BY <1>10, <2>7, <3>2 DEF Counted, OneRun
  <2>8. InTurn(c)' /\ (\E i \in DOMAIN events' : Terminal(events'[i]) /\ offset' + i > start'[c])
          => ~Owed(c)'
    BY <2>4, <2>7
  <2> QED
    BY <2>1, <2>2, <2>5, <2>6, <2>8 DEF OneRun, Response, Terminal
<1>19. Balanced(c)'
  <2>1. Count(Owed(c)') + Count((reader = "completing")') = Count(Owed(c))
    BY <1>1, <1>6, <1>9, <1>10, <1>11 DEF Count
  <2>2. scheduled + Count(Told(c)) = completed + Count(Owed(c))
    BY <1>1, DriverTypes DEF Counted, Balanced, Count
  <2>3. scheduled + Count(Told(c)) = completed + (Count(Owed(c)') + Count((reader = "completing")'))
    BY <2>1, <2>2
  <2>4. scheduled + Count(Told(c)) = completed + Count(Owed(c)') + Count((reader = "completing")')
    BY <2>3, DriverTypes DEF Count
  <2> QED
    BY <1>1, <1>15, <2>4 DEF Balanced, Count
<1> QED
  BY <1>16, <1>17, <1>18, <1>19 DEF Counted

\* The one run that is owed moves on at the agent, and nothing else is seen of it.
LEMMA MoveCount ==
  ASSUME ReplyInv, TypeInv, NEW c \in Callers, Counted(c),
         UNCHANGED <<op, rid, start, at, inp, pending, box, command, scheduled, completed, events,
                     offset, reader, target>>,
         \A i \in Nat : Answer(c, i)' <=> Answer(c, i),
         \A i \in DOMAIN out : i \in DOMAIN out' /\ out'[i] = out[i],
         \A i \in DOMAIN out' :
           \/ i \in DOMAIN out /\ out'[i] = out[i]
           \/ ~Response(out'[i])
           \/ inp = <<>> /\ out'[i].type = "error" /\ out'[i].cmd = "prompt",
         Owed(c)' <=> Owed(c),
         \A p, q \in RunPlaces, i, j \in Nat :
           RunEnd(c, p, i)' /\ RunEnd(c, q, j)' => p = q /\ i = j,
         DOMAIN out' \subseteq Nat
  PROVE  Counted(c)'
<1>1. Unanswered(c)' <=> Unanswered(c)
  BY DEF Unanswered
<1>2. DOMAIN out \subseteq Nat
  BY DriverTypes
<1>3. \A i \in DOMAIN out' : Answer(c, i)' => i \in DOMAIN out /\ out'[i] = out[i] /\ Answer(c, i)
  BY DEF Answer
<1>4. Asking(c)'
  BY <1>1 DEF Counted, Asking, Response
<1>5. Answering(c)'
  <2>1. Unanswered(c)' /\ inp' = <<>> => \E i \in DOMAIN out' : Answer(c, i)'
    BY <1>1, <1>2 DEF Counted, Answering
  <2>2. \A i \in DOMAIN out' : Answer(c, i)' =>
             /\ \/ out'[i].id = rid'[c]
                \/ /\ out'[i].type = "error" /\ out'[i].id = NoRequest
                   /\ out'[i].cmd \in {command'[rid'[c]], "parse"}
             /\ Owed(c)' => Accepted(out'[i]) /\ command'[rid'[c]] = "prompt"
    BY <1>3 DEF Counted, Answering
  <2>3. reader' = "putting" => Answer(c, 1)' /\ target' = rid'[c]
    BY DEF Counted, Answering
  <2> QED
    BY <1>1, <2>1, <2>2, <2>3 DEF Counted, Answering, Accepted, Response
<1>6. OneRun(c)'
  <2>1. \A i \in DOMAIN out' : Response(out'[i]) /\ ~Answer(c, i)' =>
          out'[i].type = "error" /\ out'[i].cmd = "prompt"
    BY <1>2 DEF Counted, OneRun
  <2> QED
    BY <2>1 DEF Counted, OneRun, InTurn, Response
<1>7. Told(c)' <=> Told(c)
  <2>1. (\E i \in DOMAIN out : Answer(c, i) /\ Accepted(out[i]))
          <=> (\E i \in DOMAIN out' : Answer(c, i)' /\ Accepted(out'[i]))
    BY <1>2, <1>3
  <2> QED
    BY <2>1 DEF Told, Accepted
<1>8. Balanced(c)'
  BY <1>7 DEF Counted, Balanced, Count
<1> QED
  BY <1>4, <1>5, <1>6, <1>8 DEF Counted

\* The agent reads the command, and its answer is on the way.
LEMMA AnswerCount ==
  ASSUME ReplyInv, TypeInv, OneMark, EndsAreTrue, NEW c \in Callers, Counted(c), AgentReads
  PROVE  Counted(c)'
<1>1. /\ UNCHANGED <<op, rid, start, at, pending, box, command, scheduled, completed, events,
                     offset, reader, target, run>>
      /\ inp # <<>> /\ inp' = Tail(inp)
  BY DEF AgentReads, Agent, replyVars, runVars, callVars, readerVars
<1>2. PICK r : r = rid[c]
  OBVIOUS
<1>3. /\ Unanswered(c) /\ inp = <<r>> /\ ~Owed(c) /\ Unheard
      /\ \A i \in DOMAIN out : ~Response(out[i])
  BY <1>1, <1>2 DEF Counted, Asking, Unheard
<1>4. /\ at[c] = "awaiting" /\ box[r] = <<>> /\ r \in Requests /\ Head(inp) = r /\ inp' = <<>>
      /\ inp[1] = r /\ 1 \in DOMAIN inp
  BY <1>1, <1>2, <1>3, DriverTypes DEF Unanswered
<1>5. PICK x : /\ out' = Append(out, x) /\ x \in Lines /\ Response(x)
               /\ \/ x.id = r
                  \/ x.type = "error" /\ x.id = NoRequest /\ x.cmd \in {command[r], "parse"}
               /\ todo' = IF x.type = "reply" /\ command[r] = "prompt" THEN Append(todo, r)
                          ELSE todo
  <2>1. PICK x : /\ out' = Append(out, x)
                 /\ \/ /\ x = Frame("reply", r, command[r], r)
                       /\ todo' = IF command[r] = "prompt" THEN Append(todo, r) ELSE todo
                    \/ /\ x \in {Frame("error", r, command[r], r),
                                 Frame("error", NoRequest, command[r], r),
                                 Frame("error", NoRequest, "parse", r)}
                       /\ UNCHANGED todo
    BY <1>4 DEF AgentReads, Emit
  <2>2. command[r] \in {"none", "prompt", "request"}
    BY <1>4 DEF TypeInv, AgentTypes
  <2>3. x.type \in {"reply", "error"} /\ x \in Lines
    BY <1>4, <2>1, <2>2 DEF Frame, Lines
  <2>4. x.type = "reply" <=> x = Frame("reply", r, command[r], r)
    BY <2>1 DEF Frame
  <2>5. \/ x.id = r
        \/ x.type = "error" /\ x.id = NoRequest /\ x.cmd \in {command[r], "parse"}
    BY <2>1 DEF Frame
  <2>6. todo' = IF x.type = "reply" /\ command[r] = "prompt" THEN Append(todo, r) ELSE todo
    <3>1. CASE x = Frame("reply", r, command[r], r)
      BY <2>1, <2>4, <3>1 DEF Frame
    <3>2. CASE x # Frame("reply", r, command[r], r)
      BY <2>1, <2>4, <3>2
    <3> QED
      BY <3>1, <3>2
  <2> QED
    BY <2>1, <2>3, <2>5, <2>6 DEF Response
<1>6. Unanswered(c)'
  BY <1>1, <1>2, <1>4 DEF Unanswered
<1>7. PICK n \in Nat :
         /\ DOMAIN out = 1..n /\ DOMAIN out' = 1..n + 1
         /\ out'[n + 1] = x /\ \A i \in 1..n : out'[i] = out[i]
         /\ \A i \in Nat : Answer(c, i)' <=>
              \/ Answer(c, i)
              \/ i = n + 1 /\ Unanswered(c) /\ Response(x) /\ Unheard
         /\ \A i \in Nat : RunEnd(c, "out", i)' <=>
              \/ RunEnd(c, "out", i)
              \/ /\ i = n + 1
                 /\ \/ x.type \in {"agent_end", "badEnd"}
                    \/ Response(x) /\ ~(Unanswered(c) /\ Unheard)
  <2>1. Grown(out, out', x)
    BY <1>5, AppendGrows, DriverTypes
  <2>2. UNCHANGED Unanswered(c)
    BY <1>3, <1>6 DEF Unanswered
  <2> QED
    BY <2>1, <2>2, GrowView
<1>8. \A i : ~Answer(c, i)
  BY <1>3 DEF Answer
<1>9. \A i \in Nat : Answer(c, i)' <=> i = n + 1
  BY <1>3, <1>5, <1>7, <1>8
<1>10. \A p \in RunPlaces, i \in Nat : ~RunEnd(c, p, i)
  BY <1>3 DEF Owed
<1>11. \A i \in Nat : ~RunEnd(c, "out", i)' /\ ~RunEnd(c, "run", i)'
  <2>1. \A i \in Nat : ~RunEnd(c, "out", i)'
    BY <1>3, <1>5, <1>7, <1>10 DEF Response, RunPlaces
  <2>2. run = NoRequest
    BY <1>10 DEF RunEnd, RunPlaces
  <2> QED
    BY <1>1, <2>1, <2>2 DEF RunEnd
<1>12. todo = <<>>
  <2>1. todo \in Seq(Requests)
    BY DEF TypeInv, AgentTypes
  <2>2. todo # <<>> => 1 \in DOMAIN todo
    BY <2>1
  <2> QED
    BY <1>10, <2>2 DEF RunEnd, RunPlaces
<1>13. \A i \in Nat : RunEnd(c, "todo", i)' <=> i = 1 /\ x.type = "reply" /\ command[r] = "prompt"
  <2>1. todo' = IF x.type = "reply" /\ command[r] = "prompt" THEN <<r>> ELSE <<>>
    BY <1>5, <1>12
  <2>2. DOMAIN <<r>> = {1} /\ DOMAIN <<>> = {}
    OBVIOUS
  <2> QED
    BY <2>1, <2>2 DEF RunEnd
<1>14. Owed(c)' <=> x.type = "reply" /\ command[r] = "prompt"
  BY <1>11, <1>13 DEF Owed, RunPlaces
<1>15. reader # "putting" /\ pending = {r}
  BY <1>2, <1>3, <1>8 DEF Counted, Answering
<1>16. Asking(c)'
  BY <1>4 DEF Asking
<1>17. Answering(c)'
  <2>1. /\ n + 1 \in DOMAIN out' /\ Answer(c, n + 1)'
        /\ \A i \in DOMAIN out' : Answer(c, i)' => i = n + 1
    BY <1>7, <1>9
  <2>2. ~(at'[c] = "awaiting" /\ box'[rid'[c]] # <<>>)
    BY <1>1, <1>2, <1>4
  <2>3. \A i \in DOMAIN out' : Answer(c, i)' =>
             /\ \/ out'[i].id = rid'[c]
                \/ /\ out'[i].type = "error" /\ out'[i].id = NoRequest
                   /\ out'[i].cmd \in {command'[rid'[c]], "parse"}
             /\ Owed(c)' => out'[i].type = "reply" /\ command'[rid'[c]] = "prompt"
    BY <1>1, <1>2, <1>5, <1>7, <1>14, <2>1
  <2>4. reader' # "putting" /\ pending' = {rid'[c]}
    BY <1>1, <1>2, <1>15
  <2> QED
    BY <1>6, <2>1, <2>2, <2>3, <2>4 DEF Answering, Accepted
<1>18. OneRun(c)'
  <2>1. \A p, q \in RunPlaces, i, j \in Nat : RunEnd(c, p, i)' /\ RunEnd(c, q, j)' => p = q /\ i = j
    BY <1>11, <1>13 DEF RunPlaces
  <2>2. \A i \in DOMAIN out' : Response(out'[i]) => Answer(c, i)'
    <3>1. \A i \in 1..n + 1 : i \in Nat /\ (i = n + 1 \/ i \in 1..n)
      OBVIOUS
    <3> QED
      BY <1>3, <1>7, <1>9, <3>1 DEF Response
  <2>3. at'[c] \in {"writing", "awaiting", "accepted"} =>
          (command'[rid'[c]] = "prompt" <=> op'[c] = "prompt_and_wait")
    BY <1>1 DEF Counted, OneRun
  <2>4. Owed(c)' => InTurn(c)' /\ InTurn(c)
    BY <1>1, <1>2, <1>4, <1>14, <2>3 DEF InTurn
  <2>5. ASSUME Owed(c)', NEW i \in DOMAIN events, Terminal(events[i]), offset + i > start[c]
        PROVE  FALSE
    <3>1. i \in Nat /\ events[i].of \in Requests
      BY <2>5 DEF EndsAreTrue, TypeInv, AgentTypes, HistoryTypes
    <3>2. Mark(c, "inp", 1, r)
      BY <1>4, <1>14, <2>5 DEF Mark
    <3>3. Mark(c, "history", i, events[i].of)
      BY <2>4, <2>5 DEF Mark, Collects, InTurn, Collecting
    <3>4. "inp" \in Places /\ "history" \in Places /\ "inp" # "history"
      BY DEF Places
    <3> QED
      BY <1>4, <3>1, <3>2, <3>3, <3>4 DEF OneMark
  <2> QED
    BY <1>1, <2>1, <2>2, <2>3, <2>4, <2>5 DEF OneRun, Response, Terminal
<1>19. Told(c)' <=> command[r] = "prompt" /\ x.type = "reply"
  <2>1. (\E i \in DOMAIN out' : Answer(c, i)' /\ Accepted(out'[i])) <=> x.type = "reply"
    <3>1. \A i \in 1..n + 1 : i \in Nat
      OBVIOUS
    <3> QED
      BY <1>7, <1>9, <3>1 DEF Accepted
  <2> QED
    BY <1>1, <1>2, <1>4, <2>1 DEF Told, Accepted
<1>20. ~Told(c)
  BY <1>2, <1>4, <1>8 DEF Told
<1>21. Balanced(c)'
  BY <1>1, <1>3, <1>14, <1>19, <1>20, DriverTypes DEF Counted, Balanced, Count
<1> QED
  BY <1>16, <1>17, <1>18, <1>21 DEF Counted

\* The steps of the agent.
LEMMA AgentCount ==
  ASSUME ReplyInv, TypeInv, OneMark, EndsAreTrue, NEW c \in Callers, Counted(c), AgentStep
  PROVE  Counted(c)'
<1>1. /\ UNCHANGED <<op, rid, start, at, pending, box, command, scheduled, completed, events,
                     offset, reader, target>>
      /\ inp' = inp \/ AgentReads
  BY DEF AgentStep, AgentReads, AgentStarts, AgentEnds, AgentBreaks, AgentEmits, AgentCallsTool,
     Agent, replyVars, runVars, callVars, readerVars
<1>2. out \in Seq(Lines) /\ todo \in Seq(Requests) /\ run \in Requests \union {NoRequest}
      /\ DOMAIN out = 1..Len(out) /\ Len(out) \in Nat
  BY DEF TypeInv, AgentTypes
<1>3. UNCHANGED Unanswered(c)
  BY <1>1 DEF Unanswered
<1>4. \A p, q \in RunPlaces, i, j \in Nat : RunEnd(c, p, i) /\ RunEnd(c, q, j) => p = q /\ i = j
  BY DEF Counted, OneRun
\* A frame that is no end of a run.
<1>5. ASSUME NEW x \in Lines, out' = Append(out, x), UNCHANGED <<inp, todo, run>>,
             x.type \in {"event", "continued", "toolCall", "garbage"}
      PROVE  Counted(c)'
  <2>1. PICK n \in Nat :
         /\ DOMAIN out = 1..n /\ DOMAIN out' = 1..n + 1
         /\ out'[n + 1] = x /\ \A i \in 1..n : out'[i] = out[i]
         /\ \A i \in Nat : Answer(c, i)' <=>
              \/ Answer(c, i)
              \/ i = n + 1 /\ Unanswered(c) /\ Response(x) /\ Unheard
         /\ \A i \in Nat : RunEnd(c, "out", i)' <=>
              \/ RunEnd(c, "out", i)
              \/ /\ i = n + 1
                 /\ \/ x.type \in {"agent_end", "badEnd"}
                    \/ Response(x) /\ ~(Unanswered(c) /\ Unheard)
    BY <1>2, <1>3, <1>5, AppendGrows, GrowView
  <2>2. ~Response(x) /\ x.type \notin {"agent_end", "badEnd"}
    BY <1>5 DEF Response
  <2>3. (\A i \in Nat : Answer(c, i)' <=> Answer(c, i))
        /\ (\A i \in Nat : RunEnd(c, "out", i)' <=> RunEnd(c, "out", i))
    BY <2>1, <2>2
  <2>4. \A i \in Nat : /\ RunEnd(c, "todo", i)' <=> RunEnd(c, "todo", i)
                       /\ RunEnd(c, "run", i)' <=> RunEnd(c, "run", i)
    BY <1>5 DEF RunEnd
  <2>5. \A p \in RunPlaces, i \in Nat : RunEnd(c, p, i)' <=> RunEnd(c, p, i)
    BY <2>3, <2>4 DEF RunPlaces
  <2>6. /\ \A i \in DOMAIN out : i \in DOMAIN out' /\ out'[i] = out[i]
        /\ \A i \in DOMAIN out' : (i \in DOMAIN out /\ out'[i] = out[i]) \/ ~Response(out'[i])
        /\ DOMAIN out' \subseteq Nat
    <3>1. \A i \in 1..n + 1 : i \in Nat /\ (i = n + 1 \/ i \in 1..n)
      OBVIOUS
    <3>2. \A i \in 1..n : i \in 1..n + 1
      OBVIOUS
    <3> QED
      BY <2>1, <2>2, <3>1, <3>2
  <2>7. (Owed(c)' <=> Owed(c))
        /\ \A p, q \in RunPlaces, i, j \in Nat :
             RunEnd(c, p, i)' /\ RunEnd(c, q, j)' => p = q /\ i = j
    BY <1>4, <2>5 DEF Owed
  <2> QED
    BY <1>1, <1>5, <2>3, <2>6, <2>7, MoveCount
\* One that is, of a run that was somewhere else.
<1>6. ASSUME NEW x \in Lines, out' = Append(out, x), UNCHANGED inp,
             x.type \in {"agent_end", "badEnd"}
               \/ (Response(x) /\ x.type = "error" /\ x.cmd = "prompt"),
             NEW p0 \in RunPlaces, NEW i0 \in Nat, RunEnd(c, p0, i0), p0 # "out",
             \A i \in Nat : ~RunEnd(c, "todo", i)' /\ ~RunEnd(c, "run", i)'
      PROVE  Counted(c)'
  <2>1. PICK n \in Nat :
         /\ DOMAIN out = 1..n /\ DOMAIN out' = 1..n + 1
         /\ out'[n + 1] = x /\ \A i \in 1..n : out'[i] = out[i]
         /\ \A i \in Nat : Answer(c, i)' <=>
              \/ Answer(c, i)
              \/ i = n + 1 /\ Unanswered(c) /\ Response(x) /\ Unheard
         /\ \A i \in Nat : RunEnd(c, "out", i)' <=>
              \/ RunEnd(c, "out", i)
              \/ /\ i = n + 1
                 /\ \/ x.type \in {"agent_end", "badEnd"}
                    \/ Response(x) /\ ~(Unanswered(c) /\ Unheard)
    BY <1>2, <1>3, <1>6, AppendGrows, GrowView
  <2>2. Owed(c) /\ inp = <<>>
    BY <1>6 DEF Owed, Counted, Asking
  <2>3. ~(Unanswered(c) /\ Unheard)
    BY <2>2 DEF Counted, Answering, Unheard, Answer
  <2>4. \A i \in Nat : Answer(c, i)' <=> Answer(c, i)
    BY <2>1, <2>3
  <2>5. \A i \in Nat : ~RunEnd(c, "out", i)
    BY <1>4, <1>6 DEF RunPlaces
  <2>6. \A i \in Nat : RunEnd(c, "out", i)' <=> i = n + 1
    BY <1>6, <2>1, <2>3, <2>5
  <2>7. \A p \in RunPlaces, i \in Nat : RunEnd(c, p, i)' => p = "out" /\ i = n + 1
    BY <1>6, <2>6 DEF RunPlaces
  <2>8. Owed(c)'
    <3>1. n + 1 \in Nat /\ "out" \in RunPlaces
      BY DEF RunPlaces
    <3> QED
      BY <2>6, <3>1 DEF Owed, RunPlaces
  <2>9. /\ \A i \in DOMAIN out : i \in DOMAIN out' /\ out'[i] = out[i]
        /\ \A i \in DOMAIN out' : \/ i \in DOMAIN out /\ out'[i] = out[i]
                                  \/ ~Response(out'[i])
                                  \/ out'[i].type = "error" /\ out'[i].cmd = "prompt"
        /\ DOMAIN out' \subseteq Nat
    <3>1. \A i \in 1..n + 1 : i \in Nat /\ (i = n + 1 \/ i \in 1..n)
      OBVIOUS
    <3>2. \A i \in 1..n : i \in 1..n + 1
      OBVIOUS
    <3> QED
      BY <1>6, <2>1, <3>1, <3>2 DEF Response
  <2>10. \A p, q \in RunPlaces, i, j \in Nat :
           RunEnd(c, p, i)' /\ RunEnd(c, q, j)' => p = q /\ i = j
    BY <2>7
  <2> QED
    BY <1>1, <1>6, <2>2, <2>4, <2>8, <2>9, <2>10, MoveCount
<1>7. CASE AgentReads
  BY <1>7, AnswerCount
<1>8. CASE AgentStarts
  <2>1. todo # <<>> /\ run = NoRequest /\ todo' = Tail(todo) /\ inp' = inp
    BY <1>8 DEF AgentStarts
  <2>2. Shrunk(todo, todo') /\ 1 \in DOMAIN todo /\ Head(todo) = todo[1] /\ todo[1] \in Requests
    BY <1>2, <2>1, TailShrinks
  <2>3. RunEnd(c, "todo", 1) /\ "todo" \in RunPlaces /\ "run" \in RunPlaces /\ "out" \in RunPlaces
    BY <2>2 DEF RunEnd, RunPlaces
  <2>4. DOMAIN todo' = {}
    <3>1. PICK n \in Nat : DOMAIN todo = 1..n + 1 /\ DOMAIN todo' = 1..n
      BY <2>2 DEF Shrunk
    <3>2. n = 0
      <4>1. \A i \in 1..n + 1 : i \in Nat
        OBVIOUS
      <4>2. \A i \in DOMAIN todo : i = 1
        BY <1>4, <2>3, <3>1, <4>1 DEF RunEnd
      <4>3. n + 1 \in 1..n + 1
        OBVIOUS
      <4>4. n + 1 = 1
        BY <3>1, <4>2, <4>3
      <4> QED
        BY <4>4
    <3> QED
      BY <3>1, <3>2
  <2>5. \A i \in Nat : ~RunEnd(c, "todo", i)'
    BY <2>4 DEF RunEnd
  <2>6. CASE run' = Head(todo) /\ UNCHANGED out
    <3>1. NoRequest \notin Requests
      BY DEF NoRequest, Requests
    <3>2. \A i \in Nat : RunEnd(c, "run", i)' <=> i = 0
      BY <2>2, <2>6, <3>1 DEF RunEnd
    <3>3. \A i \in Nat : Answer(c, i)' <=> Answer(c, i)
      BY <1>3, <2>6 DEF Answer
    <3>4. \A i \in Nat : ~RunEnd(c, "out", i)'
      <4>1. \A i \in Nat : RunEnd(c, "out", i)' <=> RunEnd(c, "out", i)
        <5>1. DOMAIN out \subseteq Nat
          BY <1>2
        <5> QED
          BY <2>6, <3>3, <5>1 DEF RunEnd, Response
      <4> QED
        BY <1>4, <2>3, <4>1
    <3>5. \A p \in RunPlaces, i \in Nat : RunEnd(c, p, i)' => p = "run" /\ i = 0
      BY <2>5, <3>2, <3>4 DEF RunPlaces
    <3>6. Owed(c) /\ Owed(c)'
      <4>1. Owed(c)
        BY <2>3 DEF Owed
      <4>2. Owed(c)'
        BY <3>2 DEF Owed, RunPlaces
      <4> QED
        BY <4>1, <4>2
    <3>7. \A p, q \in RunPlaces, i, j \in Nat :
            RunEnd(c, p, i)' /\ RunEnd(c, q, j)' => p = q /\ i = j
      BY <3>5
    <3>8. DOMAIN out' \subseteq Nat
      BY <1>2, <2>6
    <3> QED
      BY <1>1, <2>1, <2>6, <3>3, <3>6, <3>7, <3>8, MoveCount
  <2>7. CASE ~(run' = Head(todo) /\ UNCHANGED out)
    <3>1. PICK r \in Requests : r = Head(todo)
      BY <2>2
    <3>2. PICK x : x = Frame("error", r, "prompt", r)
      OBVIOUS
    <3>3. out' = Append(out, x) /\ run' = run
      BY <1>8, <2>7, <3>1, <3>2 DEF AgentStarts, Emit
    <3>4. x \in Lines /\ Response(x) /\ x.type = "error" /\ x.cmd = "prompt"
      BY <3>2 DEF Frame, Lines, Response
    <3>5. \A i \in Nat : ~RunEnd(c, "run", i)'
      BY <2>1, <3>3 DEF RunEnd
    <3> QED
      BY <1>6, <2>1, <2>3, <2>5, <3>3, <3>4, <3>5
  <2> QED
    BY <2>6, <2>7
<1>9. CASE AgentEnds
  <2>1. run # NoRequest /\ run' = NoRequest /\ UNCHANGED <<inp, todo>> /\ run \in Requests
    BY <1>2, <1>9 DEF AgentEnds
  <2>2. PICK x \in {Frame("agent_end", NoRequest, "none", run),
                    Frame("badEnd", NoRequest, "none", run)} : out' = Append(out, x)
    BY <1>9 DEF AgentEnds, Emit
  <2>3. x \in Lines /\ x.type \in {"agent_end", "badEnd"}
    BY <2>1, <2>2 DEF Frame, Lines
  <2>4. RunEnd(c, "run", 0) /\ "run" \in RunPlaces /\ 0 \in Nat
    BY <2>1 DEF RunEnd, RunPlaces
  <2>5. \A i \in Nat : ~RunEnd(c, "todo", i)
    BY <1>4, <2>4 DEF RunPlaces
  <2>6. \A i \in Nat : ~RunEnd(c, "todo", i)' /\ ~RunEnd(c, "run", i)'
    BY <2>1, <2>5 DEF RunEnd
  <2> QED
    BY <1>6, <2>1, <2>2, <2>3, <2>4, <2>6
<1>10. CASE \/ \E type \in {"event", "continued"} : AgentEmits(type)
            \/ \E t \in ToolCalls : AgentCallsTool(t)
            \/ AgentBreaks
  <2>1. UNCHANGED <<inp, todo, run>>
    BY <1>10 DEF AgentEmits, AgentCallsTool, AgentBreaks
  <2>2. CASE out' = out
    <3>1. Unanswered(c)' <=> Unanswered(c)
      BY <1>3
    <3>2. /\ \A i : Answer(c, i)' <=> Answer(c, i)
          /\ \A p, i : RunEnd(c, p, i)' <=> RunEnd(c, p, i)
          /\ Owed(c)' <=> Owed(c)
      BY <2>1, <2>2, <3>1, SameView
    <3>3. DOMAIN out' \subseteq Nat
      BY <1>2, <2>2
    <3> QED
      BY <1>1, <1>4, <2>1, <2>2, <3>2, <3>3, MoveCount
  <2>3. CASE out' # out
    <3>1. PICK t \in {"event", "continued", "toolCall", "garbage"},
               r \in Requests \union {NoRequest} :
             out' = Append(out, Frame(t, NoRequest, "none", r))
      BY <1>2, <1>10, <2>3 DEF AgentEmits, AgentCallsTool, AgentBreaks, Emit
    <3>2. PICK x : x = Frame(t, NoRequest, "none", r)
      OBVIOUS
    <3>3. x \in Lines /\ x.type \in {"event", "continued", "toolCall", "garbage"}
      BY <3>1, <3>2 DEF Frame, Lines
    <3> QED
      BY <1>5, <2>1, <3>1, <3>2, <3>3
  <2> QED
    BY <2>2, <2>3
<1> QED
  BY <1>7, <1>8, <1>9, <1>10 DEF AgentStep

\* Whoever fails the pending requests has marked the client closed.
LEMMA ClosedStep ==
  ASSUME TypeInv, ClosedIsMarked, [Next]_vars
  PROVE  ClosedIsMarked'
<1>1. marking \in [Markers -> MarkPoints]
  BY DEF TypeInv, EndTypes
<1>2. CASE \/ \E c \in Callers : Caller(c)
           \/ \E t \in ToolCalls : ToolEnds(t)
           \/ AgentStep
           \/ UNCHANGED vars
  <2>1. UNCHANGED <<closed, marking>>
    BY <1>2 DEF Caller, Refused, Acquire, Send, ReadEventIndex, ReadErrorIndex, CheckAsyncErrors,
       Register, Write, GetReply, RequestTimesOut, MarkScheduled, Collect, WaitTimesOut, endVars,
       ToolEnds, AgentStep, AgentReads, AgentStarts, AgentEnds, AgentBreaks, AgentEmits,
       AgentCallsTool, Agent, vars
  <2> QED
    BY <2>1 DEF ClosedIsMarked
<1>3. CASE ReaderStep
  <2>1. UNCHANGED closed /\ (UNCHANGED marking \/ StartMarking(Reader))
    BY <1>3 DEF ReaderStep, MatchResponse, Put, Unmatched, ReadEvent, ReadBadEnd, Complete,
       ReadToolCall, ReaderFails, ReaderEnds, endVars
  <2> QED
    BY <1>1, <2>1 DEF ClosedIsMarked, StartMarking
<1>4. CASE \E m \in Markers : MarkStep(m)
  BY <1>1, <1>4 DEF MarkStep, MarkCheck, MarkSet, MarkFail, MarkNotify, Marking, ClosedIsMarked
<1>5. CASE \E s \in Stoppers : StopBegins(s) \/ StopContinues(s)
  <2>1. UNCHANGED closed /\ (UNCHANGED marking \/ \E s \in Stoppers : StartMarking(s))
    BY <1>5 DEF StopBegins, StopContinues, StopIterates, StopClosesStdin, StopKills,
       StopClosesStdout, StopClears, HookMarks, Stopping
  <2> QED
    BY <1>1, <2>1 DEF ClosedIsMarked, StartMarking
<1> QED
  BY <1>2, <1>3, <1>4, <1>5 DEF Next

\* Every step keeps the count.
LEMMA CountStep ==
  ASSUME OneDriver, ReplyInv, TypeInv, OwnTurnInv, ClosedIsMarked, NEW c \in Callers, CountInv(c),
         [Next]_vars
  PROVE  CountInv(c)'
<1>1. CASE \E d \in Callers : Caller(d)
  <2>1. Caller(c)
    BY <1>1 DEF OneDriver
  <2> QED
    BY <2>1, CallCount DEF OwnTurnInv
<1>2. CASE \/ ReaderStep \/ AgentStep \/ UNCHANGED vars
           \/ \E m \in Markers : MarkStep(m)
           \/ \E s \in Stoppers : StopBegins(s) \/ StopContinues(s)
           \/ \E t \in ToolCalls : ToolEnds(t)
  <2>1. (at' = at \/ NotifyAll) /\ UNCHANGED <<op, rid, start, last>> /\ (closed => closed')
    <3>1. CASE ReaderStep
      BY <3>1 DEF ReaderStep, MatchResponse, Put, Unmatched, ReadEvent, ReadBadEnd, Complete,
         ReadToolCall, ReaderFails, ReaderEnds, callVars, endVars
    <3>2. CASE AgentStep
      BY <3>2 DEF AgentStep, AgentReads, AgentStarts, AgentEnds, AgentBreaks, AgentEmits,
         AgentCallsTool, Agent, callVars
    <3>3. CASE ~ReaderStep /\ ~AgentStep
      BY <1>2, <3>3 DEF MarkStep, MarkCheck, MarkSet, MarkFail, MarkNotify, Marking, StopBegins,
         StopContinues, StopIterates, StopClosesStdin, StopKills, StopClosesStdout, StopClears,
         HookMarks, Stopping, ToolEnds, vars, callVars, endVars
    <3> QED
      BY <3>1, <3>2, <3>3
  <2>2. Abandoned(c) => Abandoned(c)'
    BY <2>1 DEF Abandoned, NotifyAll
  <2>3. SUFFICES ASSUME ~Abandoned(c), ~Abandoned(c)', Counted(c)
                 PROVE  Counted(c)'
    BY <2>2 DEF CountInv, Counted
  <2>4. CASE AgentStep
    BY <2>3, <2>4, AgentCount DEF OwnTurnInv
  <2>5. CASE ReaderStep
    <3>1. CASE \E r \in Requests : MatchResponse(r)
      BY <2>3, <3>1, MatchCount
    <3>2. CASE Put
      BY <2>3, <3>2, PutCount
    <3>3. CASE Unmatched \/ ReadEvent \/ ReadBadEnd \/ \E t \in ToolCalls : ReadToolCall(t)
      BY <2>3, <3>3, TakeCount
    <3>4. CASE Complete \/ ReaderFails \/ ReaderEnds
      <4>1. /\ UNCHANGED <<inp, out, todo, run, pending, box, command, scheduled, events, offset,
                           target>>
            /\ \/ Complete
               \/ /\ reader \in {"reading", "closing"} /\ reader' \in {"closing", "exited"}
                  /\ UNCHANGED completed
        BY <3>4 DEF Complete, ReaderFails, ReaderEnds, Frames, agentVars, replyVars, runVars
      <4> QED
        BY <2>1, <2>3, <4>1, BystanderCount
    <3> QED
      BY <2>5, <3>1, <3>2, <3>3, <3>4 DEF ReaderStep
  <2>6. CASE \E m \in Markers : MarkStep(m)
    <3>1. PICK m \in Markers : MarkCheck(m) \/ MarkNotify(m)
      BY <2>3, <2>6 DEF MarkStep, MarkSet, MarkFail, Marking, Abandoned, ClosedIsMarked
    <3>2. UNCHANGED <<inp, out, todo, run, pending, box, command, scheduled, completed, events,
                      offset, reader, target>>
      BY <3>1 DEF MarkCheck, MarkNotify, Marking, agentVars, runVars, readerVars
    <3> QED
      BY <2>1, <2>3, <3>2, BystanderCount
  <2>7. CASE \/ \E s \in Stoppers : StopBegins(s) \/ StopContinues(s)
             \/ \E t \in ToolCalls : ToolEnds(t)
             \/ UNCHANGED vars
    <3>1. UNCHANGED <<inp, out, todo, run, pending, box, command, scheduled, completed, events,
                      offset, reader, target>>
      BY <2>7 DEF StopBegins, StopContinues, StopIterates, StopClosesStdin, StopKills,
         StopClosesStdout, StopClears, HookMarks, Stopping, ToolEnds, vars, agentVars, replyVars,
         runVars, readerVars
    <3> QED
      BY <2>1, <2>3, <3>1, BystanderCount
  <2> QED
    BY <1>2, <2>4, <2>5, <2>6, <2>7
<1> QED
  BY <1>1, <1>2 DEF Next

\* For the driver of robomp, whatever the agent does and whoever stops the client: when
\* nothing is under way, as many runs have been completed as were scheduled, so that
\* _is_agent_idle tells the truth.
THEOREM RpcCountsAgree == OneDriver => (Spec => []CountsAgree)
<1> SUFFICES ASSUME OneDriver
             PROVE  Spec => []CountsAgree
  OBVIOUS
<1> DEFINE Counts == ClosedIsMarked /\ \A c \in Callers : CountInv(c)
<1>1. ASSUME Init
      PROVE  Counts
  <2>1. ASSUME NEW c \in Callers PROVE CountInv(c)
    <3>1. /\ at[c] = "out" /\ inp = <<>> /\ DOMAIN out = {} /\ DOMAIN todo = {} /\ run = NoRequest
          /\ pending = {} /\ reader = "reading" /\ scheduled = 0 /\ completed = 0
      BY <1>1 DEF Init
    <3>2. ~Unanswered(c) /\ ~InTurn(c) /\ ~Told(c) /\ \A i : ~Answer(c, i)
      BY <3>1 DEF Unanswered, InTurn, Told, Answer
    <3>3. ~Owed(c) /\ \A p, i : ~RunEnd(c, p, i)
      BY <3>1 DEF Owed, RunEnd
    <3>4. Asking(c) /\ Answering(c) /\ OneRun(c)
      BY <3>1, <3>2, <3>3 DEF Asking, Answering, OneRun
    <3>5. Balanced(c)
      BY <3>1, <3>2, <3>3 DEF Balanced, Count
    <3> QED
      BY <3>4, <3>5 DEF CountInv
  <2>2. ClosedIsMarked
    BY <1>1 DEF Init, ClosedIsMarked
  <2> QED
    BY <2>1, <2>2
<1>2. Init => Counts
  BY <1>1
<1>3. ASSUME ReplyInv, TypeInv, OwnTurnInv, Counts, [Next]_vars
      PROVE  Counts'
  <2>1. ClosedIsMarked'
    BY <1>3, ClosedStep
  <2>2. \A c \in Callers : CountInv(c)'
    BY <1>3, CountStep
  <2> QED
    BY <2>1, <2>2
<1>4. ReplyInv /\ TypeInv /\ OwnTurnInv /\ Counts /\ [Next]_vars => Counts'
  BY <1>3
<1>5. ASSUME Counts, ReplyInv, TypeInv
      PROVE  CountsAgree
  <2> SUFFICES ASSUME Quiescent PROVE scheduled = completed
    BY DEF CountsAgree
  <2>1. PICK c \in Callers : TRUE
    BY DEF OneDriver
  <2>2. ~Abandoned(c)
    BY DEF Quiescent, Abandoned
  <2>3. Balanced(c)
    BY <1>5, <2>2 DEF CountInv
  <2>4. ~Told(c) /\ reader # "completing"
    BY DEF Quiescent, Told
  <2>5. ~Owed(c)
    <3>1. DOMAIN out = {} /\ DOMAIN todo = {} /\ run = NoRequest
      BY DEF Quiescent
    <3> QED
      BY <3>1 DEF Owed, RunEnd
  <2> QED
    BY <1>5, <2>3, <2>4, <2>5, DriverTypes DEF Balanced, Count
<1>6. Counts /\ ReplyInv /\ TypeInv => CountsAgree
  BY <1>5
<1> HIDE DEF Counts
<1> QED
  BY <1>2, <1>4, <1>6, OwnTurnInvariant, PTL DEF Spec

=============================================================================
