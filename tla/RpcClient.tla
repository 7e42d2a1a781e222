------------------------------ MODULE RpcClient ------------------------------
(***************************************************************************)
(* The JSON-lines RPC client through which robomp drives an agent          *)
(* (omp_rpc/client.py), from the ready signal to the end of stop():        *)
(*   - requests and their replies, matched by id or by command,            *)
(*   - prompts, the retained events and the ways to wait for agent_end,    *)
(*   - stop() and _mark_closed(), which end every wait.                    *)
(* The threads are the callers, the reader of stdout, the threads of the   *)
(* agent's host tools and the threads that call stop().  A step is what    *)
(* one of them does under one lock.  The agent process is external: it     *)
(* answers commands in order and runs prompts one after the other, with    *)
(* the faults named in AgentFaults.                                        *)
(*                                                                         *)
(* A definition Op_variant is Op with one plausible slip in it: the        *)
(* checks put it in Op's place to see that a property notices.             *)
(***************************************************************************)
EXTENDS Integers, Sequences, FiniteSets

CONSTANTS
  Callers,       \* threads that make requests
  NoCaller,      \* "none of them"
  Reader,        \* the thread of _read_stdout_loop
  Stoppers,      \* threads that call stop() once
  Hooks,         \* ... those that do it in worker.py's _cancel_hook
  ToolCalls,     \* ids of the host tool calls the agent may make
  Operations,    \* the calls the callers make
  AgentFaults,   \* what the agent may do besides answering and running
  GivesUp,       \* does a caller stop calling after an error (_drive_turn)?
  Timeouts,      \* may a wait reach its deadline?
  HistoryLimit,  \* max_event_history
  MaxCalls,      \* bound: calls made
  MaxEvents      \* bound: events emitted by the agent

Collecting == {"prompt_and_wait", "wait_for_idle", "collect_events"}
Prompting  == {"prompt", "prompt_and_wait"}
Faults     == {"reject", "unknown", "parse", "late", "badEnd", "continued",
               "garbage", "exit"}

ASSUME ConstantsAssumption ==
  /\ NoCaller \notin Callers
  /\ Reader \notin Stoppers
  /\ Hooks \subseteq Stoppers
  /\ IsFiniteSet(ToolCalls)
  /\ Operations \subseteq Collecting \cup {"prompt", "request"}
  /\ AgentFaults \subseteq Faults
  /\ GivesUp \in BOOLEAN /\ Timeouts \in BOOLEAN
  /\ HistoryLimit \in Nat \ {0}
  /\ MaxCalls \in Nat /\ MaxEvents \in Nat

VARIABLES
  \* the agent and the pipes
  inp,         \* commands written to stdin and not read yet
  out,         \* frames on stdout and not read yet
  alive,       \* the process runs
  stdinOpen, stdoutOpen,
  todo, run,   \* prompts accepted and not started, the one that runs
  emitted,     \* events emitted so far
  ended,       \* prompts whose run has ended
  \* requests
  requestId, command, pending,
  box,         \* the response_queue of each request
  latecomers,  \* history: requests registered when _closed_error was set
  \* prompt lifecycle
  active,      \* the caller that holds _prompt_lifecycle, or NoCaller
  events, offset,      \* _events
  errors,      \* _async_errors.current_index()
  scheduled, completed, lastErrorIndex,
  \* the end
  closed, stopping, process,   \* _closed_error, _stopping, _process set?
  tools,       \* keys of _pending_host_tool_calls
  toolAt,      \* the thread of each tool call
  \* callers
  at, op, rid, start, errStart, last, calls,
  \* reader
  reader, target,
  \* stop() and _mark_closed()
  phase, size, marking

agentVars  == <<inp, out, alive, stdinOpen, stdoutOpen, todo, run, emitted,
                ended>>
replyVars  == <<requestId, command, pending, box, latecomers>>
runVars    == <<events, offset, errors, scheduled, completed, lastErrorIndex>>
endVars    == <<closed, stopping, process, tools, toolAt, phase, size, marking>>
callVars   == <<op, rid, start, errStart, last, calls, active>>
readerVars == <<reader, target>>
vars == <<agentVars, replyVars, runVars, endVars, at, callVars, readerVars>>

Requests  == 1 .. MaxCalls
NoRequest == 0
Markers   == Stoppers \cup {Reader}

\* A frame of stdout: id and command as sent, and for the reader of this
\* model only, the request it is really about.
Frame(type, id, cmd, of) == [type |-> type, id |-> id, cmd |-> cmd, of |-> of]
Closed == Frame("closed", NoRequest, "none", NoRequest)
Response(f) == f.type \in {"reply", "error"}
\* A frame kept in _events; terminal unless isTerminal is False.
Event(f)    == f.type \in {"event", "continued", "agent_end"}
Terminal_any(f) == f.type \in {"agent_end", "continued"}
Terminal(f) == f.type = "agent_end"

CallerPoints == {"out", "busy", "indexed", "idle", "sending", "writing",
                 "awaiting", "accepted", "collecting", "waiting", "gaveUp"}
ReaderPoints == {"reading", "putting", "completing", "closing", "exited"}
StopPhases   == {"none", "iterating", "closingStdin", "killing", "closingStdout",
                 "marking", "done", "raised", "hookMarking", "hooked"}
MarkPoints   == {"no", "check", "set", "fail", "notify", "done"}
Statuses     == {"none", "ok", "commandError", "exit", "valueError", "timeout",
                 "overflow", "async", "refused", "notStarted"}

NoResult == [op |-> "none", status |-> "none", rid |-> NoRequest, whole |-> TRUE]

Init ==
  /\ inp = <<>> /\ out = <<>> /\ alive = TRUE
  /\ stdinOpen = TRUE /\ stdoutOpen = TRUE
  /\ todo = <<>> /\ run = NoRequest /\ emitted = 0
  /\ ended = {}
  /\ requestId = 0 /\ pending = {} /\ latecomers = {}
  /\ command = [r \in Requests |-> "none"]
  /\ box = [r \in Requests |-> <<>>]
  /\ active = NoCaller
  /\ events = <<>> /\ offset = 0 /\ errors = 0
  /\ scheduled = 0 /\ completed = 0 /\ lastErrorIndex = 0
  /\ closed = FALSE /\ stopping = FALSE /\ process = TRUE
  /\ tools = {} /\ toolAt = [t \in ToolCalls |-> "none"]
  /\ at = [c \in Callers |-> "out"]
  /\ op = [c \in Callers |-> "none"]
  /\ rid = [c \in Callers |-> NoRequest]
  /\ start = [c \in Callers |-> 0] /\ errStart = [c \in Callers |-> 0]
  /\ last = [c \in Callers |-> NoResult] /\ calls = 0
  /\ reader = "reading" /\ target = NoRequest
  /\ phase = [s \in Stoppers |-> "none"] /\ size = [s \in Stoppers |-> 0]
  /\ marking = [m \in Markers |-> "no"]

-----------------------------------------------------------------------------
(* _BoundedHistory and the wait for agent_end.                             *)

CurrentIndex == offset + Len(events)

\* items[i - offset :], with Python's reading of a negative index.
SnapshotFrom(i) ==
  LET k == i - offset IN
  IF k >= 0 THEN SubSeq(events, k + 1, Len(events))
  ELSE SubSeq(events, IF Len(events) + k >= 0 THEN Len(events) + k + 1 ELSE 1,
              Len(events))

AppendEvent_untrimmed(f) == events' = Append(events, f) /\ UNCHANGED offset
AppendEvent(f) ==
  LET items == Append(events, f)
      trim  == IF Len(items) > HistoryLimit THEN Len(items) - HistoryLimit ELSE 0
  IN  /\ events' = SubSeq(items, trim + 1, Len(items))
      /\ offset' = offset + trim

\* notify_all: whoever sleeps on _event_condition looks again.
NotifyAll ==
  at' = [c \in Callers |-> IF at[c] = "waiting" THEN "collecting" ELSE at[c]]

HasEnded(s) == \E i \in DOMAIN s : Terminal(s[i])

\* What one pass of _wait_for_agent_end's loop finds.  Errors trimmed from
\* their history are errors since errStart as well, so a count is enough.
Outcome_no_overflow(c) ==
  IF closed THEN "exit"
  ELSE IF errors > errStart[c] THEN "async"
  ELSE IF HasEnded(SnapshotFrom(start[c])) THEN "ok"
  ELSE "none"
Outcome(c) ==
  IF closed THEN "exit"
  ELSE IF start[c] < offset THEN "overflow"
  ELSE IF errors > errStart[c] THEN "async"
  ELSE IF HasEnded(SnapshotFrom(start[c])) THEN "ok"
  ELSE "none"

-----------------------------------------------------------------------------
(* Calls.                                                                  *)

MayCall(c, o) ==
  /\ at[c] = "out" /\ calls < MaxCalls /\ o \in Operations
  /\ op' = [op EXCEPT ![c] = o] /\ calls' = calls + 1

\* The call of c ends: its locals are gone, a collector gives back
\* _prompt_lifecycle.  whole: what it collected is all since it began.
Return(c, status) ==
  /\ at' = [at EXCEPT ![c] = IF GivesUp /\ status # "ok" THEN "gaveUp" ELSE "out"]
  /\ active' = IF active = c THEN NoCaller ELSE active
  /\ start' = [start EXCEPT ![c] = 0] /\ errStart' = [errStart EXCEPT ![c] = 0]
  /\ last' = [last EXCEPT ![c] =
       [op |-> op[c], status |-> status, rid |-> rid[c],
        whole |-> at[c] \in {"collecting", "waiting"} /\ status = "ok" =>
                    Len(SnapshotFrom(start[c])) = CurrentIndex - start[c]]]

\* The call of c goes on.
GoTo(c, point) ==
  /\ at' = [at EXCEPT ![c] = point]
  /\ UNCHANGED <<active, start, errStart, last>>

\* RpcConcurrencyError of _PromptLifecycleCoordinator.acquire.
Refused(c, o) ==
  /\ o \in Collecting /\ active # NoCaller /\ MayCall(c, o)
  /\ last' = [last EXCEPT ![c] = [NoResult EXCEPT !.op = o, !.status = "refused"]]
  /\ UNCHANGED <<agentVars, replyVars, runVars, endVars, readerVars, at, rid,
                 start, errStart, active>>

\* prompt_and_wait and collect_events take the lifecycle and read the event
\* index; wait_for_idle first looks whether anything is running.
Acquire(c, o) ==
  /\ o \in Collecting /\ active = NoCaller /\ MayCall(c, o)
  /\ active' = c
  /\ IF o = "wait_for_idle"
     THEN /\ at' = [at EXCEPT ![c] = IF scheduled = completed THEN "idle" ELSE "busy"]
          /\ UNCHANGED start
     ELSE /\ at' = [at EXCEPT ![c] = "indexed"]
          /\ start' = [start EXCEPT ![c] = CurrentIndex]
  /\ UNCHANGED <<agentVars, replyVars, runVars, endVars, readerVars, rid,
                 errStart, last>>

ReadEventIndex(c) ==
  /\ at[c] = "busy"
  /\ at' = [at EXCEPT ![c] = "indexed"]
  /\ start' = [start EXCEPT ![c] = CurrentIndex]
  /\ UNCHANGED <<agentVars, replyVars, runVars, endVars, readerVars, op, rid,
                 errStart, last, calls, active>>

ReadErrorIndex(c) ==
  /\ at[c] = "indexed"
  /\ at' = [at EXCEPT ![c] = IF op[c] = "prompt_and_wait" THEN "sending"
                             ELSE "collecting"]
  /\ errStart' = [errStart EXCEPT ![c] = errors]
  /\ UNCHANGED <<agentVars, replyVars, runVars, endVars, readerVars, op, rid,
                 start, last, calls, active>>

\* _check_async_errors, once wait_for_idle found the agent idle.
CheckAsyncErrors(c) ==
  /\ at[c] = "idle"
  /\ Return(c, IF errors > lastErrorIndex THEN "async" ELSE "ok")
  /\ UNCHANGED <<agentVars, replyVars, runVars, endVars, readerVars, op, rid, calls>>

Send(c, o) ==
  /\ o \in {"prompt", "request"} /\ MayCall(c, o)
  /\ GoTo(c, "sending")
  /\ UNCHANGED <<agentVars, replyVars, runVars, endVars, readerVars, rid>>

\* _request up to its entry in _pending ...
Register(c) ==
  /\ at[c] = "sending"
  /\ \/ ~process /\ Return(c, "notStarted") /\ UNCHANGED <<replyVars, rid>>
     \/ /\ process /\ GoTo(c, "writing")
        /\ requestId' = requestId + 1
        /\ pending' = pending \cup {requestId'}
        /\ latecomers' = IF closed THEN latecomers \cup {requestId'} ELSE latecomers
        /\ command' = [command EXCEPT ![requestId'] =
                         IF op[c] \in Prompting THEN "prompt" ELSE "request"]
        /\ rid' = [rid EXCEPT ![c] = requestId']
        /\ UNCHANGED box
  /\ UNCHANGED <<agentVars, runVars, endVars, readerVars, op, calls>>

\* ... the write: a broken pipe is an RpcProcessExitError, a file closed by
\* stop() a ValueError ...
Write(c) ==
  /\ at[c] = "writing"
  /\ \/ /\ alive /\ stdinOpen /\ GoTo(c, "awaiting")
        /\ inp' = Append(inp, rid[c])
        /\ UNCHANGED pending
     \/ /\ ~(alive /\ stdinOpen)
        /\ Return(c, IF stdinOpen THEN "exit" ELSE "valueError")
        /\ pending' = pending \ {rid[c]}
        /\ UNCHANGED inp
  /\ UNCHANGED <<out, alive, stdinOpen, stdoutOpen, todo, run, emitted, ended,
                 requestId, command, box, latecomers, runVars, endVars, readerVars,
                 op, rid, calls>>

\* ... and the wait for the reply.
GetReply(c) ==
  /\ at[c] = "awaiting" /\ box[rid[c]] # <<>>
  /\ box' = [box EXCEPT ![rid[c]] = Tail(@)]
  /\ LET f == Head(box[rid[c]]) IN
     \/ f.type = "reply" /\ op[c] \in Prompting /\ GoTo(c, "accepted")
     \/ f.type = "reply" /\ op[c] \notin Prompting /\ Return(c, "ok")
     \/ f.type = "error" /\ Return(c, "commandError")
     \/ f.type = "closed" /\ Return(c, "exit")
  /\ UNCHANGED <<agentVars, requestId, command, pending, latecomers, runVars, endVars,
                 readerVars, op, rid, calls>>

RequestTimesOut(c) ==
  /\ Timeouts /\ at[c] = "awaiting" /\ box[rid[c]] = <<>>
  /\ pending' = pending \ {rid[c]}
  /\ Return(c, "timeout")
  /\ UNCHANGED <<agentVars, requestId, command, box, latecomers, runVars, endVars,
                 readerVars, op, rid, calls>>

\* _mark_agent_run_scheduled, after the reply.
MarkScheduled(c) ==
  /\ at[c] = "accepted"
  /\ scheduled' = scheduled + 1
  /\ lastErrorIndex' = errors
  /\ IF op[c] = "prompt" THEN Return(c, "ok") ELSE GoTo(c, "collecting")
  /\ UNCHANGED <<agentVars, replyVars, events, offset, errors, completed, endVars,
                 readerVars, op, rid, calls>>

\* One pass of _wait_for_agent_end: return, raise or sleep ...
Collect(c) ==
  /\ at[c] = "collecting"
  /\ IF Outcome(c) = "none" THEN GoTo(c, "waiting") ELSE Return(c, Outcome(c))
  /\ UNCHANGED <<agentVars, replyVars, runVars, endVars, readerVars, op, rid, calls>>

\* ... until the deadline, which is looked at last.
WaitTimesOut_never(c) == FALSE /\ UNCHANGED vars
WaitTimesOut(c) ==
  /\ Timeouts /\ at[c] \in {"collecting", "waiting"}
  /\ Return(c, IF Outcome(c) = "none" THEN "timeout" ELSE Outcome(c))
  /\ UNCHANGED <<agentVars, replyVars, runVars, endVars, readerVars, op, rid, calls>>

Caller(c) ==
  \/ \E o \in Operations : Refused(c, o) \/ Acquire(c, o) \/ Send(c, o)
  \/ ReadEventIndex(c) \/ ReadErrorIndex(c) \/ CheckAsyncErrors(c)
  \/ Register(c) \/ Write(c) \/ GetReply(c) \/ RequestTimesOut(c)
  \/ MarkScheduled(c) \/ Collect(c) \/ WaitTimesOut(c)

-----------------------------------------------------------------------------
(* The reader.                                                             *)

\* The next line is read; Take drops it from the pipe.
Frames == reader = "reading" /\ stdoutOpen /\ out # <<>>
Take ==
  /\ out' = Tail(out)
  /\ UNCHANGED <<inp, alive, stdinOpen, stdoutOpen, todo, run, emitted, ended>>

\* The requests an error may be for when its id is not a pending one.
Correlated_any(f) ==
  {r \in pending : command[r] = f.cmd} \cup (IF f.cmd = "parse" THEN pending ELSE {})
Correlated(f) ==
  LET matching == {r \in pending : command[r] = f.cmd} IN
  IF Cardinality(matching) = 1 THEN matching
  ELSE IF f.cmd = "parse" /\ Cardinality(pending) = 1 THEN pending
  ELSE {}

Popped_kept(r) == pending
Popped(r) == pending \ {r}

\* _handle_response takes the request out of _pending, by id or for an error
\* by command; the frame stays at the head of out until it is delivered ...
MatchResponse(r) ==
  /\ Frames /\ Response(Head(out))
  /\ \/ r = Head(out).id /\ r \in pending
     \/ /\ Head(out).id \notin pending /\ Head(out).type = "error"
        /\ r \in Correlated(Head(out))
  /\ pending' = Popped(r)
  /\ target' = r /\ reader' = "putting"
  /\ UNCHANGED <<agentVars, requestId, command, box, latecomers, runVars, endVars, at,
                 callVars>>

\* ... to its queue, which holds one item: a put to a full one blocks.
Put ==
  /\ reader = "putting" /\ box[target] = <<>>
  /\ box' = [box EXCEPT ![target] = <<Head(out)>>]
  /\ Take /\ reader' = "reading"
  /\ UNCHANGED <<requestId, command, pending, latecomers, runVars, endVars, at, callVars,
                 target>>

\* A response nobody waits for: only the failure of a prompt is an async error.
Unmatched ==
  /\ Frames /\ Response(Head(out)) /\ Head(out).id \notin pending
  /\ \/ Head(out).type = "reply" /\ UNCHANGED <<errors, at, reader>>
     \/ /\ Head(out).type = "error" /\ Correlated(Head(out)) = {}
        /\ IF Head(out).cmd = "prompt"
           THEN errors' = errors + 1 /\ NotifyAll /\ reader' = "completing"
           ELSE UNCHANGED <<errors, at, reader>>
  /\ Take
  /\ UNCHANGED <<replyVars, events, offset, scheduled, completed, lastErrorIndex,
                 endVars, callVars, target>>

\* _append_event; a terminal agent_end then completes its run.
ReadEvent ==
  /\ Frames /\ Event(Head(out))
  /\ AppendEvent(Head(out)) /\ NotifyAll /\ Take
  /\ reader' = IF Terminal(Head(out)) THEN "completing" ELSE "reading"
  /\ UNCHANGED <<replyVars, errors, scheduled, completed, lastErrorIndex,
                 endVars, callVars, target>>

\* A terminal agent_end that does not parse is an async error.
ReadBadEnd_uncounted ==
  /\ Frames /\ Head(out).type = "badEnd"
  /\ errors' = errors + 1 /\ NotifyAll /\ Take
  /\ UNCHANGED <<replyVars, events, offset, scheduled, completed, lastErrorIndex,
                 endVars, callVars, reader, target>>
ReadBadEnd ==
  /\ Frames /\ Head(out).type = "badEnd"
  /\ errors' = errors + 1 /\ NotifyAll /\ Take
  /\ reader' = "completing"
  /\ UNCHANGED <<replyVars, events, offset, scheduled, completed, lastErrorIndex,
                 endVars, callVars, target>>

\* _mark_agent_run_completed
Complete ==
  /\ reader = "completing"
  /\ completed' = completed + 1 /\ NotifyAll /\ reader' = "reading"
  /\ UNCHANGED <<agentVars, replyVars, events, offset, errors, scheduled,
                 lastErrorIndex, endVars, callVars, target>>

\* _handle_host_tool_call starts a thread for the call of the frame.
ReadToolCall(t) ==
  /\ Frames /\ Head(out).type = "toolCall" /\ toolAt[t] = "called"
  /\ tools' = tools \cup {t}
  /\ toolAt' = [toolAt EXCEPT ![t] = "running"]
  /\ Take
  /\ UNCHANGED <<replyVars, runVars, closed, stopping, process, phase, size,
                 marking, at, callVars, readerVars>>

StartMarking(m) == marking' = [marking EXCEPT ![m] = "check"]

\* A line that is no frame, a file closed under the reader or, unless
\* stop() is at work, the end of the file: the reader ends in _mark_closed.
ReaderFails ==
  /\ \/ Frames /\ Head(out).type = "garbage"
     \/ reader = "reading" /\ ~stdoutOpen
     \/ reader = "reading" /\ out = <<>> /\ ~alive /\ ~stopping
  /\ reader' = "closing" /\ StartMarking(Reader)
  /\ UNCHANGED <<agentVars, replyVars, runVars, closed, stopping, process, tools,
                 toolAt, phase, size, at, callVars, target>>

ReaderEnds ==
  /\ \/ reader = "reading" /\ out = <<>> /\ ~alive /\ stopping
     \/ reader = "closing" /\ marking[Reader] = "done"
  /\ reader' = "exited"
  /\ UNCHANGED <<agentVars, replyVars, runVars, endVars, at, callVars, target>>

ReaderStep ==
  \/ \E r \in Requests : MatchResponse(r)
  \/ Put \/ Unmatched \/ ReadEvent \/ ReadBadEnd \/ Complete
  \/ \E t \in ToolCalls : ReadToolCall(t)
  \/ ReaderFails \/ ReaderEnds

-----------------------------------------------------------------------------
(* _mark_closed, run by the reader and by those who call stop().           *)

Marking(m, from, to) ==
  /\ marking[m] = from
  /\ marking' = [marking EXCEPT ![m] = to]
  /\ UNCHANGED <<agentVars, requestId, command, latecomers, runVars, stopping, process,
                 tools, toolAt, phase, size, callVars, readerVars>>

\* Once there is a _closed_error there is nothing left to do.
MarkCheck(m) ==
  /\ Marking(m, "check", IF closed THEN "done" ELSE "set")
  /\ UNCHANGED <<closed, pending, box, at>>

MarkSet(m) ==
  /\ Marking(m, "set", "fail")
  /\ closed' = TRUE
  /\ UNCHANGED <<pending, box, at>>

\* _fail_pending
MarkFail_dropped(m) ==
  /\ Marking(m, "fail", "notify")
  /\ pending' = {}
  /\ UNCHANGED <<closed, box, at>>
MarkFail(m) ==
  /\ Marking(m, "fail", "notify")
  /\ box' = [r \in Requests |-> IF r \in pending THEN Append(box[r], Closed)
                                ELSE box[r]]
  /\ pending' = {}
  /\ UNCHANGED <<closed, at>>

MarkNotify_silent(m) ==
  /\ Marking(m, "notify", "done")
  /\ UNCHANGED <<closed, pending, box, at>>
MarkNotify(m) ==
  /\ Marking(m, "notify", "done")
  /\ NotifyAll
  /\ UNCHANGED <<closed, pending, box>>

MarkStep(m) == MarkCheck(m) \/ MarkSet(m) \/ MarkFail(m) \/ MarkNotify(m)

-----------------------------------------------------------------------------
(* stop(), and the _cancel_hook of worker.py around it.                    *)

Stopping(s, from, to) ==
  /\ phase[s] = from
  /\ phase' = [phase EXCEPT ![s] = to]
  /\ UNCHANGED <<inp, out, todo, run, emitted, ended, replyVars, runVars,
                 closed, toolAt, at, callVars, readerVars>>

\* Nothing to do without a process; else iterate over the running tool calls.
StopBegins(s) ==
  /\ Stopping(s, "none", IF process THEN "iterating" ELSE "done")
  /\ stopping' = (stopping \/ process)
  /\ size' = [size EXCEPT ![s] = Cardinality(tools)]
  /\ UNCHANGED <<alive, stdinOpen, stdoutOpen, process, tools, marking>>

\* The loop raises RuntimeError when a tool thread or the reader changed the
\* size of the dict meanwhile, before anything has been stopped.
StopIterates(s) ==
  /\ Stopping(s, "iterating",
              IF Cardinality(tools) = size[s] THEN "closingStdin" ELSE "raised")
  /\ UNCHANGED <<alive, stdinOpen, stdoutOpen, stopping, process, tools, size, marking>>

StopClosesStdin(s) ==
  /\ Stopping(s, "closingStdin", "killing")
  /\ stdinOpen' = FALSE
  /\ UNCHANGED <<alive, stdoutOpen, stopping, process, tools, size, marking>>

\* _terminate_process_group: SIGTERM, then SIGKILL to the whole group.
StopKills_skipped(s) ==
  /\ Stopping(s, "killing", "closingStdout")
  /\ UNCHANGED <<alive, stdinOpen, stdoutOpen, stopping, process, tools, size, marking>>
StopKills(s) ==
  /\ Stopping(s, "killing", "closingStdout")
  /\ alive' = FALSE
  /\ UNCHANGED <<stdinOpen, stdoutOpen, stopping, process, tools, size, marking>>

\* The pipes are closed and the client is marked closed.  Leaving the mark to
\* the reader, which skips it while stopping, once kept the callers waiting.
StopClosesStdout_unmarked(s) ==
  /\ Stopping(s, "closingStdout", "marking")
  /\ stdoutOpen' = FALSE
  /\ marking' = [marking EXCEPT ![s] = "done"]
  /\ UNCHANGED <<alive, stdinOpen, stopping, process, tools, size>>
StopClosesStdout(s) ==
  /\ Stopping(s, "closingStdout", "marking")
  /\ stdoutOpen' = FALSE
  /\ StartMarking(s)
  /\ UNCHANGED <<alive, stdinOpen, stopping, process, tools, size>>

StopClears(s) ==
  /\ marking[s] = "done"
  /\ Stopping(s, "marking", "done")
  /\ tools' = {} /\ process' = FALSE
  /\ UNCHANGED <<alive, stdinOpen, stdoutOpen, stopping, size, marking>>

\* The hook marks the client closed whatever became of stop().
HookMarks(s) ==
  /\ s \in Hooks
  /\ \/ /\ \E from \in {"done", "raised"} : Stopping(s, from, "hookMarking")
        /\ StartMarking(s)
     \/ /\ marking[s] = "done" /\ Stopping(s, "hookMarking", "hooked")
        /\ UNCHANGED marking
  /\ UNCHANGED <<alive, stdinOpen, stdoutOpen, stopping, process, tools, size>>

StopContinues(s) ==
  \/ StopIterates(s) \/ StopClosesStdin(s) \/ StopKills(s)
  \/ StopClosesStdout(s) \/ StopClears(s) \/ HookMarks(s)

\* The thread of a host tool ends and forgets its call.
ToolEnds(t) ==
  /\ toolAt[t] = "running"
  /\ toolAt' = [toolAt EXCEPT ![t] = "finished"]
  /\ tools' = tools \ {t}
  /\ UNCHANGED <<agentVars, replyVars, runVars, closed, stopping, process, phase,
                 size, marking, at, callVars, readerVars>>

-----------------------------------------------------------------------------
(* The agent process (external).                                           *)

Agent ==
  /\ alive
  /\ UNCHANGED <<stdinOpen, stdoutOpen, replyVars, runVars, closed, stopping, process,
                 tools, phase, size, marking, at, callVars, readerVars>>
May(fault) == fault \in AgentFaults
Emit(f) == out' = Append(out, f)

\* A command is answered: accepted, rejected, or refused without its id.
AgentReads ==
  /\ Agent /\ inp # <<>>
  /\ inp' = Tail(inp)
  /\ LET r == Head(inp) IN
     \/ /\ Emit(Frame("reply", r, command[r], r))
        /\ todo' = IF command[r] = "prompt" THEN Append(todo, r) ELSE todo
     \/ May("reject") /\ Emit(Frame("error", r, command[r], r)) /\ UNCHANGED todo
     \/ /\ May("unknown") /\ command[r] = "request"
        /\ Emit(Frame("error", NoRequest, command[r], r)) /\ UNCHANGED todo
     \/ May("parse") /\ Emit(Frame("error", NoRequest, "parse", r)) /\ UNCHANGED todo
  /\ UNCHANGED <<alive, run, emitted, ended, toolAt>>

\* The next prompt is run, or fails after it was accepted.
AgentStarts ==
  /\ Agent /\ run = NoRequest /\ todo # <<>>
  /\ todo' = Tail(todo)
  /\ \/ run' = Head(todo) /\ UNCHANGED out
     \/ /\ May("late")
        /\ Emit(Frame("error", Head(todo), "prompt", Head(todo)))
        /\ UNCHANGED run
  /\ UNCHANGED <<inp, alive, emitted, ended, toolAt>>

AgentEmits(type) ==
  /\ Agent /\ run # NoRequest /\ emitted < MaxEvents
  /\ type = "event" \/ (type = "continued" /\ May("continued"))
  /\ Emit(Frame(type, NoRequest, "none", run))
  /\ emitted' = emitted + 1
  /\ UNCHANGED <<inp, alive, todo, run, ended, toolAt>>

AgentCallsTool(t) ==
  /\ Agent /\ run # NoRequest /\ toolAt[t] = "none"
  /\ \A u \in ToolCalls : toolAt[u] # "called"
  /\ Emit(Frame("toolCall", NoRequest, "none", run))
  /\ toolAt' = [toolAt EXCEPT ![t] = "called"]
  /\ UNCHANGED <<inp, alive, todo, run, emitted, ended>>

AgentEnds ==
  /\ Agent /\ run # NoRequest
  /\ \/ Emit(Frame("agent_end", NoRequest, "none", run))
     \/ May("badEnd") /\ Emit(Frame("badEnd", NoRequest, "none", run))
  /\ run' = NoRequest /\ ended' = ended \cup {run}
  /\ UNCHANGED <<inp, alive, todo, emitted, toolAt>>

\* The process dies, or prints something that is no frame.
AgentBreaks ==
  /\ Agent
  /\ \/ May("exit") /\ alive' = FALSE /\ UNCHANGED out
     \/ /\ May("garbage") /\ emitted < MaxEvents
        /\ Emit(Frame("garbage", NoRequest, "none", NoRequest)) /\ UNCHANGED alive
  /\ emitted' = IF out' = out THEN emitted ELSE emitted + 1
  /\ UNCHANGED <<inp, todo, run, ended, toolAt>>

AgentStep ==
  \/ AgentReads \/ AgentStarts \/ AgentEnds \/ AgentBreaks
  \/ \E type \in {"event", "continued"} : AgentEmits(type)
  \/ \E t \in ToolCalls : AgentCallsTool(t)

Next ==
  \/ \E c \in Callers : Caller(c)
  \/ ReaderStep
  \/ \E m \in Markers : MarkStep(m)
  \/ \E s \in Stoppers : StopBegins(s) \/ StopContinues(s)
  \/ \E t \in ToolCalls : ToolEnds(t)
  \/ AgentStep

Spec == Init /\ [][Next]_vars

\* The threads of the client go on; tools, the agent and stop() need not.
Fairness ==
  /\ WF_vars(ReaderStep)
  /\ \A m \in Markers : WF_vars(MarkStep(m))
  /\ \A s \in Stoppers : WF_vars(StopContinues(s))
  /\ \A c \in Callers :
       /\ WF_vars(ReadEventIndex(c)) /\ WF_vars(ReadErrorIndex(c))
       /\ WF_vars(CheckAsyncErrors(c)) /\ WF_vars(Register(c)) /\ WF_vars(Write(c))
       /\ WF_vars(GetReply(c)) /\ WF_vars(MarkScheduled(c)) /\ WF_vars(Collect(c))
       /\ WF_vars(RequestTimesOut(c)) /\ WF_vars(WaitTimesOut(c))
FairSpec == Spec /\ Fairness

-----------------------------------------------------------------------------
(* Properties.                                                             *)

\* Types, and the ranges of the ids.
TypeOK ==
  /\ inp \in Seq(Requests)
  /\ \A i \in DOMAIN out : out[i].id \in Requests \cup {NoRequest}
  /\ alive \in BOOLEAN /\ stdinOpen \in BOOLEAN /\ stdoutOpen \in BOOLEAN
  /\ todo \in Seq(Requests) /\ run \in Requests \cup {NoRequest}
  /\ emitted \in 0 .. MaxEvents
  /\ ended \subseteq Requests
  /\ requestId \in 0 .. MaxCalls /\ pending \cup latecomers \subseteq 1 .. requestId
  /\ command \in [Requests -> {"none", "prompt", "request"}]
  /\ DOMAIN box = Requests
  /\ active \in Callers \cup {NoCaller}
  /\ Len(events) <= HistoryLimit /\ offset \in Nat /\ errors \in Nat
  /\ scheduled \in Nat /\ completed \in Nat /\ lastErrorIndex \in 0 .. errors
  /\ closed \in BOOLEAN /\ stopping \in BOOLEAN /\ process \in BOOLEAN
  /\ tools \subseteq ToolCalls
  /\ toolAt \in [ToolCalls -> {"none", "called", "running", "finished"}]
  /\ at \in [Callers -> CallerPoints]
  /\ op \in [Callers -> Operations \cup {"none"}]
  /\ rid \in [Callers -> 0 .. requestId]
  /\ start \in [Callers -> Nat] /\ errStart \in [Callers -> Nat]
  /\ calls \in 0 .. MaxCalls
  /\ \A c \in Callers : last[c].status \in Statuses
  /\ reader \in ReaderPoints /\ target \in Requests \cup {NoRequest}
  /\ phase \in [Stoppers -> StopPhases] /\ size \in [Stoppers -> Nat]
  /\ marking \in [Markers -> MarkPoints]

\* A request is answered once: its queue holds one item at most, and the
\* reader never finds the queue it has to fill full, which would stop it for
\* good (queue.Queue(maxsize=1) in _request).
OneReplyPerRequest ==
  /\ \A r \in Requests : Len(box[r]) <= 1
  /\ reader = "putting" => box[target] = <<>>

\* Somebody is about to answer what is pending, or to fail it: once the client is
\* closed a _fail_pending that is still to come, until then the reader or whoever
\* is on the way to _mark_closed.
Attended ==
  IF closed THEN \E m \in Markers : marking[m] = "fail"
  ELSE \/ reader \in {"reading", "putting", "completing"}
       \/ \E m \in Markers : marking[m] \in {"check", "set"}
       \/ \E s \in Stoppers :
            \/ phase[s] \in {"iterating", "closingStdin", "killing", "closingStdout"}
            \/ phase[s] = "raised" /\ s \in Hooks

\* A stop() without the hook around it raised half way: the end of the agent, if it
\* comes, makes the reader leave without a word, as in a stop.
Deserted == \E s \in Stoppers \ Hooks : phase[s] = "raised"

\* Whoever waits for a reply can still get one, or the error of the end: it lies in
\* its queue, the reader carries it there, or its request is pending and attended.
\* _mark_closed fails every request it finds, whichever thread it races.  Left to
\* their deadline are the requests registered once the client was closed (_request
\* does not ask) and those of a deserted client.
AwaitedIsReachable ==
  \A c \in Callers : at[c] = "awaiting" =>
    \/ box[rid[c]] # <<>>
    \/ reader = "putting" /\ target = rid[c]
    \/ rid[c] \in pending /\ (Attended \/ rid[c] \in latecomers \/ Deserted)

\* No lost wakeup in _wait_for_agent_end: a caller sleeps on a condition that
\* already holds only while a _mark_closed is about to notify it.
NoLostWakeup ==
  \A c \in Callers : at[c] = "waiting" /\ Outcome(c) # "none" =>
    \E m \in Markers : marking[m] \in {"fail", "notify"}

\* What _handle_response delivers to a request is about that request, also
\* when the reply carries no id and is matched by command.
ReplyAnswersItsRequest ==
  \A r \in Requests : \A i \in DOMAIN box[r] :
    box[r][i].type = "closed" \/ box[r][i].of = r

\* prompt_and_wait returns when the run of its own prompt has ended, never on
\* the agent_end of an earlier prompt or on one that is not terminal.
TurnIsItsOwn ==
  \A c \in Callers :
    last[c].op = "prompt_and_wait" /\ last[c].status = "ok" => last[c].rid \in ended

\* A returned turn holds every event since the call began: a history too short
\* for it raises instead of losing the earlier ones.
TurnIsComplete == \A c \in Callers : last[c].whole

\* Nothing is under way: every caller is out of the client and did not leave
\* it at a deadline, every frame is handled, the agent has nothing to run.
Quiescent ==
  /\ \A c \in Callers : at[c] \in {"out", "gaveUp"} /\ last[c].status # "timeout"
  /\ inp = <<>> /\ out = <<>> /\ todo = <<>> /\ run = NoRequest
  /\ reader = "reading" /\ alive /\ ~closed

\* _is_agent_idle tells the truth: the counts of scheduled and completed runs,
\* kept by two threads, agree again when nothing is under way, also after
\* rejected prompts, late failures and ends that did not parse.
CountsAgree == Quiescent => scheduled = completed

\* stop() forgets the process only when it is dead, also when two threads stop
\* the client and one of them raises half way.
ForgottenProcessIsDead == ~process => ~alive

\* StopUnblocksPromptAndWaitTests: once the client is being stopped or its
\* reader has failed, nobody stays in _wait_for_agent_end, deadline or not.
ClosedReleases ==
  \A c \in Callers :
    (\/ \E s \in Stoppers : phase[s] = "closingStdout"
     \/ reader = "closing") ~> at[c] \notin {"collecting", "waiting"}

\* Every call returns or raises, whatever the agent does.
EveryCallReturns == \A c \in Callers : at[c] # "out" ~> at[c] \in {"out", "gaveUp"}
=============================================================================
