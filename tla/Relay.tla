------------------------------- MODULE Relay -------------------------------
(***************************************************************************)
(* Calls to GitHub by way of gh-proxy: the client that signs and retries   *)
(* them (proxy_client.py), the proxy that checks the signature and relays  *)
(* them (proxy_hmac.py, proxy/server.py), and the client of GitHub in the  *)
(* proxy, which retries as well (github_client.py).  A caller that gives a *)
(* request up does not stop the proxy's handler.                           *)
(***************************************************************************)
EXTENDS Naturals, FiniteSets

CONSTANTS
  Calls,
  Reads,              \* the calls that are GETs
  Attempts, Tries,    \* lengths of the two _TRANSIENT_RETRY_DELAYS, and one
  Skew, MaxTime

VARIABLES
  now,
  caller,     \* [at, attempt, ends] of a call
  requests,   \* attempts on their way to the proxy
  handlers,   \* attempts that the proxy works on
  replies,    \* answers on their way back
  applied,    \* history: how often GitHub carried a call out
  unanswered  \* history: how often an answer was not waited for

vars == <<now, caller, requests, handlers, replies, applied, unanswered>>

Attempt == [call : Calls, n : 1..Attempts]
Outcomes == {"ok", "error"}
GitHubAnswers == {"ok", "5xx", "4xx", "silent"}
Bound == Attempts * Tries

TypeOK ==
  /\ now \in 0..MaxTime
  /\ caller \in [Calls -> [at : {"idle", "waiting"} \union Outcomes, n : 0..Attempts]]
  /\ requests \subseteq [call : Calls, n : 1..Attempts, signed : 0..MaxTime]
  /\ handlers \subseteq [call : Calls, n : 1..Attempts, try : 1..Tries,
                         github : {"asked"} \union GitHubAnswers]
  /\ replies \subseteq [call : Calls, n : 1..Attempts, outcome : Outcomes]
  /\ applied \in [Calls -> 0..Bound] /\ unanswered \in [Calls -> 0..(Bound + Attempts)]

Init ==
  /\ now = 0
  /\ caller = [c \in Calls |-> [at |-> "idle", n |-> 0]]
  /\ requests = {} /\ handlers = {} /\ replies = {}
  /\ applied = [c \in Calls |-> 0] /\ unanswered = [c \in Calls |-> 0]

Tick ==
  /\ now < MaxTime
  /\ now' = now + 1
  /\ UNCHANGED <<caller, requests, handlers, replies, applied, unanswered>>

(***************************************************************************)
(* GitHubProxyClient                                                       *)
(***************************************************************************)

\* Every attempt is signed anew.
Sent(c, n) == requests' = requests \union {[call |-> c, n |-> n, signed |-> now]}

Call(c) ==
  /\ caller[c].at = "idle"
  /\ caller' = [caller EXCEPT ![c] = [at |-> "waiting", n |-> 1]]
  /\ Sent(c, 1)
  /\ UNCHANGED <<now, handlers, replies, applied, unanswered>>

\* The connection fails, or no answer comes in time: once more, as long as there
\* is a delay left, whatever the method.
GiveUp(c) ==
  /\ caller[c].at = "waiting"
  /\ unanswered' = [unanswered EXCEPT ![c] = @ + 1]
  /\ IF caller[c].n < Attempts
       THEN caller' = [caller EXCEPT ![c].n = @ + 1] /\ Sent(c, caller[c].n + 1)
       ELSE caller' = [caller EXCEPT ![c].at = "error"] /\ UNCHANGED requests
  /\ UNCHANGED <<now, handlers, replies, applied>>

Answered(r) ==
  /\ r \in replies
  /\ caller' = [caller EXCEPT ![r.call].at = IF @ = "waiting" /\ caller[r.call].n = r.n
                                              THEN r.outcome ELSE @]
  /\ replies' = replies \ {r}
  /\ UNCHANGED <<now, requests, handlers, applied, unanswered>>

(***************************************************************************)
(* gh-proxy                                                                *)
(***************************************************************************)
Reply(c, n, outcome) == replies' = replies \union {[call |-> c, n |-> n, outcome |-> outcome]}

\* verify(): a request that took longer than the skew is refused.
Authentic(r) == now - r.signed <= Skew

Accept(r) ==
  /\ r \in requests
  /\ requests' = requests \ {r}
  /\ IF Authentic(r)
       THEN /\ handlers' = handlers \union {[call |-> r.call, n |-> r.n, try |-> 1,
                                             github |-> "asked"]}
            /\ UNCHANGED replies
       ELSE Reply(r.call, r.n, "error") /\ UNCHANGED handlers
  /\ UNCHANGED <<now, caller, applied, unanswered>>

Lost(r) ==
  /\ r \in requests
  /\ requests' = requests \ {r}
  /\ UNCHANGED <<now, caller, handlers, replies, applied, unanswered>>

\* GitHub: a refusal changes nothing, a failure of its own may come after the change.
GitHub(h) ==
  /\ h \in handlers /\ h.github = "asked"
  /\ \E answer \in GitHubAnswers :
       /\ handlers' = (handlers \ {h}) \union {[h EXCEPT !.github = answer]}
       /\ \E done \in {0, 1} :
            /\ answer = "ok" => done = 1
            /\ answer = "4xx" => done = 0
            /\ applied' = [applied EXCEPT ![h.call] = @ + done]
       /\ unanswered' = [unanswered EXCEPT ![h.call] = IF answer = "silent" THEN @ + 1 ELSE @]
  /\ UNCHANGED <<now, caller, requests, replies>>

Transient5xx_any(h) == h.github = "5xx"

\* A 5xx is retried for reads only, silence for every call.
Transient5xx(h) == h.github = "5xx" /\ h.call \in Reads

Retryable(h) == h.github = "silent" \/ Transient5xx(h)

Retry(h) ==
  /\ h \in handlers /\ Retryable(h) /\ h.try < Tries
  /\ handlers' = (handlers \ {h}) \union {[h EXCEPT !.try = @ + 1, !.github = "asked"]}
  /\ UNCHANGED <<now, caller, requests, replies, applied, unanswered>>

Relayed(h) ==
  /\ h \in handlers /\ h.github # "asked" /\ (~Retryable(h) \/ h.try = Tries)
  /\ handlers' = handlers \ {h}
  /\ Reply(h.call, h.n, IF h.github = "ok" THEN "ok" ELSE "error")
  /\ UNCHANGED <<now, caller, requests, applied, unanswered>>

Next ==
  \/ Tick
  \/ \E c \in Calls : Call(c) \/ GiveUp(c)
  \/ \E r \in requests : Accept(r) \/ Lost(r)
  \/ \E h \in handlers : GitHub(h) \/ Retry(h) \/ Relayed(h)
  \/ \E r \in replies : Answered(r)

Spec == Init /\ [][Next]_vars

-----------------------------------------------------------------------------
\* A write is carried out once more only for an answer that was not waited for,
\* by the caller or by the proxy: what GitHub has answered, with a failure that
\* may have come after the change, is not sent again (_transient_5xx).
RepeatedOnlyUnanswered ==
  \A c \in Calls \ Reads : applied[c] <= 1 + unanswered[c]
=============================================================================
