----------------------------- MODULE RequestRetry -----------------------------
(***************************************************************************)
(* One model request: its attempts, the waits between them, and what makes *)
(* it stop.                                                                *)
(*                                                                         *)
(* A request is retried when its error reads as the server's refusal to    *)
(* serve it.  A request that may have been served and lost should not be   *)
(* sent again, as it may have been billed; a lost connection is, when the  *)
(* client library gives it a server's status.  Retries are bounded in      *)
(* number and in time; a server may ask for a pause (Retry-After);         *)
(* cancellation and the caps of the run are polled before each attempt and *)
(* during every pause.                                                     *)
(*                                                                         *)
(* Abstracted: one tick is one poll of the pause (0.25 s); a priced        *)
(* response costs 1; which truncated reply makes the loop require a tool   *)
(* call is NodeSession's matter, so a request may always require one until *)
(* the provider has refused; the history a resume restores is              *)
(* ResumeAccounting's.  The adapter shortens its own timeout               *)
(* (supports_timeout_override), so an attempt ends in the time it is given.*)
(***************************************************************************)
EXTENDS Integers, Sequences

CONSTANTS
  MaxRetries,      \* --max-retries
  MaxRetryTime,    \* --max-retry-seconds, per request
  MaxRunTime,      \* --max-run-seconds, or NoCap
  CostCaps,        \* what --max-total-cost-usd may be, NoCap when not given
  NoCap,
  RetryBackoff,    \* retry_backoff_seconds
  MaxDelay,        \* retry_max_delay_seconds
  Jitters,         \* what jitter_fn may return
  Oversleeps,      \* how much longer than asked a sleep may take
  Durations,       \* how long an attempt may take
  Errors,          \* the exceptions an attempt may end in
  MaxRequests      \* bound: requests of the session

\* What the adapter reads from an exception: which side ended the request, the
\* HTTP status (0 when there is none), the structured code and the pause asked
\* for (0 when none).
Codes == {"none", "rate limit", "quota", "auth", "overloaded", "ambiguous"}
Error == [ended : {"timeout", "connection", "server"}, status : Nat,
          code : Codes, after : Nat]

ASSUME RetryAssumption ==
  /\ {MaxRetries, MaxRetryTime, RetryBackoff, MaxDelay, MaxRequests} \subseteq Nat
  /\ NoCap \notin Nat /\ {MaxRunTime} \cup CostCaps \subseteq Nat \cup {NoCap}
  /\ Jitters \subseteq Nat /\ Oversleeps \subseteq Nat /\ Durations \subseteq Nat
  /\ Errors \subseteq Error
  \* Only a server's answer carries a code or a pause.  A status proves nothing:
  \* LiteLLM gives its own timeout 408 and its own APIConnectionError 500.
  /\ \A e \in Errors : e.ended # "server" => e.code = "none" /\ e.after = 0

\* Where exponential backoff takes its powers (the provers know no exponents).
ASSUME PowerAssumption == \A n \in 0..MaxRetries : 2^n \in Nat

VARIABLES
  phase,     \* where _complete_with_retry is
  reason,    \* why the session stopped
  now,       \* clock_fn() - _run_started
  began,     \* request_started
  index,     \* retry_index
  error,     \* last_error's metadata, or NoError
  left,      \* remaining, in _wait_for_retry
  choice,    \* tool_choice of this request
  declined,  \* forced_tool_choice_refused
  cancelled, \* cancelled_fn()
  cap,       \* max_total_cost_usd
  cost,      \* _total_cost_usd
  unpriced,  \* _responses_without_cost
  requests,  \* requests begun
  attempts,  \* GHOST: the attempts of this request
  again,     \* GHOST: it is asked instead of one whose answer was unreadable
  late       \* GHOST: attempts started although the run was cancelled

requestVars == <<phase, reason, now, began, index, error, left, choice, declined,
          cancelled, cap, cost, unpriced, requests, attempts, again, late>>
clock == <<now, began>>
totals == <<cap, cost, unpriced, requests>>

NoError == [retryable |-> FALSE, state |-> "none", after |-> 0]

-----------------------------------------------------------------------------
(* Classifying an error: only a status or an explicit code is evidence.     *)

\* The kind of failure; a code says more than a status.
Kind(e) ==
  CASE e.code = "rate limit" -> "rate limit"
    [] e.code = "quota" -> "quota"
    [] e.code = "auth" -> "auth"
    [] e.code = "overloaded" -> "capacity"
    [] e.code \in {"none", "ambiguous"} ->
         IF e.status \in {400, 401, 403, 404, 422} THEN "auth"
         ELSE IF e.status \in {500, 502, 503, 504} THEN "capacity"
         ELSE "unknown"

\* MUTANT of Classify: a timeout's own status is read as the server's.
ClassifyByStatus(e) ==
  [retryable |-> \/ Kind(e) \in {"rate limit", "capacity"}
                 \/ Kind(e) = "unknown" /\ e.status \in {408, 409, 425, 429},
   state |-> IF e.status # 0 \/ e.code # "none" THEN "rejected" ELSE "unknown",
   after |-> e.after]

\* A client-side timeout is a lost response whatever status it carries.
Classify(e) ==
  IF e.ended = "timeout"
  THEN [retryable |-> FALSE, state |-> "unknown", after |-> 0]
  ELSE [retryable |-> \/ Kind(e) \in {"rate limit", "capacity"}
                      \/ Kind(e) = "unknown" /\ e.status \in {408, 409, 425, 429},
        state |-> IF e.status # 0 \/ e.code # "none"
                  THEN "rejected" ELSE "unknown",
        after |-> e.after]

-----------------------------------------------------------------------------
Least(a, b) == IF a <= b THEN a ELSE b
Most(a, b) == IF a >= b THEN a ELSE b

\* MUTANT of OverBudget: a response of unknown cost is taken for free.
OverBudgetIfPriced(at, spent, unknown) ==
  \/ cancelled
  \/ cap # NoCap /\ spent >= cap
  \/ MaxRunTime # NoCap /\ at >= MaxRunTime

\* _check_run_budget refuses to go on.
OverBudget(at, spent, unknown) ==
  \/ cancelled
  \/ cap # NoCap /\ (unknown > 0 \/ spent >= cap)
  \/ MaxRunTime # NoCap /\ at >= MaxRunTime

\* The time this request, and the run, still have at time t.
Remaining(t) ==
  LET ofRequest == MaxRetryTime - (t - began)
  IN  IF MaxRunTime = NoCap THEN ofRequest
      ELSE Least(ofRequest, MaxRunTime - t)

\* MUTANT of Delay: the cap on a pause also cuts what the server asked for.
DelayCapped(jitter, after) ==
  Least(MaxDelay, Most(RetryBackoff * 2^index + jitter, after))

\* The pause before the next attempt: jittered exponential backoff, or what the
\* server asked for if that is longer.
Delay(jitter, after) ==
  LET base == Least(MaxDelay, RetryBackoff * 2^index)
  IN  Most(Least(MaxDelay, base + jitter), after)

-----------------------------------------------------------------------------
RequestTypeOK ==
  /\ phase \in {"idle", "check", "ready", "sent", "waiting", "stopped"}
  /\ reason \in {"none", "budget", "not_retryable", "attempt_limit", "pause",
                 "retry_elapsed_limit", "interrupted", "unreadable"}
  /\ {now, began, index, left, cost, unpriced, requests, late} \subseteq Nat
  /\ cap \in CostCaps
  /\ error \in [retryable : BOOLEAN, after : Nat,
                state : {"none", "rejected", "unknown"}]
  /\ choice \in {"auto", "required"} /\ {declined, cancelled, again} \subseteq BOOLEAN

RequestInit ==
  /\ phase = "idle" /\ reason = "none" /\ choice = "auto"
  /\ now = 0 /\ began = 0 /\ index = 0 /\ left = 0 /\ error = NoError
  /\ declined = FALSE /\ cancelled = FALSE
  /\ cap \in CostCaps /\ cost = 0 /\ unpriced = 0 /\ requests = 0
  /\ attempts = <<>> /\ again = FALSE /\ late = 0

Stop(why) == phase' = "stopped" /\ reason' = why

\* _request_turn enters _complete_with_retry; after a truncated reply it
\* requires a tool call, unless the provider has refused that.
Begin(c) ==
  /\ phase = "idle" /\ requests < MaxRequests
  /\ c = "required" => ~declined
  /\ phase' = "check" /\ choice' = c
  /\ began' = now /\ index' = 0 /\ error' = NoError
  /\ attempts' = <<>> /\ again' = FALSE
  /\ requests' = requests + 1
  /\ UNCHANGED <<reason, now, left, declined, cancelled, cap, cost, unpriced, late>>

\* Before each attempt: the run may go on, and a retry is still in time.
Check ==
  /\ phase = "check"
  /\ \/ OverBudget(now, cost, unpriced) /\ Stop("budget")
     \/ /\ ~OverBudget(now, cost, unpriced)
        /\ error # NoError /\ now - began >= MaxRetryTime
        /\ Stop("retry_elapsed_limit")
     \/ /\ ~OverBudget(now, cost, unpriced)
        /\ error = NoError \/ now - began < MaxRetryTime
        /\ phase' = "ready" /\ UNCHANGED reason
  /\ UNCHANGED <<clock, index, error, left, choice, declined, cancelled, totals,
                 attempts, again, late>>

\* The attempt is journaled and sent.
Send ==
  /\ phase = "ready" /\ phase' = "sent"
  /\ attempts' = Append(attempts,
       [at |-> now, ended |-> now, end |-> "none", status |-> 0, pause |-> 0])
  /\ late' = late + (IF cancelled THEN 1 ELSE 0)
  /\ UNCHANGED <<reason, clock, index, error, left, choice, declined, cancelled,
                 totals, again>>

\* How long the attempt may take: the adapter is given what remains.
InTime(d) == d <= Most(1, Remaining(now))

\* GHOST: the attempts once the one under way has ended: in an answer, one
\* that cannot be read, an interruption or an error of that status.
Ended(d, end, status, pause) ==
  attempts' = [attempts EXCEPT ![Len(attempts)] =
    [@ EXCEPT !.ended = now + d, !.end = end, !.status = status, !.pause = pause]]

\* A response; one without a cost stops a run whose cost is capped.
Respond(d, priced) ==
  LET spent == cost + (IF priced THEN 1 ELSE 0)
      unknown == unpriced + (IF priced THEN 0 ELSE 1)
  IN  /\ phase = "sent" /\ InTime(d) /\ now' = now + d
      /\ cost' = spent /\ unpriced' = unknown
      /\ IF OverBudget(now + d, spent, unknown) THEN Stop("budget")
         ELSE phase' = "idle" /\ UNCHANGED reason
      /\ Ended(d, "answer", 0, 0)
      /\ UNCHANGED <<began, index, error, left, choice, declined, cancelled,
                     cap, requests, again, late>>

\* Why the loop does not retry, in the order the code asks.
StopReason(m, delay, at) ==
  CASE ~m.retryable -> "not_retryable"
    [] m.retryable /\ index >= MaxRetries -> "attempt_limit"
    [] m.retryable /\ index < MaxRetries /\ Remaining(at) <= 0 ->
         "retry_elapsed_limit"
    [] m.retryable /\ index < MaxRetries /\ Remaining(at) > 0
         /\ delay >= Remaining(at) -> "pause"
    [] OTHER -> "none"

\* The adapter turns every exception of the request into a ProviderError with
\* this classification; an uncertain one leaves the run's cost unknown.  The
\* error ends the session, or the loop pauses before another attempt.
Fail(d, e, jitter) ==
  LET m == Classify(e)
      delay == Delay(jitter, m.after)
      why == StopReason(m, delay, now + d)
  IN  /\ phase = "sent" /\ InTime(d) /\ now' = now + d
      /\ error' = m
      /\ unpriced' = unpriced +
           (IF m.state = "unknown" /\ ~m.retryable THEN 1 ELSE 0)
      /\ \/ why # "none" /\ Stop(why) /\ left' = 0
         \/ why = "none" /\ phase' = "waiting" /\ left' = delay /\ UNCHANGED reason
      /\ Ended(d, e.ended, e.status, e.after)
      /\ UNCHANGED <<began, index, choice, declined, cancelled, cap, cost, requests,
                     again, late>>

\* A reply that cannot be read (no choices, arguments that are no JSON), or
\* Ctrl-C: the request may have been billed, so its cost is unknown.  When a
\* tool call was required, an unreadable reply is taken for a refusal and the
\* turn is asked again with the choice left to the model.
Abandon(d, interrupted) ==
  /\ phase = "sent" /\ InTime(d) /\ now' = now + d
  /\ unpriced' = unpriced + 1
  /\ \/ interrupted /\ Stop("interrupted")
        /\ Ended(d, "interrupted", 0, 0)
        /\ UNCHANGED <<began, index, error, choice, declined, again>>
     \/ ~interrupted /\ choice = "auto" /\ Stop("unreadable")
        /\ Ended(d, "unreadable", 0, 0)
        /\ UNCHANGED <<began, index, error, choice, declined, again>>
     \/ ~interrupted /\ choice = "required"
        /\ phase' = "check" /\ choice' = "auto" /\ declined' = TRUE
        /\ began' = now + d /\ index' = 0 /\ error' = NoError
        /\ attempts' = <<>> /\ again' = TRUE
        /\ UNCHANGED reason
  /\ UNCHANGED <<left, cancelled, cap, cost, requests, late>>

\* MUTANT of Poll: a pause that has outlasted the request is not ended.
PollSkips(o) ==
  /\ phase = "waiting" /\ left > 0
  /\ IF now >= began + MaxRetryTime THEN UNCHANGED <<now, left>>
     ELSE now' = now + 1 + o /\ left' = left - 1
  /\ UNCHANGED <<phase, reason, began, index, error, choice, declined, cancelled,
                 totals, attempts, again, late>>

\* One poll of the pause.  The clock may run ahead of what was asked for.
Poll(o) ==
  /\ phase = "waiting" /\ left > 0
  /\ \/ /\ OverBudget(now, cost, unpriced) /\ Stop("budget")
        /\ UNCHANGED <<now, left>>
     \/ /\ ~OverBudget(now, cost, unpriced) /\ now >= began + MaxRetryTime
        /\ Stop("retry_elapsed_limit") /\ UNCHANGED <<now, left>>
     \/ /\ ~OverBudget(now, cost, unpriced) /\ now < began + MaxRetryTime
        /\ now' = now + 1 + o /\ left' = left - 1
        /\ UNCHANGED <<phase, reason>>
  /\ UNCHANGED <<began, index, error, choice, declined, cancelled, totals,
                 attempts, again, late>>

\* The pause is over: once more the run's budget, then the next attempt.
Retry ==
  /\ phase = "waiting" /\ left = 0
  /\ IF OverBudget(now, cost, unpriced)
     THEN Stop("budget") /\ UNCHANGED index
     ELSE phase' = "check" /\ index' = index + 1 /\ UNCHANGED reason
  /\ UNCHANGED <<clock, error, left, choice, declined, cancelled, totals,
                 attempts, again, late>>

\* The user cancels the run, at any moment.
Cancel ==
  /\ ~cancelled /\ phase # "stopped" /\ cancelled' = TRUE
  /\ UNCHANGED <<phase, reason, clock, index, error, left, choice, declined,
                 totals, attempts, again, late>>

Step ==
  \/ Check \/ Send \/ Retry
  \/ \E d \in Durations, priced \in BOOLEAN : Respond(d, priced)
  \/ \E d \in Durations, e \in Errors, j \in Jitters : Fail(d, e, j)
  \/ \E d \in Durations, i \in BOOLEAN : Abandon(d, i)
  \/ \E o \in Oversleeps : Poll(o)

RequestNext == Step \/ Cancel \/ \E c \in {"auto", "required"} : Begin(c)

RequestSpec == RequestInit /\ [][RequestNext]_requestVars

\* Attempts return (the adapter's timeout) and the loop runs on.
FairRequestSpec == RequestSpec /\ WF_requestVars(Step)

-----------------------------------------------------------------------------
Retries == {i \in 1..Len(attempts) : i > 1}

\* The attempts of the request that were followed by another one.
Followed == {attempts[i] : i \in 1..(Len(attempts) - 1)}

\* The server may have generated, and billed, an answer to it.
MayBeServed(attempt) == attempt.end # "server"

\* Statuses that make an error one to retry, whoever set them.
RetriedStatuses == {408, 409, 425, 429} \cup {500, 502, 503, 504}

\* A turn is sent again after an attempt that may have been served in two cases
\* only: the connection was lost and its exception carries the status of a
\* server that is to be retried; or the answer to a required tool call could
\* not be read, which happens to a turn once, and never in a run whose cost is
\* capped.  The client's timeout, a lost connection without a status, an
\* answer and an interruption are not followed by another attempt
\* (errors.py:168, "No automatic replay of timeouts/connections").
ReplaysKnown ==
  /\ \A attempt \in Followed :
       MayBeServed(attempt) =>
         attempt.end = "connection" /\ attempt.status \in RetriedStatuses
  /\ again /\ attempts # <<>> => choice = "auto" /\ cap = NoCap

\* A retry starts inside both time limits, waits for as long as the server
\* asked, and there are never more than --max-retries of them, whatever the
\* sleeps really took.
RetriesBounded ==
  /\ Len(attempts) <= MaxRetries + 1
  /\ \A i \in Retries :
       /\ attempts[i].at < began + MaxRetryTime
       /\ MaxRunTime # NoCap => attempts[i].at < MaxRunTime
       /\ attempts[i].at >= attempts[i - 1].ended + attempts[i - 1].pause

\* Cancelling lets at most the attempt already decided on go out, and with a
\* capped cost nothing is sent once a cost is unknown or the cap is reached,
\* not even to recover from a refused tool choice.
NothingSentOnceStopped ==
  /\ late <= 1
  /\ phase \in {"ready", "sent"} /\ cap # NoCap
       => unpriced = 0 /\ cost < cap

RequestsBounded == RetriesBounded /\ NothingSentOnceStopped

\* Every request ends, with an answer or a stop.
EveryRequestEnds == [](phase # "idle" => <>(phase \in {"idle", "stopped"}))

\* STATED BY agent/providers/errors.py:168-169 ("No automatic replay of
\* timeouts/connections without an explicit rejection") and
\* docs/research/provider_recovery.md:69: an attempt whose answer was lost is
\* not followed by another one.
LostNotRepeated ==
  \A attempt \in Followed : attempt.end \notin {"timeout", "connection"}

\* STATED BY docs/running_inference.md:583-588 ("falls back to the ordinary
\* request if the provider raises [...] a provider that refuses is not asked
\* again on that node"): a provider that answers a required tool call with an
\* invalid-request error is asked again with the choice left to the model.
RefusalFallsBack ==
  ~(phase = "stopped" /\ choice = "required" /\ reason = "not_retryable"
      /\ error.state = "rejected")
=============================================================================
