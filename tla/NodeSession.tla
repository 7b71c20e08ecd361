----------------------------- MODULE NodeSession -----------------------------
(***************************************************************************)
(* One node session: AgentOrchestrator.run, from the first model turn to   *)
(* the commit or to the error that ends it.                                *)
(*                                                                         *)
(* The model proposes tool calls; the harness answers each, watches for a  *)
(* model that is stuck, and intervenes: it injects one correction for a    *)
(* repeated mistake and one for a window full of different ones, and ends  *)
(* the session when the mistake comes back.  A response cut off at the     *)
(* output limit without a tool call makes the next request require one,    *)
(* and may raise the output limit.                                         *)
(*                                                                         *)
(* Abstracted: a rejection is its signature (tool, error code, digest of   *)
(* its offenders); KeyOf gives its tool and code and CountOf the number of *)
(* its offenders, which the digest is taken over.                          *)
(* The text of messages is left out.  Run-wide caps, retries and the       *)
(* journal are ResumeAccounting's; an error of theirs ends a session at    *)
(* any time and is left out here.                                          *)
(***************************************************************************)
EXTENDS Naturals, Sequences, FiniteSets

CONSTANTS
  Signatures,      \* the rejections a model can draw
  Protocol,        \* those of category PROTOCOL; the others are exploratory
  Keys, KeyOf,     \* (tool, code), and the one of each signature
  CountOf,         \* the number of offenders each names ...
  NoCount,         \* ... when its check can count them
  Success,         \* the signature of an accepted call
  MaxTurns,        \* max_turns
  MaxCalls,        \* max_tool_calls
  MaxBatch,        \* bound: tool calls in one reply
  MaxRepeated,     \* max_repeated_tool_failures
  Window,          \* stall_window_calls
  Saturation,      \* max_window_protocol_failures
  MaxTruncated,    \* max_truncated_responses
  Ceiling,         \* truncation_max_tokens_ceiling; NoLimit: backoff is off
  Lengths,         \* output lengths a truncated response may report
  NoLimit          \* no override of max_tokens; no reported length

ASSUME SessionAssumption ==
  /\ Protocol \subseteq Signatures /\ Success \notin Signatures
  /\ KeyOf \in [Signatures -> Keys] /\ IsFiniteSet(Keys)
  /\ NoCount \notin Nat /\ CountOf \in [Signatures -> Nat \cup {NoCount}]
  /\ {MaxTurns, MaxCalls, MaxBatch, MaxRepeated, MaxTruncated} \subseteq Nat \ {0}
  /\ Window \in Nat /\ MaxRepeated <= Window
  /\ Saturation \in 1..Window
  /\ NoLimit \notin Nat /\ Ceiling \in (Nat \ {0}) \cup {NoLimit}
  /\ Lengths \subseteq Nat \cup {NoLimit}

VARIABLES
  status,     \* "running", or how the session ended
  turns, calls,
  batch,      \* tool calls of the reply still to execute
  answering,  \* is a reply being answered?
  window,     \* recent_call_signatures and recent_repairs
  best,       \* best_offender_count
  corrected,  \* corrected_failure_signatures
  saturated,  \* corrected_window_saturation
  correction, \* pending_correction: does the batch owe one?
  stall,      \* pending_stall: the rule that wants to end the session, or "no"
  truncated,  \* truncated_response_count
  force,      \* force_tool_choice_next
  refused,    \* forced_tool_choice_refused
  limit,      \* effective_max_tokens
  \* ghosts
  forced,     \* requests sent with tool_choice "required"
  first,      \* the first offender count of each key
  repairs,    \* repairs of each key
  productive, \* has a call been accepted, exploratory or a repair?
  met,        \* keys that drew a rejection
  idle,       \* has a rejection shown no progress: its key met, no repair?
  culprit     \* the rejection at which `stall` was decided

detector == <<window, best, corrected, saturated, first, repairs, productive,
              met, idle>>
recovery == <<truncated, force, refused, limit, forced>>
vars == <<status, turns, calls, batch, answering, detector, correction, stall,
          culprit, recovery>>

Init ==
  /\ status = "running" /\ turns = 0 /\ calls = 0
  /\ batch = 0 /\ answering = FALSE
  /\ window = << >> /\ best = [k \in Keys |-> NoCount]
  /\ corrected = {} /\ saturated = FALSE
  /\ correction = FALSE /\ stall = "no" /\ culprit = Success
  /\ truncated = 0 /\ force = FALSE /\ refused = FALSE /\ limit = NoLimit
  /\ forced = 0
  /\ first = [k \in Keys |-> NoCount] /\ repairs = [k \in Keys |-> 0]
  /\ productive = FALSE /\ met = {} /\ idle = FALSE

-----------------------------------------------------------------------------
(* A turn *)

\* MUTANT of Raised: double without the ceiling.
RaisedUncapped(current) == 2 * current

Raised(current) == IF 2 * current < Ceiling THEN 2 * current ELSE Ceiling

\* _apply_truncation_backoff, for a response that reported `length`.
Backoff(length) ==
  LET current == IF limit # NoLimit THEN limit ELSE length
  IN IF Ceiling # NoLimit /\ current # NoLimit /\ Raised(current) > current
       THEN limit' = Raised(current)
       ELSE UNCHANGED limit

Asking == status = "running" /\ ~answering

\* MUTANT of TurnsExhausted: off by one, a loop that neither goes on nor ends.
TurnsExhaustedLate ==
  /\ Asking /\ turns > MaxTurns
  /\ status' = "loop limit"
  /\ UNCHANGED <<turns, calls, batch, answering, detector, correction, stall,
                 culprit, recovery>>

\* The turn loop is exhausted: AgentLoopLimitError.
TurnsExhausted ==
  /\ Asking /\ turns = MaxTurns
  /\ status' = "loop limit"
  /\ UNCHANGED <<turns, calls, batch, answering, detector, correction, stall,
                 culprit, recovery>>

\* _request_turn: a pending force is consumed and the tool call required; the
\* provider may refuse that, once, and is then asked with auto.
Request ==
  /\ Asking /\ turns < MaxTurns
  /\ turns' = turns + 1
  /\ forced' = IF force THEN forced + 1 ELSE forced
  /\ IF force THEN refused' \in {refused, TRUE} ELSE UNCHANGED refused

\* The reply carries tool calls, truncated or not.
ReplyWithCalls ==
  /\ Request
  /\ truncated' \in {truncated, truncated + 1}
  /\ force' = FALSE
  /\ batch' \in 1..MaxBatch /\ answering' = TRUE
  /\ UNCHANGED <<status, calls, detector, correction, stall, culprit, limit>>

\* The reply carries none: the model is told to call a tool.
ReplyWithoutCalls ==
  /\ Request
  /\ force' = FALSE
  /\ UNCHANGED <<status, calls, batch, answering, detector, correction, stall,
                 culprit, truncated, limit>>

\* MUTANT of MayForce: keep requiring a call after it was refused.
MayForceAlways == TRUE

\* Ask again with a required tool call, unless the provider refuses those.
MayForce == ~refused'

\* ... because it was cut off: too often, and the session stalls; otherwise
\* the next request requires a tool call and the limit may be raised.
TruncatedWithoutCalls ==
  /\ Request
  /\ truncated' = truncated + 1
  /\ IF truncated' >= MaxTruncated
       THEN status' = "truncation stall" /\ force' = FALSE /\ UNCHANGED limit
       ELSE /\ status' = status
            /\ force' = MayForce
            /\ \E length \in Lengths : Backoff(length)
  /\ UNCHANGED <<calls, batch, answering, detector, correction, stall, culprit>>

-----------------------------------------------------------------------------
(* A tool call *)

\* MUTANT of Push: the window is never trimmed.
PushOnly(sig, repair) == Append(window, [sig |-> sig, repair |-> repair])

\* _record_call_signature: the window keeps the last Window calls.
Push(sig, repair) ==
  LET longer == Append(window, [sig |-> sig, repair |-> repair])
  IN IF Len(longer) > Window THEN Tail(longer) ELSE longer

Occurrences(sig, w) == Cardinality({i \in DOMAIN w : w[i].sig = sig})

\* MUTANTS of Unrepaired: the rule before repairs were told apart; one that
\* misses the call just recorded.
Unaccepted(w) == Cardinality({i \in DOMAIN w : w[i].sig \in Protocol})
UnrepairedBefore(w) ==
  Cardinality({i \in 1..(Len(w) - 1) : w[i].sig \in Protocol /\ ~w[i].repair})

\* _window_intervention: protocol rejections that show no repair.
Unrepaired(w) ==
  Cardinality({i \in DOMAIN w : w[i].sig \in Protocol /\ ~w[i].repair})

\* _is_repair: strictly below the fewest offenders this key has named.
IsRepair(key, count) ==
  count # NoCount /\ best[key] # NoCount /\ count < best[key]

\* MUTANT of NewBest: remember the last count, not the lowest.
NewLast(key, count) ==
  IF count # NoCount THEN [best EXCEPT ![key] = count] ELSE best

NewBest(key, count) ==
  IF count # NoCount /\ (best[key] = NoCount \/ IsRepair(key, count))
    THEN [best EXCEPT ![key] = count] ELSE best

Answering == status = "running" /\ answering /\ batch > 0

CallsExhausted ==
  /\ Answering /\ calls = MaxCalls
  /\ status' = "loop limit"
  /\ UNCHANGED <<turns, calls, batch, answering, detector, correction, stall,
                 culprit, recovery>>

NextCall == Answering /\ calls < MaxCalls /\ calls' = calls + 1
                      /\ batch' = batch - 1

Accepted ==
  /\ NextCall
  /\ window' = Push(Success, FALSE) /\ productive' = TRUE
  /\ UNCHANGED <<status, turns, answering, best, corrected, saturated, first,
                 repairs, met, idle, correction, stall, culprit, recovery>>

\* An accepted commit ends the session, whatever the batch had pending.
Commit ==
  /\ NextCall
  /\ status' = "committed"
  /\ UNCHANGED <<turns, answering, detector, correction, stall, culprit,
                 recovery>>

\* The intervention decided at the rejection sig, after its slot was pushed.
\* The batch keeps the first correction and the first stall.
Correct == correction' = TRUE /\ UNCHANGED <<stall, culprit>>
Condemn(sig, rule) ==
  /\ IF stall = "no" THEN stall' = rule /\ culprit' = sig
                     ELSE UNCHANGED <<stall, culprit>>
  /\ UNCHANGED correction

RepeatedTooOften(sig, w) == Occurrences(sig, w) >= MaxRepeated

Intervene(sig) ==
  IF RepeatedTooOften(sig, window')
    THEN IF sig \in corrected
           THEN Condemn(sig, "repeat") /\ UNCHANGED <<corrected, saturated>>
           ELSE Correct /\ corrected' = corrected \cup {sig}
                        /\ UNCHANGED saturated
    ELSE IF Unrepaired(window') < Saturation
           THEN UNCHANGED <<correction, stall, culprit, corrected, saturated>>
           ELSE IF saturated
             THEN Condemn(sig, "window") /\ UNCHANGED <<corrected, saturated>>
             ELSE Correct /\ saturated' = TRUE /\ UNCHANGED corrected

\* _record_tool_failure
Rejected ==
  /\ NextCall
  /\ \E sig \in Signatures :
       LET key == KeyOf[sig]
           count == CountOf[sig]
           repair == IsRepair(key, count)
       IN /\ window' = Push(sig, repair)
          /\ best' = NewBest(key, count)
          /\ first' = IF first[key] = NoCount
                        THEN [first EXCEPT ![key] = count] ELSE first
          /\ repairs' = IF repair THEN [repairs EXCEPT ![key] = @ + 1]
                                  ELSE repairs
          /\ productive' = (productive \/ repair \/ sig \notin Protocol)
          /\ met' = met \cup {key}
          /\ idle' = (idle \/ (key \in met /\ ~repair))
          /\ Intervene(sig)
  /\ UNCHANGED <<status, turns, answering, recovery>>

\* The whole batch is answered: a pending stall ends the session, a pending
\* correction is sent with the next turn.
BatchAnswered ==
  /\ status = "running" /\ answering /\ batch = 0
  /\ answering' = FALSE
  /\ status' = IF stall # "no" THEN "stalled" ELSE status
  /\ correction' = FALSE
  /\ UNCHANGED <<turns, calls, batch, detector, stall, culprit, recovery>>

Next ==
  \/ TurnsExhausted \/ ReplyWithCalls \/ ReplyWithoutCalls
  \/ TruncatedWithoutCalls
  \/ CallsExhausted \/ Accepted \/ Commit \/ Rejected \/ BatchAnswered

Spec == Init /\ [][Next]_vars

\* run() is a loop of one thread: it goes on until it returns or raises.
FairSpec == Spec /\ WF_vars(Next)

-----------------------------------------------------------------------------
(* Properties *)

\* Every variable stays in its domain.
TypeOK ==
  /\ status \in {"running", "committed", "stalled", "truncation stall",
                 "loop limit"}
  /\ turns \in 0..MaxTurns /\ calls \in 0..MaxCalls /\ batch \in 0..MaxBatch
  /\ {answering, saturated, correction, force, refused, productive,
      idle} \subseteq BOOLEAN
  /\ window \in Seq([sig : Signatures \cup {Success}, repair : BOOLEAN])
  /\ Len(window) <= Window
  /\ {best, first} \subseteq [Keys -> Nat \cup {NoCount}]
  /\ repairs \in [Keys -> Nat]
  /\ corrected \subseteq Signatures /\ met \subseteq Keys
  /\ stall \in {"no", "repeat", "window"} /\ culprit \in Signatures \cup {Success}
  /\ truncated \in 0..MaxTurns /\ forced \in 0..MaxTurns
  /\ limit \in Nat \cup {NoLimit}

\* For each tool and code, a session has at most as many repairs as the first
\* rejection had offenders, so repairs cannot buy turns forever
\* (orchestrator.py:916-918).
RepairsBounded ==
  \A k \in Keys : repairs[k] = 0 \/ repairs[k] <= first[k]

\* A model whose every call is an unrepaired protocol rejection is ended soon
\* after the window saturates: each correction still owed buys it one call at
\* most (orchestrator.py:1042-1049).
StuckIsStopped ==
  (Asking /\ ~productive) => calls <= Saturation + Cardinality(corrected)

\* A session whose every rejection is the first of its check or names fewer
\* offenders than before is never condemned, as long as the checks alone cannot
\* fill the window: repairing rows does not end a node (orchestrator.py:898-905).
ProgressIsSpared ==
  ~idle /\ Cardinality({KeyOf[sig] : sig \in Protocol}) < Saturation
        /\ MaxRepeated > 1
    => stall = "no"

\* Forced requests are bounded by --max-truncated-responses, and a provider
\* that refused one is never asked again (docs/running_inference.md:583-586).
ForcedBounded ==
  /\ forced < MaxTruncated
  /\ refused => ~force

\* Neither of the two exemptions from the stall rules can be used for ever: a
\* model that varies its calls runs out of repairs, and one that truncates runs
\* out of forced requests (orchestrator.py:916-918 and 1581-1600).
ExemptionsBounded == RepairsBounded /\ ForcedBounded

\* The override of max_tokens only grows, and never above the ceiling.
LimitGrows ==
  [][limit' # limit =>
       limit' <= Ceiling /\ (limit # NoLimit => limit' > limit)]_vars

\* Every session ends.
Ends == <>(status # "running")

\* "Exploratory rejections are excluded" from the window rule, so that it does
\* not end a node for getting sound laws wrong (orchestrator.py:1051-1054).
ExploratoryEndsNoNode ==
  status = "stalled" /\ stall = "window" => culprit \in Protocol
=============================================================================
