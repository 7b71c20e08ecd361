-------------------------- MODULE ResumeAccounting --------------------------
(***************************************************************************)
(* What a family run has spent, kept across crashes and resumes.           *)
(*                                                                         *)
(* A run may be capped in model turns, tool calls, reported cost and time, *)
(* over all the processes that work on it.  No single file holds the       *)
(* totals.  Each turn, request and tool call is journaled before it        *)
(* starts; a node session writes its trajectory when it ends; a process    *)
(* that exits in order replaces the run summary and then marks it in the   *)
(* journal.  A resume puts the totals together from what survived.         *)
(*                                                                         *)
(* Abstracted: every priced response costs 1; sessions are numbered in the *)
(* order they start (a session is one attempt at one node; FamilyRun says  *)
(* which); elapsed time is left out, so a time cap only asks whether the   *)
(* history is complete.  A torn last journal line is one that was never    *)
(* written: the reader ignores it and the next writer removes it.  A fresh *)
(* run's journal_opened record and empty checkpoint are written together.  *)
(***************************************************************************)
EXTENDS Naturals, FiniteSets, Functions

CONSTANTS
  MaxSessions,     \* bound: node sessions, over all processes
  MaxTurns,        \* --max-turns, per session
  MaxAttempts,     \* --max-retries + 1, per turn
  MaxBatch,        \* bound: tool calls in one reply
  MaxDisruptions,  \* bound: crashes, stops, journal faults and lost files
  Configurations,  \* the caps a run may be configured with
  NoCap,           \* "--max-total-... not given"
  Outcomes,        \* how a provider request can end
  JournalMayFail,  \* can a journal write fail?
  MayVanish,       \* files the run directory may lose between processes
  NoRecord         \* "no trajectory"

Sessions == 1..MaxSessions

\* USAGE_TOTALS; "unknown" is responses_without_cost.
Keys == {"turns", "calls", "cost", "unknown"}
Usage == [Keys -> Nat]
Zero == [k \in Keys |-> 0]

\* A journaled session also has requests whose end is not recorded.
Entry == [Keys \cup {"open"} -> Nat]
Blank == [k \in Keys \cup {"open"} |-> 0]

Trajectory == [usage : Usage, completed : BOOLEAN]

\* The file of the run's last totals; without one, what a resume goes by.
Summary == [exists : BOOLEAN, usage : Usage, known : BOOLEAN, complete : BOOLEAN]
NoSummary == [exists |-> FALSE, usage |-> Zero, known |-> TRUE, complete |-> TRUE]

\* The three --max-total- options, and whether --max-run-seconds is given.
Caps == [turns : Nat \cup {NoCap}, calls : Nat \cup {NoCap},
         cost : Nat \cup {NoCap}, time : BOOLEAN]

ASSUME AccountingAssumption ==
  /\ {MaxSessions, MaxTurns, MaxAttempts, MaxBatch} \subseteq Nat \ {0}
  /\ MaxDisruptions \in Nat
  /\ NoCap \notin Nat /\ Configurations \subseteq Caps
  /\ JournalMayFail \in BOOLEAN
  /\ Outcomes \subseteq
       {"priced", "unpriced", "retryable", "uncertain", "abandoned"}
  /\ MayVanish \subseteq {"journal", "trajectories", "summary"}
  /\ NoRecord \notin Trajectory

VARIABLES
  caps,         \* the run's configuration: a resume cannot change it
  \* durable
  journal,      \* does the journal file exist?
  marked,       \* does it hold a usage_recorded marker?
  tail,         \* what each session journaled after the last marker
  book,         \* the trajectory file
  checkpointed, \* sessions whose step is in the checkpoint
  summary,      \* run_summary.json
  \* the process
  pc,
  total,        \* the orchestrator's cumulative totals
  known,        \* _effort_counts_known
  complete,     \* _usage_history_complete
  session,      \* the session in hand, or the last one
  own,          \* what its trajectory will record
  attempt,      \* requests of this turn so far
  choice,       \* tool_choice: "auto", "required", or "refused" (auto for good)
  batch,        \* tool calls of the reply still to run
  outcome,      \* how the session in hand ended
  \* bound
  disruptions,
  \* ghosts
  spent,        \* what really was consumed
  lost,         \* sessions that died without a trajectory or a summary
  gap,          \* a counted turn or call, or a summary, missed its record
  blurred,      \* a request was abandoned or a journal write failed
  broken,       \* this process had a journal write fail
  forgotten     \* a process that knew its history was unknown died before its
                \* summary said so, or that summary was lost

files == <<journal, marked, tail, book, checkpointed, summary>>
totals == <<total, known, complete>>
node == <<session, own, attempt, choice, batch, outcome>>
ghosts == <<spent, lost, gap, blurred, broken, forgotten>>
vars == <<caps, files, pc, totals, node, disruptions, ghosts>>

InSession == {"turn", "request", "sent", "calls"}
Live == InSession \cup {"ending", "finalize", "save", "idle", "closing", "marking"}

Bump(u, k) == [u EXCEPT ![k] = @ + 1]

Reached(k) == caps[k] # NoCap /\ total[k] >= caps[k]

-----------------------------------------------------------------------------
(* Reading the files back *)

Recorded == {s \in Sessions : book[s] # NoRecord}

\* journal_tail: the sessions journaled after the last marker.
InTail == {s \in Sessions : tail[s] # Blank}

\* trajectory_usage, over the given sessions.
RecordedUsage(S) ==
  [k \in Keys |-> SumFunction([s \in S \cap Recorded |-> book[s].usage[k]])]

\* MUTANT of LostUsage: requests whose end is missing cost nothing.
LostUsageEndedOnly(S) ==
  [k \in Keys |-> SumFunction([s \in S |-> tail[s][k]])]

\* _unrecorded_effort: a request without an end has an unknown cost.
TailUsage(s, k) == tail[s][k] + (IF k = "unknown" THEN tail[s].open ELSE 0)
LostUsage(S) ==
  [k \in Keys |-> SumFunction([s \in S |-> TailUsage(s, k)])]

Unrecorded == InTail \ Recorded

SavedUsage == summary.usage

\* MUTANT of SavedComplete: only what this resume finds lost matters.
SavedCompleteForgotten == TRUE

SavedComplete == summary.complete
SavedKnown == summary.known

\* May the totals be trusted?  After a marker, only with the summary it
\* marks; before any, with a summary or when each checkpointed node has its
\* trajectory.
Certified(steps) ==
  IF marked THEN summary.exists
  ELSE summary.exists
         \/ \A s \in steps : s \in Recorded /\ book[s].completed

\* MUTANTS of Reconciled: lost sessions count for nothing; the larger of the
\* two records counts, as without a journal.
ReconciledFromTrajectories ==
  [k \in Keys |-> SavedUsage[k] + RecordedUsage(InTail)[k]]
ReconciledByMax ==
  [k \in Keys |-> LET r == RecordedUsage(Sessions)[k] + LostUsage(Unrecorded)[k]
                  IN IF r >= SavedUsage[k] THEN r ELSE SavedUsage[k]]

\* reconcile_resume_usage with a journal: the saved summary, and everything
\* journaled after it, from the trajectory when there is one.
Reconciled ==
  [k \in Keys |-> SavedUsage[k] + RecordedUsage(InTail)[k]
                                + LostUsage(Unrecorded)[k]]

\* ... and when the journal is lost: the larger of the two records.
ReconciledWithoutJournal ==
  [k \in Keys |-> LET r == RecordedUsage(Sessions)[k]
                  IN IF r >= SavedUsage[k] THEN r ELSE SavedUsage[k]]

-----------------------------------------------------------------------------
Init ==
  /\ caps \in Configurations
  /\ journal = FALSE /\ marked = FALSE
  /\ tail = [s \in Sessions |-> Blank]
  /\ book = [s \in Sessions |-> NoRecord]
  /\ checkpointed = {} /\ summary = NoSummary
  /\ pc = "new" /\ total = Zero /\ known = TRUE /\ complete = TRUE
  /\ session = 0 /\ own = Zero /\ attempt = 0 /\ choice = "auto" /\ batch = 0
  /\ outcome = "none"
  /\ disruptions = 0
  /\ spent = Zero /\ lost = {}
  /\ gap = FALSE /\ blurred = FALSE /\ broken = FALSE /\ forgotten = FALSE

MayDisrupt == disruptions < MaxDisruptions
Disrupt == MayDisrupt /\ disruptions' = disruptions + 1

\* A fresh run: the journal exists before the checkpoint that names it.
Start ==
  /\ pc = "new"
  /\ pc' = "idle" /\ journal' = TRUE
  /\ UNCHANGED <<marked, tail, book, checkpointed, summary, totals, node,
                 disruptions, ghosts>>

\* --resume: recovery may add finalized steps to the checkpoint (FamilyRun);
\* the totals are restored; opening the journal recreates one that was lost.
Resume ==
  /\ pc = "down"
  /\ \E new \in SUBSET {s \in Recorded : book[s].completed} :
       checkpointed' = checkpointed \cup new
  /\ IF journal
       THEN /\ total' = Reconciled
            /\ known' = (Certified(checkpointed') /\ SavedKnown)
            /\ complete' = (known' /\ SavedComplete /\ Unrecorded = {})
       ELSE /\ total' = ReconciledWithoutJournal
            /\ known' = FALSE /\ complete' = FALSE
  /\ journal' = TRUE /\ pc' = "idle" /\ broken' = FALSE
  /\ UNCHANGED <<marked, tail, book, summary, node, disruptions, spent, lost,
                 gap, blurred, forgotten>>

\* The next node's session begins.
BeginSession ==
  /\ pc = "idle" /\ session < MaxSessions
  /\ session' = session + 1 /\ pc' = "turn"
  /\ UNCHANGED <<files, totals, own, attempt, choice, batch, outcome,
                 disruptions, ghosts>>

EndSession(how) == pc' = "ending" /\ outcome' = how

\* A journal write: it lands, or it fails and the error propagates.
Journaled(k) == tail' = [tail EXCEPT ![session] = Bump(@, k)]
JournalFails ==
  /\ JournalMayFail /\ Disrupt
  /\ broken' = TRUE /\ blurred' = TRUE
  /\ UNCHANGED tail

-----------------------------------------------------------------------------
(* The session: run() *)

\* _check_usage_history refuses caps over an unknown history.
HistoryRefused ==
  \/ ~known /\ (caps.time \/ \E k \in {"turns", "calls", "cost"} : caps[k] # NoCap)
  \/ ~complete /\ caps.time

\* The turn loop runs out (the node failed), a cap stops the run, or the turn
\* is counted, journaled and begun.
TurnRefused ==
  /\ pc = "turn"
  /\ \/ own["turns"] = MaxTurns /\ EndSession("failed")
     \/ /\ own["turns"] < MaxTurns
        /\ HistoryRefused \/ Reached("turns")
        /\ EndSession("interrupted")
  /\ UNCHANGED <<files, totals, session, own, attempt, choice, batch,
                 disruptions, ghosts>>

Turn ==
  /\ pc = "turn" /\ own["turns"] < MaxTurns
  /\ ~HistoryRefused /\ ~Reached("turns")
  /\ total' = Bump(total, "turns") /\ own' = Bump(own, "turns")
  /\ \/ /\ Journaled("turns") /\ spent' = Bump(spent, "turns")
        /\ pc' = "request"
        /\ UNCHANGED <<outcome, disruptions, gap, blurred, broken>>
     \/ /\ JournalFails /\ gap' = TRUE
        /\ EndSession("interrupted") /\ UNCHANGED spent
  /\ attempt' = 0
  /\ UNCHANGED <<journal, marked, book, checkpointed, summary, known, complete,
                 session, choice, batch, lost, forgotten>>

\* _check_run_budget: unknown history, an unknown cost under a cost cap, or a
\* reached cost cap.
BudgetRefused(t) ==
  \/ HistoryRefused
  \/ caps.cost # NoCap /\ (t["unknown"] > 0 \/ t["cost"] >= caps.cost)

RequestRefused ==
  /\ pc = "request" /\ BudgetRefused(total)
  /\ EndSession("interrupted")
  /\ UNCHANGED <<files, totals, session, own, attempt, choice, batch,
                 disruptions, ghosts>>

\* After an error that is neither a provider's, a budget's nor a
\* cancellation: a required tool call is taken as refused and the turn asks
\* again with auto; otherwise the session ends.  (_request_turn)
AskAgain == choice = "required" /\ pc' = "request" /\ choice' = "refused"
                                /\ attempt' = 0 /\ UNCHANGED outcome
NotRefused == choice # "required" /\ UNCHANGED <<choice, attempt>>

\* What a RequestJournalError does inside a request.
JournalErrorRaised ==
  AskAgain \/ (NotRefused /\ EndSession("interrupted"))

\* Journal request_start, then hand the request to the provider.
SendRequest ==
  /\ pc = "request" /\ ~BudgetRefused(total)
  /\ \/ /\ Journaled("open") /\ pc' = "sent" /\ attempt' = attempt + 1
        /\ UNCHANGED <<choice, outcome, disruptions, gap, blurred, broken>>
     \/ JournalFails /\ JournalErrorRaised /\ UNCHANGED gap
  /\ UNCHANGED <<journal, marked, book, checkpointed, summary, totals, session,
                 own, batch, spent, lost, forgotten>>

\* request_end closes the open request and records what is known of its cost.
Closed(e) == [e EXCEPT !.open = @ - 1]
JournalEnd(k) == tail' = [tail EXCEPT ![session] = Bump(Closed(@), k)]
JournalRejected == tail' = [tail EXCEPT ![session] = Closed(@)]

AwaitingReply == pc = "sent"

\* A response: its metadata joins the session, request_end is journaled and
\* only then is it added to the totals; the budget is checked again.
Respond(k) ==
  /\ own' = Bump(own, k) /\ spent' = Bump(spent, k)
  /\ \/ /\ JournalEnd(k) /\ total' = Bump(total, k)
        /\ IF BudgetRefused(total')
             THEN EndSession("interrupted") /\ UNCHANGED <<choice, batch>>
             ELSE /\ pc' = "calls" /\ batch' \in 0..MaxBatch
                  /\ choice' \in IF choice = "refused" THEN {"refused"}
                                 ELSE IF batch' = 0 THEN {"auto", "required"}
                                 ELSE {"auto"}
                  /\ UNCHANGED outcome
        /\ UNCHANGED <<attempt, disruptions, blurred, broken>>
     \/ JournalFails /\ JournalErrorRaised /\ UNCHANGED <<total, batch>>

Priced == AwaitingReply /\ "priced" \in Outcomes /\ Respond("cost")
Unpriced == AwaitingReply /\ "unpriced" \in Outcomes /\ Respond("unknown")

AttemptsLeft == attempt < MaxAttempts

\* A ProviderError the request can be retried after, or that ends the run
\* when the attempts, or the time for them, are used up.  It counts as free, like
\* every error read as a rejection; what a lost connection so read
\* (RequestRetry!LostNotRepeated) may have been billed is not in `spent`.
Retryable ==
  /\ AwaitingReply /\ "retryable" \in Outcomes
  /\ \/ /\ JournalRejected
        /\ \/ AttemptsLeft /\ pc' = "request" /\ UNCHANGED outcome
           \/ EndSession("interrupted")
        /\ UNCHANGED <<choice, attempt, disruptions, blurred, broken>>
     \/ JournalFails /\ JournalErrorRaised
  /\ UNCHANGED <<total, own, batch, spent>>

\* A response lost after the request may have been accepted: never sent
\* again, and nothing prices it.
Uncertain ==
  /\ AwaitingReply /\ "uncertain" \in Outcomes
  /\ spent' = Bump(spent, "unknown")
  /\ \/ /\ JournalEnd("unknown") /\ EndSession("interrupted")
        /\ total' = Bump(total, "unknown") /\ own' = Bump(own, "unknown")
        /\ UNCHANGED <<choice, attempt, disruptions, blurred, broken>>
     \/ JournalFails /\ JournalErrorRaised /\ UNCHANGED <<total, own>>
  /\ UNCHANGED batch

\* Ctrl-C in the request ends the run; any other exception of the adapter
\* ends the session, or is read as refusing the required tool call.
Abandoned ==
  /\ AwaitingReply /\ "abandoned" \in Outcomes
  /\ spent' = Bump(spent, "unknown") /\ total' = Bump(total, "unknown")
  /\ \/ /\ JournalEnd("unknown") /\ blurred' = TRUE
        /\ \/ EndSession("interrupted") /\ UNCHANGED <<choice, attempt>>
           \/ AskAgain
           \/ NotRefused /\ EndSession("failed")
        /\ UNCHANGED <<disruptions, broken>>
     \/ JournalFails /\ JournalErrorRaised
  /\ UNCHANGED <<own, batch>>

Reply ==
  /\ Priced \/ Unpriced \/ Retryable \/ Uncertain \/ Abandoned
  /\ UNCHANGED <<journal, marked, book, checkpointed, summary, known, complete,
                 session, lost, gap, forgotten>>

\* The next tool call of the reply is counted, journaled and executed; a
\* commit among them ends the session at once.
ToolCall ==
  /\ pc = "calls" /\ batch > 0
  /\ IF Reached("calls")
       THEN EndSession("interrupted")
              /\ UNCHANGED <<tail, total, own, batch, disruptions, spent, gap,
                             blurred, broken>>
       ELSE /\ total' = Bump(total, "calls") /\ own' = Bump(own, "calls")
            /\ \/ /\ Journaled("calls") /\ spent' = Bump(spent, "calls")
                  /\ batch' = batch - 1
                  /\ \/ pc' = "calls" /\ UNCHANGED outcome
                     \/ pc' = "finalize" /\ outcome' = "committed"
                  /\ UNCHANGED <<disruptions, gap, blurred, broken>>
               \/ /\ JournalFails /\ gap' = TRUE
                  /\ EndSession("interrupted") /\ UNCHANGED <<batch, spent>>
  /\ UNCHANGED <<journal, marked, book, checkpointed, summary, known, complete,
                 session, attempt, choice, lost, forgotten>>

\* The reply is answered and the session goes on; or the session has failed
\* (a stall, or, within the reply, its own call limit).
ReplyAnswered ==
  /\ pc = "calls"
  /\ \/ batch = 0 /\ pc' = "turn" /\ UNCHANGED outcome
     \/ EndSession("failed")
  /\ UNCHANGED <<files, totals, session, own, attempt, choice, batch,
                 disruptions, ghosts>>

\* Cancelled between requests, or Ctrl-C anywhere but in one.
Cancel ==
  /\ pc \in {"turn", "request", "calls"} /\ Disrupt
  /\ EndSession("interrupted")
  /\ UNCHANGED <<files, totals, session, own, attempt, choice, batch, ghosts>>

-----------------------------------------------------------------------------
(* The end of a session and of a process *)

WriteTrajectory(done) ==
  book' = [book EXCEPT ![session] = [usage |-> own, completed |-> done]]

\* What a session holds in memory goes with it, and the totals with the process.
SessionOver ==
  /\ own' = Zero /\ attempt' = 0 /\ choice' = "auto" /\ batch' = 0
  /\ outcome' = "none"
  /\ UNCHANGED session
ProcessOver == total' = Zero /\ known' = TRUE /\ complete' = TRUE /\ pc' = "down"

\* run()'s except branch writes the trajectory; an interruption ends the run,
\* a failure ends it or goes on over the fallback.
Fail ==
  /\ pc = "ending"
  /\ WriteTrajectory(FALSE)
  /\ pc' \in IF outcome = "failed" THEN {"idle", "closing"} ELSE {"closing"}
  /\ SessionOver
  /\ UNCHANGED <<journal, marked, tail, checkpointed, summary, totals,
                 disruptions, ghosts>>

\* After the commit the step is built and finalize() writes the trajectory;
\* or building it raises, and the session leaves no trajectory.
Finalize ==
  /\ pc = "finalize"
  /\ \/ WriteTrajectory(TRUE) /\ pc' = "save" /\ UNCHANGED disruptions
     \/ Disrupt /\ pc' = "closing" /\ UNCHANGED book
  /\ SessionOver
  /\ UNCHANGED <<journal, marked, tail, checkpointed, summary, totals, ghosts>>

\* The step is saved, unless it rests on a fallback.
Save ==
  /\ pc = "save" /\ pc' = "idle"
  /\ checkpointed' \in {checkpointed, checkpointed \cup {session}}
  /\ UNCHANGED <<journal, marked, tail, book, summary, totals, node,
                 disruptions, ghosts>>

\* The tree is done, the planned stop is reached, or an error ends the walk.
Finish ==
  /\ pc \in {"idle", "save"} /\ pc' = "closing"
  /\ UNCHANGED <<files, totals, node, disruptions, ghosts>>

\* _write_run_summary: replace the summary ...
WriteSummary ==
  /\ pc = "closing" /\ pc' = "marking"
  /\ summary' = [exists |-> TRUE, usage |-> total, known |-> known,
                complete |-> complete]
  /\ UNCHANGED <<journal, marked, tail, book, checkpointed, totals, node,
                 disruptions, ghosts>>

\* ... and then mark it: the journal before the marker is accounted for.
WriteMarker ==
  /\ pc = "marking" /\ ProcessOver
  /\ marked' = TRUE /\ tail' = [s \in Sessions |-> Blank]
  /\ UNCHANGED <<journal, book, checkpointed, summary, node, disruptions,
                 ghosts>>

\* The process dies.  A request in flight may be billed; the session in hand,
\* or one that left no trajectory, is lost unless the summary covers it.
Crash ==
  /\ pc \in Live /\ Disrupt
  /\ SessionOver /\ ProcessOver
  /\ spent' = IF pc = "sent" THEN Bump(spent, "unknown") ELSE spent
  /\ lost' = IF pc = "marking" THEN lost ELSE lost \cup Unrecorded
  /\ gap' = (gap \/ pc = "marking")
  /\ forgotten' = (forgotten \/ ~known)
  /\ UNCHANGED <<files, blurred, broken>>

\* Between processes the run directory loses a file.
Vanish ==
  /\ pc = "down" /\ Disrupt
  /\ \/ /\ "journal" \in MayVanish
        /\ journal' = FALSE /\ marked' = FALSE
        /\ tail' = [s \in Sessions |-> Blank]
        /\ UNCHANGED <<book, summary, forgotten>>
     \/ /\ "trajectories" \in MayVanish
        /\ book' = [s \in Sessions |-> NoRecord]
        /\ UNCHANGED <<journal, marked, tail, summary, forgotten>>
     \/ /\ "summary" \in MayVanish
        /\ summary' = NoSummary
        /\ forgotten' = (forgotten \/ ~SavedKnown)
        /\ UNCHANGED <<journal, marked, tail, book>>
  /\ UNCHANGED <<checkpointed, pc, totals, node, spent, lost, gap, blurred,
                 broken>>

Next ==
  /\ \/ Start \/ Resume \/ BeginSession
     \/ TurnRefused \/ Turn \/ RequestRefused \/ SendRequest \/ Reply
     \/ ToolCall \/ ReplyAnswered \/ Cancel
     \/ Fail \/ Finalize \/ Save \/ Finish \/ WriteSummary \/ WriteMarker
     \/ Crash \/ Vanish
  /\ UNCHANGED caps

Spec == Init /\ [][Next]_vars

-----------------------------------------------------------------------------
(* Properties *)

\* Every variable stays in its domain.
TypeOK ==
  /\ caps \in Configurations
  /\ {journal, marked, known, complete} \subseteq BOOLEAN
  /\ {gap, blurred, broken, forgotten} \subseteq BOOLEAN
  /\ tail \in [Sessions -> Entry]
  /\ book \in [Sessions -> Trajectory \cup {NoRecord}]
  /\ summary \in Summary
  /\ checkpointed \subseteq Sessions /\ lost \subseteq Sessions
  /\ pc \in Live \cup {"new", "down"}
  /\ {total, own, spent} \subseteq Usage
  /\ session \in 0..MaxSessions /\ attempt \in 0..MaxAttempts
  /\ choice \in {"auto", "required", "refused"} /\ batch \in 0..MaxBatch
  /\ outcome \in {"none", "failed", "interrupted", "committed"}

\* Whatever crashed in between and whatever file was lost, the caps bound what
\* all processes together consume: turns, tool calls and reported cost, and a
\* request nothing priced is the last one under a cost cap
\* (docs/running_inference.md:542 "Missing cost under a configured cap stops
\* the run").  A journal lost with the effort it held is "missing history,
\* never zero effort" (cli.py:1053), as long as the process that finds it
\* missing lives to write its summary.
CapsHold == ~forgotten =>
  /\ \A k \in {"turns", "calls"} : caps[k] # NoCap => spent[k] <= caps[k]
  /\ (caps.cost # NoCap /\ ~blurred) =>
       spent["cost"] <= caps.cost /\ spent["unknown"] <= 1

\* Totals that claim to be known never miss a turn or a tool call, and are
\* exact unless a process died between a count and its record
\* (request_journal.py UnrecordedEffort "Turns, tool calls and requests are
\* exact: each is journaled before it happens").
EffortCounted ==
  (pc \in Live /\ known /\ ~forgotten) => \A k \in {"turns", "calls"} :
    /\ total[k] >= spent[k]
    /\ ~gap => total[k] = spent[k]

\* Between requests, no priced response is missing from the reported cost and
\* every request nothing priced is counted as of unknown cost.
SpendKnown ==
  (pc \in {"idle", "turn", "request"} /\ known) =>
    /\ total["cost"] >= spent["cost"]
    /\ total["unknown"] >= spent["unknown"]

\* Spend survives every crash, in flight or not, as long as no request was
\* abandoned and the journal could be written (request_journal.py "any other
\* request is in responses_without_cost").
SpendAccounted == ~blurred /\ ~forgotten => SpendKnown

\* Once a session died without leaving a record, the history is never called
\* complete again (post_review_contract_repairs.md:140 "and stays false on
\* later resumes").
HistoryHonest == (pc \in Live /\ ~forgotten /\ lost # {}) => ~complete

\* A failed journal write stops the run: after it the process only records
\* what it did (request_journal.py:55 "A run-level stop, like a budget").
JournalFailureStops ==
  broken => pc \in {"ending", "closing", "marking", "down"}
=============================================================================
