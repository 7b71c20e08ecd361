----------------------------- MODULE ResumeProofs -----------------------------
(***************************************************************************)
(* For every number of sessions, crashes, lost files and failed writes:    *)
(*                                                                         *)
(*   - once a session has died without leaving a record, no later process  *)
(*     calls the history of the run complete;                              *)
(*   - totals that claim to be known miss no turn, tool call or spend, and *)
(*     so the caps bound what all processes consume together.              *)
(*                                                                         *)
(* The first follows what testifies to a lost session: its entry in the    *)
(* tail of the journal; after a marker, the summary that was marked; and,  *)
(* when that file is lost too, the marker without its summary.             *)
(*                                                                         *)
(* The second keeps three accounts in step: what was consumed, what the    *)
(* process counts, and what the next process would read, which is the      *)
(* summary and the sum over the tail of the journal.  A step of a session  *)
(* moves them together (Grows, Keeps); a resume reads trajectories in      *)
(* place of journal entries, which never fall short of them (OwnCounts).   *)
(***************************************************************************)
EXTENDS ResumeAccounting, SumProofs

InNode == InSession \cup {"ending", "finalize"}

\* Sessions are numbered in the order they start.
NumberInv ==
  /\ session \in Nat
  /\ \A s \in Sessions : s > session => tail[s] = Blank
  /\ \A s \in lost : s \in Sessions /\ s <= session
  /\ pc \in InNode => session \in Sessions /\ session \notin lost

\* The journal still holds the effort of a lost session.
InJournal == \E s \in lost : s \in Unrecorded

SavedIncomplete == ~summary.complete
SavedUnknown == ~summary.known

\* A process that has losses behind it says so, and the files say it too
\* unless the process knows them to be unknown.
LiveInv ==
  pc \in Live =>
    /\ journal
    /\ complete => known
    /\ known => summary.known
    /\ lost # {} /\ ~forgotten => ~complete /\ (known => InJournal \/ SavedIncomplete)

\* Between processes the files alone say it.
DownInv ==
  pc = "down" /\ lost # {} /\ ~forgotten =>
    ~journal \/ InJournal \/ SavedIncomplete \/ (marked /\ ~summary.exists)

\* Without a marker the journal has lost nothing it held, unless it was lost
\* itself.
UnmarkedInv ==
  ~marked /\ journal /\ lost # {} /\ ~forgotten =>
    InJournal \/ (pc \in Live /\ ~known) \/ SavedUnknown

\* A marker is about the summary just written, which claims no more than it
\* knows.
SummaryInv ==
  /\ pc = "marking" =>
       summary.exists /\ summary.known = known /\ summary.complete = complete
  /\ summary.complete => summary.known

NewInv == pc = "new" => lost = {} /\ session = 0 /\ known /\ summary.known

PhaseInv ==
  /\ pc \in Live \cup {"new", "down"}
  /\ DOMAIN tail = Sessions /\ DOMAIN book = Sessions

IInv == PhaseInv /\ NumberInv /\ LiveInv /\ DownInv /\ UnmarkedInv /\ SummaryInv /\ NewInv

-----------------------------------------------------------------------------
\* A step of a session: the tail and the trajectory of no other one change,
\* and neither do the summary, the marker and what is known.
LEMMA InSessionStep ==
  ASSUME IInv, pc \in InNode, pc' \in Live \ {"marking"},
         UNCHANGED <<journal, marked, summary, known, complete, session, lost, forgotten>>,
         DOMAIN tail' = Sessions, DOMAIN book' = Sessions,
         \A s \in Sessions : s # session => tail'[s] = tail[s] /\ book'[s] = book[s]
  PROVE  IInv'
<1>1. pc \in Live /\ session \in Sessions /\ session \notin lost /\ lost \subseteq Sessions
  BY DEF IInv, NumberInv, InNode, Live
<1>2. InJournal => InJournal'
  BY <1>1 DEF InJournal, Unrecorded, InTail, Recorded
<1>3. NumberInv'
  <2>1. session \in Nat
    BY DEF IInv, NumberInv
  <2> QED BY <1>1, <2>1 DEF IInv, NumberInv
<1>4. PhaseInv' /\ SummaryInv' /\ NewInv'
  BY DEF IInv, PhaseInv, SummaryInv, NewInv, Live, InSession
<1>5. LiveInv'
  BY <1>1, <1>2 DEF IInv, LiveInv, SavedIncomplete
<1>6. DownInv'
  BY DEF DownInv, Live, InSession
<1>7. UnmarkedInv'
  BY <1>1, <1>2 DEF IInv, UnmarkedInv, SavedUnknown
<1> QED BY <1>3, <1>4, <1>5, <1>6, <1>7 DEF IInv

\* A journal write touches the entry of the session in hand.
OwnEntry ==
  UNCHANGED tail \/ JournalRejected \/ \E k \in Keys \cup {"open"} : Journaled(k) \/ JournalEnd(k)

LEMMA OwnTail ==
  ASSUME DOMAIN tail = Sessions, OwnEntry
  PROVE  /\ DOMAIN tail' = Sessions
         /\ \A s \in Sessions : s # session => tail'[s] = tail[s]
BY DEF OwnEntry, JournalRejected, Journaled, JournalEnd

\* What the steps of a session have in common.
OwnStep ==
  /\ pc \in InNode /\ pc' \in Live \ {"marking"} /\ OwnEntry
  /\ UNCHANGED <<journal, marked, summary, known, complete, session, lost, forgotten>>

LEMMA ReplyOwn == Reply => OwnStep
<1> USE DEF InNode, InSession, Live, EndSession, OwnStep, OwnEntry, Keys, Disrupt
<1> SUFFICES ASSUME Reply PROVE OwnStep
  OBVIOUS
<1>1. UNCHANGED <<journal, marked, summary, known, complete, session, lost, forgotten>>
  BY DEF Reply
<1>2. ASSUME NEW k \in Keys, AwaitingReply, Respond(k) PROVE OwnStep
  BY <1>1, <1>2 DEF AwaitingReply, Respond, JournalFails, JournalErrorRaised, AskAgain
<1>3. CASE Priced \/ Unpriced
  BY <1>2, <1>3 DEF Priced, Unpriced
<1>4. CASE Retryable
  BY <1>1, <1>4 DEF Retryable, AwaitingReply, JournalFails, JournalErrorRaised, AskAgain
<1>5. CASE Uncertain
  BY <1>1, <1>5 DEF Uncertain, AwaitingReply, JournalFails, JournalErrorRaised, AskAgain
<1>6. CASE Abandoned
  BY <1>1, <1>6 DEF Abandoned, AwaitingReply, JournalFails, JournalErrorRaised, AskAgain
<1> QED BY <1>3, <1>4, <1>5, <1>6 DEF Reply

LEMMA SessionOwn ==
  TurnRefused \/ Turn \/ RequestRefused \/ SendRequest \/ ToolCall \/ ReplyAnswered
    \/ Cancel => OwnStep
<1> USE DEF InNode, InSession, Live, EndSession, OwnStep, OwnEntry, Keys, Disrupt,
            files, totals, ghosts
<1>1. TurnRefused => OwnStep
  BY DEF TurnRefused
<1>2. Turn => OwnStep
  BY DEF Turn, JournalFails
<1>3. RequestRefused => OwnStep
  BY DEF RequestRefused
<1>4. SendRequest => OwnStep
  BY DEF SendRequest, JournalFails, JournalErrorRaised, AskAgain
<1>5. ToolCall => OwnStep
  BY DEF ToolCall, JournalFails
<1>6. ReplyAnswered => OwnStep
  BY DEF ReplyAnswered
<1>7. Cancel => OwnStep
  BY DEF Cancel
<1> QED BY <1>1, <1>2, <1>3, <1>4, <1>5, <1>6, <1>7

\* The trajectory written at the end of a session is its own.
LEMMA RecordOwn ==
  ASSUME DOMAIN book = Sessions, Fail \/ Finalize
  PROVE  /\ OwnStep /\ DOMAIN book' = Sessions
         /\ \A s \in Sessions : s # session => book'[s] = book[s]
BY DEF Fail, Finalize, WriteTrajectory, SessionOver, Disrupt, InNode, InSession, Live,
       OwnStep, OwnEntry, totals, ghosts

LEMMA SessionSteps ==
  ASSUME IInv,
         \/ TurnRefused \/ Turn \/ RequestRefused \/ SendRequest \/ Reply
         \/ ToolCall \/ ReplyAnswered \/ Cancel \/ Fail \/ Finalize
  PROVE  IInv'
<1>1. DOMAIN tail = Sessions /\ DOMAIN book = Sessions
  BY DEF IInv, PhaseInv
<1>2. CASE Fail \/ Finalize
  BY <1>1, <1>2, RecordOwn, OwnTail, InSessionStep DEF OwnStep
<1>3. CASE ~(Fail \/ Finalize)
  <2>1. OwnStep
    BY <1>3, SessionOwn, ReplyOwn
  <2>2. book' = book
    BY <1>3 DEF TurnRefused, Turn, RequestRefused, SendRequest, Reply, ToolCall,
                ReplyAnswered, Cancel, files
  <2> QED BY <1>1, <2>1, <2>2, OwnTail, InSessionStep DEF OwnStep
<1> QED BY <1>2, <1>3

-----------------------------------------------------------------------------
LEMMA StartInv == IInv /\ Start => IInv'
BY DEF Start, IInv, PhaseInv, NumberInv, LiveInv, DownInv, UnmarkedInv, SummaryInv, NewInv,
       InJournal, InNode, InSession, Live, totals, node, ghosts

LEMMA ResumeInv == IInv /\ Resume => IInv'
<1> SUFFICES ASSUME IInv, Resume PROVE IInv'
  OBVIOUS
<1>1. /\ pc = "down" /\ pc' = "idle" /\ journal'
      /\ UNCHANGED <<marked, tail, book, summary, session, lost, forgotten>>
  BY DEF Resume, node
<1>2. Unrecorded' = Unrecorded
  BY <1>1 DEF Unrecorded, InTail, Recorded
<1>3. CASE ~journal
  <2>1. ~known' /\ ~complete'
    BY <1>3 DEF Resume
  <2> QED BY <1>1, <1>2, <2>1 DEF IInv, PhaseInv, NumberInv, LiveInv, DownInv, UnmarkedInv,
                  SummaryInv, NewInv, InNode, InSession, Live
<1>4. CASE journal
  <2>1. /\ known' = (Certified(checkpointed') /\ SavedKnown)
        /\ complete' = (known' /\ SavedComplete /\ Unrecorded = {})
    BY <1>4 DEF Resume
  <2>2. InJournal' = InJournal
    BY <1>1, <1>2 DEF InJournal
  <2>3. marked /\ ~summary.exists => ~known'
    BY <2>1 DEF Certified
  <2>4. InJournal \/ SavedIncomplete \/ ~known' => ~complete'
    BY <2>1 DEF InJournal, SavedIncomplete, SavedComplete
  <2>5. LiveInv'
    <3>1. lost # {} /\ ~forgotten => ~complete' /\ (known' => InJournal \/ SavedIncomplete)
      BY <1>1, <1>4, <2>3, <2>4 DEF IInv, DownInv
    <3>2. (complete' => known') /\ (known' => summary.known)
      BY <2>1 DEF SavedKnown
    <3> QED BY <1>1, <2>2, <3>1, <3>2 DEF LiveInv, SavedIncomplete
  <2>6. UnmarkedInv'
    BY <1>1, <1>4, <2>2 DEF IInv, UnmarkedInv, SavedUnknown, Live, InSession
  <2> QED BY <1>1, <2>5, <2>6 DEF IInv, PhaseInv, NumberInv, DownInv, SummaryInv, NewInv,
                  InNode, InSession, Live
<1> QED BY <1>3, <1>4

LEMMA BeginInv == IInv /\ BeginSession => IInv'
<1> SUFFICES ASSUME IInv, BeginSession PROVE IInv'
  OBVIOUS
<1>1. /\ pc = "idle" /\ pc' = "turn" /\ session' = session + 1 /\ session < MaxSessions
      /\ UNCHANGED <<journal, marked, tail, book, summary, known, complete, lost, forgotten>>
  BY DEF BeginSession, files, totals, ghosts
<1>2. session \in Nat /\ MaxSessions \in Nat
  BY AccountingAssumption DEF IInv, NumberInv
<1>3. NumberInv'
  BY <1>1, <1>2 DEF IInv, NumberInv, Sessions
<1> QED BY <1>1, <1>3 DEF IInv, PhaseInv, LiveInv, DownInv, UnmarkedInv, SummaryInv, NewInv,
                InJournal, Unrecorded, InTail, Recorded, SavedIncomplete, SavedUnknown, Live,
                InSession

\* Between sessions a process moves on and changes no file but the checkpoint.
LEMMA BetweenInv == IInv /\ (Save \/ Finish) => IInv'
<1> SUFFICES ASSUME IInv, Save \/ Finish PROVE IInv'
  OBVIOUS
<1>1. /\ pc \in {"save", "idle"} /\ pc' \in {"idle", "closing"}
      /\ UNCHANGED <<journal, marked, tail, book, summary, known, complete, session, lost,
                     forgotten>>
  BY DEF Save, Finish, files, totals, node, ghosts
<1> QED BY <1>1 DEF IInv, PhaseInv, NumberInv, LiveInv, DownInv, UnmarkedInv, SummaryInv,
                NewInv, InJournal, Unrecorded, InTail, Recorded, SavedIncomplete,
                SavedUnknown, InNode, InSession, Live

LEMMA SummaryStep == IInv /\ WriteSummary => IInv'
<1> SUFFICES ASSUME IInv, WriteSummary PROVE IInv'
  OBVIOUS
<1>1. /\ pc = "closing" /\ pc' = "marking"
      /\ summary'.exists /\ summary'.known = known /\ summary'.complete = complete
      /\ UNCHANGED <<journal, marked, tail, book, known, complete, session, lost, forgotten>>
  BY DEF WriteSummary, totals, node, ghosts
<1>2. NumberInv' /\ PhaseInv' /\ NewInv' /\ DownInv'
  BY <1>1 DEF IInv, PhaseInv, NumberInv, NewInv, DownInv, InNode, InSession, Live
<1>3. InJournal' = InJournal
  BY <1>1 DEF InJournal, Unrecorded, InTail, Recorded
<1>4. LiveInv' /\ SummaryInv'
  BY <1>1, <1>3 DEF IInv, LiveInv, SummaryInv, SavedIncomplete, Live
<1>5. UnmarkedInv'
  BY <1>1, <1>3 DEF IInv, UnmarkedInv, LiveInv, SavedUnknown, Live
<1> QED BY <1>2, <1>4, <1>5 DEF IInv

LEMMA MarkerInv == IInv /\ WriteMarker => IInv'
<1> SUFFICES ASSUME IInv, WriteMarker PROVE IInv'
  OBVIOUS
<1>1. /\ pc = "marking" /\ pc' = "down" /\ marked' /\ tail' = [s \in Sessions |-> Blank]
      /\ UNCHANGED <<journal, book, summary, session, lost, forgotten>>
  BY DEF WriteMarker, ProcessOver, node, ghosts
<1>2. lost # {} /\ ~forgotten => ~summary.complete
  BY <1>1 DEF IInv, LiveInv, SummaryInv, Live
<1> QED BY <1>1, <1>2 DEF IInv, PhaseInv, NumberInv, LiveInv, DownInv, UnmarkedInv,
                SummaryInv, NewInv, SavedIncomplete, InNode, InSession, Live

LEMMA CrashInv == IInv /\ Crash => IInv'
<1> SUFFICES ASSUME IInv, Crash PROVE IInv'
  OBVIOUS
<1>1. /\ pc \in Live /\ pc' = "down" /\ forgotten' = (forgotten \/ ~known)
      /\ lost' = IF pc = "marking" THEN lost ELSE lost \cup Unrecorded
      /\ UNCHANGED <<journal, marked, tail, book, summary, session>>
  BY DEF Crash, SessionOver, ProcessOver, files
<1>2. Unrecorded' = Unrecorded
  BY <1>1 DEF Unrecorded, InTail, Recorded
<1>3. InJournal => InJournal'
  BY <1>1, <1>2 DEF InJournal
<1>4. ASSUME lost' # {}, ~forgotten'
      PROVE  InJournal' \/ (lost # {} /\ ~forgotten /\ known)
  BY <1>1, <1>2, <1>4 DEF InJournal
<1>5. NumberInv'
  <2>1. \A s \in Unrecorded : s \in Sessions /\ ~(s > session)
    BY DEF IInv, NumberInv, Unrecorded, InTail
  <2>2. session \in Nat /\ Sessions \subseteq Nat
    BY DEF IInv, NumberInv, Sessions
  <2>3. \A s \in lost' : s \in Sessions /\ s <= session
    <3> SUFFICES ASSUME NEW s \in lost' PROVE s \in Sessions /\ s <= session
      OBVIOUS
    <3>1. s \in lost \/ s \in Unrecorded
      BY <1>1
    <3>2. CASE s \in lost
      BY <3>2 DEF IInv, NumberInv
    <3>3. CASE s \in Unrecorded
      <4>1. s \in Nat /\ session \in Nat /\ ~(s > session)
        BY <2>1, <2>2, <3>3
      <4> QED BY <2>1, <3>3, <4>1
    <3> QED BY <3>1, <3>2, <3>3
  <2> QED BY <1>1, <2>3 DEF IInv, NumberInv, InNode, InSession
<1>6. DownInv'
  BY <1>1, <1>3, <1>4 DEF IInv, LiveInv, DownInv, SavedIncomplete
<1>7. UnmarkedInv'
  BY <1>1, <1>3, <1>4 DEF IInv, UnmarkedInv, SavedUnknown
<1> QED BY <1>1, <1>5, <1>6, <1>7 DEF IInv, PhaseInv, LiveInv, SummaryInv, NewInv, Live,
                InSession

\* A lost file: the journal's loss is found by the next process, a lost
\* trajectory only adds to what is unrecorded, and the journal or its marker
\* speaks for a lost summary.
LEMMA VanishInv == IInv /\ Vanish => IInv'
<1> SUFFICES ASSUME IInv, Vanish PROVE IInv'
  OBVIOUS
<1>1. pc = "down" /\ UNCHANGED <<pc, session, lost>>
  BY DEF Vanish, node
<1>2. CASE /\ ~journal' /\ tail' = [s \in Sessions |-> Blank]
           /\ UNCHANGED <<book, summary, forgotten>>
  BY <1>1, <1>2 DEF IInv, PhaseInv, NumberInv, LiveInv, DownInv, UnmarkedInv, SummaryInv,
                    NewInv, InNode, InSession, Live
<1>3. CASE /\ book' = [s \in Sessions |-> NoRecord]
           /\ UNCHANGED <<journal, marked, tail, summary, forgotten>>
  <2>1. InJournal => InJournal'
    BY <1>1, <1>3 DEF InJournal, Unrecorded, InTail, Recorded
  <2> QED BY <1>1, <1>3, <2>1 DEF IInv, PhaseInv, NumberInv, LiveInv, DownInv, UnmarkedInv,
                  SummaryInv, NewInv, SavedIncomplete, SavedUnknown, InNode, InSession, Live
<1>4. CASE /\ summary' = NoSummary /\ forgotten' = (forgotten \/ ~SavedKnown)
           /\ UNCHANGED <<journal, marked, tail, book>>
  <2>1. InJournal' = InJournal
    BY <1>1, <1>4 DEF InJournal, Unrecorded, InTail, Recorded
  <2>2. ~summary'.exists /\ summary'.known /\ summary'.complete
    BY <1>4 DEF NoSummary
  <2>3. ~forgotten' => ~forgotten /\ summary.known
    BY <1>4 DEF SavedKnown
  <2>4. UnmarkedInv'
    BY <1>1, <1>4, <2>1, <2>3 DEF IInv, UnmarkedInv, SavedUnknown, Live, InSession
  <2>5. DownInv'
    BY <1>1, <1>4, <2>1, <2>2, <2>3 DEF IInv, DownInv, UnmarkedInv, SavedUnknown, Live, InSession
  <2> QED BY <1>1, <1>4, <2>2, <2>4, <2>5 DEF IInv, PhaseInv, NumberInv, LiveInv,
                  SummaryInv, NewInv, InNode, InSession, Live
<1> QED BY <1>2, <1>3, <1>4 DEF Vanish

LEMMA InitInv == Init => IInv
BY DEF Init, IInv, PhaseInv, NumberInv, LiveInv, DownInv, UnmarkedInv, SummaryInv, NewInv,
       NoSummary, InNode, InSession, Live

LEMMA NextInv == IInv /\ [Next]_vars => IInv'
<1>1. IInv /\ UNCHANGED vars => IInv'
  BY DEF vars, files, totals, node, ghosts, IInv, PhaseInv, NumberInv, LiveInv, DownInv,
         UnmarkedInv, SummaryInv, NewInv, InJournal, Unrecorded, InTail, Recorded,
         SavedIncomplete, SavedUnknown
<1> QED BY <1>1, StartInv, ResumeInv, BeginInv, SessionSteps, BetweenInv, SummaryStep,
           MarkerInv, CrashInv, VanishInv DEF Next

\* Once a session has died without a record, no process of the run calls its
\* history complete again (post_review_contract_repairs.md:140 "and stays
\* false on later resumes").
THEOREM HistoryStaysHonest == Spec => []HistoryHonest
<1>1. IInv => HistoryHonest
  BY DEF IInv, LiveInv, HistoryHonest
<1> QED BY <1>1, InitInv, NextInv, PTL DEF Spec

-----------------------------------------------------------------------------
(* Domains *)

TypeFiles ==
  /\ journal \in BOOLEAN /\ marked \in BOOLEAN
  /\ tail \in [Sessions -> Entry]
  /\ book \in [Sessions -> Trajectory \cup {NoRecord}]
  /\ summary \in Summary /\ checkpointed \subseteq Sessions

TypeTotals == total \in Usage /\ own \in Usage /\ spent \in Usage

TypeProcess ==
  /\ caps \in Configurations /\ pc \in Live \cup {"new", "down"}
  /\ known \in BOOLEAN /\ complete \in BOOLEAN
  /\ session \in 0..MaxSessions /\ attempt \in 0..MaxAttempts
  /\ choice \in {"auto", "required", "refused"} /\ batch \in 0..MaxBatch
  /\ outcome \in {"none", "failed", "interrupted", "committed"}

TypeGhosts ==
  /\ lost \subseteq Sessions
  /\ gap \in BOOLEAN /\ blurred \in BOOLEAN /\ broken \in BOOLEAN
  /\ forgotten \in BOOLEAN

\* A request is only prepared while the turn has an attempt left, one on its
\* way is open in the journal, and a step to save is that of a session.
AttemptInv ==
  /\ pc = "save" => session \in Sessions
  /\ pc = "request" => attempt < MaxAttempts
  /\ pc = "sent" => tail[session].open >= 1

TypeInv == TypeFiles /\ TypeTotals /\ TypeProcess /\ TypeGhosts /\ AttemptInv

LEMMA BoundTypes ==
  /\ MaxSessions \in Nat /\ MaxAttempts \in Nat /\ MaxAttempts >= 1 /\ MaxBatch \in Nat
  /\ NoCap \notin Nat /\ NoRecord \notin Trajectory /\ Sessions \subseteq Nat
  /\ IsFiniteSet(Sessions)
<1>1. MaxSessions \in Nat /\ MaxAttempts \in Nat /\ MaxAttempts >= 1 /\ MaxBatch \in Nat
  BY AccountingAssumption DEF AccountingAssumption
<1>2. 1 \in Int /\ MaxSessions \in Int
  BY <1>1
<1>3. IsFiniteSet(Sessions)
  BY <1>2, FS_Interval DEF Sessions
<1> QED BY <1>1, <1>3, AccountingAssumption DEF AccountingAssumption, Sessions

LEMMA UsageBump ==
  ASSUME NEW u \in Usage, NEW k \in Keys
  PROVE  /\ Bump(u, k) \in Usage /\ Bump(u, k)[k] = u[k] + 1
         /\ \A j \in Keys : j # k => Bump(u, k)[j] = u[j]
BY DEF Usage, Bump

LEMMA ZeroType == Zero \in Usage /\ \A k \in Keys : Zero[k] = 0
BY DEF Usage, Zero

LEMMA BlankType ==
  /\ [s \in Sessions |-> Blank] \in [Sessions -> Entry]
  /\ \A k \in Keys \cup {"open"} : Blank[k] = 0
BY DEF Entry, Blank

\* What a journal write does to the entry of the session in hand.
LEMMA EntryBump ==
  ASSUME NEW e \in Entry, NEW k \in Keys \cup {"open"}
  PROVE  /\ Bump(e, k) \in Entry /\ Bump(e, k)[k] = e[k] + 1
         /\ \A j \in Keys \cup {"open"} : j # k => Bump(e, k)[j] = e[j]
BY DEF Entry, Bump

LEMMA EntryClosed ==
  ASSUME NEW e \in Entry, e.open >= 1
  PROVE  /\ Closed(e) \in Entry /\ Closed(e).open = e.open - 1
         /\ \A j \in Keys : Closed(e)[j] = e[j]
BY DEF Entry, Closed, Keys

LEMMA JournaledEntry ==
  ASSUME tail \in [Sessions -> Entry], session \in Sessions,
         NEW k \in Keys \cup {"open"}, Journaled(k)
  PROVE  /\ tail' \in [Sessions -> Entry] /\ tail'[session][k] = tail[session][k] + 1
         /\ \A j \in Keys \cup {"open"} : j # k => tail'[session][j] = tail[session][j]
<1> DEFINE e == Bump(tail[session], k)
<1>1. e \in Entry /\ e[k] = tail[session][k] + 1
      /\ \A j \in Keys \cup {"open"} : j # k => e[j] = tail[session][j]
  BY EntryBump
<1>2. tail' = [tail EXCEPT ![session] = e]
  BY DEF Journaled
<1> HIDE DEF e
<1> QED BY <1>1, <1>2

LEMMA RejectedEntry ==
  ASSUME tail \in [Sessions -> Entry], session \in Sessions, tail[session].open >= 1,
         JournalRejected
  PROVE  /\ tail' \in [Sessions -> Entry] /\ tail'[session].open = tail[session].open - 1
         /\ \A j \in Keys : tail'[session][j] = tail[session][j]
<1> DEFINE e == Closed(tail[session])
<1>1. e \in Entry /\ e.open = tail[session].open - 1 /\ \A j \in Keys : e[j] = tail[session][j]
  BY EntryClosed
<1>2. tail' = [tail EXCEPT ![session] = e]
  BY DEF JournalRejected
<1> HIDE DEF e
<1> QED BY <1>1, <1>2

LEMMA EndedEntry ==
  ASSUME tail \in [Sessions -> Entry], session \in Sessions, tail[session].open >= 1,
         NEW k \in Keys, JournalEnd(k)
  PROVE  /\ tail' \in [Sessions -> Entry] /\ tail'[session].open = tail[session].open - 1
         /\ tail'[session][k] = tail[session][k] + 1
         /\ \A j \in Keys : j # k => tail'[session][j] = tail[session][j]
<1> DEFINE c == Closed(tail[session])
           e == Bump(c, k)
<1>1. c \in Entry /\ c.open = tail[session].open - 1 /\ \A j \in Keys : c[j] = tail[session][j]
  BY EntryClosed
<1>2. tail' = [tail EXCEPT ![session] = e]
  BY DEF JournalEnd
<1> HIDE DEF c
<1>3. k # "open"
  BY DEF Keys
<1>4. e \in Entry /\ e[k] = c[k] + 1 /\ e.open = c.open
      /\ \A j \in Keys : j # k => e[j] = c[j]
  BY <1>1, <1>3, EntryBump
<1> HIDE DEF e
<1> QED BY <1>1, <1>2, <1>4

LEMMA TypeInit == Init => TypeInv
<1> SUFFICES ASSUME Init PROVE TypeInv
  OBVIOUS
<1>1. TypeFiles
  BY BlankType, ZeroType DEF Init, TypeFiles, NoSummary, Summary
<1>2. TypeTotals
  BY ZeroType DEF Init, TypeTotals
<1>3. TypeProcess
  BY BoundTypes DEF Init, TypeProcess
<1>4. TypeGhosts /\ AttemptInv
  BY DEF Init, TypeGhosts, AttemptInv
<1> QED BY <1>1, <1>2, <1>3, <1>4 DEF TypeInv

\* A step that counts or sends nothing.
LEMMA TypeQuiet ==
  ASSUME TypeInv, UNCHANGED caps,
         TurnRefused \/ RequestRefused \/ ReplyAnswered \/ Cancel \/ Start \/ Save \/ Finish
  PROVE  TypeInv'
<1> USE BoundTypes DEF TypeInv, files, totals, node, ghosts, Live, InSession
<1>1. TypeFiles'
  BY DEF TypeFiles, TurnRefused, RequestRefused, ReplyAnswered, Cancel, Start, Save, Finish,
         AttemptInv
<1>2. TypeTotals' /\ TypeGhosts'
  BY DEF TypeTotals, TypeGhosts, TurnRefused, RequestRefused, ReplyAnswered, Cancel, Start,
         Save, Finish
<1>3. TypeProcess'
  BY DEF TypeProcess, TurnRefused, RequestRefused, ReplyAnswered, Cancel, Start, Save, Finish,
         EndSession
<1>4. AttemptInv'
  BY DEF AttemptInv, TurnRefused, RequestRefused, ReplyAnswered, Cancel, Start, Save, Finish,
         EndSession
<1> QED BY <1>1, <1>2, <1>3, <1>4

\* The totals a resume reads are numbers.
LEMMA SumNumber ==
  ASSUME NEW f, NEW S, S \subseteq Sessions, DOMAIN f = S, \A s \in S : f[s] \in Nat
  PROVE  SumFunction(f) \in Nat
<1>1. IsFiniteSet(S)
  BY BoundTypes, FS_Subset
<1> QED BY <1>1, SumType DEF SumFunction, SumFunctionOnSet

LEMMA TailUsageType ==
  ASSUME TypeFiles, NEW s \in Sessions, NEW k \in Keys
  PROVE  TailUsage(s, k) \in Nat
BY DEF TypeFiles, TailUsage, Entry

LEMMA RecordUsageType ==
  ASSUME TypeFiles, NEW s \in Recorded, NEW k \in Keys
  PROVE  book[s].usage[k] \in Nat
BY DEF TypeFiles, Recorded, Trajectory, Usage

LEMMA RestoredTypes ==
  ASSUME TypeFiles
  PROVE  /\ Reconciled \in Usage /\ ReconciledWithoutJournal \in Usage
<1>1. ASSUME NEW S \in SUBSET Sessions, NEW k \in Keys PROVE RecordedUsage(S)[k] \in Nat
  <2> DEFINE R == S \cap Recorded
             f == [s \in R |-> book[s].usage[k]]
  <2>1. \A s \in R : f[s] \in Nat
    BY RecordUsageType
  <2>2. DOMAIN f = R /\ R \subseteq Sessions
    OBVIOUS
  <2>3. RecordedUsage(S)[k] = SumFunction(f)
    BY DEF RecordedUsage
  <2> HIDE DEF f, R
  <2> QED BY <2>1, <2>2, <2>3, SumNumber
<1>2. ASSUME NEW S \in SUBSET Sessions, NEW k \in Keys PROVE LostUsage(S)[k] \in Nat
  <2> DEFINE f == [s \in S |-> TailUsage(s, k)]
  <2>1. \A s \in S : f[s] \in Nat
    BY TailUsageType
  <2>2. DOMAIN f = S
    OBVIOUS
  <2>3. LostUsage(S)[k] = SumFunction(f)
    BY DEF LostUsage
  <2> HIDE DEF f
  <2> QED BY <2>1, <2>2, <2>3, SumNumber
<1>3. InTail \in SUBSET Sessions /\ Unrecorded \in SUBSET Sessions /\ Sessions \in SUBSET Sessions
  BY DEF InTail, Unrecorded
<1>4. \A k \in Keys : SavedUsage[k] \in Nat
  BY DEF TypeFiles, Summary, Usage, SavedUsage
<1>5. ASSUME NEW k \in Keys
      PROVE  SavedUsage[k] + RecordedUsage(InTail)[k] + LostUsage(Unrecorded)[k] \in Nat
  BY <1>1, <1>2, <1>3, <1>4
<1>6. Reconciled \in Usage
  BY <1>5 DEF Reconciled, Usage
<1>7. ReconciledWithoutJournal \in Usage
  BY <1>1, <1>3, <1>4 DEF ReconciledWithoutJournal, Usage
<1> QED BY <1>6, <1>7

\* After a journal error the session ends, or the turn asks again from its
\* first attempt.
LEMMA ErrorEffect ==
  ASSUME JournalErrorRaised, TypeProcess
  PROVE  /\ pc' \in {"request", "ending"} /\ (pc' = "request" => attempt' = 0)
         /\ choice' \in {"auto", "required", "refused"}
         /\ attempt' \in {attempt, 0} /\ outcome' \in {outcome, "interrupted"}
BY DEF JournalErrorRaised, AskAgain, NotRefused, EndSession, TypeProcess

LEMMA TypeTurn ==
  ASSUME TypeInv, IInv, UNCHANGED caps, Turn \/ ToolCall
  PROVE  TypeInv'
<1> USE BoundTypes DEF TypeInv
<1>0. pc \in InNode /\ session \in Sessions
  BY DEF Turn, ToolCall, InNode, InSession, IInv, NumberInv
<1>1. /\ tail' = tail \/ Journaled("turns") \/ Journaled("calls")
      /\ total' \in {total, Bump(total, "turns"), Bump(total, "calls")}
      /\ own' \in {own, Bump(own, "turns"), Bump(own, "calls")}
      /\ spent' \in {spent, Bump(spent, "turns"), Bump(spent, "calls")}
      /\ UNCHANGED <<journal, marked, book, checkpointed, summary, known, complete, session,
                     choice, lost, forgotten>>
      /\ pc' \in {"request", "ending", "calls", "finalize"}
      /\ attempt' \in {attempt, 0} /\ (pc' = "request" => attempt' = 0)
      /\ outcome' \in {outcome, "interrupted", "committed"}
      /\ gap' \in {gap, TRUE} /\ blurred' \in {blurred, TRUE} /\ broken' \in {broken, TRUE}
  BY DEF Turn, ToolCall, JournalFails, EndSession
<1>2. batch' \in 0..MaxBatch
  BY DEF Turn, ToolCall, TypeProcess
<1>3. TypeFiles'
  <2>1. tail' \in [Sessions -> Entry]
    BY <1>0, <1>1, JournaledEntry DEF TypeFiles, Keys
  <2> QED BY <1>1, <2>1 DEF TypeFiles
<1>4. TypeTotals'
  BY <1>1, UsageBump DEF TypeTotals, Keys
<1>5. TypeProcess'
  BY <1>1, <1>2 DEF TypeProcess, Live, InSession
<1>6. TypeGhosts'
  BY <1>1 DEF TypeGhosts
<1>7. AttemptInv'
  BY <1>1 DEF AttemptInv
<1> QED BY <1>3, <1>4, <1>5, <1>6, <1>7

LEMMA TypeSend ==
  ASSUME TypeInv, IInv, UNCHANGED caps, SendRequest
  PROVE  TypeInv'
<1> USE BoundTypes DEF TypeInv
<1>0. pc \in InNode /\ session \in Sessions /\ pc = "request"
  BY DEF SendRequest, InNode, InSession, IInv, NumberInv
<1>1. UNCHANGED <<journal, marked, book, checkpointed, summary, totals, session, own, batch,
                  spent, lost, forgotten>>
  BY DEF SendRequest
<1>2. CASE Journaled("open") /\ pc' = "sent" /\ attempt' = attempt + 1
             /\ UNCHANGED <<choice, outcome, disruptions, gap, blurred, broken>>
  <2>1. /\ tail' \in [Sessions -> Entry] /\ tail'[session].open = tail[session].open + 1
        /\ tail[session].open \in Nat
    <3>1. tail \in [Sessions -> Entry]
      BY DEF TypeFiles
    <3>2. Journaled("open") /\ "open" \in Keys \cup {"open"}
      BY <1>2
    <3>3. tail' \in [Sessions -> Entry] /\ tail'[session]["open"] = tail[session]["open"] + 1
      BY <1>0, <3>1, <3>2, JournaledEntry
    <3>4. tail[session] \in Entry
      BY <1>0, <3>1
    <3>5. tail[session].open \in Nat
      BY <3>4 DEF Entry
    <3> QED BY <3>3, <3>5
  <2>2. TypeFiles' /\ TypeTotals' /\ TypeGhosts'
    BY <1>1, <1>2, <2>1 DEF TypeFiles, TypeTotals, TypeGhosts, totals
  <2>3. attempt' \in 0..MaxAttempts
    BY <1>0, <1>2 DEF AttemptInv, TypeProcess
  <2>4. TypeProcess' /\ AttemptInv'
    BY <1>1, <1>2, <2>1, <2>3 DEF TypeProcess, AttemptInv, totals, Live, InSession
  <2> QED BY <2>2, <2>4
<1>3. CASE JournalFails /\ JournalErrorRaised /\ UNCHANGED gap
  <2>1. TypeFiles' /\ TypeTotals' /\ TypeGhosts'
    BY <1>1, <1>3 DEF JournalFails, TypeFiles, TypeTotals, TypeGhosts, totals
  <2>2. TypeProcess' /\ AttemptInv'
    BY <1>1, <1>3, ErrorEffect DEF TypeProcess, AttemptInv, totals, Live, InSession
  <2> QED BY <2>1, <2>2
<1> QED BY <1>2, <1>3 DEF SendRequest

\* What the answers to a request have in common.
LEMMA ReplyEffect ==
  ASSUME Reply, TypeProcess
  PROVE  /\ pc = "sent"
         /\ UNCHANGED <<journal, marked, book, checkpointed, summary, known, complete, session,
                        lost, gap, forgotten>>
         /\ UNCHANGED tail \/ JournalRejected \/ \E k \in Keys : JournalEnd(k)
         /\ UNCHANGED total \/ \E k \in Keys : total' = Bump(total, k)
         /\ UNCHANGED own \/ \E k \in Keys : own' = Bump(own, k)
         /\ UNCHANGED spent \/ \E k \in Keys : spent' = Bump(spent, k)
         /\ pc' \in {"request", "calls", "ending"}
         /\ attempt' \in {attempt, 0}
         /\ pc' = "request" => attempt' = 0 \/ (attempt' = attempt /\ attempt < MaxAttempts)
         /\ choice' \in {"auto", "required", "refused"}
         /\ batch' = batch \/ batch' \in 0..MaxBatch
         /\ outcome' \in {outcome, "interrupted", "failed"}
         /\ blurred' \in {blurred, TRUE} /\ broken' \in {broken, TRUE}
<1> USE DEF Keys, EndSession, AwaitingReply, AskAgain, NotRefused
<1>1. /\ pc = "sent"
      /\ UNCHANGED <<journal, marked, book, checkpointed, summary, known, complete, session,
                     lost, gap, forgotten>>
  BY DEF Reply, Priced, Unpriced, Retryable, Uncertain, Abandoned
<1>2. choice \in {"auto", "required", "refused"}
  BY DEF TypeProcess
<1>3. ASSUME NEW k \in Keys, Respond(k)
      PROVE  /\ tail' = tail \/ JournalEnd(k)
             /\ total' = total \/ total' = Bump(total, k)
             /\ own' = Bump(own, k) /\ spent' = Bump(spent, k)
             /\ pc' \in {"request", "calls", "ending"}
             /\ attempt' \in {attempt, 0} /\ (pc' = "request" => attempt' = 0)
             /\ choice' \in {"auto", "required", "refused"}
             /\ batch' = batch \/ batch' \in 0..MaxBatch
             /\ outcome' \in {outcome, "interrupted", "failed"}
             /\ blurred' \in {blurred, TRUE} /\ broken' \in {broken, TRUE}
  <2>1. own' = Bump(own, k) /\ spent' = Bump(spent, k)
    BY <1>3 DEF Respond
  <2>2. CASE JournalFails /\ JournalErrorRaised /\ UNCHANGED <<total, batch>>
    BY <2>1, <2>2, ErrorEffect DEF JournalFails
  <2>3. CASE ~(JournalFails /\ JournalErrorRaised /\ UNCHANGED <<total, batch>>)
    BY <1>2, <1>3, <2>1, <2>3 DEF Respond
  <2> QED BY <2>2, <2>3
<1>4. CASE Priced \/ Unpriced
  BY <1>1, <1>3, <1>4 DEF Priced, Unpriced
<1>5. CASE Retryable
  BY <1>1, <1>2, <1>5, ErrorEffect DEF Retryable, JournalFails, AttemptsLeft
<1>6. CASE Uncertain
  BY <1>1, <1>2, <1>6, ErrorEffect DEF Uncertain, JournalFails
<1>7. CASE Abandoned
  BY <1>1, <1>2, <1>7, ErrorEffect DEF Abandoned, JournalFails
<1> QED BY <1>4, <1>5, <1>6, <1>7 DEF Reply

LEMMA TypeReply ==
  ASSUME TypeInv, IInv, UNCHANGED caps, Reply
  PROVE  TypeInv'
<1> USE BoundTypes DEF TypeInv
<1>0. session \in Sessions /\ tail[session].open >= 1
  BY ReplyEffect DEF AttemptInv, InNode, InSession, IInv, NumberInv
<1>1. tail' \in [Sessions -> Entry]
  BY <1>0, ReplyEffect, RejectedEntry, EndedEntry DEF TypeFiles
<1>2. TypeFiles'
  BY <1>1, ReplyEffect DEF TypeFiles
<1>3. TypeTotals'
  BY ReplyEffect, UsageBump DEF TypeTotals
<1>4. /\ UNCHANGED <<known, complete, session>> /\ pc' \in {"request", "calls", "ending"}
      /\ attempt' \in {attempt, 0}
      /\ pc' = "request" => attempt' = 0 \/ (attempt' = attempt /\ attempt < MaxAttempts)
      /\ choice' \in {"auto", "required", "refused"} /\ batch' \in {batch} \cup 0..MaxBatch
      /\ outcome' \in {outcome, "interrupted", "failed"}
  BY ReplyEffect
<1>5. TypeProcess'
  BY <1>4 DEF TypeProcess, Live, InSession
<1>6. TypeGhosts'
  BY ReplyEffect DEF TypeGhosts
<1>7. AttemptInv'
  BY <1>4 DEF AttemptInv, TypeProcess
<1> QED BY <1>2, <1>3, <1>5, <1>6, <1>7

LEMMA TypeResume ==
  ASSUME TypeInv, UNCHANGED caps, Resume
  PROVE  TypeInv'
<1> USE BoundTypes DEF TypeInv
<1>1. /\ pc' = "idle" /\ journal' = TRUE /\ broken' = FALSE
      /\ UNCHANGED <<marked, tail, book, summary, session, own, attempt, choice, batch, outcome,
                     spent, lost, gap, blurred, forgotten>>
  BY DEF Resume, node
<1>2. checkpointed' \subseteq Sessions
  BY DEF Resume, TypeFiles, Recorded
<1>3. total' \in Usage /\ known' \in BOOLEAN /\ complete' \in BOOLEAN
  <2>1. Certified(checkpointed') \in BOOLEAN /\ SavedKnown \in BOOLEAN
          /\ SavedComplete \in BOOLEAN
    <3>1. marked \in BOOLEAN /\ summary \in Summary
      BY DEF TypeFiles
    <3> QED BY <3>1 DEF Certified, SavedKnown, SavedComplete, Summary
  <2> QED BY <2>1, RestoredTypes DEF Resume
<1>4. TypeFiles' /\ TypeTotals' /\ TypeGhosts'
  BY <1>1, <1>2, <1>3 DEF TypeFiles, TypeTotals, TypeGhosts
<1>5. TypeProcess' /\ AttemptInv'
  BY <1>1, <1>3 DEF TypeProcess, AttemptInv, Live
<1> QED BY <1>4, <1>5

LEMMA TypeBegin ==
  ASSUME TypeInv, UNCHANGED caps, BeginSession
  PROVE  TypeInv'
<1> USE BoundTypes DEF TypeInv
<1>1. /\ pc' = "turn" /\ session' = session + 1 /\ session < MaxSessions
      /\ UNCHANGED <<journal, marked, tail, book, checkpointed, summary, total, known, complete,
                     own, attempt, choice, batch, outcome, spent, lost, gap, blurred, broken,
                     forgotten>>
  BY DEF BeginSession, files, totals, ghosts
<1>2. TypeFiles' /\ TypeTotals' /\ TypeGhosts'
  BY <1>1 DEF TypeFiles, TypeTotals, TypeGhosts
<1>3. TypeProcess' /\ AttemptInv'
  BY <1>1 DEF TypeProcess, AttemptInv, Live, InSession
<1> QED BY <1>2, <1>3

\* What a session leaves in memory.
LEMMA OverType ==
  ASSUME SessionOver
  PROVE  own' \in Usage /\ attempt' = 0 /\ choice' = "auto" /\ batch' = 0 /\ outcome' = "none"
         /\ session' = session
BY ZeroType DEF SessionOver

LEMMA TypeRecord ==
  ASSUME TypeInv, IInv, UNCHANGED caps, Fail \/ Finalize
  PROVE  TypeInv'
<1> USE BoundTypes DEF TypeInv
<1>0. session \in Sessions
  BY DEF Fail, Finalize, InNode, IInv, NumberInv
<1>1. /\ pc' \in {"idle", "closing", "save"} /\ SessionOver
      /\ book' = book \/ \E done \in BOOLEAN : WriteTrajectory(done)
      /\ UNCHANGED <<journal, marked, tail, checkpointed, summary, totals, ghosts>>
  BY DEF Fail, Finalize
<1>2. book' \in [Sessions -> Trajectory \cup {NoRecord}]
  <2>1. \A done \in BOOLEAN : [usage |-> own, completed |-> done] \in Trajectory
    BY DEF TypeTotals, Trajectory
  <2> QED BY <1>0, <1>1, <2>1 DEF TypeFiles, WriteTrajectory
<1>3. TypeFiles' /\ TypeTotals' /\ TypeGhosts'
  BY <1>1, <1>2, OverType DEF TypeFiles, TypeTotals, TypeGhosts, totals, ghosts
<1>4. TypeProcess' /\ AttemptInv'
  BY <1>0, <1>1, OverType DEF TypeProcess, AttemptInv, totals, Live
<1> QED BY <1>3, <1>4

LEMMA TypeSummary ==
  ASSUME TypeInv, UNCHANGED caps, WriteSummary \/ WriteMarker
  PROVE  TypeInv'
<1> USE BoundTypes DEF TypeInv
<1>1. CASE WriteSummary
  <2>1. summary' \in Summary
    BY <1>1 DEF WriteSummary, Summary, TypeTotals, TypeProcess
  <2>2. /\ pc' = "marking"
        /\ UNCHANGED <<journal, marked, tail, book, checkpointed, totals, node, ghosts>>
    BY <1>1 DEF WriteSummary
  <2> QED BY <2>1, <2>2 DEF TypeFiles, TypeTotals, TypeProcess, TypeGhosts, AttemptInv, totals,
              node, ghosts, Live
<1>2. CASE WriteMarker
  <2>1. tail' \in [Sessions -> Entry] /\ total' \in Usage
    BY <1>2, BlankType, ZeroType DEF WriteMarker, ProcessOver
  <2>2. /\ pc' = "down" /\ known' = TRUE /\ complete' = TRUE /\ marked' = TRUE
        /\ UNCHANGED <<journal, book, checkpointed, summary, node, ghosts>>
    BY <1>2 DEF WriteMarker, ProcessOver
  <2> QED BY <2>1, <2>2 DEF TypeFiles, TypeTotals, TypeProcess, TypeGhosts, AttemptInv, node,
              ghosts
<1> QED BY <1>1, <1>2

LEMMA TypeCrash ==
  ASSUME TypeInv, UNCHANGED caps, Crash
  PROVE  TypeInv'
<1> USE BoundTypes DEF TypeInv
<1>1. /\ SessionOver /\ pc' = "down" /\ total' = Zero /\ known' = TRUE /\ complete' = TRUE
      /\ lost' \in {lost, lost \cup Unrecorded} /\ forgotten' \in BOOLEAN /\ gap' \in BOOLEAN
      /\ spent' \in {spent, Bump(spent, "unknown")}
      /\ UNCHANGED <<files, blurred, broken>>
  BY DEF Crash, ProcessOver, TypeGhosts, TypeProcess
<1>2. TypeFiles' /\ TypeTotals'
  <2>1. spent' \in Usage
    BY <1>1, UsageBump DEF TypeTotals, Keys
  <2> QED BY <1>1, <2>1, OverType, ZeroType DEF TypeFiles, TypeTotals, files
<1>3. TypeGhosts'
  BY <1>1 DEF TypeGhosts, Unrecorded, InTail
<1>4. TypeProcess' /\ AttemptInv'
  BY <1>1, OverType DEF TypeProcess, AttemptInv
<1> QED BY <1>2, <1>3, <1>4

LEMMA TypeVanish ==
  ASSUME TypeInv, UNCHANGED caps, Vanish
  PROVE  TypeInv'
<1> USE BoundTypes DEF TypeInv
<1>1. /\ pc = "down" /\ UNCHANGED <<checkpointed, pc, totals, node, spent, lost, gap, blurred,
                                    broken>>
  BY DEF Vanish
<1>2. /\ tail' \in {tail, [s \in Sessions |-> Blank]}
      /\ book' \in {book, [s \in Sessions |-> NoRecord]}
      /\ summary' \in {summary, NoSummary}
      /\ journal' \in {journal, FALSE} /\ marked' \in {marked, FALSE}
      /\ forgotten' \in {forgotten, forgotten \/ ~SavedKnown}
  BY DEF Vanish
<1>3. TypeFiles'
  <2>1. NoSummary \in Summary
    BY ZeroType DEF NoSummary, Summary
  <2> QED BY <1>1, <1>2, <2>1, BlankType DEF TypeFiles
<1>4. TypeTotals' /\ TypeProcess' /\ AttemptInv'
  BY <1>1 DEF TypeTotals, TypeProcess, AttemptInv, totals, node
<1>5. TypeGhosts'
  BY <1>1, <1>2 DEF TypeGhosts
<1> QED BY <1>3, <1>4, <1>5

LEMMA TypeStep == TypeInv /\ IInv /\ [Next]_vars => TypeInv'
<1>1. TypeInv /\ UNCHANGED vars => TypeInv'
  BY DEF vars, files, totals, node, ghosts, TypeInv, TypeFiles, TypeTotals, TypeProcess,
         TypeGhosts, AttemptInv
<1>2. TypeInv /\ IInv /\ Next => TypeInv'
  BY TypeQuiet, TypeTurn, TypeSend, TypeReply, TypeResume, TypeBegin, TypeRecord, TypeSummary,
     TypeCrash, TypeVanish DEF Next
<1> QED BY <1>1, <1>2

\* Every variable of the accounting stays in its domain, whatever the bounds.
THEOREM TypeCorrect == Spec => []TypeOK
<1>1. Init => TypeInv /\ IInv
  BY TypeInit, InitInv
<1>2. TypeInv /\ IInv /\ [Next]_vars => (TypeInv /\ IInv)'
  BY TypeStep, NextInv
<1>3. TypeInv => TypeOK
  BY DEF TypeInv, TypeFiles, TypeTotals, TypeProcess, TypeGhosts, TypeOK
<1> QED BY <1>1, <1>2, <1>3, PTL DEF Spec

-----------------------------------------------------------------------------
(* What is counted *)

Effort == {"turns", "calls"}

\* What the journal holds of all sessions after the last marker ...
InTheJournal(k) == SumFunctionOnSet([s \in Sessions |-> TailUsage(s, k)], Sessions)

\* ... and a request that is on its way, which the journal holds already.
InFlight(k) == IF pc = "sent" /\ k = "unknown" THEN 1 ELSE 0

\* Would a process that read the files now trust their totals?
Believed ==
  /\ journal /\ summary.known
  /\ marked => summary.exists
  /\ pc \in Live => known

\* A session in hand has no trajectory yet, and memory holds no other one.
SessionInv ==
  /\ pc \notin InNode => own = Zero
  /\ \A s \in Sessions : s > session => book[s] = NoRecord
  /\ pc \in InNode => book[session] = NoRecord

\* A trajectory, or what the session in hand will write in it, does not fall
\* short of what the journal holds of that session ...
OwnCounts(k) ==
  /\ \A s \in Recorded : book[s].usage[k] >= TailUsage(s, k)
  /\ pc \in InNode => own[k] + InFlight(k) >= TailUsage(session, k)
OwnExact(k) ==
  /\ \A s \in InTail \cap Recorded : book[s].usage[k] = TailUsage(s, k)
  /\ pc \in InNode => own[k] = TailUsage(session, k)

\* ... the process counts all that was consumed ...
MemoryCounts(k) == pc \in Live /\ known => total[k] >= spent[k]
MemoryExact(k) == pc \in Live /\ known => total[k] = spent[k]

\* ... and so do the files, the journal alone as long as it has no marker.
FilesCount(k) == Believed =>
  /\ summary.usage[k] + InTheJournal(k) >= spent[k] + InFlight(k)
  /\ ~marked => InTheJournal(k) >= spent[k] + InFlight(k)
FilesExact(k) ==
  Believed /\ pc # "marking" => summary.usage[k] + InTheJournal(k) = spent[k]

Counts(k) == OwnCounts(k) /\ MemoryCounts(k) /\ FilesCount(k)
Exact(k) == OwnExact(k) /\ MemoryExact(k) /\ FilesExact(k)

CountInv ==
  ~forgotten => \A k \in Keys :
    /\ k \in Effort \/ ~blurred => Counts(k)
    /\ k \in Effort /\ ~gap => Exact(k)

FreshInv ==
  pc = "new" =>
    /\ total = Zero /\ spent = Zero /\ summary = NoSummary
    /\ ~journal /\ ~marked /\ \A s \in Sessions : tail[s] = Blank /\ book[s] = NoRecord

MarkingInv == pc = "marking" => summary.usage = total

\* A turn is only begun, and a request only sent, below the caps.
HistoryAllowed == pc \in {"request", "sent", "calls"} => ~HistoryRefused

EffortCapped ==
  ~forgotten => \A k \in Effort : caps[k] # NoCap => spent[k] <= caps[k]

CostCapped ==
  ~forgotten /\ ~blurred /\ caps.cost # NoCap =>
    IF pc = "sent" THEN spent["cost"] < caps.cost /\ spent["unknown"] = 0
    ELSE spent["cost"] <= caps.cost /\ spent["unknown"] <= 1

CapInv == HistoryAllowed /\ EffortCapped /\ CostCapped

AccountInv == SessionInv /\ CountInv /\ FreshInv /\ MarkingInv /\ CapInv

LEMMA Numbers ==
  ASSUME TypeInv, NEW k \in Keys
  PROVE  /\ total[k] \in Nat /\ own[k] \in Nat /\ spent[k] \in Nat
         /\ summary.usage[k] \in Nat /\ InFlight(k) \in Nat /\ InTheJournal(k) \in Nat
         /\ \A s \in Sessions : TailUsage(s, k) \in Nat
         /\ \A s \in Recorded : book[s].usage[k] \in Nat
<1>1. \A s \in Sessions : TailUsage(s, k) \in Nat
  BY TailUsageType DEF TypeInv
<1>2. InTheJournal(k) \in Nat
  BY <1>1, BoundTypes, SumType DEF InTheJournal
<1>3. total[k] \in Nat /\ own[k] \in Nat /\ spent[k] \in Nat /\ summary.usage[k] \in Nat
  BY DEF TypeInv, TypeTotals, TypeFiles, Summary, Usage
<1>4. InFlight(k) \in Nat
  BY DEF InFlight
<1> QED BY <1>1, <1>2, <1>3, <1>4, RecordUsageType DEF TypeInv

\* The journal changes by what the entry of one session does.
LEMMA JournalChange ==
  ASSUME TypeInv, TypeInv', NEW x \in Sessions, NEW k \in Keys,
         \A s \in Sessions : s # x => tail'[s] = tail[s]
  PROVE  /\ InTheJournal(k)' \in Nat /\ TailUsage(x, k)' \in Nat
         /\ InTheJournal(k)' + TailUsage(x, k) = InTheJournal(k) + TailUsage(x, k)'
<1> DEFINE f == [s \in Sessions |-> TailUsage(s, k)]
           g == [s \in Sessions |-> TailUsage(s, k)']
<1>1. \A s \in Sessions : f[s] \in Nat /\ f[s] = TailUsage(s, k)
  BY Numbers
<1>2. \A s \in Sessions : g[s] \in Nat /\ g[s] = TailUsage(s, k)'
  BY DEF TypeInv, TypeFiles, TailUsage, Entry
<1>3. \A s \in Sessions : s # x => g[s] = f[s]
  BY DEF TailUsage
<1>4. InTheJournal(k) = SumFunctionOnSet(f, Sessions)
      /\ InTheJournal(k)' = SumFunctionOnSet(g, Sessions)
  BY DEF InTheJournal
<1> HIDE DEF f, g
<1>5. SumFunctionOnSet(g, Sessions) + f[x] = SumFunctionOnSet(f, Sessions) + g[x]
  <2>1. \A s \in Sessions : f[s] \in Nat /\ g[s] \in Nat /\ (s # x => g[s] = f[s])
    BY <1>1, <1>2, <1>3
  <2>2. IsFiniteSet(Sessions)
    BY BoundTypes
  <2> QED BY <2>1, <2>2, SumChange
<1>6. SumFunctionOnSet(g, Sessions) \in Nat
  BY <1>2, BoundTypes, SumType
<1> QED BY <1>1, <1>2, <1>4, <1>5, <1>6

LEMMA JournalBlank ==
  ASSUME NEW k \in Keys, \A s \in Sessions : tail[s] = Blank
  PROVE  InTheJournal(k) = 0
<1> DEFINE f == [s \in Sessions |-> TailUsage(s, k)]
<1>1. \A s \in Sessions : f[s] = 0
  BY BlankType DEF TailUsage
<1>2. InTheJournal(k) = SumFunctionOnSet(f, Sessions)
  BY DEF InTheJournal
<1> HIDE DEF f
<1> QED BY <1>1, <1>2, BoundTypes, SumZero

LEMMA JournalBlanked ==
  ASSUME NEW k \in Keys, tail' = [s \in Sessions |-> Blank]
  PROVE  InTheJournal(k)' = 0 /\ \A s \in Sessions : TailUsage(s, k)' = 0
<1> DEFINE f == [s \in Sessions |-> TailUsage(s, k)']
<1>1. \A s \in Sessions : f[s] = 0 /\ TailUsage(s, k)' = 0
  BY BlankType DEF TailUsage
<1>2. InTheJournal(k)' = SumFunctionOnSet(f, Sessions)
  BY DEF InTheJournal
<1> HIDE DEF f
<1> QED BY <1>1, <1>2, BoundTypes, SumZero

-----------------------------------------------------------------------------
(* The steps of a session *)

\* What a step of the session s in hand does to what is counted of k: nothing
\* consumed is missed ...
Grows(s, k) ==
  /\ own'[k] + InFlight(k)' + TailUsage(s, k) >= own[k] + InFlight(k) + TailUsage(s, k)'
  /\ total'[k] + spent[k] >= total[k] + spent'[k]
  /\ TailUsage(s, k)' + spent[k] + InFlight(k) >= TailUsage(s, k) + spent'[k] + InFlight(k)'

\* ... or nothing is counted twice either.
Keeps(s, k) ==
  /\ own'[k] + TailUsage(s, k) = own[k] + TailUsage(s, k)'
  /\ total'[k] + spent[k] = total[k] + spent'[k]
  /\ TailUsage(s, k)' + spent[k] = TailUsage(s, k) + spent'[k]

\* A step that leaves all entries but one, and the trajectories.
LEMMA OwnFrame ==
  ASSUME TypeInv, TypeInv', IInv, SessionInv, OwnStep, pc' \in InNode, book' = book
  PROVE  /\ session \in Sessions /\ session' = session /\ session \notin Recorded
         /\ pc \in Live /\ pc' \in Live /\ pc # "marking" /\ pc' # "marking"
         /\ Recorded' = Recorded /\ Believed' = Believed
         /\ \A s \in Sessions : s # session => tail'[s] = tail[s]
<1>1. session \in Sessions /\ session \notin Recorded /\ pc \in Live /\ pc' \in Live
      /\ pc # "marking" /\ pc' # "marking"
  BY DEF IInv, NumberInv, SessionInv, OwnStep, InNode, InSession, Live, Recorded
<1>2. Recorded' = Recorded
  BY DEF Recorded
<1>3. /\ session' = session /\ known' = known /\ journal' = journal /\ marked' = marked
      /\ summary' = summary
  BY DEF OwnStep
<1>4. Believed' = Believed
  BY <1>1, <1>3 DEF Believed
<1>5. \A s \in Sessions : s # session => tail'[s] = tail[s]
  BY OwnTail DEF OwnStep, TypeInv, TypeFiles
<1> QED BY <1>1, <1>2, <1>3, <1>4, <1>5

LEMMA GrowsCounts ==
  ASSUME TypeInv, TypeInv', IInv, SessionInv, OwnStep, pc' \in InNode, book' = book,
         NEW s \in Sessions, s = session, NEW k \in Keys, Grows(s, k), Counts(k)
  PROVE  Counts(k)'
<1>1. /\ session' = s /\ s \notin Recorded
      /\ pc \in Live /\ pc' \in Live /\ Recorded' = Recorded /\ Believed' = Believed
      /\ \A r \in Sessions : r # s => tail'[r] = tail[r]
  BY OwnFrame
<1>2. /\ total[k] \in Nat /\ own[k] \in Nat /\ spent[k] \in Nat /\ summary.usage[k] \in Nat
      /\ InFlight(k) \in Nat /\ InTheJournal(k) \in Nat /\ TailUsage(s, k) \in Nat
  BY Numbers
<1>3. total'[k] \in Nat /\ own'[k] \in Nat /\ spent'[k] \in Nat /\ InFlight(k)' \in Nat
  BY DEF TypeInv, TypeTotals, Usage, InFlight
<1>4. /\ InTheJournal(k)' \in Nat /\ TailUsage(s, k)' \in Nat
      /\ InTheJournal(k)' + TailUsage(s, k) = InTheJournal(k) + TailUsage(s, k)'
  BY <1>1, JournalChange
<1>5. UNCHANGED <<known, marked, summary>>
  BY DEF OwnStep
<1>6. OwnCounts(k)'
  <2>1. own'[k] + InFlight(k)' >= TailUsage(s, k)'
    <3>1. own[k] + InFlight(k) >= TailUsage(s, k)
      BY DEF Counts, OwnCounts, OwnStep
    <3> QED BY <1>2, <1>3, <1>4, <3>1 DEF Grows
  <2>2. \A r \in Recorded : book'[r].usage[k] >= TailUsage(r, k)'
    <3> SUFFICES ASSUME NEW r \in Recorded PROVE book'[r].usage[k] >= TailUsage(r, k)'
      OBVIOUS
    <3>1. tail'[r] = tail[r]
      BY <1>1 DEF Recorded
    <3>2. TailUsage(r, k)' = TailUsage(r, k)
      BY <3>1 DEF TailUsage
    <3> QED BY <3>2 DEF Counts, OwnCounts
  <2>3. TailUsage(session, k)' = TailUsage(s, k)'
    BY <1>1 DEF TailUsage
  <2> QED BY <1>1, <2>1, <2>2, <2>3 DEF OwnCounts
<1>7. MemoryCounts(k)'
  BY <1>1, <1>2, <1>3, <1>5 DEF Counts, MemoryCounts, Grows
<1>8. FilesCount(k)'
  BY <1>1, <1>2, <1>3, <1>4, <1>5 DEF Counts, FilesCount, Grows
<1> QED BY <1>6, <1>7, <1>8 DEF Counts

LEMMA KeepsExact ==
  ASSUME TypeInv, TypeInv', IInv, SessionInv, OwnStep, pc' \in InNode, book' = book,
         NEW s \in Sessions, s = session, NEW k \in Keys, Keeps(s, k), Exact(k)
  PROVE  Exact(k)'
<1>1. /\ session' = s /\ s \notin Recorded /\ pc # "marking" /\ pc' # "marking"
      /\ pc \in Live /\ pc' \in Live /\ Recorded' = Recorded /\ Believed' = Believed
      /\ \A r \in Sessions : r # s => tail'[r] = tail[r]
  BY OwnFrame
<1>2. /\ total[k] \in Nat /\ own[k] \in Nat /\ spent[k] \in Nat /\ summary.usage[k] \in Nat
      /\ InTheJournal(k) \in Nat /\ TailUsage(s, k) \in Nat
  BY Numbers
<1>3. total'[k] \in Nat /\ own'[k] \in Nat /\ spent'[k] \in Nat
  BY DEF TypeInv, TypeTotals, Usage
<1>4. /\ InTheJournal(k)' \in Nat /\ TailUsage(s, k)' \in Nat
      /\ InTheJournal(k)' + TailUsage(s, k) = InTheJournal(k) + TailUsage(s, k)'
  BY <1>1, JournalChange
<1>5. UNCHANGED <<known, marked, summary>>
  BY DEF OwnStep
<1>6. OwnExact(k)'
  <2>1. own'[k] = TailUsage(s, k)'
    <3>1. own[k] = TailUsage(s, k)
      BY DEF Exact, OwnExact, OwnStep
    <3> QED BY <1>2, <1>3, <1>4, <3>1 DEF Keeps
  <2>2. \A r \in (InTail \cap Recorded)' : book'[r].usage[k] = TailUsage(r, k)'
    <3> SUFFICES ASSUME NEW r \in Recorded, r \in InTail'
                 PROVE  book'[r].usage[k] = TailUsage(r, k)'
      BY <1>1
    <3>1. tail'[r] = tail[r]
      BY <1>1 DEF Recorded
    <3>2. TailUsage(r, k)' = TailUsage(r, k)
      BY <3>1 DEF TailUsage
    <3>3. r \in InTail
      BY <3>1 DEF InTail
    <3> QED BY <3>2, <3>3 DEF Exact, OwnExact
  <2>3. TailUsage(session, k)' = TailUsage(s, k)'
    BY <1>1 DEF TailUsage
  <2> QED BY <1>1, <2>1, <2>2, <2>3 DEF OwnExact
<1>7. MemoryExact(k)'
  BY <1>1, <1>2, <1>3, <1>5 DEF Exact, MemoryExact, Keeps
<1>8. FilesExact(k)'
  BY <1>1, <1>2, <1>3, <1>4, <1>5 DEF Exact, FilesExact, Keeps
<1> QED BY <1>6, <1>7, <1>8 DEF Exact

\* What a journal write adds to the recovered usage of its session.
LEMMA WrittenUsage ==
  ASSUME TypeFiles, NEW s \in Sessions, s = session, NEW k \in Keys
  PROVE  /\ TailUsage(s, k) \in Nat
         /\ tail' = tail => TailUsage(s, k)' = TailUsage(s, k)
         /\ \A i \in Keys : Journaled(i) =>
              TailUsage(s, k)' = TailUsage(s, k) + (IF k = i THEN 1 ELSE 0)
         /\ Journaled("open") =>
              TailUsage(s, k)' = TailUsage(s, k) + (IF k = "unknown" THEN 1 ELSE 0)
<1>1. TailUsage(s, k) \in Nat /\ tail[s] \in Entry
  BY TailUsageType DEF TypeFiles
<1>2. tail[s][k] \in Nat /\ tail[s].open \in Nat /\ "open" \notin Keys
  BY <1>1 DEF Entry, Keys
<1>3. ASSUME NEW i \in Keys, Journaled(i)
      PROVE  TailUsage(s, k)' = TailUsage(s, k) + (IF k = i THEN 1 ELSE 0)
  <2>1. /\ tail'[s][i] = tail[s][i] + 1 /\ tail'[s].open = tail[s].open
        /\ \A j \in Keys : j # i => tail'[s][j] = tail[s][j]
    BY <1>2, <1>3, JournaledEntry DEF TypeFiles
  <2> QED BY <1>2, <2>1 DEF TailUsage
<1>4. ASSUME Journaled("open")
      PROVE  TailUsage(s, k)' = TailUsage(s, k) + (IF k = "unknown" THEN 1 ELSE 0)
  <2>1. tail'[s].open = tail[s].open + 1 /\ tail'[s][k] = tail[s][k]
    BY <1>2, <1>4, JournaledEntry DEF TypeFiles
  <2> QED BY <1>2, <2>1 DEF TailUsage
<1>5. tail' = tail => TailUsage(s, k)' = TailUsage(s, k)
  BY DEF TailUsage
<1> QED BY <1>1, <1>3, <1>4, <1>5

\* A request whose end is journaled is no longer one of unknown cost.
LEMMA EndedUsage ==
  ASSUME TypeFiles, NEW s \in Sessions, s = session, NEW k \in Keys, tail[s].open >= 1
  PROVE  /\ JournalRejected =>
              TailUsage(s, k)' + (IF k = "unknown" THEN 1 ELSE 0) = TailUsage(s, k)
         /\ \A i \in Keys : JournalEnd(i) =>
              TailUsage(s, k)' + (IF k = "unknown" THEN 1 ELSE 0)
                = TailUsage(s, k) + (IF k = i THEN 1 ELSE 0)
         /\ TailUsage(s, k)' \in Nat \/ ~(JournalRejected \/ \E i \in Keys : JournalEnd(i))
<1>1. tail[s] \in Entry
  BY DEF TypeFiles
<1>2. tail[s][k] \in Nat /\ tail[s].open \in Nat /\ "open" \notin Keys
  BY <1>1 DEF Entry, Keys
<1>3. ASSUME JournalRejected
      PROVE  /\ TailUsage(s, k)' + (IF k = "unknown" THEN 1 ELSE 0) = TailUsage(s, k)
             /\ TailUsage(s, k)' \in Nat
  <2>1. tail'[s].open = tail[s].open - 1 /\ tail'[s][k] = tail[s][k]
    BY <1>3, RejectedEntry DEF TypeFiles
  <2> QED BY <1>2, <2>1 DEF TailUsage
<1>4. ASSUME NEW i \in Keys, JournalEnd(i)
      PROVE  /\ TailUsage(s, k)' + (IF k = "unknown" THEN 1 ELSE 0)
                  = TailUsage(s, k) + (IF k = i THEN 1 ELSE 0)
             /\ TailUsage(s, k)' \in Nat
  <2>1. /\ tail'[s].open = tail[s].open - 1 /\ tail'[s][i] = tail[s][i] + 1
        /\ \A j \in Keys : j # i => tail'[s][j] = tail[s][j]
    BY <1>4, EndedEntry DEF TypeFiles
  <2> QED BY <1>2, <2>1 DEF TailUsage
<1> QED BY <1>3, <1>4

LEMMA BumpedUsage ==
  ASSUME NEW u \in Usage, NEW i \in Keys, NEW k \in Keys
  PROVE  u[k] \in Nat /\ Bump(u, i)[k] = u[k] + (IF k = i THEN 1 ELSE 0)
BY UsageBump DEF Usage

\* Nothing is counted.
LEMMA QuietEffect ==
  ASSUME TypeInv, UNCHANGED <<tail, total, own, spent>>, pc # "sent", pc' # "sent",
         NEW s \in Sessions, s = session, NEW k \in Keys
  PROVE  Grows(s, k) /\ Keeps(s, k)
<1>1. total[k] \in Nat /\ own[k] \in Nat /\ spent[k] \in Nat /\ TailUsage(s, k) \in Nat
  BY Numbers
<1>2. InFlight(k) = 0 /\ InFlight(k)' = 0
  BY DEF InFlight
<1>3. TailUsage(s, k)' = TailUsage(s, k)
  BY DEF TailUsage
<1> QED BY <1>1, <1>2, <1>3 DEF Grows, Keeps

\* A turn or a tool call is counted, and journaled before it happens; when its
\* record fails it does not happen.
LEMMA CountedEffect ==
  ASSUME TypeInv, Turn \/ ToolCall, NEW s \in Sessions, s = session, NEW k \in Keys
  PROVE  Grows(s, k) /\ (~gap' => Keeps(s, k))
<1>1. total[k] \in Nat /\ own[k] \in Nat /\ spent[k] \in Nat /\ TailUsage(s, k) \in Nat
  BY Numbers
<1>2. TypeFiles /\ total \in Usage /\ own \in Usage /\ spent \in Usage
  BY DEF TypeInv, TypeTotals
<1>3. InFlight(k) = 0 /\ InFlight(k)' = 0
  BY DEF InFlight, Turn, ToolCall, EndSession
<1>4. ASSUME NEW i \in Keys, total' = Bump(total, i), own' = Bump(own, i), Journaled(i),
             spent' = Bump(spent, i)
      PROVE  Grows(s, k) /\ Keeps(s, k)
  <2>1. /\ TailUsage(s, k)' = TailUsage(s, k) + (IF k = i THEN 1 ELSE 0)
        /\ total'[k] = total[k] + (IF k = i THEN 1 ELSE 0)
        /\ own'[k] = own[k] + (IF k = i THEN 1 ELSE 0)
        /\ spent'[k] = spent[k] + (IF k = i THEN 1 ELSE 0)
    BY <1>2, <1>4, BumpedUsage, WrittenUsage
  <2> QED BY <1>1, <1>3, <2>1 DEF Grows, Keeps
<1>5. ASSUME NEW i \in Keys, total' = Bump(total, i), own' = Bump(own, i), tail' = tail,
             spent' = spent
      PROVE  Grows(s, k)
  <2>1. /\ TailUsage(s, k)' = TailUsage(s, k)
        /\ total'[k] = total[k] + (IF k = i THEN 1 ELSE 0)
        /\ own'[k] = own[k] + (IF k = i THEN 1 ELSE 0)
        /\ spent'[k] = spent[k]
    BY <1>2, <1>5, BumpedUsage, WrittenUsage
  <2> QED BY <1>1, <1>3, <2>1 DEF Grows
<1>6. CASE UNCHANGED <<tail, total, own, spent>>
  <2>1. pc # "sent" /\ pc' # "sent"
    BY DEF Turn, ToolCall, EndSession
  <2> QED BY <1>6, <2>1, QuietEffect
<1>7. CASE ~UNCHANGED <<tail, total, own, spent>>
  <2>1. \E i \in {"turns", "calls"} :
          /\ total' = Bump(total, i) /\ own' = Bump(own, i)
          /\ \/ Journaled(i) /\ spent' = Bump(spent, i)
             \/ tail' = tail /\ spent' = spent /\ gap' = TRUE
    BY <1>7 DEF Turn, ToolCall, JournalFails
  <2> QED BY <1>4, <1>5, <2>1 DEF Keys
<1> QED BY <1>6, <1>7

LEMMA SentEffect ==
  ASSUME TypeInv, SendRequest, NEW s \in Sessions, s = session, NEW k \in Keys
  PROVE  Grows(s, k) /\ (k \in Effort => Keeps(s, k))
<1>1. total[k] \in Nat /\ own[k] \in Nat /\ spent[k] \in Nat /\ TailUsage(s, k) \in Nat
  BY Numbers
<1>2. TypeFiles /\ pc = "request" /\ UNCHANGED <<total, own, spent>>
  BY DEF TypeInv, SendRequest, totals
<1>3. CASE Journaled("open") /\ pc' = "sent"
  <2>1. TailUsage(s, k)' = TailUsage(s, k) + (IF k = "unknown" THEN 1 ELSE 0)
    BY <1>2, <1>3, WrittenUsage
  <2>2. InFlight(k) = 0 /\ InFlight(k)' = IF k = "unknown" THEN 1 ELSE 0
    BY <1>2, <1>3 DEF InFlight
  <2> QED BY <1>1, <1>2, <2>1, <2>2 DEF Grows, Keeps, Effort
<1>4. CASE tail' = tail /\ JournalErrorRaised
  <2>1. pc' # "sent"
    BY <1>4 DEF JournalErrorRaised, AskAgain, EndSession
  <2> QED BY <1>2, <1>4, <2>1, QuietEffect
<1> QED BY <1>3, <1>4 DEF SendRequest, JournalFails

\* What the answers to a request count: the same in the journal, the session
\* and the totals, or else the request is blurred.
LEMMA ReplyCounts ==
  ASSUME Reply
  PROVE  /\ pc = "sent" /\ pc' # "sent"
         /\ \/ \E i \in {"cost", "unknown"} :
                 JournalEnd(i) /\ total' = Bump(total, i) /\ own' = Bump(own, i)
                   /\ spent' = Bump(spent, i)
            \/ JournalRejected /\ UNCHANGED <<total, own, spent>>
            \/ /\ blurred'
               /\ tail' = tail \/ JournalEnd("unknown")
               /\ total' = total \/ total' = Bump(total, "unknown")
               /\ own' = own \/ \E i \in {"cost", "unknown"} : own' = Bump(own, i)
               /\ spent' = spent \/ \E i \in {"cost", "unknown"} : spent' = Bump(spent, i)
<1> USE DEF EndSession, AwaitingReply, AskAgain, NotRefused, JournalErrorRaised, JournalFails
<1>1. pc = "sent"
  BY DEF Reply, Priced, Unpriced, Retryable, Uncertain, Abandoned
<1>2. ASSUME NEW k \in {"cost", "unknown"}, Respond(k)
      PROVE  /\ pc' # "sent" /\ own' = Bump(own, k) /\ spent' = Bump(spent, k)
             /\ \/ JournalEnd(k) /\ total' = Bump(total, k)
                \/ blurred' /\ tail' = tail /\ total' = total
  BY <1>2 DEF Respond
<1>3. CASE Priced \/ Unpriced
  <2>1. PICK k \in {"cost", "unknown"} : Respond(k)
    BY <1>3 DEF Priced, Unpriced
  <2> QED BY <1>1, <1>2, <2>1
<1>4. CASE Retryable
  BY <1>1, <1>4 DEF Retryable
<1>5. CASE Uncertain
  BY <1>1, <1>5 DEF Uncertain
<1>6. CASE Abandoned
  BY <1>1, <1>6 DEF Abandoned
<1> QED BY <1>3, <1>4, <1>5, <1>6 DEF Reply

LEMMA AnsweredEffect ==
  ASSUME TypeInv, Reply, NEW s \in Sessions, s = session, NEW k \in Keys,
         k \in Effort \/ ~blurred'
  PROVE  Grows(s, k) /\ (k \in Effort => Keeps(s, k))
<1>1. total[k] \in Nat /\ own[k] \in Nat /\ spent[k] \in Nat /\ TailUsage(s, k) \in Nat
  BY Numbers
<1>2. /\ TypeFiles /\ total \in Usage /\ own \in Usage /\ spent \in Usage
      /\ pc = "sent" /\ pc' # "sent" /\ tail[s].open >= 1
  BY ReplyCounts DEF TypeInv, TypeTotals, AttemptInv
<1>3. InFlight(k) = (IF k = "unknown" THEN 1 ELSE 0) /\ InFlight(k)' = 0
  BY <1>2 DEF InFlight
<1>4. ASSUME NEW i \in {"cost", "unknown"}, JournalEnd(i), total' = Bump(total, i),
             own' = Bump(own, i), spent' = Bump(spent, i)
      PROVE  Grows(s, k) /\ (k \in Effort => Keeps(s, k))
  <2>0. i \in Keys
    BY DEF Keys
  <2>1. /\ TailUsage(s, k)' + (IF k = "unknown" THEN 1 ELSE 0)
             = TailUsage(s, k) + (IF k = i THEN 1 ELSE 0)
        /\ TailUsage(s, k)' \in Nat
        /\ total'[k] = total[k] + (IF k = i THEN 1 ELSE 0)
        /\ own'[k] = own[k] + (IF k = i THEN 1 ELSE 0)
        /\ spent'[k] = spent[k] + (IF k = i THEN 1 ELSE 0)
    BY <1>2, <1>4, <2>0, BumpedUsage, EndedUsage
  <2> QED BY <1>1, <1>3, <2>1 DEF Grows, Keeps, Effort
<1>5. CASE JournalRejected /\ UNCHANGED <<total, own, spent>>
  <2>1. /\ TailUsage(s, k)' + (IF k = "unknown" THEN 1 ELSE 0) = TailUsage(s, k)
        /\ TailUsage(s, k)' \in Nat
    BY <1>2, <1>5, EndedUsage
  <2> QED BY <1>1, <1>3, <1>5, <2>1 DEF Grows, Keeps, Effort
<1>6. ASSUME k \in Effort,
             tail' = tail \/ JournalEnd("unknown"),
             total' = total \/ total' = Bump(total, "unknown"),
             own' = own \/ \E i \in {"cost", "unknown"} : own' = Bump(own, i),
             spent' = spent \/ \E i \in {"cost", "unknown"} : spent' = Bump(spent, i)
      PROVE  Grows(s, k) /\ Keeps(s, k)
  <2>1. k # "cost" /\ k # "unknown" /\ "cost" \in Keys /\ "unknown" \in Keys
    BY <1>6 DEF Effort, Keys
  <2>2. total'[k] = total[k] /\ own'[k] = own[k] /\ spent'[k] = spent[k]
    BY <1>2, <1>6, <2>1, UsageBump
  <2>3. TailUsage(s, k)' = TailUsage(s, k)
    <3>1. CASE tail' = tail
      BY <1>2, <3>1, WrittenUsage
    <3>2. CASE JournalEnd("unknown")
      <4>1. TailUsage(s, k)' + 0 = TailUsage(s, k) + 0 /\ TailUsage(s, k)' \in Nat
        BY <1>2, <2>1, <3>2, EndedUsage
      <4> QED BY <1>1, <4>1
    <3> QED BY <1>6, <3>1, <3>2
  <2>4. InFlight(k) = 0
    BY <1>3, <2>1
  <2> QED BY <1>1, <1>3, <2>2, <2>3, <2>4 DEF Grows, Keeps
<1> QED BY <1>4, <1>5, <1>6, ReplyCounts

\* A step of a session, by its action.
SessionStep ==
  TurnRefused \/ Turn \/ RequestRefused \/ SendRequest \/ Reply \/ ToolCall
    \/ ReplyAnswered \/ Cancel

LEMMA SessionFrame ==
  ASSUME TypeInv, SessionStep
  PROVE  OwnStep /\ book' = book /\ pc' \in InNode
<1>1. OwnStep
  BY SessionOwn, ReplyOwn DEF SessionStep
<1>2. book' = book
  BY DEF SessionStep, TurnRefused, Turn, RequestRefused, SendRequest, Reply, ToolCall,
         ReplyAnswered, Cancel, files
<1>3. Reply => pc' \in InNode
  <2>1. Reply => pc' \in {"request", "calls", "ending"}
    BY ReplyEffect DEF TypeInv
  <2> QED BY <2>1 DEF InNode, InSession
<1>4. ~Reply => pc' \in InNode
  BY DEF SessionStep, TurnRefused, Turn, RequestRefused, SendRequest, ToolCall,
     ReplyAnswered, Cancel, EndSession, AskAgain, JournalErrorRaised, InNode, InSession, totals
<1> QED BY <1>1, <1>2, <1>3, <1>4

LEMMA SessionEffect ==
  ASSUME TypeInv, SessionStep, NEW s \in Sessions, s = session, NEW k \in Keys,
         k \in Effort \/ ~blurred'
  PROVE  Grows(s, k) /\ (k \in Effort /\ ~gap' => Keeps(s, k))
<1>1. CASE TurnRefused \/ RequestRefused \/ ReplyAnswered \/ Cancel
  <2>1. UNCHANGED <<tail, total, own, spent>> /\ pc # "sent" /\ pc' # "sent"
    BY <1>1 DEF TurnRefused, RequestRefused, ReplyAnswered, Cancel, EndSession, files, totals,
                ghosts
  <2> QED BY <2>1, QuietEffect
<1>2. CASE Turn \/ ToolCall
  BY <1>2, CountedEffect
<1>3. CASE SendRequest
  BY <1>3, SentEffect
<1>4. CASE Reply
  BY <1>4, AnsweredEffect
<1> QED BY <1>1, <1>2, <1>3, <1>4 DEF SessionStep

\* The ghosts only ever turn on.
LEMMA GhostsGrow ==
  ASSUME TypeInv, [Next]_vars
  PROVE  (forgotten => forgotten') /\ (gap => gap') /\ (blurred => blurred')
<1>1. ASSUME SessionStep
      PROVE  /\ forgotten' = forgotten /\ (gap' = gap \/ gap' = TRUE)
             /\ blurred' = blurred \/ blurred' = TRUE
  <2>1. forgotten' = forgotten
    BY <1>1, SessionFrame DEF OwnStep
  <2>2. Reply => gap' = gap /\ (blurred' = blurred \/ blurred' = TRUE)
    BY ReplyEffect DEF TypeInv
  <2>3. ~Reply => (gap' = gap \/ gap' = TRUE) /\ (blurred' = blurred \/ blurred' = TRUE)
    BY <1>1 DEF SessionStep, TurnRefused, Turn, RequestRefused, SendRequest, ToolCall,
       ReplyAnswered, Cancel, JournalFails, ghosts
  <2> QED BY <2>1, <2>2, <2>3
<1>2. Crash \/ Vanish =>
        /\ forgotten' = forgotten \/ forgotten' = (forgotten \/ ~known)
             \/ forgotten' = (forgotten \/ ~SavedKnown)
        /\ gap' = gap \/ gap' = (gap \/ pc = "marking")
        /\ blurred' = blurred
  BY DEF Crash, Vanish
<1>3. UNCHANGED vars \/ Start \/ Resume \/ BeginSession \/ Fail \/ Finalize \/ Save
      \/ Finish \/ WriteSummary \/ WriteMarker => UNCHANGED <<forgotten, gap, blurred>>
  BY DEF vars, ghosts, Start, Resume, BeginSession, Fail, Finalize, Save, Finish,
     WriteSummary, WriteMarker
<1>4. \/ SessionStep \/ Crash \/ Vanish \/ UNCHANGED vars \/ Start \/ Resume
      \/ BeginSession \/ Fail \/ Finalize \/ Save \/ Finish \/ WriteSummary \/ WriteMarker
  BY DEF Next, SessionStep
<1>5. forgotten => forgotten'
  BY <1>1, <1>2, <1>3, <1>4
<1>6. gap => gap'
  BY <1>1, <1>2, <1>3, <1>4
<1>7. blurred => blurred'
  BY <1>1, <1>2, <1>3, <1>4
<1> QED BY <1>5, <1>6, <1>7

-----------------------------------------------------------------------------
(* The counting invariant, action by action *)

\* What a step must preserve for each number counted.
CountsStep(k) == ~forgotten' /\ (k \in Effort \/ ~blurred') /\ Counts(k) => Counts(k)'
ExactStep(k) ==
  ~forgotten' /\ k \in Effort /\ ~gap' /\ Counts(k) /\ Exact(k) => Exact(k)'

LEMMA CountLift ==
  ASSUME TypeInv, CountInv, [Next]_vars,
         \A k \in Keys : CountsStep(k) /\ ExactStep(k)
  PROVE  CountInv'
<1> SUFFICES ASSUME ~forgotten', NEW k \in Keys
             PROVE  /\ k \in Effort \/ ~blurred' => Counts(k)'
                    /\ k \in Effort /\ ~gap' => Exact(k)'
  BY DEF CountInv
<1>1. ~forgotten /\ (~blurred' => ~blurred) /\ (~gap' => ~gap)
  BY GhostsGrow
<1>2. ASSUME k \in Effort \/ ~blurred' PROVE Counts(k)'
  <2>1. Counts(k)
    BY <1>1, <1>2 DEF CountInv
  <2> QED BY <1>2, <2>1 DEF CountsStep
<1>3. ASSUME k \in Effort, ~gap' PROVE Exact(k)'
  <2>1. Counts(k) /\ Exact(k)
    BY <1>1, <1>3 DEF CountInv
  <2> QED BY <1>3, <2>1 DEF ExactStep
<1> QED BY <1>2, <1>3

LEMMA CountSession ==
  ASSUME TypeInv, TypeInv', IInv, SessionInv, SessionStep, NEW k \in Keys
  PROVE  CountsStep(k) /\ ExactStep(k)
<1>1. OwnStep /\ book' = book /\ pc' \in InNode
  BY SessionFrame
<1>2. PICK s \in Sessions : s = session
  BY <1>1, OwnFrame
<1>3. CountsStep(k)
  <2> SUFFICES ASSUME k \in Effort \/ ~blurred', Counts(k) PROVE Counts(k)'
    BY DEF CountsStep
  <2>1. Grows(s, k)
    BY <1>2, SessionEffect
  <2> QED BY <1>1, <1>2, <2>1, GrowsCounts
<1>4. ExactStep(k)
  <2> SUFFICES ASSUME k \in Effort, ~gap', Exact(k) PROVE Exact(k)'
    BY DEF ExactStep
  <2>1. Keeps(s, k)
    BY <1>2, SessionEffect
  <2> QED BY <1>1, <1>2, <2>1, KeepsExact
<1> QED BY <1>3, <1>4

\* A step that changes none of the files and nothing that was counted.
LEMMA CountIdle ==
  ASSUME UNCHANGED <<journal, marked, tail, book, summary, total, known, own, spent>>,
         pc' \in InNode => pc \in InNode /\ session' = session,
         pc' \in Live <=> pc \in Live, pc = "sent" <=> pc' = "sent",
         pc = "marking" <=> pc' = "marking", NEW k \in Keys
  PROVE  CountsStep(k) /\ ExactStep(k)
<1>1. /\ Recorded' = Recorded /\ InTail' = InTail /\ Believed' = Believed
      /\ InTheJournal(k)' = InTheJournal(k) /\ InFlight(k)' = InFlight(k)
      /\ \A s \in Sessions : TailUsage(s, k)' = TailUsage(s, k)
  BY DEF Recorded, InTail, Believed, InTheJournal, InFlight, TailUsage
<1>2. pc' \in InNode => TailUsage(session, k)' = TailUsage(session, k)
  BY DEF TailUsage
<1>3. ASSUME Counts(k) PROVE Counts(k)'
  <2>1. OwnCounts(k)'
    BY <1>1, <1>2, <1>3 DEF Counts, OwnCounts, Recorded
  <2>2. MemoryCounts(k)' /\ FilesCount(k)'
    BY <1>1, <1>3 DEF Counts, MemoryCounts, FilesCount
  <2> QED BY <2>1, <2>2 DEF Counts
<1>4. ASSUME Exact(k) PROVE Exact(k)'
  <2>1. OwnExact(k)'
    BY <1>1, <1>2, <1>4 DEF Exact, OwnExact, Recorded
  <2>2. MemoryExact(k)' /\ FilesExact(k)'
    BY <1>1, <1>4 DEF Exact, MemoryExact, FilesExact
  <2> QED BY <2>1, <2>2 DEF Exact
<1> QED BY <1>3, <1>4 DEF CountsStep, ExactStep

\* The trajectory takes over what the session held in memory.
LEMMA CountRecord ==
  ASSUME TypeInv, IInv, SessionInv, Fail \/ Finalize, NEW k \in Keys
  PROVE  CountsStep(k) /\ ExactStep(k)
<1>1. /\ pc \in {"ending", "finalize"} /\ pc' \in {"idle", "closing", "save"}
      /\ UNCHANGED <<journal, marked, tail, summary, total, known, session, spent>>
      /\ book' = book \/ \E done \in BOOLEAN : WriteTrajectory(done)
  BY DEF Fail, Finalize, SessionOver, totals, ghosts
<1>2. session \in Sessions /\ pc \in InNode /\ pc' \notin InNode /\ pc \in Live /\ pc' \in Live
      /\ InFlight(k) = 0 /\ InFlight(k)' = 0
  BY <1>1 DEF InNode, InSession, Live, InFlight, IInv, NumberInv
<1>3. /\ InTail' = InTail /\ Believed' = Believed
      /\ InTheJournal(k)' = InTheJournal(k)
      /\ \A s \in Sessions : TailUsage(s, k)' = TailUsage(s, k)
  BY <1>1, <1>2 DEF InTail, Believed, InTheJournal, TailUsage
<1>4. ASSUME NEW s \in Recorded'
      PROVE  /\ s \in Sessions
             /\ \/ s \in Recorded /\ book'[s] = book[s]
                \/ s = session /\ book'[s].usage = own
  <2>1. s \in Sessions /\ book'[s] # NoRecord
    BY DEF Recorded
  <2>2. CASE book' = book
    BY <2>1, <2>2 DEF Recorded
  <2>3. CASE \E done \in BOOLEAN : WriteTrajectory(done)
    <3>1. PICK done \in BOOLEAN :
            book' = [book EXCEPT ![session] = [usage |-> own, completed |-> done]]
      BY <2>3 DEF WriteTrajectory
    <3>2. DOMAIN book = Sessions
      BY DEF TypeInv, TypeFiles
    <3>3. CASE s = session
      BY <1>2, <3>1, <3>2, <3>3
    <3>4. CASE s # session
      BY <2>1, <3>1, <3>2, <3>4 DEF Recorded
    <3> QED BY <2>1, <3>3, <3>4
  <2> QED BY <1>1, <2>2, <2>3
<1>5. own[k] \in Nat
  BY Numbers
<1>6. ASSUME Counts(k) PROVE Counts(k)'
  <2>1. own[k] >= TailUsage(session, k)
    BY <1>2, <1>5, <1>6 DEF Counts, OwnCounts
  <2>2. \A s \in Recorded' : book'[s].usage[k] >= TailUsage(s, k)'
    BY <1>3, <1>4, <1>6, <2>1 DEF Counts, OwnCounts
  <2>3. OwnCounts(k)'
    BY <1>2, <2>2 DEF OwnCounts
  <2>4. MemoryCounts(k)' /\ FilesCount(k)'
    BY <1>1, <1>2, <1>3, <1>6 DEF Counts, MemoryCounts, FilesCount
  <2> QED BY <2>3, <2>4 DEF Counts
<1>7. ASSUME Exact(k) PROVE Exact(k)'
  <2>1. own[k] = TailUsage(session, k)
    BY <1>2, <1>7 DEF Exact, OwnExact
  <2>2. \A s \in (InTail \cap Recorded)' : book'[s].usage[k] = TailUsage(s, k)'
    BY <1>3, <1>4, <1>7, <2>1 DEF Exact, OwnExact
  <2>3. OwnExact(k)'
    BY <1>2, <2>2 DEF OwnExact
  <2>4. MemoryExact(k)' /\ FilesExact(k)'
    BY <1>1, <1>2, <1>3, <1>7 DEF Exact, MemoryExact, FilesExact
  <2> QED BY <2>3, <2>4 DEF Exact
<1> QED BY <1>6, <1>7 DEF CountsStep, ExactStep

\* A resume counts at least what the summary and the journal hold, and exactly
\* that where the trajectories agree with the journal.
LEMMA ReconciledCovers ==
  ASSUME TypeInv, NEW k \in Keys, OwnCounts(k)
  PROVE  /\ Reconciled[k] >= summary.usage[k] + InTheJournal(k)
         /\ OwnExact(k) => Reconciled[k] = summary.usage[k] + InTheJournal(k)
<1> DEFINE t == [s \in Sessions |-> TailUsage(s, k)]
           A == InTail \cap Recorded
           f == [s \in A |-> book[s].usage[k]]
           g == [s \in Unrecorded |-> TailUsage(s, k)]
<1>1. /\ InTail \subseteq Sessions /\ A \subseteq Sessions /\ Unrecorded \subseteq Sessions
      /\ A = InTail \cap Recorded /\ Unrecorded = InTail \ Recorded
  BY DEF InTail, Unrecorded
<1>2. IsFiniteSet(Sessions) /\ IsFiniteSet(InTail) /\ IsFiniteSet(A) /\ IsFiniteSet(Unrecorded)
  BY <1>1, BoundTypes, FS_Subset
<1>3. \A s \in Sessions : t[s] \in Nat /\ t[s] = TailUsage(s, k)
  BY Numbers
<1>4. \A s \in A : f[s] \in Nat /\ f[s] >= t[s]
  BY <1>3, Numbers DEF OwnCounts, Recorded
<1>5. \A s \in Unrecorded : g[s] = t[s]
  BY <1>1
<1>6. InTheJournal(k) = SumFunctionOnSet(t, Sessions)
  BY DEF InTheJournal
<1>7. Reconciled[k] = summary.usage[k] + SumFunctionOnSet(f, A) + SumFunctionOnSet(g, Unrecorded)
  BY DEF Reconciled, SavedUsage, RecordedUsage, LostUsage, SumFunction
<1>8. OwnExact(k) => \A s \in A : f[s] = t[s]
  BY <1>1, <1>3 DEF OwnExact
<1>9. \A s \in Sessions \ InTail : t[s] = 0
  BY BlankType DEF InTail, TailUsage
<1> HIDE DEF t, A, f, g
<1>10. SumFunctionOnSet(t, Sessions)
         = SumFunctionOnSet(t, A) + SumFunctionOnSet(t, Unrecorded)
  <2> DEFINE Z == Sessions \ InTail
  <2>1. /\ InTail \cup Z = Sessions /\ InTail \cap Z = {}
        /\ A \cup Unrecorded = InTail /\ A \cap Unrecorded = {} /\ Z \subseteq Sessions
    BY <1>1
  <2>2. (\A s \in Sessions : t[s] \in Nat) /\ (\A s \in InTail : t[s] \in Nat)
    BY <1>1, <1>3
  <2>3. IsFiniteSet(Z) /\ \A s \in Z : t[s] = 0
    BY <1>2, <1>9, <2>1, FS_Subset
  <2> HIDE DEF Z
  <2>4. SumFunctionOnSet(t, Sessions) = SumFunctionOnSet(t, InTail) + SumFunctionOnSet(t, Z)
    BY <1>2, <2>1, <2>2, SumSplit
  <2>5. SumFunctionOnSet(t, InTail) = SumFunctionOnSet(t, A) + SumFunctionOnSet(t, Unrecorded)
    BY <1>2, <2>1, <2>2, SumSplit
  <2>6. SumFunctionOnSet(t, Z) = 0
    BY <2>3, SumZero
  <2>7. SumFunctionOnSet(t, InTail) \in Nat
    BY <1>2, <2>2, SumType
  <2> QED BY <2>4, <2>5, <2>6, <2>7
<1>11. SumFunctionOnSet(g, Unrecorded) = SumFunctionOnSet(t, Unrecorded)
  <2>1. \A s \in Unrecorded : g[s] \in Nat /\ g[s] = t[s]
    BY <1>1, <1>3, <1>5
  <2> QED BY <1>2, <2>1, SumEqual
<1>12. SumFunctionOnSet(t, A) <= SumFunctionOnSet(f, A)
  <2>1. \A s \in A : t[s] \in Nat /\ f[s] \in Nat /\ t[s] <= f[s]
    BY <1>1, <1>3, <1>4
  <2> QED BY <1>2, <2>1, SumMonotone
<1>13. OwnExact(k) => SumFunctionOnSet(f, A) = SumFunctionOnSet(t, A)
  BY <1>2, <1>4, <1>8, SumEqual
<1>14. /\ SumFunctionOnSet(t, A) \in Nat /\ SumFunctionOnSet(f, A) \in Nat
       /\ SumFunctionOnSet(t, Unrecorded) \in Nat /\ summary.usage[k] \in Nat
  BY <1>1, <1>2, <1>3, <1>4, SumType, Numbers
<1> QED BY <1>6, <1>7, <1>10, <1>11, <1>12, <1>13, <1>14

LEMMA CountResume ==
  ASSUME TypeInv, TypeInv', SessionInv, Resume, NEW k \in Keys
  PROVE  CountsStep(k) /\ ExactStep(k)
<1>1. /\ pc = "down" /\ pc' = "idle"
      /\ UNCHANGED <<marked, tail, book, summary, session, own, spent>>
  BY DEF Resume, node
<1>2. /\ Recorded' = Recorded /\ InTail' = InTail /\ InTheJournal(k)' = InTheJournal(k)
      /\ \A s \in Sessions : TailUsage(s, k)' = TailUsage(s, k)
  BY <1>1 DEF Recorded, InTail, InTheJournal, TailUsage
<1>3. pc' \notin InNode /\ pc \notin Live /\ pc' \in Live /\ InFlight(k) = 0 /\ InFlight(k)' = 0
      /\ pc # "marking"
  BY <1>1 DEF InNode, InSession, Live, InFlight
<1>4. known' => Believed /\ total' = Reconciled
  BY <1>3 DEF Resume, Certified, SavedKnown, Believed
<1>5. Believed' => known'
  BY <1>3 DEF Believed
<1>6. /\ spent[k] \in Nat /\ summary.usage[k] \in Nat /\ InTheJournal(k) \in Nat
  BY Numbers
<1>7. ASSUME Counts(k) PROVE Counts(k)'
  <2>1. OwnCounts(k)'
    BY <1>1, <1>2, <1>3, <1>7 DEF Counts, OwnCounts, Recorded
  <2>2. MemoryCounts(k)'
    <3> SUFFICES ASSUME known' PROVE total'[k] >= spent'[k]
      BY DEF MemoryCounts
    <3>1. summary.usage[k] + InTheJournal(k) >= spent[k]
      BY <1>3, <1>4, <1>6, <1>7 DEF Counts, FilesCount
    <3>2. Reconciled[k] >= summary.usage[k] + InTheJournal(k) /\ Reconciled[k] \in Nat
      BY <1>7, ReconciledCovers, RestoredTypes DEF Counts, TypeInv, Usage
    <3>3. total'[k] = Reconciled[k] /\ spent'[k] = spent[k]
      BY <1>1, <1>4
    <3> HIDE DEF Reconciled
    <3> QED BY <1>6, <3>1, <3>2, <3>3
  <2>3. FilesCount(k)'
    BY <1>1, <1>2, <1>3, <1>4, <1>5, <1>7 DEF Counts, FilesCount
  <2> QED BY <2>1, <2>2, <2>3 DEF Counts
<1>8. ASSUME Counts(k), Exact(k) PROVE Exact(k)'
  <2>1. OwnExact(k)'
    BY <1>1, <1>2, <1>3, <1>8 DEF Exact, OwnExact, Recorded
  <2>2. MemoryExact(k)'
    <3> SUFFICES ASSUME known' PROVE total'[k] = spent'[k]
      BY DEF MemoryExact
    <3>1. summary.usage[k] + InTheJournal(k) = spent[k]
      BY <1>3, <1>4, <1>8 DEF Exact, FilesExact
    <3>2. Reconciled[k] = summary.usage[k] + InTheJournal(k)
      BY <1>8, ReconciledCovers DEF Counts, Exact
    <3>3. total'[k] = Reconciled[k] /\ spent'[k] = spent[k]
      BY <1>1, <1>4
    <3> QED BY <3>1, <3>2, <3>3
  <2>3. FilesExact(k)'
    BY <1>1, <1>2, <1>3, <1>4, <1>5, <1>8 DEF Exact, FilesExact
  <2> QED BY <2>1, <2>2, <2>3 DEF Exact
<1> QED BY <1>7, <1>8 DEF CountsStep, ExactStep

LEMMA CountBegin ==
  ASSUME TypeInv, IInv, SessionInv, BeginSession, NEW k \in Keys
  PROVE  CountsStep(k) /\ ExactStep(k)
<1>1. /\ pc = "idle" /\ pc' = "turn" /\ session' = session + 1 /\ session + 1 \in Sessions
      /\ session \in Nat
      /\ UNCHANGED <<journal, marked, tail, book, summary, total, known, own, spent>>
  BY BoundTypes DEF BeginSession, files, totals, ghosts, TypeInv, TypeProcess, Sessions
<1>2. /\ Recorded' = Recorded /\ InTail' = InTail /\ InTheJournal(k)' = InTheJournal(k)
      /\ \A s \in Sessions : TailUsage(s, k)' = TailUsage(s, k)
  BY <1>1 DEF Recorded, InTail, InTheJournal, TailUsage
<1>3. pc' \in Live /\ pc \in Live /\ InFlight(k) = 0 /\ InFlight(k)' = 0 /\ Believed' = Believed
      /\ pc # "marking" /\ pc' # "marking"
  BY <1>1 DEF InSession, Live, InFlight, Believed
<1>4. own'[k] = 0 /\ TailUsage(session, k)' = 0
  <2>1. own'[k] = 0
    BY <1>1, ZeroType DEF SessionInv, InNode, InSession
  <2>2. tail'[session'] = Blank
    BY <1>1 DEF IInv, NumberInv
  <2> QED BY <2>1, <2>2, BlankType DEF TailUsage
<1>5. ASSUME Counts(k) PROVE Counts(k)'
  <2>1. OwnCounts(k)'
    BY <1>1, <1>2, <1>3, <1>4, <1>5 DEF Counts, OwnCounts, Recorded
  <2>2. MemoryCounts(k)' /\ FilesCount(k)'
    BY <1>1, <1>2, <1>3, <1>5 DEF Counts, MemoryCounts, FilesCount
  <2> QED BY <2>1, <2>2 DEF Counts
<1>6. ASSUME Exact(k) PROVE Exact(k)'
  <2>1. OwnExact(k)'
    BY <1>1, <1>2, <1>4, <1>6 DEF Exact, OwnExact, Recorded
  <2>2. MemoryExact(k)' /\ FilesExact(k)'
    BY <1>1, <1>2, <1>3, <1>6 DEF Exact, MemoryExact, FilesExact
  <2> QED BY <2>1, <2>2 DEF Exact
<1> QED BY <1>5, <1>6 DEF CountsStep, ExactStep

LEMMA CountStart ==
  ASSUME TypeInv, SessionInv, FreshInv, Start, NEW k \in Keys
  PROVE  CountsStep(k) /\ ExactStep(k)
<1>1. /\ pc = "new" /\ pc' = "idle"
      /\ UNCHANGED <<marked, tail, book, summary, total, own, spent, session>>
  BY DEF Start, totals, node, ghosts
<1>2. /\ total = Zero /\ spent = Zero /\ \A s \in Sessions : tail[s] = Blank /\ book[s] = NoRecord
  BY <1>1 DEF FreshInv
<1>3. InTheJournal(k)' = 0
  <2>1. InTheJournal(k)' = InTheJournal(k)
    BY <1>1 DEF InTheJournal, TailUsage
  <2> QED BY <1>2, <2>1, JournalBlank
<1>4. /\ total'[k] = 0 /\ spent'[k] = 0 /\ InFlight(k)' = 0 /\ Recorded' = {}
      /\ summary'.usage[k] = 0 /\ pc' \notin InNode
  BY <1>1, <1>2, ZeroType DEF InFlight, Recorded, FreshInv, NoSummary, InNode, InSession
<1> QED BY <1>3, <1>4 DEF CountsStep, ExactStep, Counts, Exact, OwnCounts, OwnExact,
           MemoryCounts, MemoryExact, FilesCount, FilesExact

\* The summary that is written holds the totals of the process; until it is
\* marked, the journal still holds what it already counts.
LEMMA CountSummary ==
  ASSUME TypeInv, IInv, SessionInv, WriteSummary, NEW k \in Keys
  PROVE  CountsStep(k) /\ ExactStep(k)
<1>1. /\ pc = "closing" /\ pc' = "marking" /\ summary'.usage = total /\ summary'.known = known
      /\ UNCHANGED <<journal, marked, tail, book, total, known, session, own, spent>>
  BY DEF WriteSummary, totals, node, ghosts
<1>2. /\ Recorded' = Recorded /\ InTail' = InTail /\ InTheJournal(k)' = InTheJournal(k)
      /\ \A s \in Sessions : TailUsage(s, k)' = TailUsage(s, k)
  BY <1>1 DEF Recorded, InTail, InTheJournal, TailUsage
<1>3. pc \in Live /\ pc' \in Live /\ pc' \notin InNode /\ InFlight(k) = 0 /\ InFlight(k)' = 0
  BY <1>1 DEF Live, InNode, InSession, InFlight
<1>4. (Believed' => known) /\ (known /\ ~marked => Believed)
  BY <1>1, <1>3 DEF Believed, IInv, LiveInv
<1>5. total[k] \in Nat /\ spent[k] \in Nat /\ InTheJournal(k) \in Nat
  BY Numbers
<1>6. ASSUME Counts(k) PROVE Counts(k)'
  <2>1. OwnCounts(k)' /\ MemoryCounts(k)'
    BY <1>1, <1>2, <1>3, <1>6 DEF Counts, OwnCounts, MemoryCounts, Recorded
  <2>2. FilesCount(k)'
    <3> SUFFICES ASSUME Believed'
                 PROVE  /\ total[k] + InTheJournal(k) >= spent[k]
                        /\ ~marked => InTheJournal(k) >= spent[k]
      BY <1>1, <1>2, <1>3, <1>5 DEF FilesCount
    <3>1. total[k] >= spent[k]
      BY <1>3, <1>4, <1>6 DEF Counts, MemoryCounts
    <3>2. ~marked => InTheJournal(k) >= spent[k]
      BY <1>3, <1>4, <1>5, <1>6 DEF Counts, FilesCount
    <3> QED BY <1>5, <3>1, <3>2
  <2> QED BY <2>1, <2>2 DEF Counts
<1>7. ASSUME Exact(k) PROVE Exact(k)'
  BY <1>1, <1>2, <1>3, <1>7 DEF Exact, OwnExact, MemoryExact, FilesExact, Recorded
<1> QED BY <1>6, <1>7 DEF CountsStep, ExactStep

\* The marker empties the tail: what it held is in the summary it marks.
LEMMA CountMarker ==
  ASSUME TypeInv, TypeInv', IInv, SessionInv, MarkingInv, WriteMarker, NEW k \in Keys
  PROVE  CountsStep(k) /\ ExactStep(k)
<1>1. /\ pc = "marking" /\ pc' = "down" /\ marked' = TRUE /\ tail' = [s \in Sessions |-> Blank]
      /\ UNCHANGED <<journal, book, summary, session, own, spent>>
  BY DEF WriteMarker, ProcessOver, node, ghosts
<1>2. InTheJournal(k)' = 0 /\ \A s \in Sessions : TailUsage(s, k)' = 0
  BY <1>1, JournalBlanked
<1>3. pc \in Live /\ pc' \notin Live /\ pc' \notin InNode /\ InFlight(k)' = 0
  BY <1>1 DEF Live, InNode, InSession, InFlight
<1>4. InTail' = {}
  BY <1>1 DEF InTail
<1>5. Believed' => known
  BY <1>1 DEF Believed, IInv, SummaryInv
<1>6. summary'.usage[k] = total[k] /\ total[k] \in Nat /\ spent[k] \in Nat
  BY <1>1, Numbers DEF MarkingInv
<1>7. ASSUME Counts(k) PROVE Counts(k)'
  <2>1. OwnCounts(k)'
    <3>1. \A s \in Recorded' : s \in Sessions /\ book'[s].usage[k] \in Nat
      BY RecordUsageType DEF TypeInv, TypeFiles, Recorded, Trajectory, Usage
    <3> QED BY <1>2, <1>3, <3>1 DEF OwnCounts
  <2>2. MemoryCounts(k)'
    BY <1>3 DEF MemoryCounts
  <2>3. FilesCount(k)'
    BY <1>1, <1>2, <1>3, <1>5, <1>6, <1>7 DEF Counts, MemoryCounts, FilesCount
  <2> QED BY <2>1, <2>2, <2>3 DEF Counts
<1>8. ASSUME Exact(k) PROVE Exact(k)'
  <2>1. OwnExact(k)' /\ MemoryExact(k)'
    BY <1>3, <1>4 DEF OwnExact, MemoryExact
  <2>2. FilesExact(k)'
    BY <1>1, <1>2, <1>3, <1>5, <1>6, <1>8 DEF Exact, MemoryExact, FilesExact
  <2> QED BY <2>1, <2>2 DEF Exact
<1> QED BY <1>7, <1>8 DEF CountsStep, ExactStep

\* A process that dies leaves what it counted in the files; a request that was
\* on its way may be billed, and is open in the journal.
LEMMA CountCrash ==
  ASSUME TypeInv, IInv, SessionInv, Crash, NEW k \in Keys
  PROVE  CountsStep(k) /\ ExactStep(k)
<1>1. /\ pc \in Live /\ pc' = "down"
      /\ UNCHANGED <<journal, marked, tail, book, summary>>
      /\ spent' = (IF pc = "sent" THEN Bump(spent, "unknown") ELSE spent)
  BY DEF Crash, ProcessOver, files
<1>2. /\ Recorded' = Recorded /\ InTail' = InTail /\ InTheJournal(k)' = InTheJournal(k)
      /\ \A s \in Sessions : TailUsage(s, k)' = TailUsage(s, k)
  BY <1>1 DEF Recorded, InTail, InTheJournal, TailUsage
<1>3. pc' \notin Live /\ pc' \notin InNode /\ InFlight(k)' = 0
  BY <1>1 DEF Live, InNode, InSession, InFlight
<1>4. /\ spent[k] \in Nat /\ InFlight(k) \in Nat /\ InTheJournal(k) \in Nat
      /\ summary.usage[k] \in Nat
  BY Numbers
<1>5. spent'[k] = spent[k] + InFlight(k)
  <2>1. "unknown" \in Keys /\ spent \in Usage
    BY DEF Keys, TypeInv, TypeTotals
  <2> QED BY <1>1, <1>4, <2>1, UsageBump DEF InFlight
<1>6. ~forgotten' /\ Believed' => Believed
  BY <1>1 DEF Believed, Crash
<1>7. ~gap' => pc # "marking"
  BY DEF Crash
<1>8. ASSUME Counts(k), ~forgotten' PROVE Counts(k)'
  <2>1. OwnCounts(k)'
    BY <1>1, <1>2, <1>3, <1>8 DEF Counts, OwnCounts, Recorded
  <2>2. MemoryCounts(k)'
    BY <1>3 DEF MemoryCounts
  <2>3. FilesCount(k)'
    BY <1>1, <1>2, <1>3, <1>4, <1>5, <1>6, <1>8 DEF Counts, FilesCount
  <2> QED BY <2>1, <2>2, <2>3 DEF Counts
<1>9. ASSUME Exact(k), ~forgotten', ~gap', k \in Effort PROVE Exact(k)'
  <2>1. OwnExact(k)' /\ MemoryExact(k)'
    BY <1>1, <1>2, <1>3, <1>9 DEF Exact, OwnExact, MemoryExact, Recorded
  <2>2. InFlight(k) = 0
    BY <1>9 DEF InFlight, Effort
  <2>3. FilesExact(k)'
    BY <1>1, <1>2, <1>3, <1>4, <1>5, <1>6, <1>7, <1>9, <2>2 DEF Exact, FilesExact
  <2> QED BY <2>1, <2>3 DEF Exact
<1> QED BY <1>8, <1>9 DEF CountsStep, ExactStep

\* A lost file: without the journal nothing is trusted, trajectories are not
\* needed while the journal is whole, and a lost summary is either marked or
\* still in the journal.
LEMMA CountVanish ==
  ASSUME TypeInv, SessionInv, Vanish, NEW k \in Keys
  PROVE  CountsStep(k) /\ ExactStep(k)
<1>1. pc = "down" /\ UNCHANGED <<pc, total, known, session, own, spent>>
  BY DEF Vanish, totals, node
<1>2. pc \notin Live /\ pc' \notin Live /\ pc' \notin InNode /\ InFlight(k) = 0
      /\ InFlight(k)' = 0 /\ pc # "marking"
  BY <1>1 DEF Live, InNode, InSession, InFlight
<1>3. /\ spent[k] \in Nat /\ InTheJournal(k) \in Nat /\ summary.usage[k] \in Nat
  BY Numbers
<1>4. CASE ~journal' /\ tail' = [s \in Sessions |-> Blank] /\ book' = book
  <2>1. ~Believed'
    BY <1>4 DEF Believed
  <2>2. InTail' = {} /\ \A s \in Sessions : TailUsage(s, k)' = 0
    BY <1>4, JournalBlanked DEF InTail
  <2>3. \A s \in Recorded' : s \in Sessions /\ book'[s].usage[k] \in Nat
    BY <1>4, Numbers DEF Recorded
  <2> QED BY <1>2, <2>1, <2>2, <2>3 DEF CountsStep, ExactStep, Counts, Exact, OwnCounts,
             OwnExact, MemoryCounts, MemoryExact, FilesCount, FilesExact
<1>5. CASE /\ book' = [s \in Sessions |-> NoRecord]
           /\ UNCHANGED <<journal, marked, tail, summary, forgotten>>
  <2>1. Recorded' = {} /\ Believed' = Believed /\ InTheJournal(k)' = InTheJournal(k)
    BY <1>1, <1>5 DEF Recorded, Believed, InTheJournal, TailUsage
  <2> QED BY <1>1, <1>2, <1>5, <2>1 DEF CountsStep, ExactStep, Counts, Exact, OwnCounts,
             OwnExact, MemoryCounts, MemoryExact, FilesCount, FilesExact
<1>6. CASE /\ summary' = NoSummary /\ forgotten' = (forgotten \/ ~SavedKnown)
           /\ UNCHANGED <<journal, marked, tail, book>>
  <2>1. /\ Recorded' = Recorded /\ InTail' = InTail /\ InTheJournal(k)' = InTheJournal(k)
        /\ \A s \in Sessions : TailUsage(s, k)' = TailUsage(s, k)
    BY <1>6 DEF Recorded, InTail, InTheJournal, TailUsage
  <2>2. ~forgotten' /\ Believed' => Believed /\ ~marked
    BY <1>1, <1>6 DEF Believed, NoSummary, SavedKnown, Live, InSession
  <2>3. summary'.usage[k] = 0
    BY <1>6, ZeroType DEF NoSummary
  <2>4. ASSUME Counts(k), ~forgotten' PROVE Counts(k)'
    <3>1. OwnCounts(k)' /\ MemoryCounts(k)'
      BY <1>2, <1>6, <2>1, <2>4 DEF Counts, OwnCounts, MemoryCounts, Recorded
    <3>2. FilesCount(k)'
      BY <1>1, <1>2, <1>3, <1>6, <2>1, <2>2, <2>3, <2>4 DEF Counts, FilesCount
    <3> QED BY <3>1, <3>2 DEF Counts
  <2>5. ASSUME Counts(k), Exact(k), ~forgotten' PROVE Exact(k)'
    <3>1. OwnExact(k)' /\ MemoryExact(k)'
      BY <1>2, <1>6, <2>1, <2>5 DEF Exact, OwnExact, MemoryExact, Recorded
    <3>2. FilesExact(k)'
      <4> SUFFICES ASSUME Believed' PROVE 0 + InTheJournal(k) = spent[k]
        BY <1>1, <2>1, <2>3 DEF FilesExact
      <4>1. /\ summary.usage[k] + InTheJournal(k) = spent[k]
            /\ InTheJournal(k) >= spent[k]
        BY <1>2, <1>3, <2>2, <2>5 DEF Counts, FilesCount, Exact, FilesExact
      <4> QED BY <1>3, <4>1
    <3> QED BY <3>1, <3>2 DEF Exact
  <2> QED BY <2>4, <2>5 DEF CountsStep, ExactStep
<1> QED BY <1>4, <1>5, <1>6 DEF Vanish

LEMMA CountStep ==
  ASSUME TypeInv, IInv, AccountInv, [Next]_vars
  PROVE  CountInv'
<1>1. TypeInv'
  BY TypeStep
<1> USE <1>1 DEF AccountInv
<1> SUFFICES ASSUME NEW k \in Keys PROVE CountsStep(k) /\ ExactStep(k)
  BY CountLift
<1>2. CASE SessionStep
  BY <1>2, CountSession
<1>3. CASE Fail \/ Finalize
  BY <1>3, CountRecord
<1>4. CASE Save \/ Finish \/ UNCHANGED vars
  <2>1. UNCHANGED <<journal, marked, tail, book, summary, total, known, own, spent, session>>
    BY <1>4 DEF Save, Finish, vars, files, totals, node, ghosts
  <2>2. /\ pc' \in InNode => pc \in InNode
        /\ (pc' \in Live <=> pc \in Live) /\ (pc = "sent" <=> pc' = "sent")
        /\ (pc = "marking" <=> pc' = "marking")
    BY <1>4 DEF Save, Finish, vars, InNode, InSession, Live
  <2> QED BY <2>1, <2>2, CountIdle
<1>5. CASE Start \/ Resume \/ BeginSession
  BY <1>5, CountStart, CountResume, CountBegin
<1>6. CASE WriteSummary \/ WriteMarker
  BY <1>6, CountSummary, CountMarker
<1>7. CASE Crash \/ Vanish
  BY <1>7, CountCrash, CountVanish
<1> QED BY <1>2, <1>3, <1>4, <1>5, <1>6, <1>7 DEF Next, SessionStep

LEMMA SessionInvStep ==
  ASSUME TypeInv, IInv, SessionInv, [Next]_vars
  PROVE  SessionInv'
<1>1. CASE SessionStep
  <2>1. OwnStep /\ book' = book /\ pc' \in InNode /\ pc \in InNode /\ session' = session
    BY <1>1, SessionFrame DEF OwnStep
  <2> QED BY <2>1 DEF SessionInv
<1>2. CASE Fail \/ Finalize
  <2>1. /\ pc' \notin InNode /\ own' = Zero /\ session' = session /\ session \in Sessions
        /\ \A s \in Sessions : s # session => book'[s] = book[s]
    BY <1>2, RecordOwn DEF Fail, Finalize, SessionOver, InNode, InSession, IInv, NumberInv,
       PhaseInv
  <2>2. \A s \in Sessions : s > session => s # session
    BY BoundTypes, <2>1
  <2> QED BY <2>1, <2>2 DEF SessionInv
<1>3. CASE Start \/ Resume \/ Save \/ Finish \/ WriteSummary \/ WriteMarker
  <2>1. pc \notin InNode /\ pc' \notin InNode /\ UNCHANGED <<own, session, book>>
    BY <1>3 DEF Start, Resume, Save, Finish, WriteSummary, WriteMarker, ProcessOver, node,
       files, InNode, InSession
  <2> QED BY <2>1 DEF SessionInv
<1>4. CASE BeginSession
  <2>1. /\ pc' = "turn" /\ session' = session + 1 /\ session + 1 \in Sessions
        /\ session \in Nat /\ book' = book
    BY <1>4, BoundTypes DEF BeginSession, files, TypeInv, TypeProcess, Sessions
  <2>2. \A s \in Sessions : s > session + 1 => s > session
    BY <2>1, BoundTypes
  <2>3. session + 1 > session
    BY <2>1
  <2> QED BY <2>1, <2>2, <2>3 DEF SessionInv, InNode, InSession
<1>5. CASE Crash \/ Vanish
  <2>1. /\ pc' = "down" /\ session' = session /\ own' = Zero
        /\ book' = book \/ book' = [s \in Sessions |-> NoRecord]
    BY <1>5 DEF Crash, Vanish, SessionOver, ProcessOver, files, node, SessionInv, InNode,
       InSession
  <2> QED BY <2>1 DEF SessionInv, InNode, InSession
<1>6. CASE UNCHANGED vars
  BY <1>6 DEF SessionInv, vars, files, node
<1> QED BY <1>1, <1>2, <1>3, <1>4, <1>5, <1>6 DEF Next, SessionStep

LEMMA FreshStep ==
  ASSUME TypeInv, FreshInv, MarkingInv, [Next]_vars
  PROVE  FreshInv' /\ MarkingInv'
<1>1. CASE UNCHANGED vars
  BY <1>1 DEF FreshInv, MarkingInv, vars, files, totals, ghosts
<1>2. CASE SessionStep
  <2>1. pc' # "new" /\ pc' # "marking"
    BY <1>2, SessionFrame DEF InNode, InSession
  <2> QED BY <2>1 DEF FreshInv, MarkingInv
<1>3. CASE WriteSummary
  BY <1>3 DEF WriteSummary, FreshInv, MarkingInv, totals
<1>4. CASE \/ Start \/ Resume \/ BeginSession \/ Fail \/ Finalize \/ Save \/ Finish
           \/ WriteMarker \/ Crash \/ Vanish
  <2>1. pc' # "new" /\ pc' # "marking"
    BY <1>4 DEF Start, Resume, BeginSession, Fail, Finalize, Save, Finish, WriteMarker, Crash,
       Vanish, ProcessOver
  <2> QED BY <2>1 DEF FreshInv, MarkingInv
<1> QED BY <1>1, <1>2, <1>3, <1>4 DEF Next, SessionStep

-----------------------------------------------------------------------------
(* The caps *)

LEMMA CapTypes ==
  ASSUME TypeInv
  PROVE  /\ \A k \in {"turns", "calls", "cost"} : caps[k] # NoCap => caps[k] \in Nat
         /\ \A k \in Keys : spent[k] \in Nat /\ total[k] \in Nat
<1>1. caps \in Caps
  BY AccountingAssumption DEF TypeInv, TypeProcess, AccountingAssumption
<1> QED BY <1>1 DEF Caps, TypeInv, TypeTotals, Usage

LEMMA AllowedStep ==
  ASSUME TypeInv, HistoryAllowed, [Next]_vars
  PROVE  HistoryAllowed'
<1>1. caps' = caps
  BY DEF Next, vars
<1>2. CASE SessionStep
  <2>1. UNCHANGED <<known, complete>>
    BY <1>2, SessionFrame DEF OwnStep
  <2>2. HistoryRefused' = HistoryRefused
    BY <1>1, <2>1 DEF HistoryRefused
  <2>3. pc' \in {"request", "sent", "calls"} => ~HistoryRefused
    BY <1>2 DEF SessionStep, TurnRefused, Turn, RequestRefused, SendRequest, Reply, ToolCall,
       ReplyAnswered, Cancel, EndSession, HistoryAllowed, Priced, Unpriced, Retryable,
       Uncertain, Abandoned, AwaitingReply
  <2> QED BY <2>2, <2>3 DEF HistoryAllowed
<1>3. CASE UNCHANGED vars
  BY <1>3 DEF HistoryAllowed, HistoryRefused, vars, totals
<1>4. CASE ~SessionStep /\ Next
  <2>1. pc' \notin {"request", "sent", "calls"}
    BY <1>4 DEF Next, SessionStep, Start, Resume, BeginSession, Fail, Finalize, Save, Finish,
       WriteSummary, WriteMarker, Crash, Vanish, ProcessOver
  <2> QED BY <2>1 DEF HistoryAllowed
<1> QED BY <1>2, <1>3, <1>4

\* Steps that consume neither a turn nor a tool call.
LEMMA EffortKept ==
  ASSUME TypeInv, [Next]_vars, ~(Turn \/ ToolCall), NEW k \in Effort
  PROVE  spent'[k] = spent[k]
<1>1. k \in Keys /\ k # "cost" /\ k # "unknown" /\ spent \in Usage
  BY DEF Effort, Keys, TypeInv, TypeTotals
<1>2. CASE spent' = spent
  BY <1>2
<1>3. CASE spent' # spent
  <2>1. \E i \in {"cost", "unknown"} : spent' = Bump(spent, i)
    <3>1. CASE Reply
      BY <1>3, <3>1, ReplyCounts
    <3>2. CASE Crash
      BY <1>3, <3>2 DEF Crash
    <3>3. CASE ~Reply /\ ~Crash
      BY <1>3, <3>3 DEF Next, vars, ghosts, Start, Resume, BeginSession, TurnRefused,
         RequestRefused, SendRequest, ReplyAnswered, Cancel, Fail, Finalize, Save, Finish,
         WriteSummary, WriteMarker, Vanish
    <3> QED BY <3>1, <3>2, <3>3
  <2> QED BY <1>1, <2>1, UsageBump DEF Keys
<1> QED BY <1>2, <1>3

\* A turn or a tool call below the cap of what the process counts is one below
\* the cap of what was consumed.
LEMMA EffortStep ==
  ASSUME TypeInv, CountInv, HistoryAllowed, EffortCapped, [Next]_vars
  PROVE  EffortCapped'
<1> SUFFICES ASSUME ~forgotten', NEW k \in Effort, caps'[k] # NoCap
             PROVE  spent'[k] <= caps'[k]
  BY DEF EffortCapped
<1>1. ~forgotten /\ caps' = caps /\ k \in Keys /\ k \in {"turns", "calls", "cost"}
  BY GhostsGrow DEF Next, vars, Effort, Keys
<1>2. caps[k] \in Nat /\ spent[k] \in Nat /\ total[k] \in Nat /\ spent[k] <= caps[k]
  BY <1>1, CapTypes DEF EffortCapped
<1>3. CASE ~(Turn \/ ToolCall) \/ spent' = spent
  <2>1. spent'[k] = spent[k]
    BY <1>3, EffortKept
  <2> QED BY <1>1, <1>2, <2>1
<1>4. CASE (Turn \/ ToolCall) /\ spent' # spent
  <2>1. PICK i \in Effort : spent' = Bump(spent, i) /\ ~Reached(i)
    BY <1>4 DEF Turn, ToolCall, Effort
  <2>2. i \in Keys /\ spent \in Usage
    BY DEF Effort, Keys, TypeInv, TypeTotals
  <2>3. CASE i # k
    <3>1. spent'[k] = spent[k]
      BY <1>1, <2>1, <2>2, <2>3, UsageBump
    <3> QED BY <1>1, <1>2, <3>1
  <2>4. CASE i = k
    <3>1. spent'[k] = spent[k] + 1
      BY <2>1, <2>2, <2>4, UsageBump
    <3>2. pc \in Live /\ ~HistoryRefused
      BY <1>4 DEF Turn, ToolCall, HistoryAllowed, Live, InSession
    <3>3. known
      BY <1>1, <3>2 DEF HistoryRefused
    <3>4. total[k] >= spent[k]
      BY <1>1, <3>2, <3>3 DEF CountInv, Counts, MemoryCounts
    <3>5. ~(total[k] >= caps[k])
      BY <1>1, <2>1, <2>4 DEF Reached
    <3> QED BY <1>1, <1>2, <3>1, <3>4, <3>5
  <2> QED BY <2>3, <2>4
<1> QED BY <1>3, <1>4

\* A request is sent below the cost cap, and with nothing of unknown cost.
LEMMA CostStep ==
  ASSUME TypeInv, CountInv, HistoryAllowed, CostCapped, [Next]_vars
  PROVE  CostCapped'
<1> SUFFICES ASSUME ~forgotten', ~blurred', caps'.cost # NoCap
             PROVE  IF pc' = "sent" THEN spent'["cost"] < caps'.cost /\ spent'["unknown"] = 0
                    ELSE spent'["cost"] <= caps'.cost /\ spent'["unknown"] <= 1
  BY DEF CostCapped
<1>1. /\ ~forgotten /\ ~blurred /\ caps' = caps /\ "cost" \in Keys /\ "unknown" \in Keys
      /\ spent \in Usage
  BY GhostsGrow DEF Next, vars, Keys, TypeInv, TypeTotals
<1>2. /\ caps.cost \in Nat /\ spent["cost"] \in Nat /\ spent["unknown"] \in Nat
      /\ total["cost"] \in Nat /\ total["unknown"] \in Nat
  BY <1>1, CapTypes
<1>3. IF pc = "sent" THEN spent["cost"] < caps.cost /\ spent["unknown"] = 0
      ELSE spent["cost"] <= caps.cost /\ spent["unknown"] <= 1
  BY <1>1 DEF CostCapped
<1>4. CASE SendRequest
  <2>1. spent' = spent
    BY <1>4 DEF SendRequest
  <2>2. spent["cost"] < caps.cost /\ spent["unknown"] = 0
    <3>1. pc = "request" /\ ~BudgetRefused(total)
      BY <1>4 DEF SendRequest
    <3>2. ~HistoryRefused /\ ~(total["unknown"] > 0) /\ ~(total["cost"] >= caps.cost)
      BY <1>1, <3>1 DEF BudgetRefused
    <3>3. known /\ pc \in Live
      BY <1>1, <3>1, <3>2 DEF HistoryRefused, Live, InSession
    <3>4. total["cost"] >= spent["cost"] /\ total["unknown"] >= spent["unknown"]
      BY <1>1, <3>3 DEF CountInv, Counts, MemoryCounts
    <3> QED BY <1>2, <3>2, <3>4
  <2> QED BY <1>1, <1>2, <2>1, <2>2
<1>5. CASE Reply \/ Crash
  <2>1. /\ pc' # "sent"
        /\ \/ spent' = spent
           \/ pc = "sent" /\ \E i \in {"cost", "unknown"} : spent' = Bump(spent, i)
    <3>1. CASE Reply
      BY <3>1, ReplyCounts
    <3>2. CASE Crash
      BY <3>2 DEF Crash, ProcessOver
    <3> QED BY <1>5, <3>1, <3>2
  <2>2. CASE spent' = spent
    BY <1>1, <1>2, <1>3, <2>1, <2>2
  <2>3. CASE spent' # spent
    <3>1. PICK i \in {"cost", "unknown"} : spent' = Bump(spent, i)
      BY <2>1, <2>3
    <3>2. pc = "sent"
      BY <2>1, <2>3
    <3>3. /\ spent'["cost"] = spent["cost"] + (IF i = "cost" THEN 1 ELSE 0)
          /\ spent'["unknown"] = spent["unknown"] + (IF i = "unknown" THEN 1 ELSE 0)
      BY <1>1, <3>1, BumpedUsage
    <3> QED BY <1>1, <1>2, <1>3, <2>1, <3>2, <3>3
  <2> QED BY <2>2, <2>3
<1>6. CASE ~(SendRequest \/ Reply \/ Crash)
  <2>1. spent' = spent \/ \E i \in Effort : spent' = Bump(spent, i)
    BY <1>6 DEF Next, vars, ghosts, Effort, Start, Resume, BeginSession, TurnRefused, Turn,
         RequestRefused, ToolCall, ReplyAnswered, Cancel, Fail, Finalize, Save, Finish,
         WriteSummary, WriteMarker, Vanish
  <2>2. spent'["cost"] = spent["cost"] /\ spent'["unknown"] = spent["unknown"]
    BY <1>1, <2>1, UsageBump DEF Effort, Keys
  <2>3. pc' = "sent" <=> pc = "sent"
    BY <1>6 DEF Next, vars, Start, Resume, BeginSession, TurnRefused, Turn,
         RequestRefused, ToolCall, ReplyAnswered, Cancel, Fail, Finalize, Save, Finish,
         WriteSummary, WriteMarker, Vanish, EndSession, ProcessOver
  <2> QED BY <1>1, <1>3, <2>2, <2>3
<1> QED BY <1>4, <1>5, <1>6

LEMMA AccountInit == Init => AccountInv
<1> SUFFICES ASSUME Init PROVE AccountInv
  OBVIOUS
<1>1. /\ pc = "new" /\ total = Zero /\ own = Zero /\ spent = Zero /\ ~forgotten
      /\ ~journal /\ ~marked /\ summary = NoSummary
      /\ \A s \in Sessions : tail[s] = Blank /\ book[s] = NoRecord
  BY DEF Init
<1>2. SessionInv /\ FreshInv /\ MarkingInv
  BY <1>1 DEF SessionInv, FreshInv, MarkingInv, InNode, InSession
<1>3. ~Believed /\ Recorded = {} /\ pc \notin Live /\ pc \notin InNode
  BY <1>1 DEF Believed, Recorded, Live, InNode, InSession
<1>4. CountInv
  BY <1>3 DEF CountInv, Counts, Exact, OwnCounts, OwnExact, MemoryCounts, MemoryExact,
              FilesCount, FilesExact
<1>5. CapInv
  <2>1. TypeInv
    BY TypeInit
  <2>2. \A k \in {"turns", "calls", "cost"} : caps[k] # NoCap => caps[k] \in Nat
    BY <2>1, CapTypes
  <2>3. \A k \in Keys : spent[k] = 0
    BY <1>1, ZeroType
  <2> QED BY <1>1, <2>2, <2>3 DEF CapInv, HistoryAllowed, EffortCapped, CostCapped, Effort, Keys
<1> QED BY <1>2, <1>4, <1>5 DEF AccountInv

LEMMA AccountStep == TypeInv /\ IInv /\ AccountInv /\ [Next]_vars => AccountInv'
<1> SUFFICES ASSUME TypeInv, IInv, AccountInv, [Next]_vars PROVE AccountInv'
  OBVIOUS
<1>1. CountInv'
  BY CountStep
<1>2. SessionInv' /\ FreshInv' /\ MarkingInv'
  BY SessionInvStep, FreshStep DEF AccountInv
<1>3. CapInv'
  BY AllowedStep, EffortStep, CostStep DEF AccountInv, CapInv
<1> QED BY <1>1, <1>2, <1>3 DEF AccountInv

\* What is trusted of the accounts at every moment.
LEMMA Accounted == Spec => [](TypeInv /\ AccountInv)
<1>1. Init => TypeInv /\ IInv /\ AccountInv
  BY TypeInit, InitInv, AccountInit
<1>2. TypeInv /\ IInv /\ AccountInv /\ [Next]_vars => (TypeInv /\ IInv /\ AccountInv)'
  BY TypeStep, NextInv, AccountStep
<1> QED BY <1>1, <1>2, PTL DEF Spec

\* Whatever crashed and whatever file was lost, the caps bound what all the
\* processes of a run consume together (docs/running_inference.md:542 "Missing
\* cost under a configured cap stops the run").
THEOREM CapsBoundTheRun == Spec => []CapsHold
<1>1. TypeInv /\ AccountInv => CapsHold
  <2> SUFFICES ASSUME TypeInv, EffortCapped, CostCapped, ~forgotten PROVE CapsHold
    BY DEF AccountInv, CapInv, CapsHold
  <2>1. \A k \in {"turns", "calls"} : caps[k] # NoCap => spent[k] <= caps[k]
    BY DEF EffortCapped, Effort
  <2>2. caps.cost # NoCap /\ ~blurred => spent["cost"] <= caps.cost /\ spent["unknown"] <= 1
    <3>1. /\ caps.cost # NoCap => caps.cost \in Nat
          /\ spent["cost"] \in Nat /\ spent["unknown"] \in Nat
      BY CapTypes DEF Keys
    <3> QED BY <3>1 DEF CostCapped
  <2> QED BY <2>1, <2>2 DEF CapsHold
<1> QED BY <1>1, Accounted, PTL

\* Totals that claim to be known never miss a turn or a tool call, and are
\* exact unless a process died between a count and its record
\* (request_journal.py UnrecordedEffort).
THEOREM EffortIsCounted == Spec => []EffortCounted
<1>1. AccountInv => EffortCounted
  BY DEF AccountInv, CountInv, Counts, Exact, MemoryCounts, MemoryExact, EffortCounted, Effort,
         Keys
<1> QED BY <1>1, Accounted, PTL

\* As long as no request was abandoned and the journal could be written, no
\* spend is missing from totals that claim to be known, in whichever process.
THEOREM SpendIsAccounted == Spec => []SpendAccounted
<1>1. AccountInv => SpendAccounted
  BY DEF AccountInv, CountInv, Counts, MemoryCounts, SpendAccounted, SpendKnown, Keys, Live,
         InSession
<1> QED BY <1>1, Accounted, PTL
=============================================================================
