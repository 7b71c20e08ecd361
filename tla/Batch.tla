------------------------------- MODULE Batch -------------------------------
(***************************************************************************)
(* The serial experiment launcher and the whole-batch ledger.              *)
(*                                                                         *)
(* A plan lists trials, each of one arm; an arm may have a ceiling on its  *)
(* cost and on its wall time.  The launcher takes the trials in order; for *)
(* each it reads what every trial of the plan left in its run directory,   *)
(* refuses to launch or runs one subprocess, records the decision, has the *)
(* trial evaluated and goes on.  It can be run again on the same plan.     *)
(*                                                                         *)
(* The launcher and its subprocess can die at any step (together: a        *)
(* subprocess that outlives its launcher is left out), the operator can    *)
(* interrupt it, or a journal can be damaged.                              *)
(*                                                                         *)
(* Abstracted: money and time are small numbers; a run is its requests     *)
(* (ResumeAccounting has the rest), stops itself at its own cost cap, and  *)
(* a provider error that is retried bills nothing; the evaluator is an     *)
(* outside program that writes any stage gate or none.  Tokens, turns and  *)
(* tool calls are summed as the costs are, and are left out, and so is the *)
(* outcome a run is filed under.                                           *)
(***************************************************************************)
EXTENDS Naturals, Sequences, FiniteSets, Functions

CONSTANTS
  Arms,
  Trial,        \* the plan: a sequence of trials
  Ceiling,      \* of each arm: [cost, wall]
  RunCap,       \* the run's own cost cap
  MaxResponse,  \* what one response costs at most
  MaxRequests,  \* bound: requests of one run
  MaxFaults,    \* bound: crashes, interruptions and damage
  None          \* no ceiling, no reservation, no required trial

Trials == 1..Len(Trial)

Amount == Nat \cup {None}
Limits == [cost : Amount, wall : Amount]

ASSUME BatchAssumption ==
  /\ None \notin Nat
  /\ {RunCap, MaxResponse, MaxRequests} \subseteq Nat /\ MaxFaults \in Nat
  /\ Ceiling \in [Arms -> Limits]
  /\ Trial \in Seq([arm : Arms, reserve : Limits, evaluated : BOOLEAN,
                    needs : Nat \cup {None}])
  \* load_plan: a required trial is an earlier one of the plan.
  /\ \A t \in Trials : Trial[t].needs # None => Trial[t].needs \in 1..(t - 1)

VARIABLES
  \* the run directories
  dir,      \* "absent", "empty", or "used": it holds a file
  journal,  \* "none", "open" or "damaged"
  paid,     \* journaled spend
  unpriced, \* journaled requests whose spend is not known
  pending,  \* is there a request without its end?
  summary,  \* "none", "interrupted" or "done"
  marked,   \* does the journal say the summary covers it?
  result,   \* is there a result.json?
  gate,     \* did the evaluation write a stage gate that says usable?
  timed,    \* first "finished" or "launcher_interrupted" event of a trial
  \* the launcher
  pc,
  cur,      \* the trial in hand
  faults,
  \* ghosts
  starts,   \* subprocesses started
  spent,    \* what the trial really cost
  took      \* how long it really ran

run == <<journal, paid, unpriced, pending, summary, marked, result>>
disk == <<dir, run, gate, timed>>
vars == <<disk, pc, cur, faults, starts, spent, took>>

SumOf(f, S) == SumFunctionOnSet(f, S)

InArm(a) == {t \in Trials : Trial[t].arm = a}

-----------------------------------------------------------------------------
(* read_run_resources: what a run directory says was spent *)

Present(t) == dir[t] = "used"

Unreadable(t) == journal[t] = "damaged"

\* MUTANT of UnknownCost: a request whose end is missing cost nothing.
UnknownCostEnded(t) == unpriced[t]

\* The larger of the reconciled count and the journal's own.
UnknownCost(t) ==
  LET counted == unpriced[t] + IF pending[t] THEN 1 ELSE 0
  IN IF summary[t] # "none" /\ ~marked[t] THEN 2 * counted ELSE counted

\* Until the marker is written the summary does not cover the journal, and a
\* reader adds the two.
KnownCost(t) ==
  IF journal[t] = "none" THEN 0
  ELSE IF summary[t] # "none" /\ ~marked[t] THEN 2 * paid[t] ELSE paid[t]

\* effort_counts_known: a directory with files and no journal says nothing.
HistoryCertified(t) == ~Present(t) \/ journal[t] # "none"

CostKnown(t) == HistoryCertified(t) /\ UnknownCost(t) = 0

(* build_ledger and batch_totals *)

Readable(a) == {t \in InArm(a) : ~Unreadable(t)}

ArmKnownCost(a) == SumFunction([t \in Readable(a) |-> KnownCost(t)])
ArmCostKnown(a) == \A t \in Readable(a) : CostKnown(t)
ArmErrors(a) == InArm(a) # Readable(a)

\* Wall time is known when the launcher measured it, or nothing ran.
WallKnown(t) ==
  ~Unreadable(t) /\ (Present(t) => timed[t].event = "finished")
Wall(t) == IF Present(t) THEN timed[t].wall ELSE 0

ArmWallKnown(a) == \A t \in InArm(a) : WallKnown(t)
ArmWall(a) == SumFunction([t \in InArm(a) |-> Wall(t)])

-----------------------------------------------------------------------------
(* refusal: the reasons not to launch, each checked once those before it   *)
(* do not hold                                                             *)

\* MUTANT of NotEmpty: only a trial that wrote its result is not run again.
HasResult(t) == result[t]

NotEmpty(t) == dir[t] = "used"

RequiresUsable(t) ==
  Trial[t].needs # None /\ ~gate[Trial[t].needs]

\* MUTANT of Exceeds: what is spent already, without what is reserved.
ExceedsAlready(used, reserved, ceiling) == used > ceiling

Exceeds(used, reserved, ceiling) == used + reserved > ceiling

CostRefused(t) ==
  LET a == Trial[t].arm
      reserved == Trial[t].reserve.cost
  IN /\ Ceiling[a].cost # None
     /\ \/ ~ArmCostKnown(a)
        \/ reserved = None
        \/ Exceeds(ArmKnownCost(a), reserved, Ceiling[a].cost)

WallRefused(t) ==
  LET a == Trial[t].arm
      reserved == Trial[t].reserve.wall
  IN /\ Ceiling[a].wall # None
     /\ \/ ~ArmWallKnown(a)
        \/ reserved = None
        \/ Exceeds(ArmWall(a), reserved, Ceiling[a].wall)

Refused(t) ==
  \/ NotEmpty(t)
  \/ RequiresUsable(t)
  \/ ArmErrors(Trial[t].arm)
  \/ CostRefused(t)
  \/ WallRefused(t)

-----------------------------------------------------------------------------
(* The launcher: run_plan *)

Untimed == [event |-> "none", wall |-> 0]

Init ==
  /\ dir = [t \in Trials |-> "absent"]
  /\ journal = [t \in Trials |-> "none"]
  /\ paid = [t \in Trials |-> 0] /\ unpriced = [t \in Trials |-> 0]
  /\ pending = [t \in Trials |-> FALSE]
  /\ summary = [t \in Trials |-> "none"] /\ marked = [t \in Trials |-> FALSE]
  /\ result = [t \in Trials |-> FALSE]
  /\ gate = [t \in Trials |-> FALSE]
  /\ timed = [t \in Trials |-> Untimed]
  /\ pc = "off" /\ cur = 1 /\ faults = 0
  /\ starts = [t \in Trials |-> 0]
  /\ spent = [t \in Trials |-> 0] /\ took = [t \in Trials |-> 0]

Start ==
  /\ pc = "off"
  /\ pc' = "decide" /\ UNCHANGED cur
  /\ UNCHANGED <<disk, faults, starts, spent, took>>

Advance == IF cur < Len(Trial)
           THEN pc' = "decide" /\ cur' = cur + 1
           ELSE pc' = "off" /\ cur' = 1

Refuse ==
  /\ pc = "decide" /\ Refused(cur)
  /\ Advance
  /\ UNCHANGED <<disk, faults, starts, spent, took>>

\* The run directory is made and the launch is recorded.
Launch ==
  /\ pc = "decide" /\ ~Refused(cur)
  /\ dir' = [dir EXCEPT ![cur] = IF @ = "absent" THEN "empty" ELSE @]
  /\ pc' = "launched"
  /\ UNCHANGED <<run, gate, timed, cur, faults, starts, spent, took>>

\* _run: the log files are opened, then the subprocess starts.
Spawn ==
  /\ pc = "launched"
  /\ dir' = [dir EXCEPT ![cur] = "used"]
  /\ starts' = [starts EXCEPT ![cur] = @ + 1]
  /\ pc' = "running"
  /\ UNCHANGED <<run, gate, timed, cur, faults, spent, took>>

\* The first event about a trial's end is the one the ledger reads.
Record(event, wall) ==
  timed' = IF timed[cur] = Untimed
           THEN [timed EXCEPT ![cur] = [event |-> event, wall |-> wall]]
           ELSE timed

\* The subprocess has ended and its time is measured; the event is appended.
Finish ==
  /\ pc = "ended"
  /\ Record("finished", took[cur])
  /\ pc' = "evaluate"
  /\ UNCHANGED <<dir, run, gate, cur, faults, starts, spent, took>>

Evaluate ==
  /\ pc = "evaluate"
  /\ \E usable \in IF Trial[cur].evaluated THEN BOOLEAN ELSE {gate[cur]} :
       gate' = [gate EXCEPT ![cur] = usable]
  /\ Advance
  /\ UNCHANGED <<dir, run, timed, faults, starts, spent, took>>

-----------------------------------------------------------------------------
(* The subprocess: one run *)

Requests(t) == paid[t] + unpriced[t]

OpenJournal ==
  /\ pc = "running" /\ journal[cur] = "none"
  /\ journal' = [journal EXCEPT ![cur] = "open"]
  /\ UNCHANGED <<dir, paid, unpriced, pending, summary, marked, result, gate,
                 timed, pc, cur, faults, starts, spent, took>>

Working ==
  pc = "running" /\ journal[cur] # "none" /\ summary[cur] = "none"
    /\ ~result[cur]

\* The run stops asking at its own cap, and once a cost is unknown.
Send ==
  /\ Working /\ ~pending[cur]
  /\ paid[cur] < RunCap /\ unpriced[cur] = 0 /\ Requests(cur) < MaxRequests
  /\ pending' = [pending EXCEPT ![cur] = TRUE]
  /\ UNCHANGED <<dir, journal, paid, unpriced, summary, marked, result, gate,
                 timed, pc, cur, faults, starts, spent, took>>

\* A response is billed; its cost is in the reply, or it is not.
Answer ==
  /\ Working /\ pending[cur]
  /\ \E c \in 1..MaxResponse :
       /\ spent' = [spent EXCEPT ![cur] = @ + c]
       /\ \/ /\ paid' = [paid EXCEPT ![cur] = @ + c]
             /\ UNCHANGED unpriced
          \/ /\ unpriced' = [unpriced EXCEPT ![cur] = @ + 1]
             /\ UNCHANGED paid
  /\ pending' = [pending EXCEPT ![cur] = FALSE]
  /\ UNCHANGED <<dir, journal, summary, marked, result, gate, timed, pc,
                 cur, faults, starts, took>>

\* A run that completes writes its result, then its summary; one that a cap
\* stops writes a summary only.
WriteResult ==
  /\ Working /\ ~pending[cur]
  /\ result' = [result EXCEPT ![cur] = TRUE]
  /\ UNCHANGED <<dir, journal, paid, unpriced, pending, summary, marked, gate,
                 timed, pc, cur, faults, starts, spent, took>>

WriteSummary ==
  /\ pc = "running" /\ journal[cur] # "none" /\ summary[cur] = "none"
  /\ ~pending[cur]
  /\ summary' = [summary EXCEPT ![cur] =
                   IF result[cur] THEN "done" ELSE "interrupted"]
  /\ UNCHANGED <<dir, journal, paid, unpriced, pending, marked, result, gate,
                 timed, pc, cur, faults, starts, spent, took>>

Mark ==
  /\ pc = "running" /\ summary[cur] # "none" /\ ~marked[cur]
  /\ marked' = [marked EXCEPT ![cur] = TRUE]
  /\ UNCHANGED <<dir, journal, paid, unpriced, pending, summary, result, gate,
                 timed, pc, cur, faults, starts, spent, took>>

\* How long a run may take is not kept by the run, only reserved.
Durations(t) == 0..(IF Trial[t].reserve.wall = None THEN 0
                    ELSE Trial[t].reserve.wall)

\* In-flight work that no one will hear the end of is billed or not.
Bill == IF pending[cur]
        THEN \E c \in 0..MaxResponse : spent' = [spent EXCEPT ![cur] = @ + c]
        ELSE UNCHANGED spent

\* The subprocess exits: in order, or by failing at any point.
Exit ==
  /\ pc = "running"
  /\ marked[cur] \/ faults < MaxFaults
  /\ faults' = IF marked[cur] THEN faults ELSE faults + 1
  /\ \E d \in Durations(cur) : took' = [took EXCEPT ![cur] = d]
  /\ Bill
  /\ pc' = "ended"
  /\ UNCHANGED <<disk, cur, starts>>

-----------------------------------------------------------------------------
(* Faults *)

\* Ctrl-C while the subprocess runs: it is killed, the launcher says so.
Interrupt ==
  /\ pc = "running" /\ faults < MaxFaults
  /\ faults' = faults + 1
  /\ \E d \in Durations(cur) :
       /\ took' = [took EXCEPT ![cur] = d]
       /\ Record("launcher_interrupted", d)
  /\ Bill
  /\ pc' = "off" /\ cur' = 1
  /\ UNCHANGED <<dir, run, gate, starts>>

\* The machine goes down under the launcher and its subprocess.
Crash ==
  /\ pc # "off" /\ faults < MaxFaults
  /\ faults' = faults + 1
  /\ IF pc = "running"
     THEN /\ \E d \in Durations(cur) : took' = [took EXCEPT ![cur] = d]
          /\ Bill
     ELSE UNCHANGED <<took, spent>>
  /\ pc' = "off" /\ cur' = 1
  /\ UNCHANGED <<disk, starts>>

\* A journal is damaged before its last line.
Damage ==
  /\ pc = "off" /\ faults < MaxFaults
  /\ \E t \in Trials :
       /\ journal[t] = "open"
       /\ journal' = [journal EXCEPT ![t] = "damaged"]
  /\ faults' = faults + 1
  /\ UNCHANGED <<dir, paid, unpriced, pending, summary, marked, result, gate,
                 timed, pc, cur, starts, spent, took>>

Next ==
  \/ Start \/ Refuse \/ Launch \/ Spawn \/ Finish \/ Evaluate
  \/ OpenJournal \/ Send \/ Answer \/ WriteResult \/ WriteSummary \/ Mark \/ Exit
  \/ Interrupt \/ Crash \/ Damage

Spec == Init /\ [][Next]_vars

-----------------------------------------------------------------------------
(* Properties *)

\* The state is well formed; an unfinished subprocess is the one in hand.
TypeOK ==
  /\ dir \in [Trials -> {"absent", "empty", "used"}]
  /\ journal \in [Trials -> {"none", "open", "damaged"}]
  /\ paid \in [Trials -> 0..(RunCap + MaxResponse)]
  /\ unpriced \in [Trials -> 0..1] /\ pending \in [Trials -> BOOLEAN]
  /\ summary \in [Trials -> {"none", "interrupted", "done"}]
  /\ {marked, result, gate} \subseteq [Trials -> BOOLEAN]
  /\ \A t \in Trials : timed[t].event \in
       {"none", "finished", "launcher_interrupted"}
  /\ pc \in {"off", "decide", "launched", "running", "ended", "evaluate"}
  /\ cur \in Trials /\ faults \in 0..MaxFaults
  /\ {starts, spent, took} \subseteq [Trials -> Nat]

\* "The run dir already has artifacts: never re-run a trial". Whatever the
\* launcher, its subprocess and the operator do, and however often the plan is
\* run, one subprocess at most was started in a trial's directory.
OneRunPerTrial == \A t \in Trials : starts[t] <= 1

\* An arm's ceiling bounds what the arm really spent and how long it really
\* ran, the runs that died with a request in flight included, when a
\* reservation covers the run's own cap and one response (the plan's duty).
Reserved(t) ==
  Trial[t].reserve.cost # None => Trial[t].reserve.cost >= RunCap + MaxResponse

CeilingHolds == \A a \in Arms :
  (\A t \in InArm(a) : Reserved(t)) =>
    /\ Ceiling[a].cost # None => SumOf(spent, InArm(a)) <= Ceiling[a].cost
    /\ Ceiling[a].wall # None => SumOf(took, InArm(a)) <= Ceiling[a].wall

\* An unknown quantity is never read as zero: when the ledger of an arm has no
\* unreadable history and says its cost is known, that cost is at least what
\* was really spent; and it is exactly that unless a run died between its
\* summary and the marker, when it is counted twice.
NeverUnderstated == \A a \in Arms :
  ~ArmErrors(a) /\ ArmCostKnown(a) =>
    /\ ArmKnownCost(a) >= SumOf(spent, InArm(a))
    /\ (\A t \in InArm(a) : summary[t] # "none" => marked[t]) =>
         ArmKnownCost(a) = SumOf(spent, InArm(a))

\* What the batch says of an arm's resources is never less than they were.
LedgerHolds == CeilingHolds /\ NeverUnderstated

\* A total of an arm's cost is the total of all its trials.
\* tools/experiment_batch.py says what is refused; docs/research/
\* model_diagnostic_design.md:373 says of the ledger "Unknown cost makes
\* total_cost_usd null; it is never summed as zero."
TotalIsOfAll == \A a \in Arms :
  ArmCostKnown(a) => ArmKnownCost(a) >= SumOf(spent, InArm(a))
=============================================================================
