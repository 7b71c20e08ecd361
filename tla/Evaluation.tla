----------------------------- MODULE Evaluation -----------------------------
(***************************************************************************)
(* What a report may conclude from the files of a run.                     *)
(*                                                                         *)
(* A run's processes leave a trajectory file, which only grows, and two    *)
(* files that are replaced as a whole: result.json at the end of a walk,   *)
(* and run_summary.json at the end of any process that is not killed.  A   *)
(* reader comes at any time, to score every planned node: it must say      *)
(* which words a model committed, which an identity fallback left, which   *)
(* are missing, and which committed words were built on a fallback.        *)
(*                                                                         *)
(* Abstracted: a commit, its trajectory and its checkpoint entry are one   *)
(* step (FamilyRun splits them); all records are of one run; a reasoning   *)
(* label, a cost or a rate is left out.  A checkpoint is always in use.    *)
(***************************************************************************)
EXTENDS Scoring

CONSTANTS
  Order,           \* the internal nodes of the planned tree, in post-order
  Below,           \* the internal nodes below each
  Kids,            \* its internal children
  Binding,         \* the gold forms of each target node's concepts
  Observed,        \* the words the leaves below it show for each concept
  Outputs,         \* what a session may commit: candidates per concept
  FallbackOutput,  \* what the identity fallback leaves
  MaxFailedNodes, MaxEnds, MaxAttempts  \* bounds; the last two are the model's

Nodes == ToSet(Order)
NoStep == NotScored

\* A step names its node; a file that is not there has none of its fields.
Steps == [node : Nodes, fallback : BOOLEAN, output : Outputs \cup {FallbackOutput}]
NoFile == [status |-> "no file"]

ASSUME EvaluationAssumption ==
  /\ Order \in Seq(Nodes) /\ NoStep \notin Steps
  /\ \A i, j \in DOMAIN Order : Order[i] = Order[j] => i = j
  /\ \A i \in DOMAIN Order : Below[Order[i]] \subseteq {Order[j] : j \in 1..(i - 1)}
  /\ \A n \in Nodes : /\ Kids[n] \subseteq Below[n]
                      /\ Below[n] = Kids[n] \cup UNION {Below[c] : c \in Kids[n]}
  /\ DOMAIN Binding \subseteq Nodes

VARIABLES
  pc,            \* "idle", "walk", "written" (result.json is), "down", "killed", "complete"
  cursor,        \* the node in hand
  steps,         \* the steps this process recorded
  mine,          \* the trajectories it loaded or appended, by position
  failed,        \* its node_failures
  checkpoint,    \* steps that rest on no fallback
  trajectories,  \* trajectories.jsonl
  result, summary,
  ends,          \* how many processes ended early (bound)
  built          \* ghost: per trajectory, the fallbacks below it at the time

files == <<trajectories, result, summary>>
vars == <<pc, cursor, steps, mine, failed, checkpoint, files, ends, built>>

Step(n, fallback, output) == [node |-> n, fallback |-> fallback, output |-> output]
NoSteps == [n \in Nodes |-> NoStep]

Init ==
  /\ pc = "idle" /\ cursor = 1 /\ steps = NoSteps /\ mine = {} /\ failed = {}
  /\ checkpoint = NoSteps /\ trajectories = <<>> /\ built = <<>>
  /\ result = NoFile /\ summary = NoFile /\ ends = 0

\* The scores of every step a target may be left with.
Scored == {[target |-> n, step |-> step,
            score |-> EvaluateTarget(Binding[n], step, Observed[n])] :
             n \in DOMAIN Binding, step \in Steps \cup {NoStep}}
Score(n, step) == (CHOOSE s \in Scored : s.target = n /\ s.step = step).score

-----------------------------------------------------------------------------
(* run.py: reading                                                         *)

\* MUTANT of LoadResultOrSummary: a result is always the last word.
LoadResult(res, sum) == IF res # NoFile THEN res ELSE sum

\* load_result_or_summary: an interruption overrides a result from before it.
LoadResultOrSummary(res, sum) ==
  IF sum # NoFile /\ sum.status = "interrupted" THEN sum
  ELSE IF res # NoFile THEN res ELSE sum

\* MUTANT of Active: every attempt in the file speaks.
ActiveAll(file, log) == DOMAIN log

\* The trajectories that are of the attempt that wrote this file.
Active(file, log) == IF file = NoFile THEN DOMAIN log ELSE file.active \cap DOMAIN log

\* The latest record of each node.
Latest(file, log) ==
  LET of(n) == {i \in Active(file, log) : log[i].node = n}
  IN [n \in {log[i].node : i \in Active(file, log)} |-> log[Max(of(n))]]

Completed(latest) == {n \in DOMAIN latest : latest[n].completed}
Snapshot(file) == IF file = NoFile THEN NoSteps ELSE file.snapshot
Failures(file) == IF file = NoFile THEN {} ELSE file.failures

\* A completed record whose step differs from the saved one is refused.
Conflicting(file, latest) ==
  \E n \in Completed(latest) : /\ NoStep \notin {Snapshot(file)[n], latest[n].step}
                               /\ Snapshot(file)[n] # latest[n].step

\* A step that is in no snapshot is salvaged from its completed record.
StepsRead(file, latest) ==
  [n \in Nodes |-> IF Snapshot(file)[n] # NoStep THEN Snapshot(file)[n]
                   ELSE IF n \in Completed(latest) THEN latest[n].step ELSE NoStep]

DirectFallbacks(read, failures) ==
  failures \cup {n \in Nodes : read[n] # NoStep /\ read[n].fallback}

\* Both tables are read from the first row that applies.
Operational(n, read, latest, direct) ==
  IF n \in direct THEN "identity_fallback"
  ELSE IF n \in Completed(latest) /\ read[n] # NoStep THEN "committed"
  ELSE IF n \in Completed(latest) THEN "committed_without_saved_output"
  ELSE IF read[n] # NoStep THEN "unknown_commitment"
  ELSE IF n \in DOMAIN latest THEN "failed_no_output" ELSE "unvisited_or_missing"

OutputKind(n, read, latest, direct) ==
  IF n \in direct THEN "identity_fallback"
  ELSE IF n \in Completed(latest) THEN "committed"
  ELSE IF read[n] = NoStep THEN "missing" ELSE "unknown_commitment"

\* MUTANT of DescendantFallbacks: only the children are looked at.
ChildFallbacks(n, direct) == Kids[n] \cap direct

DescendantFallbacks(n, direct) == Below[n] \cap direct

\* summarize: what was planned is committed, fallback, of unknown commitment
\* or missing; a model's hits are those at committed nodes.
Total(targets, S, field(_)) == FoldSet(LAMBDA n, sum : field(targets[n].evaluation) + sum, 0, S)
Summarize(targets) ==
  LET of(kind) == {n \in DOMAIN targets : targets[n].kind = kind}
      outputs(e) == e.evaluated - e.missing
  IN [planned |-> Total(targets, DOMAIN targets, LAMBDA e : e.evaluated),
      available |-> Total(targets, DOMAIN targets, outputs),
      committedPlan |-> Total(targets, of("committed"), LAMBDA e : e.evaluated),
      committed |-> Total(targets, of("committed"), outputs),
      fallback |-> Total(targets, of("identity_fallback"), outputs),
      unknown |-> Total(targets, of("unknown_commitment"), outputs),
      modelHits |-> Total(targets, of("committed"), LAMBDA e : e.topHits),
      allHits |-> Total(targets, DOMAIN targets, LAMBDA e : e.topHits)]

RunStatus(file, operational, direct) ==
  IF file = NoFile THEN "abandoned_no_result"
  ELSE IF file.status = "interrupted" THEN "interrupted"
  ELSE IF \E n \in Nodes : operational[n] \notin {"committed", "identity_fallback"}
  THEN "result_written_incomplete_or_unknown"
  ELSE IF direct # {} THEN "finished_with_fallbacks" ELSE "finished"

\* evaluate_run: from the latest records, the steps read and the fallbacks.
Targets(latest, read, direct) ==
  [n \in DOMAIN Binding |-> [kind |-> OutputKind(n, read, latest, direct),
                            flagged |-> DescendantFallbacks(n, direct),
                            evaluation |-> Score(n, read[n])]]
Reported(file, latest, read, direct, targets) ==
  LET operational == [n \in Nodes |-> Operational(n, read, latest, direct)]
  IN [status |-> RunStatus(file, operational, direct), operational |-> operational,
      completed |-> {n \in Completed(latest) \ direct : read[n] # NoStep},
      attempted |-> DOMAIN latest, targets |-> targets, totals |-> Summarize(targets)]
Evaluate(file, log) ==
  LET latest == Latest(file, log)
      read == StepsRead(file, latest)
      direct == DirectFallbacks(read, Failures(file))
  IN IF Conflicting(file, latest) THEN [status |-> "conflicting saved steps"]
     ELSE Reported(file, latest, read, direct, Targets(latest, read, direct))

Report == Evaluate(LoadResultOrSummary(result, summary), trajectories)

SeedOf(latest, file, log) ==
  [attempted |-> {log[i].node : i \in DOMAIN log},
   unattempted |-> Nodes \ DOMAIN latest,
   completed |-> {n \in Completed(latest) : latest[n].step # NoStep},
   committed |-> Completed(latest) \ Failures(file), fallbacks |-> Failures(file)]

\* MUTANT of ReadSeed: the outcome of a node is that of its last attempt.
ReadSeedOfAll(file, log) == SeedOf(Latest(NoFile, log), file, log)

\* sweep.py, read_seed: the counts of one repetition.  Effort is of every
\* attempt, outcomes are of the latest.
ReadSeed(file, log) == SeedOf(Latest(file, log), file, log)

-----------------------------------------------------------------------------
(* service.py, cli.py: what a process leaves                               *)

\* _lifecycle_summary, beside the steps and failures of this process.
Saved(bare, report) ==
  [status |-> IF bare.status = "interrupted" THEN bare.status ELSE report.status,
   snapshot |-> bare.snapshot, failures |-> bare.failures, active |-> bare.active,
   report |-> report]
File(status, active, left, failures, log) ==
  LET bare == [status |-> status, snapshot |-> left, failures |-> failures, active |-> active]
  IN Saved(bare, Evaluate(bare, log))

\* Seeds: the completed records of the nodes the checkpoint holds.
Start ==
  /\ pc \in {"idle", "down", "killed", "complete"}
  /\ pc' = "walk" /\ cursor' = 1 /\ steps' = NoSteps /\ failed' = {}
  /\ mine' = {i \in DOMAIN trajectories :
                /\ trajectories[i].completed
                /\ checkpoint[trajectories[i].node] # NoStep}
  /\ UNCHANGED <<checkpoint, files, ends, built>>

InHand == Order[cursor]
Walking == pc = "walk" /\ cursor <= Len(Order)
Fallbacks == {n \in Below[InHand] : steps[n] # NoStep /\ steps[n].fallback}

Restore ==
  /\ Walking /\ checkpoint[InHand] # NoStep
  /\ steps' = [steps EXCEPT ![InHand] = checkpoint[InHand]]
  /\ cursor' = cursor + 1
  /\ UNCHANGED <<pc, mine, failed, checkpoint, files, ends, built>>

Append1(completed, step) ==
  /\ Len(trajectories) < MaxAttempts
  /\ trajectories' = Append(trajectories, [node |-> InHand, completed |-> completed, step |-> step])
  /\ built' = Append(built, Fallbacks)
  /\ mine' = mine \cup {Len(trajectories) + 1}

Commit ==
  \E output \in Outputs :
    LET step == Step(InHand, FALSE, output)
    IN /\ Walking /\ checkpoint[InHand] = NoStep
       /\ Append1(TRUE, step)
       /\ steps' = [steps EXCEPT ![InHand] = step]
       /\ checkpoint' = IF Fallbacks = {} THEN [checkpoint EXCEPT ![InHand] = step]
                        ELSE checkpoint
       /\ cursor' = cursor + 1
       /\ UNCHANGED <<pc, failed, result, summary, ends>>

\* A failed session: the walk goes on over the fallback, or the process ends.
Fail ==
  /\ Walking /\ checkpoint[InHand] = NoStep /\ ends < MaxEnds
  /\ Append1(FALSE, NoStep)
  /\ failed' = failed \cup {InHand}
  /\ IF Cardinality(failed') <= MaxFailedNodes
     THEN /\ steps' = [steps EXCEPT ![InHand] = Step(InHand, TRUE, FallbackOutput)]
          /\ cursor' = cursor + 1
          /\ UNCHANGED <<pc, summary>>
     ELSE /\ summary' = File("interrupted", mine', steps, failed', trajectories')
          /\ pc' = "down"
          /\ UNCHANGED <<steps, cursor>>
  /\ ends' = ends + 1
  /\ UNCHANGED <<checkpoint, result>>

\* A provider, budget or cancellation error in a session, or a planned stop.
Interrupt ==
  /\ Walking /\ checkpoint[InHand] = NoStep /\ ends < MaxEnds
  /\ Append1(FALSE, NoStep)
  /\ summary' = File("interrupted", mine', steps, failed, trajectories')
  /\ pc' = "down" /\ ends' = ends + 1
  /\ UNCHANGED <<cursor, steps, failed, checkpoint, result>>

Stop ==
  /\ Walking /\ cursor > 1 /\ ends < MaxEnds
  /\ summary' = File("interrupted", mine, steps, failed, trajectories)
  /\ pc' = "down" /\ ends' = ends + 1
  /\ UNCHANGED <<cursor, steps, mine, failed, checkpoint, trajectories, result, built>>

\* The result first, then the summary.
WriteResult ==
  /\ pc = "walk" /\ cursor > Len(Order)
  /\ result' = File("walked", mine, steps, failed, trajectories)
  /\ pc' = "written"
  /\ UNCHANGED <<cursor, steps, mine, failed, checkpoint, trajectories, summary, ends, built>>

WriteSummary ==
  /\ pc = "written"
  /\ summary' = result
  /\ pc' = "complete"
  /\ UNCHANGED <<cursor, steps, mine, failed, checkpoint, trajectories, result, ends, built>>

\* The process is killed: no file is written.
Kill ==
  /\ pc \in {"walk", "written"} /\ ends < MaxEnds
  /\ pc' = "killed" /\ ends' = ends + 1
  /\ UNCHANGED <<cursor, steps, mine, failed, checkpoint, files, built>>

Next == Start \/ Restore \/ Commit \/ Fail \/ Interrupt \/ Stop \/ WriteResult
        \/ WriteSummary \/ Kill

Spec == Init /\ [][Next]_vars

-----------------------------------------------------------------------------
(* Properties *)

File0 == LoadResultOrSummary(result, summary)
Readable == "targets" \in DOMAIN Report
BuiltOn(n) == built[Max({i \in Active(File0, trajectories) : trajectories[i].node = n})]

\* A word counts as committed on a fallback whenever any word below it was one
\* when the session worked, whatever later attempts did to the words below
\* (evaluation_contract.md: "ancestors committed with dependencies flagged").
Flagged == Readable => \A n \in DOMAIN Binding :
             Report.targets[n].kind = "committed" => BuiltOn(n) \subseteq Report.targets[n].flagged

\* It holds of every report that is read from a result or a summary...
DependenciesFlagged == File0 # NoFile => Flagged

\* ...and not of one read from the trajectories alone, where fallbacks have no record.
AncestorsFlagged == Flagged

\* What is saved can be recomputed: reading the files again gives the report
\* that was saved in them, whatever later attempts appended, and no reading is
\* refused for two steps of one node.
Recomputable == Readable /\ (File0 # NoFile => Report = File0.report)

\* After a process that was not killed, the words that are scored are the ones
\* it left: its steps, and the checkpoint's where it did not come.
ReportIsCurrent ==
  pc \in {"down", "complete"} =>
    StepsRead(File0, Latest(File0, trajectories))
      = [n \in Nodes |-> IF steps[n] # NoStep THEN steps[n] ELSE checkpoint[n]]

\* A report speaks of the attempts it should, says which words rest on
\* fallbacks, and can be made again from the files it is saved in.
ReportHolds == DependenciesFlagged /\ Recomputable /\ ReportIsCurrent

\* Two readers of one directory agree: the sweep counts as committed the nodes
\* the report does.
SweepAgrees ==
  Readable => ReadSeed(File0, trajectories).committed
                = {n \in Nodes : Report.operational[n]
                                   \in {"committed", "committed_without_saved_output"}}
=============================================================================
