# A verification project for the cognate-reconstruction workbench

TLA+ models of `src/cognate_reconstruction`, in two groups. The first is what
depends on the order in which things happen: a family run that crashes and
resumes, what it has spent, the loop that drives one model session, one request
of it, what its prompt still holds, what it may commit, the launcher that starts
many runs, and the reader that scores what they left. The second is what is
computed: the rules, the reconstructor and the assembler, the survey of cognate
sets, the witnesses outside a node, the loading and preparation of a dataset,
and the distances and decisions of a report, as definitions compared with what
they are meant to compute on every small input. TLC checks both on small
instances; TLAPS proves the central results of the first for every tree, every
set of values and every bound.

To check a run, `tlc -config X.cfg M` with the module and configuration of the
tables below; to check the proofs, `tlapm M.tla` with `FamilyRunProofs`,
`AgentLoopProofs`, `SumProofs`, `ResumeProofs`, `CommitProofs`,
`CompactionProofs`, `BatchProofs` and `EvaluationProofs`.

## The system

`infer` takes a family (words of related languages, a classification tree) and
reconstructs the words of every ancestor. It walks the internal nodes of the
tree in post-order. At each node a language model works through tools over the
beams of the children (the ranked candidate forms) until it commits a
hypothesis; the committed rules yield the node's own beam, which the parent
then works on. A run may take hours and cost money, so it can be killed, can
stop, and can be resumed, and its spend is capped.

| component | state it keeps | operations | properties that make it correct |
|---|---|---|---|
| Family walk (`traversal/traverser.py`) | beams and steps so far, the set of nodes resting on a fallback | restore a completed node, reconstruct one, record it, stop after a node | parents come after children; nothing that rests on a fallback is recorded |
| Checkpoint (`traversal/checkpoint.py`) | at most one completed step per node, identity of the run | load, `with_step`, atomic save | monotone; always a sound reconstruction of the subtrees it covers |
| Node reconstructor (`agent/reconstructor.py`) | hypotheses of earlier nodes, failure count | run a session; commit, fall back, or stop the run | later nodes read the hypotheses that produced the beams they are given |
| Resume (`cli.py`) | none of its own: checkpoint, trajectory file, journal, summary | recover finalized receipts, seed hypotheses, restore usage, write the summary | no paid session is repeated; an unchanged run is never refused |
| Request journal (`agent/request_journal.py`) | append-only file of turns, requests, tool calls and markers | append before each effect, read the tail after the last marker | no effort is lost by a crash |
| Agent loop (`agent/orchestrator.py`) | counters, the window of recent calls, corrections, truncation recovery, run-wide totals | one turn: request, reply, tool calls, interventions | every session ends; a stuck model is stopped, a repairing one is not; caps hold |
| Trajectory file (`agent/trajectory.py`) | one record per attempt at a node | append, read back | a record says what the session used and whether it committed |
| Node context and tools (`agent/context.py`, `agent/tools/`) | overlays, validations, previewed hypotheses, the commit | preview, validate, commit | what is committed is what was validated, on the same evidence |
| Conversation (`agent/orchestrator.py`, `agent/tools/evidence.py`) | the record and the prompt, the results still whole, the concepts inspected | answer a call, drop a superseded result | nothing told is lost; the prompt stays a legal conversation |
| Providers (`agent/providers/`) | clock, attempts, totals | send a request; classify errors; pause and retry | an uncertain request is never sent twice; retries are bounded |
| Rules, reconstructor, beams (`rules/`, `traversal/reconstructor.py`, `traversal/beam.py`) | none (pure) | apply rules, fold children, rank and prune | pruning loses nothing it need not; a merger is reported |
| Alignment, survey, assembler (`alignment/`, `traversal/assembler.py`, `agent/tools/`) | none (pure) | cut words into units, group columns, check claims, assemble a form | survey, checks and assembler read one and the same column |
| Ingestion (`ingestion/`, `benchmarks/builder.py`) | none; files | load a wordlist, bind historical varieties, normalise a tree, order the nodes | the answer is hidden; what was supplied is what is run |
| Evaluation (`evaluation/`, `benchmarks/sweep.py`) | none; reads the files of a run | tell where each word came from, score it | a fallback is never read as the model's; counts agree |
| Batch launcher and ledger (`tools/experiment_batch.py`, `benchmarks/ledger.py`) | run directories, event file | decide, launch, measure, add up | no trial twice; ceilings hold; unknown is never zero |
| Synthesis (`synthesis/`) | none; files | generate a family, perturb it, score a run against the key | the key undoes what it says it undoes; records name what changed |
| Inspection, visualisation, research scripts | files | pure conversion and reporting | (not modelled) |

How they interact: `cli.py` loads or creates the checkpoint and the journal,
builds an orchestrator with the totals it restored, and calls the family
service, which calls `traverse()`. The walk calls the reconstructor for each
node (`reconstruct`), which calls the orchestrator (`run`), which calls the
provider and the tools, and which writes the trajectory; the walk then calls
back into `cli.py` (`on_step`) to save the checkpoint. All of it is one thread
of one process. Concurrency comes from elsewhere: the process may die between
any two of those writes, several processes work on one run one after another,
and other runs may append to the same trajectory file.

What is hard here, and where the hazards of `PROJECT.json` come from:

- **Four files, no transaction.** The trajectory, the checkpoint, the journal
  and the summary are written at different moments; each crash leaves a
  different one behind. The resume rebuilds the state from whatever is there.
- **Failure that continues.** A failed node does not stop the run; the walk
  goes on over an identity beam, and everything above it is provisional.
- **Equality is by value.** A receipt is matched to a tree by comparing beams.
  Two attempts may produce equal beams for different reasons.
- **Exemptions and limits that interact.** Stall rules, repair exemptions,
  corrections, truncation recovery, retries and five caps watch one loop.
- **Two copies of one thing.** The conversation is kept whole and as it is sent;
  columns are read by the survey, by the checks of a commit and by the
  assembler; outcomes are counted by the sweep and by the report. Each pair is
  separate code that must agree.
- **Pruned searches.** Beams and tuples are combined by bounded searches that
  merge and cut as they go; a wrong signature or an early cut changes a result
  without any error.
- **Names by position.** Slices, morphemes, unlabelled nodes and aligned columns
  are known by an index that pruning, boundaries and overlays shift.

## Modules

| module | models | extends / used by |
|---|---|---|
| `FamilyRun` | walk, reconstructor, checkpoint, recovery of receipts | the core |
| `CheckpointLedger` | what the checkpoint promises (abstract) | refined by `FamilyRun` |
| `ResumeAccounting` | spend over crashes, caps, the journal | shares the process life cycle with `FamilyRun` |
| `NodeSession` | one session of the agent loop | a session of the other two |
| `RequestRetry` | one request: attempts, pauses, clock, cancellation | a request of `ResumeAccounting`, a turn of `NodeSession` |
| `Compaction` | the record and the prompt of a session, what was inspected | the calls of `NodeSession` |
| `CommitProtocol` | one node's context: overlays, validations, previews, commit | the calls of a session of `NodeSession` |
| `Batch` | launcher, run directories, whole-batch ledger | runs of `ResumeAccounting` |
| `Evaluation` | what a report concludes from the files of a run | extends `Scoring` |
| `Scoring` | distances, repetition, units and scores of a target; which of two values a word shows, and how it is labelled | pure |
| `Rules` | one rule, a cascade, the contrast report | pure |
| `Reconstruction` | the deterministic reconstructor of one concept | uses `Rules` |
| `Environments` | the reading of a column, and environments | pure |
| `Assembly` | the proto-inventory assembler, splits, derived rules | uses `Environments`, `Rules` |
| `Correspondences` | pieces, units, tuples, sets, candidates, realignment | uses `Environments`, `Assembly` |
| `Witnesses` | local witnesses, polarisation, restorations | uses `Correspondences` |
| `Analyses` | units through beams, overlays, assembly and the next node | uses `Witnesses` |
| `Synthesis` | synthetic families, noise, scores, held-out concepts | uses `Rules` |
| `Cldf` | loading a wordlist with its cognate judgements | pure |
| `Ingestion` | pruning, naming and ordering of trees; dataset to payload to run, benchmarks | extends `Cldf` |

`MCFamilyRun`, `MCResumeAccounting`, `MCNodeSession`, `MCRequestRetry`,
`MCCompaction`, `MCCommitProtocol`, `MCBatch`, `MCBenchmark` (of `Ingestion` and
`Evaluation`, both ends of a benchmark) and `MCAlgorithms` give the constants
small values for TLC; `FamilyRunProofs` (of `FamilyRun` and `Ingestion`),
`AgentLoopProofs` (of `NodeSession` and `RequestRetry`), `ResumeProofs`,
`CommitProofs` (of `CommitProtocol`, and of `Assembly` and `Rules`),
`CompactionProofs`, `BatchProofs` and `EvaluationProofs` hold the theorems, and
`SumProofs` the lemmas on induction and sums over finite sets that `ResumeProofs`,
`BatchProofs`, `EvaluationProofs` and `CommitProofs` share.

The first group is one program seen from several sides. `FamilyRun` takes a
session as one step with an outcome and asks what becomes of its result.
`ResumeAccounting` takes a session as a sequence of journaled effects and asks
what becomes of its cost; which node it works on is left to `FamilyRun`.
`NodeSession` takes one session and asks when it ends; what it costs and how it
is killed is left to `ResumeAccounting`, and how a single request ends to
`RequestRetry`. `Compaction` takes the calls of that session and asks what the
model can still read; `CommitProtocol` takes the accepted ones and asks what it
may commit. `Batch` takes whole runs and asks what a launcher may conclude from
the files they leave; `Evaluation` asks the same for a reader who scores them.

The second group is pure. Its definitions have no variables; `MCAlgorithms`
and `MCBenchmark` take one subject from a set of small inputs
and compare the definition with a reference, so that a state of the run is an
input, and a property is a statement about all of them.

### FamilyRun

State: `ckpt` is the checkpoint, `receipts` the trajectory file; both survive a
crash. `pc`, `cursor`, `draft`, `safe`, `resumed`, `walked`, `tainted`,
`failures`, `stop` and `prior` are the process. Its actions in the code:

| action | code |
|---|---|
| `Start`, `Resume` | the two branches of `infer` (`cli.py`) |
| `RecoverNode`, `RecoverDone` | `_recover_finalized_steps`: adopt a finalized receipt that the checkpoint lacks, if it fits the tree and is newer than its children's; save; seed hypotheses |
| `RestoreNode` | `traverse()` on a node of the checkpoint: check the inputs, reuse the step |
| `CommitSession` | `reconstruct()` returns a committed step; `finalize()` has written the receipt |
| `SaveStep` | back in `traverse()`: taint or save, then go on or stop |
| `FailSession` | the failed receipt, the identity fallback, `--max-failed-nodes` |
| `InterruptSession` | provider, budget, journal and cancellation errors |
| `Crash` | the process dies between any two of these |
| `OtherRunAppends` | another run uses the same `--trajectories` file |

A beam is an abstract value and equal beams are really equal, so two attempts
can agree by accident: that is what makes laundering possible at all. Ghost
variables say which receipt a checkpointed step came from (`origin`) and which
nodes and receipts rest on a fallback (`impure`, `dirty`); no step reads them
to decide anything.

`CheckpointLedger` says what the checkpoint is for: a map from nodes to steps
that only grows and is sound at every moment. `FamilyRun` implements it with
`ledger <- ckpt`; this is checked on the four-node tree and proved in general.

### ResumeAccounting

State: the files (`journal`, `marked`, `tail`, `book`, `checkpointed`,
`summary`), the process (`pc`, `total`, `known`, `complete` and the session in
hand), and ghosts (`spent` is what was really consumed). Each journal write,
trajectory, summary and marker is a step of its own, so that a crash can fall
between any two; journal writes may fail; a request may be priced, unpriced,
rejected, uncertain or abandoned; files may be lost between processes.
`Resume` is `reconcile_resume_usage` with and without a journal.

### NodeSession

State: the counters, the sliding window of call signatures and repairs, the
corrections already given, what the batch of tool calls owes (`correction`,
`stall`), and truncation recovery. One action per way a turn or a tool call can
go. A rejection is a signature: its tool and code, and the digest of its
offenders, of which only the number matters.

### RequestRetry

State: where `_complete_with_retry` is, the clock, the retry index, the error
in hand, what remains of a pause, the tool choice, cancellation and the totals.
`Check`, `Send`, `Respond`, `Fail`, `Abandon`, `Poll`, `Retry` are the places of
that loop; `Cancel` may come at any moment, a sleep may run longer than asked,
an attempt ends in the time it is given. An exception is what `errors.py` reads
of it: which side ended the request, its status, its code, the pause it asks
for; `Classify` decides from these alone. A status proves no answer of a server:
LiteLLM gives its own timeout the status 408 and its own `APIConnectionError`
the status 500. Only the timeout is told apart by its class, so a lost
connection may come with a status or without. Ghosts hold the attempts of the
request, whether it is asked instead of one whose answer could not be read
(`again`), and the attempts sent after a cancellation.

### Compaction

State: `audit` and `prompt`, the two copies of the conversation; `live`, the
results not yet superseded (a list in the code, a set here: its order is never
read); the calls of the reply still to be answered; the correction owed; the
concepts taken as inspected. A result is the set of facts
it states, so `Supersedes` can be compared with what is really lost. `Reply`
takes any batch of calls, `AnswerNext` answers one of them, compacting what it
supersedes, `Intervene` puts a correction after the batch. An entry is on a page
by the number of entries that come before it in the listing (`Page`), so that a
proof can compare the pages of two listings.

### CommitProtocol

State: the dictionaries of `AgentContext`. An overlay is its edits, so two
overlays with the same content are the same one, as their digests make them in
the code; dictionaries keyed by call ID are sequences, because the choice among
validations depends on their order. One action per tool that writes the
context; a refused call is a stuttering step, except that of `realign`, which
may remove an overlay. Every pair of overlays is taken to align. Ghosts record
what was really assembled, applied and previewed (`inspected`, `applied`,
`ordered`), so that the commit is compared with what happened rather than with
the dictionaries it is looked up in: a call ID may be given twice, and then
they differ. The handles are those of the default protocol
(`stored-hypothesis`); in the other one the action `CommitHandle` is absent.

### Batch

State: the files of each trial's directory, the launcher (`pc`, `cur`), and
ghosts for what was started, spent and took. `Start` is an invocation of the
launcher; `Refuse`, `Launch`, `Spawn`, `Finish`, `Evaluate` and `Interrupt` are
`experiment_batch.py`; `OpenJournal`, `Send`, `Answer`, `WriteResult`,
`WriteSummary`, `Mark` and `Exit` are the subprocess, in the order in which it
writes its files; `Crash` takes both down between any two of them and `Damage`
makes a journal unreadable. The ledger is read from the files at every decision.

### Evaluation and Scoring

`Evaluation` walks a chain of nodes with failures, interruptions, kills and
resumes; `result.json` and `run_summary.json` are replaced at the moments the
code replaces them. The operators (`Report`, `ReadSeed` and what they use) are
the reader, applied to the files of every reachable state. `Scoring` is compared
on every small pair of words and every small session, which `MCBenchmark` takes
beside the walk.

### The deterministic parts

- `Rules`: a word is a sequence of segments. `Replace` and the cascade follow
  `rules/engine.py`; `CascadeExplained` compares them with the text of the rule
  and `CascadeMergersReported` with the report of lost distinctions.
- `Reconstruction` folds the children's beams one at a time with the pruning of
  `traversal/reconstructor.py`; each fold is an action, and `IncrementalIsExact`
  compares the outcome with the whole product.
- `Assembly` resolves the columns of an alignment in the two passes of
  `traversal/assembler.py`, draws tuples from its bounded frontier, expands weak
  columns into the first `MaxUnitTuples` variants of a reading, derives the rules
  of a branch and checks complementary splits. A word is one whole unit there, so
  no column is of a boundary unit, whose ties the code expands differently.
- `Correspondences` and `Witnesses` are the evidence tools (`alignment/`,
  `agent/tools/`) by content: digests that name columns, units and sets are
  their contents. The aligner is a parameter, or an override. Too many tuples of
  a concept, of the node, or columns they could need at most are refused
  (`TooMany`, `TooManyPairs`), never cut.
- `Analyses` follows which segment is of which unit: beams that merge equal
  words, an overlay that moves boundaries (and carries the units over
  before a claim replaces them, so both may be refused), the names under which the survey
  reads a column and the assembler looks it up, the analysis of the word that is
  written, and the positions a disposition or restoration points at.
- `Synthesis` runs sound changes down a tree, tells which branches can be undone
  and by what, perturbs the daughters and keeps a record, scores the rules of a
  run against the key, and splits off the concepts a node holds out.
- `Cldf`, `Ingestion`: a dataset is loaded, varieties are bound, the
  payload is written, a run ingests it. `Prepare`, `Build`, `Infer` and `Reject`
  are the three commands and their refusals. The tree travels as text, whose
  writer keeps `Digits` significant digits of a branch length (`Written`; six in
  the code, `f"{value:g}"`).

## Runs

| run | instance | shows | distinct states |
|---|---|---|---|
| `FamilyRun` | fork `r -> a, b`; 2 disruptions; 1 foreign record | `NeverReplayed`, `HypothesesMatchBeams`, `CompleteCheckpoint` | 493 thousand |
| `FamilyRunTree` | `r -> b, c`, `b -> a`; 3 disruptions; fairness | `CheckpointSound`, `NoLaundering`, `NeverRefused`, `ImplementsLedger`, `EventuallyReconstructed` | 599 thousand |
| `FamilyRunOverlay` | the fork, commits may name an overlay | `NeverRefused` is violated | |
| `ResumeAccounting` | 2 sessions, 2 turns each, 2 attempts, 3 cap configurations, 2 disruptions | `CapsHold`, `EffortCounted`, `SpendAccounted`, `HistoryHonest` | 5.5 million |
| `NodeSession` | 4 turns, 5 calls, batches of 2, window of 4 | `ExemptionsBounded`, `StuckIsStopped`, `ProgressIsSpared`, `LimitGrows`, `Ends` | 649 thousand |
| `RequestRetry` | 2 requests, 2 retries, 8 kinds of exception, times of 7 and 9 ticks, cost capped or not; fairness | `ReplaysKnown`, `RequestsBounded`, `EveryRequestEnds` | 392 thousand |
| `RequestReplay` | the same | `LostNotRepeated` is violated | |
| `Compaction` | 2 replies, 3 calls, batches of 2, from 15 calls of 7 tools | `LostOnlyToPages`, `PromptWellFormed` | 365 thousand |
| `CommitProtocol` | 3 calls, 2 call IDs which may repeat, rules in both scopes | `CommitInspected`, `RulesApplied`, `BindingUnambiguous`, `ReadyUnlessLost` | 499 thousand |
| `Batch` | 3 trials of 2 arms, 2 requests each, 2 faults | `OneRunPerTrial`, `LedgerHolds` | 651 thousand |
| `Benchmark` | datasets of one interesting row, 10 trees, every small definition; a chain of 3 nodes, 2 early ends; every small pair of words, every small session | `BoundHidden`, `SuppliedKept`, `BenchmarkScorable`, `ReportHolds`, `SweepAgrees`, `ScoresHold` | 79 thousand |
| `Algorithms` | every small input of eleven kinds, and beams to fold | `SearchIsExact`, `RulesExplained`, `AssemblyHolds`, `SurveyHolds`, `WitnessesSound` | 51 thousand |

The run `FamilyRun` checks its type invariant. The other modules with a state
of several processes or files state theirs (`TypeOK`) too, and it can be added to
their configuration; those of `FamilyRun`, `NodeSession` and `ResumeAccounting`
are proved, and that of `RequestRetry` is part of the invariant proved.

Some properties are conjunctions of named parts, one question each:

| property | parts |
|---|---|
| `ExemptionsBounded` | `RepairsBounded` (each repair lowers the count it is exempt for), `ForcedBounded` (forced tool calls answer truncated replies) |
| `RequestsBounded` | `RetriesBounded` (in number, in time, after the pause asked for), `NothingSentOnceStopped` (cancelled or over a cap) |
| `SearchIsExact` | `FrontierExact`, `IncrementalIsExact` |
| `RulesExplained` | `CascadeExplained`, `CascadeMergersReported`, `FamilyScored`, `NoiseRecorded`, `HeldOutHolds` |
| `AssemblyHolds` | `ConditionedClaimsHold`, `ReportedContextsAccepted`, `DerivedRulesVerified`, `SplitsAssembled`, `AnalysesSound`, `ResolvedKept` |
| `SurveyHolds` | `SegmentsKept`, `SupportIndependent`, `CandidatesSeparate`, `RealignEffective`, `EditsKeepUnits`, `EveryColumnBound` |
| `WitnessesSound` | `WitnessesHold`, `PolarizeAgrees` |
| `ReportHolds` | `DependenciesFlagged`, `Recomputable`, `ReportIsCurrent` |
| `ScoresHold` | `AlignmentHolds`, `DeletionHolds` |
| `SuppliedKept` | `TreeKept`, `OrderSound`, `JudgementsKept` |

### Bounds

State-space bounds are the constants named `Max...` that the headers of the
modules mark as bounds; the others are options of the program.

- `FamilyRun`. Two disruptions let a run fail at a node, crash and recover, the
  shortest story in which a receipt can be adopted wrongly; the third one in
  `FamilyRunTree` lets a node be failed, its parent committed over the fallback,
  and the node committed again with an equal beam, with a crash to spare: the
  laundering story, at a depth of two. Two beams, one of them the identity
  fallback's, let a real commit agree with a fallback.
- `ResumeAccounting`. Two sessions and two disruptions make a session before and
  one after a resume, and a crash followed by the loss of a file; caps of 2 and
  3 are reached inside the second session.
- `NodeSession`. The window (4) is longer than the repeat limit (2) and the
  saturation (3), batches reach the repeat limit, and the lengths a truncated
  reply reports lie below and above the ceiling, or are unknown.
- `RequestRetry`. Two retries with a backoff of 1, a largest delay of 3 and
  attempts of 0 or 3 ticks make the request's 7 ticks and the run's 9 run out
  before, between and during attempts; sleeps may run 2 ticks over; a pause of
  4 exceeds the largest delay, as a `Retry-After` may; a cost of 2 is reached by
  the second request, or cost is not capped, as only then an unreadable answer
  is asked for again. A lost connection comes without a status and with 500.
- `Compaction`. Three calls are a chain of supersessions, and a batch of two
  lets one result be dropped while its neighbour waits; the concepts, forms and
  pages are the smallest at which a page cuts an answer.
- `CommitProtocol`. Three calls are an edit, a validation and a second edit or
  validation, which is every way a validation can have become stale or contested
  before the commit. One law suffices because it feeds on nothing and blocks
  itself, so a cascade that applies it twice changes other forms than one that
  applies it once; the second unit lets a realignment join a set already there.
- `Batch`. Two trials whose reservations together exceed their arm's ceilings,
  one that needs the first of them, and two faults: enough for a crash in a run
  and a damaged journal before the next decision.
- `Benchmark`. For `Evaluation`, a chain of three is the shortest one with a node
  whose fallback lies two below; two early ends and five attempts let a node be
  failed, committed and read in between. For `Ingestion`, the forms of a lexicon
  are a set, as no property is about their order; a tree's nodes are reached by
  their paths from the root. Three daughters, two historical varieties and a
  language without forms; trees need pruning, collapsing and naming by position.
  Branch lengths have one or two digits and are written with one (`Digits`), so
  they round up, down and to even, and their sums reach further digits.
- `Algorithms`. Words over segments 1 and 2 (and 3 in families) and the boundary
  9; two children, up to three for beams; alignments of three columns; three
  tuples in a frontier that has more, six variants of readings that have up to
  eight; two words per child, some lexicons of which exceed the limits on tuples
  and columns; families on
  `((a, b) m, c) p` with two concepts and six cascades per branch; two
  perturbations; held-out sets of 0 to 15 concepts. An environment looks one
  segment to each side, a rule is at most two long and a merge needs two words:
  each condition of the code is met and missed in this range.

`CHECK_DEADLOCK FALSE` stands where the subject of a run ends: a session that is
over, a process that stays down at the bound on sessions, an input that has been
read. `FamilyRun`, `FamilyRunTree` and `Batch` check deadlock.

### Fairness

- `FamilyRun!FairSpec`: weak fairness of the process's own steps, since it is
  one thread that does not wait for anyone; of `Resume`, since the property is
  about a run whose operator resumes it; and of `CommitSession`: the session
  ends because of its own limits (`NodeSession!Ends`), and one that keeps
  failing is bounded by `MaxDisruptions`. The result is therefore: if failures
  are finite, the run completes. Failures, crashes and stops are not fair.
- `NodeSession!FairSpec`: weak fairness of the whole next-state relation: the
  loop goes on until it returns or raises. Nothing is assumed about which reply
  the model gives.
- `RequestRetry!FairRequestSpec`: weak fairness of `Step`: attempts return, by the
  adapter's timeout at the latest, and the loop runs on. Neither cancelling nor
  the beginning of another request is fair.

### Mutants

Operators marked `MUTANT of X` state a plausible bug of `X`: a forgotten guard,
an off-by-one, the rule an earlier version of the code had. They are used by no
specification. With `X` replaced by one of them, the property named beside it in
`PROJECT.json` fails, so the property does depend on that code. A property with
several parts has one listed mutant; the others stay in the modules and break it
in the same way.


## Findings

Two disagreements between the code and its documents are runs of the project:

**An overlay makes a checkpoint unusable** (`FamilyRunOverlay`). A commit with a
`segmentation_overlay_id` is scored on re-segmented child beams, which become
the step's `input_beams`; a resume compares them with the children's own beams
and refuses. Every other result of `FamilyRun` about refusal is under
`Overlays = {FALSE}`.

**A lost connection is sent again** (`RequestReplay`). LiteLLM's
`APIConnectionError` has a `status_code` of 500 that no server sent.
`_client_timeout` exempts timeouts alone from having their status read
(`agent/providers/errors.py:93-101`), so this error is capacity, rejected and
retryable (160-165): the request, which may have been served and billed, is sent
again, and the lost attempt counts as free. The comment at 168-169 says "No
automatic replay of timeouts/connections without an explicit rejection", and
`docs/research/provider_recovery.md:69-70` the same;
`docs/research/model_capability_diagnostic.md:128-129` already records that the
harness treats these errors "as retryable and zero-cost". What does hold is
`ReplaysKnown`: nothing else that may have been served is sent again, but for an
unreadable answer to a required tool call in a run whose cost is not capped. In
`ResumeAccounting` a response that the loop retries is likewise free: its
`SpendAccounted` and `CapsHold` are about the costs the loop takes for known, and
a cost cap may be passed by what lost connections of this kind were billed.

### Further disagreements

These are shown in the same way by a configuration kept beside the runs, or by
adding a property that a module already states to the configuration of a run.
TLC ends each of them with a counterexample.

With a configuration of their own:

| configuration | property | what the code does | what is said of it |
|---|---|---|---|
| `ResumeAbandoned.cfg` (`MCResumeAccounting`) | `SpendKnown` | a request interrupted by Ctrl-C is of unknown cost in memory and in the journal, but not in the trajectory, which a resume prefers | `docs/research/provider_recovery.md:235` "counts as having unknown cost" |
| `ResumeJournalFault.cfg` (`MCResumeAccounting`) | `JournalFailureStops` | inside a request with a required tool call, a failed journal write is taken for a provider that refuses such requests | `provider_recovery.md:234` "A journal that cannot be written stops the run" |
| `NodeSessionExploratory.cfg` (`MCNodeSession`) | `ExploratoryEndsNoNode` | the window rule counts protocol rejections but runs on every rejection, so an exploratory one can end a node | `agent/orchestrator.py:1051` "Exploratory rejections are excluded" |
| `CommitHandleLost.cfg` (`MCCommitProtocol`) | `ReadyCommits` | `realign` stores the overlay, verifies, and deletes it on refusal; overlays are named by content, so repeating an accepted realignment over its own result deletes the accepted one | `docs/research/protocol_revision.md:88` "A ready handle commits" |
| `CommitAmbiguity.cfg` (`MCCommitProtocol`) | `AmbiguityIsGenuine` | supporting forms are compared in order, and a law test and a cascade order them differently, so the same experiment done twice can be refused as ambiguous | `agent/tools/commit_reconstruction.py:367` "only when the matches genuinely disagree" |
| `RequestRefusal.cfg` (`MCRequestRetry`) | `RefusalFallsBack` | a provider that answers a required tool call with an invalid-request error ends the node: its error is a `ProviderError`, which is re-raised before the fallback | `docs/running_inference.md:586` "It falls back to the ordinary request if the provider raises" |
| `DeletionRepeated.cfg` (`MCBenchmark`) | `DeletionHolds` (`Repeated = TRUE`) | a unit that stands twice in the word is unscorable even when one of the values is its absence | `evaluation/decisions.py:20` "so deleting output or analysis cannot raise the primary rate" |
| `FallbackSalvaged.cfg` (`MCBenchmark`) | `AncestorsFlagged` | a commit above a fallback whose step was never saved is salvaged from the trajectories without its dependency | `docs/research/evaluation_contract.md:51` "ancestors committed with dependencies flagged" |

As one more `INVARIANT` (or `PROPERTY`) line:

| configuration | property | what the code does | what is said of it |
|---|---|---|---|
| `Algorithms.cfg` | `OverlapMergersReported` | a merger that arises only through overlapping targets (`1 1 > 1`) is not in the contrast report | `rules/contrast.py` "Both are exact and cheap" |
| | `PreviewIsRecorded` | the incremental fold records as a child's output the best one of the whole distribution, the preview the top form of the child's own beam | `agent/tools/convergence.py:92` "the whole node, which is what the diagnostics will record" |
| | `SplitsAlwaysAssembled` | `check_complementary_splits` looks at no dispositions or restorations and at the first partner only, so a split it accepts may fall to the residue | `alignment/environments.py:30` "resolve the columns the same way, through the same code" |
| | `RestorationsWitnessed` | a restoration may rest on a column its witness does not stand in | `schemas/inventory.py:291` "each must genuinely attest the segment in the corresponding position" |
| | `EditsAccepted` | two adjacent boundaries inserted inside a unit make `remap_analysis` raise | `agent/tools/segment_morphemes.py:39` "A boundary-only edit does not silently split one claimed unit" |
| | `BoundAlways` | when an overlay makes two candidates of one child coincide, the survey reads the merged word and the assembler aligns the unmerged ones; their columns are found under no name and go to the residue | `agent/tools/proto_assembly.py:119` "the number a session reads before it commits and the number the artifact records cannot disagree" |
| | `RestorationsAssemble` | an accepted restoration without a unit, strictly inside a word of one unit, cuts the unit in two pieces and the analysis of the assembled word raises | `agent/tools/inventory_evidence.py:628` accepts it |
| | `RestorationsPut` | a position that exists in one tuple only is accepted, and applied to every tuple; shorter ones get the segment appended | `docs/proto_inventory_design.md:1909` "Insert before this column of the alignment" |
| | `TrueCascadeAlways` | a branch with a repeated rule gives the true cascade a recall below 1, because true shapes are a dictionary and their number is that of the rules | `tests/workbench/test_synthetic_benchmark.py:283` "the true cascade scores perfectly" |
| | `DeletionsLost` | a branch with a deletion is invertible when the deletion never fires, or when a declared inverse such as `1 > 1 2` brings the segment back | `schemas/synthetic.py:138` "False for any branch containing a deletion" |
| | `NoiseNamed` | the record of a semantic mismatch names one of the two concepts it swaps | `schemas/synthetic.py:177` "names every leaf form that therefore differs" |
| `Batch.cfg` | `TotalIsOfAll` | a trial whose files cannot be read is skipped by `build_ledger`, and the total goes on without it | `docs/research/model_diagnostic_design.md:373` "Unknown cost makes `total_cost_usd` null; it is never summed as zero" |
| `Compaction.cfg` | `NothingTakenBack` | a result is dropped for a later one that was cut at its page and does not hold what the earlier one said | `agent/orchestrator.py:211` "dropping it would silently take back something" |
| | `PlaceholderHonest` | the call a placeholder points to may have been dropped itself | `agent/orchestrator.py:240` "its result is still here" |
| | `InventedCountsNothing` (`PROPERTY`) | a call of a whole-lexicon tool that names only unknown concepts counts as having inspected all of them | `agent/inspection.py:82` "a hallucinated concept name in a rejected call is not evidence anybody inspected" |

### Known limits the models reproduce

Effort is counted twice when the process dies between the summary and its
marker (`docs/research/post_review_contract_repairs.md`, "Limits"), hence
`>=` in `EffortCounted` once `gap` holds. A limit that is not documented: a
resume that finds the journal missing recreates it, so if that process dies
before its summary is written, or the summary is lost, the next one takes the
history for known. `ResumeAccounting` marks this with the ghost `forgotten` and
claims nothing after it.

### Read in the code, not modelled

- `alignment`: `realign` of a unit whose cognacy is unknown in a tuple is
  accepted and has no effect; one of a unit that only some analyses have makes
  the survey raise; when the survey raises after an accepted `realign`, the
  overlay stays stored. `order_status` is read for compatibility only, while
  the order of an assembled parent's units is an edge at the next node and can
  contradict an aunt's attested order.
- `traversal/assembler.py`: the docstring of `assemble_node` says "one candidate
  each" and the function uses whole beams when given; `competing_set_ids` is
  always empty.
- `rules/contrast.py` and `agent/tools/contrast.py`: a merger between a
  conditioned and an unconditioned claim of an inventory is not reported.
- `evaluation`: a reader between the writing of a result and of its summary sees
  an older interrupted summary; the sweep counts attempts over all records and
  the unattempted nodes over active ones.
- `benchmarks/sweep.py`: an abandoned seed adds the failures of its summary and
  `run-abandoned-no-result`, though the comment says its losses are not in
  `node_failures`.
- `synthesis`: a branch counts as innovated when it has rules, also when none
  ever fires; `score-synthetic` reads every trajectory of a file, so a node
  committed twice has its rules applied and counted twice.
- `ingestion`: a duplicate internal label is noticed only when bindings exist;
  an anchors file may contain a target's own forms; two parameters of one
  Concepticon ID load and are refused by the preparation.

## Proofs

For every tree, post-order, set of beams, errors and bound, from the assumptions
named in the modules only:

| theorem | statement |
|---|---|
| `FamilyRunProofs!Invariance` | `Spec => []IInv` |
| `TypeCorrect` | `Spec => []TypeOK` |
| `CheckpointAlwaysSound` | `Spec => []CheckpointSound` |
| `NothingLaundered` | `Spec => []NoLaundering` |
| `LedgerRefinement` | `Spec => ImplementsLedger` |
| `ResumeAccepted` | `Spec => []NeverRefused`, if no commit names an overlay |
| `CheckpointComplete` | `Spec => []CompleteCheckpoint` |
| `HypothesesProduceBeams` | `Spec => []HypothesesMatchBeams` |
| `PaidOnce` | `Spec => []NeverReplayed`, if no commit names an overlay |
| `AnswersStayHidden` | `CommandsSpec => []BoundHidden` |
| `BenchmarksScore` | `CommandsSpec => []BenchmarkScorable` |
| `AgentLoopProofs!Invariance` | `Spec => []IInv` |
| `TypeCorrect` | `Spec => []TypeOK` |
| `RepairsRunOut` | `Spec => []RepairsBounded` |
| `ForcedRequestsBounded` | `Spec => []ForcedBounded` |
| `ExemptionsRunOut` | `Spec => []ExemptionsBounded` |
| `LimitOnlyGrows` | `Spec => LimitGrows` |
| `ProgressNeverCondemned` | `Spec => []ProgressIsSpared` |
| `StuckSessionsStop` | `Spec => []StuckIsStopped` |
| `RequestInvariance` | `RequestSpec => []RequestInv` |
| `OnlyKnownReplays` | `RequestSpec => []ReplaysKnown` |
| `RequestsStayBounded` | `RequestSpec => []RequestsBounded` |
| `CommitProofs!Invariance` | `Spec => []IInv` |
| `NothingUninspected` | `Spec => []CommitInspected` |
| `NothingUntested` | `Spec => []RulesApplied` |
| `ChoiceWithoutContent` | `Spec => []BindingUnambiguous` |
| `ReadyHandlesCommit` | `Spec => []ReadyUnlessLost` |
| `FrontiersAreExact` | `FrontierIsExact(dists)`, for all beams and every budget |
| `MergersAreReported` | if a cascade makes two words one, `CascadeReductions` is not empty, for all words and all rules whose targets do not overlap themselves and whose replacements have one segment at most |
| `ResumeProofs!HistoryStaysHonest` | `Spec => []HistoryHonest` |
| `TypeCorrect` | `Spec => []TypeOK` |
| `EffortIsCounted` | `Spec => []EffortCounted` |
| `SpendIsAccounted` | `Spec => []SpendAccounted` |
| `CapsBoundTheRun` | `Spec => []CapsHold` |
| `CompactionProofs!OnlyPagesLose` | `Spec => []LostOnlyToPages` |
| `PromptStaysLegal` | `Spec => []PromptWellFormed` |
| `BatchProofs!NeverRunTwice` | `Spec => []OneRunPerTrial` |
| `LedgerIsTrue` | `Spec => []LedgerHolds` |
| `EvaluationProofs!Invariance` | `Spec => []IInv` |
| `ReportsHold` | `Spec => []ReportHolds` |
| `SweepsAgree` | `Spec => []SweepAgrees` |
| `AlignmentsAreDistances` | `AlignmentIsDistance(left, right)`, for all words without gaps |
| `NormalizedIsFraction` | a normalized distance is at most 1, and 0 for equal words only |
| `DeletionsNeverHelp` | `DeletionNeverHelps(case, session)`, if no unit stands twice in a word |

`FamilyRun`. Soundness of the checkpoint is not inductive: a step is saved from
`walked`, and adopted from `draft`, so the invariant carries soundness of those
two ledgers as well, with the facts that tie them together: what has been
walked lies before the cursor, the walk agrees with the checkpoint on restored
nodes, `safe` is closed under children, and a finalized step waits to be saved
with its receipt as the last one of its node. For laundering it adds that the
taint the program keeps (`tainted`) is the taint there is (`impure`), and the
history of each receipt: a clean receipt's step was computed on the beams of
its children's clean receipts, which are older. The adoption rule ("newer than
each child's own last record, which must be the child's checkpointed step") is
exactly what lets a clean receipt be told from a dirty one by its position in
the file; the mutant that compares beams only breaks it. The refinement follows
from two facts about each step: no recorded step changes, and the new
checkpoint is sound. `ResumeAccepted` needs in addition that no step in any
file was scored on an overlay.

The second half of the module adds what became of every receipt. `CompleteInv`:
in a walk a tainted node is not saved and every other node behind the cursor is,
so at the end nothing but the tainted ones is missing. `SeedInv` and `MatchInv`:
the hypothesis kept for a walked node is its last record, and the step of that
record is the one walked; for a restored node both come from the checkpoint.
`ReplayInv`: a clean record of a node the checkpoint lacks is the last one of
its node, was computed on the checkpointed beams of the node's children, and is
later than theirs. That is the rule of adoption, so the recovery closes every
gap behind its cursor, and in a walk only the node in hand can have one, between
its record and its save.

`Ingestion`. The invariant says of each command what it read: the payload is
what preparation makes of the request asked, and for a benchmark of the request
its builder wrote (`PayloadInv`); the lexicons of a run are those of the payload
that have forms (`RunInv`). What remains is about preparation itself. A form
bound to a node is a row of its source's language, a form of the evidence is a
row of a variety that no binding names, and `SourcesAssumption` tells the two
apart: form IDs are the key of a CLDF form table, so no two languages share one.
For a benchmark the daughters are chosen on the dataset and scored on the
payload: the cap on concepts and the cut to the chosen ones take whole concepts
away, and a form that is copied keeps its concept and its cognate sets, so two
forms that were cognate still are. Trees go through both proofs as opaque
values, except that a payload's lexicons are those of the languages asked for.

`NodeSession`. `RepairsBounded` rests on `RepairsLowerBest`: the lowest count
seen for a check plus the repairs it had is at most the first count; each repair
lowers the best by at least one. `ForcedBounded` rests on
`ForcesAnswerTruncations`: each forced request answers a truncated reply that
was not the last one allowed. The two results about the stall rules rest on what
each place of the window testifies to, while the window forgets its oldest call
with each new one. `ProgressInv`: in a session that has not idled, each
rejection in the window has met its check and left a best count no higher than
its own, so no signature stands there twice, and its places are no more than the
checks. `StuckInv`: in a session that made no progress every call is an
unrepaired protocol rejection, the window is as long as the calls allow, and
each call after it was saturated used up a correction.

`RequestRetry`. An attempt that another may follow ended in an error that
`Classify` calls retryable, which no timeout and no lost connection without a
status is (`Excused`); has been waited
for (`now` and what is left of the pause reach its end plus the pause asked
for); and is among those allowed. The state `ready` implies that the limits were
looked at with nothing in between, and once the run is cancelled no further
attempt is made ready, which leaves the one that may have been. An unreadable
answer leaves a request of unknown cost behind, with which no attempt is made
ready under a cost cap (`AgainInv`). `PowerAssumption`
says that powers of two are numbers: the provers know no exponents, and the
backoff is `2^retry`.

`ResumeAccounting`. `HistoryHonest` needs no arithmetic of totals, only a
testimony for each session that died without a record: its entry in the tail of
the journal; after a marker, the summary, which says that the history is not
complete; after the summary is lost, the marker that has no summary, or the
journal that is gone. Each write and each loss moves the testimony from one of
these to the next, except a journal lost and recreated before a summary is
written, which is `forgotten`.

The totals (`EffortCounted`, `SpendAccounted`, `CapsHold`) rest on three accounts
kept in step: what was consumed (`spent`), what the process counts (`total`),
and what the next process would read, which is the summary and the sum over the
sessions in the tail of the journal (`CountInv`). A request on its way stands in
the journal before it is in the others; `InFlight` is that difference. A resume
reads a trajectory in place of the journal's entry for its session, so the
invariant also says that the first is never below the second (`OwnCounts`). All
of it is stated twice, as `>=` for every number counted and as `=` for turns and
calls while no process has died between a count and its record, since the
equality does not survive that. The caps follow: each is compared with a total
that is not below what was spent, before the work it allows is begun.

`Batch`. A directory is used from the moment before its subprocess starts, and
nothing that happens later empties it; the launcher refuses one that is used.
`LedgerHolds` needs the account of each trial (`TrialInv`: a journal without a
gap holds what the trial cost, and only the trial in hand has an account that
moves) and what an arm has left while one of its trials holds a reservation
(`CostInv`, `WallInv`). The launcher decides once, from what it reads; from then
until the subprocess has ended the reservation stands for what is not yet
written, and the ledger that was read is right because no other trial's account
moves in between.

`ResumeProofs` and `BatchProofs` use `SumProofs`. The community modules define a sum as a fold that takes
out one chosen element after the other; the induction theorems of the library
take an operator as a parameter and cannot be cited. The lemmas are proved by a
first-order induction instead: a set of numbers that holds 0 and every successor
holds all, since the least one missing has no reason to be. It is applied to the
set of those sizes at which a statement about finite sets holds.
`EvaluationProofs` and `CommitProofs` take their induction over numbers from there.

`Compaction`. `PromptInv` says of the two copies what the code takes for granted:
they differ only at dropped results, an answer is where the ID of its call says,
each call of a reply is answered at its place or pending, and a live record
names a result that is whole. Each dropped result is answered for by a later one
of the same tool, whose call asks for at least as much from the same offset. In
a listing that only gained entries, what was on the old page is on the new one
or after it, and after it only when there is a further page (`RankInside`,
`CoversMore`, `SearchGrows`, `ListGrows`). Of all results that state a fact the
last one is then whole, or was dropped for one that was cut, so no chain of
supersessions has to be followed.

`CommitProtocol`. A commit is checked against the dictionaries the program keeps
by call ID, not against what happened, so the invariant says how the two differ:
whatever an entry says happened (`HoldsWhatHappened`), even when the provider
repeats an ID and a later validation replaces an earlier one; and all that
happened still has its entry unless an ID was repeated (`KeepsWhatHappened`).
The first gives `CommitInspected` and `RulesApplied` without a condition on IDs;
`BindingUnambiguous`, which compares the chosen validation with every other
application, needs the second. What the harness chooses exists because a
nonempty set of positions has a last one. `ReadyHandlesCommit` needs in addition
`HandlesHold`: each handle has the preview it names, and its overlays are there
or were discarded.

The second half of the module is about `Assembly`: the tuples of candidates an
inventory is assembled from are cut to the budget after each child, and
`FrontiersAreExact` says that nothing is lost that the whole product would have
kept. "Heavier, and of equal ones the first in the order of words" is a strict
order on tuples of one length (`TupleOrder`), and a tuple that was cut has at
least the budget of others above it in what was kept (`EnoughAbove`). The same
candidate added to two tuples leaves their order as it was (`HeavierMore`), so
each continuation of the tuple that was cut has the continuations of those above
it (`CutIsSafe`). The induction is over the children. A fold of the community
modules is a recursive function on sets of positions; that one exists for every
list is `LeftFoldExists`, and from there the fold can be read step by step.

The third part is about `Rules`. A word is rewritten at matches that are apart,
and a match left alone overlaps one before it (`SelectedApart`), which a target
that does not overlap itself never does (`BorderlessApart`). So a word is a row
of pieces, each a match or a segment outside all matches, and the output is the
row of their images (`PieceIs`). If a rule of one output segment is not reported,
no two pieces have the same image, and the piece at the front can be told from
the output (`PieceSame`), then the next, until both words have ended together
(`Decoded`). A rule without output is reported whenever it applies. Two words
that a cascade makes one were made one by some rule of it (`MergersAreReported`),
and the words that rule was given are those the report looks at (`GivenIs`).
Neither hypothesis can be spared: `OverlapMergersReported` above shows a merger
through overlapping targets that is missed, and `1 > 2 3` makes the words `1` and
`2 3` one without two pieces that have the same image.

`Evaluation`. A report joins two sources that were written at different times:
the steps in a file, and of each node the last record in the log among those the
file calls its own. `Faithful` says that they tell one story: the file's failures
name the nodes whose step is a fallback, and a node whose last record is a
commit has that commit's step or none, no fallback, and below it no fallback the
file does not name. It holds of the process at work (`ProcessInv`) and of every
file it saved (`FileInv`), and later records cannot disturb it, since a file
counts only those that were there (`FaithfulStable`). A process starts from the
checkpoint, so the relation has to hold again of what it loads, and for that
`CheckpointInv` says that a checkpointed step is what the node's last record
committed, built on no fallback. A commit made over a fallback is not loaded: it
is not in the checkpoint, and its node is tried again. Two further facts make a
report repeatable (`Saving`): it is computed before the file exists and read
again after, and all that the file changes is a status, of which the report uses only
whether it is that of an interruption. `SweepAgrees` needs `LogInv` and
`FileInv` only: the report takes the failures together with the steps that are
fallbacks, `read_seed` the failures alone, and `Faithful` shows them equal.
`NoFile` is a record with none of a file's fields; that no step equals `NoStep`
is an assumption.

The second half of the module is about `EditDistance` and `Backtrace` of
`Scoring`, two recursions over the cells of a table. That the definitions denote
a table at all is the first step (`TableExists`: if each cell can be computed
from the cells on earlier diagonals, a table obeys the rule everywhere), and
`AllCells` is the induction over its cells, diagonal by diagonal. It is applied
to three statements about a cell. The columns laid there spell both beginnings
and differ as often as the cost says (`Laid`, with one lemma for each direction
the backtrace can take). A layout of two beginnings pairs the last two tokens or
leaves one of them out (`LayoutCases`), so its price is at least that of a layout
of shorter beginnings plus the step, and none is below the cost (`PriceFloor`);
and some layout meets it (`PriceMet`). `Spells`, `Matchings` and `Price` define
what an alignment is without the table.

A deletion changes the reading of an opportunity to `missing` or `unscorable` or
not at all (`CandidatesCut`), which no opportunity expects; so the rows that are
right afterwards were right before, and every number the labels compare can
only fall (`FewerRight`, `DeletionsNeverHelp`). The step needs that an edge is
read from the only piece of its unit. Where a unit stands twice the statement is
false, and `DeletionRepeated.cfg` shows it.

Model-checked only:

- liveness (`EventuallyReconstructed`, `Ends`, `EveryRequestEnds`), which is
  outside the proof system;
- `SuppliedKept` of `Ingestion`, and what `Algorithms` checks, but for
  `FrontierIsExact` (a part of `SearchIsExact`) and the mergers of a cascade (a
  part of `RulesExplained`): statements about what a recursion over words,
  columns or trees computes for every input, which needs an induction over data.

The two parts of `ScoresHold`, `AlignmentHolds` and `DeletionHolds`, are
`AlignmentIsDistance` and `DeletionNeverHelps` of the small inputs TLC takes;
`AlignmentsAreDistances` and `DeletionsNeverHelp` prove these two for all inputs.

TLAPS reads `SUBSET A \ B` as `SUBSET (A \ B)` and `UNION A \cup B` alike, TLC the
other way; the modules put parentheses wherever the two would differ.

## Not modelled

- The identity of a run (digests of configuration, input and schemas) is one
  flag of a receipt. Two processes that work on one checkpoint at once are left
  out: nothing locks it, and the documentation describes one at a time.
- A torn last line. The journal repairs its own tail and the models take it as
  never written; the trajectory file does not repair one, and its reader raises
  (a hazard without a property).
- Elapsed time across resumes. `RequestRetry` has a clock; in `ResumeAccounting`
  a time cap only asks whether the history is complete.
- Messages, explanations and anomaly references: refusals that change nothing
  and texts nobody reads back. Of the evidence tools, text queries, page widths
  and previews; of `Compaction`, what `get_alignments`, `summarize` and
  `polarize` contain.
- LingPy's aligner is a parameter. In `Algorithms` it pads every word to the
  longest (`Padded`); other alignments enter as inputs or by overrides.
- `Evaluation`: sightings while navigating, the first stage of usability, the
  causes given to failures, `aggregate()` of a sweep over seeds.
- `Analyses`: overlays on overlays, notes, names of memberships, the labels of
  claims.
- `synthesis/diagnostics.py`, the induction of a tree from distances, provenance
  and compatibility metadata, chat templates, conversion of messages, prices.
- Inspection, visualisation, events and research scripts: they render or analyse
  finished artifacts and change no state of a run.

## Plan

Done, in this order: `FamilyRun` with `CheckpointLedger`, `ResumeAccounting`,
`NodeSession`, `CommitProtocol` and their proofs; `RequestRetry`, `Compaction`,
`Batch`, `Evaluation`, `Ingestion`; the deterministic parts against reference
definitions; the proofs of `RequestRetry`, `ResumeProofs`, `BatchProofs` and
`CompactionProofs`, those of the stall rules of `NodeSession`, those of
`Evaluation`, those of `Assembly` and `Rules`, and those of `Ingestion`.

What is left, the most useful first:

1. The append of the trajectory file beside that of the journal, with torn
   tails, and two processes on one checkpoint.
2. `aggregate()` of a sweep and the first stage of usability.
3. The explanations a commit of rules must carry, as gates of `CommitProtocol`.
4. `alignment/lingpy_adapter.py` beyond its contract.
