--------------------------- MODULE EvaluationProofs ---------------------------
(***************************************************************************)
(* For every tree, every number of processes and every way they end: what  *)
(* a report says of a run can be read again from the files it was saved    *)
(* in, names the words that rest on fallbacks, and speaks of what the last *)
(* process left; and the sweep counts the nodes the report counts.         *)
(*                                                                         *)
(* A report joins two sources: the steps in a file, and the last of the    *)
(* active records of each node in the log.  They agree because one         *)
(* relation between them (Faithful) holds of a process at work, is what it *)
(* saves, and cannot be disturbed by records that come later.              *)
(*                                                                         *)
(* The second half is about the distance a report scores words by, for all *)
(* words: the alignment shown is the distance counted, and none is less;   *)
(* and about the decisions read from them, which no deletion improves.     *)
(***************************************************************************)
EXTENDS Evaluation, SumProofs

Record == [node : Nodes, completed : BOOLEAN, step : Steps \cup {NoStep}]

\* Record i is the last one of node n among those of S.
IsLast(i, S, n, log) ==
  i \in S /\ log[i].node = n /\ \A j \in S : log[j].node = n => j <= i

Fell(left) == {n \in Nodes : left[n] # NoStep /\ left[n].fallback}

\* The records of an attempt say what its steps and failures say.
Faithful(active, left, failures, log, below) ==
  /\ active \subseteq DOMAIN log /\ failures \subseteq Nodes
  /\ left \in [Nodes -> Steps \cup {NoStep}]
  /\ Fell(left) \subseteq failures
  /\ \A n \in Nodes, i \in active :
       IsLast(i, active, n, log) /\ log[i].completed =>
         /\ n \notin Fell(left) /\ left[n] \in {NoStep, log[i].step}
         /\ below[i] \subseteq Below[n] \cap Fell(left)

\* Only a commit has a step, and it is no fallback's.
WellLogged(log) ==
  /\ log \in Seq(Record)
  /\ \A i \in DOMAIN log : IF log[i].completed
                           THEN log[i].step \in Steps /\ ~log[i].step.fallback
                           ELSE log[i].step = NoStep

LogInv ==
  /\ WellLogged(trajectories)
  /\ built \in Seq(SUBSET Nodes) /\ Len(built) = Len(trajectories)

WalkInv ==
  /\ cursor \in 1..(Len(Order) + 1)
  /\ pc = "walk" => \A k \in cursor..Len(Order) : steps[Order[k]] = NoStep

\* What the checkpoint holds is what the last attempt at the node committed,
\* and no fallback was below it.
CheckpointInv ==
  /\ checkpoint \in [Nodes -> Steps \cup {NoStep}]
  /\ \A n \in Nodes : checkpoint[n] # NoStep =>
       \E i \in DOMAIN trajectories :
         /\ IsLast(i, DOMAIN trajectories, n, trajectories) /\ trajectories[i].completed
         /\ trajectories[i].step = checkpoint[n] /\ built[i] = {}

Live == pc \notin {"idle", "killed"}
ProcessInv ==
  Live =>
    /\ Faithful(mine, steps, failed, trajectories, built)
    /\ \A n \in Nodes : checkpoint[n] # NoStep =>
         \E i \in mine : IsLast(i, DOMAIN trajectories, n, trajectories)
    /\ \A i \in mine :
         LET n == trajectories[i].node
         IN steps[n] = NoStep /\ checkpoint[n] = NoStep => ~trajectories[i].completed

\* A file whose report can be made again from it and the log.
SoundIn(file, log, below) ==
  file # NoFile =>
    /\ Faithful(file.active, file.snapshot, file.failures, log, below)
    /\ file.report = Evaluate(file, log)
Sound(file) == SoundIn(file, trajectories, built)

FileInv == Sound(result) /\ Sound(summary)

\* What a process that was not killed left behind.
Leaves(file) == file # NoFile /\ file.snapshot = steps /\ file.active = mine
LeftInv ==
  /\ pc = "down" => Leaves(summary) /\ summary.status = "interrupted"
  /\ pc \in {"written", "complete"} => Leaves(result) /\ result.status # "interrupted"
  /\ pc = "complete" => summary = result

IInv == LogInv /\ WalkInv /\ CheckpointInv /\ ProcessInv /\ FileInv /\ LeftInv
-----------------------------------------------------------------------------
\* A set of places in a log has a last one.
LEMMA LastPlace ==
  ASSUME NEW m \in Nat, NEW S \in SUBSET (1..m), S # {}
  PROVE  Max(S) \in S /\ \A j \in S : j <= Max(S)
<1> DEFINE T == {m - i : i \in S}
<1>0. \A i \in S : i \in Nat /\ m - i \in Nat
  OBVIOUS
<1>1. T \subseteq Nat /\ T # {}
  BY <1>0
<1>2. PICK t \in T : \A u \in T : ~(<<u, t>> \in OpToRel(<, Nat))
  BY <1>1, NatLessThanWellFounded, WFMin
<1>3. ASSUME NEW u \in T PROVE t <= u
  <2>1. t \in Nat /\ u \in Nat
    BY <1>1
  <2>2. ~(u < t)
    BY <1>2, <2>1 DEF OpToRel
  <2> QED BY <2>1, <2>2
<1>4. PICK i \in S : t = m - i
  OBVIOUS
<1>5. \A j \in S : j <= i
  <2> TAKE j \in S
  <2>1. t <= m - j
    BY <1>3
  <2> QED BY <1>0, <1>4, <2>1
<1>6. \A x, y \in S : x >= y <=> y <= x
  OBVIOUS
<1> QED BY <1>5, <1>6 DEF Max

LEMMA LastUnique ==
  ASSUME NEW log \in Seq(Record), NEW S \in SUBSET DOMAIN log, NEW n, NEW i, NEW j,
         IsLast(i, S, n, log), IsLast(j, S, n, log)
  PROVE  i = j
<1>1. i \in Nat /\ j \in Nat /\ i <= j /\ j <= i
  BY DEF IsLast
<1> QED BY <1>1

-----------------------------------------------------------------------------
(* Reading *)

\* Where the latest record of a node is in the log.
At(n, file, log) == Max({i \in Active(file, log) : log[i].node = n})

LEMMA LatestFacts ==
  ASSUME NEW log \in Seq(Record), NEW file
  PROVE  /\ DOMAIN Latest(file, log) = {log[i].node : i \in Active(file, log)}
         /\ DOMAIN Latest(file, log) \subseteq Nodes
         /\ Active(file, log) \subseteq DOMAIN log
         /\ \A n \in DOMAIN Latest(file, log) :
              /\ IsLast(At(n, file, log), Active(file, log), n, log)
              /\ Latest(file, log)[n] = log[At(n, file, log)]
<1> DEFINE S == Active(file, log)
<1>1. S \subseteq DOMAIN log /\ DOMAIN log = 1..Len(log) /\ Len(log) \in Nat
  BY DEF Active
<1>2. Latest(file, log) = [n \in {log[i].node : i \in S} |-> log[At(n, file, log)]]
  BY DEF Latest, At
<1>3. \A i \in S : log[i].node \in Nodes
  <2> TAKE i \in S
  <2>1. log[i] \in Record
    BY <1>1
  <2> QED BY <2>1 DEF Record
<1>4. ASSUME NEW n \in {log[i].node : i \in S} PROVE IsLast(At(n, file, log), S, n, log)
  <2> DEFINE P == {i \in S : log[i].node = n}
  <2>1. P \in SUBSET (1..Len(log)) /\ P # {}
    BY <1>1
  <2>2. Max(P) \in P /\ \A j \in P : j <= Max(P)
    BY <1>1, <2>1, LastPlace
  <2>3. Max(P) = At(n, file, log)
    BY DEF At
  <2> QED BY <2>2, <2>3 DEF IsLast
<1> HIDE DEF S
<1>5. DOMAIN Latest(file, log) = {log[i].node : i \in S}
  BY <1>2
<1>6. \A n \in DOMAIN Latest(file, log) : Latest(file, log)[n] = log[At(n, file, log)]
  BY <1>2
<1> QED BY <1>1, <1>3, <1>4, <1>5, <1>6 DEF S

\* What a completed latest record is.
LEMMA CompletedFacts ==
  ASSUME NEW log, WellLogged(log), NEW file, NEW n \in Completed(Latest(file, log))
  PROVE  /\ n \in Nodes /\ n \in DOMAIN Latest(file, log)
         /\ IsLast(At(n, file, log), Active(file, log), n, log)
         /\ At(n, file, log) \in Active(file, log)
         /\ log[At(n, file, log)].completed
         /\ Latest(file, log)[n] = log[At(n, file, log)]
         /\ Latest(file, log)[n].step \in Steps /\ ~Latest(file, log)[n].step.fallback
<1> DEFINE i == At(n, file, log)
<1>1. n \in DOMAIN Latest(file, log) /\ Latest(file, log)[n].completed
  BY DEF Completed
<1>2. /\ n \in Nodes /\ IsLast(i, Active(file, log), n, log)
      /\ Latest(file, log)[n] = log[i] /\ Active(file, log) \subseteq DOMAIN log
  BY <1>1, LatestFacts DEF WellLogged
<1>3. i \in Active(file, log) /\ i \in DOMAIN log
  BY <1>2 DEF IsLast
<1> QED BY <1>1, <1>2, <1>3 DEF WellLogged

\* Reading a file that is faithful to the log.
LEMMA ReadFile ==
  ASSUME NEW log, WellLogged(log), NEW file, file # NoFile, NEW below,
         Faithful(file.active, file.snapshot, file.failures, log, below)
  PROVE  LET latest == Latest(file, log)
         IN  /\ ~Conflicting(file, latest)
             /\ DirectFallbacks(StepsRead(file, latest), Failures(file)) = file.failures
             /\ \A n \in Completed(latest) :
                  below[At(n, file, log)] \subseteq Below[n] \cap file.failures
<1> DEFINE latest == Latest(file, log)
           read == StepsRead(file, latest)
<1>1. /\ Snapshot(file) = file.snapshot /\ Failures(file) = file.failures
      /\ Active(file, log) = file.active
  BY DEF Snapshot, Failures, Active, Faithful
<1>2. ASSUME NEW n \in Completed(latest)
      PROVE  /\ n \notin Fell(file.snapshot)
             /\ file.snapshot[n] \in {NoStep, latest[n].step}
             /\ below[At(n, file, log)] \subseteq Below[n] \cap file.failures
  BY <1>1, CompletedFacts DEF Faithful
<1>3. ~Conflicting(file, latest)
  BY <1>1, <1>2 DEF Conflicting
<1>4. ASSUME NEW n \in Nodes, read[n] # NoStep, read[n].fallback PROVE n \in file.failures
  <2>1. CASE file.snapshot[n] # NoStep
    <3>1. n \in Fell(file.snapshot)
      BY <1>1, <1>4, <2>1 DEF StepsRead, Fell
    <3> QED BY <3>1 DEF Faithful
  <2>2. CASE file.snapshot[n] = NoStep
    <3>1. n \in Completed(latest) /\ read[n] = latest[n].step
      BY <1>1, <1>4, <2>2 DEF StepsRead
    <3> QED BY <1>4, <3>1, CompletedFacts
  <2> QED BY <2>1, <2>2
<1>5. DirectFallbacks(read, Failures(file)) = file.failures
  BY <1>1, <1>4 DEF DirectFallbacks
<1> QED BY <1>2, <1>3, <1>5

\* Reading without a file: the log alone tells of no fallback.
LEMMA ReadLog ==
  ASSUME NEW log, WellLogged(log)
  PROVE  LET latest == Latest(NoFile, log)
         IN  /\ ~Conflicting(NoFile, latest)
             /\ DirectFallbacks(StepsRead(NoFile, latest), Failures(NoFile)) = {}
<1> DEFINE latest == Latest(NoFile, log)
           read == StepsRead(NoFile, latest)
<1>1. \A n \in Nodes : Snapshot(NoFile)[n] = NoStep
  BY DEF Snapshot, NoSteps
<1>2. \A n \in Completed(latest) : n \in Nodes /\ ~latest[n].step.fallback
  BY CompletedFacts
<1>3. ~Conflicting(NoFile, latest)
  BY <1>1, <1>2 DEF Conflicting
<1>4. \A n \in Nodes : read[n] = NoStep \/ ~read[n].fallback
  BY <1>1, <1>2 DEF StepsRead
<1> QED BY <1>3, <1>4 DEF DirectFallbacks, Failures

\* Of a file without conflict, every part of the report can be read.
LEMMA EvaluateIs ==
  ASSUME NEW log, NEW file, ~Conflicting(file, Latest(file, log))
  PROVE  LET latest == Latest(file, log)
             read == StepsRead(file, latest)
             direct == DirectFallbacks(read, Failures(file))
             report == Evaluate(file, log)
         IN  /\ report = Reported(file, latest, read, direct, Targets(latest, read, direct))
             /\ "targets" \in DOMAIN report
             /\ report.status = RunStatus(file, report.operational, direct)
             /\ report.operational = [n \in Nodes |-> Operational(n, read, latest, direct)]
             /\ report.targets = Targets(latest, read, direct)
<1> DEFINE latest == Latest(file, log)
           read == StepsRead(file, latest)
           direct == DirectFallbacks(read, Failures(file))
           report == Evaluate(file, log)
<1>1. report = Reported(file, latest, read, direct, Targets(latest, read, direct))
  BY DEF Evaluate
<1> HIDE DEF latest, read, direct, report
<1>2. /\ "targets" \in DOMAIN report
      /\ report.status = RunStatus(file, report.operational, direct)
      /\ report.operational = [n \in Nodes |-> Operational(n, read, latest, direct)]
      /\ report.targets = Targets(latest, read, direct)
  BY <1>1 DEF Reported
<1> QED BY <1>1, <1>2 DEF latest, read, direct, report

-----------------------------------------------------------------------------
(* A log that grows *)

LEMMA LogGrows ==
  ASSUME NEW log, WellLogged(log), NEW rec \in Record,
         IF rec.completed THEN rec.step \in Steps /\ ~rec.step.fallback
                          ELSE rec.step = NoStep
  PROVE  /\ WellLogged(Append(log, rec))
         /\ DOMAIN Append(log, rec) = DOMAIN log \cup {Len(log) + 1}
         /\ Len(log) + 1 \notin DOMAIN log /\ Len(log) \in Nat
         /\ DOMAIN log = 1..Len(log) /\ Len(Append(log, rec)) = Len(log) + 1
         /\ Append(log, rec)[Len(log) + 1] = rec
         /\ \A i \in DOMAIN log : Append(log, rec)[i] = log[i]
<1> DEFINE new == Append(log, rec)
<1>1. log \in Seq(Record) /\ Len(log) \in Nat /\ DOMAIN log = 1..Len(log)
  BY DEF WellLogged
<1>2. /\ new \in Seq(Record) /\ Len(new) = Len(log) + 1 /\ DOMAIN new = 1..(Len(log) + 1)
      /\ new[Len(log) + 1] = rec /\ \A i \in DOMAIN log : new[i] = log[i]
  BY <1>1
<1>3. DOMAIN new = DOMAIN log \cup {Len(log) + 1} /\ Len(log) + 1 \notin DOMAIN log
  BY <1>1, <1>2
<1> HIDE DEF new
<1>4. WellLogged(new)
  BY <1>2, <1>3 DEF WellLogged
<1> QED BY <1>1, <1>2, <1>3, <1>4 DEF new

\* What is read of a file does not depend on what was logged after it.
LEMMA LatestStable ==
  ASSUME NEW log, WellLogged(log), NEW new, NEW file, file # NoFile,
         file.active \subseteq DOMAIN log, DOMAIN log \subseteq DOMAIN new,
         \A i \in DOMAIN log : new[i] = log[i]
  PROVE  Latest(file, new) = Latest(file, log) /\ Evaluate(file, new) = Evaluate(file, log)
<1> DEFINE S == file.active
<1>1. Active(file, log) = S /\ Active(file, new) = S
  BY DEF Active
<1>2. \A i \in S : new[i] = log[i]
  OBVIOUS
<1> HIDE DEF S
<1>3. {new[i].node : i \in S} = {log[i].node : i \in S}
  BY <1>2
<1>4. ASSUME NEW n PROVE At(n, file, new) = At(n, file, log)
  <2>1. {i \in S : new[i].node = n} = {i \in S : log[i].node = n}
    BY <1>2
  <2> QED BY <1>1, <2>1 DEF At
<1>5. ASSUME NEW n \in {log[i].node : i \in S}
      PROVE  new[At(n, file, new)] = log[At(n, file, log)]
  <2>0. log \in Seq(Record) /\ n \in {log[i].node : i \in Active(file, log)}
    BY <1>1 DEF WellLogged
  <2>1. IsLast(At(n, file, log), S, n, log)
    BY <1>1, <2>0, LatestFacts
  <2>2. At(n, file, log) \in S
    BY <2>1 DEF IsLast
  <2> QED BY <1>2, <1>4, <2>2
<1>6. Latest(file, log) = [n \in {log[i].node : i \in S} |-> log[At(n, file, log)]]
  BY <1>1 DEF Latest, At
<1>7. Latest(file, new) = [n \in {new[i].node : i \in S} |-> new[At(n, file, new)]]
  BY <1>1 DEF Latest, At
<1>8. Latest(file, new) = Latest(file, log)
  BY <1>3, <1>5, <1>6, <1>7
<1>9. Evaluate(file, new) = Evaluate(file, log)
  BY <1>8 DEF Evaluate
<1> QED BY <1>8, <1>9

LEMMA FaithfulStable ==
  ASSUME NEW log, NEW new, NEW below, NEW newBelow, NEW active, NEW left, NEW failures,
         Faithful(active, left, failures, log, below), DOMAIN log \subseteq DOMAIN new,
         \A i \in DOMAIN log : new[i] = log[i] /\ newBelow[i] = below[i]
  PROVE  Faithful(active, left, failures, new, newBelow)
<1>1. active \subseteq DOMAIN log
  BY DEF Faithful
<1>2. \A i \in active : new[i] = log[i] /\ newBelow[i] = below[i]
  BY <1>1
<1>3. \A n, i : IsLast(i, active, n, new) <=> IsLast(i, active, n, log)
  BY <1>2 DEF IsLast
<1> QED BY <1>1, <1>2, <1>3 DEF Faithful

-----------------------------------------------------------------------------
(* What a process saves *)

\* A saved report is the one its own file gives when it is read again: only
\* the status is added to it, and no report calls a finished walk interrupted.
LEMMA Saving ==
  ASSUME NEW log, WellLogged(log), NEW status \in {"interrupted", "walked"},
         NEW active, NEW left, NEW failures, NEW below,
         Faithful(active, left, failures, log, below)
  PROVE  LET file == File(status, active, left, failures, log)
         IN  /\ file # NoFile /\ file.active = active /\ file.snapshot = left
             /\ file.failures = failures
             /\ file.status = "interrupted" <=> status = "interrupted"
             /\ file.report = Evaluate(file, log)
<1> DEFINE bare == [status |-> status, snapshot |-> left, failures |-> failures,
                    active |-> active]
           file == File(status, active, left, failures, log)
           report == Evaluate(bare, log)
           saved == IF status = "interrupted" THEN status ELSE report.status
<1>1. /\ bare # NoFile /\ bare.status = status /\ bare.snapshot = left
      /\ bare.failures = failures /\ bare.active = active
  <2>1. "active" \in DOMAIN bare /\ "active" \notin DOMAIN NoFile
    BY DEF NoFile
  <2> QED BY <2>1
<1>2. file = [status |-> saved, snapshot |-> left, failures |-> failures,
              active |-> active, report |-> report]
  BY DEF File, Saved
<1>3. /\ file # NoFile /\ file.status = saved /\ file.snapshot = left
      /\ file.failures = failures /\ file.active = active /\ file.report = report
  <2> HIDE DEF file, report
  <2>1. "active" \in DOMAIN file /\ "active" \notin DOMAIN NoFile
    BY <1>2 DEF NoFile
  <2>2. file # NoFile
    BY <2>1
  <2> QED BY <1>2, <2>2
<1> HIDE DEF bare, file, report
<1> DEFINE latest == Latest(bare, log)
           read == StepsRead(bare, latest)
           direct == DirectFallbacks(read, failures)
<1>4. ~Conflicting(bare, latest)
  BY <1>1, ReadFile
<1>5. /\ Latest(file, log) = latest /\ Snapshot(file) = left /\ Snapshot(bare) = left
      /\ Failures(file) = failures /\ Failures(bare) = failures
  BY <1>1, <1>3 DEF Latest, Active, Snapshot, Failures
<1>6. StepsRead(file, latest) = read /\ ~Conflicting(file, latest)
  BY <1>4, <1>5 DEF StepsRead, Conflicting
<1> HIDE DEF latest, read, direct
<1>7. report = Reported(bare, latest, read, direct, Targets(latest, read, direct))
  BY <1>4, <1>5 DEF Evaluate, report, latest, read, direct
<1>8. Evaluate(file, log) = Reported(file, latest, read, direct, Targets(latest, read, direct))
  BY <1>5, <1>6 DEF Evaluate, direct
<1>9. saved = "interrupted" <=> status = "interrupted"
  <2>1. report.status = RunStatus(bare, report.operational, direct)
    BY <1>7 DEF Reported
  <2>2. status # "interrupted" => report.status # "interrupted"
    BY <1>1, <2>1 DEF RunStatus
  <2> QED BY <2>2
<1>10. \A operational : RunStatus(file, operational, direct) = RunStatus(bare, operational, direct)
  BY <1>1, <1>3, <1>9 DEF RunStatus
<1>11. Evaluate(file, log) = report
  BY <1>7, <1>8, <1>10 DEF Reported
<1> QED BY <1>3, <1>9, <1>11 DEF file

-----------------------------------------------------------------------------
(* What the invariant says of a reader *)

\* Whichever file is read, it is sound.
LEMMA FileRead ==
  ASSUME FileInv
  PROVE  Sound(File0) /\ Report = Evaluate(File0, trajectories)
<1>1. File0 \in {result, summary}
  BY DEF File0, LoadResultOrSummary
<1> QED BY <1>1 DEF FileInv, Report, File0

\* No reading is refused, and what it takes for fallbacks are the failures.
LEMMA Read ==
  ASSUME LogInv, FileInv
  PROVE  LET latest == Latest(File0, trajectories)
             read == StepsRead(File0, latest)
         IN  /\ ~Conflicting(File0, latest)
             /\ DirectFallbacks(read, Failures(File0)) = Failures(File0)
             /\ Readable
             /\ Report.operational =
                  [n \in Nodes |-> Operational(n, read, latest, Failures(File0))]
             /\ Report.targets = Targets(latest, read, Failures(File0))
<1>1. WellLogged(trajectories) /\ Sound(File0) /\ Report = Evaluate(File0, trajectories)
  BY FileRead DEF LogInv
<1> DEFINE latest == Latest(File0, trajectories)
           read == StepsRead(File0, latest)
<1>2. ~Conflicting(File0, latest) /\ DirectFallbacks(read, Failures(File0)) = Failures(File0)
  <2>1. CASE File0 # NoFile
    <3>1. Failures(File0) = File0.failures
      BY <2>1 DEF Failures
    <3> QED BY <1>1, <2>1, <3>1, ReadFile DEF Sound, SoundIn
  <2>2. CASE File0 = NoFile
    <3>1. Failures(File0) = {}
      BY <2>2 DEF Failures
    <3> QED BY <1>1, <2>2, <3>1, ReadLog
  <2> QED BY <2>1, <2>2
<1>3. /\ Readable
      /\ Report.operational = [n \in Nodes |-> Operational(n, read, latest, Failures(File0))]
      /\ Report.targets = Targets(latest, read, Failures(File0))
  BY <1>1, <1>2, EvaluateIs DEF Readable
<1> QED BY <1>2, <1>3

LEMMA FlagsHold == LogInv /\ FileInv => DependenciesFlagged
<1> SUFFICES ASSUME LogInv, FileInv, File0 # NoFile, NEW n \in DOMAIN Binding,
                    Report.targets[n].kind = "committed"
             PROVE  BuiltOn(n) \subseteq Report.targets[n].flagged
  BY DEF DependenciesFlagged, Flagged
<1> DEFINE latest == Latest(File0, trajectories)
           read == StepsRead(File0, latest)
           direct == Failures(File0)
<1>1. WellLogged(trajectories) /\ Sound(File0) /\ direct = File0.failures
  BY FileRead DEF LogInv, Failures
<1>2. \A m \in Completed(latest) :
        built[At(m, File0, trajectories)] \subseteq Below[m] \cap direct
  BY <1>1, ReadFile DEF Sound, SoundIn
<1>3. Report.targets = Targets(latest, read, direct)
  BY Read
<1> HIDE DEF latest, read, direct
<1>4. /\ Report.targets[n].kind = OutputKind(n, read, latest, direct)
      /\ Report.targets[n].flagged = DescendantFallbacks(n, direct)
  BY <1>3 DEF Targets
<1>5. n \in Completed(latest)
  BY <1>4 DEF OutputKind
<1>6. BuiltOn(n) = built[At(n, File0, trajectories)]
  BY DEF BuiltOn, At
<1> QED BY <1>2, <1>4, <1>5, <1>6 DEF DescendantFallbacks

\* What the last process left is what is read: the file it wrote is the one
\* that speaks, and where it did not come, the log agrees with the checkpoint.
LEMMA CurrentHolds == IInv => ReportIsCurrent
<1> SUFFICES ASSUME IInv, pc \in {"down", "complete"}
             PROVE  StepsRead(File0, Latest(File0, trajectories))
                      = [n \in Nodes |-> IF steps[n] # NoStep THEN steps[n] ELSE checkpoint[n]]
  BY DEF ReportIsCurrent
<1> DEFINE latest == Latest(File0, trajectories)
<1>1. WellLogged(trajectories) /\ ProcessInv /\ CheckpointInv /\ LeftInv
  BY DEF IInv, LogInv
<1>2. File0 # NoFile /\ File0.snapshot = steps /\ File0.active = mine
  <2>1. CASE pc = "down"
    BY <1>1, <2>1 DEF LeftInv, Leaves, File0, LoadResultOrSummary
  <2>2. CASE pc = "complete"
    BY <1>1, <2>2 DEF LeftInv, Leaves, File0, LoadResultOrSummary
  <2> QED BY <2>1, <2>2
<1>3. Faithful(mine, steps, failed, trajectories, built)
  BY <1>1 DEF ProcessInv, Live
<1>4. Snapshot(File0) = steps /\ Active(File0, trajectories) = mine
  BY <1>2, <1>3 DEF Snapshot, Active, Faithful
<1>5. ASSUME NEW n \in Nodes, steps[n] = NoStep, checkpoint[n] = NoStep
      PROVE  n \notin Completed(latest)
  <2> SUFFICES ASSUME n \in Completed(latest) PROVE FALSE
    OBVIOUS
  <2> DEFINE i == At(n, File0, trajectories)
  <2>1. i \in mine /\ trajectories[i].completed /\ trajectories[i].node = n
    BY <1>1, <1>4, CompletedFacts DEF IsLast
  <2> HIDE DEF i
  <2> QED BY <1>1, <1>5, <2>1 DEF ProcessInv, Live
<1>6. ASSUME NEW n \in Nodes, checkpoint[n] # NoStep
      PROVE  n \in Completed(latest) /\ latest[n].step = checkpoint[n]
  <2>1. PICK i \in DOMAIN trajectories :
          /\ IsLast(i, DOMAIN trajectories, n, trajectories) /\ trajectories[i].completed
          /\ trajectories[i].step = checkpoint[n]
    BY <1>1, <1>6 DEF CheckpointInv
  <2>2. PICK j \in mine : IsLast(j, DOMAIN trajectories, n, trajectories)
    BY <1>1, <1>6 DEF ProcessInv, Live
  <2>3. i = j
    BY <1>1, <2>1, <2>2, LastUnique DEF WellLogged
  <2>4. mine \subseteq DOMAIN trajectories /\ trajectories \in Seq(Record)
    BY <1>1, <1>3 DEF Faithful, WellLogged
  <2>5. IsLast(i, mine, n, trajectories)
    BY <2>1, <2>2, <2>3, <2>4 DEF IsLast
  <2>6. n \in DOMAIN latest
    <3>1. i \in mine /\ trajectories[i].node = n
      BY <2>5 DEF IsLast
    <3>2. DOMAIN latest = {trajectories[k].node : k \in mine}
      BY <1>4, <2>4, LatestFacts
    <3> QED BY <3>1, <3>2
  <2>7. /\ IsLast(At(n, File0, trajectories), mine, n, trajectories)
        /\ latest[n] = trajectories[At(n, File0, trajectories)]
    BY <1>4, <2>4, <2>6, LatestFacts
  <2>8. At(n, File0, trajectories) = i
    BY <2>4, <2>5, <2>7, LastUnique
  <2> QED BY <2>1, <2>6, <2>7, <2>8 DEF Completed
<1> HIDE DEF latest
<1> QED BY <1>4, <1>5, <1>6 DEF StepsRead, latest

LEMMA ReaderHolds == IInv => ReportHolds
<1> SUFFICES ASSUME IInv PROVE ReportHolds
  OBVIOUS
<1>1. LogInv /\ FileInv
  BY DEF IInv
<1>2. Recomputable
  BY <1>1, FileRead, Read DEF Sound, SoundIn, Recomputable
<1> QED BY <1>1, <1>2, FlagsHold, CurrentHolds DEF ReportHolds

\* The report and the sweep have the same nodes for committed.
LEMMA ReadersAgree == LogInv /\ FileInv => SweepAgrees
<1> SUFFICES ASSUME LogInv, FileInv PROVE SweepAgrees
  OBVIOUS
<1> DEFINE latest == Latest(File0, trajectories)
           read == StepsRead(File0, latest)
           direct == Failures(File0)
<1>1. ReadSeed(File0, trajectories).committed = Completed(latest) \ direct
  BY DEF ReadSeed, SeedOf
<1>2. Report.operational = [n \in Nodes |-> Operational(n, read, latest, direct)]
  BY Read
<1>3. Completed(latest) \subseteq Nodes
  BY CompletedFacts DEF LogInv
<1> HIDE DEF latest, read, direct
<1>4. \A n \in Nodes : Operational(n, read, latest, direct)
                          \in {"committed", "committed_without_saved_output"}
                         <=> n \in Completed(latest) \ direct
  BY DEF Operational
<1> QED BY <1>1, <1>2, <1>3, <1>4 DEF SweepAgrees

-----------------------------------------------------------------------------
(* One more record *)

LEMMA SoundStable ==
  ASSUME NEW log, WellLogged(log), NEW new, NEW below, NEW newBelow, NEW file,
         SoundIn(file, log, below), DOMAIN log \subseteq DOMAIN new,
         \A i \in DOMAIN log : new[i] = log[i] /\ newBelow[i] = below[i]
  PROVE  SoundIn(file, new, newBelow)
<1> SUFFICES ASSUME file # NoFile
             PROVE  /\ Faithful(file.active, file.snapshot, file.failures, new, newBelow)
                    /\ file.report = Evaluate(file, new)
  BY DEF SoundIn
<1>1. /\ Faithful(file.active, file.snapshot, file.failures, log, below)
      /\ file.report = Evaluate(file, log)
  BY DEF SoundIn
<1>2. Faithful(file.active, file.snapshot, file.failures, new, newBelow)
  BY <1>1, FaithfulStable
<1>3. Evaluate(file, new) = Evaluate(file, log)
  BY <1>1, LatestStable DEF Faithful
<1> QED BY <1>1, <1>2, <1>3

\* A process stays faithful when it logs a session at a node that had no step.
LEMMA FaithfulAfter ==
  ASSUME WellLogged(trajectories), Faithful(mine, steps, failed, trajectories, built),
         NEW m, m = Len(trajectories) + 1, NEW rec \in Record,
         DOMAIN trajectories' = DOMAIN trajectories \cup {m}, trajectories'[m] = rec,
         \A i \in DOMAIN trajectories :
           trajectories'[i] = trajectories[i] /\ built'[i] = built[i],
         NEW left \in [Nodes -> Steps \cup {NoStep}], NEW failures \in SUBSET Nodes,
         steps[rec.node] = NoStep, failed \subseteq failures,
         \A k \in Nodes \ {rec.node} : left[k] = steps[k],
         rec.node \in Fell(left) => rec.node \in failures,
         rec.completed => /\ rec.node \notin Fell(left) /\ left[rec.node] = rec.step
                          /\ built'[m] \subseteq Below[rec.node] \cap Fell(steps)
  PROVE  Faithful(mine \cup {m}, left, failures, trajectories', built')
<1>1. mine \subseteq DOMAIN trajectories /\ Fell(steps) \subseteq failed /\ rec.node \in Nodes
  BY DEF Faithful, Record
<1>2. Fell(steps) \subseteq Fell(left) /\ Fell(left) \subseteq Fell(steps) \cup {rec.node}
  BY DEF Fell
<1>3. Fell(left) \subseteq failures
  BY <1>1, <1>2
<1>4. ASSUME NEW n \in Nodes, NEW i \in mine \cup {m},
             IsLast(i, mine \cup {m}, n, trajectories'), trajectories'[i].completed
      PROVE  /\ n \notin Fell(left) /\ left[n] \in {NoStep, trajectories'[i].step}
             /\ built'[i] \subseteq Below[n] \cap Fell(left)
  <2>1. CASE n = rec.node
    <3>1. i = m
      <4>1. m \in mine \cup {m} /\ trajectories'[m] = rec
        OBVIOUS
      <4> QED BY <1>1, <1>4, <2>1, <4>1 DEF IsLast, WellLogged
    <3> QED BY <1>2, <1>4, <2>1, <3>1
  <2>2. CASE n # rec.node
    <3>1. IsLast(i, mine, n, trajectories)
      BY <1>1, <1>4, <2>2 DEF IsLast, WellLogged
    <3>2. i \in mine /\ trajectories'[i] = trajectories[i] /\ built'[i] = built[i]
      BY <1>1, <3>1 DEF IsLast
    <3>3. /\ n \notin Fell(steps) /\ steps[n] \in {NoStep, trajectories[i].step}
          /\ built[i] \subseteq Below[n] \cap Fell(steps)
      BY <1>4, <3>1, <3>2 DEF Faithful
    <3> QED BY <1>2, <2>2, <3>2, <3>3
  <2> QED BY <2>1, <2>2
<1> QED BY <1>1, <1>3, <1>4 DEF Faithful

-----------------------------------------------------------------------------
(* The steps of a process *)

\* The node in hand has no step yet, and nor has any after it.
LEMMA InHandFacts ==
  ASSUME WalkInv, Walking
  PROVE  /\ cursor \in 1..Len(Order) /\ Len(Order) \in Nat
         /\ InHand \in Nodes /\ steps[InHand] = NoStep
         /\ \A k \in (cursor + 1)..Len(Order) : Order[k] \in Nodes \ {InHand}
         /\ Below[InHand] \subseteq Nodes
         /\ Fallbacks = Below[InHand] \cap Fell(steps)
<1>1. Order \in Seq(Nodes) /\ Len(Order) \in Nat
  BY EvaluationAssumption
<1>2. cursor \in 1..Len(Order)
  BY <1>1 DEF WalkInv, Walking
<1>3. InHand \in Nodes /\ steps[InHand] = NoStep
  BY <1>1, <1>2 DEF WalkInv, Walking, InHand
<1>4. \A k \in (cursor + 1)..Len(Order) : Order[k] \in Nodes \ {InHand}
  BY <1>1, <1>2, EvaluationAssumption DEF InHand
<1>5. Below[InHand] \subseteq Nodes
  <2>1. Below[InHand] \subseteq {Order[j] : j \in 1..(cursor - 1)}
    BY <1>1, <1>2, EvaluationAssumption DEF InHand
  <2>2. \A j \in 1..(cursor - 1) : Order[j] \in Nodes
    BY <1>1, <1>2
  <2> QED BY <2>1, <2>2
<1>6. Fallbacks = Below[InHand] \cap Fell(steps)
  BY <1>5 DEF Fallbacks, Fell
<1> QED BY <1>1, <1>2, <1>3, <1>4, <1>5, <1>6

\* A session at the node in hand is logged: what was said of the other nodes
\* is still so, and the files are as sound as they were.
LEMMA Appended ==
  ASSUME IInv, Walking, NEW completed \in BOOLEAN, NEW step,
         IF completed THEN step \in Steps /\ ~step.fallback ELSE step = NoStep,
         Append1(completed, step)
  PROVE  LET m == Len(trajectories) + 1
             rec == [node |-> InHand, completed |-> completed, step |-> step]
         IN  /\ LogInv' /\ rec \in Record
             /\ m \notin DOMAIN trajectories /\ m \in DOMAIN trajectories'
             /\ DOMAIN trajectories' = DOMAIN trajectories \cup {m}
             /\ trajectories'[m] = rec /\ built'[m] = Fallbacks
             /\ \A i \in DOMAIN trajectories :
                  trajectories'[i] = trajectories[i] /\ built'[i] = built[i]
             /\ mine' = mine \cup {m} /\ mine \subseteq DOMAIN trajectories
             /\ \A file : SoundIn(file, trajectories, built)
                            => SoundIn(file, trajectories', built')
             /\ \A n, i : n # InHand => (IsLast(i, DOMAIN trajectories', n, trajectories')
                                          <=> IsLast(i, DOMAIN trajectories, n, trajectories))
             /\ IsLast(m, DOMAIN trajectories', InHand, trajectories')
<1> DEFINE m == Len(trajectories) + 1
           rec == [node |-> InHand, completed |-> completed, step |-> step]
<1>1. /\ WellLogged(trajectories) /\ built \in Seq(SUBSET Nodes)
      /\ Len(built) = Len(trajectories)
  BY DEF IInv, LogInv
<1>2. InHand \in Nodes /\ Fallbacks \in SUBSET Nodes
  BY InHandFacts DEF IInv
<1>3. rec \in Record
  BY <1>2 DEF Record
<1>4. /\ trajectories' = Append(trajectories, rec) /\ built' = Append(built, Fallbacks)
      /\ mine' = mine \cup {m}
  BY DEF Append1
<1>5. IF rec.completed THEN rec.step \in Steps /\ ~rec.step.fallback ELSE rec.step = NoStep
  OBVIOUS
<1>6. rec.node = InHand
  OBVIOUS
<1> HIDE DEF rec
<1>7. /\ WellLogged(trajectories') /\ DOMAIN trajectories' = DOMAIN trajectories \cup {m}
      /\ m \notin DOMAIN trajectories /\ trajectories'[m] = rec
      /\ DOMAIN trajectories = 1..Len(trajectories) /\ Len(trajectories) \in Nat
      /\ Len(trajectories') = m
      /\ \A i \in DOMAIN trajectories : trajectories'[i] = trajectories[i]
  BY <1>1, <1>3, <1>4, <1>5, LogGrows
<1>8. /\ built' \in Seq(SUBSET Nodes) /\ Len(built') = m /\ built'[m] = Fallbacks
      /\ \A i \in DOMAIN trajectories : built'[i] = built[i]
  BY <1>1, <1>2, <1>4, <1>7
<1>9. LogInv'
  BY <1>7, <1>8 DEF LogInv
<1>10. mine \subseteq DOMAIN trajectories
  BY DEF IInv, ProcessInv, Live, Walking, Faithful
<1>11. \A file : SoundIn(file, trajectories, built) => SoundIn(file, trajectories', built')
  BY <1>1, <1>7, <1>8, SoundStable
<1>12. ASSUME NEW n, NEW i
       PROVE  /\ n # InHand => (IsLast(i, DOMAIN trajectories', n, trajectories')
                                   <=> IsLast(i, DOMAIN trajectories, n, trajectories))
              /\ n = InHand => (IsLast(i, DOMAIN trajectories', n, trajectories') <=> i = m)
  <2> DEFINE S == DOMAIN trajectories
  <2>1. DOMAIN trajectories' = S \cup {m} /\ trajectories'[m].node = InHand
    BY <1>6, <1>7
  <2>2. \A j \in S : j < m /\ j \in Nat /\ trajectories'[j] = trajectories[j]
    BY <1>7
  <2>3. m \in Nat
    BY <1>7
  <2> HIDE DEF m, S
  <2>4. n # InHand => (IsLast(i, S \cup {m}, n, trajectories')
                        <=> IsLast(i, S, n, trajectories))
    BY <2>1, <2>2 DEF IsLast
  <2>5. n = InHand => (IsLast(i, S \cup {m}, n, trajectories') <=> i = m)
    BY <2>1, <2>2, <2>3 DEF IsLast
  <2> QED BY <2>1, <2>4, <2>5 DEF S
<1> QED BY <1>3, <1>4, <1>7, <1>8, <1>9, <1>10, <1>11, <1>12 DEF rec

\* A session without a commit changes nothing of what the checkpoint and the
\* process rest on, whatever it does with the step of the node in hand.
LEMMA Uncommitted ==
  ASSUME IInv, Walking, checkpoint[InHand] = NoStep, Append1(FALSE, NoStep),
         UNCHANGED checkpoint,
         NEW left \in [Nodes -> Steps \cup {NoStep}], NEW failures \in SUBSET Nodes,
         \A k \in Nodes \ {InHand} : left[k] = steps[k],
         failed \subseteq failures, InHand \in Fell(left) => InHand \in failures
  PROVE  /\ LogInv' /\ CheckpointInv'
         /\ Faithful(mine', left, failures, trajectories', built')
         /\ \A n \in Nodes : checkpoint'[n] # NoStep =>
              \E i \in mine' : IsLast(i, DOMAIN trajectories', n, trajectories')
         /\ \A i \in mine' :
              LET n == trajectories'[i].node
              IN left[n] = NoStep /\ checkpoint'[n] = NoStep => ~trajectories'[i].completed
         /\ \A file : SoundIn(file, trajectories, built)
                        => SoundIn(file, trajectories', built')
<1> DEFINE m == Len(trajectories) + 1
           rec == [node |-> InHand, completed |-> FALSE, step |-> NoStep]
<1>1. /\ LogInv' /\ rec \in Record
      /\ m \notin DOMAIN trajectories /\ m \in DOMAIN trajectories'
      /\ DOMAIN trajectories' = DOMAIN trajectories \cup {m}
      /\ trajectories'[m] = rec /\ built'[m] = Fallbacks
      /\ \A i \in DOMAIN trajectories :
           trajectories'[i] = trajectories[i] /\ built'[i] = built[i]
      /\ mine' = mine \cup {m} /\ mine \subseteq DOMAIN trajectories
      /\ \A file : SoundIn(file, trajectories, built)
                     => SoundIn(file, trajectories', built')
      /\ \A n, i : n # InHand => (IsLast(i, DOMAIN trajectories', n, trajectories')
                                   <=> IsLast(i, DOMAIN trajectories, n, trajectories))
  BY Appended
<1>2. /\ WellLogged(trajectories) /\ CheckpointInv /\ steps[InHand] = NoStep
      /\ InHand \in Nodes /\ Faithful(mine, steps, failed, trajectories, built)
  BY InHandFacts DEF IInv, LogInv, ProcessInv, Live, Walking
<1>3. rec.node = InHand /\ ~rec.completed
  OBVIOUS
<1> HIDE DEF rec
<1>4. Faithful(mine \cup {m}, left, failures, trajectories', built')
  BY <1>1, <1>2, <1>3, FaithfulAfter
<1> HIDE DEF m
<1>5. CheckpointInv'
  <2>1. ASSUME NEW n \in Nodes, checkpoint[n] # NoStep
        PROVE  \E i \in DOMAIN trajectories' :
                 /\ IsLast(i, DOMAIN trajectories', n, trajectories')
                 /\ trajectories'[i].completed /\ trajectories'[i].step = checkpoint[n]
                 /\ built'[i] = {}
    <3>1. PICK i \in DOMAIN trajectories :
            /\ IsLast(i, DOMAIN trajectories, n, trajectories) /\ trajectories[i].completed
            /\ trajectories[i].step = checkpoint[n] /\ built[i] = {}
      BY <1>2, <2>1 DEF CheckpointInv
    <3>2. n # InHand
      BY <2>1
    <3> QED BY <1>1, <3>1, <3>2
  <2> QED BY <1>2, <2>1 DEF CheckpointInv
<1>6. ASSUME NEW n \in Nodes, checkpoint'[n] # NoStep
      PROVE  \E i \in mine' : IsLast(i, DOMAIN trajectories', n, trajectories')
  <2>1. n # InHand /\ checkpoint[n] # NoStep
    BY <1>6
  <2>2. PICK i \in mine : IsLast(i, DOMAIN trajectories, n, trajectories)
    BY <2>1 DEF IInv, ProcessInv, Live, Walking
  <2> QED BY <1>1, <2>1, <2>2
<1>7. ASSUME NEW i \in mine', left[trajectories'[i].node] = NoStep,
             checkpoint'[trajectories'[i].node] = NoStep
      PROVE  ~trajectories'[i].completed
  <2>1. CASE i = m
    BY <1>1, <1>3, <2>1
  <2>2. CASE i # m
    <3>1. i \in mine /\ i \in DOMAIN trajectories /\ trajectories'[i] = trajectories[i]
      BY <1>1, <2>2
    <3>2. trajectories[i].node \in Nodes
      <4>1. trajectories[i] \in Record
        BY <1>2, <3>1 DEF WellLogged
      <4> QED BY <4>1 DEF Record
    <3>3. steps[trajectories[i].node] = NoStep
      BY <1>2, <1>7, <3>1, <3>2
    <3> QED BY <1>7, <3>1, <3>3 DEF IInv, ProcessInv, Live, Walking
  <2> QED BY <2>1, <2>2
<1> QED BY <1>1, <1>4, <1>5, <1>6, <1>7

\* The files that were not replaced are sound after the step.
LEMMA FilesStay ==
  ASSUME FileInv,
         \A file : SoundIn(file, trajectories, built) => SoundIn(file, trajectories', built')
  PROVE  (result' = result => Sound(result)') /\ (summary' = summary => Sound(summary)')
BY DEF FileInv, Sound

\* The file that is written is sound, and is what the process leaves.
LEMMA FileWritten ==
  ASSUME NEW log, WellLogged(log), NEW status \in {"interrupted", "walked"},
         NEW active, NEW left, NEW failures, NEW below,
         Faithful(active, left, failures, log, below)
  PROVE  LET file == File(status, active, left, failures, log)
         IN  /\ SoundIn(file, log, below)
             /\ file # NoFile /\ file.snapshot = left /\ file.active = active
             /\ file.status = "interrupted" <=> status = "interrupted"
<1> DEFINE file == File(status, active, left, failures, log)
<1>1. /\ file # NoFile /\ file.active = active /\ file.snapshot = left
      /\ file.failures = failures
      /\ file.status = "interrupted" <=> status = "interrupted"
      /\ file.report = Evaluate(file, log)
  BY Saving
<1> HIDE DEF file
<1>2. SoundIn(file, log, below)
  BY <1>1 DEF SoundIn
<1> QED BY <1>1, <1>2 DEF file

LEMMA StepFacts ==
  ASSUME NEW n \in Nodes, NEW fallback \in BOOLEAN, NEW output \in Outputs \cup {FallbackOutput}
  PROVE  /\ Step(n, fallback, output) \in Steps /\ Step(n, fallback, output) # NoStep
         /\ Step(n, fallback, output).fallback = fallback
<1>1. Step(n, fallback, output) \in Steps
  BY DEF Step, Steps
<1> QED BY <1>1, EvaluationAssumption DEF Step

LEMMA CommitStep == IInv /\ Commit => IInv'
<1> SUFFICES ASSUME IInv, NEW output \in Outputs, Walking, checkpoint[InHand] = NoStep,
                    Append1(TRUE, Step(InHand, FALSE, output)),
                    steps' = [steps EXCEPT ![InHand] = Step(InHand, FALSE, output)],
                    checkpoint' = IF Fallbacks = {}
                                  THEN [checkpoint EXCEPT ![InHand] = Step(InHand, FALSE, output)]
                                  ELSE checkpoint,
                    cursor' = cursor + 1, UNCHANGED <<pc, failed, result, summary, ends>>
             PROVE  IInv'
  BY DEF Commit
<1> DEFINE m == Len(trajectories) + 1
           step == Step(InHand, FALSE, output)
           rec == [node |-> InHand, completed |-> TRUE, step |-> step]
<1>1. /\ cursor \in 1..Len(Order) /\ Len(Order) \in Nat /\ InHand \in Nodes
      /\ steps[InHand] = NoStep /\ Fallbacks = Below[InHand] \cap Fell(steps)
      /\ \A k \in (cursor + 1)..Len(Order) : Order[k] \in Nodes \ {InHand}
  BY InHandFacts DEF IInv
<1>2. step \in Steps /\ step # NoStep /\ ~step.fallback
  BY <1>1, StepFacts
<1> HIDE DEF step
<1>3. /\ LogInv' /\ rec \in Record
      /\ m \notin DOMAIN trajectories /\ m \in DOMAIN trajectories'
      /\ DOMAIN trajectories' = DOMAIN trajectories \cup {m}
      /\ trajectories'[m] = rec /\ built'[m] = Fallbacks
      /\ \A i \in DOMAIN trajectories :
           trajectories'[i] = trajectories[i] /\ built'[i] = built[i]
      /\ mine' = mine \cup {m} /\ mine \subseteq DOMAIN trajectories
      /\ \A file : SoundIn(file, trajectories, built)
                     => SoundIn(file, trajectories', built')
      /\ \A n, i : n # InHand => (IsLast(i, DOMAIN trajectories', n, trajectories')
                                   <=> IsLast(i, DOMAIN trajectories, n, trajectories))
      /\ IsLast(m, DOMAIN trajectories', InHand, trajectories')
  BY <1>2, Appended DEF step
<1>4. /\ WellLogged(trajectories) /\ CheckpointInv /\ pc = "walk"
      /\ Faithful(mine, steps, failed, trajectories, built)
      /\ \A n \in Nodes : checkpoint[n] # NoStep =>
           \E i \in mine : IsLast(i, DOMAIN trajectories, n, trajectories)
  BY DEF IInv, LogInv, ProcessInv, Live, Walking
<1>5. rec.node = InHand /\ rec.completed /\ rec.step = step
  OBVIOUS
<1> HIDE DEF rec
<1>6. /\ steps \in [Nodes -> Steps \cup {NoStep}] /\ steps' \in [Nodes -> Steps \cup {NoStep}]
      /\ steps' = [steps EXCEPT ![InHand] = step] /\ steps'[InHand] = step
      /\ \A k \in Nodes \ {InHand} : steps'[k] = steps[k]
  BY <1>1, <1>2, <1>4 DEF Faithful, step
<1>7. InHand \notin Fell(steps') /\ failed \in SUBSET Nodes
  BY <1>2, <1>4, <1>6 DEF Fell, Faithful
<1>8. Faithful(mine \cup {m}, steps', failed, trajectories', built')
  <2>1. /\ built'[m] \subseteq Below[rec.node] \cap Fell(steps)
        /\ rec.node \notin Fell(steps') /\ steps'[rec.node] = rec.step
    BY <1>1, <1>3, <1>5, <1>6, <1>7
  <2>2. /\ steps[rec.node] = NoStep /\ failed \subseteq failed
        /\ \A k \in Nodes \ {rec.node} : steps'[k] = steps[k]
    BY <1>1, <1>5, <1>6
  <2>3. /\ rec \in Record /\ DOMAIN trajectories' = DOMAIN trajectories \cup {m}
        /\ trajectories'[m] = rec
        /\ \A i \in DOMAIN trajectories :
             trajectories'[i] = trajectories[i] /\ built'[i] = built[i]
    BY <1>3
  <2>4. WellLogged(trajectories) /\ Faithful(mine, steps, failed, trajectories, built)
    BY <1>4
  <2>5. steps' \in [Nodes -> Steps \cup {NoStep}] /\ failed \in SUBSET Nodes
    BY <1>6, <1>7
  <2> QED BY <2>1, <2>2, <2>3, <2>4, <2>5, FaithfulAfter
<1> HIDE DEF m
<1>9. WalkInv'
  <2>1. cursor' \in 1..(Len(Order) + 1)
    BY <1>1
  <2>2. ASSUME NEW k \in cursor'..Len(Order) PROVE steps'[Order[k]] = NoStep
    <3>1. k \in (cursor + 1)..Len(Order) /\ k \in cursor..Len(Order)
      BY <1>1
    <3>2. Order[k] \in Nodes \ {InHand} /\ steps[Order[k]] = NoStep
      BY <1>1, <1>4, <3>1 DEF IInv, WalkInv
    <3> QED BY <1>6, <3>2
  <2> QED BY <2>1, <2>2 DEF WalkInv
<1>10. /\ checkpoint' \in [Nodes -> Steps \cup {NoStep}]
       /\ checkpoint'[InHand] = NoStep \/ (checkpoint'[InHand] = step /\ Fallbacks = {})
       /\ \A k \in Nodes \ {InHand} : checkpoint'[k] = checkpoint[k]
  BY <1>1, <1>2, <1>4 DEF CheckpointInv, step
<1>11. CheckpointInv'
  <2> SUFFICES ASSUME NEW n \in Nodes, checkpoint'[n] # NoStep
               PROVE  \E i \in DOMAIN trajectories' :
                        /\ IsLast(i, DOMAIN trajectories', n, trajectories')
                        /\ trajectories'[i].completed
                        /\ trajectories'[i].step = checkpoint'[n] /\ built'[i] = {}
    BY <1>10 DEF CheckpointInv
  <2>1. CASE n = InHand
    BY <1>3, <1>5, <1>10, <2>1
  <2>2. CASE n # InHand
    <3>1. PICK i \in DOMAIN trajectories :
            /\ IsLast(i, DOMAIN trajectories, n, trajectories) /\ trajectories[i].completed
            /\ trajectories[i].step = checkpoint[n] /\ built[i] = {}
      BY <1>4, <1>10, <2>2 DEF CheckpointInv
    <3> QED BY <1>3, <1>10, <2>2, <3>1
  <2> QED BY <2>1, <2>2
<1>12. ProcessInv'
  <2>1. ASSUME NEW n \in Nodes, checkpoint'[n] # NoStep
        PROVE  \E i \in mine' : IsLast(i, DOMAIN trajectories', n, trajectories')
    <3>1. CASE n = InHand
      BY <1>3, <3>1
    <3>2. CASE n # InHand
      <4>1. PICK i \in mine : IsLast(i, DOMAIN trajectories, n, trajectories)
        BY <1>4, <1>10, <2>1, <3>2
      <4> QED BY <1>3, <3>2, <4>1
    <3> QED BY <3>1, <3>2
  <2>2. ASSUME NEW i \in mine', steps'[trajectories'[i].node] = NoStep,
               checkpoint'[trajectories'[i].node] = NoStep
        PROVE  ~trajectories'[i].completed
    <3>1. i # m
      BY <1>2, <1>3, <1>5, <1>6, <2>2
    <3>2. i \in mine /\ i \in DOMAIN trajectories /\ trajectories'[i] = trajectories[i]
      BY <1>3, <3>1
    <3>3. trajectories[i] \in Record
      BY <1>4, <3>2 DEF WellLogged
    <3>4. trajectories[i].node \in Nodes \ {InHand}
      BY <1>2, <1>6, <2>2, <3>2, <3>3 DEF Record
    <3>5. steps[trajectories[i].node] = NoStep /\ checkpoint[trajectories[i].node] = NoStep
      BY <1>6, <1>10, <2>2, <3>2, <3>4
    <3> QED BY <1>4, <3>2, <3>5 DEF IInv, ProcessInv, Live
  <2> QED BY <1>3, <1>8, <2>1, <2>2 DEF ProcessInv
<1>13. FileInv' /\ LeftInv'
  BY <1>3, <1>4, FilesStay DEF IInv, FileInv, LeftInv
<1> QED BY <1>3, <1>9, <1>11, <1>12, <1>13 DEF IInv

\* The summary of a process that is stopped.
LEMMA DownStep ==
  ASSUME FileInv, LogInv', CheckpointInv', WalkInv, UNCHANGED <<steps, cursor, result>>,
         \A file : SoundIn(file, trajectories, built) => SoundIn(file, trajectories', built'),
         Faithful(mine', steps, failed', trajectories', built'),
         pc' = "down", ProcessInv',
         summary' = File("interrupted", mine', steps, failed', trajectories')
  PROVE  IInv'
<1>1. WellLogged(trajectories')
  BY DEF LogInv
<1>2. /\ SoundIn(summary', trajectories', built') /\ summary' # NoFile
      /\ summary'.snapshot = steps /\ summary'.active = mine'
      /\ summary'.status = "interrupted"
  BY <1>1, FileWritten
<1>3. Sound(result)' /\ Sound(summary)'
  BY <1>2, FilesStay DEF Sound
<1>4. LeftInv' /\ WalkInv' /\ FileInv'
  BY <1>2, <1>3 DEF LeftInv, Leaves, WalkInv, FileInv
<1> QED BY <1>4 DEF IInv

LEMMA FailStep == IInv /\ Fail => IInv'
<1> SUFFICES ASSUME IInv, Fail PROVE IInv'
  OBVIOUS
<1>1. /\ Walking /\ checkpoint[InHand] = NoStep /\ Append1(FALSE, NoStep)
      /\ failed' = failed \cup {InHand} /\ UNCHANGED <<checkpoint, result>>
      /\ \/ /\ steps' = [steps EXCEPT ![InHand] = Step(InHand, TRUE, FallbackOutput)]
            /\ cursor' = cursor + 1 /\ UNCHANGED <<pc, summary>>
         \/ /\ summary' = File("interrupted", mine', steps, failed', trajectories')
            /\ pc' = "down" /\ UNCHANGED <<steps, cursor>>
  BY DEF Fail
<1>2. /\ cursor \in 1..Len(Order) /\ Len(Order) \in Nat /\ InHand \in Nodes
      /\ steps[InHand] = NoStep /\ pc = "walk" /\ WalkInv /\ FileInv
      /\ \A k \in (cursor + 1)..Len(Order) : Order[k] \in Nodes \ {InHand}
      /\ Faithful(mine, steps, failed, trajectories, built)
  BY <1>1, InHandFacts DEF IInv, Walking, ProcessInv, Live
<1>3. steps \in [Nodes -> Steps \cup {NoStep}] /\ failed' \in SUBSET Nodes /\ InHand \in failed'
  BY <1>1, <1>2 DEF Faithful
<1> DEFINE step == Step(InHand, TRUE, FallbackOutput)
           left == [steps EXCEPT ![InHand] = step]
<1>4. step \in Steps /\ step # NoStep
  BY <1>2, StepFacts
<1> HIDE DEF step
<1>5. /\ left \in [Nodes -> Steps \cup {NoStep}] /\ left[InHand] = step
      /\ \A k \in Nodes \ {InHand} : left[k] = steps[k]
  BY <1>2, <1>3, <1>4
<1> HIDE DEF left
<1>6. CASE steps' = left /\ cursor' = cursor + 1 /\ UNCHANGED <<pc, summary>>
  <2>1. /\ LogInv' /\ CheckpointInv'
        /\ Faithful(mine', left, failed', trajectories', built')
        /\ \A n \in Nodes : checkpoint'[n] # NoStep =>
             \E i \in mine' : IsLast(i, DOMAIN trajectories', n, trajectories')
        /\ \A i \in mine' :
             LET n == trajectories'[i].node
             IN left[n] = NoStep /\ checkpoint'[n] = NoStep => ~trajectories'[i].completed
        /\ \A file : SoundIn(file, trajectories, built)
                       => SoundIn(file, trajectories', built')
    BY <1>1, <1>3, <1>5, Uncommitted
  <2>2. ProcessInv'
    BY <1>6, <2>1 DEF ProcessInv
  <2>3. WalkInv'
    <3>1. cursor' \in 1..(Len(Order) + 1)
      BY <1>2, <1>6
    <3>2. ASSUME NEW k \in cursor'..Len(Order) PROVE steps'[Order[k]] = NoStep
      <4>1. k \in (cursor + 1)..Len(Order) /\ k \in cursor..Len(Order)
        BY <1>2, <1>6
      <4>2. Order[k] \in Nodes \ {InHand} /\ steps[Order[k]] = NoStep
        BY <1>2, <4>1 DEF WalkInv
      <4> QED BY <1>5, <1>6, <4>2
    <3> QED BY <3>1, <3>2 DEF WalkInv
  <2>4. FileInv'
    BY <1>1, <1>2, <1>6, <2>1, FilesStay DEF FileInv
  <2>5. LeftInv'
    BY <1>2, <1>6 DEF LeftInv
  <2> QED BY <2>1, <2>2, <2>3, <2>4, <2>5 DEF IInv
<1>7. CASE /\ summary' = File("interrupted", mine', steps, failed', trajectories')
           /\ pc' = "down" /\ UNCHANGED <<steps, cursor>>
  <2>1. /\ LogInv' /\ CheckpointInv'
        /\ Faithful(mine', steps, failed', trajectories', built')
        /\ \A n \in Nodes : checkpoint'[n] # NoStep =>
             \E i \in mine' : IsLast(i, DOMAIN trajectories', n, trajectories')
        /\ \A i \in mine' :
             LET n == trajectories'[i].node
             IN steps[n] = NoStep /\ checkpoint'[n] = NoStep => ~trajectories'[i].completed
        /\ \A file : SoundIn(file, trajectories, built)
                       => SoundIn(file, trajectories', built')
    BY <1>1, <1>3, Uncommitted
  <2>2. ProcessInv'
    BY <1>7, <2>1 DEF ProcessInv
  <2> QED BY <1>1, <1>2, <1>7, <2>1, <2>2, DownStep
<1> QED BY <1>1, <1>6, <1>7 DEF left, step

LEMMA InterruptStep == IInv /\ Interrupt => IInv'
<1> SUFFICES ASSUME IInv, Interrupt PROVE IInv'
  OBVIOUS
<1>1. /\ Walking /\ checkpoint[InHand] = NoStep /\ Append1(FALSE, NoStep)
      /\ UNCHANGED <<cursor, steps, failed, checkpoint, result>> /\ pc' = "down"
      /\ summary' = File("interrupted", mine', steps, failed, trajectories')
  BY DEF Interrupt
<1>2. /\ steps[InHand] = NoStep /\ WalkInv /\ FileInv
      /\ Faithful(mine, steps, failed, trajectories, built)
  BY <1>1, InHandFacts DEF IInv, Walking, ProcessInv, Live
<1>3. /\ steps \in [Nodes -> Steps \cup {NoStep}] /\ failed \in SUBSET Nodes
      /\ InHand \notin Fell(steps)
  BY <1>2 DEF Faithful, Fell
<1>4. /\ LogInv' /\ CheckpointInv'
      /\ Faithful(mine', steps, failed, trajectories', built')
      /\ \A n \in Nodes : checkpoint'[n] # NoStep =>
           \E i \in mine' : IsLast(i, DOMAIN trajectories', n, trajectories')
      /\ \A i \in mine' :
           LET n == trajectories'[i].node
           IN steps[n] = NoStep /\ checkpoint'[n] = NoStep => ~trajectories'[i].completed
      /\ \A file : SoundIn(file, trajectories, built)
                     => SoundIn(file, trajectories', built')
  BY <1>1, <1>3, Uncommitted
<1>5. ProcessInv'
  BY <1>1, <1>4 DEF ProcessInv
<1> QED BY <1>1, <1>2, <1>4, <1>5, DownStep

LEMMA StopStep == IInv /\ Stop => IInv'
<1> SUFFICES ASSUME IInv, Stop PROVE IInv'
  OBVIOUS
<1>1. /\ UNCHANGED <<cursor, steps, mine, failed, checkpoint, trajectories, result, built>>
      /\ summary' = File("interrupted", mine', steps, failed', trajectories')
      /\ pc' = "down" /\ pc = "walk"
  BY DEF Stop, Walking
<1>2. /\ WalkInv /\ FileInv /\ LogInv /\ CheckpointInv /\ ProcessInv
      /\ Faithful(mine, steps, failed, trajectories, built)
  BY <1>1 DEF IInv, ProcessInv, Live
<1>3. LogInv' /\ CheckpointInv'
  BY <1>1, <1>2 DEF LogInv, CheckpointInv
<1>4. ProcessInv'
  BY <1>1, <1>2 DEF ProcessInv, Live
<1>5. \A file : SoundIn(file, trajectories, built) => SoundIn(file, trajectories', built')
  BY <1>1
<1>6. Faithful(mine', steps, failed', trajectories', built')
  BY <1>1, <1>2
<1> QED BY <1>1, <1>2, <1>3, <1>4, <1>5, <1>6, DownStep

\* A node is restored: the last record of it that the process loaded is the one
\* the checkpoint was written with.
LEMMA RestoreStep == IInv /\ Restore => IInv'
<1> SUFFICES ASSUME IInv, Restore PROVE IInv'
  OBVIOUS
<1>1. /\ Walking /\ checkpoint[InHand] # NoStep /\ cursor' = cursor + 1
      /\ steps' = [steps EXCEPT ![InHand] = checkpoint[InHand]]
      /\ UNCHANGED <<pc, mine, failed, checkpoint, trajectories, result, summary, built>>
  BY DEF Restore, files
<1>2. /\ cursor \in 1..Len(Order) /\ Len(Order) \in Nat /\ InHand \in Nodes
      /\ steps[InHand] = NoStep /\ pc = "walk"
      /\ \A k \in (cursor + 1)..Len(Order) : Order[k] \in Nodes \ {InHand}
      /\ WalkInv /\ LogInv /\ CheckpointInv /\ ProcessInv /\ FileInv
      /\ WellLogged(trajectories)
      /\ Faithful(mine, steps, failed, trajectories, built)
  BY <1>1, InHandFacts DEF IInv, Walking, ProcessInv, Live, LogInv
<1>3. PICK l \in DOMAIN trajectories :
        /\ IsLast(l, DOMAIN trajectories, InHand, trajectories)
        /\ trajectories[l].completed
        /\ trajectories[l].step = checkpoint[InHand] /\ built[l] = {}
  BY <1>1, <1>2 DEF CheckpointInv
<1>4. l \in mine /\ ~checkpoint[InHand].fallback /\ checkpoint[InHand] \in Steps
  <2>1. PICK j \in mine : IsLast(j, DOMAIN trajectories, InHand, trajectories)
    BY <1>1, <1>2 DEF ProcessInv, Live
  <2>2. j = l
    BY <1>2, <1>3, <2>1, LastUnique DEF WellLogged
  <2> QED BY <1>2, <1>3, <2>1, <2>2 DEF WellLogged
<1>5. /\ steps' \in [Nodes -> Steps \cup {NoStep}] /\ steps'[InHand] = checkpoint[InHand]
      /\ \A k \in Nodes \ {InHand} : steps'[k] = steps[k]
  BY <1>1, <1>2, <1>4 DEF Faithful
<1>6. Fell(steps') = Fell(steps)
  BY <1>2, <1>4, <1>5 DEF Fell
<1>7. ASSUME NEW n \in Nodes, NEW i \in mine, IsLast(i, mine, n, trajectories),
             trajectories[i].completed
      PROVE  /\ n \notin Fell(steps) /\ steps'[n] \in {NoStep, trajectories[i].step}
             /\ built[i] \subseteq Below[n] \cap Fell(steps)
  <2>1. /\ n \notin Fell(steps) /\ steps[n] \in {NoStep, trajectories[i].step}
        /\ built[i] \subseteq Below[n] \cap Fell(steps) /\ mine \subseteq DOMAIN trajectories
    BY <1>2, <1>7 DEF Faithful
  <2>2. CASE n = InHand
    <3>1. IsLast(l, mine, InHand, trajectories)
      BY <1>3, <1>4, <2>1 DEF IsLast
    <3>2. i = l
      BY <1>2, <1>7, <2>1, <2>2, <3>1, LastUnique DEF WellLogged
    <3> QED BY <1>3, <1>5, <2>1, <2>2, <3>2
  <2>3. CASE n # InHand
    BY <1>5, <2>1, <2>3
  <2> QED BY <2>2, <2>3
<1>8. Faithful(mine, steps', failed, trajectories, built)
  BY <1>2, <1>5, <1>6, <1>7 DEF Faithful
<1>9. ProcessInv'
  <2>1. ASSUME NEW i \in mine, steps'[trajectories[i].node] = NoStep,
               checkpoint[trajectories[i].node] = NoStep
        PROVE  ~trajectories[i].completed
    <3>1. i \in DOMAIN trajectories
      BY <1>2 DEF Faithful
    <3>2. trajectories[i] \in Record
      BY <1>2, <3>1 DEF WellLogged
    <3>3. steps[trajectories[i].node] = NoStep
      BY <1>1, <1>5, <2>1, <3>2 DEF Record
    <3> QED BY <1>2, <2>1, <3>3 DEF ProcessInv, Live
  <2> QED BY <1>1, <1>2, <1>8, <2>1 DEF ProcessInv, Live
<1>10. WalkInv'
  <2>1. cursor' \in 1..(Len(Order) + 1)
    BY <1>1, <1>2
  <2>2. ASSUME NEW k \in cursor'..Len(Order) PROVE steps'[Order[k]] = NoStep
    <3>1. k \in (cursor + 1)..Len(Order) /\ k \in cursor..Len(Order)
      BY <1>1, <1>2
    <3>2. Order[k] \in Nodes \ {InHand} /\ steps[Order[k]] = NoStep
      BY <1>2, <3>1 DEF WalkInv
    <3> QED BY <1>5, <3>2
  <2> QED BY <2>1, <2>2 DEF WalkInv
<1>11. LogInv' /\ CheckpointInv' /\ FileInv' /\ LeftInv'
  BY <1>1, <1>2 DEF LogInv, CheckpointInv, FileInv, Sound, LeftInv
<1> QED BY <1>9, <1>10, <1>11 DEF IInv

\* A new process loads what the checkpoint rests on, and nothing of it rests on
\* a fallback.
LEMMA StartStep == IInv /\ Start => IInv'
<1> SUFFICES ASSUME IInv, Start PROVE IInv'
  OBVIOUS
<1>1. /\ pc' = "walk" /\ cursor' = 1 /\ steps' = NoSteps /\ failed' = {}
      /\ mine' = {i \in DOMAIN trajectories : /\ trajectories[i].completed
                                              /\ checkpoint[trajectories[i].node] # NoStep}
      /\ UNCHANGED <<checkpoint, trajectories, result, summary, built>>
  BY DEF Start, files
<1>2. LogInv /\ CheckpointInv /\ FileInv /\ WellLogged(trajectories)
  BY DEF IInv, LogInv
<1>3. /\ NoSteps \in [Nodes -> Steps \cup {NoStep}] /\ \A n \in Nodes : NoSteps[n] = NoStep
      /\ Fell(NoSteps) = {}
  BY DEF NoSteps, Fell
<1>4. ASSUME NEW n \in Nodes, checkpoint[n] # NoStep
      PROVE  \E i \in mine' : /\ IsLast(i, DOMAIN trajectories, n, trajectories)
                              /\ built[i] = {}
  <2>1. PICK i \in DOMAIN trajectories :
          /\ IsLast(i, DOMAIN trajectories, n, trajectories) /\ trajectories[i].completed
          /\ built[i] = {}
    BY <1>2, <1>4 DEF CheckpointInv
  <2>2. i \in mine'
    BY <1>1, <1>4, <2>1 DEF IsLast
  <2> QED BY <2>1, <2>2
<1>5. ASSUME NEW n \in Nodes, NEW i \in mine', IsLast(i, mine', n, trajectories)
      PROVE  built[i] = {}
  <2>1. checkpoint[n] # NoStep
    BY <1>1, <1>5 DEF IsLast
  <2>2. PICK j \in mine' : /\ IsLast(j, DOMAIN trajectories, n, trajectories)
                           /\ built[j] = {}
    BY <1>4, <2>1
  <2>3. mine' \subseteq DOMAIN trajectories /\ trajectories \in Seq(Record)
    BY <1>1, <1>2 DEF WellLogged
  <2>4. IsLast(j, mine', n, trajectories)
    BY <2>2, <2>3 DEF IsLast
  <2>5. i = j
    BY <1>5, <2>3, <2>4, LastUnique
  <2> QED BY <2>2, <2>5
<1>6. Faithful(mine', NoSteps, {}, trajectories, built)
  BY <1>1, <1>3, <1>5 DEF Faithful
<1>7. ProcessInv'
  BY <1>1, <1>4, <1>6 DEF ProcessInv, Live
<1>8. WalkInv'
  <2>1. Order \in Seq(Nodes) /\ Len(Order) \in Nat
    BY EvaluationAssumption
  <2>2. \A k \in 1..Len(Order) : Order[k] \in Nodes
    BY <2>1
  <2> QED BY <1>1, <1>3, <2>1, <2>2 DEF WalkInv
<1>9. LogInv' /\ CheckpointInv' /\ FileInv' /\ LeftInv'
  BY <1>1, <1>2 DEF LogInv, CheckpointInv, FileInv, Sound, LeftInv
<1> QED BY <1>7, <1>8, <1>9 DEF IInv

LEMMA WriteResultStep == IInv /\ WriteResult => IInv'
<1> SUFFICES ASSUME IInv, WriteResult PROVE IInv'
  OBVIOUS
<1>1. /\ pc = "walk" /\ pc' = "written"
      /\ result' = File("walked", mine, steps, failed, trajectories)
      /\ UNCHANGED <<cursor, steps, mine, failed, checkpoint, trajectories, summary, built>>
  BY DEF WriteResult
<1>2. /\ WellLogged(trajectories) /\ Faithful(mine, steps, failed, trajectories, built)
      /\ LogInv /\ CheckpointInv /\ ProcessInv /\ WalkInv /\ FileInv
  BY <1>1 DEF IInv, LogInv, ProcessInv, Live
<1>3. /\ SoundIn(result', trajectories, built) /\ result' # NoFile
      /\ result'.snapshot = steps /\ result'.active = mine /\ result'.status # "interrupted"
  BY <1>1, <1>2, FileWritten
<1>4. FileInv' /\ LeftInv'
  BY <1>1, <1>2, <1>3 DEF FileInv, Sound, LeftInv, Leaves
<1>5. LogInv' /\ CheckpointInv' /\ ProcessInv' /\ WalkInv'
  BY <1>1, <1>2 DEF LogInv, CheckpointInv, ProcessInv, Live, WalkInv
<1> QED BY <1>4, <1>5 DEF IInv

LEMMA NextStep == IInv /\ [Next]_vars => IInv'
<1> SUFFICES ASSUME IInv, [Next]_vars PROVE IInv'
  OBVIOUS
<1>1. CASE UNCHANGED vars
  BY <1>1 DEF vars, files, IInv, LogInv, WalkInv, CheckpointInv, ProcessInv, Live, FileInv,
              Sound, LeftInv, Leaves
<1>2. CASE WriteSummary
  BY <1>2 DEF WriteSummary, IInv, LogInv, WalkInv, CheckpointInv, ProcessInv, Live, FileInv,
              Sound, LeftInv, Leaves
<1>3. CASE Kill
  BY <1>3 DEF Kill, files, IInv, LogInv, WalkInv, CheckpointInv, ProcessInv, Live, FileInv,
              Sound, LeftInv
<1> QED BY <1>1, <1>2, <1>3, StartStep, RestoreStep, CommitStep, FailStep, InterruptStep,
           StopStep, WriteResultStep DEF Next

LEMMA InitHolds == Init => IInv
<1> SUFFICES ASSUME Init PROVE IInv
  OBVIOUS
<1>1. LogInv
  <2>1. /\ trajectories = <<>> /\ built = <<>> /\ DOMAIN trajectories = {}
        /\ trajectories \in Seq(Record) /\ built \in Seq(SUBSET Nodes)
    BY DEF Init
  <2> QED BY <2>1 DEF LogInv, WellLogged
<1>2. WalkInv
  BY EvaluationAssumption DEF Init, WalkInv
<1>3. CheckpointInv
  BY DEF Init, NoSteps, CheckpointInv
<1>4. ProcessInv /\ LeftInv
  BY DEF Init, ProcessInv, Live, LeftInv
<1>5. FileInv
  BY DEF Init, FileInv, Sound, SoundIn
<1> QED BY <1>1, <1>2, <1>3, <1>4, <1>5 DEF IInv

\* The invariant holds throughout.
THEOREM Invariance == Spec => []IInv
BY InitHolds, NextStep, PTL DEF Spec

-----------------------------------------------------------------------------
\* Whatever became of the processes, a report that is read from a file names
\* every word that rests on a fallback, is the one the file was saved with, and
\* speaks of what the last process left (evaluation/run.py, evaluate_run and
\* load_result_or_summary).
THEOREM ReportsHold == Spec => []ReportHolds
BY Invariance, ReaderHolds, PTL

\* The sweep counts as committed exactly the nodes the report does
\* (benchmarks/sweep.py, read_seed).
THEOREM SweepsAgree == Spec => []SweepAgrees
<1>1. IInv => SweepAgrees
  BY ReadersAgree DEF IInv
<1> QED BY <1>1, Invariance, PTL

-----------------------------------------------------------------------------
(* Alignments: two recursions over a table                                 *)

\* Induction over the cells of a table, diagonal by diagonal.
LEMMA AllCells ==
  ASSUME NEW m \in Nat, NEW n \in Nat, NEW Q,
         \A i \in 0..m, j \in 0..n :
           (\A k \in 0..m, l \in 0..n : k + l < i + j => <<k, l>> \in Q) => <<i, j>> \in Q
  PROVE  \A i \in 0..m, j \in 0..n : <<i, j>> \in Q
<1> DEFINE N == {s \in Nat : \A i \in 0..m, j \in 0..n : i + j < s => <<i, j>> \in Q}
<1>1. 0 \in N
  OBVIOUS
<1>2. ASSUME NEW s \in Nat, s \in N PROVE s + 1 \in N
  <2>1. ASSUME NEW i \in 0..m, NEW j \in 0..n, i + j < s + 1 PROVE <<i, j>> \in Q
    <3>1. \A k \in 0..m, l \in 0..n : k + l < i + j => <<k, l>> \in Q
      BY <1>2, <2>1
    <3> QED BY <3>1
  <2> QED BY <2>1
<1> HIDE DEF N
<1>3. Nat \subseteq N
  BY <1>1, <1>2, AllNumbers
<1>4. ASSUME NEW i \in 0..m, NEW j \in 0..n PROVE <<i, j>> \in Q
  <2>1. i + j + 1 \in N /\ i + j < i + j + 1
    BY <1>3
  <2> QED BY <2>1 DEF N
<1> QED BY <1>4

\* F makes an entry of a table from those on the diagonals before it.
Fills(F, m, n, V) ==
  LET D == (0..m) \X (0..n)
  IN  /\ m \in Nat /\ n \in Nat /\ V # {}
      /\ \A g \in [D -> V] : F[g] \in [D -> V]
      /\ \A g, h \in [D -> V], i \in 0..m, j \in 0..n :
           (\A k \in 0..m, l \in 0..n : k + l < i + j => g[<<k, l>>] = h[<<k, l>>])
             => F[g][<<i, j>>] = F[h][<<i, j>>]

Filled(g, F, m, n, V) == g \in [(0..m) \X (0..n) -> V] /\ g = F[g]

\* Such a table can be filled in.
LEMMA TableExists ==
  ASSUME NEW F, NEW m, NEW n, NEW V, Fills(F, m, n, V)
  PROVE  \E g : Filled(g, F, m, n, V)
<1> DEFINE D == (0..m) \X (0..n)
           Upto(g, s) == \A i \in 0..m, j \in 0..n : i + j < s => g[<<i, j>>] = F[g][<<i, j>>]
           N == {s \in Nat : \E g \in [D -> V] : Upto(g, s)}
<1>0. m \in Nat /\ n \in Nat /\ V # {}
  BY DEF Fills
<1>1. 0 \in N
  <2> PICK v \in V : TRUE
    BY <1>0
  <2>1. [ij \in D |-> v] \in [D -> V] /\ Upto([ij \in D |-> v], 0)
    OBVIOUS
  <2> QED BY <2>1
<1>2. ASSUME NEW s \in Nat, s \in N PROVE s + 1 \in N
  <2>1. PICK g \in [D -> V] : Upto(g, s)
    BY <1>2
  <2>2. F[g] \in [D -> V]
    BY DEF Fills
  <2>3. ASSUME NEW i \in 0..m, NEW j \in 0..n, i + j < s + 1
        PROVE  F[g][<<i, j>>] = F[F[g]][<<i, j>>]
    <3>1. \A k \in 0..m, l \in 0..n : k + l < i + j => g[<<k, l>>] = F[g][<<k, l>>]
      BY <2>1, <2>3
    <3> QED BY <2>2, <3>1 DEF Fills
  <2> QED BY <2>2, <2>3
<1>3. m + n + 1 \in N
  <2> HIDE DEF N
  <2>1. Nat \subseteq N
    BY <1>1, <1>2, AllNumbers
  <2> QED BY <1>0, <2>1
<1>4. PICK g \in [D -> V] : Upto(g, m + n + 1)
  BY <1>3
<1>5. \A ij \in D : g[ij] = F[g][ij]
  <2> TAKE ij \in D
  <2>1. PICK i \in 0..m, j \in 0..n : ij = <<i, j>>
    OBVIOUS
  <2>2. i + j < m + n + 1
    BY <1>0
  <2> QED BY <1>4, <2>1, <2>2
<1>6. F[g] \in [D -> V]
  BY DEF Fills
<1>7. g = F[g]
  BY <1>5, <1>6
<1> QED BY <1>7 DEF Filled

LEMMA LeastIs ==
  ASSUME NEW S \in SUBSET Int, NEW v \in S, \A x \in S : v <= x
  PROVE  Min(S) = v
<1>1. \A x, y \in S : x <= y /\ y <= x => x = y
  OBVIOUS
<1>2. Min(S) \in S /\ \A x \in S : Min(S) <= x
  BY DEF Min
<1> QED BY <1>1, <1>2

LEMMA LeastOfThree ==
  ASSUME NEW a \in Nat, NEW b \in Nat, NEW c \in Nat
  PROVE  LET x == Min({a, b, c}) IN x \in {a, b, c} /\ x <= a /\ x <= b /\ x <= c
<1>1. PICK v \in {a, b, c} : \A x \in {a, b, c} : v <= x
  <2>1. CASE a <= b /\ a <= c
    BY <2>1
  <2>2. CASE b <= a /\ b <= c
    BY <2>2
  <2>3. CASE c <= a /\ c <= b
    BY <2>3
  <2> QED BY <2>1, <2>2, <2>3
<1>2. Min({a, b, c}) = v
  BY <1>1, LeastIs
<1> QED BY <1>1, <1>2

-----------------------------------------------------------------------------
(* The costs *)

CostAt(left, right, c, ij) ==
  LET i == ij[1]
      j == ij[2]
  IN IF i = 0 THEN j ELSE IF j = 0 THEN i
     ELSE Min({c[<<i - 1, j - 1>>] + Differ(left[i], right[j]),
               c[<<i - 1, j>>] + 1, c[<<i, j - 1>>] + 1})

\* What a table of costs says of one cell.
CostRule(left, right, c, i, j) ==
  LET diagonal == c[<<i - 1, j - 1>>] + Differ(left[i], right[j])
      deleted == c[<<i - 1, j>>] + 1
      inserted == c[<<i, j - 1>>] + 1
  IN /\ i = 0 => c[<<i, j>>] = j
     /\ j = 0 => c[<<i, j>>] = i
     /\ i > 0 /\ j > 0 =>
          /\ c[<<i, j>>] \in {diagonal, deleted, inserted}
          /\ c[<<i, j>>] <= diagonal /\ c[<<i, j>>] <= deleted /\ c[<<i, j>>] <= inserted

LEMMA CostIsTable ==
  ASSUME NEW left, NEW right
  PROVE  Cost(left, right)
           = CHOOSE c : c = [ij \in (0..Len(left)) \X (0..Len(right)) |-> CostAt(left, right, c, ij)]
BY DEF Cost, CostAt

LEMMA CostIs ==
  ASSUME NEW T, NEW left \in Seq(T), NEW right \in Seq(T)
  PROVE  /\ Len(left) \in Nat /\ Len(right) \in Nat
         /\ Cost(left, right) \in [(0..Len(left)) \X (0..Len(right)) -> Nat]
         /\ \A i \in 0..Len(left), j \in 0..Len(right) :
              CostRule(left, right, Cost(left, right), i, j)
<1> DEFINE m == Len(left)
           n == Len(right)
           D == (0..m) \X (0..n)
           c == Cost(left, right)
           F == [g \in [D -> Nat] |-> [ij \in D |-> CostAt(left, right, g, ij)]]
<1>0. m \in Nat /\ n \in Nat
  OBVIOUS
<1>1. ASSUME NEW g \in [D -> Nat], NEW i \in 0..m, NEW j \in 0..n
      PROVE  CostAt(left, right, g, <<i, j>>) \in Nat
  <2>1. CASE i = 0 \/ j = 0
    BY <2>1 DEF CostAt
  <2>2. CASE i # 0 /\ j # 0
    <3>1. /\ <<i - 1, j - 1>> \in D /\ <<i - 1, j>> \in D /\ <<i, j - 1>> \in D
      BY <1>0, <2>2
    <3> DEFINE x == g[<<i - 1, j - 1>>] + Differ(left[i], right[j])
               y == g[<<i - 1, j>>] + 1
               z == g[<<i, j - 1>>] + 1
    <3>2. x \in Nat /\ y \in Nat /\ z \in Nat
      BY <3>1 DEF Differ
    <3>3. CostAt(left, right, g, <<i, j>>) = Min({x, y, z})
      BY <2>2 DEF CostAt
    <3> HIDE DEF x, y, z
    <3>4. Min({x, y, z}) \in {x, y, z}
      BY <3>2, LeastOfThree
    <3> QED BY <3>2, <3>3, <3>4
  <2> QED BY <2>1, <2>2
<1>2. \A g \in [D -> Nat] : F[g] \in [D -> Nat]
  BY <1>1
<1>3. ASSUME NEW g \in [D -> Nat], NEW h \in [D -> Nat], NEW i \in 0..m, NEW j \in 0..n,
             \A k \in 0..m, l \in 0..n : k + l < i + j => g[<<k, l>>] = h[<<k, l>>]
      PROVE  F[g][<<i, j>>] = F[h][<<i, j>>]
  <2>1. CASE i = 0 \/ j = 0
    BY <2>1 DEF CostAt
  <2>2. CASE i # 0 /\ j # 0
    <3>1. /\ g[<<i - 1, j - 1>>] = h[<<i - 1, j - 1>>]
          /\ g[<<i - 1, j>>] = h[<<i - 1, j>>] /\ g[<<i, j - 1>>] = h[<<i, j - 1>>]
      BY <1>0, <1>3, <2>2
    <3> QED BY <2>2, <3>1 DEF CostAt
  <2> QED BY <2>1, <2>2
<1>4. \E g \in [D -> Nat] : g = F[g]
  <2> HIDE DEF F
  <2>1. Fills(F, m, n, Nat)
    BY <1>0, <1>2, <1>3 DEF Fills
  <2>2. \E g : Filled(g, F, m, n, Nat)
    <3> HIDE DEF m, n
    <3> QED BY <2>1, TableExists
  <2> QED BY <2>2 DEF Filled
<1>5. c = [ij \in D |-> CostAt(left, right, c, ij)]
  <2>1. PICK g \in [D -> Nat] : g = [ij \in D |-> CostAt(left, right, g, ij)]
    BY <1>4
  <2> QED BY <2>1, CostIsTable
<1> HIDE DEF F, c
<1>6. \A i \in 0..m, j \in 0..n : c[<<i, j>>] = CostAt(left, right, c, <<i, j>>)
  BY <1>5
<1> DEFINE Q == {ij \in D : c[ij] \in Nat}
<1>7. ASSUME NEW i \in 0..m, NEW j \in 0..n,
             \A k \in 0..m, l \in 0..n : k + l < i + j => c[<<k, l>>] \in Nat
      PROVE  c[<<i, j>>] \in Nat /\ CostRule(left, right, c, i, j)
  <2>1. CASE i = 0 \/ j = 0
    <3>1. c[<<i, j>>] = IF i = 0 THEN j ELSE i
      BY <1>6, <2>1 DEF CostAt
    <3> QED BY <1>0, <2>1, <3>1 DEF CostRule
  <2>2. CASE i # 0 /\ j # 0
    <3> DEFINE x == c[<<i - 1, j - 1>>] + Differ(left[i], right[j])
               y == c[<<i - 1, j>>] + 1
               z == c[<<i, j - 1>>] + 1
    <3>0. i - 1 \in 0..m /\ j - 1 \in 0..n /\ i - 1 + j < i + j /\ i + (j - 1) < i + j
          /\ i - 1 + (j - 1) < i + j
      BY <1>0, <2>2
    <3>1. c[<<i - 1, j - 1>>] \in Nat /\ c[<<i - 1, j>>] \in Nat /\ c[<<i, j - 1>>] \in Nat
      BY <1>7, <3>0
    <3>2. x \in Nat /\ y \in Nat /\ z \in Nat
      <4> DEFINE d == Differ(left[i], right[j])
      <4>1. d \in Nat
        BY DEF Differ
      <4> HIDE DEF d
      <4>2. c[<<i - 1, j - 1>>] + d \in Nat
        BY <3>1, <4>1
      <4>3. y \in Nat /\ z \in Nat
        BY <3>1
      <4> QED BY <4>2, <4>3 DEF d
    <3>3. c[<<i, j>>] = Min({x, y, z})
      BY <1>6, <2>2 DEF CostAt
    <3> HIDE DEF x, y, z
    <3>4. c[<<i, j>>] \in {x, y, z} /\ c[<<i, j>>] <= x /\ c[<<i, j>>] <= y /\ c[<<i, j>>] <= z
      BY <3>2, <3>3, LeastOfThree
    <3> QED BY <2>2, <3>2, <3>4 DEF CostRule, x, y, z
  <2> QED BY <2>1, <2>2
<1>8. \A i \in 0..m, j \in 0..n : <<i, j>> \in Q
  <2>1. \A i \in 0..m, j \in 0..n :
           (\A k \in 0..m, l \in 0..n : k + l < i + j => <<k, l>> \in Q) => <<i, j>> \in Q
    BY <1>7
  <2> HIDE DEF Q
  <2> QED BY <1>0, <2>1, AllCells
<1>9. c \in [D -> Nat]
  <2>1. \A ij \in D : c[ij] \in Nat
    BY <1>8
  <2>2. DOMAIN c = D /\ c = [ij \in D |-> c[ij]]
    BY <1>5
  <2> QED BY <2>1, <2>2
<1> QED BY <1>0, <1>7, <1>8, <1>9 DEF c

-----------------------------------------------------------------------------
(* The columns *)

Columns(T) == Seq((T \cup {Gap}) \X (T \cup {Gap}))

BackAt(left, right, cost, b, ij) ==
  LET i == ij[1]
      j == ij[2]
  IN IF i = 0 /\ j = 0 THEN <<>>
     ELSE IF i > 0 /\ j > 0
             /\ cost[ij] = cost[<<i - 1, j - 1>>] + Differ(left[i], right[j])
     THEN Append(b[<<i - 1, j - 1>>], <<left[i], right[j]>>)
     ELSE IF i > 0 /\ cost[ij] = cost[<<i - 1, j>>] + 1
     THEN Append(b[<<i - 1, j>>], <<left[i], Gap>>)
     ELSE Append(b[<<i, j - 1>>], <<Gap, right[j]>>)

\* The last step of an alignment, and what it costs.
BackRule(left, right, c, b, i, j, columns) ==
  \/ i = 0 /\ j = 0 /\ columns = <<>>
  \/ /\ i > 0 /\ j > 0
     /\ c[<<i, j>>] = c[<<i - 1, j - 1>>] + Differ(left[i], right[j])
     /\ columns = Append(b[<<i - 1, j - 1>>], <<left[i], right[j]>>)
  \/ /\ i > 0 /\ c[<<i, j>>] = c[<<i - 1, j>>] + 1
     /\ columns = Append(b[<<i - 1, j>>], <<left[i], Gap>>)
  \/ /\ j > 0 /\ c[<<i, j>>] = c[<<i, j - 1>>] + 1
     /\ columns = Append(b[<<i, j - 1>>], <<Gap, right[j]>>)

LEMMA BackIsTable ==
  ASSUME NEW left, NEW right
  PROVE  Backtrace(left, right)
           = (CHOOSE b : b = [ij \in (0..Len(left)) \X (0..Len(right)) |->
                               BackAt(left, right, Cost(left, right), b, ij)])
             [<<Len(left), Len(right)>>]
BY DEF Backtrace, BackAt

LEMMA BackSteps ==
  ASSUME NEW T, NEW left \in Seq(T), NEW right \in Seq(T), NEW b,
         NEW i \in 0..Len(left), NEW j \in 0..Len(right)
  PROVE  BackRule(left, right, Cost(left, right), b, i, j,
                  BackAt(left, right, Cost(left, right), b, <<i, j>>))
<1> DEFINE c == Cost(left, right)
<1>0. Len(left) \in Nat /\ Len(right) \in Nat /\ i \in Nat /\ j \in Nat
  OBVIOUS
<1>1. /\ CostRule(left, right, c, i, j)
      /\ i > 0 => CostRule(left, right, c, i - 1, j)
      /\ j > 0 => CostRule(left, right, c, i, j - 1)
  <2>1. \A k \in 0..Len(left), l \in 0..Len(right) : CostRule(left, right, c, k, l)
    BY CostIs
  <2>2. (i > 0 => i - 1 \in 0..Len(left)) /\ (j > 0 => j - 1 \in 0..Len(right))
    BY <1>0
  <2> HIDE DEF c
  <2> QED BY <2>1, <2>2
<1> SUFFICES BackRule(left, right, c, b, i, j, BackAt(left, right, c, b, <<i, j>>))
  OBVIOUS
<1> HIDE DEF c
<1>2. CASE i = 0 /\ j = 0
  BY <1>2 DEF BackAt, BackRule
<1>3. CASE i > 0 /\ j = 0
  <2>1. c[<<i, j>>] = i /\ c[<<i - 1, j>>] = i - 1
    BY <1>1, <1>3 DEF CostRule
  <2>2. c[<<i, j>>] = c[<<i - 1, j>>] + 1
    BY <1>0, <2>1
  <2>3. BackAt(left, right, c, b, <<i, j>>) = Append(b[<<i - 1, j>>], <<left[i], Gap>>)
    BY <1>3, <2>2 DEF BackAt
  <2> QED BY <1>3, <2>2, <2>3 DEF BackRule
<1>4. CASE i = 0 /\ j > 0
  <2>2. c[<<i, j>>] = j /\ c[<<i, j - 1>>] = j - 1
    BY <1>1, <1>4 DEF CostRule
  <2>3. c[<<i, j>>] = c[<<i, j - 1>>] + 1
    BY <1>0, <2>2
  <2>4. BackAt(left, right, c, b, <<i, j>>) = Append(b[<<i, j - 1>>], <<Gap, right[j]>>)
    BY <1>4 DEF BackAt
  <2> QED BY <1>4, <2>3, <2>4 DEF BackRule
<1>5. CASE i > 0 /\ j > 0
  <2>1. c[<<i, j>>] \in {c[<<i - 1, j - 1>>] + Differ(left[i], right[j]),
                         c[<<i - 1, j>>] + 1, c[<<i, j - 1>>] + 1}
    BY <1>1, <1>5 DEF CostRule
  <2> QED BY <1>5, <2>1 DEF BackAt, BackRule
<1> QED BY <1>0, <1>2, <1>3, <1>4, <1>5

LEMMA BackIs ==
  ASSUME NEW T, NEW left \in Seq(T), NEW right \in Seq(T)
  PROVE  \E b \in [(0..Len(left)) \X (0..Len(right)) -> Columns(T)] :
           /\ Backtrace(left, right) = b[<<Len(left), Len(right)>>]
           /\ \A i \in 0..Len(left), j \in 0..Len(right) :
                BackRule(left, right, Cost(left, right), b, i, j, b[<<i, j>>])
<1> DEFINE m == Len(left)
           n == Len(right)
           D == (0..m) \X (0..n)
           c == Cost(left, right)
           V == Columns(T)
           F == [g \in [D -> V] |-> [ij \in D |-> BackAt(left, right, c, g, ij)]]
           b == CHOOSE g : g = [ij \in D |-> BackAt(left, right, c, g, ij)]
<1>0. m \in Nat /\ n \in Nat /\ <<>> \in V /\ V # {}
  <2>1. <<>> \in V
    BY DEF Columns
  <2> QED BY <2>1
<1>1. \A g : \A i \in 0..m, j \in 0..n :
        BackRule(left, right, c, g, i, j, BackAt(left, right, c, g, <<i, j>>))
  BY BackSteps
<1>2. ASSUME NEW col \in (T \cup {Gap}) \X (T \cup {Gap}), NEW s \in V
      PROVE  Append(s, col) \in V
  BY DEF Columns
<1>3. \A i \in 1..m : left[i] \in T
  OBVIOUS
<1>4. \A j \in 1..n : right[j] \in T
  OBVIOUS
<1> HIDE DEF V, c, m, n
<1>5. ASSUME NEW g, NEW i \in 0..m, NEW j \in 0..n, NEW x, BackRule(left, right, c, g, i, j, x),
             \A k \in 0..m, l \in 0..n : k + l < i + j => g[<<k, l>>] \in V
      PROVE  x \in V
  <2>1. CASE i = 0 /\ j = 0 /\ x = <<>>
    BY <1>0, <2>1
  <2>2. CASE i > 0 /\ j > 0 /\ x = Append(g[<<i - 1, j - 1>>], <<left[i], right[j]>>)
    <3>1. i - 1 \in 0..m /\ j - 1 \in 0..n /\ i - 1 + (j - 1) < i + j /\ i \in 1..m /\ j \in 1..n
      BY <1>0, <2>2
    <3>2. g[<<i - 1, j - 1>>] \in V
      BY <1>5, <3>1
    <3> QED BY <1>2, <1>3, <1>4, <2>2, <3>1, <3>2
  <2>3. CASE i > 0 /\ x = Append(g[<<i - 1, j>>], <<left[i], Gap>>)
    <3>1. i - 1 \in 0..m /\ i - 1 + j < i + j /\ i \in 1..m
      BY <1>0, <2>3
    <3>2. g[<<i - 1, j>>] \in V
      BY <1>5, <3>1
    <3> QED BY <1>2, <1>3, <2>3, <3>1, <3>2
  <2>4. CASE j > 0 /\ x = Append(g[<<i, j - 1>>], <<Gap, right[j]>>)
    <3>1. j - 1 \in 0..n /\ i + (j - 1) < i + j /\ j \in 1..n
      BY <1>0, <2>4
    <3>2. g[<<i, j - 1>>] \in V
      BY <1>5, <3>1
    <3> QED BY <1>2, <1>4, <2>4, <3>1, <3>2
  <2> QED BY <1>5, <2>1, <2>2, <2>3, <2>4 DEF BackRule
<1>6. ASSUME NEW g \in [D -> V], NEW h \in [D -> V], NEW i \in 0..m, NEW j \in 0..n,
             \A k \in 0..m, l \in 0..n : k + l < i + j => g[<<k, l>>] = h[<<k, l>>]
      PROVE  F[g][<<i, j>>] = F[h][<<i, j>>]
  <2>1. i > 0 => i - 1 \in 0..m /\ i - 1 + j < i + j
    BY <1>0
  <2>2. j > 0 => j - 1 \in 0..n /\ i + (j - 1) < i + j
    BY <1>0
  <2>3. /\ i > 0 => g[<<i - 1, j>>] = h[<<i - 1, j>>]
        /\ j > 0 => g[<<i, j - 1>>] = h[<<i, j - 1>>]
    BY <1>6, <2>1, <2>2
  <2>4. i > 0 /\ j > 0 => g[<<i - 1, j - 1>>] = h[<<i - 1, j - 1>>]
    <3>1. i > 0 /\ j > 0 => i - 1 + (j - 1) < i + j
      BY <1>0
    <3> QED BY <1>6, <2>1, <2>2, <3>1
  <2>5. BackAt(left, right, c, g, <<i, j>>) = BackAt(left, right, c, h, <<i, j>>)
    <3>1. CASE i > 0 /\ j > 0
      BY <2>3, <2>4, <3>1 DEF BackAt
    <3>2. CASE i > 0 /\ j = 0
      <4>1. c[<<i, j>>] = c[<<i - 1, j>>] + 1
        <5>1. BackRule(left, right, c, g, i, j, BackAt(left, right, c, g, <<i, j>>))
          BY <1>1
        <5> QED BY <3>2, <5>1 DEF BackRule
      <4> QED BY <2>3, <3>2, <4>1 DEF BackAt
    <3>3. CASE i = 0
      BY <2>3, <3>3 DEF BackAt
    <3> QED BY <3>1, <3>2, <3>3
  <2> QED BY <2>5
<1>7. \A g \in [D -> V] : F[g] \in [D -> V]
  <2> SUFFICES ASSUME NEW g \in [D -> V], NEW i \in 0..m, NEW j \in 0..n
               PROVE  BackAt(left, right, c, g, <<i, j>>) \in V
    OBVIOUS
  <2>1. \A k \in 0..m, l \in 0..n : g[<<k, l>>] \in V
    OBVIOUS
  <2>2. BackRule(left, right, c, g, i, j, BackAt(left, right, c, g, <<i, j>>))
    BY <1>1
  <2> QED BY <1>5, <2>1, <2>2
<1>8. \E g \in [D -> V] : g = F[g]
  <2> HIDE DEF F
  <2>1. Fills(F, m, n, V)
    BY <1>0, <1>6, <1>7 DEF Fills
  <2>2. \E g : Filled(g, F, m, n, V)
    BY <2>1, TableExists
  <2> QED BY <2>2 DEF Filled
<1>9. b = [ij \in D |-> BackAt(left, right, c, b, ij)]
  <2>1. PICK g \in [D -> V] : g = [ij \in D |-> BackAt(left, right, c, g, ij)]
    BY <1>8
  <2> QED BY <2>1
<1>10. Backtrace(left, right) = b[<<m, n>>]
  BY BackIsTable DEF c, m, n
<1> HIDE DEF F, b
<1>11. \A i \in 0..m, j \in 0..n : BackRule(left, right, c, b, i, j, b[<<i, j>>])
  <2>1. \A i \in 0..m, j \in 0..n : b[<<i, j>>] = BackAt(left, right, c, b, <<i, j>>)
    BY <1>9
  <2> QED BY <1>1, <2>1
<1> DEFINE Q == {ij \in D : b[ij] \in V}
<1>12. \A i \in 0..m, j \in 0..n :
         (\A k \in 0..m, l \in 0..n : k + l < i + j => <<k, l>> \in Q) => <<i, j>> \in Q
  BY <1>5, <1>11
<1>13. \A i \in 0..m, j \in 0..n : <<i, j>> \in Q
  <2> HIDE DEF Q
  <2> QED BY <1>0, <1>12, AllCells
<1>14. b \in [D -> V]
  <2>1. \A ij \in D : b[ij] \in V
    BY <1>13
  <2>2. DOMAIN b = D /\ b = [ij \in D |-> b[ij]]
    BY <1>9
  <2> QED BY <2>1, <2>2
<1> QED BY <1>10, <1>11, <1>14 DEF V, c, m, n

\* One more column on one side: the next token of the word, or a gap.
LEMMA SpellsMore ==
  ASSUME NEW T, Gap \notin T, NEW columns \in Columns(T), NEW word \in Seq(T),
         NEW side \in {1, 2}, NEW k \in 0..Len(word), Spells(columns, side, word, k),
         NEW col \in (T \cup {Gap}) \X (T \cup {Gap})
  PROVE  /\ col[side] = Gap => Spells(Append(columns, col), side, word, k)
         /\ k < Len(word) /\ col[side] = word[k + 1] =>
              Spells(Append(columns, col), side, word, k + 1)
<1> DEFINE n == Len(columns)
           more == Append(columns, col)
           filled == {i \in DOMAIN columns : columns[i][side] # Gap}
           filledNow == {i \in DOMAIN more : more[i][side] # Gap}
<1>1. /\ n \in Nat /\ DOMAIN columns = 1..n /\ DOMAIN more = 1..(n + 1)
      /\ more[n + 1] = col /\ \A i \in 1..n : more[i] = columns[i]
  BY DEF Columns
<1>2. IsFiniteSet(filled) /\ filled \subseteq 1..n /\ n + 1 \notin filled
  <2>1. filled \subseteq 1..n
    BY <1>1
  <2>2. IsFiniteSet(1..n)
    BY <1>1, FS_Interval
  <2> HIDE DEF filled
  <2>3. IsFiniteSet(filled)
    BY <2>1, <2>2, FS_Subset
  <2> QED BY <1>1, <2>1, <2>3
<1>3. /\ Cardinality(filled) = k
      /\ \A i \in filled : columns[i][side] = word[Cardinality({l \in filled : l <= i})]
  BY DEF Spells
<1>4. filledNow = IF col[side] = Gap THEN filled ELSE filled \cup {n + 1}
  BY <1>1
<1>5. \A i \in filled : {l \in filledNow : l <= i} = {l \in filled : l <= i}
  BY <1>1, <1>2, <1>4
<1>6. \A i \in filled : more[i][side] = word[Cardinality({l \in filledNow : l <= i})]
  BY <1>1, <1>2, <1>3, <1>5
<1> HIDE DEF filled
<1>7. ASSUME col[side] = Gap PROVE Spells(more, side, word, k)
  <2>1. filledNow = filled
    BY <1>4, <1>7
  <2> HIDE DEF filledNow, more
  <2>2. Cardinality(filledNow) = k
    BY <1>3, <2>1
  <2>3. \A i \in filledNow : more[i][side] = word[Cardinality({l \in filledNow : l <= i})]
    BY <1>6, <2>1
  <2> QED BY <2>2, <2>3 DEF Spells, filledNow
<1>8. ASSUME k < Len(word), col[side] = word[k + 1] PROVE Spells(more, side, word, k + 1)
  <2>1. col[side] # Gap
    BY <1>8
  <2>2. filledNow = filled \cup {n + 1}
    BY <1>4, <2>1
  <2>3. Cardinality(filledNow) = k + 1
    BY <1>2, <1>3, <2>2, FS_AddElement
  <2>4. {l \in filledNow : l <= n + 1} = filledNow
    BY <1>1, <1>2, <2>2
  <2>5. more[n + 1][side] = word[Cardinality({l \in filledNow : l <= n + 1})]
    BY <1>1, <1>8, <2>3, <2>4
  <2> HIDE DEF filledNow, more, n
  <2>6. \A i \in filledNow : more[i][side] = word[Cardinality({l \in filledNow : l <= i})]
    BY <1>6, <2>2, <2>5
  <2> QED BY <2>3, <2>6 DEF Spells, filledNow
<1> QED BY <1>7, <1>8

LEMMA SpellsGap ==
  ASSUME NEW T, Gap \notin T, NEW columns \in Columns(T), NEW word \in Seq(T),
         NEW side \in {1, 2}, NEW k \in 0..Len(word), Spells(columns, side, word, k),
         NEW col \in (T \cup {Gap}) \X (T \cup {Gap}), col[side] = Gap
  PROVE  Spells(Append(columns, col), side, word, k)
BY SpellsMore

LEMMA SpellsToken ==
  ASSUME NEW T, Gap \notin T, NEW columns \in Columns(T), NEW word \in Seq(T),
         NEW side \in {1, 2}, NEW k \in 1..Len(word), Spells(columns, side, word, k - 1),
         NEW col \in (T \cup {Gap}) \X (T \cup {Gap}), col[side] = word[k]
  PROVE  Spells(Append(columns, col), side, word, k)
<1> DEFINE h == k - 1
<1>1. h \in 0..Len(word) /\ h < Len(word) /\ k = h + 1
  OBVIOUS
<1> HIDE DEF h
<1>2. Spells(columns, side, word, h) /\ col[side] = word[h + 1]
  BY <1>1 DEF h
<1> QED BY <1>1, <1>2, SpellsMore

Differing(columns) == {i \in DOMAIN columns : columns[i][1] # columns[i][2]}

LEMMA DifferingMore ==
  ASSUME NEW T, NEW columns \in Columns(T), NEW col \in (T \cup {Gap}) \X (T \cup {Gap})
  PROVE  /\ Cardinality(Differing(columns)) \in Nat
         /\ Cardinality(Differing(Append(columns, col)))
              = Cardinality(Differing(columns)) + Differ(col[1], col[2])
<1> DEFINE n == Len(columns)
           more == Append(columns, col)
<1>1. /\ n \in Nat /\ DOMAIN columns = 1..n /\ DOMAIN more = 1..(n + 1)
      /\ more[n + 1] = col /\ \A i \in 1..n : more[i] = columns[i]
  BY DEF Columns
<1>2. IsFiniteSet(Differing(columns)) /\ n + 1 \notin Differing(columns)
  <2>1. Differing(columns) \subseteq 1..n /\ IsFiniteSet(1..n)
    BY <1>1, FS_Interval DEF Differing
  <2> QED BY <1>1, <2>1, FS_Subset
<1>3. Cardinality(Differing(columns)) \in Nat
  BY <1>2, FS_CardinalityType
<1>4. Differing(more) = IF col[1] = col[2] THEN Differing(columns)
                        ELSE Differing(columns) \cup {n + 1}
  BY <1>1 DEF Differing
<1>5. Cardinality(Differing(columns) \cup {n + 1}) = Cardinality(Differing(columns)) + 1
  BY <1>2, FS_AddElement
<1> QED BY <1>3, <1>4, <1>5 DEF Differ

\* The columns spell the first tokens of both words, and as many differ.
Laid(left, right, columns, i, j, cost) ==
  /\ Spells(columns, 1, left, i) /\ Spells(columns, 2, right, j)
  /\ Cardinality(Differing(columns)) = cost

LEMMA LaysPair ==
  ASSUME NEW T, Gap \notin T, NEW left \in Seq(T), NEW right \in Seq(T),
         NEW columns \in Columns(T), NEW cost, NEW i \in 1..Len(left), NEW j \in 1..Len(right),
         Laid(left, right, columns, i - 1, j - 1, cost)
  PROVE  Laid(left, right, Append(columns, <<left[i], right[j]>>), i, j,
              cost + Differ(left[i], right[j]))
<1> DEFINE col == <<left[i], right[j]>>
<1>1. col \in (T \cup {Gap}) \X (T \cup {Gap}) /\ col[1] = left[i] /\ col[2] = right[j]
  OBVIOUS
<1> HIDE DEF col
<1>2. Spells(Append(columns, col), 1, left, i)
  BY <1>1, SpellsToken DEF Laid
<1>3. Spells(Append(columns, col), 2, right, j)
  BY <1>1, SpellsToken DEF Laid
<1>4. Cardinality(Differing(Append(columns, col))) = cost + Differ(left[i], right[j])
  BY <1>1, DifferingMore DEF Laid
<1> QED BY <1>2, <1>3, <1>4 DEF Laid, col

LEMMA LaysLeft ==
  ASSUME NEW T, Gap \notin T, NEW left \in Seq(T), NEW right \in Seq(T),
         NEW columns \in Columns(T), NEW cost, NEW i \in 1..Len(left), NEW j \in 0..Len(right),
         Laid(left, right, columns, i - 1, j, cost)
  PROVE  Laid(left, right, Append(columns, <<left[i], Gap>>), i, j, cost + 1)
<1> DEFINE col == <<left[i], Gap>>
<1>1. /\ col \in (T \cup {Gap}) \X (T \cup {Gap})
      /\ col[1] = left[i] /\ col[2] = Gap /\ col[1] # col[2]
  OBVIOUS
<1> HIDE DEF col
<1>2. Spells(Append(columns, col), 1, left, i)
  BY <1>1, SpellsToken DEF Laid
<1>3. Spells(Append(columns, col), 2, right, j)
  BY <1>1, SpellsGap DEF Laid
<1>4. Cardinality(Differing(Append(columns, col))) = cost + 1
  BY <1>1, DifferingMore DEF Laid, Differ
<1> QED BY <1>2, <1>3, <1>4 DEF Laid, col

LEMMA LaysRight ==
  ASSUME NEW T, Gap \notin T, NEW left \in Seq(T), NEW right \in Seq(T),
         NEW columns \in Columns(T), NEW cost, NEW i \in 0..Len(left), NEW j \in 1..Len(right),
         Laid(left, right, columns, i, j - 1, cost)
  PROVE  Laid(left, right, Append(columns, <<Gap, right[j]>>), i, j, cost + 1)
<1> DEFINE col == <<Gap, right[j]>>
<1>1. /\ col \in (T \cup {Gap}) \X (T \cup {Gap})
      /\ col[1] = Gap /\ col[2] = right[j] /\ col[1] # col[2]
  OBVIOUS
<1> HIDE DEF col
<1>2. Spells(Append(columns, col), 1, left, i)
  BY <1>1, SpellsGap DEF Laid
<1>3. Spells(Append(columns, col), 2, right, j)
  BY <1>1, SpellsToken DEF Laid
<1>4. Cardinality(Differing(Append(columns, col))) = cost + 1
  BY <1>1, DifferingMore DEF Laid, Differ
<1> QED BY <1>2, <1>3, <1>4 DEF Laid, col

LEMMA LaysAll ==
  ASSUME NEW T, Gap \notin T, NEW left \in Seq(T), NEW right \in Seq(T), NEW c,
         NEW b \in [(0..Len(left)) \X (0..Len(right)) -> Columns(T)],
         \A i \in 0..Len(left), j \in 0..Len(right) :
           CostRule(left, right, c, i, j) /\ BackRule(left, right, c, b, i, j, b[<<i, j>>])
  PROVE  \A i \in 0..Len(left), j \in 0..Len(right) :
           Laid(left, right, b[<<i, j>>], i, j, c[<<i, j>>])
<1> DEFINE m == Len(left)
           n == Len(right)
           Good(i, j) == Laid(left, right, b[<<i, j>>], i, j, c[<<i, j>>])
           Q == {ij \in (0..m) \X (0..n) : Good(ij[1], ij[2])}
<1>0. m \in Nat /\ n \in Nat
  OBVIOUS
<1>1. ASSUME NEW i \in 0..m, NEW j \in 0..n,
             \A k \in 0..m, l \in 0..n : k + l < i + j => Good(k, l)
      PROVE  Good(i, j)
  <2> HIDE DEF Good
  <2>0. CostRule(left, right, c, i, j) /\ BackRule(left, right, c, b, i, j, b[<<i, j>>])
    OBVIOUS
  <2>1. ASSUME i = 0, j = 0, b[<<i, j>>] = <<>> PROVE Good(i, j)
    <3>1. c[<<i, j>>] = 0
      BY <2>0, <2>1 DEF CostRule
    <3>2. Cardinality({}) = 0
      BY FS_EmptySet
    <3> DEFINE none == b[<<i, j>>]
    <3>3. DOMAIN none = {}
      BY <2>1
    <3> HIDE DEF none
    <3>4. Differing(none) = {} /\ \A s : {k \in DOMAIN none : none[k][s] # Gap} = {}
      BY <3>3 DEF Differing
    <3>5. \A s, word : Spells(none, s, word, 0)
      BY <3>2, <3>4 DEF Spells
    <3> QED BY <2>1, <3>1, <3>2, <3>4, <3>5 DEF Good, Laid, none
  <2>2. ASSUME i > 0, j > 0, b[<<i, j>>] = Append(b[<<i - 1, j - 1>>], <<left[i], right[j]>>),
               c[<<i, j>>] = c[<<i - 1, j - 1>>] + Differ(left[i], right[j])
        PROVE  Good(i, j)
    <3>1. /\ i - 1 \in 0..m /\ j - 1 \in 0..n /\ i - 1 + (j - 1) < i + j
          /\ i \in 1..m /\ j \in 1..n
      BY <1>0, <2>2
    <3>2. b[<<i - 1, j - 1>>] \in Columns(T) /\ Good(i - 1, j - 1)
      BY <1>1, <3>1
    <3> QED BY <2>2, <3>1, <3>2, LaysPair DEF Good
  <2>3. ASSUME i > 0, b[<<i, j>>] = Append(b[<<i - 1, j>>], <<left[i], Gap>>),
               c[<<i, j>>] = c[<<i - 1, j>>] + 1
        PROVE  Good(i, j)
    <3>1. i - 1 \in 0..m /\ i - 1 + j < i + j /\ i \in 1..m
      BY <1>0, <2>3
    <3>2. b[<<i - 1, j>>] \in Columns(T) /\ Good(i - 1, j)
      BY <1>1, <3>1
    <3> QED BY <2>3, <3>1, <3>2, LaysLeft DEF Good
  <2>4. ASSUME j > 0, b[<<i, j>>] = Append(b[<<i, j - 1>>], <<Gap, right[j]>>),
               c[<<i, j>>] = c[<<i, j - 1>>] + 1
        PROVE  Good(i, j)
    <3>1. j - 1 \in 0..n /\ i + (j - 1) < i + j /\ j \in 1..n
      BY <1>0, <2>4
    <3>2. b[<<i, j - 1>>] \in Columns(T) /\ Good(i, j - 1)
      BY <1>1, <3>1
    <3> QED BY <2>4, <3>1, <3>2, LaysRight DEF Good
  <2> QED BY <2>0, <2>1, <2>2, <2>3, <2>4 DEF BackRule
<1> HIDE DEF Good
<1>2. \A i \in 0..m, j \in 0..n :
        (\A k \in 0..m, l \in 0..n : k + l < i + j => <<k, l>> \in Q) => <<i, j>> \in Q
  BY <1>1
<1>3. \A i \in 0..m, j \in 0..n : <<i, j>> \in Q
  <2> HIDE DEF Q
  <2> QED BY <1>0, <1>2, AllCells
<1> QED BY <1>3 DEF Good

-----------------------------------------------------------------------------
(* No other layout is cheaper *)

Wrongs(left, right, p) == {x \in p : left[x[1]] # right[x[2]]}

\* A pair more in a layout.
LEMMA PairMore ==
  ASSUME NEW left, NEW right, NEW p, IsFiniteSet(p), NEW k, NEW l, <<k, l>> \notin p
  PROVE  /\ Cardinality(p) \in Nat /\ Cardinality(Wrongs(left, right, p)) \in Nat
         /\ Cardinality(p \cup {<<k, l>>}) = Cardinality(p) + 1
         /\ Cardinality(Wrongs(left, right, p \cup {<<k, l>>}))
              = Cardinality(Wrongs(left, right, p)) + Differ(left[k], right[l])
<1> DEFINE x == <<k, l>>
           W == Wrongs(left, right, p)
<1>1. IsFiniteSet(W) /\ x \notin W
  BY FS_Subset DEF Wrongs
<1>2. x[1] = k /\ x[2] = l
  OBVIOUS
<1>3. Cardinality(p \cup {x}) = Cardinality(p) + 1
  BY FS_AddElement
<1> HIDE DEF x
<1>4. Wrongs(left, right, p \cup {x}) = IF left[k] = right[l] THEN W ELSE W \cup {x}
  BY <1>2 DEF Wrongs
<1> HIDE DEF W
<1>5. Cardinality(p) \in Nat /\ Cardinality(W) \in Nat
  BY <1>1, FS_CardinalityType
<1>6. Cardinality(W \cup {x}) = Cardinality(W) + 1
  BY <1>1, FS_AddElement
<1> QED BY <1>3, <1>4, <1>5, <1>6 DEF Differ, W, x

LEMMA LayoutFinite ==
  ASSUME NEW i \in Nat, NEW j \in Nat, NEW p \in Matchings(i, j)
  PROVE  IsFiniteSet(p)
<1>1. IsFiniteSet(1..i) /\ IsFiniteSet(1..j)
  BY FS_Interval
<1>2. IsFiniteSet((1..i) \X (1..j))
  BY <1>1, FS_Product
<1> QED BY <1>2, FS_Subset DEF Matchings

\* Without the last pair it is a layout of what is before both; without a pair
\* for the last token of one word, of what is before that token.
LEMMA LayoutCases ==
  ASSUME NEW i \in Nat, NEW j \in Nat, i > 0, j > 0, NEW p \in Matchings(i, j)
  PROVE  \/ <<i, j>> \in p /\ p \ {<<i, j>>} \in Matchings(i - 1, j - 1)
         \/ p \in Matchings(i - 1, j)
         \/ p \in Matchings(i, j - 1)
<1>1. /\ p \subseteq (1..i) \X (1..j)
      /\ \A x, y \in p : x # y => (x[1] < y[1] /\ x[2] < y[2]) \/ (y[1] < x[1] /\ y[2] < x[2])
  BY DEF Matchings
<1>2. CASE <<i, j>> \in p
  <2>1. ASSUME NEW x \in p, x # <<i, j>> PROVE x \in (1..(i - 1)) \X (1..(j - 1))
    <3>1. PICK k \in 1..i, l \in 1..j : x = <<k, l>>
      BY <1>1
    <3>2. (k < i /\ l < j) \/ (i < k /\ j < l)
      BY <1>1, <1>2, <2>1, <3>1
    <3> QED BY <3>1, <3>2
  <2>2. p \ {<<i, j>>} \subseteq (1..(i - 1)) \X (1..(j - 1))
    BY <2>1
  <2> QED BY <1>1, <1>2, <2>2 DEF Matchings
<1>3. CASE <<i, j>> \notin p /\ \A x \in p : x[1] # i
  <2>1. ASSUME NEW x \in p PROVE x \in (1..(i - 1)) \X (1..j)
    <3>1. PICK k \in 1..i, l \in 1..j : x = <<k, l>>
      BY <1>1
    <3> QED BY <1>3, <3>1
  <2> QED BY <1>1, <2>1 DEF Matchings
<1>4. CASE <<i, j>> \notin p /\ \E x \in p : x[1] = i
  <2>1. PICK x \in p : x[1] = i
    BY <1>4
  <2>2. PICK k \in 1..i, l \in 1..j : x = <<k, l>>
    BY <1>1
  <2>3. k = i /\ l < j
    BY <1>4, <2>1, <2>2
  <2>4. ASSUME NEW y \in p PROVE y \in (1..i) \X (1..(j - 1))
    <3>1. PICK s \in 1..i, t \in 1..j : y = <<s, t>>
      BY <1>1
    <3>2. t < j
      <4>1. CASE y = x
        BY <2>2, <2>3, <3>1, <4>1
      <4>2. CASE y # x
        <5>1. (s < k /\ t < l) \/ (k < s /\ l < t)
          BY <1>1, <2>2, <3>1, <4>2
        <5> QED BY <2>3, <5>1
      <4> QED BY <4>1, <4>2
    <3> QED BY <3>1, <3>2
  <2> QED BY <1>1, <2>4 DEF Matchings
<1> QED BY <1>2, <1>3, <1>4

\* The sums of the three cases.
LEMMA OneStep ==
  ASSUME NEW i \in Nat, NEW j \in Nat, NEW size \in Nat, NEW wrong \in Nat,
         NEW here \in Nat, NEW before \in Nat, NEW d \in Nat
  PROVE  /\ /\ here <= before + d
            /\ before <= i - 1 + (j - 1) - 2 * size + wrong
            => here <= i + j - 2 * (size + 1) + (wrong + d)
         /\ /\ here <= before + 1
            /\ before <= i - 1 + j - 2 * size + wrong
            => here <= i + j - 2 * size + wrong
         /\ /\ here <= before + 1
            /\ before <= i + (j - 1) - 2 * size + wrong
            => here <= i + j - 2 * size + wrong
OBVIOUS

LEMMA PriceFloor ==
  ASSUME NEW T, NEW left \in Seq(T), NEW right \in Seq(T)
  PROVE  \A i \in 0..Len(left), j \in 0..Len(right) : \A p \in Matchings(i, j) :
           Cost(left, right)[<<i, j>>] <= Price(left, right, p, i, j)
<1> DEFINE m == Len(left)
           n == Len(right)
           c == Cost(left, right)
           Good(i, j) == \A p \in Matchings(i, j) : c[<<i, j>>] <= Price(left, right, p, i, j)
           Q == {ij \in (0..m) \X (0..n) : Good(ij[1], ij[2])}
<1>0. /\ m \in Nat /\ n \in Nat /\ c \in [(0..m) \X (0..n) -> Nat]
      /\ \A i \in 0..m, j \in 0..n : CostRule(left, right, c, i, j)
  BY CostIs
<1> HIDE DEF m, n, c
<1>1. ASSUME NEW i \in 0..m, NEW j \in 0..n,
             \A k \in 0..m, l \in 0..n : k + l < i + j => Good(k, l),
             NEW p \in Matchings(i, j)
      PROVE  c[<<i, j>>] <= Price(left, right, p, i, j)
  <2> DEFINE W(q) == Wrongs(left, right, q)
  <2>0. Price(left, right, p, i, j) = i + j - 2 * Cardinality(p) + Cardinality(W(p))
    BY DEF Price, Wrongs
  <2>1. CASE i = 0 \/ j = 0
    <3>1. p = {}
      <4>1. (1..i) \X (1..j) = {}
        BY <2>1
      <4> QED BY <4>1 DEF Matchings
    <3>2. Cardinality(p) = 0 /\ Cardinality(W(p)) = 0
      BY <3>1, FS_EmptySet DEF Wrongs
    <3>3. c[<<i, j>>] = i + j
      <4>1. CostRule(left, right, c, i, j) /\ i \in Nat /\ j \in Nat
        BY <1>0
      <4> QED BY <2>1, <4>1 DEF CostRule
    <3> QED BY <1>0, <2>0, <3>2, <3>3
  <2>2. CASE i > 0 /\ j > 0
    <3>1. /\ i - 1 \in 0..m /\ j - 1 \in 0..n /\ i \in Nat /\ j \in Nat
          /\ i - 1 + j < i + j /\ i + (j - 1) < i + j /\ i - 1 + (j - 1) < i + j
      BY <1>0, <2>2
    <3>2. /\ c[<<i, j>>] <= c[<<i - 1, j - 1>>] + Differ(left[i], right[j])
          /\ c[<<i, j>>] <= c[<<i - 1, j>>] + 1 /\ c[<<i, j>>] <= c[<<i, j - 1>>] + 1
          /\ c[<<i, j>>] \in Nat /\ c[<<i - 1, j - 1>>] \in Nat
          /\ c[<<i - 1, j>>] \in Nat /\ c[<<i, j - 1>>] \in Nat
      BY <1>0, <2>2, <3>1 DEF CostRule
    <3>3. IsFiniteSet(p)
      BY <3>1, LayoutFinite
    <3>4. CASE <<i, j>> \in p /\ p \ {<<i, j>>} \in Matchings(i - 1, j - 1)
      <4> DEFINE q == p \ {<<i, j>>}
      <4>1. c[<<i - 1, j - 1>>] <= i - 1 + (j - 1) - 2 * Cardinality(q) + Cardinality(W(q))
        BY <1>1, <3>1, <3>4 DEF Price, Wrongs
      <4>2. p = q \cup {<<i, j>>} /\ <<i, j>> \notin q /\ IsFiniteSet(q)
        BY <3>3, <3>4, FS_Subset
      <4> HIDE DEF q, W
      <4>3. /\ Cardinality(q) \in Nat /\ Cardinality(W(q)) \in Nat
            /\ Cardinality(p) = Cardinality(q) + 1
            /\ Cardinality(W(p)) = Cardinality(W(q)) + Differ(left[i], right[j])
        <5>1. <<i, j>> \notin q /\ IsFiniteSet(q)
          BY <4>2
        <5>2. Cardinality(q) \in Nat /\ Cardinality(Wrongs(left, right, q)) \in Nat
          BY <5>1, PairMore
        <5>3. Cardinality(q \cup {<<i, j>>}) = Cardinality(q) + 1
          BY <5>1, PairMore
        <5>4. Cardinality(Wrongs(left, right, q \cup {<<i, j>>}))
                = Cardinality(Wrongs(left, right, q)) + Differ(left[i], right[j])
          BY <5>1, PairMore
        <5> QED BY <4>2, <5>2, <5>3, <5>4 DEF W
      <4>4. Differ(left[i], right[j]) \in Nat
        BY DEF Differ
      <4>5. c[<<i, j>>] <= i + j - 2 * Cardinality(p) + Cardinality(W(p))
        <5> DEFINE here == c[<<i, j>>]
                   before == c[<<i - 1, j - 1>>]
                   d == Differ(left[i], right[j])
        <5>1. /\ here \in Nat /\ before \in Nat /\ d \in Nat /\ here <= before + d
              /\ before <= i - 1 + (j - 1) - 2 * Cardinality(q) + Cardinality(W(q))
          BY <3>2, <4>1, <4>4
        <5> HIDE DEF here, before
        <5>2. here <= i + j - 2 * (Cardinality(q) + 1) + (Cardinality(W(q)) + d)
          BY <3>1, <4>3, <5>1, OneStep
        <5> QED BY <4>3, <5>2 DEF here
      <4> QED BY <2>0, <4>5
    <3>5. Cardinality(p) \in Nat /\ Cardinality(W(p)) \in Nat
      <4>1. IsFiniteSet(W(p))
        BY <3>3, FS_Subset DEF Wrongs
      <4> QED BY <3>3, <4>1, FS_CardinalityType
    <3>6. CASE p \in Matchings(i - 1, j)
      <4>1. c[<<i - 1, j>>] <= i - 1 + j - 2 * Cardinality(p) + Cardinality(W(p))
        BY <1>1, <3>1, <3>6 DEF Price, Wrongs
      <4> HIDE DEF W
      <4>2. c[<<i, j>>] <= i + j - 2 * Cardinality(p) + Cardinality(W(p))
        BY <3>1, <3>2, <3>5, <4>1, OneStep
      <4> QED BY <2>0, <4>2
    <3>7. CASE p \in Matchings(i, j - 1)
      <4>1. c[<<i, j - 1>>] <= i + (j - 1) - 2 * Cardinality(p) + Cardinality(W(p))
        BY <1>1, <3>1, <3>7 DEF Price, Wrongs
      <4> HIDE DEF W
      <4>2. c[<<i, j>>] <= i + j - 2 * Cardinality(p) + Cardinality(W(p))
        BY <3>1, <3>2, <3>5, <4>1, OneStep
      <4> QED BY <2>0, <4>2
    <3> QED BY <2>2, <3>1, <3>4, <3>6, <3>7, LayoutCases
  <2> QED BY <1>0, <2>1, <2>2
<1>2. \A i \in 0..m, j \in 0..n :
        (\A k \in 0..m, l \in 0..n : k + l < i + j => <<k, l>> \in Q) => <<i, j>> \in Q
  <2> SUFFICES ASSUME NEW i \in 0..m, NEW j \in 0..n,
                      \A k \in 0..m, l \in 0..n : k + l < i + j => Good(k, l)
               PROVE  Good(i, j)
    OBVIOUS
  <2> QED BY <1>1
<1>3. \A i \in 0..m, j \in 0..n : <<i, j>> \in Q
  <2> HIDE DEF Q
  <2> QED BY <1>0, <1>2, AllCells
<1> QED BY <1>3 DEF c, m, n

\* One layout costs what the table says.
LEMMA PriceMet ==
  ASSUME NEW T, NEW left \in Seq(T), NEW right \in Seq(T)
  PROVE  \A i \in 0..Len(left), j \in 0..Len(right) : \E p \in Matchings(i, j) :
           Price(left, right, p, i, j) = Cost(left, right)[<<i, j>>]
<1> DEFINE m == Len(left)
           n == Len(right)
           c == Cost(left, right)
           Good(i, j) == \E p \in Matchings(i, j) : Price(left, right, p, i, j) = c[<<i, j>>]
           Q == {ij \in (0..m) \X (0..n) : Good(ij[1], ij[2])}
           W(q) == Wrongs(left, right, q)
<1>0. /\ m \in Nat /\ n \in Nat /\ c \in [(0..m) \X (0..n) -> Nat]
      /\ \A i \in 0..m, j \in 0..n : CostRule(left, right, c, i, j)
  BY CostIs
<1> HIDE DEF m, n, c
<1>1. ASSUME NEW i \in 0..m, NEW j \in 0..n,
             \A k \in 0..m, l \in 0..n : k + l < i + j => Good(k, l)
      PROVE  Good(i, j)
  <2>0. \A q, k, l : Price(left, right, q, k, l) = k + l - 2 * Cardinality(q) + Cardinality(W(q))
    BY DEF Price, Wrongs
  <2>1. CASE i = 0 \/ j = 0
    <3>1. {} \in Matchings(i, j)
      BY DEF Matchings
    <3>2. Cardinality({}) = 0 /\ Cardinality(W({})) = 0
      BY FS_EmptySet DEF Wrongs
    <3>3. c[<<i, j>>] = i + j
      <4>1. CostRule(left, right, c, i, j) /\ i \in Nat /\ j \in Nat
        BY <1>0
      <4> QED BY <2>1, <4>1 DEF CostRule
    <3>4. Price(left, right, {}, i, j) = c[<<i, j>>]
      BY <1>0, <2>0, <3>2, <3>3
    <3> QED BY <3>1, <3>4
  <2>2. CASE i > 0 /\ j > 0
    <3>1. /\ i - 1 \in 0..m /\ j - 1 \in 0..n /\ i \in Nat /\ j \in Nat
          /\ i - 1 \in Nat /\ j - 1 \in Nat
          /\ i - 1 + j < i + j /\ i + (j - 1) < i + j /\ i - 1 + (j - 1) < i + j
      BY <1>0, <2>2
    <3>2. /\ c[<<i, j>>] \in {c[<<i - 1, j - 1>>] + Differ(left[i], right[j]),
                              c[<<i - 1, j>>] + 1, c[<<i, j - 1>>] + 1}
          /\ c[<<i, j>>] \in Nat /\ c[<<i - 1, j - 1>>] \in Nat
          /\ c[<<i - 1, j>>] \in Nat /\ c[<<i, j - 1>>] \in Nat
      BY <1>0, <2>2, <3>1 DEF CostRule
    <3>3. CASE c[<<i, j>>] = c[<<i - 1, j - 1>>] + Differ(left[i], right[j])
      <4>1. PICK q \in Matchings(i - 1, j - 1) :
              Price(left, right, q, i - 1, j - 1) = c[<<i - 1, j - 1>>]
        BY <1>1, <3>1
      <4>2. /\ q \subseteq (1..(i - 1)) \X (1..(j - 1))
            /\ \A x, y \in q : x # y => (x[1] < y[1] /\ x[2] < y[2]) \/ (y[1] < x[1] /\ y[2] < x[2])
        BY DEF Matchings
      <4> DEFINE p == q \cup {<<i, j>>}
      <4>3. ASSUME NEW x \in q PROVE x \in (1..i) \X (1..j) /\ x[1] < i /\ x[2] < j
        <5>1. PICK k \in 1..(i - 1), l \in 1..(j - 1) : x = <<k, l>>
          BY <4>2
        <5> QED BY <3>1, <5>1
      <4>4. <<i, j>> \in (1..i) \X (1..j) /\ <<i, j>> \notin q
        BY <2>2, <3>1, <4>3
      <4>5. p \subseteq (1..i) \X (1..j)
        BY <4>3, <4>4
      <4>6. \A x, y \in p : x # y => (x[1] < y[1] /\ x[2] < y[2]) \/ (y[1] < x[1] /\ y[2] < x[2])
        BY <4>2, <4>3
      <4>7. p \in Matchings(i, j)
        BY <4>5, <4>6 DEF Matchings
      <4>8. IsFiniteSet(q)
        BY <3>1, LayoutFinite
      <4>9. /\ Cardinality(q) \in Nat /\ Cardinality(W(q)) \in Nat
            /\ Cardinality(p) = Cardinality(q) + 1
            /\ Cardinality(W(p)) = Cardinality(W(q)) + Differ(left[i], right[j])
        BY <4>4, <4>8, PairMore
      <4>10. Differ(left[i], right[j]) \in Nat
        BY DEF Differ
      <4> HIDE DEF p, W
      <4>11. Price(left, right, p, i, j) = c[<<i, j>>]
        BY <2>0, <3>1, <3>2, <3>3, <4>1, <4>9, <4>10
      <4> QED BY <4>7, <4>11
    <3>4. CASE c[<<i, j>>] = c[<<i - 1, j>>] + 1
      <4>1. PICK q \in Matchings(i - 1, j) : Price(left, right, q, i - 1, j) = c[<<i - 1, j>>]
        BY <1>1, <3>1
      <4>2. q \in Matchings(i, j)
        BY <3>1 DEF Matchings
      <4>3. Cardinality(q) \in Nat /\ Cardinality(W(q)) \in Nat
        <5>1. IsFiniteSet(q)
          BY <3>1, LayoutFinite
        <5>2. IsFiniteSet(W(q))
          BY <5>1, FS_Subset DEF Wrongs
        <5> QED BY <5>1, <5>2, FS_CardinalityType
      <4> HIDE DEF W
      <4>4. Price(left, right, q, i, j) = c[<<i, j>>]
        BY <2>0, <3>1, <3>2, <3>4, <4>1, <4>3
      <4> QED BY <4>2, <4>4
    <3>5. CASE c[<<i, j>>] = c[<<i, j - 1>>] + 1
      <4>1. PICK q \in Matchings(i, j - 1) : Price(left, right, q, i, j - 1) = c[<<i, j - 1>>]
        BY <1>1, <3>1
      <4>2. q \in Matchings(i, j)
        BY <3>1 DEF Matchings
      <4>3. Cardinality(q) \in Nat /\ Cardinality(W(q)) \in Nat
        <5>1. IsFiniteSet(q)
          BY <3>1, LayoutFinite
        <5>2. IsFiniteSet(W(q))
          BY <5>1, FS_Subset DEF Wrongs
        <5> QED BY <5>1, <5>2, FS_CardinalityType
      <4> HIDE DEF W
      <4>4. Price(left, right, q, i, j) = c[<<i, j>>]
        BY <2>0, <3>1, <3>2, <3>5, <4>1, <4>3
      <4> QED BY <4>2, <4>4
    <3>6. \/ c[<<i, j>>] = c[<<i - 1, j - 1>>] + Differ(left[i], right[j])
          \/ c[<<i, j>>] = c[<<i - 1, j>>] + 1 \/ c[<<i, j>>] = c[<<i, j - 1>>] + 1
      BY <3>2
    <3> QED
      <4> HIDE DEF Good
      <4> QED BY <3>3, <3>4, <3>5, <3>6
  <2>3. (i = 0 \/ j = 0) \/ (i > 0 /\ j > 0)
    BY <1>0
  <2> HIDE DEF Good
  <2> QED BY <2>1, <2>2, <2>3
<1> HIDE DEF Good
<1>2. \A i \in 0..m, j \in 0..n :
        (\A k \in 0..m, l \in 0..n : k + l < i + j => <<k, l>> \in Q) => <<i, j>> \in Q
  BY <1>1
<1>3. \A i \in 0..m, j \in 0..n : <<i, j>> \in Q
  <2> HIDE DEF Q
  <2> QED BY <1>0, <1>2, AllCells
<1> QED BY <1>3 DEF Good, c, m, n

\* The doc of align(): "the number of non-identical columns is exactly the edit
\* distance"; for all words without gaps, however long, the columns shown spell
\* both words, differ as often as the distance counts, and no other way to lay
\* the words out differs less often.
THEOREM AlignmentsAreDistances ==
  ASSUME NEW T, Gap \notin T, NEW left \in Seq(T), NEW right \in Seq(T)
  PROVE  AlignmentIsDistance(left, right)
<1> DEFINE m == Len(left)
           n == Len(right)
           c == Cost(left, right)
           columns == Backtrace(left, right)
           S == {Price(left, right, p, m, n) : p \in Matchings(m, n)}
<1>0. /\ m \in Nat /\ n \in Nat /\ c \in [(0..m) \X (0..n) -> Nat]
      /\ \A i \in 0..m, j \in 0..n : CostRule(left, right, c, i, j)
  BY CostIs
<1>1. PICK b \in [(0..m) \X (0..n) -> Columns(T)] :
        /\ columns = b[<<m, n>>]
        /\ \A i \in 0..m, j \in 0..n : BackRule(left, right, c, b, i, j, b[<<i, j>>])
  BY BackIs
<1> HIDE DEF c
<1>2. \A i \in 0..m, j \in 0..n : Laid(left, right, b[<<i, j>>], i, j, c[<<i, j>>])
  BY <1>0, <1>1, LaysAll
<1>3. EditDistance(left, right) = c[<<m, n>>] /\ c[<<m, n>>] \in Nat
  BY <1>0 DEF EditDistance, c
<1>4. Laid(left, right, columns, m, n, c[<<m, n>>])
  BY <1>0, <1>1, <1>2
<1>5. c[<<m, n>>] \in S
  <2>1. m \in 0..m /\ n \in 0..n
    BY <1>0
  <2>2. PICK p \in Matchings(m, n) : Price(left, right, p, m, n) = Cost(left, right)[<<m, n>>]
    BY <2>1, PriceMet
  <2> QED BY <2>2 DEF c
<1>6. \A p \in Matchings(m, n) :
        Price(left, right, p, m, n) \in Int /\ c[<<m, n>>] <= Price(left, right, p, m, n)
  <2> SUFFICES ASSUME NEW p \in Matchings(m, n)
               PROVE  Price(left, right, p, m, n) \in Int
    BY <1>0, PriceFloor DEF c
  <2>1. IsFiniteSet(p)
    BY <1>0, LayoutFinite
  <2>2. IsFiniteSet({x \in p : left[x[1]] # right[x[2]]})
    BY <2>1, FS_Subset
  <2>3. Cardinality(p) \in Nat /\ Cardinality({x \in p : left[x[1]] # right[x[2]]}) \in Nat
    BY <2>1, <2>2, FS_CardinalityType
  <2> QED BY <1>0, <2>3 DEF Price
<1>7. Min(S) = c[<<m, n>>]
  <2>1. S \in SUBSET Int /\ \A x \in S : c[<<m, n>>] <= x
    BY <1>6
  <2> HIDE DEF S
  <2> QED BY <1>5, <2>1, LeastIs
<1> QED BY <1>3, <1>4, <1>7 DEF AlignmentIsDistance, Laid, Differing

\* "Edit distance over the length of the longer sequence, in [0, 1]", and "two
\* empty sequences are identical": the normalized distance is a fraction of one,
\* and zero for equal words only.
THEOREM NormalizedIsFraction ==
  ASSUME NEW T, NEW left \in Seq(T), NEW right \in Seq(T)
  PROVE  LET d == NormalizedEditDistance(left, right)
         IN  /\ d[1] \in Nat /\ d[2] \in Nat \ {0} /\ d[1] <= d[2]
             /\ d[1] = 0 <=> left = right
<1> DEFINE m == Len(left)
           n == Len(right)
           c == Cost(left, right)
           Good(i, j) == /\ c[<<i, j>>] <= i \/ c[<<i, j>>] <= j
                         /\ c[<<i, j>>] = 0 => i = j /\ \A k \in 1..i : left[k] = right[k]
                         /\ i = j /\ (\A k \in 1..i : left[k] = right[k]) => c[<<i, j>>] = 0
           Q == {ij \in (0..m) \X (0..n) : Good(ij[1], ij[2])}
<1>0. /\ m \in Nat /\ n \in Nat /\ c \in [(0..m) \X (0..n) -> Nat]
      /\ \A i \in 0..m, j \in 0..n : CostRule(left, right, c, i, j)
  BY CostIs
<1> HIDE DEF m, n, c
<1>1. ASSUME NEW i \in 0..m, NEW j \in 0..n,
             \A k \in 0..m, l \in 0..n : k + l < i + j => Good(k, l)
      PROVE  Good(i, j)
  <2>1. CASE i = 0 \/ j = 0
    <3>1. c[<<i, j>>] = i + j
      <4>1. CostRule(left, right, c, i, j) /\ i \in Nat /\ j \in Nat
        BY <1>0
      <4> QED BY <2>1, <4>1 DEF CostRule
    <3> QED BY <1>0, <2>1, <3>1
  <2>2. CASE i > 0 /\ j > 0
    <3>1. /\ i - 1 \in 0..m /\ j - 1 \in 0..n /\ i \in Nat /\ j \in Nat
          /\ i - 1 + (j - 1) < i + j
      BY <1>0, <2>2
    <3>2. /\ c[<<i, j>>] \in {c[<<i - 1, j - 1>>] + Differ(left[i], right[j]),
                              c[<<i - 1, j>>] + 1, c[<<i, j - 1>>] + 1}
          /\ c[<<i, j>>] <= c[<<i - 1, j - 1>>] + Differ(left[i], right[j])
          /\ c[<<i, j>>] \in Nat /\ c[<<i - 1, j - 1>>] \in Nat
          /\ c[<<i - 1, j>>] \in Nat /\ c[<<i, j - 1>>] \in Nat
      BY <1>0, <2>2, <3>1 DEF CostRule
    <3>3. Good(i - 1, j - 1)
      BY <1>1, <3>1
    <3>4. c[<<i, j>>] <= i \/ c[<<i, j>>] <= j
      BY <3>1, <3>2, <3>3 DEF Differ
    <3>5. ASSUME c[<<i, j>>] = 0 PROVE i = j /\ \A k \in 1..i : left[k] = right[k]
      <4>1. c[<<i - 1, j - 1>>] = 0 /\ left[i] = right[j]
        BY <3>2, <3>5 DEF Differ
      <4> QED BY <3>1, <3>3, <4>1
    <3>6. ASSUME i = j, \A k \in 1..i : left[k] = right[k] PROVE c[<<i, j>>] = 0
      <4>1. c[<<i - 1, j - 1>>] = 0 /\ left[i] = right[j]
        BY <2>2, <3>1, <3>3, <3>6
      <4> QED BY <3>2, <4>1 DEF Differ
    <3> QED BY <3>4, <3>5, <3>6
  <2> QED BY <1>0, <2>1, <2>2
<1> HIDE DEF Good
<1>2. \A i \in 0..m, j \in 0..n :
        (\A k \in 0..m, l \in 0..n : k + l < i + j => <<k, l>> \in Q) => <<i, j>> \in Q
  BY <1>1
<1>3. <<m, n>> \in Q
  <2> HIDE DEF Q
  <2>1. \A i \in 0..m, j \in 0..n : <<i, j>> \in Q
    BY <1>0, <1>2, AllCells
  <2> QED BY <1>0, <2>1
<1>4. Good(m, n) /\ c[<<m, n>>] \in Nat
  BY <1>0, <1>3
<1>5. c[<<m, n>>] = 0 <=> left = right
  <2>1. left = right <=> m = n /\ \A k \in 1..m : left[k] = right[k]
    BY DEF m, n
  <2> QED BY <1>4, <2>1 DEF Good
<1>6. CASE left = <<>> /\ right = <<>>
  BY <1>6 DEF NormalizedEditDistance
<1>7. CASE ~(left = <<>> /\ right = <<>>)
  <2> DEFINE w == Max({m, n})
  <2>1. w \in Nat /\ m <= w /\ n <= w
    <3>1. \E x \in {m, n} : \A y \in {m, n} : x >= y
      BY <1>0
    <3>2. w \in {m, n} /\ \A y \in {m, n} : w >= y
      BY <3>1 DEF Max
    <3> QED BY <1>0, <3>2
  <2>2. w # 0
    <3>1. m # 0 \/ n # 0
      BY <1>7 DEF m, n
    <3> QED BY <1>0, <2>1, <3>1
  <2>3. NormalizedEditDistance(left, right) = <<c[<<m, n>>], w>>
    BY <1>7 DEF NormalizedEditDistance, EditDistance, c, m, n
  <2>4. c[<<m, n>>] <= w
    BY <1>0, <1>4, <2>1 DEF Good
  <2> HIDE DEF w
  <2> QED BY <1>4, <1>5, <2>1, <2>2, <2>3, <2>4
<1> QED BY <1>6, <1>7

-----------------------------------------------------------------------------
(* Decisions: what a deletion does to what is read                         *)

\* Candidates with an analysis or none, over any tokens and units; and what a
\* node is left with.
AnalysedWords(T, U) ==
  [segments : Seq(T),
   pieces : {NotScored} \cup Seq([unit : U \cup {NotScored}, kind : STRING, at : Seq(Nat)])]
LeftWith(K, T, U, C, D) ==
  [output : [K -> Seq(AnalysedWords(T, U))], committed : BOOLEAN, fallback : BOOLEAN,
   columns : C, claims : D]

\* What is planned: no opportunity expects a reading of what is not there.
Planned(case, K, T, U) ==
  /\ case.opportunities \in
       Seq([concept : K, unit : U, locus : STRING, token : T, absent : T,
            expected : STRING \ {"missing", "unscorable"}, tied : BOOLEAN])
  /\ IsFiniteSet(case.pairs)
  /\ "witness" \in DOMAIN case.errors
  /\ \A r \in DOMAIN case.errors : IsFiniteSet(case.errors[r])

\* No unit has two pieces.
UnitsOnce(word, U) ==
  word.pieces # NotScored =>
    \A i, j \in DOMAIN word.pieces :
      word.pieces[i].unit = word.pieces[j].unit /\ word.pieces[i].unit \in U => i = j

\* The edge of a unit that has one piece.
EdgeOf(o, word, i) ==
  LET at == word.pieces[i].at
      edge == word.segments[at[IF o.locus = "final" THEN Len(at) ELSE 1]]
  IN IF edge = o.token THEN "retain" ELSE IF edge = o.absent THEN "absent" ELSE "other"

\* It is read whatever else is unknown.
LEMMA OnePiece ==
  ASSUME NEW o, NEW word, NEW i, NEW M, M = {i}, NEW unknown
  PROVE  EdgeReading(o, word, M, unknown) = EdgeOf(o, word, i)
<1>1. Cardinality(M) = 1
  BY FS_Singleton
<1>2. (CHOOSE k \in M : TRUE) = i
  OBVIOUS
<1> QED BY <1>1, <1>2 DEF EdgeReading, EdgeOf

\* What a sequence holds.
LEMMA MemberOf ==
  ASSUME NEW S, NEW q \in Seq(S), NEW i \in DOMAIN q
  PROVE  q[i] \in S
OBVIOUS

\* Whatever is cut from a word, an opportunity reads as it did or as nothing.
LEMMA PieceCut ==
  ASSUME NEW T, NEW U, NotScored \notin U,
         NEW word \in AnalysedWords(T, U), UnitsOnce(word, U),
         word.pieces # NotScored, NEW j \in DOMAIN word.pieces,
         NEW o, o.unit \in U
  PROVE  LET after == [word EXCEPT !.pieces[j] =
                         [@ EXCEPT !.unit = NotScored, !.kind = "unknown"]]
         IN  Reading(o, <<after>>) \in {Reading(o, <<word>>), "unscorable"}
<1> DEFINE after == [word EXCEPT !.pieces[j] =
                       [@ EXCEPT !.unit = NotScored, !.kind = "unknown"]]
           found(w) == {i \in DOMAIN w.pieces : w.pieces[i].unit = o.unit}
           unknown(w) == \E p \in ToSet(w.pieces) : p.kind = "unknown"
           read(w) == IF o.locus = "piece" THEN PieceReading(found(w), unknown(w))
                      ELSE EdgeReading(o, w, found(w), unknown(w))
<1>1. /\ word.pieces \in Seq([unit : U \cup {NotScored}, kind : STRING, at : Seq(Nat)])
      /\ word.segments = after.segments
      /\ after.pieces = [word.pieces EXCEPT ![j] =
                          [@ EXCEPT !.unit = NotScored, !.kind = "unknown"]]
  BY DEF AnalysedWords
<1>2. /\ DOMAIN after.pieces = DOMAIN word.pieces
      /\ after.pieces[j].unit = NotScored /\ after.pieces[j].kind = "unknown"
      /\ \A i \in DOMAIN word.pieces : i # j => after.pieces[i] = word.pieces[i]
  BY <1>1
<1>3. found(after) = found(word) \ {j}
  BY <1>2
<1>4. unknown(after) = TRUE
  <2>1. after.pieces[j] \in ToSet(after.pieces)
    BY <1>2 DEF ToSet
  <2> QED BY <2>1, <1>2
<1>5. found(word) = {} \/ \E i \in DOMAIN word.pieces : found(word) = {i}
  BY DEF UnitsOnce
<1>6. Reading(o, <<after>>) \in {"unscorable", read(after)}
  <2>1. <<after>> # <<>> /\ <<after>>[1] = after
    OBVIOUS
  <2> HIDE DEF after
  <2> QED BY <2>1 DEF Reading
<1>7. Reading(o, <<word>>) = read(word)
  <2>1. <<word>> # <<>> /\ <<word>>[1] = word
    OBVIOUS
  <2> QED BY <2>1 DEF Reading
<1>8. CASE j \in found(word)
  <2>1. found(after) = {}
    BY <1>3, <1>5, <1>8
  <2>2. Cardinality(found(after)) # 1
    <3> HIDE DEF found
    <3> QED BY <2>1, FS_EmptySet
  <2>3. read(after) = "unscorable"
    BY <2>1, <2>2, <1>4 DEF PieceReading, EdgeReading
  <2> QED BY <2>3, <1>6
<1>9. CASE j \notin found(word)
  <2>1. found(after) = found(word)
    BY <1>3, <1>9
  <2> DEFINE M == found(word)
  <2>2. CASE M = {}
    <3>1. Cardinality(M) # 1
      <4> HIDE DEF M
      <4> QED BY <2>2, FS_EmptySet
    <3>2. read(after) = "unscorable"
      BY <2>1, <2>2, <3>1, <1>4 DEF PieceReading, EdgeReading
    <3> QED BY <3>2, <1>6
  <2>3. CASE M # {}
    <3>1. PICK i \in DOMAIN word.pieces : M = {i} /\ i # j
      BY <2>3, <1>5, <1>9
    <3>3. after.pieces[i] = word.pieces[i]
      BY <3>1, <1>2
    <3>4. CASE o.locus = "piece"
      <4>1. read(after) = "retain" /\ read(word) = "retain"
        BY <3>4, <2>1, <2>3 DEF PieceReading
      <4> QED BY <4>1, <1>6, <1>7
    <3>5. CASE o.locus # "piece"
      <4>1. EdgeReading(o, after, M, unknown(after)) = EdgeReading(o, word, M, unknown(word))
        <5>1. word.segments = after.segments
          BY <1>1
        <5> HIDE DEF M, unknown, after
        <5>2. EdgeOf(o, after, i) = EdgeOf(o, word, i)
          BY <3>3, <5>1 DEF EdgeOf
        <5> QED BY <3>1, <5>2, OnePiece
      <4>2. read(after) = read(word)
        BY <4>1, <3>5, <2>1
      <4> QED BY <4>2, <1>6, <1>7
    <3> QED BY <3>4, <3>5
  <2> QED BY <2>2, <2>3
<1> QED BY <1>8, <1>9

\* Whatever is cut from the candidates of a concept.
LEMMA CandidatesCut ==
  ASSUME NEW T, NEW U, NotScored \notin U,
         NEW candidates \in Seq(AnalysedWords(T, U)),
         candidates # <<>> => UnitsOnce(candidates[1], U),
         NEW o, o.unit \in U, NEW cut \in Cuts(candidates)
  PROVE  Reading(o, cut) \in {Reading(o, candidates), "missing", "unscorable"}
<1> DEFINE word == candidates[1]
<1>1. candidates # <<>> /\ word \in AnalysedWords(T, U)
  <2>1. candidates # <<>>
    BY DEF Cuts
  <2>2. 1 \in DOMAIN candidates
    BY <2>1
  <2> QED BY <2>1, <2>2
<1>2. Reading(o, <<word>>) = Reading(o, candidates)
  BY <1>1 DEF Reading
<1>3. CASE cut = <<>>
  BY <1>3 DEF Reading
<1>4. CASE cut = <<[word EXCEPT !.pieces = NotScored]>>
  <2>1. cut # <<>> /\ cut[1].pieces = NotScored
    BY <1>1, <1>4 DEF AnalysedWords
  <2> QED BY <2>1 DEF Reading
<1>5. ASSUME word.pieces # NotScored, NEW j \in DOMAIN word.pieces,
             cut = <<[word EXCEPT !.pieces[j] =
                       [@ EXCEPT !.unit = NotScored, !.kind = "unknown"]]>>
      PROVE  Reading(o, cut) \in {Reading(o, candidates), "unscorable"}
  <2> DEFINE after == [word EXCEPT !.pieces[j] =
                         [@ EXCEPT !.unit = NotScored, !.kind = "unknown"]]
  <2>1. UnitsOnce(word, U)
    BY <1>1
  <2>2. Reading(o, <<after>>) \in {Reading(o, <<word>>), "unscorable"}
    <3> HIDE DEF word
    <3> QED BY <1>1, <1>5, <2>1, PieceCut
  <2> HIDE DEF after, word
  <2> QED BY <1>2, <1>5, <2>2 DEF after
<1> QED BY <1>1, <1>3, <1>4, <1>5 DEF Cuts

-----------------------------------------------------------------------------
\* What is counted of a row.
LEMMA RowIs ==
  ASSUME NEW o, NEW session
  PROVE  LET row == Row(o, session)
         IN  /\ row.correct = (~o.tied /\ Reading(o, session.output[o.concept]) = o.expected)
             /\ row.counted = (session.committed /\ ~session.fallback)
BY DEF Row

\* A row of the session that lost something is right or the model's only if it was.
LEMMA RowsCut ==
  ASSUME NEW K, NEW T, NEW U, NEW C, NEW D, NotScored \notin U,
         NEW session \in LeftWith(K, T, U, C, D),
         \A k \in K : session.output[k] # <<>> => UnitsOnce(session.output[k][1], U),
         NEW case, Planned(case, K, T, U),
         NEW s \in Deletions(session), NEW i \in DOMAIN case.opportunities
  PROVE  /\ Rows(case, s)[i].correct => Rows(case, session)[i].correct
         /\ Rows(case, s)[i].counted => Rows(case, session)[i].counted
<1> DEFINE o == case.opportunities[i]
<1>1. /\ o.concept \in K /\ o.unit \in U
      /\ o.expected \notin {"missing", "unscorable"}
  <2>1. o \in [concept : K, unit : U, locus : STRING, token : T, absent : T,
               expected : STRING \ {"missing", "unscorable"}, tied : BOOLEAN]
    BY MemberOf DEF Planned
  <2> QED BY <2>1
<1>2. /\ DOMAIN session.output = K
      /\ \A k \in K : session.output[k] \in Seq(AnalysedWords(T, U))
  BY DEF LeftWith
<1>3. \/ s = [session EXCEPT !.committed = FALSE]
      \/ \E k \in K : \E cut \in Cuts(session.output[k]) : s = Without(session, k, cut)
  BY <1>2 DEF Deletions, Cuts
<1>4. /\ Rows(case, s)[i] = Row(o, s)
      /\ Rows(case, session)[i] = Row(o, session)
  BY DEF Rows
<1>5. CASE s = [session EXCEPT !.committed = FALSE]
  <2>1. s.output = session.output /\ s.committed = FALSE
    BY <1>5 DEF LeftWith
  <2> HIDE DEF o
  <2> QED BY <2>1, <1>4, RowIs
<1>6. ASSUME NEW k \in K, NEW cut \in Cuts(session.output[k]), s = Without(session, k, cut)
      PROVE  /\ Rows(case, s)[i].correct => Rows(case, session)[i].correct
             /\ Rows(case, s)[i].counted => Rows(case, session)[i].counted
  <2>1. /\ s.committed = session.committed /\ s.fallback = session.fallback
        /\ s.output[o.concept] = IF k = o.concept THEN cut ELSE session.output[o.concept]
    BY <1>1, <1>2, <1>6 DEF LeftWith, Without
  <2>2. Reading(o, s.output[o.concept])
          \in {Reading(o, session.output[o.concept]), "missing", "unscorable"}
    <3>1. CASE k = o.concept
      <4> HIDE DEF o
      <4> QED BY <1>1, <1>2, <1>6, <2>1, <3>1, CandidatesCut
    <3>2. CASE k # o.concept
      BY <2>1, <3>2
    <3> QED BY <3>1, <3>2
  <2> HIDE DEF o
  <2> QED BY <2>1, <2>2, <1>1, <1>4, RowIs
<1> QED BY <1>3, <1>5, <1>6

\* What is right after a deletion was right before it.
LEMMA FewerRight ==
  ASSUME NEW K, NEW T, NEW U, NEW C, NEW D, NotScored \notin U,
         NEW session \in LeftWith(K, T, U, C, D),
         \A k \in K : session.output[k] # <<>> => UnitsOnce(session.output[k][1], U),
         NEW case, Planned(case, K, T, U), NEW s \in Deletions(session)
  PROVE  LET was == Rows(case, session)
             is == Rows(case, s)
         IN  /\ ModelCorrect(case, is) \subseteq ModelCorrect(case, was)
             /\ {i \in Primary(case) : is[i].correct} \subseteq {i \in Primary(case) : was[i].correct}
             /\ IsFiniteSet(Primary(case)) /\ IsFiniteSet(ModelCorrect(case, was))
<1>1. \A i \in DOMAIN case.opportunities :
        /\ Rows(case, s)[i].correct => Rows(case, session)[i].correct
        /\ Rows(case, s)[i].counted => Rows(case, session)[i].counted
  BY RowsCut
<1>2. Primary(case) \subseteq DOMAIN case.opportunities
  BY DEF Primary
<1>3. IsFiniteSet(Primary(case))
  <2>1. DOMAIN case.opportunities = 1..Len(case.opportunities) /\ Len(case.opportunities) \in Nat
    BY DEF Planned
  <2>2. IsFiniteSet(DOMAIN case.opportunities)
    BY <2>1, FS_Interval
  <2> QED BY <2>2, <1>2, FS_Subset
<1>4. ModelCorrect(case, Rows(case, session)) \subseteq Primary(case)
  BY DEF ModelCorrect
<1>5. IsFiniteSet(ModelCorrect(case, Rows(case, session)))
  BY <1>3, <1>4, FS_Subset
<1> QED BY <1>1, <1>2, <1>3, <1>5 DEF ModelCorrect

\* decisions.py, line 19: "deleting output or analysis cannot raise the primary
\* rate".  Nor does it raise the count of what the model itself got right, or
\* earn the best label (judgment.py, score_judgment), for every case and every
\* session in whose words no unit stands twice.
THEOREM DeletionsNeverHelp ==
  ASSUME NEW K, NEW T, NEW U, NEW C, NEW D, NotScored \notin U,
         NEW session \in LeftWith(K, T, U, C, D),
         \A k \in K : session.output[k] # <<>> => UnitsOnce(session.output[k][1], U),
         NEW case, Planned(case, K, T, U)
  PROVE  DeletionNeverHelps(case, session)
<1> SUFFICES ASSUME NEW s \in Deletions(session)
             PROVE  LET before == ScoreDecisions(case, session)
                        after == ScoreDecisions(case, s)
                    IN /\ after.planned = before.planned
                       /\ after.correct <= before.correct
                       /\ after.modelCorrect <= before.modelCorrect
                       /\ ValueLabel(case, s) = "criterion-sensitive"
                            => ValueLabel(case, session) \in {"criterion-sensitive", "uniform"}
  BY DEF DeletionNeverHelps
<1> DEFINE was == Rows(case, session)
           is == Rows(case, s)
           right(rows) == {i \in Primary(case) : rows[i].correct}
<1>1. /\ ModelCorrect(case, is) \subseteq ModelCorrect(case, was)
      /\ right(is) \subseteq right(was)
      /\ IsFiniteSet(Primary(case)) /\ IsFiniteSet(ModelCorrect(case, was))
  BY FewerRight
<1>2. Cardinality(right(is)) <= Cardinality(right(was))
  <2>1. IsFiniteSet(right(was))
    BY <1>1, FS_Subset, right(was) \subseteq Primary(case)
  <2> QED BY <2>1, <1>1, FS_Subset
<1>3. /\ Cardinality(ModelCorrect(case, is)) <= Cardinality(ModelCorrect(case, was))
      /\ Cardinality(ModelCorrect(case, is)) \in Nat
      /\ Cardinality(ModelCorrect(case, was)) \in Nat
  BY <1>1, FS_Subset, FS_CardinalityType
<1>4. /\ ModelPairs(case, is) <= ModelPairs(case, was)
      /\ ModelPairs(case, is) \in Nat /\ ModelPairs(case, was) \in Nat
  <2> DEFINE P(rows) == {p \in case.pairs : p \subseteq ModelCorrect(case, rows)}
  <2>1. P(is) \subseteq P(was) /\ IsFiniteSet(P(was))
    <3>1. P(was) \subseteq case.pairs
      OBVIOUS
    <3>2. IsFiniteSet(P(was))
      BY <3>1, FS_Subset DEF Planned
    <3> QED BY <1>1, <3>2
  <2>2. Cardinality(P(is)) <= Cardinality(P(was)) /\ Cardinality(P(is)) \in Nat
        /\ Cardinality(P(was)) \in Nat
    BY <2>1, FS_Subset, FS_CardinalityType
  <2> QED BY <2>2 DEF ModelPairs
<1>5. \A r \in DOMAIN case.errors :
        /\ Cardinality(Defeats(case, is, r)) <= Cardinality(Defeats(case, was, r))
        /\ Cardinality(Defeats(case, is, r)) \in Nat /\ Cardinality(Defeats(case, was, r)) \in Nat
        /\ Cardinality(case.errors[r]) \in Nat
  <2> SUFFICES ASSUME NEW r \in DOMAIN case.errors
               PROVE  /\ Cardinality(Defeats(case, is, r)) <= Cardinality(Defeats(case, was, r))
                      /\ Cardinality(Defeats(case, is, r)) \in Nat
                      /\ Cardinality(Defeats(case, was, r)) \in Nat
                      /\ Cardinality(case.errors[r]) \in Nat
    OBVIOUS
  <2>1. /\ Defeats(case, is, r) \subseteq Defeats(case, was, r)
        /\ Defeats(case, was, r) \subseteq ModelCorrect(case, was)
    BY <1>1 DEF Defeats
  <2>2. IsFiniteSet(Defeats(case, was, r)) /\ IsFiniteSet(case.errors[r])
    BY <2>1, <1>1, FS_Subset DEF Planned
  <2> QED BY <2>1, <2>2, FS_Subset, FS_CardinalityType
<1>6. ASSUME ValueLabel(case, s) = "criterion-sensitive"
      PROVE  ValueLabel(case, session) \in {"criterion-sensitive", "uniform"}
  <2> DEFINE below(rows) == Cardinality(Defeats(case, rows, "witness")) <= SurveyLabelCeiling
             many(rows) == /\ Cardinality(ModelCorrect(case, rows)) >= CriterionPrimary
                           /\ Cardinality(Defeats(case, rows, "witness")) >= WitnessRuleFloor
                           /\ \A r \in DOMAIN case.errors \ {"witness"} :
                                Cardinality(Defeats(case, rows, r)) + 1 >= Cardinality(case.errors[r])
                           /\ ModelPairs(case, rows) >= PairsFloor
             silent(rows) == \A i \in DOMAIN rows : ~rows[i].counted
             level(rows) == IF silent(rows) THEN "no commit"
                            ELSE IF UniformReading(case, rows) \in {"retain", "absent"} THEN "uniform"
                            ELSE IF case.errors["witness"] # {} /\ below(rows) THEN "witness-rule level"
                            ELSE IF many(rows) THEN "criterion-sensitive"
                            ELSE IF \/ Cardinality(ModelCorrect(case, rows)) <= BaselinePrimary
                                    \/ ModelPairs(case, rows) <= BaselinePairs
                            THEN "baseline-level" ELSE "mixed"
  <2>0. "witness" \in DOMAIN case.errors
    BY DEF Planned
  <2>1. ValueLabel(case, s) = level(is) /\ ValueLabel(case, session) = level(was)
    BY <2>0 DEF ValueLabel
  <2>2. silent(was) => silent(is)
    <3>1. \A i \in DOMAIN case.opportunities : is[i].counted => was[i].counted
      BY RowsCut
    <3>2. DOMAIN is = DOMAIN case.opportunities /\ DOMAIN was = DOMAIN case.opportunities
      BY DEF Rows
    <3> QED BY <3>1, <3>2
  <2>3. below(was) => below(is)
    <3> HIDE DEF was, is
    <3> QED BY <1>5, <2>0, JudgmentAssumption
  <2>4. many(is) => many(was)
    <3> HIDE DEF was, is
    <3> QED BY <1>3, <1>4, <1>5, <2>0, JudgmentAssumption, SMTT(60)
  <2> HIDE DEF silent, below, many, was, is
  <2> QED BY <1>6, <2>1, <2>2, <2>3, <2>4
<1> QED
  <2>1. /\ ScoreDecisions(case, s).planned = ScoreDecisions(case, session).planned
        /\ ScoreDecisions(case, s).correct = Cardinality(right(is))
        /\ ScoreDecisions(case, session).correct = Cardinality(right(was))
        /\ ScoreDecisions(case, s).modelCorrect = Cardinality(ModelCorrect(case, is))
        /\ ScoreDecisions(case, session).modelCorrect = Cardinality(ModelCorrect(case, was))
    BY DEF ScoreDecisions
  <2> HIDE DEF was, is
  <2> QED BY <2>1, <1>2, <1>3, <1>6
=============================================================================
