---------------------------- MODULE BatchProofs ----------------------------
(***************************************************************************)
(* Proofs about the launcher and the ledger, for every plan, every ceiling *)
(* and any number of faults.  The first is about run directories alone.    *)
(* The second needs the accounts of every trial (TrialInv), what an arm    *)
(* has left while one of its trials holds a reservation (CostInv, WallInv),*)
(* and the sums of SumProofs to go from one trial to its arm.              *)
(***************************************************************************)
EXTENDS Batch, SumProofs

-----------------------------------------------------------------------------
(* No trial is run twice.                                                  *)

\* A trial whose directory is unused has not been started, and the one about
\* to be is such a trial.
StartInv ==
  /\ DOMAIN dir = Trials /\ DOMAIN starts = Trials
  /\ \A t \in Trials : starts[t] \in {0, 1}
  /\ \A t \in Trials : dir[t] # "used" => starts[t] = 0
  /\ pc = "launched" => dir[cur] # "used"

LEMMA StartStep == StartInv /\ [Next]_vars => StartInv'
<1> SUFFICES ASSUME StartInv, [Next]_vars PROVE StartInv'
  OBVIOUS
<1> USE DEF StartInv, disk, run
<1>1. CASE Launch
  BY <1>1 DEF Launch, Refused, NotEmpty
<1>2. CASE Spawn
  BY <1>2 DEF Spawn
<1>3. CASE UNCHANGED vars
  BY <1>3 DEF vars
<1>4. CASE Start \/ Refuse \/ Finish \/ Evaluate
  BY <1>4 DEF Start, Refuse, Finish, Evaluate, Advance
<1>5. CASE OpenJournal \/ Send \/ Answer \/ WriteResult \/ WriteSummary \/ Mark
  BY <1>5 DEF OpenJournal, Send, Answer, WriteResult, WriteSummary, Mark, Working
<1>6. CASE Exit \/ Interrupt \/ Crash \/ Damage
  BY <1>6 DEF Exit, Interrupt, Crash, Damage
<1> QED BY <1>1, <1>2, <1>3, <1>4, <1>5, <1>6 DEF Next

\* A trial that has been started is never started again, by this launcher or a
\* later one (tools/experiment_batch.py, "never re-run a trial").
THEOREM NeverRunTwice == Spec => []OneRunPerTrial
<1>1. Init => StartInv
  BY DEF Init, StartInv
<1>2. StartInv => OneRunPerTrial
  BY DEF StartInv, OneRunPerTrial
<1> QED BY <1>1, <1>2, StartStep, PTL DEF Spec

-----------------------------------------------------------------------------
(* The ledger never understates what an arm spent, and so the ceilings     *)
(* bound it.                                                               *)

Shape ==
  /\ DOMAIN dir = Trials /\ DOMAIN journal = Trials
  /\ DOMAIN summary = Trials /\ DOMAIN marked = Trials
  /\ paid \in [Trials -> Nat] /\ unpriced \in [Trials -> Nat]
  /\ pending \in [Trials -> BOOLEAN]
  /\ spent \in [Trials -> Nat] /\ took \in [Trials -> Nat]
  /\ timed \in [Trials -> [event : {"none", "finished", "launcher_interrupted"},
                           wall : Nat]]

\* Nothing was run in an unused directory.
Fresh(t) ==
  /\ journal[t] = "none" /\ summary[t] = "none"
  /\ paid[t] = 0 /\ unpriced[t] = 0 /\ pending[t] = FALSE
  /\ spent[t] = 0 /\ took[t] = 0 /\ timed[t] = Untimed

InHand(t) == t = cur /\ pc \in {"launched", "running", "ended"}

\* A journal without a gap holds what the trial cost.  Only the trial in hand
\* has an account that moves: it asks below its cap, one request at a time.
TrialInv(t) ==
  /\ dir[t] # "used" => Fresh(t)
  /\ unpriced[t] = 0 /\ ~pending[t] => spent[t] = paid[t]
  /\ t = cur /\ pc = "launched" => dir[t] # "used"
  /\ t = cur /\ pc \in {"running", "ended"} => dir[t] = "used"
  /\ t = cur /\ pc = "running" =>
       /\ took[t] = 0
       /\ unpriced[t] = 0 => spent[t] = paid[t]
       /\ IF pending[t] THEN paid[t] < RunCap /\ unpriced[t] = 0
          ELSE spent[t] <= RunCap + MaxResponse
  /\ InHand(t) => timed[t] = Untimed
  /\ timed[t].event = "finished" => timed[t].wall = took[t]

\* While a trial of the arm is in hand its reservation is held.
Holding(t) == t = cur /\ pc \in {"launched", "running"}

CostInv(a) ==
  Ceiling[a].cost # None /\ (\A t \in InArm(a) : Reserved(t)) =>
    /\ SumOf(spent, InArm(a)) <= Ceiling[a].cost
    /\ \A t \in InArm(a) : Holding(t) =>
         SumOf(spent, InArm(a)) + RunCap + MaxResponse <= Ceiling[a].cost + spent[t]

WallInv(a) ==
  Ceiling[a].wall # None =>
    /\ SumOf(took, InArm(a)) <= Ceiling[a].wall
    /\ \A t \in InArm(a) : Holding(t) =>
         /\ Trial[t].reserve.wall # None
         /\ SumOf(took, InArm(a)) + Trial[t].reserve.wall <= Ceiling[a].wall

LedgerInv ==
  /\ Shape /\ \A t \in Trials : TrialInv(t)
  /\ \A a \in Arms : CostInv(a) /\ WallInv(a)

LEMMA PlanTypes ==
  /\ RunCap \in Nat /\ MaxResponse \in Nat /\ Trials \subseteq Nat
  /\ \A a \in Arms : Ceiling[a].cost \in Amount /\ Ceiling[a].wall \in Amount
  /\ \A t \in Trials : /\ Trial[t].arm \in Arms
                       /\ Trial[t].reserve.cost \in Amount /\ Trial[t].reserve.wall \in Amount
  /\ \A a \in Arms : InArm(a) \subseteq Trials /\ IsFiniteSet(InArm(a))
<1>1. Len(Trial) \in Nat
  BY BatchAssumption DEF BatchAssumption
<1>2. IsFiniteSet(Trials)
  BY <1>1, FS_Interval DEF Trials
<1>3. \A a \in Arms : InArm(a) \subseteq Trials /\ IsFiniteSet(InArm(a))
  BY <1>2, FS_Subset DEF InArm
<1>4. \A t \in Trials : Trial[t].arm \in Arms /\ Trial[t].reserve \in Limits
  <2> DEFINE R == [arm : Arms, reserve : Limits, evaluated : BOOLEAN, needs : Nat \cup {None}]
  <2>1. Trial \in Seq(R)
    BY BatchAssumption DEF BatchAssumption
  <2>2. \A r \in R : r.arm \in Arms /\ r.reserve \in Limits
    OBVIOUS
  <2> HIDE DEF R
  <2>3. \A t \in 1..Len(Trial) : Trial[t] \in R
    BY <2>1
  <2> QED BY <2>2, <2>3 DEF Trials
<1>5. /\ RunCap \in Nat /\ MaxResponse \in Nat /\ Trials \subseteq Nat
      /\ \A a \in Arms : Ceiling[a].cost \in Amount /\ Ceiling[a].wall \in Amount
  BY BatchAssumption DEF BatchAssumption, Limits, Trials
<1> QED BY <1>3, <1>4, <1>5 DEF Limits

LEMMA LedgerInit == Init => LedgerInv
<1> SUFFICES ASSUME Init PROVE LedgerInv
  OBVIOUS
<1>1. Shape
  BY DEF Init, Shape, Untimed
<1>2. \A t \in Trials : TrialInv(t)
  BY DEF Init, TrialInv, Fresh, InHand, Untimed
<1>3. ASSUME NEW a \in Arms PROVE CostInv(a) /\ WallInv(a)
  <2>1. IsFiniteSet(InArm(a)) /\ (\A t \in InArm(a) : spent[t] = 0)
        /\ (\A t \in InArm(a) : took[t] = 0)
    BY PlanTypes DEF Init
  <2>2. SumOf(spent, InArm(a)) = 0
    BY <2>1, SumZero DEF SumOf
  <2>3. SumOf(took, InArm(a)) = 0
    BY <2>1, SumZero DEF SumOf
  <2>4. \A t \in Trials : ~Holding(t)
    BY DEF Init, Holding
  <2>5. Ceiling[a].cost # None => Ceiling[a].cost >= 0
    BY PlanTypes DEF Amount
  <2>6. Ceiling[a].wall # None => Ceiling[a].wall >= 0
    BY PlanTypes DEF Amount
  <2>7. InArm(a) \subseteq Trials
    BY PlanTypes
  <2> QED BY <2>2, <2>3, <2>4, <2>5, <2>6, <2>7 DEF CostInv, WallInv
<1> QED BY <1>1, <1>2, <1>3 DEF LedgerInv

\* Every step leaves the accounts of the other trials alone.
Account(t) ==
  <<dir[t], journal[t], paid[t], unpriced[t], pending[t], summary[t], marked[t], timed[t],
    spent[t], took[t]>>

LEMMA ShapeStep == Shape /\ [Next]_vars => Shape'
<1> SUFFICES ASSUME Shape, [Next]_vars PROVE Shape'
  OBVIOUS
<1> USE DEF Shape, disk, run
<1>1. CASE Start \/ Refuse \/ Launch \/ Spawn \/ Evaluate \/ UNCHANGED vars
  BY <1>1 DEF Start, Refuse, Launch, Spawn, Evaluate, Advance, vars
<1>2. CASE OpenJournal \/ Send \/ WriteResult \/ WriteSummary \/ Mark \/ Damage
  BY <1>2 DEF OpenJournal, Send, WriteResult, WriteSummary, Mark, Damage
<1>3. CASE Answer
  <2>1. PICK c \in 1..MaxResponse :
          /\ spent' = [spent EXCEPT ![cur] = @ + c]
          /\ \/ paid' = [paid EXCEPT ![cur] = @ + c] /\ unpriced' = unpriced
             \/ unpriced' = [unpriced EXCEPT ![cur] = @ + 1] /\ paid' = paid
    BY <1>3 DEF Answer
  <2>2. c \in Nat
    BY PlanTypes
  <2>3. /\ spent' \in [Trials -> Nat] /\ paid' \in [Trials -> Nat]
        /\ unpriced' \in [Trials -> Nat]
    <3>1. spent' \in [Trials -> Nat]
      <4>1. spent' = [spent EXCEPT ![cur] = spent[cur] + c]
        BY <2>1
      <4>2. cur \in Trials => spent[cur] + c \in Nat
        BY <2>2
      <4> QED BY <4>1, <4>2
    <3>2. paid' \in [Trials -> Nat]
      BY <2>1, <2>2
    <3>3. unpriced' \in [Trials -> Nat]
      BY <2>1
    <3> QED BY <3>1, <3>2, <3>3
  <2>4. /\ pending' = [pending EXCEPT ![cur] = FALSE]
        /\ UNCHANGED <<dir, journal, summary, marked, timed, took>>
    BY <1>3 DEF Answer
  <2> QED BY <2>3, <2>4
<1>4. \A t \in Trials : Durations(t) \subseteq Nat
  BY PlanTypes DEF Durations, Amount
<1>5. ASSUME NEW d \in Durations(cur), took' = [took EXCEPT ![cur] = d]
      PROVE  took' \in [Trials -> Nat]
  BY <1>4, <1>5
<1>6. ASSUME NEW e \in {"finished", "launcher_interrupted"}, NEW d \in Durations(cur),
             Record(e, d)
      PROVE  timed' \in [Trials -> [event : {"none", "finished", "launcher_interrupted"},
                                    wall : Nat]]
  BY <1>4, <1>6 DEF Record
<1>7. ASSUME Bill PROVE spent' \in [Trials -> Nat]
  BY <1>7, PlanTypes DEF Bill
<1>8. CASE Finish
  <2>1. CASE cur \in Trials
    BY <1>8, <2>1 DEF Finish, Record
  <2>2. CASE cur \notin Trials
    BY <1>8, <2>2 DEF Finish, Record
  <2> QED BY <2>1, <2>2
<1>9. CASE Exit \/ Interrupt \/ Crash
  BY <1>5, <1>6, <1>7, <1>9 DEF Exit, Interrupt, Crash
<1> QED BY <1>1, <1>2, <1>3, <1>8, <1>9 DEF Next

\* Between trials, or before the subprocess starts.
LEMMA TrialLauncher ==
  ASSUME Shape, NEW t \in Trials, TrialInv(t),
         Start \/ Refuse \/ Launch \/ Spawn \/ Finish \/ Evaluate
  PROVE  TrialInv(t)'
<1> USE DEF disk, run
<1>1. CASE Start \/ Refuse \/ Evaluate
  <2>1. Account(t)' = Account(t) /\ pc' \in {"decide", "off"}
    BY <1>1 DEF Start, Refuse, Evaluate, Advance, Account
  <2> QED BY <2>1 DEF TrialInv, Fresh, InHand, Account
<1>2. CASE Launch
  <2>1. /\ UNCHANGED <<run, gate, timed, cur, faults, starts, spent, took>> /\ pc' = "launched"
        /\ dir' = [dir EXCEPT ![cur] = IF @ = "absent" THEN "empty" ELSE @]
        /\ dir[cur] # "used"
    BY <1>2 DEF Launch, Refused, NotEmpty
  <2>2. CASE t = cur
    BY <2>1, <2>2 DEF Shape, TrialInv, Fresh, InHand
  <2>3. CASE t # cur
    BY <2>1, <2>3 DEF Shape, TrialInv, Fresh, InHand
  <2> QED BY <2>2, <2>3
<1>3. CASE Spawn
  <2>1. /\ UNCHANGED <<run, gate, timed, cur, faults, spent, took>> /\ pc' = "running"
        /\ dir' = [dir EXCEPT ![cur] = "used"] /\ pc = "launched"
    BY <1>3 DEF Spawn
  <2>2. CASE t = cur
    <3>1. Fresh(t) /\ dir'[t] = "used"
      BY <2>1, <2>2 DEF Shape, TrialInv
    <3> QED BY <2>1, <3>1, PlanTypes DEF TrialInv, Fresh, InHand
  <2>3. CASE t # cur
    BY <2>1, <2>3 DEF Shape, TrialInv, Fresh, InHand
  <2> QED BY <2>2, <2>3
<1>4. CASE Finish
  <2>1. /\ UNCHANGED <<dir, run, gate, cur, faults, starts, spent, took>> /\ pc' = "evaluate"
        /\ pc = "ended"
        /\ timed' = IF timed[cur] = Untimed
                    THEN [timed EXCEPT ![cur] = [event |-> "finished", wall |-> took[cur]]]
                    ELSE timed
    BY <1>4 DEF Finish, Record
  <2>2. CASE t = cur
    <3>1. timed'[t].event = "finished" => timed'[t].wall = took[t]
      BY <2>1, <2>2 DEF Shape, TrialInv, InHand
    <3>2. dir'[t] = "used"
      BY <2>1, <2>2 DEF TrialInv
    <3> QED BY <2>1, <2>2, <3>1, <3>2 DEF TrialInv, InHand
  <2>3. CASE t # cur
    BY <2>1, <2>3 DEF Shape, TrialInv, Fresh, InHand
  <2> QED BY <2>2, <2>3
<1> QED BY <1>1, <1>2, <1>3, <1>4

\* The subprocess at work.
LEMMA TrialRun ==
  ASSUME Shape, NEW t \in Trials, TrialInv(t),
         OpenJournal \/ Send \/ Answer \/ WriteResult \/ WriteSummary \/ Mark
  PROVE  TrialInv(t)'
<1>0. /\ pc = "running" /\ pc' = "running" /\ cur' = cur
      /\ UNCHANGED <<dir, timed, took>>
  BY DEF OpenJournal, Send, Answer, WriteResult, WriteSummary, Mark, Working
<1>1. CASE t # cur
  <2>1. Account(t)' = Account(t)
    BY <1>1 DEF Shape, Account, OpenJournal, Send, Answer, WriteResult, WriteSummary, Mark
  <2> QED BY <1>0, <1>1, <2>1 DEF TrialInv, Fresh, InHand, Account
<1>2. CASE t = cur /\ (OpenJournal \/ WriteResult \/ WriteSummary \/ Mark)
  <2>1. UNCHANGED <<paid, unpriced, pending, spent>>
    BY <1>2 DEF OpenJournal, WriteResult, WriteSummary, Mark
  <2>2. dir[t] = "used"
    BY <1>0, <1>2 DEF TrialInv
  <2> QED BY <1>0, <1>2, <2>1, <2>2 DEF TrialInv, InHand
<1>3. CASE t = cur /\ Send
  <2>1. /\ paid[t] < RunCap /\ unpriced[t] = 0 /\ pending'[t] = TRUE /\ dir[t] = "used"
        /\ UNCHANGED <<paid, unpriced, spent>>
    BY <1>0, <1>3 DEF Shape, TrialInv, Send
  <2> QED BY <1>0, <1>3, <2>1 DEF TrialInv, InHand
<1>4. CASE t = cur /\ Answer
  <2>1. /\ pending[t] /\ ~pending'[t] /\ dir[t] = "used" /\ unpriced[t] = 0
        /\ spent[t] = paid[t] /\ paid[t] < RunCap /\ paid[t] \in Nat
    BY <1>0, <1>4 DEF Shape, TrialInv, Answer
  <2>2. PICK c \in 1..MaxResponse :
          /\ spent' = [spent EXCEPT ![cur] = @ + c]
          /\ \/ paid' = [paid EXCEPT ![cur] = @ + c] /\ unpriced' = unpriced
             \/ unpriced' = [unpriced EXCEPT ![cur] = @ + 1] /\ paid' = paid
    BY <1>4 DEF Answer
  <2>3. /\ spent'[t] = spent[t] + c
        /\ paid'[t] = paid[t] + c \/ unpriced'[t] = 1
    BY <1>4, <2>1, <2>2 DEF Shape
  <2>4. c \in Nat /\ c <= MaxResponse /\ RunCap \in Nat /\ MaxResponse \in Nat
    BY PlanTypes
  <2>5. spent'[t] <= RunCap + MaxResponse /\ (unpriced'[t] = 0 => spent'[t] = paid'[t])
    BY <2>1, <2>3, <2>4
  <2> QED BY <1>0, <1>4, <2>1, <2>5 DEF TrialInv, InHand
<1> QED BY <1>1, <1>2, <1>3, <1>4

\* The subprocess ends, or everything does: a request in flight leaves the
\* journal with a gap.
LEMMA TrialStop ==
  ASSUME Shape, NEW t \in Trials, TrialInv(t), Exit \/ Interrupt \/ Crash
  PROVE  TrialInv(t)'
<1>1. /\ UNCHANGED <<dir, run>> /\ pc' \in {"ended", "off"}
      /\ pc' = "ended" => pc = "running" /\ cur' = cur /\ timed' = timed
  BY DEF Exit, Interrupt, Crash, disk
<1>2. CASE pc = "running" /\ t = cur
  <2>1. dir[t] = "used" /\ timed[t] = Untimed
    BY <1>2 DEF TrialInv, InHand
  <2>2. timed'[t].event # "finished" /\ (pc' = "ended" => timed'[t] = Untimed)
    BY <1>1, <1>2, <2>1 DEF Shape, Exit, Interrupt, Crash, Record, disk, Untimed
  <2>3. unpriced[t] = 0 /\ ~pending[t] => spent'[t] = paid[t]
    BY <1>2 DEF Shape, TrialInv, Exit, Interrupt, Crash, Bill
  <2> QED BY <1>1, <2>1, <2>2, <2>3 DEF TrialInv, InHand, run
<1>3. CASE pc = "running" /\ t # cur
  <2>1. timed'[t] = timed[t] /\ spent'[t] = spent[t] /\ took'[t] = took[t]
    BY <1>3 DEF Shape, Exit, Interrupt, Crash, Record, Bill, disk
  <2> QED BY <1>1, <1>3, <2>1 DEF TrialInv, Fresh, InHand, run
<1>4. CASE pc # "running"
  <2>1. UNCHANGED <<timed, spent, took>> /\ pc' = "off"
    BY <1>4 DEF Exit, Interrupt, Crash, disk
  <2> QED BY <1>1, <2>1 DEF TrialInv, Fresh, InHand, run
<1> QED BY <1>2, <1>3, <1>4

LEMMA TrialStep ==
  ASSUME Shape, NEW t \in Trials, TrialInv(t), [Next]_vars
  PROVE  TrialInv(t)'
<1>1. CASE Damage
  <2>1. /\ UNCHANGED <<dir, paid, unpriced, pending, summary, marked, timed, pc, cur, spent, took>>
        /\ journal'[t] = "none" <=> journal[t] = "none"
    BY <1>1 DEF Damage, Shape
  <2> QED BY <2>1 DEF TrialInv, Fresh, InHand
<1>2. CASE UNCHANGED vars
  BY <1>2 DEF vars, disk, run, TrialInv, Fresh, InHand
<1> QED BY <1>1, <1>2, TrialLauncher, TrialRun, TrialStop DEF Next

-----------------------------------------------------------------------------
(* An arm is the sum of its trials *)

\* Where the numbers of one trial change, the sum of its arm does.
LEMMA ArmChange ==
  ASSUME NEW a \in Arms, NEW f \in [Trials -> Nat], NEW g \in [Trials -> Nat], NEW x,
         \A t \in Trials : t # x => g[t] = f[t]
  PROVE  /\ SumOf(f, InArm(a)) \in Nat /\ SumOf(g, InArm(a)) \in Nat
         /\ x \in InArm(a) =>
              SumOf(g, InArm(a)) + f[x] = SumOf(f, InArm(a)) + g[x]
         /\ x \notin InArm(a) => SumOf(g, InArm(a)) = SumOf(f, InArm(a))
<1>1. /\ IsFiniteSet(InArm(a))
      /\ \A t \in InArm(a) : t \in Trials /\ f[t] \in Nat /\ g[t] \in Nat
      /\ \A t \in InArm(a) : t # x => g[t] = f[t]
  BY PlanTypes
<1>2. SumOf(f, InArm(a)) \in Nat /\ SumOf(g, InArm(a)) \in Nat
  BY <1>1, SumType DEF SumOf
<1>3. ASSUME x \in InArm(a)
      PROVE  SumOf(g, InArm(a)) + f[x] = SumOf(f, InArm(a)) + g[x]
  <2>1. \A t \in InArm(a) : f[t] \in Nat /\ g[t] \in Nat /\ (t # x => g[t] = f[t])
    BY <1>1
  <2> QED BY <1>1, <1>3, <2>1, SumChange DEF SumOf
<1>4. ASSUME x \notin InArm(a)
      PROVE  SumOf(g, InArm(a)) = SumOf(f, InArm(a))
  <2>1. \A t \in InArm(a) : g[t] \in Nat /\ g[t] = f[t]
    BY <1>1, <1>4
  <2> QED BY <1>1, <2>1, SumEqual DEF SumOf
<1> QED BY <1>2, <1>3, <1>4

\* What the run directory of one trial says of its cost.
LEMMA TrialCost ==
  ASSUME Shape, NEW t \in Trials, TrialInv(t)
  PROVE  /\ KnownCost(t) \in Nat
         /\ CostKnown(t) => KnownCost(t) >= spent[t]
         /\ CostKnown(t) /\ (summary[t] # "none" => marked[t]) => KnownCost(t) = spent[t]
<1>1. paid[t] \in Nat /\ unpriced[t] \in Nat /\ pending[t] \in BOOLEAN /\ spent[t] \in Nat
  BY DEF Shape
<1>2. KnownCost(t) \in Nat
  BY <1>1 DEF KnownCost
<1>3. ASSUME CostKnown(t)
      PROVE  /\ KnownCost(t) >= spent[t]
             /\ (summary[t] # "none" => marked[t]) => KnownCost(t) = spent[t]
  <2>1. unpriced[t] = 0 /\ ~pending[t]
    BY <1>1, <1>3 DEF CostKnown, UnknownCost
  <2>2. spent[t] = paid[t]
    BY <2>1 DEF TrialInv
  <2>3. CASE dir[t] # "used"
    BY <2>3 DEF TrialInv, Fresh, KnownCost
  <2>4. CASE dir[t] = "used"
    <3>1. journal[t] # "none"
      BY <1>3, <2>4 DEF CostKnown, HistoryCertified, Present
    <3> QED BY <1>1, <2>2, <3>1 DEF KnownCost
  <2> QED BY <2>3, <2>4
<1> QED BY <1>2, <1>3

\* A known cost of an arm covers what all its trials cost.
LEMMA ArmCost ==
  ASSUME Shape, \A t \in Trials : TrialInv(t), NEW a \in Arms,
         ~ArmErrors(a), ArmCostKnown(a)
  PROVE  /\ ArmKnownCost(a) \in Nat
         /\ ArmKnownCost(a) >= SumOf(spent, InArm(a))
         /\ (\A t \in InArm(a) : summary[t] # "none" => marked[t]) =>
              ArmKnownCost(a) = SumOf(spent, InArm(a))
<1> DEFINE S == InArm(a)
           f == [t \in S |-> KnownCost(t)]
<1>1. Readable(a) = S
  BY DEF ArmErrors
<1>2. IsFiniteSet(S) /\ S \subseteq Trials
  BY PlanTypes
<1>3. \A t \in S : /\ f[t] \in Nat /\ spent[t] \in Nat /\ spent[t] <= f[t]
                   /\ (summary[t] # "none" => marked[t]) => f[t] = spent[t]
  <2> SUFFICES ASSUME NEW t \in S
               PROVE  /\ f[t] \in Nat /\ spent[t] \in Nat /\ spent[t] <= f[t]
                      /\ (summary[t] # "none" => marked[t]) => f[t] = spent[t]
    OBVIOUS
  <2>1. CostKnown(t) /\ t \in Trials /\ f[t] = KnownCost(t)
    BY <1>1, <1>2 DEF ArmCostKnown
  <2>2. spent[t] \in Nat
    BY <2>1 DEF Shape
  <2>3. /\ KnownCost(t) \in Nat /\ KnownCost(t) >= spent[t]
        /\ (summary[t] # "none" => marked[t]) => KnownCost(t) = spent[t]
    BY <2>1, TrialCost
  <2> HIDE DEF f
  <2> QED BY <2>1, <2>2, <2>3
<1>4. ArmKnownCost(a) = SumFunctionOnSet(f, S)
  BY <1>1 DEF ArmKnownCost, SumFunction
<1> HIDE DEF f, S
<1>5. SumFunctionOnSet(f, S) \in Nat /\ SumFunctionOnSet(spent, S) \in Nat
  BY <1>2, <1>3, SumType
<1>6. SumFunctionOnSet(spent, S) <= SumFunctionOnSet(f, S)
  <2>1. \A t \in S : spent[t] \in Nat /\ f[t] \in Nat /\ spent[t] <= f[t]
    BY <1>3
  <2> QED BY <1>2, <2>1, SumMonotone
<1>7. (\A t \in S : summary[t] # "none" => marked[t]) =>
        SumFunctionOnSet(f, S) = SumFunctionOnSet(spent, S)
  BY <1>2, <1>3, SumEqual
<1> QED BY <1>4, <1>5, <1>6, <1>7 DEF SumOf, S

\* A known time of an arm is the time its trials ran.
LEMMA ArmTime ==
  ASSUME Shape, \A t \in Trials : TrialInv(t), NEW a \in Arms, ArmWallKnown(a)
  PROVE  ArmWall(a) = SumOf(took, InArm(a))
<1> DEFINE S == InArm(a)
           f == [t \in S |-> Wall(t)]
<1>1. IsFiniteSet(S) /\ S \subseteq Trials
  BY PlanTypes
<1>2. \A t \in S : f[t] \in Nat /\ f[t] = took[t]
  <2> SUFFICES ASSUME NEW t \in S PROVE f[t] \in Nat /\ f[t] = took[t]
    OBVIOUS
  <2>1. t \in Trials /\ WallKnown(t) /\ TrialInv(t) /\ took[t] \in Nat
    BY <1>1 DEF ArmWallKnown, Shape
  <2>2. Wall(t) = took[t]
    <3>1. CASE Present(t)
      BY <2>1, <3>1 DEF WallKnown, TrialInv, Wall
    <3>2. CASE ~Present(t)
      BY <2>1, <3>2 DEF Present, TrialInv, Fresh, Wall
    <3> QED BY <3>1, <3>2
  <2> QED BY <2>1, <2>2
<1>3. ArmWall(a) = SumFunctionOnSet(f, S)
  BY DEF ArmWall, SumFunction
<1> HIDE DEF f, S
<1>4. SumFunctionOnSet(f, S) = SumFunctionOnSet(took, S)
  BY <1>1, <1>2, SumEqual
<1> QED BY <1>3, <1>4 DEF SumOf, S

\* Only the trial in hand costs anything, and only while it runs.
LEMMA StepMoves ==
  ASSUME Shape, [Next]_vars
  PROVE  /\ \A t \in Trials : t # cur => spent'[t] = spent[t] /\ took'[t] = took[t]
         /\ pc # "running" => spent' = spent /\ took' = took
         /\ took' = took \/ \E d \in Durations(cur) :
                              took' = [took EXCEPT ![cur] = d] /\ pc' \notin {"launched", "running"}
         /\ ~Launch => \A t \in Trials : Holding(t)' => Holding(t)
<1> USE DEF Shape
<1>1. CASE spent' = spent /\ took' = took
  <2>1. ~Launch => \A t \in Trials : Holding(t)' => Holding(t)
    BY DEF Next, vars, Holding, Start, Refuse, Spawn, Finish, Evaluate, Advance, OpenJournal,
           Send, Answer, WriteResult, WriteSummary, Mark, Working, Exit, Interrupt, Crash, Damage
  <2> QED BY <1>1, <2>1
<1>2. CASE Answer
  <2>1. /\ \E c \in 1..MaxResponse : spent' = [spent EXCEPT ![cur] = @ + c]
        /\ took' = took /\ pc = "running" /\ pc' = pc /\ cur' = cur /\ ~Launch
    BY <1>2 DEF Answer, Working, Launch
  <2> QED BY <2>1 DEF Holding
<1>3. CASE Exit \/ Interrupt \/ Crash
  <2>1. /\ pc' \notin {"launched", "running"}
        /\ pc # "running" => spent' = spent /\ took' = took
        /\ pc = "running" => Bill /\ \E d \in Durations(cur) : took' = [took EXCEPT ![cur] = d]
    BY <1>3 DEF Exit, Interrupt, Crash
  <2>2. Bill => spent' = spent \/ \E c \in 0..MaxResponse : spent' = [spent EXCEPT ![cur] = @ + c]
    BY DEF Bill
  <2> QED BY <2>1, <2>2 DEF Holding
<1> QED BY <1>1, <1>2, <1>3 DEF Next, vars, Start, Refuse, Launch, Spawn, Finish, Evaluate,
           OpenJournal, Send, WriteResult, WriteSummary, Mark, Damage

\* A run that asks below its cap costs at most that and one response more.
LEMMA SpentBound ==
  ASSUME Shape, [Next]_vars, pc = "running", cur \in Trials, TrialInv(cur)
  PROVE  spent' = spent \/ spent'[cur] <= RunCap + MaxResponse
<1>1. /\ spent[cur] \in Nat /\ paid[cur] \in Nat /\ RunCap \in Nat /\ MaxResponse \in Nat
  BY PlanTypes DEF Shape
<1>2. ASSUME pending[cur], NEW c \in 0..MaxResponse, spent' = [spent EXCEPT ![cur] = @ + c]
      PROVE  spent'[cur] <= RunCap + MaxResponse
  <2>1. spent[cur] = paid[cur] /\ paid[cur] < RunCap
    BY <1>2 DEF TrialInv
  <2>2. spent'[cur] = spent[cur] + c
    BY <1>2 DEF Shape
  <2> QED BY <1>1, <2>1, <2>2
<1>3. CASE Answer
  <2>1. PICK c \in 1..MaxResponse : spent' = [spent EXCEPT ![cur] = @ + c]
    BY <1>3 DEF Answer
  <2>2. pending[cur]
    BY <1>3 DEF Answer
  <2>3. c \in 0..MaxResponse
    BY <1>1
  <2> QED BY <1>2, <2>1, <2>2, <2>3
<1>4. CASE Exit \/ Interrupt \/ Crash
  <2>1. Bill
    BY <1>4 DEF Exit, Interrupt, Crash
  <2> QED BY <1>2, <2>1 DEF Bill
<1> QED BY <1>3, <1>4 DEF Next, vars, Start, Refuse, Launch, Spawn, Finish, Evaluate,
           OpenJournal, Send, WriteResult, WriteSummary, Mark, Damage

LEMMA CostStep ==
  ASSUME LedgerInv, Shape', [Next]_vars, NEW a \in Arms
  PROVE  CostInv(a)'
<1> USE DEF LedgerInv
<1> SUFFICES ASSUME Ceiling[a].cost # None, \A t \in InArm(a) : Reserved(t)
             PROVE  /\ SumOf(spent', InArm(a)) <= Ceiling[a].cost
                    /\ \A t \in InArm(a) : Holding(t)' =>
                         SumOf(spent', InArm(a)) + RunCap + MaxResponse
                           <= Ceiling[a].cost + spent'[t]
  BY DEF CostInv, SumOf
<1> DEFINE C == Ceiling[a].cost
           old == SumOf(spent, InArm(a))
           new == SumOf(spent', InArm(a))
<1> SUFFICES /\ new <= C
             /\ \A t \in InArm(a) : Holding(t)' => new + RunCap + MaxResponse <= C + spent'[t]
  OBVIOUS
<1>1. /\ C \in Nat /\ RunCap \in Nat /\ MaxResponse \in Nat /\ InArm(a) \subseteq Trials
  BY PlanTypes DEF Amount
<1>2. /\ spent \in [Trials -> Nat] /\ spent' \in [Trials -> Nat]
      /\ \A t \in Trials : t # cur => spent'[t] = spent[t]
  BY StepMoves DEF Shape
<1>3. /\ old \in Nat /\ new \in Nat
      /\ cur \in InArm(a) => new + spent[cur] = old + spent'[cur]
      /\ cur \notin InArm(a) => new = old
  BY <1>2, ArmChange
<1>4. /\ old <= C
      /\ \A t \in InArm(a) : Holding(t) => old + RunCap + MaxResponse <= C + spent[t]
  BY DEF CostInv
<1>0. spent' = spent => new = old
  OBVIOUS
<1> HIDE DEF C, old, new
<1>5. CASE Launch
  <2>1. spent' = spent /\ \A t \in Trials : Holding(t)' => t = cur
    BY <1>5 DEF Launch, Holding
  <2>2. ASSUME cur \in InArm(a) PROVE old + RunCap + MaxResponse <= C
    <3>1. Trial[cur].arm = a /\ Reserved(cur) /\ cur \in Trials
      BY <1>1, <2>2 DEF InArm
    <3>2. ~ArmErrors(a) /\ ~CostRefused(cur)
      BY <1>5, <3>1 DEF Launch, Refused
    <3>3. /\ ArmCostKnown(a) /\ Trial[cur].reserve.cost # None
          /\ ~(ArmKnownCost(a) + Trial[cur].reserve.cost > C)
      BY <3>1, <3>2 DEF CostRefused, Exceeds, C
    <3>4. ArmKnownCost(a) \in Nat /\ ArmKnownCost(a) >= old
      BY <3>2, <3>3, ArmCost DEF old
    <3>5. Trial[cur].reserve.cost \in Nat /\ Trial[cur].reserve.cost >= RunCap + MaxResponse
      BY <3>1, <3>3, PlanTypes DEF Reserved, Amount
    <3> QED BY <1>1, <1>3, <3>3, <3>4, <3>5
  <2>3. \A t \in InArm(a) : spent[t] \in Nat
    BY <1>1, <1>2
  <2> QED BY <1>0, <1>1, <1>3, <1>4, <2>1, <2>2, <2>3
<1>6. CASE ~Launch /\ spent' = spent
  BY <1>0, <1>1, <1>4, <1>6, StepMoves
<1>7. CASE ~Launch /\ spent' # spent
  <2>1. pc = "running" /\ \A t \in Trials : Holding(t)' => Holding(t)
    BY <1>7, StepMoves
  <2>2. CASE cur \notin InArm(a)
    <3>1. \A t \in InArm(a) : t # cur /\ spent'[t] = spent[t]
      BY <1>1, <1>2, <2>2
    <3>2. new = old
      BY <1>3, <2>2
    <3> QED BY <1>1, <1>4, <2>1, <3>1, <3>2
  <2>3. CASE cur \in InArm(a)
    <3>1. cur \in Trials /\ Holding(cur) /\ spent[cur] \in Nat /\ spent'[cur] \in Nat
      BY <1>1, <1>2, <2>1, <2>3 DEF Holding
    <3>2. spent'[cur] <= RunCap + MaxResponse
      BY <1>7, <2>1, <3>1, SpentBound
    <3>3. old + RunCap + MaxResponse <= C + spent[cur] /\ new + spent[cur] = old + spent'[cur]
      BY <1>3, <1>4, <2>3, <3>1
    <3>4. new <= C /\ new + RunCap + MaxResponse <= C + spent'[cur]
      BY <1>1, <1>3, <3>1, <3>2, <3>3
    <3>5. \A t \in InArm(a) : Holding(t)' => t = cur
      BY <1>1, <2>1 DEF Holding
    <3> QED BY <3>4, <3>5
  <2> QED BY <2>2, <2>3
<1> QED BY <1>5, <1>6, <1>7

LEMMA WallStep ==
  ASSUME LedgerInv, Shape', [Next]_vars, NEW a \in Arms
  PROVE  WallInv(a)'
<1> USE DEF LedgerInv
<1> SUFFICES ASSUME Ceiling[a].wall # None
             PROVE  /\ SumOf(took', InArm(a)) <= Ceiling[a].wall
                    /\ \A t \in InArm(a) : Holding(t)' =>
                         /\ Trial[t].reserve.wall # None
                         /\ SumOf(took', InArm(a)) + Trial[t].reserve.wall <= Ceiling[a].wall
  BY DEF WallInv, SumOf
<1> DEFINE C == Ceiling[a].wall
           old == SumOf(took, InArm(a))
           new == SumOf(took', InArm(a))
           R(t) == Trial[t].reserve.wall
<1> SUFFICES /\ new <= C
             /\ \A t \in InArm(a) : Holding(t)' => R(t) # None /\ new + R(t) <= C
  OBVIOUS
<1>1. /\ C \in Nat /\ InArm(a) \subseteq Trials
      /\ \A t \in InArm(a) : R(t) # None => R(t) \in Nat
  BY PlanTypes DEF Amount
<1>2. took \in [Trials -> Nat] /\ took' \in [Trials -> Nat]
      /\ \A t \in Trials : t # cur => took'[t] = took[t]
  BY StepMoves DEF Shape
<1>3. /\ old \in Nat /\ new \in Nat
      /\ cur \in InArm(a) => new + took[cur] = old + took'[cur]
      /\ cur \notin InArm(a) => new = old
  BY <1>2, ArmChange
<1>4. /\ old <= C
      /\ \A t \in InArm(a) : Holding(t) => R(t) # None /\ old + R(t) <= C
  BY DEF WallInv
<1>0. took' = took => new = old
  OBVIOUS
<1>9. \A d \in Durations(cur) : R(cur) # None => d <= R(cur)
  BY DEF Durations
<1> HIDE DEF C, old, new, R
<1>5. CASE Launch
  <2>1. took' = took /\ \A t \in Trials : Holding(t)' => t = cur
    BY <1>5 DEF Launch, Holding
  <2>2. ASSUME cur \in InArm(a) PROVE R(cur) # None /\ old + R(cur) <= C
    <3>1. Trial[cur].arm = a /\ cur \in Trials
      BY <1>1, <2>2 DEF InArm
    <3>2. ~WallRefused(cur)
      BY <1>5 DEF Launch, Refused
    <3>3. /\ ArmWallKnown(a) /\ R(cur) # None
          /\ ~(ArmWall(a) + R(cur) > C)
      BY <3>1, <3>2 DEF WallRefused, Exceeds, C, R
    <3>4. ArmWall(a) = old
      BY <3>3, ArmTime DEF old
    <3> QED BY <1>1, <1>3, <2>2, <3>3, <3>4
  <2> QED BY <1>0, <1>1, <1>4, <2>1, <2>2
<1>6. CASE ~Launch /\ took' = took
  BY <1>0, <1>1, <1>4, <1>6, StepMoves
<1>7. CASE ~Launch /\ took' # took
  <2>1. PICK d \in Durations(cur) :
          took' = [took EXCEPT ![cur] = d] /\ pc' \notin {"launched", "running"}
    BY <1>7, StepMoves
  <2>2. \A t \in Trials : ~Holding(t)'
    BY <2>1 DEF Holding
  <2>3. CASE cur \notin InArm(a)
    BY <1>1, <1>3, <1>4, <2>2, <2>3
  <2>4. CASE cur \in InArm(a)
    <3>1. cur \in Trials /\ pc = "running" /\ Holding(cur)
      BY <1>1, <1>7, <2>4, StepMoves DEF Holding
    <3>2. took[cur] = 0 /\ took'[cur] = d
      BY <1>2, <2>1, <3>1 DEF TrialInv
    <3>3. R(cur) \in Nat /\ d \in Nat /\ d <= R(cur) /\ old + R(cur) <= C
      BY <1>1, <1>2, <1>4, <1>9, <2>4, <3>1, <3>2
    <3>4. new <= C
      BY <1>1, <1>3, <2>4, <3>2, <3>3
    <3> QED BY <1>1, <2>2, <3>4
  <2> QED BY <2>3, <2>4
<1> QED BY <1>5, <1>6, <1>7

LEMMA LedgerStep == LedgerInv /\ [Next]_vars => LedgerInv'
<1> SUFFICES ASSUME LedgerInv, [Next]_vars PROVE LedgerInv'
  OBVIOUS
<1>1. Shape'
  BY ShapeStep DEF LedgerInv
<1>2. \A t \in Trials : TrialInv(t)'
  BY TrialStep DEF LedgerInv
<1>3. \A a \in Arms : CostInv(a)' /\ WallInv(a)'
  BY <1>1, CostStep, WallStep
<1> QED BY <1>1, <1>2, <1>3 DEF LedgerInv

\* A cost the ledger calls known is at least what was really spent, and an
\* arm's ceilings bound what it really spent and how long it really ran, for
\* every plan, every ceiling and any number of faults (tools/
\* experiment_batch.py, build_ledger and refusal).
THEOREM LedgerIsTrue == Spec => []LedgerHolds
<1>1. LedgerInv => LedgerHolds
  <2> SUFFICES ASSUME LedgerInv PROVE LedgerHolds
    OBVIOUS
  <2>1. CeilingHolds
    BY DEF LedgerInv, CostInv, WallInv, CeilingHolds
  <2>2. NeverUnderstated
    BY ArmCost DEF LedgerInv, NeverUnderstated
  <2> QED BY <2>1, <2>2 DEF LedgerHolds
<1> QED BY <1>1, LedgerInit, LedgerStep, PTL DEF Spec
=============================================================================
