----------------------------- MODULE FamilyRun -----------------------------
(***************************************************************************)
(* One family run, over all the processes that work on it.                 *)
(*                                                                         *)
(* `infer` walks the internal nodes of the classification tree in          *)
(* post-order.  A node's session commits a hypothesis, which is turned     *)
(* into a step, written to the trajectory file (a receipt) and then saved  *)
(* in the checkpoint; or the session fails and the walk continues over an  *)
(* identity fallback, which must never reach the checkpoint, and neither   *)
(* must a step built on one.  A process may die between any two of these   *)
(* writes; the next one resumes: it first adopts finalized receipts the    *)
(* checkpoint lacks, then walks the tree again, restoring what it can.     *)
(*                                                                         *)
(* Abstracted: a candidate beam is a member of Beams, IdBeam being what    *)
(* the identity fallback yields; leaf children (whose beams never change)  *)
(* are left out of Kids; a step keeps its node, the beams of its internal  *)
(* children, its own beam, its fallback flag, and whether it was scored on *)
(* beams a committed segmentation overlay had re-segmented (`overlaid`),   *)
(* which are then its input beams; the run, configuration and schema       *)
(* identity that filter a receipt are the one flag `mine`.                 *)
(* The model follows a run with a checkpoint and the policy                *)
(* "operational-retry-v1", the only one new checkpoints get.               *)
(***************************************************************************)
EXTENDS Naturals, Sequences, FiniteSets

CONSTANTS
  Nodes,           \* internal nodes of the normalized tree
  Order,           \* their post-order, a sequence
  Kids,            \* the internal children of each node
  Beams, IdBeam,   \* abstract candidate beams; the identity fallback's one
  NoStep,          \* "no ReconstructionStep"
  NoStop,          \* "no --stop-after-node"
  Overlays,        \* may a commit name a segmentation overlay? {FALSE}, BOOLEAN
  MaxFailedNodes,  \* --max-failed-nodes, per process; 0 acts as --fail-fast
  MaxDisruptions,  \* bound: crashes, failures, interruptions and stops
  MaxForeign       \* bound: records other runs append to the same file

N == Len(Order)

ASSUME OrderAssumption ==
  /\ Nodes # {}
  /\ Order \in Seq(Nodes)
  /\ \A n \in Nodes : \E i \in 1..N : Order[i] = n
  /\ \A i, j \in 1..N : Order[i] = Order[j] => i = j

ASSUME KidsAssumption ==
  /\ Kids \in [Nodes -> SUBSET Nodes]
  /\ \A i \in 1..N : \A c \in Kids[Order[i]] :
       \E j \in 1..N : j < i /\ Order[j] = c

ASSUME ValueAssumption ==
  /\ IdBeam \in Beams
  /\ NoStop \notin Nodes
  /\ Overlays \subseteq BOOLEAN
  /\ MaxFailedNodes \in Nat
  /\ MaxDisruptions \in Nat
  /\ MaxForeign \in Nat

Step == [node : Nodes, inputs : UNION {[K -> Beams] : K \in SUBSET Nodes},
         overlaid : BOOLEAN, out : Beams, fallback : BOOLEAN]

ASSUME NoStepAssumption == NoStep \notin Step

MaybeStep == Step \cup {NoStep}

Receipt == [node : Nodes, mine : BOOLEAN, done : BOOLEAN, step : MaybeStep]

VARIABLES
  \* durable
  ckpt,         \* the checkpoint: the completed step of each node, or NoStep
  receipts,     \* the trajectory file
  \* the process
  pc,           \* what the process is doing
  cursor,       \* index in Order of the node in hand
  draft,        \* the checkpoint as _recover_finalized_steps extends it
  safe,         \* its `safe` set
  resumed,      \* nodes whose steps were handed to traverse()
  walked,       \* the steps traverse() has recorded
  tainted,      \* its `fallback_tainted` set
  failures,     \* len(node_failures) of this process
  stop,         \* --stop-after-node of this process
  prior,        \* prior_reconstructions: node and receipt of its hypothesis
  \* bounds
  disruptions, foreign,
  \* ghosts: never read by the program's own steps
  origin,       \* the receipt a checkpointed step came from
  draftOrigin,  \* the same for draft
  impure,       \* nodes of this walk that rest on a fallback
  dirty         \* receipts written for such a node

durable == <<ckpt, receipts>>
recovery == <<draft, safe, draftOrigin>>
walk == <<resumed, walked, tainted, failures, prior, impure>>
vars == <<durable, pc, cursor, recovery, walk, stop, disruptions, foreign,
          origin, dirty>>

Ended == {"down", "complete", "refused"}

-----------------------------------------------------------------------------
(* Reading the files *)

\* MUTANT of IsLatest: the last record of any run.
IsLatestOfAnyRun(n, i) ==
  /\ i \in DOMAIN receipts
  /\ receipts[i].mine /\ receipts[i].node = n
  /\ \A j \in DOMAIN receipts : receipts[j].node = n => j <= i

\* The last record of this run for node n (`latest`): position i.
IsLatest(n, i) ==
  /\ i \in DOMAIN receipts
  /\ receipts[i].mine /\ receipts[i].node = n
  /\ \A j \in DOMAIN receipts :
       receipts[j].mine /\ receipts[j].node = n => j <= i

\* What the children of n feed it, given the steps s known so far.
InputsOf(n, s) == [c \in Kids[n] |-> s[c].out]

\* step.input_beams == the children's beams.
InputsMatch(step, s) == ~step.overlaid /\ step.inputs = InputsOf(step.node, s)

\* _seed_trajectories and seed_prior_reconstructions: the last completed
\* record whose step is the one the checkpoint holds.
Qualifies(n, i) ==
  /\ receipts[i].mine /\ receipts[i].node = n /\ receipts[i].done
  /\ draft[n] # NoStep
  /\ receipts[i].step \in {NoStep, draft[n]}

\* MUTANT of Seeds: keep the first such record, not the last.
FirstSeeds ==
  {s \in Nodes \X DOMAIN receipts :
     /\ Qualifies(s[1], s[2])
     /\ \A j \in DOMAIN receipts : Qualifies(s[1], j) => j >= s[2]}

Seeds ==
  {s \in Nodes \X DOMAIN receipts :
     /\ Qualifies(s[1], s[2])
     /\ \A j \in DOMAIN receipts : Qualifies(s[1], j) => j <= s[2]}

-----------------------------------------------------------------------------
Init ==
  /\ ckpt = [n \in Nodes |-> NoStep] /\ receipts = << >>
  /\ pc = "new" /\ cursor = 1
  /\ draft = [n \in Nodes |-> NoStep] /\ safe = {}
  /\ resumed = {} /\ walked = [n \in Nodes |-> NoStep]
  /\ tainted = {} /\ failures = 0 /\ stop = NoStop /\ prior = {}
  /\ disruptions = 0 /\ foreign = 0
  /\ origin = [n \in Nodes |-> 0] /\ draftOrigin = [n \in Nodes |-> 0]
  /\ impure = {} /\ dirty = {}

MayDisrupt == disruptions < MaxDisruptions

\* --stop-after-node, given or not; a planned stop counts as a disruption.
ChooseStop ==
  \/ stop' = NoStop /\ UNCHANGED disruptions
  \/ MayDisrupt /\ stop' \in Nodes /\ disruptions' = disruptions + 1

\* A fresh run: an empty checkpoint, nothing to recover.
Start ==
  /\ pc = "new"
  /\ pc' = "walk" /\ ChooseStop
  /\ UNCHANGED <<durable, cursor, recovery, walk, foreign, origin, dirty>>

\* --resume: load the checkpoint and begin _recover_finalized_steps.
Resume ==
  /\ pc \in Ended
  /\ pc' = "recover" /\ cursor' = 1
  /\ draft' = ckpt /\ draftOrigin' = origin /\ safe' = {}
  /\ ChooseStop
  /\ UNCHANGED <<durable, walk, foreign, origin, dirty>>

\* MUTANT of Adoptable: equal child beams are enough.
AdoptableOnEqualBeams(n, i) ==
  LET t == receipts[i] IN
  /\ IsLatest(n, i)
  /\ t.done /\ t.step # NoStep
  /\ t.step.node = n /\ ~t.step.fallback
  /\ InputsMatch(t.step, draft)

\* A receipt that may stand in for a missing checkpoint step: finalized, on
\* the very beams the children have now, and written after each child's own
\* last record, which must be the child's checkpointed step.
Adoptable(n, i) ==
  LET t == receipts[i] IN
  /\ IsLatest(n, i)
  /\ t.done /\ t.step # NoStep
  /\ t.step.node = n /\ ~t.step.fallback
  /\ InputsMatch(t.step, draft)
  /\ \A c \in Kids[n] : \E j \in DOMAIN receipts :
       /\ IsLatest(c, j)
       /\ receipts[j].done /\ receipts[j].step = draft[c]
       /\ j < i

\* The recovery loop on a node the checkpoint already has.  Inputs that do
\* not match raise: the checkpoint is refused.
RecoverKnown(n) ==
  /\ draft[n] # NoStep
  /\ IF Kids[n] \subseteq safe /\ ~draft[n].fallback
       THEN IF InputsMatch(draft[n], draft)
              THEN safe' = safe \cup {n} /\ pc' = pc /\ cursor' = cursor + 1
              ELSE pc' = "refused" /\ UNCHANGED <<safe, cursor>>
       ELSE cursor' = cursor + 1 /\ UNCHANGED <<safe, pc>>
  /\ UNCHANGED <<draft, draftOrigin>>

\* ... on a node it lacks, when a finalized receipt closes the gap ...
RecoverAdopt(n) ==
  /\ draft[n] = NoStep /\ Kids[n] \subseteq safe
  /\ \E i \in DOMAIN receipts :
       /\ Adoptable(n, i)
       /\ draft' = [draft EXCEPT ![n] = receipts[i].step]
       /\ draftOrigin' = [draftOrigin EXCEPT ![n] = i]
  /\ safe' = safe \cup {n} /\ cursor' = cursor + 1 /\ pc' = pc

\* ... and when none does.
RecoverSkip(n) ==
  /\ draft[n] = NoStep
  /\ ~(Kids[n] \subseteq safe /\ \E i \in DOMAIN receipts : Adoptable(n, i))
  /\ cursor' = cursor + 1
  /\ UNCHANGED <<pc, draft, draftOrigin, safe>>

RecoverNode ==
  /\ pc = "recover" /\ cursor <= N
  /\ LET n == Order[cursor] IN
       RecoverKnown(n) \/ RecoverAdopt(n) \/ RecoverSkip(n)
  /\ UNCHANGED <<durable, walk, stop, disruptions, foreign, origin, dirty>>

\* MUTANT of RecoverDone: the walk starts one node too early.
RecoverDoneAtZero ==
  /\ pc = "recover" /\ cursor = N + 1
  /\ pc' = "walk" /\ cursor' = 0
  /\ UNCHANGED <<durable, recovery, walk, stop, disruptions, foreign, origin,
                 dirty>>

\* Save what was recovered, seed the hypotheses and enter traverse().
RecoverDone ==
  /\ pc = "recover" /\ cursor = N + 1
  /\ pc' = "walk" /\ cursor' = 1
  /\ ckpt' = draft /\ origin' = draftOrigin
  /\ resumed' = {n \in Nodes : draft[n] # NoStep}
  /\ prior' = Seeds
  /\ walked' = [n \in Nodes |-> NoStep]
  /\ tainted' = {} /\ failures' = 0 /\ impure' = {}
  /\ UNCHANGED <<receipts, recovery, stop, disruptions, foreign, dirty>>

-----------------------------------------------------------------------------
(* The walk *)

\* The end of traverse()'s loop body: the last node ends the run, the node
\* asked for ends the process, any other moves on.
Advance(n) ==
  IF cursor = N \/ n = stop
    THEN pc' = (IF cursor = N THEN "complete" ELSE "down") /\ UNCHANGED cursor
    ELSE pc' = "walk" /\ cursor' = cursor + 1

\* traverse() on a node of the checkpoint: validate it and reuse it.
RestoreNode ==
  /\ pc = "walk"
  /\ LET n == Order[cursor]
         step == ckpt[n]
     IN /\ n \in resumed
        /\ IF /\ ~step.fallback
              /\ Kids[n] \subseteq resumed
              /\ InputsMatch(step, walked)
             THEN walked' = [walked EXCEPT ![n] = step] /\ Advance(n)
             ELSE pc' = "refused" /\ UNCHANGED <<walked, cursor>>
  /\ UNCHANGED <<durable, recovery, resumed, tainted, failures, prior, impure,
                 stop, disruptions, foreign, origin, dirty>>

InHand(n) == pc = "walk" /\ n = Order[cursor] /\ n \notin resumed

Record(n, done, step) ==
  receipts' = Append(receipts,
                [node |-> n, mine |-> TRUE, done |-> done, step |-> step])

\* reconstruct() when the session commits: the step is built on the beams in
\* hand, finalize() writes the completed trajectory and the hypothesis
\* becomes visible to later nodes.
CommitSession ==
  \E n \in Nodes, out \in Beams, overlaid \in Overlays :
    /\ InHand(n)
    /\ LET step == [node |-> n, inputs |-> InputsOf(n, walked),
                    overlaid |-> overlaid, out |-> out, fallback |-> FALSE]
           i == Len(receipts) + 1
       IN /\ Record(n, TRUE, step)
          /\ walked' = [walked EXCEPT ![n] = step]
          /\ prior' = {p \in prior : p[1] # n} \cup {<<n, i>>}
          /\ IF Kids[n] \cap impure # {}
               THEN impure' = impure \cup {n} /\ dirty' = dirty \cup {i}
               ELSE UNCHANGED <<impure, dirty>>
    /\ pc' = "finalized"
    /\ UNCHANGED <<ckpt, cursor, recovery, resumed, tainted, failures, stop,
                   disruptions, foreign, origin>>

\* MUTANTS of RestsOnFallback: forget that the taint is inherited; stop
\* saving after any failure at all.
RestsOnFailedChild(n) == \E c \in Kids[n] : walked[c].fallback
AnyFallbackSoFar(n) == tainted # {}

\* Was the step of n combined from the beam of a tainted child?
RestsOnFallback(n) == Kids[n] \cap tainted # {}

\* Back in traverse(): a step resting on a fallback is only remembered as
\* such; any other is saved, and a second save of one node would raise.
SaveStep ==
  /\ pc = "finalized"
  /\ LET n == Order[cursor] IN
       IF RestsOnFallback(n)
         THEN /\ tainted' = tainted \cup {n} /\ Advance(n)
              /\ UNCHANGED <<ckpt, origin>>
         ELSE IF ckpt[n] = NoStep
           THEN /\ ckpt' = [ckpt EXCEPT ![n] = walked[n]]
                /\ \E i \in DOMAIN receipts :
                     IsLatest(n, i) /\ origin' = [origin EXCEPT ![n] = i]
                /\ Advance(n) /\ UNCHANGED tainted
           ELSE pc' = "refused" /\ UNCHANGED <<tainted, ckpt, origin, cursor>>
  /\ UNCHANGED <<receipts, recovery, resumed, walked, failures, prior, impure,
                 stop, disruptions, foreign, dirty>>

\* reconstruct() when the session fails: the failed trajectory is written;
\* the error ends the run under --fail-fast or past the failure limit, and
\* otherwise the walk goes on over the identity fallback.
FailSession ==
  \E n \in Nodes :
    /\ InHand(n) /\ MayDisrupt
    /\ Record(n, FALSE, NoStep)
    /\ failures' = failures + 1
    /\ IF failures' > MaxFailedNodes
         THEN pc' = "down" /\ UNCHANGED <<cursor, walked, tainted, impure>>
         ELSE /\ walked' = [walked EXCEPT ![n] =
                   [node |-> n, inputs |-> InputsOf(n, walked),
                    overlaid |-> FALSE, out |-> IdBeam, fallback |-> TRUE]]
              /\ tainted' = tainted \cup {n} /\ impure' = impure \cup {n}
              /\ Advance(n)
    /\ disruptions' = disruptions + 1
    /\ UNCHANGED <<ckpt, recovery, resumed, prior, stop, foreign, origin,
                   dirty>>

\* A provider, budget, journal or cancellation error: the partial trajectory
\* is written and the run ends, keeping what is checkpointed.
InterruptSession ==
  \E n \in Nodes :
    /\ InHand(n) /\ MayDisrupt
    /\ Record(n, FALSE, NoStep)
    /\ pc' = "down" /\ disruptions' = disruptions + 1
    /\ UNCHANGED <<ckpt, cursor, recovery, walk, stop, foreign, origin, dirty>>

\* The process dies, or an ordinary error ends it outside a session.
Crash ==
  /\ pc \in {"recover", "walk", "finalized"} /\ MayDisrupt
  /\ pc' = "down" /\ disruptions' = disruptions + 1
  /\ UNCHANGED <<durable, cursor, recovery, walk, stop, foreign, origin,
                 dirty>>

\* Another run finalizes a node into the same trajectory file.
OtherRunAppends ==
  /\ foreign < MaxForeign
  /\ foreign' = foreign + 1
  /\ \E n \in Nodes, out \in Beams :
       receipts' = Append(receipts,
         [node |-> n, mine |-> FALSE, done |-> TRUE,
          step |-> [node |-> n, inputs |-> [c \in Kids[n] |-> IdBeam],
                    overlaid |-> FALSE, out |-> out, fallback |-> FALSE]])
  /\ UNCHANGED <<ckpt, pc, cursor, recovery, walk, stop, disruptions, origin,
                 dirty>>

Next ==
  \/ Start \/ Resume \/ RecoverNode \/ RecoverDone
  \/ RestoreNode \/ CommitSession \/ SaveStep \/ FailSession
  \/ InterruptSession \/ Crash \/ OtherRunAppends

Spec == Init /\ [][Next]_vars

\* The operator resumes a run that stopped, the process does not hang, and a
\* session that does not fail commits: its own limits end it otherwise.
FairSpec ==
  /\ Spec
  /\ WF_vars(Start) /\ WF_vars(Resume)
  /\ WF_vars(RecoverNode) /\ WF_vars(RecoverDone)
  /\ WF_vars(RestoreNode) /\ WF_vars(CommitSession) /\ WF_vars(SaveStep)

-----------------------------------------------------------------------------
(* Properties *)

Ledger == [Nodes -> MaybeStep]

\* Every variable stays in its domain.
TypeOK ==
  /\ ckpt \in Ledger /\ draft \in Ledger /\ walked \in Ledger
  /\ receipts \in Seq(Receipt)
  /\ pc \in {"new", "recover", "walk", "finalized"} \cup Ended
  /\ cursor \in 1..N + 1
  /\ safe \subseteq Nodes /\ resumed \subseteq Nodes
  /\ tainted \subseteq Nodes /\ impure \subseteq Nodes
  /\ failures \in Nat /\ stop \in Nodes \cup {NoStop}
  /\ prior \subseteq Nodes \X Nat /\ dirty \subseteq Nat
  /\ origin \in [Nodes -> Nat] /\ draftOrigin \in [Nodes -> Nat]
  /\ disruptions \in Nat /\ foreign \in Nat

\* A ledger of completed steps is sound when each step belongs to its node,
\* is no fallback, and was computed on the very beams its children have in
\* the same ledger, which therefore holds every internal child.
SoundLedger(d) ==
  \A n \in Nodes : d[n] # NoStep =>
    /\ d[n].node = n /\ ~d[n].fallback
    /\ \A c \in Kids[n] : d[c] # NoStep
    /\ d[n].inputs = InputsOf(n, d)

\* Whatever failures, crashes, resumes and recoveries happened, the checkpoint
\* file is a sound ledger (checkpoint.py with_step, cli.py
\* _recover_finalized_steps, traverser.py "kept out of the checkpoint").
CheckpointSound == SoundLedger(ckpt)

\* No step computed over a fallback ever reaches the checkpoint, not even
\* through recovery, where an equal beam committed later could launder the
\* old ancestor (cli.py:1138 "must not be laundered").
NoLaundering ==
  \A n \in Nodes : ckpt[n] # NoStep =>
    /\ origin[n] \in DOMAIN receipts \ dirty
    /\ receipts[origin[n]].step = ckpt[n]

\* A checkpoint this code wrote, resumed with nothing changed, is accepted:
\* neither the recovery scan nor the walk finds its inputs inconsistent, and
\* no node is saved twice.
NeverRefused == pc # "refused"

\* A session that was paid for and finalized over real reconstructions is not
\* run again after a crash (cli.py:1096 "Close the JSONL-before-checkpoint
\* crash window").
NeverReplayed ==
  \A n \in Nodes : InHand(n) =>
    \A i \in DOMAIN receipts :
      receipts[i].mine /\ receipts[i].node = n /\ receipts[i].done => i \in dirty

\* In a walk, the hypotheses a later node can read are exactly those of the
\* nodes reconstructed so far, and each comes from the attempt that produced
\* the beam the later node is given: never from another run or an earlier
\* attempt, even one with an equal beam (cli.py:1013-1018,
\* agent/reconstructor.py:217-249).
HypothesesMatchBeams ==
  pc \in {"walk", "finalized", "complete"} =>
    \A n \in Nodes : walked[n] # NoStep =>
      IF walked[n].fallback
        THEN \A p \in prior : p[1] # n
        ELSE /\ \E p \in prior : p[1] = n
             /\ \A p \in prior : p[1] = n =>
                  /\ receipts[p[2]].mine /\ receipts[p[2]].step = walked[n]
                  /\ \A j \in p[2] + 1..Len(receipts) :
                       ~(receipts[j].mine /\ receipts[j].node = n)

\* A walk that reached the root leaves out of the checkpoint the failed nodes
\* and those above them, and nothing else.
CompleteCheckpoint ==
  pc = "complete" => \A n \in Nodes : ckpt[n] = NoStep <=> n \in impure

\* A checkpointed step is never dropped or replaced, whatever later processes
\* do: the ledger only grows (the abstract specification CheckpointLedger
\* says this together with CheckpointSound).
LedgerView == INSTANCE CheckpointLedger WITH ledger <- ckpt, Sound <- SoundLedger

ImplementsLedger == LedgerView!Spec

\* Under the assumed fairness every node is reconstructed in the end: no
\* sequence of failures, crashes and stops wedges the run.
EventuallyReconstructed == <>[](\A n \in Nodes : ckpt[n] # NoStep)
=============================================================================
