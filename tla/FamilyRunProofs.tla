-------------------------- MODULE FamilyRunProofs --------------------------
(***************************************************************************)
(* For every tree, every number of failures, crashes, planned stops and    *)
(* foreign records, and with or without segmentation overlays: the         *)
(* checkpoint of a family run is a sound ledger, nothing computed over a   *)
(* fallback gets into it, and it implements CheckpointLedger.  A walk that *)
(* got to the root left out of the checkpoint the nodes that rest on a     *)
(* fallback and nothing else; later nodes read the hypotheses that         *)
(* produced the beams they are given; and, when no commit names a          *)
(* segmentation overlay, no session that was paid for and finalized is run *)
(* again.                                                                  *)
(*                                                                         *)
(* The invariant relates the three places where a step can be: the         *)
(* trajectory file, the checkpoint, and the memory of the process (the     *)
(* draft of the recovery, or the walked steps).                            *)
(*                                                                         *)
(* And for every dataset, request and benchmark (Ingestion): no form bound *)
(* to a node is left among the evidence a run works on, and a benchmark    *)
(* selected by cognacy can be scored.                                      *)
(***************************************************************************)
EXTENDS FamilyRun, Ingestion, FiniteSetTheorems, TLAPS

InWalk == pc \in {"walk", "finalized"}

\* Where each step of the ledger d came from: this run's last record for the
\* node, which was not written over a fallback.
Provenance(d, o) ==
  \A n \in Nodes : d[n] # NoStep =>
    /\ IsLatest(n, o[n])
    /\ receipts[o[n]].done /\ o[n] \notin dirty
    /\ receipts[o[n]].step = d[n]

\* A record that shows node n to be unusable: a failed attempt, or a commit
\* over a fallback.
Bad(j) == ~receipts[j].done \/ j \in dirty

\* A record written over a fallback names a child whose last earlier record
\* is a bad one.
DirtyHasBadChild ==
  \A i \in dirty :
    /\ i \in DOMAIN receipts
    /\ \E c \in Kids[receipts[i].node], j \in DOMAIN receipts :
         /\ j < i /\ receipts[j].mine /\ receipts[j].node = c /\ Bad(j)
         /\ \A k \in DOMAIN receipts :
              receipts[k].mine /\ receipts[k].node = c /\ k < i => k <= j

\* Nothing has happened yet.
NewInv ==
  pc = "new" =>
    /\ cursor = 1 /\ resumed = {} /\ tainted = {} /\ impure = {}
    /\ \A n \in Nodes : ckpt[n] = NoStep

\* While recovering, the draft extends the checkpoint and is as good.
RecoverInv ==
  pc = "recover" =>
    /\ SoundLedger(draft) /\ Provenance(draft, draftOrigin)
    /\ \A n \in Nodes : ckpt[n] # NoStep => draft[n] = ckpt[n]
    /\ \A n \in safe : draft[n] # NoStep

\* In the walk, nodes before the one in hand have been walked and, unless
\* tainted, are in the checkpoint; the others are untainted, and in the
\* checkpoint only if they are to be restored.
WalkInv ==
  InWalk =>
    /\ cursor \in 1..N
    /\ \A n \in resumed : ckpt[n] # NoStep /\ n \notin tainted
    /\ \A n \in resumed : Kids[n] \subseteq resumed
    /\ \A j \in 1..N : j < cursor =>
         /\ walked[Order[j]] # NoStep
         /\ Order[j] \notin tainted => walked[Order[j]] = ckpt[Order[j]]
    /\ \A j \in 1..N : j >= cursor =>
         /\ Order[j] \notin tainted
         /\ Order[j] \notin resumed => ckpt[Order[j]] = NoStep

\* In the walk, the nodes that rest on a fallback are the tainted ones, and
\* the last record of each is a bad one.
TaintInv ==
  InWalk =>
    /\ \A n \in Nodes : n \in impure <=>
         \/ n \in tainted
         \/ pc = "finalized" /\ n = Order[cursor] /\ RestsOnFallback(n)
    /\ \A c \in impure : \E j \in DOMAIN receipts : IsLatest(c, j) /\ Bad(j)

\* Between the trajectory and the checkpoint, the step in hand is the one of
\* the record just written.
FinalizedInv ==
  pc = "finalized" =>
    LET n == Order[cursor] IN
    /\ n \notin resumed
    /\ walked[n] # NoStep /\ walked[n].node = n /\ ~walked[n].fallback
    /\ walked[n].inputs = InputsOf(n, walked)
    /\ \E i \in DOMAIN receipts :
         /\ IsLatest(n, i) /\ receipts[i].done /\ receipts[i].step = walked[n]
         /\ i \in dirty <=> RestsOnFallback(n)

IInv ==
  /\ TypeOK
  /\ CheckpointSound
  /\ Provenance(ckpt, origin)
  /\ DirtyHasBadChild
  /\ NewInv
  /\ RecoverInv
  /\ WalkInv
  /\ TaintInv
  /\ FinalizedInv

-----------------------------------------------------------------------------
(* The tree and the post-order *)

\* N counts the positions of the post-order, each of which holds a node.
LEMMA OrderFacts ==
  /\ N \in Nat /\ N >= 1
  /\ \A i \in 1..N : Order[i] \in Nodes
  /\ \A n \in Nodes : \E i \in 1..N : Order[i] = n
  /\ \A i, j \in 1..N : Order[i] = Order[j] => i = j
<1>1. N \in Nat /\ \A i \in 1..N : Order[i] \in Nodes
  BY OrderAssumption DEF N
<1>2. \A n \in Nodes : \E i \in 1..N : Order[i] = n
  BY OrderAssumption
<1>3. N >= 1
  BY <1>1, <1>2, OrderAssumption
<1> QED BY <1>1, <1>2, <1>3, OrderAssumption

\* A node's internal children are nodes placed before it.
LEMMA KidsBefore ==
  ASSUME NEW i \in 1..N, NEW c \in Kids[Order[i]]
  PROVE  c \in Nodes /\ c # Order[i] /\ \E j \in 1..N : j < i /\ Order[j] = c
<1>1. PICK j \in 1..N : j < i /\ Order[j] = c
  BY KidsAssumption
<1> QED BY <1>1, OrderFacts

\* No node is its own child.
LEMMA NotOwnKid ==
  ASSUME NEW n \in Nodes
  PROVE  Kids[n] \subseteq Nodes /\ n \notin Kids[n]
BY OrderFacts, KidsBefore

-----------------------------------------------------------------------------
(* Steps and records *)

\* What the children of n feed it is a well-formed record of beams.
LEMMA InputsType ==
  ASSUME NEW d \in Ledger, NEW n \in Nodes,
         \A c \in Kids[n] : d[c] # NoStep
  PROVE  InputsOf(n, d) \in UNION {[K -> Beams] : K \in SUBSET Nodes}
<1>1. Kids[n] \in SUBSET Nodes
  BY NotOwnKid
<1>2. \A c \in Kids[n] : d[c].out \in Beams
  BY <1>1 DEF Ledger, MaybeStep, Step
<1>3. InputsOf(n, d) \in [Kids[n] -> Beams]
  BY <1>2 DEF InputsOf
<1> QED BY <1>1, <1>3

\* Appending a record leaves the earlier ones where they are.
LEMMA AppendFacts ==
  ASSUME receipts \in Seq(Receipt), NEW t \in Receipt,
         receipts' = Append(receipts, t)
  PROVE  /\ receipts' \in Seq(Receipt)
         /\ DOMAIN receipts = 1..Len(receipts) /\ Len(receipts) \in Nat
         /\ DOMAIN receipts' = 1..(Len(receipts) + 1)
         /\ \A i \in DOMAIN receipts : receipts'[i] = receipts[i]
         /\ receipts'[Len(receipts) + 1] = t
OBVIOUS

\* A record of this run for n becomes n's last one ...
LEMMA NewLatest ==
  ASSUME receipts \in Seq(Receipt), NEW t \in Receipt,
         receipts' = Append(receipts, t), t.mine,
         NEW i, i = Len(receipts) + 1
  PROVE  IsLatest(t.node, i)'
BY AppendFacts DEF IsLatest

\* ... and changes nothing for the other nodes; another run's changes nothing.
LEMMA OldLatest ==
  ASSUME receipts \in Seq(Receipt), NEW t \in Receipt,
         receipts' = Append(receipts, t), NEW n, t.node # n \/ ~t.mine, NEW i
  PROVE  IsLatest(n, i) => IsLatest(n, i)'
BY AppendFacts DEF IsLatest

-----------------------------------------------------------------------------
(* The invariant holds initially and every step preserves it *)

LEMMA InitInv == Init => IInv
<1> SUFFICES ASSUME Init PROVE IInv
  OBVIOUS
<1> USE DEF Init
<1>1. TypeOK
  BY OrderFacts, ValueAssumption DEF TypeOK, Ledger, MaybeStep, Receipt, Ended
<1>2. CheckpointSound /\ Provenance(ckpt, origin) /\ DirtyHasBadChild
  BY DEF CheckpointSound, SoundLedger, Provenance, DirtyHasBadChild
<1>3. NewInv /\ RecoverInv /\ WalkInv /\ TaintInv /\ FinalizedInv
  BY DEF NewInv, RecoverInv, WalkInv, TaintInv, FinalizedInv, InWalk
<1> QED BY <1>1, <1>2, <1>3 DEF IInv

\* Facts about the files survive a step that does not touch them.
LEMMA FilesUnchanged ==
  ASSUME CheckpointSound, Provenance(ckpt, origin), DirtyHasBadChild,
         UNCHANGED <<ckpt, receipts, origin, dirty>>
  PROVE  CheckpointSound' /\ Provenance(ckpt, origin)' /\ DirtyHasBadChild'
BY DEF CheckpointSound, SoundLedger, InputsOf, Provenance, IsLatest,
       DirtyHasBadChild, Bad

\* Nothing is claimed of a process that has ended.
LEMMA EndedInv ==
  ASSUME pc' \in Ended
  PROVE  NewInv' /\ RecoverInv' /\ WalkInv' /\ TaintInv' /\ FinalizedInv'
BY DEF NewInv, RecoverInv, WalkInv, TaintInv, FinalizedInv, InWalk, Ended

LEMMA StartInv == IInv /\ Start => IInv'
<1> SUFFICES ASSUME IInv, Start PROVE IInv'
  OBVIOUS
<1> USE DEF Start, durable, recovery, walk
<1>1. TypeOK'
  BY DEF IInv, TypeOK, ChooseStop, MayDisrupt
<1>2. CheckpointSound' /\ Provenance(ckpt, origin)' /\ DirtyHasBadChild'
  BY FilesUnchanged DEF IInv
<1>3. WalkInv'
  BY OrderFacts DEF IInv, NewInv, WalkInv, InWalk
<1>4. TaintInv'
  BY DEF IInv, NewInv, TaintInv
<1>5. NewInv' /\ RecoverInv' /\ FinalizedInv'
  BY DEF NewInv, RecoverInv, FinalizedInv
<1> QED BY <1>1, <1>2, <1>3, <1>4, <1>5 DEF IInv

LEMMA ResumeInv == IInv /\ Resume => IInv'
<1> SUFFICES ASSUME IInv, Resume PROVE IInv'
  OBVIOUS
<1> USE DEF Resume, durable, walk
<1>1. TypeOK'
  BY OrderFacts DEF IInv, TypeOK, ChooseStop, MayDisrupt
<1>2. CheckpointSound' /\ Provenance(ckpt, origin)' /\ DirtyHasBadChild'
  BY FilesUnchanged DEF IInv
<1>3. RecoverInv'
  <2>1. SoundLedger(draft)'
    BY DEF IInv, CheckpointSound, SoundLedger, InputsOf
  <2>2. Provenance(draft, draftOrigin)'
    BY DEF IInv, Provenance, IsLatest
  <2> QED BY <2>1, <2>2 DEF RecoverInv
<1>4. NewInv' /\ WalkInv' /\ TaintInv' /\ FinalizedInv'
  BY DEF NewInv, WalkInv, TaintInv, FinalizedInv, InWalk
<1> QED BY <1>1, <1>2, <1>3, <1>4 DEF IInv

LEMMA CrashInv == IInv /\ Crash => IInv'
<1> SUFFICES ASSUME IInv, Crash PROVE IInv'
  OBVIOUS
<1> USE DEF Crash, durable, recovery, walk
<1>1. TypeOK'
  BY DEF IInv, TypeOK, MayDisrupt, Ended
<1>2. CheckpointSound' /\ Provenance(ckpt, origin)' /\ DirtyHasBadChild'
  BY FilesUnchanged DEF IInv
<1>3. NewInv' /\ RecoverInv' /\ WalkInv' /\ TaintInv' /\ FinalizedInv'
  BY EndedInv DEF Ended
<1> QED BY <1>1, <1>2, <1>3 DEF IInv

LEMMA StutterInv == IInv /\ UNCHANGED vars => IInv'
<1> SUFFICES ASSUME IInv, UNCHANGED vars PROVE IInv'
  OBVIOUS
<1> USE DEF vars, durable, recovery, walk
<1>1. TypeOK'
  BY DEF IInv, TypeOK
<1>2. CheckpointSound' /\ Provenance(ckpt, origin)' /\ DirtyHasBadChild'
  BY FilesUnchanged DEF IInv
<1>3. NewInv' /\ WalkInv'
  BY DEF IInv, NewInv, WalkInv, InWalk
<1>4. RecoverInv'
  BY DEF IInv, RecoverInv, SoundLedger, InputsOf, Provenance, IsLatest
<1>5. TaintInv'
  BY DEF IInv, TaintInv, InWalk, RestsOnFallback, IsLatest, Bad
<1>6. FinalizedInv'
  BY DEF IInv, FinalizedInv, RestsOnFallback, IsLatest, InputsOf
<1> QED BY <1>1, <1>2, <1>3, <1>4, <1>5, <1>6 DEF IInv

\* The recovery loop leaves the files alone and starts no walk.
LEMMA RecoverNodeInv == IInv /\ RecoverNode => IInv'
<1> SUFFICES ASSUME IInv, RecoverNode PROVE IInv'
  OBVIOUS
<1> USE DEF durable, walk
<1> DEFINE n == Order[cursor]
<1>1. /\ pc = "recover" /\ cursor \in 1..N /\ n \in Nodes
      /\ UNCHANGED <<durable, walk, stop, disruptions, foreign, origin, dirty>>
      /\ RecoverKnown(n) \/ RecoverAdopt(n) \/ RecoverSkip(n)
  BY OrderFacts DEF IInv, TypeOK, RecoverNode
<1>2. TypeOK /\ RecoverInv
  BY DEF IInv
<1>3. CheckpointSound' /\ Provenance(ckpt, origin)' /\ DirtyHasBadChild'
  BY <1>1, FilesUnchanged DEF IInv
<1>4. pc' \in {"recover", "refused"}
  BY <1>1 DEF RecoverKnown, RecoverAdopt, RecoverSkip
<1>5. NewInv' /\ WalkInv' /\ TaintInv' /\ FinalizedInv'
  BY <1>4 DEF NewInv, WalkInv, TaintInv, FinalizedInv, InWalk
<1>6. CASE RecoverAdopt(n)
  <2>1. PICK i \in DOMAIN receipts :
          /\ Adoptable(n, i)
          /\ draft' = [draft EXCEPT ![n] = receipts[i].step]
          /\ draftOrigin' = [draftOrigin EXCEPT ![n] = i]
    BY <1>6 DEF RecoverAdopt
  <2>2. /\ draft[n] = NoStep /\ Kids[n] \subseteq safe
        /\ safe' = safe \cup {n} /\ cursor' = cursor + 1 /\ pc' = pc
    BY <1>6 DEF RecoverAdopt
  <2> DEFINE t == receipts[i]
  <2>3. /\ IsLatest(n, i) /\ t.done /\ t.step # NoStep
        /\ t.step.node = n /\ ~t.step.fallback
        /\ t.step.inputs = InputsOf(n, draft)
    BY <2>1 DEF Adoptable, InputsMatch
  <2>4. t.step \in MaybeStep /\ i \in Nat
    <3>1. t \in Receipt /\ i \in Nat
      BY <1>2 DEF TypeOK
    <3> QED BY <3>1 DEF Receipt
  <2>5. TypeOK'
    <3>1. draft' \in Ledger /\ draftOrigin' \in [Nodes -> Nat]
      BY <1>1, <1>2, <2>1, <2>4 DEF TypeOK, Ledger
    <3>2. cursor' \in 1..N + 1 /\ safe' \subseteq Nodes
      BY <1>1, <1>2, <2>2, OrderFacts DEF TypeOK
    <3> QED BY <1>1, <1>2, <1>4, <2>2, <3>1, <3>2 DEF TypeOK
  <2>6. draft'[n] = t.step /\ \A m \in Nodes : m # n => draft'[m] = draft[m]
    BY <1>1, <1>2, <2>1 DEF TypeOK, Ledger
  <2>7. draftOrigin'[n] = i
        /\ \A m \in Nodes : m # n => draftOrigin'[m] = draftOrigin[m]
    BY <1>1, <1>2, <2>1 DEF TypeOK
  <2>8. SoundLedger(draft)'
    <3> SUFFICES ASSUME NEW m \in Nodes, draft'[m] # NoStep
                 PROVE  /\ draft'[m].node = m /\ ~draft'[m].fallback
                        /\ \A c \in Kids[m] : draft'[c] # NoStep
                        /\ draft'[m].inputs = [c \in Kids[m] |-> draft'[c].out]
      BY DEF SoundLedger, InputsOf
    <3>1. Kids[m] \subseteq Nodes /\ m \notin Kids[m]
      BY NotOwnKid
    <3>2. CASE m = n
      <4>1. \A c \in Kids[m] : draft'[c] = draft[c] /\ draft[c] # NoStep
        BY <1>1, <1>2, <2>2, <2>6, <3>1, <3>2 DEF RecoverInv
      <4> QED BY <2>3, <2>6, <3>2, <4>1 DEF InputsOf
    <3>3. CASE m # n
      <4>1. /\ draft[m].node = m /\ ~draft[m].fallback
            /\ \A c \in Kids[m] : draft[c] # NoStep
            /\ draft[m].inputs = InputsOf(m, draft)
        BY <1>1, <1>2, <2>6, <3>3 DEF RecoverInv, SoundLedger
      <4>2. \A c \in Kids[m] : draft'[c] = draft[c]
        BY <2>2, <2>6, <3>1, <4>1
      <4> QED BY <2>6, <3>3, <4>1, <4>2 DEF InputsOf
    <3> QED BY <3>2, <3>3
  <2>9. i \notin dirty
    <3> SUFFICES ASSUME i \in dirty PROVE FALSE
      OBVIOUS
    <3>1. PICK c \in Kids[n], j \in DOMAIN receipts :
            /\ j < i /\ receipts[j].mine /\ receipts[j].node = c /\ Bad(j)
            /\ \A k \in DOMAIN receipts :
                 receipts[k].mine /\ receipts[k].node = c /\ k < i => k <= j
      BY <2>3 DEF IInv, DirtyHasBadChild, IsLatest
    <3>2. PICK k \in DOMAIN receipts :
            /\ IsLatest(c, k) /\ receipts[k].done /\ k < i
      BY <2>1, <3>1 DEF Adoptable
    <3>3. k = j
      BY <1>2, <3>1, <3>2, <2>4 DEF IsLatest, TypeOK
    <3>4. c \in Nodes /\ draft[c] # NoStep
      BY <1>1, <1>2, <2>2, <3>1, NotOwnKid DEF RecoverInv
    <3>5. IsLatest(c, draftOrigin[c]) /\ draftOrigin[c] \notin dirty
      BY <1>1, <1>2, <3>4 DEF RecoverInv, Provenance
    <3>6. draftOrigin[c] = k
      BY <1>2, <3>2, <3>5 DEF IsLatest, TypeOK
    <3> QED BY <3>1, <3>2, <3>3, <3>5, <3>6 DEF Bad
  <2>10. Provenance(draft, draftOrigin)'
    <3>1. Provenance(draft, draftOrigin)
      BY <1>1, <1>2 DEF RecoverInv
    <3>2. receipts' = receipts /\ dirty' = dirty
      BY <1>1
    <3> QED BY <2>3, <2>6, <2>7, <2>9, <3>1, <3>2 DEF Provenance, IsLatest
  <2>11. RecoverInv'
    <3>1. \A m \in Nodes : ckpt[m] # NoStep => draft[m] = ckpt[m]
      BY <1>1, <1>2 DEF RecoverInv
    <3>2. \A m \in Nodes : ckpt'[m] # NoStep => draft'[m] = ckpt'[m]
      BY <1>1, <2>2, <2>6, <3>1
    <3>3. \A m \in safe' : draft'[m] # NoStep
      BY <1>1, <1>2, <2>2, <2>3, <2>6 DEF RecoverInv, TypeOK
    <3> QED BY <2>8, <2>10, <3>2, <3>3 DEF RecoverInv
  <2> QED BY <1>3, <1>5, <2>5, <2>11 DEF IInv
<1>7. CASE RecoverKnown(n) \/ RecoverSkip(n)
  <2>1. /\ UNCHANGED <<draft, draftOrigin>> /\ safe' \subseteq Nodes
        /\ cursor' \in 1..N + 1
        /\ \A m \in safe' : m \in safe \/ (m = n /\ draft[n] # NoStep)
    BY <1>1, <1>2, <1>7, OrderFacts DEF RecoverKnown, RecoverSkip, TypeOK
  <2>2. TypeOK'
    BY <1>1, <1>2, <1>4, <2>1 DEF TypeOK, Ended
  <2>3. SoundLedger(draft)'
    BY <1>1, <1>2, <2>1 DEF RecoverInv, SoundLedger, InputsOf
  <2>4. Provenance(draft, draftOrigin)'
    BY <1>1, <1>2, <2>1 DEF RecoverInv, Provenance, IsLatest
  <2>5. RecoverInv'
    BY <1>1, <1>2, <2>1, <2>3, <2>4 DEF RecoverInv
  <2> QED BY <1>3, <1>5, <2>2, <2>5 DEF IInv
<1> QED BY <1>1, <1>6, <1>7

\* What the recovery saves is the draft, sound and traceable.
LEMMA RecoverDoneInv == IInv /\ RecoverDone => IInv'
<1> SUFFICES ASSUME IInv, RecoverDone PROVE IInv'
  OBVIOUS
<1> USE DEF RecoverDone, recovery
<1>1. TypeOK /\ RecoverInv
  BY DEF IInv
<1>2. SoundLedger(draft) /\ Provenance(draft, draftOrigin)
  BY <1>1 DEF RecoverInv
<1>3. TypeOK'
  <2>1. Seeds \subseteq Nodes \X Nat
    BY <1>1 DEF TypeOK, Seeds
  <2>2. [n \in Nodes |-> NoStep] \in Ledger
    BY DEF Ledger, MaybeStep
  <2> QED BY <1>1, <2>1, <2>2, OrderFacts DEF TypeOK
<1>4. CheckpointSound'
  BY <1>2 DEF CheckpointSound, SoundLedger, InputsOf
<1>5. Provenance(ckpt, origin)' /\ DirtyHasBadChild'
  BY <1>2 DEF IInv, Provenance, IsLatest, DirtyHasBadChild, Bad
<1>6. WalkInv'
  BY <1>2, OrderFacts, NotOwnKid DEF WalkInv, InWalk, SoundLedger
<1>7. NewInv' /\ RecoverInv' /\ TaintInv' /\ FinalizedInv'
  BY DEF NewInv, RecoverInv, TaintInv, FinalizedInv, InWalk
<1> QED BY <1>3, <1>4, <1>5, <1>6, <1>7 DEF IInv

-----------------------------------------------------------------------------
(* Steps that append a record *)

\* A record appended for a node the ledger d lacks, or by another run,
\* disturbs no provenance; and it is itself accounted for if it is dirty.
LEMMA ProvenanceAppend ==
  ASSUME receipts \in Seq(Receipt), NEW t \in Receipt,
         receipts' = Append(receipts, t),
         NEW d, NEW o, Provenance(d, o),
         t.mine => d[t.node] = NoStep,
         dirty' \subseteq dirty \cup {Len(receipts) + 1}
  PROVE  \A n \in Nodes : d[n] # NoStep =>
           /\ IsLatest(n, o[n])'
           /\ receipts'[o[n]].done /\ o[n] \notin dirty'
           /\ receipts'[o[n]].step = d[n]
<1> SUFFICES ASSUME NEW n \in Nodes, d[n] # NoStep
             PROVE  /\ IsLatest(n, o[n])'
                    /\ receipts'[o[n]].done /\ o[n] \notin dirty'
                    /\ receipts'[o[n]].step = d[n]
  OBVIOUS
<1>1. /\ IsLatest(n, o[n]) /\ receipts[o[n]].done /\ o[n] \notin dirty
      /\ receipts[o[n]].step = d[n]
  BY DEF Provenance
<1>2. t.node # n \/ ~t.mine
  OBVIOUS
<1>3. IsLatest(n, o[n])'
  BY <1>1, <1>2, OldLatest
<1>4. o[n] \in 1..Len(receipts) /\ receipts'[o[n]] = receipts[o[n]]
  BY <1>1, AppendFacts DEF IsLatest
<1> QED BY <1>1, <1>3, <1>4

LEMMA DirtyAppend ==
  ASSUME TypeOK, DirtyHasBadChild, NEW t \in Receipt,
         receipts' = Append(receipts, t),
         \/ dirty' = dirty
         \/ /\ dirty' = dirty \cup {Len(receipts) + 1}
            /\ \E c \in Kids[t.node] : c # t.node /\
                 \E j \in DOMAIN receipts : IsLatest(c, j) /\ Bad(j)
  PROVE  DirtyHasBadChild'
<1> SUFFICES ASSUME NEW i \in dirty'
             PROVE  /\ i \in DOMAIN receipts'
                    /\ \E c \in Kids[receipts'[i].node], j \in DOMAIN receipts' :
                         /\ j < i /\ receipts'[j].mine /\ receipts'[j].node = c
                         /\ Bad(j)'
                         /\ \A k \in DOMAIN receipts' :
                              receipts'[k].mine /\ receipts'[k].node = c /\ k < i
                                => k <= j
  BY DEF DirtyHasBadChild
<1>1. /\ DOMAIN receipts = 1..Len(receipts) /\ Len(receipts) \in Nat
      /\ DOMAIN receipts' = 1..(Len(receipts) + 1)
      /\ \A k \in DOMAIN receipts : receipts'[k] = receipts[k]
      /\ receipts'[Len(receipts) + 1] = t
  BY AppendFacts DEF TypeOK
<1>2. \A j \in DOMAIN receipts : Bad(j) => Bad(j)'
  BY <1>1 DEF Bad
<1>3. CASE i \in dirty
  <2>1. PICK c \in Kids[receipts[i].node], j \in DOMAIN receipts :
          /\ j < i /\ receipts[j].mine /\ receipts[j].node = c /\ Bad(j)
          /\ \A k \in DOMAIN receipts :
               receipts[k].mine /\ receipts[k].node = c /\ k < i => k <= j
    BY <1>3 DEF DirtyHasBadChild
  <2>2. i \in DOMAIN receipts
    BY <1>3 DEF DirtyHasBadChild
  <2>3. j \in DOMAIN receipts' /\ Bad(j)' /\ receipts'[j] = receipts[j]
    BY <1>1, <1>2, <2>1
  <2>4. \A k \in DOMAIN receipts' :
          receipts'[k].mine /\ receipts'[k].node = c /\ k < i => k <= j
    BY <1>1, <2>1, <2>2
  <2> QED BY <1>1, <2>1, <2>2, <2>3, <2>4
<1>4. CASE i \notin dirty
  <2>1. i = Len(receipts) + 1
    BY <1>4
  <2>2. PICK c \in Kids[t.node] : c # t.node /\
          \E j \in DOMAIN receipts : IsLatest(c, j) /\ Bad(j)
    BY <1>4
  <2>3. PICK j \in DOMAIN receipts : IsLatest(c, j) /\ Bad(j)
    BY <2>2
  <2> QED BY <1>1, <1>2, <2>1, <2>2, <2>3 DEF IsLatest
<1> QED BY <1>3, <1>4

\* The node in hand is not in the checkpoint, nor tainted, nor impure.
LEMMA HandFacts ==
  ASSUME IInv, NEW n \in Nodes, InHand(n)
  PROVE  /\ cursor \in 1..N /\ n = Order[cursor]
         /\ ckpt[n] = NoStep /\ n \notin tainted /\ n \notin impure
         /\ \A c \in Kids[n] : c \in Nodes /\ walked[c] # NoStep
<1>1. cursor \in 1..N /\ n = Order[cursor] /\ InWalk /\ pc = "walk"
  BY DEF IInv, WalkInv, InHand, InWalk
<1>2. ckpt[n] = NoStep /\ n \notin tainted
  BY <1>1, OrderFacts DEF IInv, WalkInv, InHand
<1>3. n \notin impure
  BY <1>1, <1>2 DEF IInv, TaintInv
<1>4. \A c \in Kids[n] : c \in Nodes /\ walked[c] # NoStep
  BY <1>1, KidsBefore, OrderFacts DEF IInv, WalkInv
<1> QED BY <1>1, <1>2, <1>3, <1>4

LEMMA InterruptSessionInv == IInv /\ InterruptSession => IInv'
<1> SUFFICES ASSUME IInv, InterruptSession PROVE IInv'
  OBVIOUS
<1> USE DEF recovery, walk
<1>1. PICK n \in Nodes :
        /\ InHand(n) /\ Record(n, FALSE, NoStep) /\ MayDisrupt
        /\ pc' = "down" /\ disruptions' = disruptions + 1
        /\ UNCHANGED <<ckpt, cursor, recovery, walk, stop, foreign, origin, dirty>>
  BY DEF InterruptSession
<1> DEFINE t == [node |-> n, mine |-> TRUE, done |-> FALSE, step |-> NoStep]
<1>2. t \in Receipt /\ receipts' = Append(receipts, t)
  BY <1>1 DEF Record, Receipt, MaybeStep
<1>3. ckpt[n] = NoStep
  BY <1>1, HandFacts
<1>4. TypeOK'
  BY <1>1, <1>2, AppendFacts DEF IInv, TypeOK, Ended
<1>5. CheckpointSound'
  BY <1>1 DEF IInv, CheckpointSound, SoundLedger, InputsOf
<1>6. Provenance(ckpt, origin)'
  BY <1>1, <1>2, <1>3, ProvenanceAppend
  DEF IInv, TypeOK, Provenance, IsLatest
<1>7. DirtyHasBadChild'
  BY <1>1, <1>2, DirtyAppend DEF IInv
<1>8. NewInv' /\ RecoverInv' /\ WalkInv' /\ TaintInv' /\ FinalizedInv'
  BY <1>1, EndedInv DEF Ended
<1> QED BY <1>4, <1>5, <1>6, <1>7, <1>8 DEF IInv

LEMMA OtherRunAppendsInv == IInv /\ OtherRunAppends => IInv'
<1> SUFFICES ASSUME IInv, OtherRunAppends PROVE IInv'
  OBVIOUS
<1> USE DEF recovery, walk
<1>1. PICK n \in Nodes, out \in Beams :
        receipts' = Append(receipts,
          [node |-> n, mine |-> FALSE, done |-> TRUE,
           step |-> [node |-> n, inputs |-> [c \in Kids[n] |-> IdBeam],
                     overlaid |-> FALSE, out |-> out, fallback |-> FALSE]])
  BY DEF OtherRunAppends
<1> DEFINE s == [node |-> n, inputs |-> [c \in Kids[n] |-> IdBeam],
                 overlaid |-> FALSE, out |-> out, fallback |-> FALSE]
           t == [node |-> n, mine |-> FALSE, done |-> TRUE, step |-> s]
<1>2. /\ foreign' = foreign + 1
      /\ UNCHANGED <<ckpt, pc, cursor, recovery, walk, stop, disruptions,
                     origin, dirty>>
  BY DEF OtherRunAppends
<1>3. s \in Step
  <2>1. [c \in Kids[n] |-> IdBeam] \in [Kids[n] -> Beams]
    BY ValueAssumption
  <2>2. Kids[n] \in SUBSET Nodes
    BY NotOwnKid
  <2>3. [c \in Kids[n] |-> IdBeam] \in UNION {[K -> Beams] : K \in SUBSET Nodes}
    BY <2>1, <2>2
  <2> QED BY <2>3 DEF Step
<1>4. t \in Receipt /\ receipts' = Append(receipts, t) /\ ~t.mine
  BY <1>1, <1>3 DEF Receipt, MaybeStep
<1>5. TypeOK'
  BY <1>2, <1>4, AppendFacts DEF IInv, TypeOK
<1>6. CheckpointSound'
  BY <1>2 DEF IInv, CheckpointSound, SoundLedger, InputsOf
<1>7. Provenance(ckpt, origin)'
  BY <1>2, <1>4, ProvenanceAppend
  DEF IInv, TypeOK, Provenance, IsLatest
<1>8. DirtyHasBadChild'
  BY <1>2, <1>4, DirtyAppend DEF IInv
<1>9. NewInv' /\ WalkInv'
  BY <1>2 DEF IInv, NewInv, WalkInv, InWalk
<1>10. RecoverInv'
  <2> SUFFICES ASSUME pc = "recover" PROVE RecoverInv'
    BY <1>2 DEF RecoverInv
  <2>0. SoundLedger(draft) /\ Provenance(draft, draftOrigin)
    BY DEF IInv, RecoverInv
  <2>1. SoundLedger(draft)'
    BY <1>2, <2>0 DEF SoundLedger, InputsOf
  <2>2. Provenance(draft, draftOrigin)'
    BY <1>2, <1>4, <2>0, ProvenanceAppend
    DEF IInv, TypeOK, Provenance, IsLatest
  <2> QED BY <1>2, <2>1, <2>2 DEF IInv, RecoverInv
<1>11. \A m, i : IsLatest(m, i) => IsLatest(m, i)'
  BY <1>4, OldLatest DEF IInv, TypeOK
<1>12. \A i \in DOMAIN receipts :
         i \in DOMAIN receipts' /\ receipts'[i] = receipts[i] /\ (Bad(i) => Bad(i)')
  BY <1>2, <1>4, AppendFacts DEF IInv, TypeOK, Bad
<1>13. TaintInv'
  BY <1>2, <1>11, <1>12 DEF IInv, TaintInv, InWalk, RestsOnFallback
<1>14. FinalizedInv'
  BY <1>2, <1>11, <1>12 DEF IInv, FinalizedInv, RestsOnFallback, InputsOf
<1> QED BY <1>5, <1>6, <1>7, <1>8, <1>9, <1>10, <1>13, <1>14 DEF IInv

LEMMA CommitSessionInv == IInv /\ CommitSession => IInv'
<1> SUFFICES ASSUME IInv, CommitSession PROVE IInv'
  OBVIOUS
<1> USE DEF recovery
<1>0. PICK i \in Nat : i = Len(receipts) + 1
  BY DEF IInv, TypeOK
<1>1. PICK n \in Nodes, out \in Beams, overlaid \in Overlays :
        /\ InHand(n)
        /\ LET step == [node |-> n, inputs |-> InputsOf(n, walked),
                        overlaid |-> overlaid, out |-> out, fallback |-> FALSE]
           IN /\ Record(n, TRUE, step)
              /\ walked' = [walked EXCEPT ![n] = step]
              /\ prior' = {p \in prior : p[1] # n} \cup {<<n, i>>}
              /\ IF Kids[n] \cap impure # {}
                   THEN impure' = impure \cup {n} /\ dirty' = dirty \cup {i}
                   ELSE UNCHANGED <<impure, dirty>>
  BY <1>0 DEF CommitSession
<1>2. /\ pc' = "finalized"
      /\ UNCHANGED <<ckpt, cursor, recovery, resumed, tainted, failures, stop,
                     disruptions, foreign, origin>>
  BY DEF CommitSession
<1> DEFINE s == [node |-> n, inputs |-> InputsOf(n, walked),
                 overlaid |-> overlaid, out |-> out, fallback |-> FALSE]
           t == [node |-> n, mine |-> TRUE, done |-> TRUE, step |-> s]
<1>3. /\ cursor \in 1..N /\ n = Order[cursor] /\ n \notin resumed
      /\ pc = "walk" /\ ckpt[n] = NoStep /\ n \notin tainted /\ n \notin impure
      /\ \A c \in Kids[n] : c \in Nodes /\ walked[c] # NoStep
  BY <1>1, HandFacts DEF InHand
<1>4. TypeOK
  BY DEF IInv
<1>5. s \in Step /\ t \in Receipt /\ s # NoStep
  <2>1. InputsOf(n, walked) \in UNION {[K -> Beams] : K \in SUBSET Nodes}
    BY <1>3, <1>4, InputsType DEF TypeOK
  <2>2. s \in Step
    BY <2>1, ValueAssumption DEF Step
  <2> QED BY <2>2, NoStepAssumption DEF Receipt, MaybeStep
<1>6. receipts' = Append(receipts, t)
  BY <1>1 DEF Record
<1>7. /\ receipts' \in Seq(Receipt) /\ Len(receipts) \in Nat
      /\ DOMAIN receipts = 1..Len(receipts)
      /\ DOMAIN receipts' = 1..(Len(receipts) + 1)
      /\ \A k \in DOMAIN receipts : receipts'[k] = receipts[k]
      /\ receipts'[i] = t
  BY <1>0, <1>4, <1>5, <1>6, AppendFacts DEF TypeOK
<1>8. walked'[n] = s /\ \A m \in Nodes : m # n => walked'[m] = walked[m]
  BY <1>1, <1>4 DEF TypeOK, Ledger
<1>9. \A m \in Nodes : m \in impure <=> m \in tainted
  BY <1>3 DEF IInv, TaintInv, InWalk
<1>10. Kids[n] \subseteq Nodes /\ n \notin Kids[n]
  BY NotOwnKid
<1>11. (Kids[n] \cap impure # {}) <=> RestsOnFallback(n)
  BY <1>9, <1>10 DEF RestsOnFallback
<1>12. IF RestsOnFallback(n)
         THEN impure' = impure \cup {n} /\ dirty' = dirty \cup {i}
         ELSE impure' = impure /\ dirty' = dirty
  BY <1>1, <1>11
<1>13. RestsOnFallback(n)' = RestsOnFallback(n)
  BY <1>2 DEF RestsOnFallback
<1>14. i \notin dirty /\ dirty' \subseteq dirty \cup {i}
  BY <1>0, <1>7, <1>12 DEF IInv, DirtyHasBadChild
<1>15. \A m \in Nodes : \A k : m # n /\ IsLatest(m, k) => IsLatest(m, k)'
  BY <1>4, <1>5, <1>6, OldLatest DEF TypeOK
<1>16. \A k \in DOMAIN receipts : Bad(k) => Bad(k)'
  BY <1>7, <1>12 DEF Bad
<1>17. IsLatest(n, i)' /\ i \in DOMAIN receipts'
  <2>1. IsLatest(t.node, i)'
    BY <1>0, <1>4, <1>5, <1>6, NewLatest DEF TypeOK, IsLatest
  <2> QED BY <1>0, <1>7, <2>1
<1>18. TypeOK'
  <2>1. walked' \in Ledger
    BY <1>1, <1>4, <1>5 DEF TypeOK, Ledger, MaybeStep
  <2>2. impure' \subseteq Nodes /\ dirty' \subseteq Nat
    BY <1>4, <1>7, <1>12 DEF TypeOK
  <2>3. prior' \subseteq Nodes \X Nat
    BY <1>1, <1>4, <1>7 DEF TypeOK
  <2> QED BY <1>2, <1>4, <1>7, <2>1, <2>2, <2>3 DEF TypeOK
<1>19. CheckpointSound'
  BY <1>2 DEF IInv, CheckpointSound, SoundLedger, InputsOf
<1>20. Provenance(ckpt, origin)'
  BY <1>0, <1>2, <1>3, <1>5, <1>6, <1>14, ProvenanceAppend
  DEF IInv, TypeOK, Provenance, IsLatest
<1>21. DirtyHasBadChild'
  <2>1. ASSUME RestsOnFallback(n)
        PROVE  \E c \in Kids[t.node] : c # t.node /\
                 \E j \in DOMAIN receipts : IsLatest(c, j) /\ Bad(j)
    <3>1. PICK c \in Kids[n] : c \in impure
      BY <1>11, <2>1
    <3>2. \E j \in DOMAIN receipts : IsLatest(c, j) /\ Bad(j)
      BY <1>3, <3>1 DEF IInv, TaintInv, InWalk
    <3> QED BY <1>10, <3>1, <3>2
  <2> QED BY <1>0, <1>4, <1>5, <1>6, <1>12, <2>1, DirtyAppend DEF IInv
<1>22. NewInv' /\ RecoverInv'
  BY <1>2 DEF NewInv, RecoverInv
<1>23. WalkInv'
  <2>1. WalkInv /\ InWalk
    BY <1>3 DEF IInv, InWalk
  <2>2. \A j \in 1..N : j < cursor => Order[j] # n /\ Order[j] \in Nodes
    BY <1>3, OrderFacts
  <2> QED BY <1>2, <1>3, <1>8, <2>1, <2>2 DEF WalkInv
<1>24. TaintInv'
  <2>1. \A m \in Nodes : m \in impure' <=> m \in tainted' \/ (m = n /\ RestsOnFallback(n))
    BY <1>2, <1>9, <1>12
  <2>2. \A c \in impure' : \E j \in DOMAIN receipts' : IsLatest(c, j)' /\ Bad(j)'
    <3> SUFFICES ASSUME NEW c \in impure'
                 PROVE  \E j \in DOMAIN receipts' : IsLatest(c, j)' /\ Bad(j)'
      OBVIOUS
    <3>1. CASE c = n
      <4>1. Bad(i)'
        BY <1>3, <1>12, <3>1 DEF Bad
      <4> QED BY <1>17, <3>1, <4>1
    <3>2. CASE c # n
      <4>1. c \in impure /\ c \in Nodes
        BY <1>4, <1>12, <3>2 DEF TypeOK
      <4>2. PICK j \in DOMAIN receipts : IsLatest(c, j) /\ Bad(j)
        BY <1>3, <4>1 DEF IInv, TaintInv, InWalk
      <4> QED BY <1>7, <1>15, <1>16, <3>2, <4>1, <4>2
    <3> QED BY <3>1, <3>2
  <2> QED BY <1>2, <1>3, <1>13, <2>1, <2>2 DEF TaintInv
<1>25. FinalizedInv'
  <2>1. InputsOf(n, walked') = InputsOf(n, walked)
    BY <1>8, <1>10 DEF InputsOf
  <2>2. i \in dirty' <=> RestsOnFallback(n)'
    BY <1>12, <1>13, <1>14
  <2>3. receipts'[i].done /\ receipts'[i].step = walked'[n]
    BY <1>7, <1>8
  <2>4. /\ n \notin resumed'
        /\ walked'[n] # NoStep /\ walked'[n].node = n /\ ~walked'[n].fallback
        /\ walked'[n].inputs = InputsOf(n, walked')
    BY <1>2, <1>3, <1>5, <1>8, <2>1
  <2>5. n = Order[cursor']
    BY <1>2, <1>3
  <2> QED BY <1>17, <2>2, <2>3, <2>4, <2>5 DEF FinalizedInv, InputsOf
<1> QED BY <1>18, <1>19, <1>20, <1>21, <1>22, <1>23, <1>24, <1>25 DEF IInv

\* The end of the loop body moves to the next node or ends the process.
LEMMA AdvanceFacts ==
  ASSUME NEW n \in Nodes, cursor \in 1..N, Advance(n)
  PROVE  /\ cursor' \in 1..N + 1
         /\ \/ pc' \in Ended
            \/ pc' = "walk" /\ cursor' = cursor + 1 /\ cursor' \in 1..N
BY OrderFacts DEF Advance, Ended

LEMMA FailSessionInv == IInv /\ FailSession => IInv'
<1> SUFFICES ASSUME IInv, FailSession PROVE IInv'
  OBVIOUS
<1> USE DEF recovery
<1>0. PICK i \in Nat : i = Len(receipts) + 1
  BY DEF IInv, TypeOK
<1>1. PICK n \in Nodes :
        /\ InHand(n)
        /\ Record(n, FALSE, NoStep)
        /\ failures' = failures + 1
        /\ IF failures' > MaxFailedNodes
             THEN pc' = "down" /\ UNCHANGED <<cursor, walked, tainted, impure>>
             ELSE /\ walked' = [walked EXCEPT ![n] =
                       [node |-> n, inputs |-> InputsOf(n, walked),
                        overlaid |-> FALSE, out |-> IdBeam, fallback |-> TRUE]]
                  /\ tainted' = tainted \cup {n} /\ impure' = impure \cup {n}
                  /\ Advance(n)
        /\ disruptions' = disruptions + 1
        /\ UNCHANGED <<ckpt, recovery, resumed, prior, stop, foreign, origin,
                       dirty>>
  BY DEF FailSession
<1> DEFINE s == [node |-> n, inputs |-> InputsOf(n, walked),
                 overlaid |-> FALSE, out |-> IdBeam, fallback |-> TRUE]
           t == [node |-> n, mine |-> TRUE, done |-> FALSE, step |-> NoStep]
<1>2. /\ cursor \in 1..N /\ n = Order[cursor] /\ n \notin resumed
      /\ pc = "walk" /\ ckpt[n] = NoStep /\ n \notin tainted /\ n \notin impure
      /\ \A c \in Kids[n] : c \in Nodes /\ walked[c] # NoStep
  BY <1>1, HandFacts DEF InHand
<1>3. TypeOK
  BY DEF IInv
<1>4. s \in Step /\ s # NoStep
  <2>1. InputsOf(n, walked) \in UNION {[K -> Beams] : K \in SUBSET Nodes}
    BY <1>2, <1>3, InputsType DEF TypeOK
  <2>2. s \in Step
    BY <2>1, ValueAssumption DEF Step
  <2> QED BY <2>2, NoStepAssumption
<1>5. t \in Receipt /\ receipts' = Append(receipts, t)
  BY <1>1 DEF Record, Receipt, MaybeStep
<1>6. /\ receipts' \in Seq(Receipt)
      /\ DOMAIN receipts = 1..Len(receipts)
      /\ DOMAIN receipts' = 1..(Len(receipts) + 1)
      /\ \A k \in DOMAIN receipts : receipts'[k] = receipts[k]
      /\ receipts'[i] = t
  BY <1>0, <1>3, <1>5, AppendFacts DEF TypeOK
<1>7. CheckpointSound'
  BY <1>1 DEF IInv, CheckpointSound, SoundLedger, InputsOf
<1>8. Provenance(ckpt, origin)'
  BY <1>1, <1>2, <1>5, ProvenanceAppend DEF IInv, TypeOK, Provenance, IsLatest
<1>9. DirtyHasBadChild'
  BY <1>1, <1>3, <1>5, DirtyAppend DEF IInv
<1>10. CASE failures' > MaxFailedNodes
  <2>1. TypeOK'
    BY <1>1, <1>3, <1>6, <1>10 DEF TypeOK, Ended
  <2>2. NewInv' /\ RecoverInv' /\ WalkInv' /\ TaintInv' /\ FinalizedInv'
    BY <1>1, <1>10, EndedInv DEF Ended
  <2> QED BY <1>7, <1>8, <1>9, <2>1, <2>2 DEF IInv
<1>11. CASE ~(failures' > MaxFailedNodes)
  <2>1. /\ walked' = [walked EXCEPT ![n] = s]
        /\ tainted' = tainted \cup {n} /\ impure' = impure \cup {n}
        /\ Advance(n)
    BY <1>1, <1>11
  <2>2. walked'[n] = s /\ \A m \in Nodes : m # n => walked'[m] = walked[m]
    BY <1>3, <2>1 DEF TypeOK, Ledger
  <2>3. /\ cursor' \in 1..N + 1
        /\ \/ pc' \in Ended
           \/ pc' = "walk" /\ cursor' = cursor + 1 /\ cursor' \in 1..N
    BY <1>2, <2>1, AdvanceFacts
  <2>4. TypeOK'
    <3>1. walked' \in Ledger
      BY <1>3, <1>4, <2>1 DEF TypeOK, Ledger, MaybeStep
    <3> QED BY <1>1, <1>3, <1>6, <2>1, <2>3, <3>1 DEF TypeOK
  <2>5. CASE pc' \in Ended
    <3>1. NewInv' /\ RecoverInv' /\ WalkInv' /\ TaintInv' /\ FinalizedInv'
      BY <2>5, EndedInv
    <3> QED BY <1>7, <1>8, <1>9, <2>4, <3>1 DEF IInv
  <2>6. CASE pc' = "walk" /\ cursor' = cursor + 1 /\ cursor' \in 1..N
    <3>1. NewInv' /\ RecoverInv' /\ FinalizedInv'
      BY <2>6 DEF NewInv, RecoverInv, FinalizedInv
    <3>2. WalkInv'
      <4>1. WalkInv /\ InWalk
        BY <1>2 DEF IInv, InWalk
      <4>2. \A j \in 1..N : Order[j] \in Nodes /\ (Order[j] = n <=> j = cursor)
        BY <1>2, OrderFacts
      <4>3. /\ \A m \in resumed' : ckpt'[m] # NoStep /\ m \notin tainted'
            /\ \A m \in resumed' : Kids[m] \subseteq resumed'
        BY <1>1, <1>2, <2>1, <4>1 DEF WalkInv
      <4>4. \A j \in 1..N : j < cursor' =>
              /\ walked'[Order[j]] # NoStep
              /\ Order[j] \notin tainted' => walked'[Order[j]] = ckpt'[Order[j]]
        BY <1>1, <1>2, <1>4, <2>1, <2>2, <2>6, <4>1, <4>2 DEF WalkInv
      <4>5. \A j \in 1..N : j >= cursor' =>
              /\ Order[j] \notin tainted'
              /\ Order[j] \notin resumed' => ckpt'[Order[j]] = NoStep
        BY <1>1, <1>2, <2>1, <2>6, <4>1, <4>2 DEF WalkInv
      <4> QED BY <2>6, <4>3, <4>4, <4>5 DEF WalkInv
    <3>3. TaintInv'
      <4>1. \A m \in Nodes : m \in impure' <=> m \in tainted'
        BY <1>2, <2>1 DEF IInv, TaintInv, InWalk
      <4>2. \A c \in impure' : \E j \in DOMAIN receipts' : IsLatest(c, j)' /\ Bad(j)'
        <5> SUFFICES ASSUME NEW c \in impure'
                     PROVE  \E j \in DOMAIN receipts' : IsLatest(c, j)' /\ Bad(j)'
          OBVIOUS
        <5>1. CASE c = n
          <6>1. IsLatest(t.node, i)'
            BY <1>0, <1>3, <1>5, <1>6, NewLatest DEF TypeOK, IsLatest
          <6>2. Bad(i)' /\ i \in DOMAIN receipts'
            BY <1>0, <1>3, <1>6 DEF Bad, TypeOK
          <6> QED BY <5>1, <6>1, <6>2
        <5>2. CASE c # n
          <6>1. c \in impure
            BY <2>1, <5>2
          <6>2. PICK j \in DOMAIN receipts : IsLatest(c, j) /\ Bad(j)
            BY <1>2, <6>1 DEF IInv, TaintInv, InWalk
          <6>3. IsLatest(c, j)'
            BY <1>3, <1>5, <5>2, <6>2, OldLatest DEF TypeOK
          <6>4. Bad(j)' /\ j \in DOMAIN receipts'
            BY <1>1, <1>6, <6>2 DEF Bad
          <6> QED BY <6>3, <6>4
        <5> QED BY <5>1, <5>2
      <4> QED BY <2>6, <4>1, <4>2 DEF TaintInv
    <3> QED BY <1>7, <1>8, <1>9, <2>4, <3>1, <3>2, <3>3 DEF IInv
  <2> QED BY <2>3, <2>5, <2>6
<1> QED BY <1>10, <1>11

LEMMA RestoreNodeInv == IInv /\ RestoreNode => IInv'
<1> SUFFICES ASSUME IInv, RestoreNode PROVE IInv'
  OBVIOUS
<1> USE DEF durable, recovery
<1> DEFINE n == Order[cursor]
<1>1. /\ pc = "walk" /\ n \in resumed
      /\ \/ walked' = [walked EXCEPT ![n] = ckpt[n]] /\ Advance(n)
         \/ pc' = "refused" /\ UNCHANGED <<walked, cursor>>
      /\ UNCHANGED <<durable, recovery, resumed, tainted, failures, prior,
                     impure, stop, disruptions, foreign, origin, dirty>>
  BY DEF RestoreNode
<1>2. cursor \in 1..N /\ n \in Nodes /\ WalkInv /\ InWalk
  BY <1>1, OrderFacts DEF IInv, WalkInv, InWalk
<1>3. CheckpointSound' /\ Provenance(ckpt, origin)' /\ DirtyHasBadChild'
  BY <1>1, FilesUnchanged DEF IInv
<1>4. /\ cursor' \in 1..N + 1
      /\ \/ pc' \in Ended
         \/ pc' = "walk" /\ cursor' = cursor + 1 /\ cursor' \in 1..N
            /\ walked' = [walked EXCEPT ![n] = ckpt[n]]
  <2>1. CASE walked' = [walked EXCEPT ![n] = ckpt[n]] /\ Advance(n)
    BY <1>2, <2>1, AdvanceFacts
  <2>2. CASE pc' = "refused" /\ UNCHANGED <<walked, cursor>>
    BY <1>2, <2>2, OrderFacts DEF Ended
  <2> QED BY <1>1, <2>1, <2>2
<1>5. TypeOK'
  <2>1. TypeOK
    BY DEF IInv
  <2>2. walked' \in Ledger
    BY <1>1, <1>2, <2>1 DEF TypeOK, Ledger
  <2>3. pc' \in {"walk"} \cup Ended
    BY <1>4
  <2> QED BY <1>1, <1>4, <2>1, <2>2, <2>3 DEF TypeOK
<1>6. CASE pc' \in Ended
  <2>1. NewInv' /\ RecoverInv' /\ WalkInv' /\ TaintInv' /\ FinalizedInv'
    BY <1>6, EndedInv
  <2> QED BY <1>3, <1>5, <2>1 DEF IInv
<1>7. CASE /\ pc' = "walk" /\ cursor' = cursor + 1 /\ cursor' \in 1..N
           /\ walked' = [walked EXCEPT ![n] = ckpt[n]]
  <2>1. NewInv' /\ RecoverInv' /\ FinalizedInv'
    BY <1>7 DEF NewInv, RecoverInv, FinalizedInv
  <2>2. walked'[n] = ckpt[n] /\ \A m \in Nodes : m # n => walked'[m] = walked[m]
    BY <1>2, <1>7 DEF IInv, TypeOK, Ledger
  <2>3. WalkInv'
    <3>1. \A j \in 1..N : Order[j] \in Nodes /\ (Order[j] = n <=> j = cursor)
      BY <1>2, OrderFacts
    <3>2. ckpt[n] # NoStep
      BY <1>1, <1>2 DEF WalkInv
    <3>3. \A j \in 1..N : j < cursor' =>
            /\ walked'[Order[j]] # NoStep
            /\ Order[j] \notin tainted' => walked'[Order[j]] = ckpt'[Order[j]]
      BY <1>1, <1>2, <1>7, <2>2, <3>1, <3>2 DEF WalkInv
    <3> QED BY <1>1, <1>2, <1>7, <3>1, <3>3 DEF WalkInv
  <2>4. TaintInv'
    BY <1>1, <1>2, <1>7 DEF IInv, TaintInv, InWalk, IsLatest, Bad
  <2> QED BY <1>3, <1>5, <2>1, <2>3, <2>4 DEF IInv
<1> QED BY <1>4, <1>6, <1>7

\* A finished step that rests on no fallback may join the ledger.
LEMMA SoundExtension ==
  ASSUME NEW d \in Ledger, SoundLedger(d), NEW n \in Nodes, d[n] = NoStep,
         NEW s \in Step, s.node = n, ~s.fallback,
         \A c \in Kids[n] : d[c] # NoStep,
         s.inputs = InputsOf(n, d),
         NEW e, e = [d EXCEPT ![n] = s]
  PROVE  SoundLedger(e)
<1>1. e[n] = s /\ s # NoStep /\ \A m \in Nodes : m # n => e[m] = d[m]
  BY NoStepAssumption DEF Ledger
<1> SUFFICES ASSUME NEW m \in Nodes, e[m] # NoStep
             PROVE  /\ e[m].node = m /\ ~e[m].fallback
                    /\ \A c \in Kids[m] : e[c] # NoStep
                    /\ e[m].inputs = [c \in Kids[m] |-> e[c].out]
  BY DEF SoundLedger, InputsOf
<1>2. Kids[m] \subseteq Nodes /\ m \notin Kids[m]
  BY NotOwnKid
<1>3. CASE m = n
  <2>1. \A c \in Kids[m] : e[c] = d[c]
    BY <1>1, <1>2, <1>3
  <2> QED BY <1>1, <1>3, <2>1 DEF InputsOf
<1>4. CASE m # n
  <2>1. /\ d[m].node = m /\ ~d[m].fallback
        /\ \A c \in Kids[m] : d[c] # NoStep
        /\ d[m].inputs = InputsOf(m, d)
    BY <1>1, <1>4 DEF SoundLedger
  <2>2. \A c \in Kids[m] : e[c] = d[c]
    BY <1>1, <1>2, <2>1
  <2> QED BY <1>1, <1>4, <2>1, <2>2 DEF InputsOf
<1> QED BY <1>3, <1>4

LEMMA SaveStepInv == IInv /\ SaveStep => IInv'
<1> SUFFICES ASSUME IInv, SaveStep PROVE IInv'
  OBVIOUS
<1> USE DEF recovery
<1> DEFINE n == Order[cursor]
<1>1. /\ pc = "finalized"
      /\ \/ RestsOnFallback(n) /\ tainted' = tainted \cup {n} /\ Advance(n)
            /\ UNCHANGED <<ckpt, origin>>
         \/ /\ ~RestsOnFallback(n) /\ ckpt[n] = NoStep
            /\ ckpt' = [ckpt EXCEPT ![n] = walked[n]]
            /\ \E i \in DOMAIN receipts :
                 IsLatest(n, i) /\ origin' = [origin EXCEPT ![n] = i]
            /\ Advance(n) /\ UNCHANGED tainted
         \/ pc' = "refused" /\ UNCHANGED <<tainted, ckpt, origin, cursor>>
      /\ UNCHANGED <<receipts, recovery, resumed, walked, failures, prior,
                     impure, stop, disruptions, foreign, dirty>>
  BY DEF SaveStep
<1>2. /\ TypeOK /\ cursor \in 1..N /\ n \in Nodes /\ WalkInv /\ InWalk
  BY <1>1, OrderFacts DEF IInv, WalkInv, InWalk
<1>3. PICK i \in DOMAIN receipts :
        /\ IsLatest(n, i) /\ receipts[i].done /\ receipts[i].step = walked[n]
        /\ i \in dirty <=> RestsOnFallback(n)
  BY <1>1 DEF IInv, FinalizedInv
<1>4. /\ n \notin resumed /\ n \notin tainted
      /\ walked[n] # NoStep /\ walked[n].node = n /\ ~walked[n].fallback
      /\ walked[n].inputs = InputsOf(n, walked)
  BY <1>1, <1>2 DEF IInv, FinalizedInv, WalkInv
<1>5. \A j \in 1..N : Order[j] \in Nodes /\ (Order[j] = n <=> j = cursor)
  BY <1>2, OrderFacts
<1>6. DirtyHasBadChild'
  BY <1>1 DEF IInv, DirtyHasBadChild, Bad
<1>7. \A m \in Nodes : m \in impure <=> m \in tainted \/ (m = n /\ RestsOnFallback(n))
  BY <1>1, <1>2 DEF IInv, TaintInv
<1>8. ASSUME pc' = "walk", \A m \in Nodes : m \in impure <=> m \in tainted'
      PROVE  TaintInv'
  <2>1. \A c \in impure : \E j \in DOMAIN receipts : IsLatest(c, j) /\ Bad(j)
    BY <1>2 DEF IInv, TaintInv
  <2> QED BY <1>1, <1>8, <2>1 DEF TaintInv, IsLatest, Bad
<1>9. pc' = "walk" => NewInv' /\ RecoverInv' /\ FinalizedInv'
  BY DEF NewInv, RecoverInv, FinalizedInv
<1>10. CASE RestsOnFallback(n) /\ tainted' = tainted \cup {n} /\ Advance(n)
            /\ UNCHANGED <<ckpt, origin>>
  <2>1. /\ cursor' \in 1..N + 1
        /\ \/ pc' \in Ended
           \/ pc' = "walk" /\ cursor' = cursor + 1 /\ cursor' \in 1..N
    BY <1>2, <1>10, AdvanceFacts
  <2>2. TypeOK'
    BY <1>1, <1>2, <1>10, <2>1 DEF TypeOK
  <2>3. CheckpointSound' /\ Provenance(ckpt, origin)'
    BY <1>1, <1>10, FilesUnchanged DEF IInv
  <2>4. CASE pc' \in Ended
    BY <1>6, <2>2, <2>3, <2>4, EndedInv DEF IInv
  <2>5. CASE pc' = "walk" /\ cursor' = cursor + 1 /\ cursor' \in 1..N
    <3>1. WalkInv'
      BY <1>1, <1>2, <1>4, <1>5, <1>10, <2>5 DEF WalkInv
    <3>2. TaintInv'
      BY <1>7, <1>8, <1>10, <2>5
    <3> QED BY <1>6, <1>9, <2>2, <2>3, <2>5, <3>1, <3>2 DEF IInv
  <2> QED BY <2>1, <2>4, <2>5
<1>11. CASE /\ ~RestsOnFallback(n) /\ ckpt[n] = NoStep
            /\ ckpt' = [ckpt EXCEPT ![n] = walked[n]]
            /\ \E k \in DOMAIN receipts :
                 IsLatest(n, k) /\ origin' = [origin EXCEPT ![n] = k]
            /\ Advance(n) /\ UNCHANGED tainted
  <2>1. /\ cursor' \in 1..N + 1
        /\ \/ pc' \in Ended
           \/ pc' = "walk" /\ cursor' = cursor + 1 /\ cursor' \in 1..N
    BY <1>2, <1>11, AdvanceFacts
  <2>2. origin' = [origin EXCEPT ![n] = i] /\ i \in Nat
    <3>1. PICK k \in DOMAIN receipts :
            IsLatest(n, k) /\ origin' = [origin EXCEPT ![n] = k]
      BY <1>11
    <3>2. k = i /\ i \in Nat
      BY <1>2, <1>3, <3>1 DEF IsLatest, TypeOK
    <3> QED BY <3>1, <3>2
  <2>3. walked[n] \in Step /\ ckpt' \in Ledger
    BY <1>2, <1>4, <1>11 DEF TypeOK, Ledger, MaybeStep
  <2>4. TypeOK'
    BY <1>1, <1>2, <1>11, <2>1, <2>2, <2>3 DEF TypeOK
  <2>5. \A c \in Kids[n] : ckpt[c] # NoStep /\ walked[c] = ckpt[c]
    <3> SUFFICES ASSUME NEW c \in Kids[n]
                 PROVE  ckpt[c] # NoStep /\ walked[c] = ckpt[c]
      OBVIOUS
    <3>1. PICK j \in 1..N : j < cursor /\ Order[j] = c
      BY <1>2, KidsBefore, OrderFacts
    <3>2. c \notin tainted
      BY <1>11 DEF RestsOnFallback
    <3> QED BY <1>2, <3>1, <3>2 DEF WalkInv
  <2>6. walked[n].inputs = InputsOf(n, ckpt)
    BY <1>4, <2>5 DEF InputsOf
  <2>7. SoundLedger(ckpt')
    BY <1>2, <1>4, <1>11, <2>3, <2>5, <2>6, SoundExtension
    DEF IInv, CheckpointSound, TypeOK
  <2>8. CheckpointSound'
    BY <2>7 DEF CheckpointSound, SoundLedger, InputsOf
  <2>9. /\ ckpt'[n] = walked[n] /\ origin'[n] = i
        /\ \A m \in Nodes : m # n => ckpt'[m] = ckpt[m] /\ origin'[m] = origin[m]
    BY <1>2, <1>11, <2>2 DEF TypeOK, Ledger
  <2>10. Provenance(ckpt, origin)'
    <3>1. Provenance(ckpt, origin)
      BY DEF IInv
    <3> QED BY <1>1, <1>3, <1>11, <2>9, <3>1 DEF Provenance, IsLatest
  <2>11. CASE pc' \in Ended
    BY <1>6, <2>4, <2>8, <2>10, <2>11, EndedInv DEF IInv
  <2>12. CASE pc' = "walk" /\ cursor' = cursor + 1 /\ cursor' \in 1..N
    <3>1. WalkInv'
      <4>1. /\ \A m \in resumed' : ckpt'[m] # NoStep /\ m \notin tainted'
            /\ \A m \in resumed' : Kids[m] \subseteq resumed'
        BY <1>1, <1>2, <1>4, <1>11, <2>9 DEF WalkInv, TypeOK
      <4>2. \A j \in 1..N : j < cursor' =>
              /\ walked'[Order[j]] # NoStep
              /\ Order[j] \notin tainted' => walked'[Order[j]] = ckpt'[Order[j]]
        BY <1>1, <1>2, <1>4, <1>5, <1>11, <2>9, <2>12 DEF WalkInv
      <4>3. \A j \in 1..N : j >= cursor' =>
              /\ Order[j] \notin tainted'
              /\ Order[j] \notin resumed' => ckpt'[Order[j]] = NoStep
        BY <1>1, <1>2, <1>5, <1>11, <2>9, <2>12 DEF WalkInv
      <4> QED BY <2>12, <4>1, <4>2, <4>3 DEF WalkInv
    <3>2. TaintInv'
      BY <1>7, <1>8, <1>11, <2>12
    <3> QED BY <1>6, <1>9, <2>4, <2>8, <2>10, <2>12, <3>1, <3>2 DEF IInv
  <2> QED BY <2>1, <2>11, <2>12
<1>12. CASE pc' = "refused" /\ UNCHANGED <<tainted, ckpt, origin, cursor>>
  <2>1. TypeOK'
    BY <1>1, <1>2, <1>12 DEF TypeOK, Ended
  <2>2. CheckpointSound' /\ Provenance(ckpt, origin)'
    BY <1>1, <1>12, FilesUnchanged DEF IInv
  <2> QED BY <1>6, <1>12, <2>1, <2>2, EndedInv DEF IInv, Ended
<1> QED BY <1>1, <1>10, <1>11, <1>12

-----------------------------------------------------------------------------
(* What follows for every run *)

LEMMA NextInv == IInv /\ [Next]_vars => IInv'
<1> SUFFICES ASSUME IInv, [Next]_vars PROVE IInv'
  OBVIOUS
<1>1. CASE Start               BY <1>1, StartInv
<1>2. CASE Resume              BY <1>2, ResumeInv
<1>3. CASE RecoverNode         BY <1>3, RecoverNodeInv
<1>4. CASE RecoverDone         BY <1>4, RecoverDoneInv
<1>5. CASE RestoreNode         BY <1>5, RestoreNodeInv
<1>6. CASE CommitSession       BY <1>6, CommitSessionInv
<1>7. CASE SaveStep            BY <1>7, SaveStepInv
<1>8. CASE FailSession         BY <1>8, FailSessionInv
<1>9. CASE InterruptSession    BY <1>9, InterruptSessionInv
<1>10. CASE Crash              BY <1>10, CrashInv
<1>11. CASE OtherRunAppends    BY <1>11, OtherRunAppendsInv
<1>12. CASE UNCHANGED vars     BY <1>12, StutterInv
<1> QED
  BY <1>1, <1>2, <1>3, <1>4, <1>5, <1>6, <1>7, <1>8, <1>9, <1>10, <1>11, <1>12
  DEF Next

\* The inductive invariant holds in every reachable state.
THEOREM Invariance == Spec => []IInv
<1> QED BY InitInv, NextInv, PTL DEF Spec

\* Every variable stays in its domain (all state of cli.py's infer command and
\* traverser.py's walk).
THEOREM TypeCorrect == Spec => []TypeOK
<1>1. IInv => TypeOK
  BY DEF IInv
<1> QED BY <1>1, Invariance, PTL

\* The checkpoint file is a sound ledger after any sequence of failures,
\* crashes, resumes and recoveries (checkpoint.py, cli.py save_step and
\* _recover_finalized_steps).
THEOREM CheckpointAlwaysSound == Spec => []CheckpointSound
<1>1. IInv => CheckpointSound
  BY DEF IInv
<1> QED BY <1>1, Invariance, PTL

\* No step computed over a fallback reaches the checkpoint (traverser.py's
\* fallback_tainted, cli.py's receipt order check).
THEOREM NothingLaundered == Spec => []NoLaundering
<1>1. IInv => NoLaundering
  BY DEF IInv, Provenance, IsLatest, NoLaundering
<1> QED BY <1>1, Invariance, PTL

\* One step of the run is a step of the abstract ledger or leaves it alone.
LEMMA LedgerStep ==
  IInv /\ IInv' /\ [Next]_vars => [LedgerView!Record]_ckpt
<1> SUFFICES ASSUME IInv, IInv', [Next]_vars, ckpt' # ckpt
             PROVE  LedgerView!Record
  OBVIOUS
<1>1. SoundLedger(ckpt)'
  BY DEF IInv, CheckpointSound
<1>2. CASE RecoverDone
  <2>1. \A n \in Nodes : ckpt[n] # NoStep => ckpt'[n] = ckpt[n]
    BY <1>2 DEF RecoverDone, IInv, RecoverInv
  <2> QED BY <1>1, <2>1 DEF LedgerView!Record, SoundLedger, InputsOf
<1>3. CASE SaveStep
  <2>1. \A n \in Nodes : ckpt[n] # NoStep => ckpt'[n] = ckpt[n]
    BY <1>3 DEF SaveStep, IInv, TypeOK, Ledger
  <2> QED BY <1>1, <2>1 DEF LedgerView!Record, SoundLedger, InputsOf
<1>4. CASE Start \/ Resume \/ RecoverNode \/ RestoreNode \/ CommitSession
  BY <1>4 DEF Start, Resume, RecoverNode, RestoreNode, CommitSession, durable
<1>5. CASE FailSession \/ InterruptSession \/ Crash \/ OtherRunAppends
  BY <1>5 DEF FailSession, InterruptSession, Crash, OtherRunAppends, durable
<1>6. CASE UNCHANGED vars
  BY <1>6 DEF vars, durable
<1> QED BY <1>2, <1>3, <1>4, <1>5, <1>6 DEF Next

\* The run implements the abstract ledger: what is checkpointed stays as it
\* is for good and is sound at every moment.
THEOREM LedgerRefinement == Spec => ImplementsLedger
<1>1. Init => LedgerView!Init
  BY DEF Init, LedgerView!Init
<1> QED BY <1>1, Invariance, LedgerStep, PTL DEF Spec, ImplementsLedger, LedgerView!Spec

-----------------------------------------------------------------------------
(* Without segmentation overlays every resume is accepted *)

\* No step anywhere was scored on re-segmented beams, and no resume has been
\* refused.
Plain(s) == s # NoStep => ~s.overlaid

AcceptedInv ==
  /\ pc # "refused"
  /\ \A n \in Nodes : Plain(ckpt[n]) /\ Plain(draft[n]) /\ Plain(walked[n])
  /\ \A i \in DOMAIN receipts : Plain(receipts[i].step)

LEMMA AcceptedStep ==
  ASSUME Overlays = {FALSE}, IInv, AcceptedInv, [Next]_vars
  PROVE  AcceptedInv'
<1> USE DEF durable, recovery, walk
<1>1. CASE Start \/ Resume \/ Crash \/ UNCHANGED vars
  BY <1>1 DEF Start, Resume, Crash, vars, AcceptedInv, Plain
<1>2. CASE RecoverNode
  <2> DEFINE n == Order[cursor]
  <2>1. /\ pc = "recover" /\ cursor \in 1..N /\ n \in Nodes
        /\ UNCHANGED <<ckpt, walked, receipts>>
        /\ RecoverKnown(n) \/ RecoverAdopt(n) \/ RecoverSkip(n)
    BY <1>2, OrderFacts DEF IInv, TypeOK, RecoverNode
  <2>2. CASE RecoverKnown(n)
    <3>1. draft[n] # NoStep => InputsMatch(draft[n], draft)
      BY <2>1 DEF IInv, RecoverInv, SoundLedger, InputsMatch, AcceptedInv, Plain
    <3>2. pc' = pc /\ draft' = draft
      BY <2>2, <3>1 DEF RecoverKnown
    <3> QED BY <2>1, <3>2 DEF AcceptedInv
  <2>3. CASE RecoverAdopt(n)
    <3>1. PICK i \in DOMAIN receipts :
            draft' = [draft EXCEPT ![n] = receipts[i].step] /\ pc' = pc
      BY <2>3 DEF RecoverAdopt
    <3>2. \A m \in Nodes : Plain(draft'[m])
      BY <3>1 DEF IInv, TypeOK, Ledger, AcceptedInv
    <3> QED BY <2>1, <3>1, <3>2 DEF AcceptedInv
  <2>4. CASE RecoverSkip(n)
    BY <2>1, <2>4 DEF RecoverSkip, AcceptedInv
  <2> QED BY <2>1, <2>2, <2>3, <2>4
<1>3. CASE RecoverDone
  BY <1>3 DEF RecoverDone, AcceptedInv, Plain
<1>4. CASE RestoreNode
  <2> DEFINE n == Order[cursor]
  <2>1. cursor \in 1..N /\ n \in Nodes /\ n \in resumed /\ WalkInv /\ InWalk
    BY <1>4, OrderFacts DEF RestoreNode, IInv, WalkInv, InWalk
  <2>2. ckpt[n] # NoStep /\ Kids[n] \subseteq resumed
    BY <2>1 DEF WalkInv
  <2>3. /\ ckpt[n].node = n /\ ~ckpt[n].fallback
        /\ ckpt[n].inputs = InputsOf(n, ckpt)
    BY <2>1, <2>2 DEF IInv, CheckpointSound, SoundLedger
  <2>4. \A c \in Kids[n] : walked[c] = ckpt[c]
    <3> SUFFICES ASSUME NEW c \in Kids[n] PROVE walked[c] = ckpt[c]
      OBVIOUS
    <3>1. PICK j \in 1..N : j < cursor /\ Order[j] = c
      BY <2>1, KidsBefore, OrderFacts
    <3> QED BY <2>1, <2>2, <3>1 DEF WalkInv
  <2>5. InputsMatch(ckpt[n], walked)
    BY <2>1, <2>2, <2>3, <2>4 DEF InputsMatch, InputsOf, AcceptedInv, Plain
  <2>6. walked' = [walked EXCEPT ![n] = ckpt[n]] /\ Advance(n)
    BY <1>4, <2>2, <2>3, <2>5 DEF RestoreNode
  <2>7. \A m \in Nodes : Plain(walked'[m])
    BY <2>1, <2>6 DEF IInv, TypeOK, Ledger, AcceptedInv
  <2>8. pc' # "refused" /\ UNCHANGED <<ckpt, draft, receipts>>
    BY <1>4, <2>6 DEF RestoreNode, Advance
  <2> QED BY <2>7, <2>8 DEF AcceptedInv
<1>5. CASE SaveStep
  <2> DEFINE n == Order[cursor]
  <2>1. cursor \in 1..N /\ n \in Nodes /\ n \notin resumed /\ WalkInv /\ InWalk
    BY <1>5, OrderFacts DEF SaveStep, IInv, WalkInv, FinalizedInv, InWalk
  <2>2. ckpt[n] = NoStep
    BY <2>1 DEF WalkInv
  <2>3. pc' # "refused" /\ UNCHANGED <<draft, walked, receipts>>
    BY <1>5, <2>2 DEF SaveStep, Advance
  <2>4. \A m \in Nodes : Plain(ckpt'[m])
    BY <1>5, <2>1 DEF SaveStep, IInv, TypeOK, Ledger, AcceptedInv
  <2> QED BY <2>3, <2>4 DEF AcceptedInv
<1>6. CASE CommitSession
  <2> DEFINE Committed(n, s) ==
               /\ s.overlaid = FALSE
               /\ walked' = [walked EXCEPT ![n] = s]
               /\ receipts' = Append(receipts,
                    [node |-> n, mine |-> TRUE, done |-> TRUE, step |-> s])
  <2>0. PICK n \in Nodes : \E s : Committed(n, s)
    BY <1>6 DEF CommitSession, Record
  <2>1. PICK s : Committed(n, s)
    BY <2>0
  <2>2. pc' # "refused" /\ UNCHANGED <<ckpt, draft>>
    BY <1>6 DEF CommitSession
  <2>3. \A m \in Nodes : Plain(walked'[m])
    BY <2>1 DEF IInv, TypeOK, Ledger, AcceptedInv, Plain
  <2>4. \A i \in DOMAIN receipts' : Plain(receipts'[i].step)
    BY <2>1 DEF IInv, TypeOK, AcceptedInv, Plain
  <2> QED BY <2>2, <2>3, <2>4 DEF AcceptedInv
<1>7. CASE FailSession
  <2>1. PICK n \in Nodes :
          /\ receipts' = Append(receipts,
               [node |-> n, mine |-> TRUE, done |-> FALSE, step |-> NoStep])
          /\ \/ walked' = walked
             \/ walked' = [walked EXCEPT ![n] =
                  [node |-> n, inputs |-> InputsOf(n, walked),
                   overlaid |-> FALSE, out |-> IdBeam, fallback |-> TRUE]]
    BY <1>7 DEF FailSession, Record
  <2>2. pc' # "refused" /\ UNCHANGED <<ckpt, draft>>
    BY <1>7 DEF FailSession, Advance
  <2>3. \A m \in Nodes : Plain(walked'[m])
    BY <2>1 DEF IInv, TypeOK, Ledger, AcceptedInv, Plain
  <2>4. \A i \in DOMAIN receipts' : Plain(receipts'[i].step)
    BY <2>1 DEF IInv, TypeOK, AcceptedInv, Plain
  <2> QED BY <2>2, <2>3, <2>4 DEF AcceptedInv
<1>8. CASE InterruptSession
  <2>1. PICK n \in Nodes : receipts' = Append(receipts,
          [node |-> n, mine |-> TRUE, done |-> FALSE, step |-> NoStep])
    BY <1>8 DEF InterruptSession, Record
  <2>2. \A i \in DOMAIN receipts' : Plain(receipts'[i].step)
    BY <2>1 DEF IInv, TypeOK, AcceptedInv, Plain
  <2> QED BY <1>8, <2>2 DEF InterruptSession, AcceptedInv
<1>9. CASE OtherRunAppends
  <2>1. PICK n \in Nodes, out \in Beams : receipts' = Append(receipts,
          [node |-> n, mine |-> FALSE, done |-> TRUE,
           step |-> [node |-> n, inputs |-> [c \in Kids[n] |-> IdBeam],
                     overlaid |-> FALSE, out |-> out, fallback |-> FALSE]])
    BY <1>9 DEF OtherRunAppends
  <2>2. \A i \in DOMAIN receipts' : Plain(receipts'[i].step)
    BY <2>1 DEF IInv, TypeOK, AcceptedInv, Plain
  <2> QED BY <1>9, <2>2 DEF OtherRunAppends, AcceptedInv
<1> QED
  BY <1>1, <1>2, <1>3, <1>4, <1>5, <1>6, <1>7, <1>8, <1>9 DEF Next

\* If no commit names a segmentation overlay, a checkpoint this code wrote is
\* always accepted by a resume that changed nothing (cli.py:1133,
\* traverser.py:137-156, checkpoint.py with_step).
THEOREM ResumeAccepted ==
  ASSUME Overlays = {FALSE}
  PROVE  Spec => []NeverRefused
<1>1. Init => AcceptedInv
  BY DEF Init, AcceptedInv, Plain
<1>2. IInv /\ AcceptedInv /\ [Next]_vars => AcceptedInv'
  BY AcceptedStep
<1>3. AcceptedInv => NeverRefused
  BY DEF AcceptedInv, NeverRefused
<1> QED BY <1>1, <1>2, <1>3, Invariance, PTL DEF Spec

-----------------------------------------------------------------------------
(* The checkpoint at the end of a walk *)

\* What is tainted is not saved; at the end, all else is.
CompleteInv ==
  /\ InWalk => \A n \in tainted : ckpt[n] = NoStep
  /\ CompleteCheckpoint

\* A walk that is about to end has saved every node that is not tainted.
LEMMA AllWalked ==
  ASSUME IInv, InWalk, cursor = N, NEW n \in Nodes, n # Order[N], n \notin tainted
  PROVE  ckpt[n] # NoStep
<1>1. PICK j \in 1..N : Order[j] = n
  BY OrderFacts
<1>2. j < cursor
  BY <1>1, OrderFacts
<1> QED BY <1>1, <1>2 DEF IInv, WalkInv

LEMMA CompleteStep ==
  ASSUME IInv, CompleteInv, [Next]_vars
  PROVE  CompleteInv'
<1> USE DEF durable, recovery, walk
<1> DEFINE n == Order[cursor]
<1>1. CASE Start \/ Resume \/ RecoverNode \/ RecoverDone \/ CommitSession
  <2>1. pc' # "complete"
    BY <1>1 DEF Start, Resume, RecoverNode, RecoverKnown, RecoverAdopt, RecoverSkip,
               RecoverDone, CommitSession
  <2>2. CASE Start
    BY <2>2 DEF Start, CompleteInv, CompleteCheckpoint, IInv, NewInv
  <2>3. CASE RecoverDone
    BY <2>3 DEF RecoverDone, CompleteInv, CompleteCheckpoint
  <2>4. CASE CommitSession
    <3>1. pc = "walk"
      BY <2>4 DEF CommitSession, InHand
    <3> QED BY <2>1, <2>4, <3>1 DEF CommitSession, CompleteInv, CompleteCheckpoint, InWalk
  <2>5. CASE Resume \/ RecoverNode
    <3>1. ~InWalk'
      BY <2>5 DEF Resume, RecoverNode, RecoverKnown, RecoverAdopt, RecoverSkip, InWalk
    <3> QED BY <2>1, <3>1 DEF CompleteInv, CompleteCheckpoint
  <2> QED BY <1>1, <2>2, <2>3, <2>4, <2>5
<1>2. CASE InterruptSession \/ Crash
  BY <1>2 DEF InterruptSession, Crash, CompleteInv, CompleteCheckpoint, InWalk
<1>3. CASE OtherRunAppends \/ UNCHANGED vars
  BY <1>3 DEF OtherRunAppends, vars, CompleteInv, CompleteCheckpoint, InWalk
<1>4. CASE RestoreNode
  <2>1. /\ pc = "walk" /\ InWalk /\ cursor \in 1..N /\ n \in Nodes /\ n \in resumed
        /\ UNCHANGED <<ckpt, tainted, impure>>
    BY <1>4, OrderFacts DEF RestoreNode, IInv, WalkInv, InWalk
  <2>2. \A m \in tainted : ckpt[m] = NoStep
    BY <2>1 DEF CompleteInv
  <2>3. ASSUME pc' = "complete" PROVE \A m \in Nodes : ckpt[m] = NoStep <=> m \in impure
    <3>1. cursor = N
      BY <1>4, <2>3 DEF RestoreNode, Advance
    <3>2. \A m \in Nodes : m \in impure <=> m \in tainted
      BY <2>1 DEF IInv, TaintInv
    <3>3. ckpt[n] # NoStep /\ n \notin tainted
      BY <2>1 DEF IInv, WalkInv
    <3> QED BY <2>1, <2>2, <3>1, <3>2, <3>3, AllWalked
  <2> QED BY <2>1, <2>2, <2>3 DEF CompleteInv, CompleteCheckpoint
<1>5. CASE FailSession
  <2>1. PICK m \in Nodes :
          /\ InHand(m)
          /\ \/ pc' = "down" /\ UNCHANGED <<tainted, impure>>
             \/ tainted' = tainted \cup {m} /\ impure' = impure \cup {m} /\ Advance(m)
    BY <1>5 DEF FailSession
  <2>2. ckpt' = ckpt
    BY <1>5 DEF FailSession
  <2>3. /\ cursor \in 1..N /\ m = n /\ InWalk /\ pc = "walk" /\ ckpt[m] = NoStep
    BY <2>1, HandFacts DEF InHand, InWalk
  <2>4. \A k \in tainted' : ckpt'[k] = NoStep
    BY <2>1, <2>2, <2>3 DEF CompleteInv
  <2>5. ASSUME pc' = "complete" PROVE \A k \in Nodes : ckpt[k] = NoStep <=> k \in impure'
    <3>1. cursor = N /\ impure' = impure \cup {m}
      BY <2>1, <2>5 DEF Advance
    <3>2. \A k \in Nodes : k \in impure <=> k \in tainted
      BY <2>3 DEF IInv, TaintInv
    <3>3. \A k \in tainted : ckpt[k] = NoStep
      BY <2>3 DEF CompleteInv
    <3> QED BY <2>3, <3>1, <3>2, <3>3, AllWalked
  <2> QED BY <2>2, <2>4, <2>5 DEF CompleteInv, CompleteCheckpoint
<1>6. CASE SaveStep
  <2>1. /\ pc = "finalized" /\ InWalk /\ cursor \in 1..N /\ n \in Nodes
        /\ n \notin resumed /\ walked[n] # NoStep /\ impure' = impure
    BY <1>6, OrderFacts DEF SaveStep, IInv, WalkInv, FinalizedInv, InWalk
  <2>2. ckpt[n] = NoStep /\ n \notin tainted
    BY <2>1 DEF IInv, WalkInv
  <2>3. \A m \in tainted : ckpt[m] = NoStep
    BY <2>1 DEF CompleteInv
  <2>4. \A m \in Nodes : m \in impure <=> m \in tainted \/ (m = n /\ RestsOnFallback(n))
    BY <2>1 DEF IInv, TaintInv
  <2>5. CASE RestsOnFallback(n)
    <3>1. tainted' = tainted \cup {n} /\ Advance(n) /\ ckpt' = ckpt
      BY <1>6, <2>5 DEF SaveStep
    <3>2. pc' = "complete" => cursor = N
      BY <3>1 DEF Advance
    <3> QED BY <2>1, <2>2, <2>3, <2>4, <2>5, <3>1, <3>2, AllWalked
            DEF CompleteInv, CompleteCheckpoint
  <2>6. CASE ~RestsOnFallback(n)
    <3>1. tainted' = tainted /\ Advance(n) /\ ckpt' = [ckpt EXCEPT ![n] = walked[n]]
      BY <1>6, <2>2, <2>6 DEF SaveStep
    <3>2. ckpt'[n] # NoStep /\ \A m \in Nodes : m # n => ckpt'[m] = ckpt[m]
      BY <2>1, <3>1 DEF IInv, TypeOK, Ledger
    <3>3. pc' = "complete" => cursor = N
      BY <3>1 DEF Advance
    <3>4. tainted \subseteq Nodes
      BY DEF IInv, TypeOK
    <3> QED BY <2>1, <2>2, <2>3, <2>4, <2>6, <3>1, <3>2, <3>3, <3>4, AllWalked
            DEF CompleteInv, CompleteCheckpoint
  <2> QED BY <2>5, <2>6
<1> QED BY <1>1, <1>2, <1>3, <1>4, <1>5, <1>6 DEF Next

\* A walk that reached the root saved every node but those that failed or rest
\* on one that did (traverser.py's fallback_tainted, cli.py's save_step).
THEOREM CheckpointComplete == Spec => []CompleteCheckpoint
<1>1. Init => CompleteInv
  BY DEF Init, CompleteInv, CompleteCheckpoint, InWalk
<1>2. IInv /\ CompleteInv /\ [Next]_vars => CompleteInv'
  BY CompleteStep
<1>3. CompleteInv => CompleteCheckpoint
  BY DEF CompleteInv
<1> QED BY <1>1, <1>2, <1>3, Invariance, PTL DEF Spec
-----------------------------------------------------------------------------
(* The hypotheses later nodes read *)

\* The hypotheses kept for n come from its last record, whose step is s.
Told(n, s) ==
  /\ \E p \in prior : p[1] = n
  /\ \A p \in prior : p[1] = n => IsLatest(n, p[2]) /\ receipts[p[2]].step = s

\* The same of the hypotheses and the records after a step.
ToldNext(n, s) ==
  /\ \E p \in prior' : p[1] = n
  /\ \A p \in prior' : p[1] = n => IsLatest(n, p[2])' /\ receipts'[p[2]].step = s

\* Of the nodes to be restored the hypotheses are those of the checkpoint; of
\* the others there are none before the node has been walked.
SeedInv ==
  InWalk =>
    /\ \A n \in resumed : Told(n, ckpt[n]) /\ walked[n] \in {NoStep, ckpt[n]}
    /\ \A n \in Nodes : n \notin resumed /\ walked[n] = NoStep
                         => \A p \in prior : p[1] # n
    /\ \A j \in 1..N : j > cursor \/ (j = cursor /\ pc = "walk")
                       => walked[Order[j]] = NoStep

\* A walked node has the hypotheses of its step, a fallback none.
MatchInv ==
  InWalk \/ pc = "complete" =>
    \A n \in Nodes : walked[n] # NoStep =>
      IF walked[n].fallback THEN \A p \in prior : p[1] # n ELSE Told(n, walked[n])

NewProcessInv ==
  pc = "new" => prior = {} /\ \A n \in Nodes : walked[n] = NoStep

HistoryInv == SeedInv /\ MatchInv /\ NewProcessInv

\* A record that is not of this run, or is of another node, leaves what is
\* told of n as it was.
LEMMA ToldAppend ==
  ASSUME receipts \in Seq(Receipt), NEW t \in Receipt,
         receipts' = Append(receipts, t),
         NEW n, t.node # n \/ ~t.mine,
         \A p : p[1] = n => (p \in prior' <=> p \in prior)
  PROVE  \A s : Told(n, s) => ToldNext(n, s)
<1>1. \A i : IsLatest(n, i) => IsLatest(n, i)'
  BY OldLatest
<1>2. \A i : IsLatest(n, i) => receipts'[i] = receipts[i]
  BY AppendFacts DEF IsLatest
<1> QED BY <1>1, <1>2 DEF Told, ToldNext

\* What the recovery seeds is the last record of each node it recovered.
LEMMA SeedsTold ==
  ASSUME IInv, pc = "recover", NEW n \in Nodes
  PROVE  IF draft[n] = NoStep THEN \A p \in Seeds : p[1] # n
         ELSE /\ \E p \in Seeds : p[1] = n
              /\ \A p \in Seeds : p[1] = n => IsLatest(n, p[2])
                                            /\ receipts[p[2]].step = draft[n]
<1>1. CASE draft[n] = NoStep
  BY <1>1 DEF Seeds, Qualifies
<1>2. CASE draft[n] # NoStep
  <2> DEFINE o == draftOrigin[n]
  <2>1. IsLatest(n, o) /\ receipts[o].done /\ receipts[o].step = draft[n]
    BY <1>2 DEF IInv, RecoverInv, Provenance
  <2>2. o \in DOMAIN receipts /\ Qualifies(n, o)
    BY <1>2, <2>1 DEF Qualifies, IsLatest
  <2>3. \A j \in DOMAIN receipts : Qualifies(n, j) => j <= o
    BY <2>1 DEF Qualifies, IsLatest
  <2>4. <<n, o>> \in Seeds
    BY <2>2, <2>3 DEF Seeds
  <2>5. \A p \in Seeds : p[1] = n => p[2] = o
    <3> SUFFICES ASSUME NEW p \in Seeds, p[1] = n PROVE p[2] = o
      OBVIOUS
    <3>1. /\ p[2] \in DOMAIN receipts /\ Qualifies(n, p[2])
          /\ \A j \in DOMAIN receipts : Qualifies(n, j) => j <= p[2]
      BY DEF Seeds
    <3>2. p[2] <= o /\ o <= p[2]
      BY <2>2, <2>3, <3>1
    <3>3. p[2] \in Nat /\ o \in Nat
      BY <2>2, <3>1 DEF IInv, TypeOK
    <3> QED BY <3>2, <3>3
  <2> QED BY <1>2, <2>1, <2>4, <2>5
<1> QED BY <1>1, <1>2

LEMMA HistoryStep ==
  ASSUME IInv, HistoryInv, [Next]_vars
  PROVE  HistoryInv'
<1> USE DEF durable, recovery, walk
<1> DEFINE n == Order[cursor]
<1>1. CASE UNCHANGED vars
  BY <1>1 DEF vars, HistoryInv, SeedInv, MatchInv, NewProcessInv, Told, IsLatest, InWalk
<1>2. CASE Start
  <2>1. prior = {} /\ (\A m \in Nodes : walked[m] = NoStep) /\ resumed = {}
    BY <1>2 DEF Start, HistoryInv, NewProcessInv, IInv, NewInv
  <2>2. UNCHANGED <<prior, walked, resumed>> /\ pc' = "walk"
    BY <1>2 DEF Start
  <2>3. SeedInv'
    BY <2>1, <2>2, OrderFacts DEF SeedInv
  <2> QED BY <2>1, <2>2, <2>3 DEF HistoryInv, MatchInv, NewProcessInv
<1>3. CASE Resume \/ RecoverNode \/ Crash \/ InterruptSession
  <2>1. pc' \in {"recover", "refused", "down"}
    BY <1>3 DEF Resume, RecoverNode, RecoverKnown, RecoverAdopt, RecoverSkip, Crash,
               InterruptSession
  <2> QED BY <2>1 DEF HistoryInv, SeedInv, MatchInv, NewProcessInv, InWalk
<1>4. CASE RecoverDone
  <2>1. /\ pc = "recover" /\ pc' = "walk" /\ ckpt' = draft /\ prior' = Seeds
        /\ resumed' = {m \in Nodes : draft[m] # NoStep}
        /\ walked' = [m \in Nodes |-> NoStep] /\ receipts' = receipts
    BY <1>4 DEF RecoverDone
  <2>2. \A m \in Nodes :
          IF draft[m] = NoStep THEN \A p \in prior' : p[1] # m
          ELSE /\ \E p \in prior' : p[1] = m
               /\ \A p \in prior' : p[1] = m => IsLatest(m, p[2])'
                                             /\ receipts'[p[2]].step = draft[m]
    BY <2>1, SeedsTold DEF IsLatest
  <2>3. SeedInv'
    BY <2>1, <2>2, OrderFacts DEF SeedInv, Told
  <2> QED BY <2>1, <2>3 DEF HistoryInv, MatchInv, NewProcessInv
<1>5. CASE RestoreNode
  <2>1. /\ pc = "walk" /\ InWalk /\ cursor \in 1..N /\ n \in Nodes /\ n \in resumed
        /\ UNCHANGED <<ckpt, receipts, prior, resumed>>
    BY <1>5, OrderFacts DEF RestoreNode, IInv, WalkInv, InWalk
  <2>2. CASE pc' = "refused"
    BY <2>2 DEF HistoryInv, SeedInv, MatchInv, NewProcessInv, InWalk
  <2>3. CASE pc' # "refused"
    <3>1. walked' = [walked EXCEPT ![n] = ckpt[n]] /\ Advance(n) /\ ~ckpt[n].fallback
      BY <1>5, <2>3 DEF RestoreNode
    <3>2. walked'[n] = ckpt[n] /\ \A m \in Nodes : m # n => walked'[m] = walked[m]
      BY <2>1, <3>1 DEF IInv, TypeOK, Ledger
    <3>3. \A m \in Nodes : \A s : Told(m, s) => Told(m, s)'
      BY <2>1 DEF Told, IsLatest
    <3>4. MatchInv'
      BY <2>1, <3>1, <3>2, <3>3 DEF HistoryInv, SeedInv, MatchInv
    <3>5. SeedInv'
      <4> SUFFICES ASSUME InWalk' PROVE SeedInv'
        BY DEF SeedInv
      <4>1. pc' = "walk" /\ cursor' = cursor + 1
        BY <3>1 DEF Advance, InWalk
      <4>2. \A m \in resumed' : Told(m, ckpt[m])' /\ walked'[m] \in {NoStep, ckpt'[m]}
        BY <2>1, <3>2, <3>3 DEF HistoryInv, SeedInv, IInv, TypeOK
      <4>3. \A m \in Nodes : m \notin resumed' /\ walked'[m] = NoStep
                             => \A p \in prior' : p[1] # m
        BY <2>1, <3>2 DEF HistoryInv, SeedInv
      <4>4. \A j \in 1..N : j >= cursor' => Order[j] \in Nodes /\ Order[j] # n /\ j > cursor
        BY <2>1, <4>1, OrderFacts
      <4>5. \A j \in 1..N : j >= cursor' => walked'[Order[j]] = NoStep
        BY <2>1, <3>2, <4>4 DEF HistoryInv, SeedInv
      <4> QED BY <2>1, <4>1, <4>2, <4>3, <4>5 DEF SeedInv
    <3>6. NewProcessInv'
      BY <3>1 DEF Advance, NewProcessInv
    <3> QED BY <3>4, <3>5, <3>6 DEF HistoryInv
  <2> QED BY <2>2, <2>3
<1>6. CASE SaveStep
  <2>1. /\ pc = "finalized" /\ InWalk /\ cursor \in 1..N /\ n \in Nodes
        /\ n \notin resumed /\ walked[n] # NoStep
        /\ UNCHANGED <<receipts, prior, resumed, walked>>
    BY <1>6, OrderFacts DEF SaveStep, IInv, WalkInv, FinalizedInv, InWalk
  <2>2. \A m \in resumed : ckpt'[m] = ckpt[m]
    BY <1>6, <2>1 DEF SaveStep, IInv, TypeOK, Ledger
  <2>3. \A m \in Nodes : \A s : Told(m, s) => Told(m, s)'
    BY <2>1 DEF Told, IsLatest
  <2>4. MatchInv'
    BY <2>1, <2>3 DEF HistoryInv, MatchInv
  <2>5. pc' # "new" /\ (InWalk' => pc' = "walk" /\ cursor' = cursor + 1)
    BY <1>6 DEF SaveStep, Advance, InWalk
  <2>6. SeedInv'
    <3> SUFFICES ASSUME InWalk' PROVE SeedInv'
      BY DEF SeedInv
    <3>1. \A m \in resumed' : Told(m, ckpt[m])' /\ walked'[m] \in {NoStep, ckpt'[m]}
      BY <2>1, <2>2, <2>3 DEF HistoryInv, SeedInv, IInv, TypeOK
    <3>2. \A j \in 1..N : j >= cursor' => j > cursor
      BY <2>1, <2>5
    <3>3. \A j \in 1..N : j > cursor' \/ (j = cursor' /\ pc' = "walk")
                           => walked'[Order[j]] = NoStep
      BY <2>1, <2>5, <3>2 DEF HistoryInv, SeedInv
    <3> QED BY <2>1, <3>1, <3>3 DEF HistoryInv, SeedInv
  <2> QED BY <2>4, <2>5, <2>6 DEF HistoryInv, NewProcessInv
<1>7. CASE CommitSession
  <2>0. PICK i \in Nat : i = Len(receipts) + 1
    BY DEF IInv, TypeOK
  <2>1. PICK m \in Nodes, out \in Beams, overlaid \in Overlays :
          LET s == [node |-> m, inputs |-> InputsOf(m, walked),
                    overlaid |-> overlaid, out |-> out, fallback |-> FALSE]
          IN /\ InHand(m) /\ Record(m, TRUE, s)
             /\ walked' = [walked EXCEPT ![m] = s]
             /\ prior' = {p \in prior : p[1] # m} \cup {<<m, i>>}
    BY <1>7, <2>0 DEF CommitSession
  <2> DEFINE s == [node |-> m, inputs |-> InputsOf(m, walked),
                   overlaid |-> overlaid, out |-> out, fallback |-> FALSE]
             t == [node |-> m, mine |-> TRUE, done |-> TRUE, step |-> s]
  <2>2. pc' = "finalized" /\ UNCHANGED <<ckpt, cursor, resumed>>
    BY <1>7 DEF CommitSession
  <2>3. /\ pc = "walk" /\ InWalk /\ cursor \in 1..N /\ m = n /\ m \notin resumed
        /\ \A c \in Kids[m] : c \in Nodes /\ walked[c] # NoStep
    BY <2>1, HandFacts DEF InHand, InWalk
  <2>4. s \in Step /\ t \in Receipt /\ s # NoStep
    <3>1. InputsOf(m, walked) \in UNION {[K -> Beams] : K \in SUBSET Nodes}
      BY <2>3, InputsType DEF IInv, TypeOK
    <3>2. s \in Step
      BY <3>1, ValueAssumption DEF Step
    <3> QED BY <3>2, NoStepAssumption DEF Receipt, MaybeStep
  <2>5. receipts \in Seq(Receipt) /\ receipts' = Append(receipts, t) /\ receipts'[i] = t
    BY <2>0, <2>1, <2>4 DEF Record, IInv, TypeOK
  <2>6. IsLatest(m, i)'
    <3>1. IsLatest(t.node, i)'
      BY <2>0, <2>4, <2>5, NewLatest
    <3> QED BY <3>1
  <2>7. walked'[m] = s /\ \A k \in Nodes : k # m => walked'[k] = walked[k]
    BY <2>1 DEF IInv, TypeOK, Ledger
  <2>8. ToldNext(m, s)
    <3>1. \A p \in prior' : p[1] = m => p[2] = i
      BY <2>1
    <3>2. <<m, i>> \in prior'
      BY <2>1
    <3>3. \A p \in prior' : p[1] = m => IsLatest(m, p[2])'
      <4> SUFFICES ASSUME NEW p \in prior', p[1] = m PROVE IsLatest(m, p[2])'
        OBVIOUS
      <4>1. p[2] = i
        BY <3>1
      <4> QED BY <2>6, <4>1
    <3>4. t.step = s
      OBVIOUS
    <3>5. \A p \in prior' : p[1] = m => receipts'[p[2]].step = s
      BY <2>5, <3>1, <3>4
    <3>6. \E p \in prior' : p[1] = m
      BY <3>2
    <3> HIDE DEF s
    <3> QED BY <3>3, <3>5, <3>6 DEF ToldNext
  <2>9. \A k \in Nodes : k # m => \A r : Told(k, r) => ToldNext(k, r)
    <3> SUFFICES ASSUME NEW k \in Nodes, k # m
                 PROVE  \A r : Told(k, r) => ToldNext(k, r)
      OBVIOUS
    <3>1. t.node # k /\ \A p : p[1] = k => (p \in prior' <=> p \in prior)
      BY <2>1
    <3> HIDE DEF t
    <3> QED BY <2>4, <2>5, <3>1, ToldAppend
  <2>10. MatchInv'
    <3> SUFFICES ASSUME NEW k \in Nodes, walked'[k] # NoStep
                 PROVE  IF walked'[k].fallback THEN \A p \in prior' : p[1] # k
                        ELSE ToldNext(k, walked'[k])
      BY DEF MatchInv, Told, ToldNext
    <3>1. CASE k = m
      <4>1. ~s.fallback
        OBVIOUS
      <4> QED BY <2>7, <2>8, <3>1, <4>1
    <3>2. CASE k # m
      <4>1. IF walked[k].fallback THEN \A p \in prior : p[1] # k
            ELSE Told(k, walked[k])
        BY <2>3, <2>7, <3>2 DEF HistoryInv, MatchInv
      <4> QED BY <2>1, <2>7, <2>9, <3>2, <4>1
    <3> QED BY <3>1, <3>2
  <2>11. SeedInv'
    <3>1. \A k \in resumed' : Told(k, ckpt[k])' /\ walked'[k] \in {NoStep, ckpt'[k]}
      <4> SUFFICES ASSUME NEW k \in resumed
                   PROVE  ToldNext(k, ckpt[k]) /\ walked'[k] \in {NoStep, ckpt[k]}
        BY <2>2 DEF Told, ToldNext
      <4>1. k \in Nodes /\ k # m
        BY <2>3 DEF IInv, TypeOK
      <4> QED BY <2>3, <2>7, <2>9, <4>1 DEF HistoryInv, SeedInv
    <3>2. \A k \in Nodes : k \notin resumed' /\ walked'[k] = NoStep
                           => \A p \in prior' : p[1] # k
      BY <2>1, <2>2, <2>3, <2>4, <2>7 DEF HistoryInv, SeedInv
    <3>3. \A j \in 1..N : j > cursor => Order[j] \in Nodes /\ Order[j] # m
      BY <2>3, OrderFacts
    <3>4. \A j \in 1..N : j > cursor => walked'[Order[j]] = NoStep
      BY <2>3, <2>7, <3>3 DEF HistoryInv, SeedInv
    <3> QED BY <2>2, <3>1, <3>2, <3>4 DEF SeedInv
  <2> QED BY <2>2, <2>10, <2>11 DEF HistoryInv, NewProcessInv
<1>8. CASE FailSession
  <2>1. PICK m \in Nodes :
          /\ InHand(m) /\ Record(m, FALSE, NoStep)
          /\ \/ pc' = "down"
             \/ /\ walked' = [walked EXCEPT ![m] =
                     [node |-> m, inputs |-> InputsOf(m, walked),
                      overlaid |-> FALSE, out |-> IdBeam, fallback |-> TRUE]]
                /\ Advance(m)
    BY <1>8 DEF FailSession
  <2> DEFINE s == [node |-> m, inputs |-> InputsOf(m, walked),
                   overlaid |-> FALSE, out |-> IdBeam, fallback |-> TRUE]
             t == [node |-> m, mine |-> TRUE, done |-> FALSE, step |-> NoStep]
  <2>2. CASE pc' = "down"
    BY <2>2 DEF HistoryInv, SeedInv, MatchInv, NewProcessInv, InWalk
  <2>3. CASE pc' # "down"
    <3>1. UNCHANGED <<ckpt, resumed, prior>>
      BY <1>8 DEF FailSession
    <3>2. pc = "walk" /\ InWalk /\ cursor \in 1..N /\ m = n /\ m \notin resumed
          /\ \A c \in Kids[m] : c \in Nodes /\ walked[c] # NoStep
      BY <2>1, HandFacts DEF InHand, InWalk
    <3>3. walked' = [walked EXCEPT ![m] = s] /\ Advance(m)
      BY <2>1, <2>3
    <3>4. walked'[m] = s /\ \A k \in Nodes : k # m => walked'[k] = walked[k]
      BY <3>3 DEF IInv, TypeOK, Ledger
    <3>5. s # NoStep
      <4>1. InputsOf(m, walked) \in UNION {[K -> Beams] : K \in SUBSET Nodes}
        BY <3>2, InputsType DEF IInv, TypeOK
      <4>2. s \in Step
        BY <4>1, ValueAssumption DEF Step
      <4> QED BY <4>2, NoStepAssumption
    <3>6. t \in Receipt /\ receipts \in Seq(Receipt) /\ receipts' = Append(receipts, t)
      BY <2>1 DEF Record, Receipt, MaybeStep, IInv, TypeOK
    <3>7. \A k \in Nodes : k # m => \A r : Told(k, r) => ToldNext(k, r)
      <4> SUFFICES ASSUME NEW k \in Nodes, k # m
                   PROVE  \A r : Told(k, r) => ToldNext(k, r)
        OBVIOUS
      <4>1. t.node # k
        OBVIOUS
      <4> HIDE DEF t
      <4> QED BY <3>1, <3>6, <4>1, ToldAppend
    <3>8. \A p \in prior : p[1] # m
      BY <3>2 DEF HistoryInv, SeedInv
    <3>9. MatchInv'
      <4> SUFFICES ASSUME NEW k \in Nodes, walked'[k] # NoStep
                   PROVE  IF walked'[k].fallback THEN \A p \in prior' : p[1] # k
                          ELSE ToldNext(k, walked'[k])
        BY DEF MatchInv, Told, ToldNext
      <4>1. CASE k = m
        <5>1. s.fallback
          OBVIOUS
        <5> QED BY <3>1, <3>4, <3>8, <4>1, <5>1
      <4>2. CASE k # m
        <5>1. IF walked[k].fallback THEN \A p \in prior : p[1] # k
              ELSE Told(k, walked[k])
          BY <3>2, <3>4, <4>2 DEF HistoryInv, MatchInv
        <5> QED BY <3>1, <3>4, <3>7, <4>2, <5>1
      <4> QED BY <4>1, <4>2
    <3>10. SeedInv'
      <4> SUFFICES ASSUME InWalk' PROVE SeedInv'
        BY DEF SeedInv
      <4>1. pc' = "walk" /\ cursor' = cursor + 1
        BY <3>3 DEF Advance, InWalk
      <4>2. \A k \in resumed' : Told(k, ckpt[k])' /\ walked'[k] \in {NoStep, ckpt'[k]}
        <5> SUFFICES ASSUME NEW k \in resumed
                     PROVE  ToldNext(k, ckpt[k]) /\ walked'[k] \in {NoStep, ckpt[k]}
          BY <3>1 DEF Told, ToldNext
        <5>1. k \in Nodes /\ k # m
          BY <3>2 DEF IInv, TypeOK
        <5> QED BY <3>2, <3>4, <3>7, <5>1 DEF HistoryInv, SeedInv
      <4>3. \A k \in Nodes : k \notin resumed' /\ walked'[k] = NoStep
                             => \A p \in prior' : p[1] # k
        BY <3>1, <3>2, <3>4, <3>5 DEF HistoryInv, SeedInv
      <4>4. \A j \in 1..N : j >= cursor' => Order[j] \in Nodes /\ Order[j] # m /\ j > cursor
        BY <3>2, <4>1, OrderFacts
      <4>5. \A j \in 1..N : j >= cursor' => walked'[Order[j]] = NoStep
        BY <3>2, <3>4, <4>4 DEF HistoryInv, SeedInv
      <4> QED BY <3>2, <4>1, <4>2, <4>3, <4>5 DEF SeedInv
    <3>11. NewProcessInv'
      BY <3>3 DEF Advance, NewProcessInv
    <3> QED BY <3>9, <3>10, <3>11 DEF HistoryInv
  <2> QED BY <2>2, <2>3
<1>9. CASE OtherRunAppends
  <2>1. UNCHANGED <<ckpt, pc, cursor, resumed, walked, prior>>
    BY <1>9 DEF OtherRunAppends
  <2>2. \A k \in Nodes : \A r : Told(k, r) => Told(k, r)'
    <3>1. PICK m \in Nodes, out \in Beams :
            receipts' = Append(receipts,
              [node |-> m, mine |-> FALSE, done |-> TRUE,
               step |-> [node |-> m, inputs |-> [c \in Kids[m] |-> IdBeam],
                         overlaid |-> FALSE, out |-> out, fallback |-> FALSE]])
      BY <1>9 DEF OtherRunAppends
    <3> DEFINE s == [node |-> m, inputs |-> [c \in Kids[m] |-> IdBeam],
                     overlaid |-> FALSE, out |-> out, fallback |-> FALSE]
               t == [node |-> m, mine |-> FALSE, done |-> TRUE, step |-> s]
    <3>2. s \in Step
      <4>1. [c \in Kids[m] |-> IdBeam] \in [Kids[m] -> Beams]
        BY ValueAssumption
      <4>2. Kids[m] \in SUBSET Nodes
        BY NotOwnKid
      <4>3. [c \in Kids[m] |-> IdBeam] \in UNION {[K -> Beams] : K \in SUBSET Nodes}
        BY <4>1, <4>2
      <4> QED BY <4>3 DEF Step
    <3>3. t \in Receipt /\ receipts' = Append(receipts, t) /\ ~t.mine
          /\ receipts \in Seq(Receipt)
      BY <3>1, <3>2 DEF Receipt, MaybeStep, IInv, TypeOK
    <3> SUFFICES ASSUME NEW k \in Nodes PROVE \A r : Told(k, r) => ToldNext(k, r)
      BY DEF Told, ToldNext
    <3> HIDE DEF t
    <3> QED BY <2>1, <3>3, ToldAppend
  <2> QED BY <2>1, <2>2 DEF HistoryInv, SeedInv, MatchInv, NewProcessInv, InWalk, IInv, TypeOK
<1> QED BY <1>1, <1>2, <1>3, <1>4, <1>5, <1>6, <1>7, <1>8, <1>9 DEF Next

\* A later node reads exactly the hypotheses of the attempts that produced the
\* beams it is given (cli.py:1013-1018, agent/reconstructor.py:217-249).
THEOREM HypothesesProduceBeams == Spec => []HypothesesMatchBeams
<1>1. Init => HistoryInv
  BY DEF Init, HistoryInv, SeedInv, MatchInv, NewProcessInv, InWalk
<1>2. IInv /\ HistoryInv /\ [Next]_vars => HistoryInv'
  BY HistoryStep
<1>3. IInv /\ HistoryInv => HypothesesMatchBeams
  <2> SUFFICES ASSUME IInv, HistoryInv, InWalk \/ pc = "complete",
                      NEW n \in Nodes, walked[n] # NoStep, ~walked[n].fallback,
                      NEW p \in prior, p[1] = n
               PROVE  /\ receipts[p[2]].mine
                      /\ \A j \in p[2] + 1..Len(receipts) :
                           ~(receipts[j].mine /\ receipts[j].node = n)
    BY DEF HypothesesMatchBeams, HistoryInv, MatchInv, Told, InWalk
  <2>1. IsLatest(n, p[2])
    BY DEF HistoryInv, MatchInv, Told
  <2>2. p[2] \in Nat /\ p[2] \in 1..Len(receipts) /\ Len(receipts) \in Nat
        /\ DOMAIN receipts = 1..Len(receipts)
    BY <2>1 DEF IsLatest, IInv, TypeOK
  <2> QED BY <2>1, <2>2 DEF IsLatest
<1> QED BY <1>1, <1>2, <1>3, Invariance, PTL DEF Spec

-----------------------------------------------------------------------------
(* Without segmentation overlays no finalized session is run again *)

\* Record i is a session of this run that finalized n over real
\* reconstructions.
Clean(n, i) ==
  /\ i \in DOMAIN receipts
  /\ receipts[i].mine /\ receipts[i].node = n /\ receipts[i].done
  /\ i \notin dirty

Unsaved(n, i) == Clean(n, i) /\ ckpt[n] = NoStep

\* A clean record the checkpoint lacks is one a recovery can adopt: the last
\* of its node, on the children's checkpointed beams, and later than theirs.
UnsavedInv ==
  \A n \in Nodes, i \in DOMAIN receipts : Unsaved(n, i) =>
    LET step == receipts[i].step IN
    /\ IsLatest(n, i)
    /\ step # NoStep /\ step.node = n /\ ~step.fallback
    /\ step.inputs = InputsOf(n, ckpt)
    /\ \A c \in Kids[n] : ckpt[c] # NoStep /\ origin[c] < i

\* In a walk only the node in hand has one, between its record and its save.
HandInv ==
  InWalk => \A n \in Nodes, i \in DOMAIN receipts :
              Unsaved(n, i) => pc = "finalized" /\ n = Order[cursor]

\* The recovery has closed the gaps behind it, and trusts what it has.
ClosedInv ==
  pc = "recover" =>
    \A j \in 1..N : j < cursor =>
      /\ \A i \in DOMAIN receipts : Clean(Order[j], i) => draft[Order[j]] # NoStep
      /\ draft[Order[j]] # NoStep => Order[j] \in safe

FreshInv == pc = "new" => \A i \in DOMAIN receipts : ~receipts[i].mine

ReplayInv == UnsavedInv /\ HandInv /\ ClosedInv /\ FreshInv

\* Facts about the files survive a step that does not touch them.
LEMMA UnsavedUnchanged ==
  ASSUME UnsavedInv, UNCHANGED <<ckpt, receipts, origin, dirty>>
  PROVE  UnsavedInv'
BY DEF UnsavedInv, Unsaved, Clean, IsLatest, InputsOf

\* With no clean record unsaved there is nothing to show of the files.
LEMMA NothingUnsaved ==
  ASSUME \A n \in Nodes, i \in DOMAIN receipts' : ~Unsaved(n, i)',
         pc' \notin {"recover", "new"}
  PROVE  ReplayInv'
BY DEF ReplayInv, UnsavedInv, HandInv, ClosedInv, FreshInv

\* Appending a record that is not a finalized session of this run makes no
\* record clean.
LEMMA CleanAppend ==
  ASSUME receipts \in Seq(Receipt), NEW t \in Receipt,
         receipts' = Append(receipts, t), ~t.mine \/ ~t.done, dirty' = dirty,
         NEW n, NEW i, Clean(n, i)'
  PROVE  Clean(n, i) /\ receipts'[i] = receipts[i]
BY AppendFacts DEF Clean

\* What the recovery has of a node's children it trusts, if it has them all.
LEMMA KidsTrusted ==
  ASSUME IInv, ClosedInv, pc = "recover", cursor \in 1..N,
         \A c \in Kids[Order[cursor]] : draft[c] # NoStep
  PROVE  Kids[Order[cursor]] \subseteq safe
<1> SUFFICES ASSUME NEW c \in Kids[Order[cursor]] PROVE c \in safe
  OBVIOUS
<1>1. PICK j \in 1..N : j < cursor /\ Order[j] = c
  BY KidsBefore
<1> QED BY <1>1 DEF ClosedInv

\* A clean record of the node in hand that the draft lacks can be adopted.
LEMMA CleanAdoptable ==
  ASSUME IInv, AcceptedInv, ReplayInv, pc = "recover", cursor \in 1..N,
         draft[Order[cursor]] = NoStep,
         NEW i \in DOMAIN receipts, Clean(Order[cursor], i)
  PROVE  Kids[Order[cursor]] \subseteq safe /\ Adoptable(Order[cursor], i)
<1> DEFINE n == Order[cursor]
           step == receipts[i].step
<1>1. n \in Nodes /\ Kids[n] \subseteq Nodes
  BY OrderFacts, NotOwnKid
<1>2. Unsaved(n, i)
  BY <1>1 DEF IInv, RecoverInv, Unsaved
<1>3. /\ IsLatest(n, i)
      /\ step # NoStep /\ step.node = n /\ ~step.fallback
      /\ step.inputs = InputsOf(n, ckpt)
      /\ \A c \in Kids[n] : ckpt[c] # NoStep /\ origin[c] < i
  BY <1>1, <1>2 DEF ReplayInv, UnsavedInv
<1>4. \A c \in Kids[n] : draft[c] # NoStep /\ draft[c] = ckpt[c]
  BY <1>1, <1>3 DEF IInv, RecoverInv
<1>5. InputsMatch(step, draft)
  BY <1>3, <1>4 DEF InputsMatch, InputsOf, AcceptedInv, Plain
<1>6. \A c \in Kids[n] : \E j \in DOMAIN receipts :
        /\ IsLatest(c, j) /\ receipts[j].done /\ receipts[j].step = draft[c]
        /\ j < i
  BY <1>1, <1>3, <1>4 DEF IInv, Provenance, IsLatest
<1>7. receipts[i].done
  BY DEF Clean
<1>8. Kids[n] \subseteq safe
  BY <1>4, KidsTrusted DEF ReplayInv
<1> QED BY <1>3, <1>5, <1>6, <1>7, <1>8 DEF Adoptable

LEMMA ReplayRecover ==
  ASSUME IInv, AcceptedInv, ReplayInv, RecoverNode
  PROVE  ReplayInv'
<1> USE DEF durable, walk
<1> DEFINE n == Order[cursor]
<1>1. /\ pc = "recover" /\ cursor \in 1..N /\ n \in Nodes
      /\ UNCHANGED <<ckpt, receipts, origin, dirty>>
      /\ RecoverKnown(n) \/ RecoverAdopt(n) \/ RecoverSkip(n)
  BY OrderFacts DEF IInv, TypeOK, RecoverNode
<1>2. pc' # "new" /\ ~InWalk'
  BY <1>1 DEF RecoverKnown, RecoverAdopt, RecoverSkip, InWalk
<1>3. ASSUME pc' = "recover"
      PROVE  /\ cursor' = cursor + 1 /\ safe \subseteq safe'
             /\ \A m \in Nodes : m # n => draft'[m] = draft[m]
             /\ draft[n] # NoStep => draft'[n] = draft[n] /\ n \in safe'
             /\ draft'[n] # NoStep => n \in safe'
             /\ \A i \in DOMAIN receipts : Clean(n, i) => draft'[n] # NoStep
  <2>1. CASE RecoverKnown(n)
    <3>1. draft' = draft /\ draft[n] # NoStep
      BY <2>1 DEF RecoverKnown
    <3>2. ~draft[n].fallback /\ \A c \in Kids[n] : draft[c] # NoStep
      BY <1>1, <3>1 DEF IInv, RecoverInv, SoundLedger
    <3>3. Kids[n] \subseteq safe
      BY <1>1, <3>2, KidsTrusted DEF ReplayInv
    <3>4. safe' = safe \cup {n} /\ cursor' = cursor + 1
      BY <1>1, <1>3, <2>1, <3>2, <3>3 DEF RecoverKnown
    <3> QED BY <3>1, <3>4
  <2>2. CASE RecoverAdopt(n)
    <3>1. PICK i \in DOMAIN receipts :
            Adoptable(n, i) /\ draft' = [draft EXCEPT ![n] = receipts[i].step]
      BY <2>2 DEF RecoverAdopt
    <3>2. /\ draft[n] = NoStep /\ safe' = safe \cup {n} /\ cursor' = cursor + 1
      BY <2>2 DEF RecoverAdopt
    <3>3. draft'[n] # NoStep /\ \A m \in Nodes : m # n => draft'[m] = draft[m]
      BY <1>1, <3>1 DEF Adoptable, IInv, TypeOK, Ledger
    <3> QED BY <3>2, <3>3
  <2>3. CASE RecoverSkip(n)
    <3>1. /\ draft[n] = NoStep /\ draft' = draft /\ safe' = safe /\ cursor' = cursor + 1
          /\ ~(Kids[n] \subseteq safe /\ \E i \in DOMAIN receipts : Adoptable(n, i))
      BY <2>3 DEF RecoverSkip
    <3>2. \A i \in DOMAIN receipts : ~Clean(n, i)
      BY <1>1, <3>1, CleanAdoptable
    <3> QED BY <3>1, <3>2
  <2> QED BY <1>1, <2>1, <2>2, <2>3
<1>4. ClosedInv'
  <2> SUFFICES ASSUME pc' = "recover", NEW j \in 1..N, j < cursor'
               PROVE  /\ \A i \in DOMAIN receipts :
                           Clean(Order[j], i) => draft'[Order[j]] # NoStep
                      /\ draft'[Order[j]] # NoStep => Order[j] \in safe'
    BY <1>1 DEF ClosedInv, Clean
  <2>1. CASE j = cursor
    BY <1>3, <2>1
  <2>2. CASE j # cursor
    <3>1. j < cursor /\ Order[j] \in Nodes /\ Order[j] # n
      BY <1>1, <1>3, <2>2, OrderFacts
    <3> QED BY <1>1, <1>3, <3>1 DEF ReplayInv, ClosedInv
  <2> QED BY <2>1, <2>2
<1> QED BY <1>1, <1>2, <1>4, UnsavedUnchanged DEF ReplayInv, HandInv, FreshInv

LEMMA ReplayCommit ==
  ASSUME IInv, ReplayInv, CommitSession
  PROVE  ReplayInv'
<1>0. PICK i \in Nat : i = Len(receipts) + 1
  BY DEF IInv, TypeOK
<1>1. PICK m \in Nodes, out \in Beams, overlaid \in Overlays :
        LET s == [node |-> m, inputs |-> InputsOf(m, walked),
                  overlaid |-> overlaid, out |-> out, fallback |-> FALSE]
        IN /\ InHand(m) /\ Record(m, TRUE, s)
           /\ IF Kids[m] \cap impure # {} THEN dirty' = dirty \cup {i}
              ELSE UNCHANGED dirty
  BY <1>0 DEF CommitSession
<1> DEFINE s == [node |-> m, inputs |-> InputsOf(m, walked),
                 overlaid |-> overlaid, out |-> out, fallback |-> FALSE]
           t == [node |-> m, mine |-> TRUE, done |-> TRUE, step |-> s]
<1>2. pc' = "finalized" /\ UNCHANGED <<ckpt, cursor, origin>>
  BY DEF CommitSession
<1>3. /\ pc = "walk" /\ InWalk /\ cursor \in 1..N /\ m = Order[cursor]
      /\ \A c \in Kids[m] : c \in Nodes /\ walked[c] # NoStep
  BY <1>1, HandFacts DEF InHand, InWalk
<1>4. s \in Step /\ t \in Receipt /\ s # NoStep
  <2>1. InputsOf(m, walked) \in UNION {[K -> Beams] : K \in SUBSET Nodes}
    BY <1>3, InputsType DEF IInv, TypeOK
  <2>2. s \in Step
    BY <2>1, ValueAssumption DEF Step
  <2> QED BY <2>2, NoStepAssumption DEF Receipt, MaybeStep
<1>5. /\ receipts \in Seq(Receipt) /\ receipts' = Append(receipts, t)
      /\ Len(receipts) \in Nat /\ DOMAIN receipts = 1..Len(receipts)
      /\ DOMAIN receipts' = 1..i /\ receipts'[i] = t
      /\ \A k \in DOMAIN receipts : receipts'[k] = receipts[k]
  BY <1>0, <1>1, <1>4 DEF Record, IInv, TypeOK
<1>6. ASSUME NEW n \in Nodes, NEW k \in DOMAIN receipts', Unsaved(n, k)'
      PROVE  n = m /\ k = i /\ Kids[m] \cap impure = {}
  <2>1. CASE k # i
    <3>1. k \in DOMAIN receipts /\ receipts'[k] = receipts[k]
      BY <1>5, <2>1
    <3>2. dirty \subseteq dirty'
      BY <1>1
    <3>3. Unsaved(n, k)
      BY <1>2, <1>6, <3>1, <3>2 DEF Unsaved, Clean
    <3> QED BY <1>3, <3>1, <3>3 DEF ReplayInv, HandInv
  <2>2. CASE k = i
    <3>1. i \notin dirty' /\ receipts'[i].node = n
      BY <1>6, <2>2 DEF Unsaved, Clean
    <3>2. t.node = m
      OBVIOUS
    <3> QED BY <1>1, <1>5, <2>2, <3>1, <3>2
  <2> QED BY <2>1, <2>2
<1>7. HandInv'
  BY <1>2, <1>3, <1>6 DEF HandInv
<1>8. UnsavedInv'
  <2> SUFFICES ASSUME NEW n \in Nodes, NEW k \in DOMAIN receipts', Unsaved(n, k)'
               PROVE  /\ IsLatest(n, k)'
                      /\ receipts'[k].step # NoStep /\ receipts'[k].step.node = n
                      /\ ~receipts'[k].step.fallback
                      /\ receipts'[k].step.inputs = InputsOf(n, ckpt)
                      /\ \A c \in Kids[n] : ckpt[c] # NoStep /\ origin[c] < k
    BY <1>2 DEF UnsavedInv, InputsOf
  <2>1. n = m /\ k = i /\ Kids[m] \cap impure = {}
    BY <1>6
  <2>2. IsLatest(n, k)'
    <3>1. IsLatest(t.node, i)'
      BY <1>0, <1>4, <1>5, NewLatest
    <3> QED BY <2>1, <3>1
  <2>3. \A c \in Kids[m] : c \notin tainted
    BY <1>3, <2>1 DEF IInv, TaintInv
  <2>4. \A c \in Kids[m] : walked[c] = ckpt[c] /\ ckpt[c] # NoStep
    <3> SUFFICES ASSUME NEW c \in Kids[m] PROVE walked[c] = ckpt[c] /\ ckpt[c] # NoStep
      OBVIOUS
    <3>1. PICK j \in 1..N : j < cursor /\ Order[j] = c
      BY <1>3, KidsBefore
    <3> QED BY <1>3, <2>3, <3>1 DEF IInv, WalkInv
  <2>5. \A c \in Kids[m] : origin[c] < i
    <3> SUFFICES ASSUME NEW c \in Kids[m] PROVE origin[c] < i
      OBVIOUS
    <3>1. origin[c] \in DOMAIN receipts
      BY <1>3, <2>4 DEF IInv, Provenance, IsLatest
    <3> QED BY <1>5, <3>1
  <2>6. InputsOf(m, walked) = InputsOf(m, ckpt)
    BY <2>4 DEF InputsOf
  <2>7. s.node = m /\ ~s.fallback /\ s.inputs = InputsOf(m, walked) /\ t.step = s
    OBVIOUS
  <2> HIDE DEF s
  <2> QED BY <1>4, <1>5, <2>1, <2>2, <2>4, <2>5, <2>6, <2>7
<1> QED BY <1>2, <1>7, <1>8 DEF ReplayInv, ClosedInv, FreshInv

LEMMA ReplayStep ==
  ASSUME Overlays = {FALSE}, IInv, AcceptedInv, ReplayInv, [Next]_vars
  PROVE  ReplayInv'
<1> USE DEF durable, recovery, walk
<1> DEFINE n == Order[cursor]
<1>1. CASE UNCHANGED vars
  BY <1>1, UnsavedUnchanged DEF vars, ReplayInv, HandInv, ClosedInv, FreshInv, Unsaved,
                                Clean, InWalk
<1>2. CASE Start
  <2>1. \A m \in Nodes, i \in DOMAIN receipts' : ~Unsaved(m, i)'
    BY <1>2 DEF Start, ReplayInv, FreshInv, Unsaved, Clean
  <2> QED BY <1>2, <2>1, NothingUnsaved DEF Start
<1>3. CASE Resume
  <2>1. pc' = "recover" /\ cursor' = 1 /\ UNCHANGED <<ckpt, receipts, origin, dirty>>
    BY <1>3 DEF Resume
  <2>2. \A j \in 1..N : ~(j < cursor')
    BY <2>1
  <2> QED BY <2>1, <2>2, UnsavedUnchanged
          DEF ReplayInv, HandInv, ClosedInv, FreshInv, InWalk
<1>4. CASE RecoverNode
  BY <1>4, ReplayRecover
<1>5. CASE RecoverDone
  <2>1. /\ pc = "recover" /\ cursor = N + 1 /\ pc' = "walk" /\ ckpt' = draft
        /\ UNCHANGED <<receipts, dirty>>
    BY <1>5 DEF RecoverDone
  <2>2. \A m \in Nodes, i \in DOMAIN receipts' : ~Unsaved(m, i)'
    <3> SUFFICES ASSUME NEW m \in Nodes, NEW i \in DOMAIN receipts, Clean(m, i)
                 PROVE  draft[m] # NoStep
      BY <2>1 DEF Unsaved, Clean
    <3>1. PICK j \in 1..N : Order[j] = m
      BY OrderFacts
    <3>2. j < cursor
      BY <2>1, <3>1, OrderFacts
    <3> QED BY <2>1, <3>1, <3>2 DEF ReplayInv, ClosedInv
  <2> QED BY <2>1, <2>2, NothingUnsaved
<1>6. CASE RestoreNode
  <2>1. pc = "walk" /\ UNCHANGED <<ckpt, receipts, dirty>>
        /\ pc' \notin {"recover", "new"}
    BY <1>6 DEF RestoreNode, Advance
  <2>2. \A m \in Nodes, i \in DOMAIN receipts' : ~Unsaved(m, i)'
    BY <2>1 DEF ReplayInv, HandInv, InWalk, Unsaved, Clean
  <2> QED BY <2>1, <2>2, NothingUnsaved
<1>7. CASE CommitSession
  BY <1>7, ReplayCommit
<1>8. CASE SaveStep
  <2>1. /\ pc = "finalized" /\ InWalk /\ cursor \in 1..N /\ n \in Nodes
        /\ UNCHANGED <<receipts, dirty>> /\ ckpt[n] = NoStep
    BY <1>8, OrderFacts DEF SaveStep, IInv, WalkInv, FinalizedInv, InWalk
  <2>2. pc' \notin {"recover", "new"}
    BY <1>8 DEF SaveStep, Advance
  <2>3. \A m \in Nodes, i \in DOMAIN receipts : Unsaved(m, i) => m = n
    BY <2>1 DEF ReplayInv, HandInv
  <2>4. CASE RestsOnFallback(n)
    <3>1. ckpt' = ckpt
      BY <1>8, <2>4 DEF SaveStep
    <3>2. PICK k \in DOMAIN receipts : IsLatest(n, k) /\ k \in dirty
      BY <2>1, <2>4 DEF IInv, FinalizedInv
    <3>3. \A i \in DOMAIN receipts : ~Unsaved(n, i)
      <4> SUFFICES ASSUME NEW i \in DOMAIN receipts, Unsaved(n, i) PROVE FALSE
        OBVIOUS
      <4>1. IsLatest(n, i) /\ i \notin dirty
        BY <2>1 DEF ReplayInv, UnsavedInv, Unsaved, Clean
      <4>2. i \in Nat /\ k \in Nat
        BY DEF IInv, TypeOK
      <4>3. i = k
        BY <3>2, <4>1, <4>2 DEF IsLatest
      <4> QED BY <3>2, <4>1, <4>3
    <3>4. \A m \in Nodes, i \in DOMAIN receipts' : ~Unsaved(m, i)'
      BY <2>1, <2>3, <3>1, <3>3 DEF Unsaved, Clean
    <3> QED BY <2>2, <3>4, NothingUnsaved
  <2>5. CASE ~RestsOnFallback(n)
    <3>1. ckpt' = [ckpt EXCEPT ![n] = walked[n]]
      BY <1>8, <2>1, <2>5 DEF SaveStep
    <3>2. ckpt'[n] # NoStep /\ \A m \in Nodes : m # n => ckpt'[m] = ckpt[m]
      BY <2>1, <3>1 DEF IInv, TypeOK, Ledger, FinalizedInv
    <3>3. \A m \in Nodes, i \in DOMAIN receipts' : ~Unsaved(m, i)'
      BY <2>1, <2>3, <3>2 DEF Unsaved, Clean
    <3> QED BY <2>2, <3>3, NothingUnsaved
  <2> QED BY <2>4, <2>5
<1>9. CASE FailSession \/ InterruptSession
  <2>1. PICK m \in Nodes :
          /\ InHand(m)
          /\ receipts' = Append(receipts,
               [node |-> m, mine |-> TRUE, done |-> FALSE, step |-> NoStep])
    BY <1>9 DEF FailSession, InterruptSession, Record
  <2>2. pc' \notin {"recover", "new"} /\ UNCHANGED <<ckpt, dirty>>
    BY <1>9 DEF FailSession, InterruptSession, Advance
  <2> DEFINE t == [node |-> m, mine |-> TRUE, done |-> FALSE, step |-> NoStep]
  <2>3. t \in Receipt /\ receipts \in Seq(Receipt) /\ ~t.done
        /\ receipts' = Append(receipts, t)
    BY <2>1 DEF Receipt, MaybeStep, IInv, TypeOK
  <2>4. \A k \in Nodes, i \in DOMAIN receipts' : ~Unsaved(k, i)'
    <3> SUFFICES ASSUME NEW k \in Nodes, NEW i \in DOMAIN receipts', Unsaved(k, i)'
                 PROVE  FALSE
      OBVIOUS
    <3> HIDE DEF t
    <3>1. Clean(k, i)
      BY <2>2, <2>3, CleanAppend DEF Unsaved
    <3>2. Unsaved(k, i) /\ i \in DOMAIN receipts
      BY <2>2, <3>1 DEF Unsaved, Clean
    <3> QED BY <2>1, <3>2 DEF ReplayInv, HandInv, InHand, InWalk
  <2> QED BY <2>2, <2>4, NothingUnsaved
<1>10. CASE Crash
  <2>1. pc' = "down" /\ UNCHANGED <<ckpt, receipts, origin, dirty>>
    BY <1>10 DEF Crash
  <2> QED BY <2>1, UnsavedUnchanged DEF ReplayInv, HandInv, ClosedInv, FreshInv, InWalk
<1>11. CASE OtherRunAppends
  <2>1. PICK t \in Receipt : receipts' = Append(receipts, t) /\ ~t.mine
    <3>1. PICK m \in Nodes, out \in Beams :
            receipts' = Append(receipts,
              [node |-> m, mine |-> FALSE, done |-> TRUE,
               step |-> [node |-> m, inputs |-> [c \in Kids[m] |-> IdBeam],
                         overlaid |-> FALSE, out |-> out, fallback |-> FALSE]])
      BY <1>11 DEF OtherRunAppends
    <3> DEFINE s == [node |-> m, inputs |-> [c \in Kids[m] |-> IdBeam],
                     overlaid |-> FALSE, out |-> out, fallback |-> FALSE]
               t == [node |-> m, mine |-> FALSE, done |-> TRUE, step |-> s]
    <3>2. [c \in Kids[m] |-> IdBeam] \in [Kids[m] -> Beams]
      BY ValueAssumption
    <3>3. Kids[m] \in SUBSET Nodes
      BY NotOwnKid
    <3>4. [c \in Kids[m] |-> IdBeam] \in UNION {[K -> Beams] : K \in SUBSET Nodes}
      BY <3>2, <3>3
    <3>5. s \in Step
      BY <3>4 DEF Step
    <3>6. t \in Receipt /\ receipts' = Append(receipts, t) /\ ~t.mine
      BY <3>1, <3>5 DEF Receipt, MaybeStep
    <3> HIDE DEF t
    <3> QED BY <3>6
  <2>2. UNCHANGED <<ckpt, pc, cursor, draft, safe, origin, dirty>>
    BY <1>11 DEF OtherRunAppends
  <2>3. receipts \in Seq(Receipt)
    BY DEF IInv, TypeOK
  <2>4. \A m, i : Clean(m, i)' => Clean(m, i) /\ receipts'[i] = receipts[i]
                                  /\ i \in DOMAIN receipts
    BY <2>1, <2>2, <2>3, CleanAppend DEF Clean
  <2>5. \A m, i : IsLatest(m, i) => IsLatest(m, i)'
    BY <2>1, <2>3, OldLatest
  <2>6. UnsavedInv'
    BY <2>2, <2>4, <2>5 DEF ReplayInv, UnsavedInv, Unsaved, InputsOf
  <2>7. HandInv'
    BY <2>2, <2>4 DEF ReplayInv, HandInv, Unsaved, InWalk
  <2>8. ClosedInv'
    BY <2>2, <2>4 DEF ReplayInv, ClosedInv
  <2>9. FreshInv'
    BY <2>1, <2>2, <2>3, AppendFacts DEF ReplayInv, FreshInv
  <2> QED BY <2>6, <2>7, <2>8, <2>9 DEF ReplayInv
<1> QED BY <1>1, <1>2, <1>3, <1>4, <1>5, <1>6, <1>7, <1>8, <1>9, <1>10, <1>11 DEF Next

\* A session that was paid for and finalized over real reconstructions is
\* never run again, whatever crashes and resumes follow (cli.py:1096 "Close
\* the JSONL-before-checkpoint crash window").
THEOREM PaidOnce ==
  ASSUME Overlays = {FALSE}
  PROVE  Spec => []NeverReplayed
<1>1. Init => AcceptedInv /\ ReplayInv
  BY DEF Init, AcceptedInv, Plain, ReplayInv, UnsavedInv, HandInv, ClosedInv, FreshInv,
         InWalk
<1>2. IInv /\ AcceptedInv /\ ReplayInv /\ [Next]_vars => AcceptedInv' /\ ReplayInv'
  BY AcceptedStep, ReplayStep
<1>3. IInv /\ ReplayInv => NeverReplayed
  <2> SUFFICES ASSUME IInv, ReplayInv, NEW n \in Nodes, InHand(n),
                      NEW i \in DOMAIN receipts,
                      receipts[i].mine, receipts[i].node = n, receipts[i].done,
                      i \notin dirty
               PROVE  FALSE
    BY DEF NeverReplayed
  <2>1. Clean(n, i)
    BY DEF Clean
  <2>2. ckpt[n] = NoStep
    BY HandFacts
  <2>3. pc = "walk" /\ InWalk
    BY DEF InHand, InWalk
  <2> QED BY <2>1, <2>2, <2>3 DEF ReplayInv, HandInv, Unsaved
<1> QED BY <1>1, <1>2, <1>3, Invariance, PTL DEF Spec

-----------------------------------------------------------------------------
(* Ingestion: what becomes of a dataset before the run. *)

\* A form as the loader builds it.
IsForm(f) ==
  f = [id |-> f.id, variety |-> f.variety, concept |-> f.concept,
       segments |-> f.segments, set |-> f.set, memberships |-> f.memberships]

\* The lexicons of a dataset: one for each variety, none empty, and in each the
\* forms of rows of its language.
LexiconsOf(dataset, lexicons) ==
  /\ \A l \in lexicons : l = [variety |-> l.variety, forms |-> l.forms] /\ l.forms # {}
  /\ \A l, m \in lexicons : l.variety = m.variety => l = m
  /\ \A l \in lexicons : \A f \in l.forms :
       /\ IsForm(f) /\ f.variety = l.variety
       /\ \E row \in Range(dataset.forms) : f.id = row.id /\ f.variety = row.language

\* The form of a row has the row's ID and language.
LEMMA RowIsForm ==
  ASSUME NEW dataset, NEW row, LoadForm(dataset, row) # Refused,
         NEW f \in LoadForm(dataset, row)
  PROVE  IsForm(f) /\ f.id = row.id /\ f.variety = row.language
<1> DEFINE tokens == SourceSegments(dataset, row)
           segments == [i \in DOMAIN tokens |-> PhonemeSide(tokens[i])]
           rows == JudgementRows(dataset, row, segments)
           memberships == Memberships(dataset, rows, segments)
           g == [id |-> row.id, variety |-> row.language,
                 concept |-> ConceptOf(dataset, row.parameter),
                 segments |-> segments, set |-> Shorthand(memberships),
                 memberships |-> memberships]
<1>1. LoadForm(dataset, row) \in {Refused, {}, {g}}
  BY DEF LoadForm
<1>2. f = g
  BY <1>1
<1> HIDE DEF memberships, segments
<1> QED BY <1>2 DEF IsForm

\* What is loaded are such lexicons.
LEMMA LoadedIs ==
  ASSUME NEW dataset, Load(dataset) # Refused
  PROVE  LexiconsOf(dataset, Load(dataset).lexicons)
<1> DEFINE loaded == [i \in DOMAIN dataset.forms |-> LoadForm(dataset, dataset.forms[i])]
           forms == UNION Range(loaded)
           lexicons == {[variety |-> v, forms |-> {form \in forms : form.variety = v}] :
                          v \in {form.variety : form \in forms}}
<1>1. Refused \notin Range(loaded) /\ Load(dataset).lexicons = lexicons
  BY DEF Load, Gathered
<1>2. ASSUME NEW f \in forms
      PROVE  /\ IsForm(f)
             /\ \E row \in Range(dataset.forms) : f.id = row.id /\ f.variety = row.language
  <2>1. PICK i \in DOMAIN dataset.forms : f \in LoadForm(dataset, dataset.forms[i])
    BY DEF Range
  <2>2. LoadForm(dataset, dataset.forms[i]) # Refused
    BY <1>1 DEF Range
  <2>3. dataset.forms[i] \in Range(dataset.forms)
    BY DEF Range
  <2> QED BY <2>1, <2>2, <2>3, RowIsForm
<1>3. ASSUME NEW l \in lexicons
      PROVE  /\ l = [variety |-> l.variety, forms |-> l.forms] /\ l.forms # {}
             /\ l.forms = {f \in forms : f.variety = l.variety}
  BY <1>3
<1> HIDE DEF forms, lexicons
<1>4. \A l, m \in lexicons : l.variety = m.variety => l = m
  BY <1>3
<1>5. ASSUME NEW l \in lexicons, NEW f \in l.forms
      PROVE  /\ IsForm(f) /\ f.variety = l.variety
             /\ \E row \in Range(dataset.forms) : f.id = row.id /\ f.variety = row.language
  BY <1>2, <1>3, <1>5
<1> QED BY <1>1, <1>3, <1>4, <1>5 DEF LexiconsOf

\* The lexicon of a variety.
LEMMA FormsByIs ==
  ASSUME NEW lexicons, \A l, m \in lexicons : l.variety = m.variety => l = m,
         NEW l \in lexicons
  PROVE  FormsBy(l.variety, lexicons) = l.forms
BY DEF FormsBy

\* What preparation makes of a request, if it does not refuse it.
LEMMA PreparedIs ==
  ASSUME NEW loaded, NEW request, Prepared(loaded, request) # Refused
  PROVE  LET made == Assembled(loaded, request)
             prepared == Prepared(loaded, request)
         IN /\ prepared.lexicons = made.lexicons /\ prepared.bindings = made.bindings
            /\ DOMAIN prepared = {"lexicons", "concepts", "bindings", "newick"}
            /\ RequestsAccepted(request.bindings)
            /\ {r.source : r \in request.bindings} \subseteq Varieties(loaded.lexicons)
<1> DEFINE made == Assembled(loaded, request)
           ingested == CHOOSE i \in Ingested(made) : TRUE
           stored == IF made.newick = NoTree THEN made
                     ELSE [made EXCEPT !.newick = ingested.newick]
<1>1. Prepared(loaded, request) = stored
  BY DEF Prepared
<1>2. /\ RequestsAccepted(request.bindings)
      /\ {r.source : r \in request.bindings} \subseteq Varieties(loaded.lexicons)
  BY DEF Prepared
<1>3. /\ stored.lexicons = made.lexicons /\ stored.bindings = made.bindings
      /\ DOMAIN stored = {"lexicons", "concepts", "bindings", "newick"}
  <2> HIDE DEF ingested
  <2> QED BY DEF Assembled
<1> QED BY <1>1, <1>2, <1>3

\* What ingestion keeps of a payload.
LEMMA IngestedIs ==
  ASSUME NEW made, "lexicons" \in DOMAIN made, NEW dataset \in Ingested(made), dataset # Refused
  PROVE  dataset.lexicons = {l \in made.lexicons : l.forms # {}}
BY DEF Ingested

\* A run keeps the dataset it was planned on.
LEMMA PlannedIs ==
  ASSUME NEW dataset, NEW anchors, Planned(dataset, anchors) # Refused
  PROVE  Planned(dataset, anchors).dataset = dataset /\ dataset # Refused
BY DEF Planned

-----------------------------------------------------------------------------
\* The request a payload was made from.
RequestMade ==
  IF "daughters" \in DOMAIN asked THEN RequestOf(asked, Load(source).lexicons) ELSE asked

\* A payload is what preparation makes of the request, and a run works on the
\* lexicons of its payload that are not empty.
PayloadInv ==
  /\ source \in Sources
  /\ Made => /\ Load(source) # Refused
             /\ "daughters" \in DOMAIN asked => RequestMade # Refused
             /\ payload = Prepared(Load(source), RequestMade)

RunInv ==
  Running => /\ Made
             /\ run.dataset.lexicons = {l \in payload.lexicons : l.forms # {}}

\* No command breaks the two.
LEMMA CommandsKeep ==
  PayloadInv /\ RunInv /\ [CommandsNext]_commandVars => PayloadInv' /\ RunInv'
<1> SUFFICES ASSUME PayloadInv, RunInv, [CommandsNext]_commandVars PROVE PayloadInv' /\ RunInv'
  OBVIOUS
<1>1. CASE Prepare
  <2>1. payload = NotYet /\ Load(source) # Refused /\ source' = source /\ run' = run
    BY <1>1 DEF Prepare
  <2>2. PICK request \in Requests(source) :
          asked' = request /\ payload' = Prepared(Load(source), request)
    BY <1>1 DEF Prepare
  <2>3. "daughters" \notin DOMAIN request
    BY SourcesAssumption DEF PayloadInv
  <2>4. RequestMade' = request
    BY <2>1, <2>2, <2>3 DEF RequestMade
  <2>5. ~Running /\ ~Running'
    BY <2>1 DEF RunInv, Made, Running
  <2>6. PayloadInv'
    BY <2>1, <2>2, <2>3, <2>4 DEF PayloadInv, Made
  <2> QED BY <2>5, <2>6 DEF RunInv
<1>2. CASE Build
  <2>1. payload = NotYet /\ Load(source) # Refused /\ source' = source /\ run' = run
    BY <1>2 DEF Build
  <2>2. PICK definition \in Definitions(source) :
          /\ asked' = definition
          /\ payload' = IF RequestOf(definition, Load(source).lexicons) = Refused THEN Refused
                        ELSE Prepared(Load(source), RequestOf(definition, Load(source).lexicons))
    BY <1>2 DEF Build
  <2>3. "daughters" \in DOMAIN definition
    BY SourcesAssumption DEF PayloadInv
  <2>4. RequestMade' = RequestOf(definition, Load(source).lexicons)
    BY <2>1, <2>2, <2>3 DEF RequestMade
  <2>5. ~Running /\ ~Running'
    BY <2>1 DEF RunInv, Made, Running
  <2>6. PayloadInv'
    BY <2>1, <2>2, <2>4 DEF PayloadInv, Made
  <2> QED BY <2>5, <2>6 DEF RunInv
<1>3. CASE Infer
  <2>1. /\ Made /\ source' = source /\ asked' = asked /\ payload' = payload
        /\ \E dataset \in Ingested(payload), anchors \in AnchorFiles(source) :
             run' = Planned(dataset, anchors)
    BY <1>3 DEF Infer, Made
  <2>2. PayloadInv'
    BY <2>1 DEF PayloadInv, Made, RequestMade
  <2>3. PICK dataset \in Ingested(payload), anchors \in AnchorFiles(source) :
          run' = Planned(dataset, anchors)
    BY <2>1
  <2>4. "lexicons" \in DOMAIN payload
    <3>1. Prepared(Load(source), RequestMade) # Refused
      BY <2>1 DEF PayloadInv, Made
    <3> QED BY <2>1, <3>1, PreparedIs DEF PayloadInv
  <2>5. ASSUME Running'
        PROVE  run'.dataset.lexicons = {l \in payload.lexicons : l.forms # {}}
    <3>1. Planned(dataset, anchors) # Refused
      BY <2>3, <2>5 DEF Running
    <3> QED BY <2>3, <2>4, <3>1, PlannedIs, IngestedIs
  <2> QED BY <2>1, <2>2, <2>5 DEF RunInv, Made
<1>4. CASE Reject
  BY <1>4 DEF Reject, PayloadInv, RunInv, Made, Running
<1>5. CASE UNCHANGED commandVars
  BY <1>5 DEF commandVars, PayloadInv, RunInv, Made, Running, RequestMade
<1> QED BY <1>1, <1>2, <1>3, <1>4, <1>5 DEF CommandsNext

\* Whatever is loaded and asked for: a form of a binding is one of its source's
\* rows, and the evidence is of rows of other languages.
LEMMA PreparedHides ==
  ASSUME NEW dataset, Load(dataset) # Refused,
         Keyed(dataset), NEW request, Prepared(Load(dataset), request) # Refused,
         NEW b \in Prepared(Load(dataset), request).bindings, NEW bound \in b.forms,
         NEW form \in FormsOf(Prepared(Load(dataset), request).lexicons)
  PROVE  bound.id # form.id
<1> DEFINE loaded == Load(dataset)
           made == Assembled(loaded, request)
<1>1. LexiconsOf(dataset, loaded.lexicons)
  BY LoadedIs
<1>2. /\ b \in made.bindings /\ form \in FormsOf(made.lexicons)
      /\ {r.source : r \in request.bindings} \subseteq Varieties(loaded.lexicons)
  BY PreparedIs
<1> HIDE DEF loaded
<1>3. PICK r \in request.bindings :
        bound \in {[f EXCEPT !.variety = r.node] : f \in FormsBy(r.source, loaded.lexicons)}
  <2>1. PICK c \in Materialize(request.bindings, loaded.lexicons) :
          b = [c EXCEPT !.forms = OnConcepts(@, request.concepts)]
    BY <1>2 DEF Assembled
  <2>2. PICK r \in request.bindings :
          c = [node |-> r.node, role |-> r.role, source |-> r.source, lineages |-> r.lineages,
               forms |-> {[f EXCEPT !.variety = r.node] : f \in FormsBy(r.source, loaded.lexicons)}]
    BY <2>1 DEF Materialize
  <2>3. b.forms = OnConcepts(c.forms, request.concepts)
    BY <2>1, <2>2
  <2>4. bound \in c.forms
    BY <2>3 DEF OnConcepts
  <2> QED BY <2>2, <2>4
<1>4. PICK l \in loaded.lexicons : l.variety = r.source
  BY <1>2 DEF Varieties
<1>5. FormsBy(r.source, loaded.lexicons) = l.forms
  BY <1>1, <1>4, FormsByIs DEF LexiconsOf
<1>6. PICK f \in l.forms : bound = [f EXCEPT !.variety = r.node]
  BY <1>3, <1>5
<1>7. IsForm(f) /\ f.variety = r.source /\ \E row \in Range(dataset.forms) :
        f.id = row.id /\ f.variety = row.language
  BY <1>1, <1>4 DEF LexiconsOf
<1>8. bound.id = f.id
  BY <1>6, <1>7 DEF IsForm
<1>9. PICK m \in Selected(loaded, request) : form \in m.forms
  <2>1. PICK n \in made.lexicons : form \in n.forms
    BY <1>2 DEF FormsOf
  <2>2. PICK m \in Selected(loaded, request) :
          n = [m EXCEPT !.forms = OnConcepts(@, request.concepts)]
    BY <2>1 DEF Assembled
  <2>3. m = [variety |-> m.variety, forms |-> m.forms]
    BY <1>1, <2>2 DEF Selected, LexiconsOf
  <2>4. n.forms = OnConcepts(m.forms, request.concepts)
    BY <2>2, <2>3
  <2> QED BY <2>1, <2>4 DEF OnConcepts
<1>10. m \in loaded.lexicons /\ m.variety # r.source
  BY <1>9 DEF Selected
<1>11. form.variety = m.variety /\ \E row \in Range(dataset.forms) :
         form.id = row.id /\ form.variety = row.language
  BY <1>1, <1>9, <1>10 DEF LexiconsOf
<1> QED BY <1>7, <1>8, <1>10, <1>11 DEF Keyed

\* preparation.py: "a `target` variety left in the evidence would let the model read
\* the answer".  However a dataset is loaded, selected from and ingested, no form
\* bound to a node is left among the evidence of the payload or of its run.
THEOREM AnswersStayHidden == CommandsSpec => []BoundHidden
<1>1. CommandsInit => PayloadInv /\ RunInv
  BY DEF CommandsInit, PayloadInv, RunInv, Made, Running
<1>2. PayloadInv /\ RunInv => BoundHidden
  <2> SUFFICES ASSUME PayloadInv, RunInv, Made, NEW b \in payload.bindings, NEW bound \in b.forms
               PROVE  /\ bound.id \notin {form.id : form \in FormsOf(payload.lexicons)}
                      /\ Running =>
                           bound.id \notin {form.id : form \in FormsOf(run.dataset.lexicons)}
    BY DEF BoundHidden
  <2>1. /\ Load(source) # Refused /\ payload = Prepared(Load(source), RequestMade)
        /\ Prepared(Load(source), RequestMade) # Refused
        /\ Keyed(source)
    BY SourcesAssumption DEF PayloadInv, Made
  <2>2. \A form \in FormsOf(payload.lexicons) : bound.id # form.id
    BY <2>1, PreparedHides
  <2>3. Running => FormsOf(run.dataset.lexicons) \subseteq FormsOf(payload.lexicons)
    BY DEF RunInv, FormsOf
  <2> QED BY <2>2, <2>3
<1> QED BY <1>1, <1>2, CommandsKeep, PTL DEF CommandsSpec

-----------------------------------------------------------------------------
(* Benchmarks *)

\* A cap only takes concepts away.
LEMMA CappedIn == ASSUME NEW concepts, NEW cap PROVE Capped(concepts, cap) \subseteq concepts
BY DEF Capped

\* The evidence of a payload, variety by variety.
LEMMA PreparedForms ==
  ASSUME NEW dataset, Load(dataset) # Refused, NEW request,
         Prepared(Load(dataset), request) # Refused,
         NEW n \in Prepared(Load(dataset), request).lexicons
  PROVE  LET loaded == Load(dataset) IN
         /\ n.variety \in Varieties(Selected(loaded, request))
         /\ n.forms = OnConcepts(FormsBy(n.variety, loaded.lexicons), request.concepts)
<1> DEFINE loaded == Load(dataset)
<1>1. LexiconsOf(dataset, loaded.lexicons)
  BY LoadedIs
<1>2. PICK m \in Selected(loaded, request) :
        n = [m EXCEPT !.forms = OnConcepts(@, request.concepts)]
  BY PreparedIs DEF Assembled
<1>3. m \in loaded.lexicons
  BY <1>2 DEF Selected
<1> HIDE DEF loaded
<1>4. m = [variety |-> m.variety, forms |-> m.forms]
  BY <1>1, <1>3 DEF LexiconsOf
<1>5. n.variety = m.variety /\ n.forms = OnConcepts(m.forms, request.concepts)
  BY <1>2, <1>4
<1>6. FormsBy(m.variety, loaded.lexicons) = m.forms
  BY <1>1, <1>3, FormsByIs DEF LexiconsOf
<1> QED BY <1>2, <1>5, <1>6 DEF Varieties, loaded

\* The varieties of a payload are those selected, with one lexicon each.
LEMMA PreparedVarieties ==
  ASSUME NEW dataset, Load(dataset) # Refused, NEW request,
         Prepared(Load(dataset), request) # Refused
  PROVE  LET lexicons == Prepared(Load(dataset), request).lexicons
         IN /\ Varieties(lexicons) = Varieties(Selected(Load(dataset), request))
            /\ \A l, m \in lexicons : l.variety = m.variety => l = m
<1> DEFINE loaded == Load(dataset)
           lexicons == Prepared(Load(dataset), request).lexicons
           kept == Selected(loaded, request)
           On(m) == [m EXCEPT !.forms = OnConcepts(@, request.concepts)]
<1>1. LexiconsOf(dataset, loaded.lexicons)
  BY LoadedIs
<1>2. lexicons = {On(m) : m \in kept}
  BY PreparedIs DEF Assembled
<1>3. kept \subseteq loaded.lexicons
  BY DEF Selected
<1> HIDE DEF loaded, lexicons, kept
<1>4. \A m \in kept : On(m).variety = m.variety
  BY <1>1, <1>3 DEF LexiconsOf
<1>5. \A m, n \in kept : m.variety = n.variety => m = n
  BY <1>1, <1>3 DEF LexiconsOf
<1> HIDE DEF On
<1>6. Varieties(lexicons) = Varieties(kept)
  BY <1>2, <1>4 DEF Varieties
<1>7. \A l, m \in lexicons : l.variety = m.variety => l = m
  BY <1>2, <1>4, <1>5
<1> QED BY <1>6, <1>7 DEF lexicons, kept, loaded

\* What a definition comes to.
LEMMA RequestIs ==
  ASSUME NEW definition, NEW lexicons, RequestOf(definition, lexicons) # Refused
  PROVE  LET request == RequestOf(definition, lexicons) IN
         /\ DefinitionAccepted(definition)
         /\ definition.daughters \cup {t.source : t \in definition.targets}
              \subseteq Varieties(lexicons)
         /\ request.varieties = definition.daughters
         /\ request.concepts = SelectConcepts(definition, lexicons) /\ request.concepts # {}
         /\ {r.source : r \in request.bindings} = {t.source : t \in definition.targets}
<1> DEFINE concepts == SelectConcepts(definition, lexicons)
           Bind(t) == [source |-> t.source, node |-> t.node, role |-> "target", lineages |-> {}]
<1>1. /\ DefinitionAccepted(definition)
      /\ definition.daughters \cup {t.source : t \in definition.targets}
           \subseteq Varieties(lexicons)
      /\ concepts # {}
      /\ RequestOf(definition, lexicons) =
           [varieties |-> definition.daughters, concepts |-> concepts, newick |-> definition.newick,
            bindings |-> {Bind(t) : t \in definition.targets}]
  BY DEF RequestOf
<1> HIDE DEF concepts
<1>2. {r.source : r \in {Bind(t) : t \in definition.targets}}
        = {t.source : t \in definition.targets}
  <2>1. \A t : Bind(t).source = t.source
    OBVIOUS
  <2> HIDE DEF Bind
  <2> QED BY <2>1
<1> HIDE DEF Bind
<1> DEFINE request == RequestOf(definition, lexicons)
<1>3. /\ request.varieties = definition.daughters /\ request.concepts = concepts
      /\ request.bindings = {Bind(t) : t \in definition.targets}
  BY <1>1
<1> HIDE DEF request
<1>4. {r.source : r \in request.bindings} = {t.source : t \in definition.targets}
  BY <1>2, <1>3
<1> QED BY <1>1, <1>3, <1>4 DEF concepts, request

\* The evidence of a benchmark is of its daughters, all of them.
LEMMA DaughtersOnly ==
  ASSUME NEW dataset, Load(dataset) # Refused, NEW definition, NEW request,
         request = RequestOf(definition, Load(dataset).lexicons), request # Refused,
         Prepared(Load(dataset), request) # Refused
  PROVE  Varieties(Prepared(Load(dataset), request).lexicons) = definition.daughters
<1> DEFINE loaded == Load(dataset)
<1>1. /\ DefinitionAccepted(definition) /\ definition.daughters \subseteq Varieties(loaded.lexicons)
      /\ request.varieties = definition.daughters
      /\ {r.source : r \in request.bindings} = {t.source : t \in definition.targets}
  BY RequestIs
<1> HIDE DEF loaded
<1>2. definition.daughters # {}
  <2>1. Cardinality({}) = 0
    BY FS_EmptySet, Zenon
  <2> QED BY <1>1, <2>1 DEF DefinitionAccepted
<1>3. {r.source : r \in request.bindings} \cap definition.daughters = {}
  BY <1>1 DEF DefinitionAccepted
<1>4. Varieties(Selected(loaded, request)) = definition.daughters
  BY <1>1, <1>2, <1>3 DEF Selected, Varieties
<1> QED BY <1>4, PreparedVarieties DEF loaded

\* A binding of a source, and forms as a binding holds them.
BoundTo(bindings, variety) == CHOOSE b \in bindings : b.source = variety
Copies(forms, node) == {[f EXCEPT !.variety = node] : f \in forms}

\* The gold of a benchmark holds the forms of its reference on its concepts.
LEMMA GoldIs ==
  ASSUME NEW dataset, Load(dataset) # Refused, NEW request,
         Prepared(Load(dataset), request) # Refused,
         NEW reference \in {r.source : r \in request.bindings}
  PROVE  \E node : BoundTo(Prepared(Load(dataset), request).bindings, reference).forms
           = OnConcepts(Copies(FormsBy(reference, Load(dataset).lexicons), node), request.concepts)
<1> DEFINE loaded == Load(dataset)
           bindings == Prepared(loaded, request).bindings
           Copied(r) == Copies(FormsBy(r.source, loaded.lexicons), r.node)
           gold == BoundTo(bindings, reference)
           Bind(r) == [node |-> r.node, role |-> r.role, source |-> r.source,
                       lineages |-> r.lineages, forms |-> Copied(r)]
<1>1. bindings = {[b EXCEPT !.forms = OnConcepts(@, request.concepts)] :
                    b \in {Bind(r) : r \in request.bindings}}
  BY PreparedIs DEF Assembled, Materialize, Copies
<1> HIDE DEF bindings, Copied
<1>2. ASSUME NEW b \in bindings
      PROVE  \E r \in request.bindings :
               b.source = r.source /\ b.forms = OnConcepts(Copied(r), request.concepts)
  BY <1>1
<1>3. \E b \in bindings : b.source = reference
  <2>1. PICK r \in request.bindings : r.source = reference
    OBVIOUS
  <2>2. [Bind(r) EXCEPT !.forms = OnConcepts(@, request.concepts)] \in bindings
    BY <1>1
  <2>3. [Bind(r) EXCEPT !.forms = OnConcepts(@, request.concepts)].source = reference
    BY <2>1
  <2> HIDE DEF Bind
  <2> QED BY <2>2, <2>3
<1>4. gold \in bindings /\ gold.source = reference
  BY <1>3 DEF BoundTo
<1>5. PICK r \in request.bindings :
        gold.source = r.source /\ gold.forms = OnConcepts(Copied(r), request.concepts)
  BY <1>2, <1>4
<1> QED BY <1>4, <1>5 DEF Copied, bindings

\* A concept selected by cognacy keeps its cognate forms on both sides.
LEMMA BenchmarkKept ==
  ASSUME NEW dataset, Load(dataset) # Refused, NEW definition, definition.selection = "cognate",
         NEW request, request = RequestOf(definition, Load(dataset).lexicons), request # Refused,
         NEW made, made = Prepared(Load(dataset), request), made # Refused,
         NEW gold, gold = BoundTo(made.bindings, definition.reference),
         NEW k \in ConceptsIn(made.lexicons), NEW d \in definition.daughters
  PROVE  \E form \in FormsBy(d, made.lexicons), g \in gold.forms :
           /\ form.concept = k /\ g.concept = k
           /\ CognateSets(form) \cap CognateSets(g) # {}
<1> DEFINE lexicons == Load(dataset).lexicons
<1>1. LexiconsOf(dataset, lexicons)
  BY LoadedIs
<1>2. /\ DefinitionAccepted(definition)
      /\ definition.daughters \cup {t.source : t \in definition.targets}
           \subseteq Varieties(lexicons)
      /\ request.concepts = SelectConcepts(definition, lexicons) /\ request.concepts # {}
      /\ {r.source : r \in request.bindings} = {t.source : t \in definition.targets}
  BY RequestIs
<1>3. /\ definition.reference \in {r.source : r \in request.bindings}
      /\ definition.reference \in Varieties(lexicons)
  BY <1>2 DEF DefinitionAccepted
<1>4. Varieties(made.lexicons) = definition.daughters
  BY DaughtersOnly
<1>5. \A l, m \in made.lexicons : l.variety = m.variety => l = m
  BY PreparedVarieties
<1>6. \A n \in made.lexicons : n.forms = OnConcepts(FormsBy(n.variety, lexicons), request.concepts)
  BY PreparedForms
<1>7. PICK node : gold.forms
        = OnConcepts(Copies(FormsBy(definition.reference, lexicons), node), request.concepts)
  BY <1>3, GoldIs
<1> HIDE DEF lexicons
<1>8. k \in request.concepts
  <2>0. PICK n \in made.lexicons : \E f \in n.forms : k = f.concept
    BY DEF ConceptsIn, FormsOf
  <2>1. PICK f \in n.forms : k = f.concept
    BY <2>0
  <2>2. f \in OnConcepts(FormsBy(n.variety, lexicons), request.concepts)
    BY <1>6, <2>1
  <2> QED BY <1>2, <2>1, <2>2 DEF OnConcepts
<1>9. SetsOn(definition.reference, k, lexicons) \cap SetsOn(d, k, lexicons) # {}
  <2> DEFINE shared == {c \in ConceptsIn(lexicons) :
                          \A e \in definition.daughters : c \in Attested(e, lexicons)}
             cognate == {c \in shared : \A e \in definition.daughters :
                           SetsOn(definition.reference, c, lexicons)
                             \cap SetsOn(e, c, lexicons) # {}}
  <2>1. request.concepts = Capped(cognate, definition.cap)
    BY <1>2 DEF SelectConcepts
  <2>2. k \in cognate
    BY <1>8, <2>1, CappedIn
  <2> QED BY <2>2
<1>10. PICK g \in FormsBy(definition.reference, lexicons), f \in FormsBy(d, lexicons) :
         /\ g.concept = k /\ f.concept = k
         /\ CognateSets(f) \cap CognateSets(g) # {}
  BY <1>9 DEF SetsOn
<1>11. f \in FormsBy(d, made.lexicons)
  <2>1. PICK n \in made.lexicons : n.variety = d
    BY <1>4 DEF Varieties
  <2>2. FormsBy(d, made.lexicons) = n.forms
    BY <1>5, <2>1, FormsByIs
  <2>3. n.forms = OnConcepts(FormsBy(d, lexicons), request.concepts)
    BY <1>6, <2>1
  <2>4. f \in OnConcepts(FormsBy(d, lexicons), request.concepts)
    BY <1>8, <1>10 DEF OnConcepts
  <2> QED BY <2>2, <2>3, <2>4
<1>12. IsForm(g)
  <2>1. PICK l \in lexicons : l.variety = definition.reference
    BY <1>3 DEF Varieties
  <2>2. FormsBy(definition.reference, lexicons) = l.forms
    BY <1>1, <2>1, FormsByIs DEF LexiconsOf
  <2> QED BY <1>1, <1>10, <2>1, <2>2 DEF LexiconsOf
<1> DEFINE copy == [g EXCEPT !.variety = node]
<1>13. copy.concept = g.concept /\ copy.memberships = g.memberships
  BY <1>12 DEF IsForm
<1>14. copy \in gold.forms
  <2>1. copy \in Copies(FormsBy(definition.reference, lexicons), node)
    BY <1>10 DEF Copies
  <2> HIDE DEF copy
  <2> QED BY <1>7, <1>8, <1>10, <1>13, <2>1 DEF OnConcepts
<1> HIDE DEF copy
<1>15. CognateSets(copy) = CognateSets(g)
  BY <1>13 DEF CognateSets
<1> QED BY <1>10, <1>11, <1>13, <1>14, <1>15

\* builder.py: the selection "requires every chosen daughter to share a cognate set
\* with the reference gold variety".  What was selected on the dataset holds of the
\* payload: its lexicons are the daughters, and on each of its concepts each of them
\* has a form cognate with a form of the gold bound to it.
THEOREM BenchmarksScore == CommandsSpec => []BenchmarkScorable
<1>1. CommandsInit => PayloadInv /\ RunInv
  BY DEF CommandsInit, PayloadInv, RunInv, Made, Running
<1>2. PayloadInv => BenchmarkScorable
  <2> SUFFICES ASSUME PayloadInv, Made, "daughters" \in DOMAIN asked PROVE BenchmarkScorable
    BY DEF BenchmarkScorable
  <2>1. /\ Load(source) # Refused /\ payload = Prepared(Load(source), RequestMade)
        /\ Prepared(Load(source), RequestMade) # Refused
        /\ RequestMade = RequestOf(asked, Load(source).lexicons) /\ RequestMade # Refused
    BY DEF PayloadInv, Made, RequestMade
  <2>2. Varieties(payload.lexicons) = asked.daughters
    BY <2>1, DaughtersOnly
  <2>3. ASSUME asked.selection = "cognate", NEW k \in ConceptsIn(payload.lexicons),
               NEW d \in asked.daughters
        PROVE  LET gold == CHOOSE b \in payload.bindings : b.source = asked.reference
               IN \E form \in FormsBy(d, payload.lexicons), g \in gold.forms :
                    /\ form.concept = k /\ g.concept = k
                    /\ CognateSets(form) \cap CognateSets(g) # {}
    <3> DEFINE gold == CHOOSE b \in payload.bindings : b.source = asked.reference
    <3>1. \E form \in FormsBy(d, payload.lexicons), g \in gold.forms :
            /\ form.concept = k /\ g.concept = k
            /\ CognateSets(form) \cap CognateSets(g) # {}
      <4>1. gold = BoundTo(payload.bindings, asked.reference)
        BY DEF BoundTo
      <4> HIDE DEF gold
      <4> QED BY <2>1, <2>3, <4>1, BenchmarkKept
    <3> QED BY <3>1
  <2> QED BY <2>2, <2>3 DEF BenchmarkScorable
<1> QED BY <1>1, <1>2, CommandsKeep, PTL DEF CommandsSpec
=============================================================================
