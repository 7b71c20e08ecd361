---------------------------- MODULE Reconstruction ----------------------------
(***************************************************************************)
(* The deterministic reconstructor on one concept: the children's beams    *)
(* are folded in one child at a time, equal partial states are merged and  *)
(* the list is cut to the beam width after each, and the states left are   *)
(* scored into the parent's candidates.                                    *)
(*                                                                         *)
(* Log masses are natural numbers here, so adding logs is multiplying and  *)
(* log-sum-exp is adding.  A branch's share of its state is support/total; *)
(* every child that has the concept adds one to the total, so the total is *)
(* the same for all states and is left out.  A confidence c is the natural *)
(* number 10c, and a rule that does not fire weighs 10.  Concepts do not   *)
(* interact.  Candidates carry no morpheme analysis.                       *)
(***************************************************************************)
EXTENDS Rules

CONSTANTS
  ChildBeams,    \* the child beams, in the order they are given
  Beam,        \* beam_width
  Boost,       \* anchor_match_factor when anchors are scored, else 1
  Dists,       \* bound: the distributions a child may bring, <<>> for none
  Cascades,    \* bound: the committed cascades
  AnchorSets   \* bound: the anchored forms of the concept, one anchor each

ASSUME ReconstructionAssumption ==
  /\ Beam \in Nat \ {0} /\ Boost \in Nat \ {0}
  /\ IsInjective(ChildBeams) /\ Len(ChildBeams) >= 2

VARIABLES
  dist,        \* each child's distribution: candidates [form, mass], best first
  rules,       \* the scoped rules: [rule, scope, confidence]
  anchors,     \* active_anchors
  folded,      \* how many children have been folded in
  partials,    \* the partial combinations, best first
  pruned,      \* partial_states_pruned
  beam         \* the parent's distribution, <<>> until it is scored

vars == <<dist, rules, anchors, folded, partials, pruned, beam>>

-----------------------------------------------------------------------------
(* Orders: Python compares tuples from the left, a proper prefix first.     *)

LexLess(s, t, Less(_, _)) ==
  \E i \in 1..Len(t) :
    /\ \A j \in 1..(i - 1) : j <= Len(s) /\ s[j] = t[j]
    /\ i > Len(s) \/ (i <= Len(s) /\ Less(s[i], t[i]))

Precedes(s, t) == LexLess(s, t, LAMBDA a, b : a < b)

PairPrecedes(p, q) == Precedes(p[1], q[1]) \/ (p[1] = q[1] /\ p[2] < q[2])

\* A finite set in the order of a strict total order: the i-th element has i - 1
\* before it.
Ordered(S, Less(_, _)) ==
  [i \in 1..Cardinality(S) |->
     CHOOSE x \in S : Cardinality({y \in S : Less(y, x)}) = i - 1]

\* A function on forms, as the sorted tuple of its pairs.
Pairs(f) ==
  LET forms == Ordered(DOMAIN f, Precedes)
  IN  [i \in DOMAIN forms |-> <<forms[i], f[forms[i]]>>]

First(s, n) == SubSeq(s, 1, IF Len(s) < n THEN Len(s) ELSE n)

-----------------------------------------------------------------------------
\* The rules scoped to a child, in the order of the cascade.
Scoped(c) == SelectSeq(rules, LAMBDA r : c \in r.scope)

\* What a child's cascade makes of one of its candidates.  A match counts for
\* an anchor only when a rule produced the form that ended as it.
Weight(mine, fired) ==
  FoldLeft(LAMBDA x, y : x * y, 1,
           [i \in DOMAIN mine |-> IF i \in fired THEN mine[i].confidence ELSE 10])
Transformed(mine, fired, output) ==
  [form |-> output, anchored |-> fired # {} /\ output \in anchors,
   weight |-> Weight(mine, fired)]
Transform(c, form) ==
  LET laws == [i \in DOMAIN Scoped(c) |-> Scoped(c)[i].rule]
  IN  Transformed(Scoped(c), Fired(laws, form), ApplyRules(laws, form))

\* The children that have the concept.
Attested == SelectSeq(ChildBeams, LAMBDA c : dist[c] # <<>>)

\* A candidate k of child c joins a partial state.
Proposed(p, c, t, mass) ==
  LET before(o) == IF o \in DOMAIN p.support THEN p.support[o] ELSE {}
  IN  [support |-> [o \in DOMAIN p.support \cup {t.form} |->
                      IF o = t.form THEN before(o) \cup {c} ELSE before(o)],
       anchored |-> p.anchored \cup (IF t.anchored THEN {t.form} ELSE {}),
       mass |-> p.mass * mass * t.weight]
Joined(p, c, k) == Proposed(p, c, Transform(c, k.form), k.mass)

Empty == [support |-> <<>>, anchored |-> {}, mass |-> 1]

\* Every state with every candidate of the child, in the order of the loops.
Combined(states, c) ==
  FlattenSeq([i \in DOMAIN states |->
    [j \in DOMAIN dist[c] |-> Joined(states[i], c, dist[c][j])]])

\* MUTANT of StateSignature: which forms were proposed, not by how many.
StateSignatureOfForms(p) ==
  <<[o \in DOMAIN p.support |-> 1], p.anchored>>

\* What the rest of the scoring reads of a state.
StateSignature(p) ==
  <<[o \in DOMAIN p.support |-> Cardinality(p.support[o])], p.anchored>>

\* States that score alike from here on are one state with their mass
\* together; it keeps the attribution of the heaviest.
MergedOf(states) ==
  LET at(sig) == {i \in DOMAIN states : StateSignature(states[i]) = sig}
      heaviest(S) == CHOOSE i \in S : \A j \in S :
                       \/ states[i].mass > states[j].mass
                       \/ states[i].mass = states[j].mass /\ i <= j
  IN  {[states[heaviest(at(sig))] EXCEPT
          !.mass = MapThenSumSet(LAMBDA i : states[i].mass, at(sig))] :
         sig \in {StateSignature(states[i]) : i \in DOMAIN states}}

\* An anchored state counts once more when states are ranked.
Ranked(p) == p.mass * (IF p.anchored # {} THEN Boost ELSE 1)

Ahead(p, q) ==
  LET counts(x) == Pairs(StateSignature(x)[1])
      matches(x) == Pairs([o \in DOMAIN x.support |->
                             IF o \in x.anchored THEN 1 ELSE 0])
  IN  \/ Ranked(p) > Ranked(q)
      \/ /\ Ranked(p) = Ranked(q)
         /\ \/ LexLess(counts(p), counts(q), PairPrecedes)
            \/ counts(p) = counts(q)
               /\ LexLess(matches(p), matches(q), PairPrecedes)

MergeAndPrune(states) == First(Ordered(MergedOf(states), Ahead), Beam)

-----------------------------------------------------------------------------
\* What a form gets from one state: the share of the children proposing it.
Share(p, o) ==
  IF o \in DOMAIN p.support
  THEN p.mass * Cardinality(p.support[o]) * (IF o \in p.anchored THEN Boost ELSE 1)
  ELSE 0

Better(a, b) == a.mass > b.mass \/ (a.mass = b.mass /\ Precedes(a.form, b.form))

\* normalize_and_prune: equal forms merged, heaviest first, ties by segments.
NormalizeAndPrune(states) ==
  LET forms == UNION {DOMAIN states[i].support : i \in DOMAIN states}
      candidate(o) == [form |-> o, mass |->
        MapThenSumSet(LAMBDA i : Share(states[i], o), DOMAIN states)]
  IN  First(Ordered({candidate(o) : o \in forms}, Better), Beam)

\* The distribution of a leaf: its readings of the concept, equally likely.
LeafBeam(readings) ==
  First(Ordered({[form |-> readings[i], mass |->
                    Cardinality({j \in DOMAIN readings : readings[j] = readings[i]})] :
                   i \in DOMAIN readings}, Better), Beam)

Init ==
  /\ dist \in {d \in [ToSet(ChildBeams) -> Dists] : \E c \in DOMAIN d : d[c] # <<>>}
  /\ rules \in Cascades /\ anchors \in AnchorSets
  /\ folded = 0 /\ partials = <<Empty>> /\ pruned = 0 /\ beam = <<>>

\* The next child with the concept is folded in.
FoldChild ==
  /\ folded < Len(Attested) /\ folded' = folded + 1
  /\ \E all \in {Combined(partials, Attested[folded + 1])} :
       /\ partials' = MergeAndPrune(all)
       /\ pruned' = pruned +
            Max({0, Cardinality({StateSignature(all[i]) : i \in DOMAIN all}) - Beam})
  /\ UNCHANGED <<dist, rules, anchors, beam>>

\* All are in: the states are scored into the parent's candidates.
Score ==
  /\ folded = Len(Attested) /\ beam = <<>>
  /\ beam' = NormalizeAndPrune(partials)
  /\ UNCHANGED <<dist, rules, anchors, folded, partials, pruned>>

Next == FoldChild \/ Score
Spec == Init /\ [][Next]_vars

-----------------------------------------------------------------------------
(* What the step reports.                                                   *)

\* The form a child would report on its own, after its cascade.
TopOutput(c) == Transform(c, dist[c][1].form).form

DecidedByTieBreak == Len(beam) >= 2 /\ beam[1].mass = beam[2].mass

\* The children standing behind the winner, of all children of the node.
WinningSupport ==
  {c \in ToSet(Attested) : TopOutput(c) = beam[1].form}

\* The distinct results of the rules on the children's candidates.
Results ==
  UNION {{[law |-> Scoped(c)[i].rule, candidate |-> <<c, dist[c][k]>>,
           given |-> Given([j \in DOMAIN Scoped(c) |-> Scoped(c)[j].rule], i,
                           dist[c][k].form)] :
            i \in DOMAIN Scoped(c), k \in DOMAIN dist[c]} : c \in ToSet(Attested)}

\* Coverage is successful over applicable: a word without the target is neither.
Diagnostics ==
  LET of(S) == {x \in Results : Status(x.law, x.given, anchors) \in S}
  IN  [evaluated |-> Cardinality(Results),
       successful |-> Cardinality(of({"applied", "anchor mismatch"})),
       applicable |-> Cardinality(Results \ of({"target absent"}))]

\* What each child said on the step, and what the preview of the commit says:
\* every form of the child, not its best one.
StepConverged == Converged({{TopOutput(c)} : c \in ToSet(Attested)})
PreviewConverged ==
  Converged({{Transform(c, dist[c][i].form).form : i \in DOMAIN dist[c]} :
               c \in ToSet(Attested)})

-----------------------------------------------------------------------------
TypeOK ==
  /\ folded \in 0..Len(ChildBeams) /\ pruned \in Nat
  /\ Len(partials) \in 1..Beam /\ Len(beam) \in 0..Beam
  /\ \A i \in DOMAIN beam : beam[i].mass > 0 /\ beam[i].form # <<>>
  /\ Diagnostics.successful <= Diagnostics.applicable
  /\ beam # <<>> => WinningSupport \subseteq ToSet(Attested)

\* The mass of a form by the definition: over every way of taking one candidate
\* of each child, the weight of the choice times the share of the children that
\* propose the form in it.
Exact(o) ==
  LET kids == ToSet(Attested)
      choices == {f \in [kids -> 1..2] : \A c \in kids : f[c] <= Len(dist[c])}
      image(f, c) == Transform(c, dist[c][f[c]].form)
      behind(f) == {c \in kids : image(f, c).form = o}
      weight(f) ==
        FoldLeft(LAMBDA x, y : x * y, 1, [i \in DOMAIN Attested |->
          LET c == Attested[i] IN dist[c][f[c]].mass * image(f, c).weight])
  IN  MapThenSumSet(LAMBDA f : weight(f) * Cardinality(behind(f)) *
        (IF \E c \in behind(f) : image(f, c).anchored THEN Boost ELSE 1), choices)

\* Folding the children in one at a time, merging states on the way, scores a
\* form exactly as the whole product of the beams would as long as nothing was
\* pruned; pruning can only take mass away, and the beam comes out best first
\* (traversal/reconstructor.py, _support_signature: "Two partial states scoring
\* identically from here on should merge").
IncrementalIsExact ==
  /\ \A i \in DOMAIN beam : \E exact \in {Exact(beam[i].form)} :
       beam[i].mass <= exact /\ (pruned = 0 => beam[i].mass = exact)
  /\ \A i, j \in DOMAIN beam : i < j => Better(beam[i], beam[j])

\* Every word of a child, the rules it meets and what they do to it.
WordsOf(c) == {dist[c][i].form : i \in DOMAIN dist[c]}

CascadeExplained ==
  folded = 0 => \A c \in ToSet(ChildBeams) : \A i \in DOMAIN Scoped(c) :
    LET laws == [j \in DOMAIN Scoped(c) |-> Scoped(c)[j].rule]
    IN  \A s \in WordsOf(c) : RewriteIsLeftmost(laws[i], Given(laws, i, s))

\* A cascade that makes two words of a child one holds a rule reported as
\* removing a distinction (rules/contrast.py:14-16).
CascadeMergersReported ==
  folded = 0 => \A c \in ToSet(ChildBeams) :
    LET laws == [j \in DOMAIN Scoped(c) |-> Scoped(c)[j].rule]
    IN  /\ \A i \in DOMAIN laws : Len(laws[i].replacement) <= 1
        /\ \A i \in DOMAIN laws : Borderless(laws[i].target)
        /\ \E s, t \in WordsOf(c) : s # t /\ ApplyRules(laws, s) = ApplyRules(laws, t)
        => CascadeReductions(laws, WordsOf(c)) # {}

\* STATED BY rules/contrast.py:7-15 ("merger -- two distinct input sequences
\* produce one output sequence, so a contrast the child made no longer exists
\* in the parent. [...] Both are exact and cheap"): the same of any rule whose
\* replacement is one segment.
OverlapMergersReported ==
  folded = 0 => \A c \in ToSet(ChildBeams) : \A i \in DOMAIN Scoped(c) :
    MergerReported(Scoped(c)[i].rule, WordsOf(c))

\* STATED BY agent/tools/convergence.py:92-95 ("This is the whole node, which is
\* what the diagnostics will record"): preview and step agree.
PreviewIsRecorded ==
  beam # <<>> => (StepConverged <=> PreviewConverged)
=============================================================================
