------------------------------ MODULE Assembly ------------------------------
(***************************************************************************)
(* The proto-inventory assembler: a committed inventory maps sets of       *)
(* corresponding reflexes to proto segments; a parent form is built column *)
(* by column from an alignment of the children's words.                    *)
(*                                                                         *)
(* Segments are numbered in code-point order, the gap is below them all.   *)
(* A set is named by its reflexes (derive_set_id, under one alignment).    *)
(* Masses are natural numbers and multiply; a confidence c is 4c, so the   *)
(* residue's 0.25 is 1.  The aligner is LingPy, a parameter.  Plans and    *)
(* dispositions are those of one concept.  Rationales, supports and the    *)
(* pieces of a word are left out; anchors count as in Reconstruction.      *)
(* The list of candidate tuples is that of whole words; under the unit     *)
(* contract (Correspondences) it is never cut: too many are refused.  A    *)
(* word is one whole unit here, so no column is of a boundary unit, the    *)
(* one kind whose tied columns may be read as a boundary of the children.  *)
(***************************************************************************)
EXTENDS Rules, Environments, FiniteSetsExt

CONSTANTS
  Unspellable,   \* segments the rule language cannot write
  Align(_),      \* the aligner: words to rows
  MaxTuples,     \* max_candidate_tuples
  MaxUnitTuples, \* variants of one reading, and tuples of words of a concept
  Unconditioned  \* no environment

ASSUME AssemblyAssumption ==
  /\ Segment \subseteq Nat /\ Gap \in Nat /\ \A s \in Segment : Gap < s
  /\ MaxTuples \in Nat \ {0} /\ MaxUnitTuples \in Nat \ {0}

ResidueMass == 1

\* A commitment: the reflexes of a set, one per child, the proto segment they
\* are reconstructed as, and the environment it is claimed for.
Claim(reflexes, proto, conditioning, confidence) ==
  [reflexes |-> reflexes, proto |-> proto, conditioning |-> conditioning,
   confidence |-> confidence]

Conditioned(c) == c.conditioning # Unconditioned

\* ProtoInventorySpec: one value for a set under one environment, a reflex for
\* each child and material in at least one; a witness among the children, or
\* none (0) when unexplained columns are dropped.
WellFormedInventory(I, n) ==
  /\ \A c \in I.commitments :
       Len(c.reflexes) = n /\ \E k \in 1..n : c.reflexes[k] # Gap
  /\ \A c, d \in I.commitments :
       c.reflexes = d.reflexes /\ c.conditioning = d.conditioning => c = d
  /\ I.witness \in 0..n

AssertsNothing(I) ==
  I.commitments = {} /\ I.dispositions = <<>> /\ I.restorations = <<>>

-----------------------------------------------------------------------------
(* resolve_columns                                                         *)

ColumnMatches(I, rows, i) ==
  {c \in I.commitments : c.reflexes = Reflexes(rows, i)}

\* A column of gaps is skipped outright.
Live(rows) == {i \in 1..Width(rows) : Observed(rows, i) # {}}

\* The second pass takes the columns a conditioned claim could decide.
Deferred(I, rows) ==
  {i \in Live(rows) : \E c \in ColumnMatches(I, rows, i) : Conditioned(c)}

\* What a column no claim decides contributes.
Residue(I, rows, i) ==
  [at |-> i, reflexes |-> Reflexes(rows, i), rivals |-> {}, mass |-> ResidueMass,
   by |-> IF i \in DOMAIN I.dispositions THEN "disposition" ELSE "policy",
   proto |-> IF i \in DOMAIN I.dispositions THEN I.dispositions[i]
             ELSE IF I.witness # 0 THEN rows[I.witness][i] ELSE Gap]

\* What a claim contributes, and the other choices that would have held too.
Matched(c, rows, i, by, rivals) ==
  [at |-> i, reflexes |-> Reflexes(rows, i), rivals |-> rivals,
   mass |-> c.confidence, by |-> by, proto |-> c.proto]

ByElsewhere(I, rows, i) ==
  LET plain == {c \in ColumnMatches(I, rows, i) : ~Conditioned(c)}
  IN IF plain = {} THEN Residue(I, rows, i)
     ELSE Matched(CHOOSE c \in plain : TRUE, rows, i, "set", {})

ReadingOf(proto) == IF proto = Gap THEN {} ELSE {proto}

\* MUTANT of Decided: a column left for the second pass reads as what the
\* children show.
DecidedOrShown(I, rows) ==
  [i \in (1..Width(rows)) \ Deferred(I, rows) |->
     IF i \notin Live(rows) THEN {} ELSE ReadingOf(ByElsewhere(I, rows, i).proto)]

\* What is decided after the first pass.
Decided(I, rows) ==
  [i \in 1..Width(rows) |->
     IF i \in Deferred(I, rows) THEN Undecided
     ELSE IF i \notin Live(rows) THEN {}
     ELSE ReadingOf(ByElsewhere(I, rows, i).proto)]

Satisfied(I, rows, i) ==
  LET readings == ReadingsFrom(rows, Decided(I, rows))
  IN {c \in ColumnMatches(I, rows, i) :
        /\ Conditioned(c)
        /\ EnvironmentMatches(c.conditioning, readings, i) = "yes"}

\* By confidence, then by the lower proto segment.
Best(S) == CHOOSE c \in S : \A d \in S :
  \/ c.confidence > d.confidence
  \/ c.confidence = d.confidence /\ c.proto <= d.proto

Outcome(I, rows, i) ==
  IF i \in Deferred(I, rows) /\ Satisfied(I, rows, i) # {}
  THEN LET satisfied == Satisfied(I, rows, i)
       IN Matched(Best(satisfied), rows, i, "conditioned set",
                  satisfied \ {Best(satisfied)})
  ELSE ByElsewhere(I, rows, i)

\* The outcomes of the live columns, in order.
ResolveColumns(I, rows) ==
  LET columns == SelectSeq([i \in 1..Width(rows) |-> i], LAMBDA i : i \in Live(rows))
  IN [k \in DOMAIN columns |-> Outcome(I, rows, columns[k])]

Unaccounted(outcomes) ==
  {k \in DOMAIN outcomes : outcomes[k].by \in {"policy", "disposition"}}

\* The order of the alphabet, and nothing else, picked the value.
EqualConfidence(o) ==
  \E r \in o.rivals : r.confidence = o.mass /\ r.proto # o.proto

\* _assemble_segments: the protos in column order; a restored segment goes
\* before its column, or at the end when it is past the last.
AssembleSegments(outcomes, restorations) ==
  LET at == {outcomes[k].at : k \in DOMAIN outcomes}
      last == Max(at \cup DOMAIN restorations \cup {0})
      of(i) == SelectSeq(outcomes, LAMBDA o : o.at = i /\ o.proto # Gap)
      piece(i) == (IF i \in DOMAIN restorations THEN <<restorations[i]>> ELSE <<>>)
                  \o [k \in DOMAIN of(i) |-> of(i)[k].proto]
  IN FlattenSeq([i \in 1..last |-> piece(i)])

-----------------------------------------------------------------------------
(* _expand_tied_outcomes: what the weak columns of a reading could be too. *)

\* The values a column may take: its own; rivals of the same confidence; and
\* when its confidence is at most the threshold and the children differ there,
\* weak rivals and the reflexes themselves, boundaries excepted.
Alternatives(o, threshold) ==
  IF o.by \in {"policy", "disposition"} THEN {o.proto}
  ELSE {o.proto}
       \cup {r.proto : r \in {r \in o.rivals :
                                r.confidence = o.mass /\ EqualConfidence(o)}}
       \cup (IF o.mass <= threshold /\ Cardinality(ToSet(o.reflexes)) > 1
             THEN {r.proto : r \in {r \in o.rivals : r.confidence <= threshold}}
                  \cup (ToSet(o.reflexes) \ Boundaries)
             ELSE {})

\* Columns that vary together: neighbours with the same gaps and as many
\* alternatives.  A group is known by its first column.
Leader(outcomes, threshold, k) ==
  LET width(j) == Cardinality(Alternatives(outcomes[j], threshold))
      gaps(j) == {n \in DOMAIN outcomes[j].reflexes : outcomes[j].reflexes[n] = Gap}
      alike(j) == width(j) = width(k) /\ gaps(j) = gaps(k)
  IN Min({l \in 1..k : \A j \in l..k : alike(j)})

\* How strongly an alternative is claimed: a bare reflex is not.
Claimed(o, s) == Max({r.confidence : r \in {r \in o.rivals : r.proto = s}} \cup {0})

\* The alternatives in order: the column's own value, the rivals', reflexes.
Preferred(o, threshold) ==
  LET rest == Alternatives(o, threshold) \ {o.proto}
      before(t, s) == \/ Claimed(o, t) > Claimed(o, s)
                      \/ Claimed(o, t) = Claimed(o, s) /\ t < s
  IN <<o.proto>> \o [k \in 1..Cardinality(rest) |->
       CHOOSE s \in rest : Cardinality({t \in rest : before(t, s)}) = k - 1]

\* One way of choosing before another: the first group varies slowest.
Earlier(p, q) ==
  \E l \in DOMAIN p : p[l] < q[l] /\ \A m \in 1..(l - 1) : m \in DOMAIN p => p[m] = q[m]

\* Ways of choosing group by group, the first of them when there are too many;
\* no threshold (0), no choice.
Variants(outcomes, threshold) ==
  LET leaders == {Leader(outcomes, threshold, k) : k \in DOMAIN outcomes}
      ways == {p \in [leaders -> 1..(Cardinality(Segment) + 1)] :
                 \A l \in leaders : p[l] <= Len(Preferred(outcomes[l], threshold))}
      picks == {p \in ways : Cardinality({q \in ways : Earlier(q, p)}) < MaxUnitTuples}
  IN IF threshold = 0 THEN {outcomes}
     ELSE {[k \in DOMAIN outcomes |-> [outcomes[k] EXCEPT !.proto =
              Preferred(outcomes[k], threshold)[p[Leader(outcomes, threshold, k)]]]] :
             p \in picks}

-----------------------------------------------------------------------------
(* assemble_concept: the children's beams to the parent's candidates.      *)

TupleMass(t) == FoldLeft(LAMBDA m, k : m * k.mass, 1, t)
TupleWords(t) == [n \in DOMAIN t |-> t[n].form]

\* Words from the left, a proper prefix first.
WordLess(s, t) ==
  \E i \in 1..Len(t) : /\ \A j \in 1..(i - 1) : j <= Len(s) /\ s[j] = t[j]
                       /\ i > Len(s) \/ (i <= Len(s) /\ s[i] < t[i])

WordsLess(p, q) ==
  \E n \in DOMAIN p : WordLess(p[n], q[n]) /\ \A m \in 1..(n - 1) : p[m] = q[m]

Heavier(t, u) == \/ TupleMass(t) > TupleMass(u)
                 \/ TupleMass(t) = TupleMass(u) /\ WordsLess(TupleWords(t), TupleWords(u))

\* The first n of S in the order of the beam.
Foremost(S, n) == {t \in S : Cardinality({u \in S : Heavier(u, t)}) < n}

\* MUTANT of CandidateTuples: the list is cut on the way by half.
CandidateTuplesCutShort(dists) ==
  FoldLeft(LAMBDA frontier, d :
             Foremost({Append(t, d[k]) : t \in frontier, k \in DOMAIN d},
                      (MaxTuples + 1) \div 2),
           {<<>>}, dists)

\* _candidate_tuples: child by child, cut to the budget after each.
CandidateTuples(dists) ==
  FoldLeft(LAMBDA frontier, d :
             Foremost({Append(t, d[k]) : t \in frontier, k \in DOMAIN d}, MaxTuples),
           {<<>>}, dists)

ColumnMass(outcomes) ==
  FoldLeft(LAMBDA m, o : m * o.mass, 1, outcomes)

\* One tuple of words under every variant of its columns.  A concept only one
\* child attests is passed through.
Readings(I, t, threshold) ==
  IF Len(t) < 2 THEN {[words |-> t, columns |-> <<>>, form |-> t[1].form]}
  ELSE {[words |-> t, columns |-> v, form |-> AssembleSegments(v, I.restorations)] :
          v \in Variants(ResolveColumns(I, Align(TupleWords(t))), threshold)}

\* What normalize_and_prune is given: forms with their merged masses; a reading
\* under which every column is empty is dropped.
Assemble(I, dists, threshold) ==
  LET raw == UNION {Readings(I, t, threshold) : t \in CandidateTuples(dists)}
      mass(r) == TupleMass(r.words) * ColumnMass(r.columns)
  IN [f \in {r.form : r \in raw} \ {<<>>} |->
        MapThenSumSet(mass, {r \in raw : r.form = f})]

-----------------------------------------------------------------------------
(* derive_branch_rules: reflex > proto, one child's view of the inventory. *)

\* _reflex_of_proto: the one reflex the child has for a proto segment.
ReflexesOfProto(I, token, n) ==
  {c.reflexes[n] : c \in {c \in I.commitments : c.proto = token}}

Respellable(I, tokens, n) ==
  \A k \in DOMAIN tokens :
    /\ Cardinality(ReflexesOfProto(I, tokens[k], n)) = 1
    /\ Gap \notin ReflexesOfProto(I, tokens[k], n)
    /\ ReflexesOfProto(I, tokens[k], n) \cap Unspellable = {}

Respelled(I, tokens, n) ==
  [k \in DOMAIN tokens |-> CHOOSE s \in ReflexesOfProto(I, tokens[k], n) : TRUE]

EnvironmentKept(I, c, n) ==
  Conditioned(c) => Respellable(I, c.conditioning.left, n)
                    /\ Respellable(I, c.conditioning.right, n)

\* The commitments that give child n a rule; the ones that do not are the
\* child's identities, its insertions and what the rule language cannot write.
Ruled(I, n) ==
  {c \in I.commitments :
     /\ c.reflexes[n] \notin {Gap, c.proto}
     /\ {c.reflexes[n], c.proto} \cap (Boundaries \cup Unspellable) = {}}

\* MUTANT of RuleOf: the change runs from the parent to the child.
RuleOfDescent(I, c, n) ==
  [target |-> <<c.proto>>, replacement |-> <<c.reflexes[n]>>,
   left |-> <<>>, right |-> <<>>, initial |-> FALSE, final |-> FALSE]

RuleOf(I, c, n) ==
  LET kept == Conditioned(c) /\ EnvironmentKept(I, c, n)
  IN [target |-> <<c.reflexes[n]>>,
      replacement |-> IF c.proto = Gap THEN <<>> ELSE <<c.proto>>,
      left |-> IF kept THEN Respelled(I, c.conditioning.left, n) ELSE <<>>,
      right |-> IF kept THEN Respelled(I, c.conditioning.right, n) ELSE <<>>,
      initial |-> kept /\ c.conditioning.initial,
      final |-> kept /\ c.conditioning.final]

NonInvertible(I, n) ==
  \E c \in I.commitments : c.reflexes[n] = Gap /\ c.proto # Gap

LostContext(I, n) == \E c \in Ruled(I, n) : ~EnvironmentKept(I, c, n)

\* _no_child_reproduces, for a cascade of each child.
CrossBranch(form, words, cascades) ==
  \A n \in DOMAIN words : ApplyRules(cascades[n], words[n]) # form

-----------------------------------------------------------------------------
(* inventory_contrast_reductions *)

MergingClaims(I, proto) ==
  LET plain == {c \in I.commitments : c.proto = proto /\ proto # Gap /\ ~Conditioned(c)}
  IN IF Cardinality({c.reflexes : c \in plain}) < 2 THEN {} ELSE plain

\* The commitments reported as giving up a distinction, named by their sets.
ContrastReducing(I) ==
  LET merging == UNION {MergingClaims(I, c.proto) : c \in I.commitments}
  IN {c \in I.commitments :
        c.proto = Gap \/ \E d \in merging : d.reflexes = c.reflexes}

-----------------------------------------------------------------------------
(* Properties *)

\* The readings of the assembled form, column by column.
FinalReadings(I, rows) ==
  [i \in 1..Width(rows) |->
     IF i \in Live(rows) THEN ReadingOf(Outcome(I, rows, i).proto) ELSE {}]

\* A conditioned claim is used only where its environment stands in the form
\* that is finally assembled, though it was judged before the other columns of
\* the second pass were decided; the column's other outcome is never chosen
\* against a claim that was already known to hold.
ConditionedHolds(I, rows) ==
  \A i \in Live(rows) :
    LET o == Outcome(I, rows, i)
    IN /\ o.by = "conditioned set" =>
            \E c \in ColumnMatches(I, rows, i) :
              /\ Conditioned(c) /\ c.proto = o.proto
              /\ EnvironmentMatches(c.conditioning, FinalReadings(I, rows), i) = "yes"
       /\ (o.by # "conditioned set" /\ Deferred(I, rows) = {i}) =>
            \A c \in ColumnMatches(I, rows, i) : Conditioned(c) =>
              EnvironmentMatches(c.conditioning, FinalReadings(I, rows), i) = "no"

\* A context token the report gives for a column satisfies the environment
\* that asks for it there, when no claim decides a neighbour.
ReportAccepted(rows) ==
  \A i \in Live(rows) :
    LET shown == ObservedReadings(rows)
        context == ContextTokens(shown, i)
        holds(token, forward) == EnvironmentMatches(Asking(token, forward), shown, i) = "yes"
    IN /\ \A token \in context.left : holds(token, FALSE)
       /\ \A token \in context.right : holds(token, TRUE)
       /\ \A token \in Segment \cup {Edge} :
            (holds(token, FALSE) => token \in context.left)
            /\ (holds(token, TRUE) => token \in context.right)

\* Where every column is decided by an unconditioned claim, a child that lost
\* nothing, has one proto for each of its segments and no rule that feeds
\* another gets the assembled form from its own derived rules, in any order.
DerivedRulesAgree(I, rows, n) ==
  LET outcomes == ResolveColumns(I, rows)
      word == SelectSeq(rows[n], LAMBDA s : s # Gap)
      form == AssembleSegments(outcomes, <<>>)
      law == {RuleOf(I, c, n) : c \in Ruled(I, n)}
  IN /\ form # <<>> /\ ~NonInvertible(I, n)
     /\ \A c \in I.commitments : ~Conditioned(c)
     /\ \A k \in DOMAIN outcomes : outcomes[k].by = "set"
     /\ \A c, d \in I.commitments : c.reflexes[n] = d.reflexes[n] /\ c.proto # d.proto
                                    => c.reflexes[n] = Gap
     /\ \A c \in I.commitments : c \in Ruled(I, n) \/ c.reflexes[n] \in {Gap, c.proto}
     /\ \A r, q \in law : r.replacement # q.target
     => ~CrossBranch(form, <<word>>, <<SetToSeq(law)>>)

\* However many variants weak columns give a reading, the reading as it was
\* resolved is among them.
ResolvedIsVariant(I, rows, threshold) ==
  \E outcomes \in {ResolveColumns(I, rows)} : outcomes \in Variants(outcomes, threshold)

\* Cutting the list of tuples after each child drops no tuple that the whole
\* product, cut once, would have kept.
FrontierIsExact(dists) ==
  LET product == FoldLeft(LAMBDA S, d : {Append(t, d[k]) : t \in S, k \in DOMAIN d},
                          {<<>>}, dists)
  IN CandidateTuples(dists) = Foremost(product, MaxTuples)
=============================================================================
