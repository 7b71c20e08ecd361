------------------------------- MODULE Scoring -------------------------------
(***************************************************************************)
(* How a reconstructed word is compared with the gold, after inference and *)
(* for a report only: edit distance over segments, repetition structure,   *)
(* tone tokens apart, units that both sides name, and the scores of one    *)
(* target node; then the values its words show, and how a session that    *)
(* chose among them is labelled.                                           *)
(*                                                                         *)
(* A fraction is a pair <<n, d>>, compared by Less; a measure that was not *)
(* taken is NotScored.  Means and quartiles over words are left out: what  *)
(* they range over is not.                                                 *)
(***************************************************************************)
EXTENDS Naturals, Sequences, SequencesExt, FiniteSetsExt

CONSTANTS
  Gap,         \* no segment in this column; below every token
  Boundaries,  \* tokens between the pieces of a word
  Tones,       \* tokens made of superscripts alone
  Ambiguous,   \* tokens that mix notations: attached digits, slashes
  NotScored

ASSUME ScoringAssumption ==
  /\ Gap \in Nat /\ Boundaries \subseteq Nat /\ Tones \subseteq Nat /\ Ambiguous \subseteq Nat
  /\ Gap \notin Boundaries \cup Tones \cup Ambiguous
  /\ Boundaries \cap Tones = {} /\ Ambiguous \cap Tones = {}

Less(p, q) == p[1] * q[2] < q[1] * p[2]

-----------------------------------------------------------------------------
(* metrics.py: unit-cost alignment.                                        *)

Differ(s, t) == IF s = t THEN 0 ELSE 1

\* Cost[i, j]: of the first i tokens of one word and the first j of the other.
Cost(left, right) ==
  LET cost[ij \in (0..Len(left)) \X (0..Len(right))] ==
        LET i == ij[1]
            j == ij[2]
        IN IF i = 0 THEN j ELSE IF j = 0 THEN i
           ELSE Min({cost[<<i - 1, j - 1>>] + Differ(left[i], right[j]),
                     cost[<<i - 1, j>>] + 1, cost[<<i, j - 1>>] + 1})
  IN cost

EditDistance(left, right) == Cost(left, right)[<<Len(left), Len(right)>>]

\* MUTANT of Backtrace: an indel is taken where it is possible, whatever it costs.
BacktraceGreedy(left, right) ==
  LET back[ij \in (0..Len(left)) \X (0..Len(right))] ==
        LET i == ij[1]
            j == ij[2]
        IN IF i = 0 /\ j = 0 THEN <<>>
           ELSE IF i > 0 /\ j > 0 /\ left[i] = right[j]
           THEN Append(back[<<i - 1, j - 1>>], <<left[i], right[j]>>)
           ELSE IF i > 0 THEN Append(back[<<i - 1, j>>], <<left[i], Gap>>)
           ELSE Append(back[<<i, j - 1>>], <<Gap, right[j]>>)
  IN back[<<Len(left), Len(right)>>]

\* align: the columns; a diagonal step first, then a deletion, then an insertion.
Backtrace(left, right) ==
  LET cost == Cost(left, right)
      back[ij \in (0..Len(left)) \X (0..Len(right))] ==
        LET i == ij[1]
            j == ij[2]
        IN IF i = 0 /\ j = 0 THEN <<>>
           ELSE IF i > 0 /\ j > 0
                   /\ cost[ij] = cost[<<i - 1, j - 1>>] + Differ(left[i], right[j])
           THEN Append(back[<<i - 1, j - 1>>], <<left[i], right[j]>>)
           ELSE IF i > 0 /\ cost[ij] = cost[<<i - 1, j>>] + 1
           THEN Append(back[<<i - 1, j>>], <<left[i], Gap>>)
           ELSE Append(back[<<i, j - 1>>], <<Gap, right[j]>>)
  IN back[<<Len(left), Len(right)>>]

\* Over the longer word; two empty words are identical.
NormalizedEditDistance(left, right) ==
  IF left = <<>> /\ right = <<>> THEN <<0, 1>>
  ELSE <<EditDistance(left, right), Max({Len(left), Len(right)})>>

\* bcubed: of each column, the share of its class on one side that is in its
\* class on the other; precision and recall are the means.
Shares(columns) ==
  LET alike(i, sides) == {j \in DOMAIN columns : \A s \in sides : columns[j][s] = columns[i][s]}
      share(side) == [i \in DOMAIN columns |->
                        <<Cardinality(alike(i, {1, 2})), Cardinality(alike(i, {side}))>>]
  IN [precision |-> share(1), recall |-> share(2)]
BCubed(left, right) == Shares(Backtrace(left, right))

\* Token order decides between alternatives that are equally near.
TokensLess(s, t) ==
  \E i \in 1..Len(t) : /\ \A j \in 1..(i - 1) : j <= Len(s) /\ s[j] = t[j]
                       /\ i > Len(s) \/ (i <= Len(s) /\ s[i] < t[i])

Preferred(x, y, a, b) ==
  \/ Less(x, y)
  \/ ~Less(y, x) /\ x[1] < y[1]
  \/ ~Less(y, x) /\ x[1] = y[1] /\ TokensLess(a, b)
Nearer(c, a, b) ==
  Preferred(NormalizedEditDistance(c, a), NormalizedEditDistance(c, b), a, b)

Nearest(candidate, alternatives) ==
  CHOOSE a \in alternatives : \A b \in alternatives \ {a} : Nearer(candidate, a, b)

\* compare_to_nearest
Compare(candidate, word) ==
  [nearest |-> word, distance |-> EditDistance(candidate, word),
   normalized |-> NormalizedEditDistance(candidate, word),
   bcubed |-> BCubed(candidate, word), exact |-> candidate = word]
CompareToNearest(candidate, alternatives) ==
  Compare(candidate, Nearest(candidate, alternatives))

-----------------------------------------------------------------------------
(* diagnostics.py: tones and pieces, without any normalisation.            *)

Phonemes(tokens) == SelectSeq(tokens, LAMBDA t : t \notin Tones)
TonesOf(tokens) == SelectSeq(tokens, LAMBDA t : t \in Tones)

\* pieces: what stands between boundaries, empty pieces included.
Pieces(tokens) ==
  LET cuts == <<0>> \o SelectSeq([i \in DOMAIN tokens |-> i],
                                 LAMBDA i : tokens[i] \in Boundaries)
                    \o <<Len(tokens) + 1>>
  IN [k \in 1..(Len(cuts) - 1) |-> SubSeq(tokens, cuts[k] + 1, cuts[k + 1] - 1)]

\* token_diagnostics; candidate is NotScored when there is no output.
TokenStatus(candidate, alternatives) ==
  IF candidate = NotScored THEN "missing_output"
  ELSE IF \E w \in alternatives \cup {candidate} : ToSet(w) \cap Ambiguous # {}
  THEN "ambiguous_notation_unscored"
  ELSE IF \E w \in alternatives \cup {candidate} : Phonemes(w) = <<>>
  THEN "missing_segment_analysis_unscored"
  ELSE "superscript_token_partition_only"

ToneStatus(candidate, alternatives) ==
  LET status == TokenStatus(candidate, alternatives)
      gold == {TonesOf(a) : a \in alternatives}
  IN IF status \in {"missing_output", "ambiguous_notation_unscored"} THEN status
     ELSE IF status = "missing_segment_analysis_unscored"
     THEN "token_comparison_only_no_category_mapping"
     ELSE IF TonesOf(candidate) = <<>> /\ gold = {<<>>} THEN "both_unmarked"
     ELSE IF TonesOf(candidate) = <<>> \/ <<>> \in gold
     THEN "one_side_or_alternative_unmarked"
     ELSE "token_comparison_only_no_category_mapping"

TokenDiagnostics(candidate, alternatives) ==
  LET compared == TokenStatus(candidate, alternatives) = "superscript_token_partition_only"
      phonemes == {Phonemes(a) : a \in alternatives}
      toned == compared /\ ToneStatus(candidate, alternatives) # "both_unmarked"
  IN [status |-> TokenStatus(candidate, alternatives),
      tones |-> ToneStatus(candidate, alternatives),
      segments |-> IF compared THEN CompareToNearest(Phonemes(candidate), phonemes).normalized
                   ELSE NotScored,
      toneExact |-> IF toned THEN TonesOf(candidate) \in {TonesOf(a) : a \in alternatives}
                    ELSE NotScored]

\* compare_cognate_units: units both sides name, each once; pairs of a unit and
\* its tokens in order.
UnitNames(units) == [k \in DOMAIN units |-> units[k][1]]
AmbiguousUnits(predicted, target) ==
  \/ target = <<>>
  \/ \E units \in {predicted, target} :
       Cardinality(ToSet(UnitNames(units))) # Len(units)
       \/ \E k \in DOMAIN units : units[k][2] = <<>>

CompareUnits(predicted, target) ==
  IF NotScored \in {predicted, target} THEN [status |-> "missing_analysis"]
  ELSE IF AmbiguousUnits(predicted, target) THEN [status |-> "ambiguous_analysis"]
  ELSE LET p == ToSet(UnitNames(predicted))
           t == ToSet(UnitNames(target))
           shared(units) == SelectSeq(UnitNames(units), LAMBDA u : u \in p \cap t)
       IN [status |-> "explicit_units",
           exact |-> {x[1] : x \in ToSet(predicted) \cap ToSet(target)},
           rate |-> <<Cardinality(ToSet(predicted) \cap ToSet(target)), Len(target)>>,
           missing |-> t \ p, extra |-> p \ t,
           reordered |-> shared(predicted) # shared(target),
           whole |-> predicted = target]

\* annotated_units: a word's pieces, when every one is of a known cognate.  A
\* piece is [unit, kind, at]; a word without an analysis has none (NotScored).
AnnotatedUnits(word) ==
  LET material == IF word.pieces = NotScored THEN <<>>
                  ELSE SelectSeq(word.pieces, LAMBDA p : p.kind # "boundary")
  IN IF material = <<>> \/ \E p \in ToSet(material) : p.unit = NotScored THEN NotScored
     ELSE [k \in DOMAIN material |->
             <<material[k].unit, [i \in DOMAIN material[k].at |-> word.segments[material[k].at[i]]]>>]

\* with_unit_diagnostics: exact in one of the gold forms, with nothing more.
UnitExact(top, golds) ==
  LET compared == {CompareUnits(AnnotatedUnits(top), AnnotatedUnits(g)) : g \in golds}
      scored == {c \in compared : c.status = "explicit_units"}
  IN IF AnnotatedUnits(top) = NotScored \/ scored = {} THEN NotScored
     ELSE \E c \in scored : c.rate[1] = c.rate[2] /\ c.extra = {}

-----------------------------------------------------------------------------
(* targets.py: one target node.                                            *)

\* A binding gives the gold words of the concepts of a node; a step gives each
\* concept its candidates, the heaviest first, or is NotScored.
CandidatesOf(step, k) ==
  IF step = NotScored THEN <<>>
  ELSE IF k \in DOMAIN step.output THEN step.output[k] ELSE <<>>

GoldWords(golds) == {g.segments : g \in golds}

\* A concept with no candidate is missing, a miss, and has no distance.
ConceptScore(candidates, golds) ==
  LET gold == GoldWords(golds)
      graded(c) == CompareToNearest(c.segments, gold)
      first(x, y, i, j) == Less(x, y) \/ (~Less(y, x) /\ i <= j)
      best == CHOOSE i \in DOMAIN candidates : \A j \in DOMAIN candidates :
                first(graded(candidates[i]).normalized, graded(candidates[j]).normalized, i, j)
  IN IF candidates = <<>>
     THEN [missing |-> TRUE, top |-> FALSE, beam |-> FALSE,
           distance |-> NotScored, best |-> NotScored,
           tokens |-> TokenDiagnostics(NotScored, gold), units |-> NotScored]
     ELSE [missing |-> FALSE, top |-> candidates[1].segments \in gold,
           beam |-> \E c \in ToSet(candidates) : c.segments \in gold,
           distance |-> graded(candidates[1]).normalized,
           best |-> graded(candidates[best]).normalized,
           tokens |-> TokenDiagnostics(candidates[1].segments, gold),
           units |-> UnitExact(candidates[1], golds)]

\* Which gold words the daughters show as they are, and the hits outside these.
Selection(binding, scores, observed) ==
  LET eligible == {k \in DOMAIN binding : observed[k] # {}}
      reachable == {k \in DOMAIN binding : observed[k] \cap GoldWords(binding[k]) # {}}
  IN [eligible |-> eligible, reachable |-> reachable,
      outsideTop |-> {k \in eligible \ reachable : scores[k].top},
      outsideBeam |-> {k \in eligible \ reachable : scores[k].beam}]

Tally(binding, scores, observed) ==
  LET of(P(_)) == Cardinality({k \in DOMAIN binding : P(scores[k])})
  IN [evaluated |-> Cardinality(DOMAIN binding),
      missing |-> of(LAMBDA s : s.missing),
      topHits |-> of(LAMBDA s : s.top),
      beamHits |-> of(LAMBDA s : s.beam),
      distances |-> {k \in DOMAIN binding : scores[k].distance # NotScored},
      selection |-> Selection(binding, scores, observed),
      scores |-> scores]
EvaluateTarget(binding, step, observed) ==
  Tally(binding, [k \in DOMAIN binding |-> ConceptScore(CandidatesOf(step, k), binding[k])],
        observed)

-----------------------------------------------------------------------------
(***************************************************************************)
(* Which of two values a committed word shows at one position of one       *)
(* cognate unit, whether that is the value the stated criterion gives, and *)
(* how a session's decisions are labelled.                                 *)
(*                                                                         *)
(* An opportunity names a concept, a unit, a locus ("piece", "initial" or  *)
(* "final"), the token one child shows, the token the other one shows in   *)
(* its place, and the reading that is expected; an unresolved one (tied)   *)
(* is read and never scored.  A session is what one node was left with:    *)
(* candidates and assembly columns per concept, the confidence of each     *)
(* committed claim, and whether the output counts as the model's.          *)
(* Which out-group forms a session read (navigation) is left out.          *)
(***************************************************************************)

CONSTANTS
  CriterionPrimary, WitnessRuleFloor, PairsFloor,     \* what the criterion reaches
  BaselinePrimary, SurveyLabelCeiling, BaselinePairs, \* what shallow rules reach
  Half                                                \* confidence 0.5

ASSUME JudgmentAssumption ==
  {CriterionPrimary, WitnessRuleFloor, PairsFloor,
   BaselinePrimary, SurveyLabelCeiling, BaselinePairs} \subseteq Nat

-----------------------------------------------------------------------------
(* decisions.py: one opportunity.                                          *)

\* MUTANT of PieceReading: a piece nobody can name is not looked at.
PieceReadingKnown(matching, unknown) == IF matching # {} THEN "retain" ELSE "absent"

\* The unit itself: present, gone, or possibly in a piece of unknown unit.
PieceReading(matching, unknown) ==
  IF matching # {} THEN "retain" ELSE IF unknown THEN "unscorable" ELSE "absent"

\* The edge of the one piece of the unit.
EdgeReading(o, word, matching, unknown) ==
  IF Cardinality(matching) # 1
  THEN IF unknown THEN "unscorable"
       ELSE IF matching = {} THEN "unit_missing" ELSE "unscorable"
  ELSE LET at == word.pieces[CHOOSE j \in matching : TRUE].at
           edge == word.segments[at[IF o.locus = "final" THEN Len(at) ELSE 1]]
       IN IF edge = o.token THEN "retain" ELSE IF edge = o.absent THEN "absent" ELSE "other"

\* read_opportunity, of the heaviest candidate.
Reading(o, candidates) ==
  IF candidates = <<>> THEN "missing"
  ELSE LET word == candidates[1]
           matching == {j \in DOMAIN word.pieces : word.pieces[j].unit = o.unit}
           unknown == \E p \in ToSet(word.pieces) : p.kind = "unknown"
       IN IF word.pieces = NotScored THEN "unscorable"
          ELSE IF o.locus = "piece" THEN PieceReading(matching, unknown)
          ELSE EdgeReading(o, word, matching, unknown)

\* _deciding_columns: those of the unit; at an edge, those with the token
\* against nothing.
DecidingColumns(o, session) ==
  {c \in session.columns[o.concept] :
     /\ c.unit = o.unit
     /\ o.locus # "piece" => {Gap, o.token} \subseteq ToSet(c.reflexes)}

ExplicitSets(o, session) ==
  {c.set : c \in {d \in DecidingColumns(o, session) : d.set # NotScored /\ d.by # "residue"}}

DecidedBy(o, session) ==
  IF DecidingColumns(o, session) = {} THEN NotScored
  ELSE IF ExplicitSets(o, session) # {} THEN "explicit_claim" ELSE "residue_policy"

\* The confidence of the committed claims that decided the column, when it is one.
Confidence(o, session) ==
  LET of == {session.claims[s] : s \in ExplicitSets(o, session) \cap DOMAIN session.claims}
  IN IF Cardinality(of) = 1 THEN CHOOSE c \in of : TRUE ELSE NotScored

Row(o, session) ==
  LET reading == Reading(o, session.output[o.concept])
  IN [reading |-> reading, tied |-> o.tied,
      correct |-> ~o.tied /\ reading = o.expected,
      counted |-> session.committed /\ ~session.fallback,
      by |-> DecidedBy(o, session), confidence |-> Confidence(o, session)]

Rows(case, session) == [i \in DOMAIN case.opportunities |-> Row(case.opportunities[i], session)]
Primary(case) == {i \in DOMAIN case.opportunities : ~case.opportunities[i].tied}
Ties(case) == DOMAIN case.opportunities \ Primary(case)

ModelCorrect(case, rows) == {i \in Primary(case) : rows[i].correct /\ rows[i].counted}

\* The one reading that every scored opportunity has, if there is one.
UniformReading(case, rows) ==
  LET readings == {rows[i].reading : i \in Primary(case)}
  IN IF Cardinality(readings) = 1 THEN CHOOSE r \in readings : TRUE ELSE NotScored

\* score_decisions.  Both sums are over every planned opportunity.
ScoreDecisions(case, session) ==
  LET rows == Rows(case, session)
  IN [planned |-> Cardinality(Primary(case)),
      correct |-> Cardinality({i \in Primary(case) : rows[i].correct}),
      modelCorrect |-> Cardinality(ModelCorrect(case, rows)),
      uniform |-> UniformReading(case, rows),
      pairs |-> Cardinality({p \in case.pairs : \A i \in p : rows[i].correct})]

-----------------------------------------------------------------------------
(* judgment.py: a session against the shallow rules, and its certainty.    *)

\* Of the opportunities a shallow rule gets wrong, those the model got right.
Defeats(case, rows, rule) == case.errors[rule] \cap ModelCorrect(case, rows)

Confident(row) == row.counted /\ row.confidence # NotScored /\ row.confidence > Half
Hedged(row) == row.counted /\ row.confidence # NotScored /\ row.confidence <= Half

Uncertainty(case, rows) ==
  [marked |-> {i \in Ties(case) : Hedged(rows[i])},
   hedged |-> {i \in Primary(case) : Hedged(rows[i])},
   falseConfident |-> {i \in DOMAIN rows : Confident(rows[i]) /\ ~rows[i].correct}]

ModelPairs(case, rows) ==
  Cardinality({p \in case.pairs : p \subseteq ModelCorrect(case, rows)})

ValueLabel(case, session) ==
  LET rows == Rows(case, session)
      right == Cardinality(ModelCorrect(case, rows))
      pairs == ModelPairs(case, rows)
      defeated == [r \in DOMAIN case.errors |-> Cardinality(Defeats(case, rows, r))]
      others == \A r \in DOMAIN case.errors \ {"witness"} :
                  defeated[r] + 1 >= Cardinality(case.errors[r])
  IN IF \A i \in DOMAIN rows : ~rows[i].counted THEN "no commit"
     ELSE IF UniformReading(case, rows) \in {"retain", "absent"} THEN "uniform"
     ELSE IF case.errors["witness"] # {} /\ defeated["witness"] <= SurveyLabelCeiling
     THEN "witness-rule level"
     ELSE IF /\ right >= CriterionPrimary /\ defeated["witness"] >= WitnessRuleFloor
             /\ others /\ pairs >= PairsFloor
     THEN "criterion-sensitive"
     ELSE IF right <= BaselinePrimary \/ pairs <= BaselinePairs THEN "baseline-level"
     ELSE "mixed"

UncertaintyLabel(case, session) ==
  LET rows == Rows(case, session)
      u == Uncertainty(case, rows)
  IN IF \A i \in DOMAIN rows : ~rows[i].counted THEN "no commit"
     ELSE IF Cardinality(u.marked) + 1 >= Cardinality(Ties(case)) /\ Cardinality(u.hedged) <= 1
     THEN "warranted"
     ELSE IF u.marked = {} THEN "none" ELSE "partial"

-----------------------------------------------------------------------------
(* Properties *)

\* One side of the columns, its gaps left out, is the beginning of a word.
Spells(columns, side, word, length) ==
  LET filled == {i \in DOMAIN columns : columns[i][side] # Gap}
  IN /\ Cardinality(filled) = length
     /\ \A i \in filled : columns[i][side] = word[Cardinality({k \in filled : k <= i})]

\* The ways to lay out the beginnings of two words: what stands in one column.
Matchings(i, j) ==
  {m \in SUBSET ((1..i) \X (1..j)) :
     \A p, q \in m : p # q => (p[1] < q[1] /\ p[2] < q[2]) \/ (q[1] < p[1] /\ q[2] < p[2])}
Price(left, right, m, i, j) ==
  i + j - 2 * Cardinality(m) + Cardinality({p \in m : left[p[1]] # right[p[2]]})

\* The alignment that is shown and the distance that is counted are one: the
\* columns spell both words, the ones that differ are as many as the distance,
\* and no other way to lay the words out has fewer.
AlignmentIsDistance(left, right) ==
  LET columns == Backtrace(left, right)
      m == Len(left)
      n == Len(right)
  IN /\ Spells(columns, 1, left, m) /\ Spells(columns, 2, right, n)
     /\ Cardinality({i \in DOMAIN columns : columns[i][1] # columns[i][2]})
          = EditDistance(left, right)
     /\ EditDistance(left, right) = Min({Price(left, right, p, m, n) : p \in Matchings(m, n)})

\* What can be taken from an output: a concept's words, the analysis of its
\* word, the unit of a piece; and the commit as a whole.
Without(session, k, candidates) == [session EXCEPT !.output[k] = candidates]
Cuts(candidates) ==
  IF candidates = <<>> THEN {}
  ELSE LET word == candidates[1]
           pieces == word.pieces
       IN {<<>>, <<[word EXCEPT !.pieces = NotScored]>>}
          \cup IF pieces = NotScored THEN {}
               ELSE {<<[word EXCEPT !.pieces[j] =
                         [@ EXCEPT !.unit = NotScored, !.kind = "unknown"]]>> :
                       j \in DOMAIN pieces}
Deletions(session) ==
  {[session EXCEPT !.committed = FALSE]}
  \cup UNION {{Without(session, k, c) : c \in Cuts(session.output[k])} :
               k \in DOMAIN session.output}

\* Deleting output or analysis cannot raise what is scored, nor earn the best
\* label (decisions.py).
DeletionNeverHelps(case, session) ==
  LET before == ScoreDecisions(case, session)
  IN \A s \in Deletions(session) :
       LET after == ScoreDecisions(case, s)
       IN /\ after.planned = before.planned
          /\ after.correct <= before.correct
          /\ after.modelCorrect <= before.modelCorrect
          /\ ValueLabel(case, s) = "criterion-sensitive"
               => ValueLabel(case, session) \in {"criterion-sensitive", "uniform"}
=============================================================================
