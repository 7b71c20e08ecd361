--------------------------- MODULE Correspondences --------------------------
(***************************************************************************)
(* From the children's words to correspondence sets.  A word's annotation  *)
(* cuts it into pieces, each of a unit that may be a cognate; one word of  *)
(* each child makes a tuple, whose units are put in order and aligned one  *)
(* by one; the columns of every tuple are grouped into sets, which is what *)
(* a reconstruction commits values for.  Realignment replaces the aligner  *)
(* for one unit, and a conditioned split is checked against the columns.   *)
(*                                                                         *)
(* A concept's words, aligned, are a set of evidence columns here: the     *)
(* digests that name columns, units and sets are their contents.  Widths   *)
(* of pages, examples and previews are left out.                           *)
(***************************************************************************)
EXTENDS Assembly

CONSTANTS
  Children,           \* how many children the node has
  MaxNodeTuples,      \* tuples of words of all its concepts together
  MaxProjectedColumns \* columns they could need at most

ASSUME CorrespondencesAssumption ==
  /\ Children \in Nat /\ Children >= 2
  /\ MaxNodeTuples \in Nat /\ MaxProjectedColumns \in Nat

NoCognate == 0
NoUnit == <<>>
UnknownWhole == <<"whole">>
Cognate(x) == <<"cog", x>>

-----------------------------------------------------------------------------
(* source_analyses: the pieces of a word.                                  *)

\* A membership gives the positions of a word a cognate covers, none for all.
Membership(cognate, at) == [cognate |-> cognate, at |-> at]

Piece(unit, cognate, kind, at) ==
  [unit |-> unit, cognate |-> cognate, kind |-> kind, at |-> at]

AllOf(f) == [i \in DOMAIN f.segments |-> i]
Whole(f, cognate) ==
  <<Piece(IF cognate = NoCognate THEN UnknownWhole ELSE Cognate(cognate),
          cognate, "whole", AllOf(f))>>

\* The memberships of one position; a boundary has none.
Labels(f, i) ==
  {m \in f.memberships : i \in ToSet(m.at) /\ f.segments[i] \notin Boundaries}

LabelOf(f, i) ==
  IF i \in DOMAIN f.segments /\ Labels(f, i) # {}
  THEN (CHOOSE m \in Labels(f, i) : TRUE).cognate ELSE NoCognate

\* A piece is a run of one membership; what no membership covers is alone.
Starts(f) ==
  {i \in DOMAIN f.segments :
     i = 1 \/ Labels(f, i) = {} \/ Labels(f, i) # Labels(f, i - 1)}

\* A boundary between two cognates is the same unit in every word.
PieceAt(f, i) ==
  LET end == Max({j \in i..Len(f.segments) : Starts(f) \cap ((i + 1)..j) = {}})
      at == [k \in 1..(end - i + 1) |-> i + k - 1]
      left == LabelOf(f, i - 1)
      right == LabelOf(f, i + 1)
  IN IF Labels(f, i) # {} THEN Piece(Cognate(LabelOf(f, i)), LabelOf(f, i), "cognate", at)
     ELSE IF f.segments[i] \notin Boundaries
     THEN Piece(<<"unknown", f.id, i>>, NoCognate, "unknown", at)
     ELSE Piece(IF NoCognate \notin {left, right}
                THEN <<"boundary", left, right, f.segments[i]>>
                ELSE <<"boundary", f.id, i>>, NoCognate, "boundary", at)

\* MUTANT of Sliced: what no membership covers is no piece.
SlicedCovered(f) ==
  LET starts == SelectSeq(AllOf(f), LAMBDA i : i \in Starts(f) /\ Labels(f, i) # {})
  IN [k \in DOMAIN starts |-> PieceAt(f, starts[k])]

Sliced(f) ==
  LET starts == SelectSeq(AllOf(f), LAMBDA i : i \in Starts(f))
  IN [k \in DOMAIN starts |-> PieceAt(f, starts[k])]

\* The analyses of a word: one for each whole membership, or one of its
\* slices; an annotation that overlaps or repeats itself falls back to the
\* whole word, its cognacy unknown.
SourceAnalyses(f) ==
  LET whole == {m \in f.memberships : m.at = <<>>}
      overlap == \E i \in DOMAIN f.segments : Cardinality(Labels(f, i)) > 1
      pieces == Sliced(f)
      repeated == \E k, l \in DOMAIN pieces : k # l /\ pieces[k].unit = pieces[l].unit
  IN IF whole # {} /\ whole # f.memberships THEN {Whole(f, NoCognate)}
     ELSE IF whole # {} THEN {Whole(f, m.cognate) : m \in whole}
     ELSE IF f.memberships = {} THEN {Whole(f, f.cognate)}
     ELSE IF /\ \E m \in f.memberships : f.memberships = {m} /\ m.at = AllOf(f)
             /\ ToSet(f.segments) \cap Boundaries = {}
     THEN {Whole(f, m.cognate) : m \in f.memberships}
     ELSE IF overlap \/ repeated THEN {Whole(f, NoCognate)}
     ELSE {pieces}

\* A word under one of its analyses.
AnalysedWords(f) ==
  {[child |-> f.child, id |-> f.id, segments |-> f.segments, analysis |-> a, pieces |-> a] :
     a \in SourceAnalyses(f)}

-----------------------------------------------------------------------------
(* align_tuple: a tuple holds one analysed word of each child that attests *)
(* the concept, in the order of the children.                              *)

UnitsOf(w) == [k \in DOMAIN w.pieces |-> w.pieces[k].unit]
Units(t) == UNION {ToSet(UnitsOf(t[n])) : n \in DOMAIN t}
HasUnit(w, unit) == unit \in ToSet(UnitsOf(w))
PieceOf(w, unit) == w.pieces[CHOOSE k \in DOMAIN w.pieces : w.pieces[k].unit = unit]
Tokens(w, unit) ==
  LET at == PieceOf(w, unit).at IN [k \in DOMAIN at |-> w.segments[at[k]]]

\* Whole words, one of them of unknown cognacy, are one unit.
UnknownTuple(t) ==
  /\ \A n \in DOMAIN t : Len(t[n].pieces) = 1 /\ t[n].pieces[1].kind = "whole"
  /\ \E n \in DOMAIN t : t[n].pieces[1].cognate = NoCognate

AsOneUnit(t) ==
  [n \in DOMAIN t |-> [t[n] EXCEPT !.pieces[1].unit = UnknownWhole]]

\* _unit_order: the order the words agree on; of the units that may come next,
\* the first to be seen does.  A claim, where there is one, orders them.
\* Shorter than the number of units when the words disagree.
UnitOrder(t, claimed) ==
  LET seen == FlattenSeq([n \in DOMAIN t |-> UnitsOf(t[n])])
      rank(u) == Min({k \in DOMAIN seen : seen[k] = u})
      before(u) == {v \in Units(t) : \E n \in DOMAIN t : \E k \in 2..Len(t[n].pieces) :
                      UnitsOf(t[n])[k] = u /\ UnitsOf(t[n])[k - 1] = v}
      ready(order) == {u \in Units(t) \ ToSet(order) : before(u) \subseteq ToSet(order)}
      next(order, k) ==
        IF ready(order) = {} THEN order
        ELSE Append(order, CHOOSE u \in ready(order) :
                             \A v \in ready(order) : rank(u) <= rank(v))
  IN IF Units(t) = {UnknownWhole} THEN <<UnknownWhole>>
     ELSE IF claimed # <<>> THEN SelectSeq(claimed, LAMBDA u : u \in Units(t))
     ELSE FoldLeft(next, <<>>, [k \in 1..Cardinality(Units(t)) |-> k])

\* An override lays out one unit of one concept, or its only unit: its rows,
\* by child, and the analyses they were checked against.
Override(unit, rows, analyses) == [unit |-> unit, rows |-> rows, analyses |-> analyses]

Gapless(row) == SelectSeq(row, LAMBDA s : s # Gap)

ChosenOverrides(t, order, unit, overrides) ==
  {o \in overrides :
     /\ o.unit = unit \/ (o.unit = NoUnit /\ Len(order) = 1)
     /\ \A n \in DOMAIN t : HasUnit(t[n], unit) =>
          /\ o.analyses[t[n].child] = t[n].analysis
          /\ Gapless(o.rows[t[n].child]) = Tokens(t[n], unit)}

\* The rows of one unit: laid out by an override, by the aligner when two or
\* more words have it, or the one word by itself.
UnitRows(t, order, unit, overrides) ==
  LET present == SelectSeq(t, LAMBDA w : HasUnit(w, unit))
      chosen == ChosenOverrides(t, order, unit, overrides)
      rows == IF Len(present) = 1 THEN <<Tokens(present[1], unit)>>
              ELSE Align([n \in DOMAIN present |-> Tokens(present[n], unit)])
      row(c) == IF \E n \in DOMAIN present : present[n].child = c
                THEN rows[CHOOSE n \in DOMAIN present : present[n].child = c]
                ELSE [i \in DOMAIN rows[1] |-> Gap]
  IN IF chosen # {} THEN (CHOOSE o \in chosen : TRUE).rows
     ELSE [c \in 1..Children |-> row(c)]

\* Where in its word a child's segment of a column comes from, 0 for a gap.
SourceAt(t, unit, rows, c, i) ==
  IF rows[c][i] = Gap THEN 0
  ELSE LET w == t[CHOOSE n \in DOMAIN t : t[n].child = c]
           nth == Cardinality({j \in 1..i : rows[c][j] # Gap})
       IN PieceOf(w, unit).at[nth]

UnitColumns(t, order, unit, overrides) ==
  LET rows == UnitRows(t, order, unit, overrides)
      first == PieceOf(t[CHOOSE n \in DOMAIN t : HasUnit(t[n], unit)
                           /\ \A m \in 1..(n - 1) : ~HasUnit(t[m], unit)], unit)
  IN [i \in DOMAIN rows[1] |->
        [unit |-> unit, kind |-> first.kind,
         etymon |-> IF unit = UnknownWhole THEN NoCognate ELSE first.cognate,
         reflexes |-> [c \in 1..Children |-> rows[c][i]],
         sources |-> [c \in 1..Children |-> SourceAt(t, unit, rows, c, i)]]]

InOneScope(t) == IF UnknownTuple(t) THEN AsOneUnit(t) ELSE t

\* No reading: the words disagree about the order of the units or the claim
\* leaves one out; a unit is given two cognates; an override names no unit where
\* there are several, or lays out a unit for a child whose word lacks it.
Unreadable(words, claimed, overrides) ==
  LET t == InOneScope(words)
      order == UnitOrder(t, claimed)
      having(u) == {n \in DOMAIN t : HasUnit(t[n], u)}
  IN \/ ToSet(order) # Units(t)
     \/ \E u \in Units(t) \ {UnknownWhole} :
          Cardinality({PieceOf(t[n], u).cognate : n \in having(u)}) > 1
     \/ Len(order) > 1 /\ \E o \in overrides : o.unit = NoUnit
     \/ \E u \in Units(t) : \E o \in ChosenOverrides(t, order, u, overrides) :
          \E c \in 1..Children : /\ Gapless(o.rows[c]) # <<>>
                                 /\ c \notin {t[n].child : n \in having(u)}

\* align_tuple: all columns of a tuple that can be read.
AlignTuple(words, claimed, overrides) ==
  LET t == InOneScope(words)
      order == UnitOrder(t, claimed)
  IN FlattenSeq([k \in DOMAIN order |-> UnitColumns(t, order, order[k], overrides)])

-----------------------------------------------------------------------------
(* evidence_map: every tuple of every concept two children attest.         *)

\* The words of a concept by child; a child's are all its candidates.
TuplesOf(words) ==
  LET attest == SelectSeq([c \in 1..Children |-> c],
                          LAMBDA c : \E w \in words : w.child = c)
      of(n) == {w \in words : w.child = attest[n]}
  IN {t \in [DOMAIN attest -> words] : \A n \in DOMAIN attest : t[n] \in of(n)}

Compared(words) == Cardinality({w.child : w \in words}) >= 2

\* A tuple has no more columns than the longest word of each child together.
Longest(words, child) == Max({Len(w.segments) : w \in {w \in words : w.child = child}})
AtMostColumns(words) ==
  LET longest(child) == Longest(words, child)
  IN MapThenSumSet(longest, {w.child : w \in words})

\* concepts: a function from concepts to their analysed words.
TooMany(concepts) ==
  LET compared == {k \in DOMAIN concepts : Compared(concepts[k])}
      counted(k) == Cardinality(TuplesOf(concepts[k]))
      projected(k) == counted(k) * AtMostColumns(concepts[k])
  IN \/ \E k \in compared : counted(k) > MaxUnitTuples
     \/ MapThenSumSet(counted, compared) > MaxNodeTuples
     \/ MapThenSumSet(projected, compared) > MaxProjectedColumns

TupleColumns(k, t, claimed, overrides) ==
  LET columns == AlignTuple(t, claimed, overrides)
      rows == [c \in 1..Children |-> [i \in DOMAIN columns |-> columns[i].reflexes[c]]]
  IN {[concept |-> k, tuple |-> t, at |-> i, rows |-> rows, column |-> columns[i]] :
        i \in DOMAIN columns}

NodeTuples(concepts) ==
  UNION {{<<k, t>> : t \in TuplesOf(concepts[k])} :
           k \in {k \in DOMAIN concepts : Compared(concepts[k])}}

EvidenceRefused(concepts, claimed, overrides) ==
  \/ TooMany(concepts)
  \/ \E kt \in NodeTuples(concepts) :
       Unreadable(kt[2], claimed[kt[1]], overrides[kt[1]])

EvidenceMap(concepts, claimed, overrides) ==
  UNION {TupleColumns(kt[1], kt[2], claimed[kt[1]], overrides[kt[1]]) :
           kt \in NodeTuples(concepts)}

-----------------------------------------------------------------------------
(* build_correspondence_sets: the columns of a map, grouped.               *)

\* A set is what the children show, in the scope of one unit; a pattern is
\* what they show in any, boundaries and material apart.
SetOf(e) == [reflexes |-> e.column.reflexes, scope |-> e.column.unit]

InSet(map, set) == {e \in map : SetOf(e) = set}

SetsOf(map) ==
  {SetOf(e) : e \in {e \in map : \E c \in 1..Children : e.column.reflexes[c] # Gap}}

OnlyBoundaries(map, set) == \A e \in InSet(map, set) : e.column.kind = "boundary"

PatternOf(map, set) ==
  [reflexes |-> set.reflexes, boundary |-> OnlyBoundaries(map, set)]
PatternsOf(map) == {PatternOf(map, set) : set \in SetsOf(map)}
Members(map, pattern) == {set \in SetsOf(map) : PatternOf(map, set) = pattern}
InPattern(map, pattern) == UNION {InSet(map, set) : set \in Members(map, pattern)}

\* MUTANT of Support: every column that shows it.
SupportOfColumns(columns) == Cardinality(columns)

\* How often it is attested: by the cognates supplied, and by units of unknown
\* cognacy once for each concept.  Tuples that share a word add nothing.
Support(columns) ==
  LET unknown(e) == e.column.etymon = NoCognate
  IN Cardinality({e.column.etymon : e \in {e \in columns : ~unknown(e)}})
     + Cardinality({<<e.concept, e.column.unit>> : e \in {e \in columns : unknown(e)}})

SourceColumns(columns) ==
  LET at(e, n) == <<e.tuple[n].id, e.column.sources[e.tuple[n].child]>>
  IN Cardinality({<<e.column.unit, {at(e, n) : n \in {n \in DOMAIN e.tuple : at(e, n)[2] # 0}}>> :
                    e \in columns})

-----------------------------------------------------------------------------
(* complementary_candidates: sets that never share an environment.         *)

Shown(e) == ContextTokens(ObservedReadings(e.rows), e.at)
LeftOf(columns) == UNION {Shown(e).left : e \in columns}
RightOf(columns) == UNION {Shown(e).right : e \in columns}

\* MUTANT of Complementary: they differ on a side somewhere.
ComplementaryAnywhere(A, B) == LeftOf(A) # LeftOf(B) \/ RightOf(A) # RightOf(B)

Complementary(A, B) ==
  LeftOf(A) \cap LeftOf(B) = {} \/ RightOf(A) \cap RightOf(B) = {}

-----------------------------------------------------------------------------
(* verify_commitments, expand_shared_claims: what a commitment says of a   *)
(* set is what the node's own columns show.                                *)

Verified(map, commitments) ==
  \A c \in commitments :
    \E set \in SetsOf(map) : /\ c.set = set /\ c.reflexes = set.reflexes
                             /\ c.support = Support(InSet(map, set))

\* A shared claim is expanded to the members it names, each with its own count.
Expandable(map, claim) ==
  claim.pattern \in PatternsOf(map) /\ claim.members \subseteq Members(map, claim.pattern)

Expanded(map, claim) ==
  {[set |-> set, reflexes |-> set.reflexes, support |-> Support(InSet(map, set)),
    proto |-> claim.proto] : set \in claim.members}

-----------------------------------------------------------------------------
(* check_complementary_splits: two sets said to be one segment.            *)

\* MUTANT of SplitAccepted: only the claiming set's own columns are looked at.
SplitAcceptedOneSided(I, c, d, alignments) ==
  /\ c.proto = d.proto /\ c.proto # Gap /\ Conditioned(c) /\ Conditioned(d)
  /\ \A rows \in alignments : \A i \in Live(rows) : Reflexes(rows, i) = c.reflexes =>
       /\ EnvironmentMatches(c.conditioning, FinalReadings(I, rows), i) = "yes"
       /\ EnvironmentMatches(d.conditioning, FinalReadings(I, rows), i) # "yes"

\* Each set stands in its own environment wherever it occurs, and never in the
\* other's; the columns are read as this inventory assembles them.
SplitAccepted(I, c, d, alignments) ==
  /\ c.proto = d.proto /\ c.proto # Gap /\ Conditioned(c) /\ Conditioned(d)
  /\ \A rows \in alignments : \A i \in Live(rows) : \A x, y \in {c, d} :
       x # y /\ Reflexes(rows, i) = x.reflexes =>
         /\ EnvironmentMatches(x.conditioning, FinalReadings(I, rows), i) = "yes"
         /\ EnvironmentMatches(y.conditioning, FinalReadings(I, rows), i) # "yes"

-----------------------------------------------------------------------------
(* realign: an override is refused unless its rows are the children's own. *)

\* What a child has for the unit an override lays out.
Laid(words, o, c) ==
  {w \in words : w.child = c /\ (o.unit = NoUnit \/ HasUnit(w, o.unit))}
LaidTokens(w, o) == IF o.unit = NoUnit THEN w.segments ELSE Tokens(w, o.unit)

\* MUTANT of RowsAccepted: a row of gaps is let through.
RowsAcceptedOfGaps(words, o) ==
  /\ o.unit = NoUnit => \A w \in words : Len(w.pieces) = 1
  /\ \A c \in 1..Children : Gapless(o.rows[c]) # <<>> =>
       {w.analysis : w \in {w \in Laid(words, o, c) :
                               LaidTokens(w, o) = Gapless(o.rows[c])}}
       = {o.analyses[c]}

\* Every child's row is a word of its own, under one analysis and no other; a
\* row of gaps is a child that has nothing there.  Without a unit every word
\* must be one piece.
RowsAccepted(words, o) ==
  /\ o.unit = NoUnit => \A w \in words : Len(w.pieces) = 1
  /\ \A c \in 1..Children :
       IF Gapless(o.rows[c]) = <<>> THEN Laid(words, o, c) = {}
       ELSE /\ \E w \in Laid(words, o, c) : LaidTokens(w, o) = Gapless(o.rows[c])
            /\ {w.analysis : w \in {w \in Laid(words, o, c) :
                                      LaidTokens(w, o) = Gapless(o.rows[c])}}
               = {o.analyses[c]}

\* _verify_joins: the set an override is said to join has more source columns.
Joins(before, after, set) ==
  SourceColumns(InSet(after, set)) > SourceColumns(InSet(before, set))

-----------------------------------------------------------------------------
(* Properties *)

\* Every segment of every word of a tuple stands in exactly one column, as
\* itself, and a unit's segments keep their order, whatever the annotation,
\* the order of the units and the alignment.
EverySegmentOnce(t, claimed, overrides) ==
  LET columns == AlignTuple(t, claimed, overrides)
      at(c, p) == {i \in DOMAIN columns : columns[i].sources[c] = p}
  IN ~Unreadable(t, claimed, overrides) =>
       \A n \in DOMAIN t : LET c == t[n].child IN
         /\ \A p \in DOMAIN t[n].segments :
              /\ Cardinality(at(c, p)) = 1
              /\ \A i \in at(c, p) : columns[i].reflexes[c] = t[n].segments[p]
         /\ \A i, j \in DOMAIN columns :
              /\ i < j /\ columns[i].unit = columns[j].unit
              /\ columns[i].sources[c] # 0 /\ columns[j].sources[c] # 0
              => columns[i].sources[c] < columns[j].sources[c]

\* A second candidate for a word already there never makes a correspondence
\* better attested: a set has at most the support of the units it occurs in,
\* and a pattern at most that of its sets together.
SupportIsIndependent(map) ==
  /\ \A set \in SetsOf(map) :
       Support(InSet(map, set))
         <= Cardinality({<<e.concept, e.column.unit>> : e \in InSet(map, set)})
  /\ \A p \in PatternsOf(map) :
       Support(InPattern(map, p))
         <= MapThenSumSet(LAMBDA set : Support(InSet(map, set)), Members(map, p))

\* Two sets that are reported as complementary can be told apart: on one side,
\* no environment that asks for a token reported for the one holds anywhere the
\* other occurs.
CandidatesSeparable(map) ==
  \A S, T \in SetsOf(map) :
    LET A == InSet(map, S)
        B == InSet(map, T)
        never(tokens, forward, columns) ==
          \A s \in tokens : \A e \in columns :
            EnvironmentMatches(Asking(s, forward), ObservedReadings(e.rows), e.at) = "no"
    IN S # T /\ Complementary(A, B) =>
         \/ never(LeftOf(A), FALSE, B) /\ never(LeftOf(B), FALSE, A)
         \/ never(RightOf(A), TRUE, B) /\ never(RightOf(B), TRUE, A)

\* A realignment that is accepted, on evidence that can then be read, is how the
\* unit is laid out in some tuple; a unit is named only where the columns are of
\* the words' own units, which they are not in a tuple of unknown cognacy.
RealignTakesEffect(words, o) ==
  RowsAccepted(words, o) /\ (\E c \in 1..Children : Gapless(o.rows[c]) # <<>>)
  /\ (o.unit = NoUnit \/ \A t \in TuplesOf(words) : InOneScope(t) = t)
  /\ (\A t \in TuplesOf(words) : ~Unreadable(t, <<>>, {o}))
  => \E t \in TuplesOf(words) :
       LET columns == AlignTuple(t, <<>>, {o})
           laid == SelectSeq(columns, LAMBDA k : o.unit \in {NoUnit, k.unit})
       IN o.rows = [c \in 1..Children |-> [i \in DOMAIN laid |-> laid[i].reflexes[c]]]

\* What the assembler makes of a column of an accepted split.
SplitIsAssembled(I, c, d, alignments) ==
  SplitAccepted(I, c, d, alignments) =>
    \A rows \in alignments : \A i \in Live(rows) :
      Reflexes(rows, i) \in {c.reflexes, d.reflexes} =>
        Outcome(I, rows, i).by = "conditioned set"

\* Where no column of an alignment waits for another, an accepted split is
\* what the assembler decides it by, at every column of both sets.
LoneSplitIsAssembled(I, c, d, alignments) ==
  (\A rows \in alignments : Cardinality(Deferred(I, rows)) <= 1)
    => SplitIsAssembled(I, c, d, alignments)
=============================================================================
