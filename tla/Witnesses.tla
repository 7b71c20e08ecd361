------------------------------ MODULE Witnesses ------------------------------
(***************************************************************************)
(* What nodes outside the active children show where the children          *)
(* correspond: the witnesses of a column, the survey and the polarisation  *)
(* that report them, and the restorations that rest on them.               *)
(*                                                                         *)
(* An outside node is an out-group or a descendant, observed or            *)
(* reconstructed; its words are analysed like the children's.  The reading *)
(* of the node is the set of its alignments, each a concept and the        *)
(* columns of one tuple; a column is known by its tuple.                   *)
(***************************************************************************)
EXTENDS Correspondences

Reading(concepts, claimed, overrides) ==
  {LET columns == AlignTuple(kt[2], claimed[kt[1]], overrides[kt[1]])
   IN [concept |-> kt[1],
       columns |-> [i \in DOMAIN columns |-> columns[i] @@ [of |-> kt]]] :
     kt \in NodeTuples(concepts)}

ColumnRows(columns) ==
  [c \in 1..Children |-> [i \in DOMAIN columns |-> columns[i].reflexes[c]]]

UnitsIn(a) == {a.columns[i].unit : i \in DOMAIN a.columns}
OfUnit(a, unit) == SelectSeq(a.columns, LAMBDA k : k.unit = unit)

\* get_alignments: the alignments of the concepts selected, all when none is.
GetAlignments(reading, selected) ==
  {a \in reading : selected = {} \/ a.concept \in selected}

-----------------------------------------------------------------------------
(* local_witnesses: an outside word is aligned with the children's parts   *)
(* of one unit, and witnesses the columns the joint alignment keeps.       *)

\* The piece that may be compared with a unit: its own, or the whole word when
\* both sides are single wholes of unknown cognacy; never of another cognate.
Comparable(a, unit, w) ==
  LET first == OfUnit(a, unit)[1]
      alone == UnitsIn(a) = {unit} /\ first.kind = "whole" /\ first.etymon = NoCognate
  IN {p \in ToSet(w.pieces) :
        /\ \/ p.unit = unit
           \/ ~HasUnit(w, unit) /\ alone /\ Len(w.pieces) = 1 /\ p.kind = "whole"
        /\ first.etymon # NoCognate => p.cognate = first.etymon}

\* Outside words carry their node and concept; asked is the columns asked about.
WitnessJobs(reading, outside, asked) ==
  {j \in [alignment : reading, unit : UNION {UnitsIn(a) : a \in reading},
          word : outside, piece : UNION {ToSet(w.pieces) : w \in outside}] :
     /\ j.unit \in UnitsIn(j.alignment)
     /\ j.word.concept = j.alignment.concept
     /\ ToSet(OfUnit(j.alignment, j.unit)) \cap asked # {}
     /\ j.piece \in Comparable(j.alignment, j.unit, j.word)}

\* The columns a job could need: what the children and the outside word have.
JobColumns(j) ==
  LET rows == ColumnRows(OfUnit(j.alignment, j.unit))
  IN Len(j.piece.at) + Cardinality({ci \in (1..Children) \X (1..Width(rows)) :
                                      rows[ci[1]][ci[2]] # Gap})

TooManyPairs(reading, outside, asked) ==
  \/ Cardinality(WitnessJobs(reading, outside, asked)) > MaxNodeTuples
  \/ MapThenSumSet(JobColumns, WitnessJobs(reading, outside, asked)) > MaxProjectedColumns

\* The children's parts of the unit and the outside piece, aligned: a row for
\* each child, gaps for one that has nothing, and the outside row last.
Joint(columns, piece, w) ==
  LET parts == [c \in 1..Children |-> Gapless(ColumnRows(columns)[c])]
      here == SelectSeq([c \in 1..Children |-> c], LAMBDA c : parts[c] # <<>>)
      out == [k \in DOMAIN piece.at |-> w.segments[piece.at[k]]]
      rows == Align([k \in DOMAIN here |-> parts[here[k]]] \o <<out>>)
      place(c) == CHOOSE k \in DOMAIN here : here[k] = c
  IN [c \in 1..(Children + 1) |->
        IF c > Children THEN rows[Len(rows)]
        ELSE IF parts[c] # <<>> THEN rows[place(c)]
        ELSE [i \in 1..Width(rows) |-> Gap]]

\* How many segments of a row there are up to column i.
Upto(row, i) == Cardinality({j \in 1..i : row[j] # Gap})

\* MUTANT of Signature: what the children show, without where.
SignatureOfTokens(rows, i) == [c \in 1..Children |-> <<rows[c][i], 0>>]

\* What each child shows in a column, and which of its segments that is.
Signature(rows, i) ==
  [c \in 1..Children |->
     <<rows[c][i], IF rows[c][i] = Gap THEN 0 ELSE Upto(rows[c], i)>>]

\* The columns of the unit a joint column keeps.
Kept(columns, joint, j) ==
  {i \in DOMAIN columns : Signature(ColumnRows(columns), i) = Signature(joint, j)}

\* The outside word's segment stands in the joint column.
Witnessed(columns, piece, joint) ==
  LET out == joint[Children + 1]
  IN UNION {{[column |-> columns[i], segment |-> out[j], at |-> piece.at[Upto(out, j)]] :
               i \in Kept(columns, joint, j)} :
            j \in {j \in DOMAIN out : out[j] # Gap}}

\* The outside word has nothing in the joint column; told apart from a word
\* that could not be compared there.
Missing(columns, joint) ==
  LET out == joint[Children + 1]
  IN UNION {{columns[i] : i \in Kept(columns, joint, j)} :
            j \in {j \in DOMAIN out : out[j] = Gap}}

JointOf(j) == Joint(OfUnit(j.alignment, j.unit), j.piece, j.word)

LocalWitnesses(reading, outside, asked) ==
  UNION {{[node |-> j.word.node, word |-> j.word.id, column |-> x.column,
           segment |-> x.segment, at |-> x.at, concept |-> j.word.concept] :
            x \in {x \in Witnessed(OfUnit(j.alignment, j.unit), j.piece, JointOf(j)) :
                     x.column \in asked}} :
         j \in WitnessJobs(reading, outside, asked)}

Absences(reading, outside, asked) ==
  UNION {{[node |-> j.word.node, word |-> j.word.id, column |-> k, concept |-> j.word.concept] :
            k \in Missing(OfUnit(j.alignment, j.unit), JointOf(j)) \cap asked} :
         j \in WitnessJobs(reading, outside, asked)}

-----------------------------------------------------------------------------
(* polarize: one correspondence, and who shows what in its columns.        *)

\* outside_nodes: those selected, or all but the active children.
OutsideWords(evidence, active, selected) ==
  {w \in evidence : w.node \notin active /\ (selected = {} \/ w.node \in selected)}

\* matching_column: every child shows its value, at the word edge asked for.
\* An alignment pads with gaps, so an edge is where nothing more of the row is.
EdgeOk(row, i, position) ==
  LET beyond == CASE position = "any" -> {}
                  [] position = "initial" -> 1..(i - 1)
                  [] position = "final" -> (i + 1)..Len(row)
  IN \A j \in beyond : row[j] = Gap

\* MUTANT of MatchingColumn: one child that shows its value is enough.
MatchingColumnOfAny(rows, i, wanted, position) ==
  \E c \in 1..Children : rows[c][i] = wanted[c] /\ EdgeOk(rows[c], i, position)

MatchingColumn(rows, i, wanted, position) ==
  \A c \in 1..Children : rows[c][i] = wanted[c] /\ EdgeOk(rows[c], i, position)

\* A set or pattern that is named must show the correspondence it is asked for.
StaleSet(map, asked) ==
  /\ asked.sets # {}
  /\ \A set \in asked.sets : set \notin SetsOf(map) \/ set.reflexes # asked.wanted

\* The columns of the correspondence, within the sets named and concepts given.
AskedColumns(reading, asked) ==
  UNION {LET rows == ColumnRows(a.columns)
             in(k) == \/ asked.sets = {}
                      \/ [reflexes |-> k.reflexes, scope |-> k.unit] \in asked.sets
         IN {a.columns[i] : i \in {i \in DOMAIN a.columns :
               in(a.columns[i]) /\ MatchingColumn(rows, i, asked.wanted, asked.position)}} :
         a \in GetAlignments(reading, asked.concepts)}

\* _polarize_local: of each outside node what it shows, how often, and how
\* often it lacks it; candidates name who attests a value, never who lacks it.
Polarize(reading, outside, asked) ==
  LET columns == AskedColumns(reading, asked)
      shown == LocalWitnesses(reading, outside, columns)
      lacked == Absences(reading, outside, columns)
      of(S, n) == {x \in S : x.node = n}
      nodes == {w.node : w \in outside}
      values == ToSet(asked.wanted) \ {Gap}
  IN [matched |-> Cardinality(columns),
      covered |-> [n \in nodes |-> Cardinality({x.column : x \in of(shown, n) \cup of(lacked, n)})],
      counts |-> [n \in nodes |-> [s \in Segment \cup {Gap} |->
                   IF s = Gap THEN Cardinality(of(lacked, n))
                   ELSE Cardinality({x \in of(shown, n) : x.segment = s})]],
      candidates |-> [s \in values |-> {x.node : x \in {x \in shown : x.segment = s}}]]

\* polarize over whole words, cognacy aside: all nodes are in one alignment, a
\* node may have several words, and a column counts once for each value.
PolarizeJoint(alignments, outside, wanted, position) ==
  LET shows(a, n) == {r \in a.rows : r.node = n}
      matches(a, i) == \A c \in 1..Children : \E r \in shows(a, c) :
                         r.row[i] = wanted[c] /\ EdgeOk(r.row, i, position)
      columns == UNION {{<<a, i>> : i \in {i \in 1..a.width : matches(a, i)}} : a \in alignments}
  IN [matched |-> Cardinality(columns),
      counts |-> [n \in {w.node : w \in outside}, s \in Segment \cup {Gap} |->
        Cardinality({x \in columns : \E r \in shows(x[1], n) : r.row[x[2]] = s})]]

\* The columns the survey compares with out-groups.
Differing(reading) ==
  {k \in UNION {ToSet(a.columns) : a \in reading} : Cardinality(ToSet(k.reflexes)) > 1}

\* summarize_correspondences with include_outgroup: only sets whose children
\* differ have anything to polarise; absence is not reported.
OutgroupProfile(reading, outside, page) ==
  LET wanted == {set \in page : Cardinality(ToSet(set.reflexes)) > 1}
      columnsOf(set) == UNION {{k \in ToSet(a.columns) :
                                  k.reflexes = set.reflexes /\ k.unit = set.scope} : a \in reading}
      all == LocalWitnesses(reading, outside, UNION {columnsOf(set) : set \in wanted})
  IN [set \in wanted |-> {<<x.segment, x.node>> : x \in {x \in all : x.column \in columnsOf(set)}}]

\* The same over whole words: each word of a node that shows a value counts.
ProfileJoint(alignments, outside, page) ==
  LET wanted == {set \in page : Cardinality(ToSet(set.reflexes)) > 1}
      shows(a, n) == {r \in a.rows : r.node = n}
      matches(a, i, set) == \A c \in 1..Children : \E r \in shows(a, c) :
                              r.row[i] = set.reflexes[c]
      columns(set) == UNION {{<<a, i>> : i \in {i \in 1..a.width : matches(a, i, set)}} :
                               a \in alignments}
      words(x, n, s) == Cardinality({r \in shows(x[1], n) : r.row[x[2]] = s})
  IN [set \in wanted |-> [n \in {w.node : w \in outside}, s \in Segment |->
        MapThenSumSet(LAMBDA x : words(x, n, s), columns(set))]]

\* _matches_segment: the set shows the segment at the child asked, or anywhere.
Matches(set, segment, child) ==
  \/ segment = NoCognate
  \/ \E c \in 1..Children : child \in {NoCognate, c} /\ set.reflexes[c] = segment

\* summarize_correspondences: the sets asked for that are attested often enough,
\* those among them that never share an environment, and what others show.
Survey(reading, map, outside, asked) ==
  LET matched == {set \in SetsOf(map) : Matches(set, asked.segment, asked.child)}
      page == {set \in matched : Support(InSet(map, set)) >= asked.support}
  IN [sets |-> page,
      suppressed |-> Cardinality(matched) - Cardinality(page),
      complementary |-> {p \in kSubset(2, page) : \E S, T \in p : S # T /\
                            Complementary(InSet(map, S), InSet(map, T))},
      outgroup |-> OutgroupProfile(reading, outside, page)]

-----------------------------------------------------------------------------
(* verify_restorations: a segment every child lost.                        *)

\* Where it goes (after how many columns of the concept's widest alignment),
\* the unit it belongs to, and the nodes said to show it.
Restoration(concept, before, unit, proto, from) ==
  [concept |-> concept, before |-> before, unit |-> unit, proto |-> proto, from |-> from]

\* Some word of the node shows the segment in the unit, or in a whole word.
Attests(evidence, node, r) ==
  \E w \in evidence :
    /\ w.node = node /\ w.concept = r.concept
    /\ IF r.unit = NoUnit
       THEN Len(w.pieces) = 1 /\ w.pieces[1].kind = "whole" /\ r.proto \in ToSet(w.segments)
       ELSE HasUnit(w, r.unit) /\ r.proto \in ToSet(Tokens(w, r.unit))

\* relation: of every node there is evidence of.
RestorationAccepted(reading, evidence, relation, r) ==
  LET own == {a \in reading : a.concept = r.concept}
  IN /\ \E n \in DOMAIN relation : relation[n] = "outgroup"
     /\ r.from \subseteq DOMAIN relation
     /\ \A n \in r.from : relation[n] # "descendant"
     /\ \E a \in own : r.before <= Len(a.columns)
     /\ r.unit = NoUnit => Cardinality(UNION {UnitsIn(a) : a \in own}) <= 1
     /\ \E n \in r.from : Attests(evidence, n, r)

-----------------------------------------------------------------------------
(* Properties *)

\* Where a segment of a joint row comes from in its word.
JointSource(joint, c, j, at) == IF joint[c][j] = Gap THEN 0 ELSE at[Upto(joint[c], j)]

\* A witness stands, in the joint alignment, beside exactly the segments of the
\* children's words that make up the column it is a witness of, though a word
\* may show one segment several times; and no column is given two.  A column a
\* realignment left empty makes no part of a correspondence and is not asked
\* about.
WitnessesStandBeside(t, unit, overrides, piece, joint) ==
  LET columns == SelectSeq(AlignTuple(t, <<>>, overrides), LAMBDA k : k.unit = unit)
      at(c) == PieceOf(t[CHOOSE n \in DOMAIN t : t[n].child = c], unit).at
      found == {x \in Witnessed(columns, piece, joint) :
                  \E c \in 1..Children : x.column.sources[c] # 0}
  IN /\ \A x \in found : \E j \in 1..Width(joint) :
          /\ x.at = JointSource(joint, Children + 1, j, piece.at)
          /\ \A c \in 1..Children :
               x.column.sources[c] = JointSource(joint, c, j, at(c))
     /\ \A x, y \in found : x.column = y.column => x = y

\* One question has one answer: asked about a correspondence, polarize names for
\* each value the nodes, and only the nodes, that the survey reports for the sets
\* in which the children correspond so; a node that lacks the value, or could
\* not be compared, is in neither.
PolarizeIsSurvey(reading, map, outside) ==
  ~TooManyPairs(reading, outside, Differing(reading)) => \A p \in PatternsOf(map) :
    LET asked == [wanted |-> p.reflexes, sets |-> {}, concepts |-> {}, position |-> "any"]
        everything == [segment |-> NoCognate, child |-> NoCognate, support |-> 0]
        sets == {set \in SetsOf(map) : set.reflexes = p.reflexes}
        survey == Survey(reading, map, outside, everything).outgroup
        answer == Polarize(reading, outside, asked)
    IN Cardinality(ToSet(p.reflexes)) > 1 =>
         /\ \A s \in DOMAIN answer.candidates :
              answer.candidates[s] = {n \in {w.node : w \in outside} :
                                        \E set \in sets : <<s, n>> \in survey[set]}
         /\ \A n \in DOMAIN answer.counts : \A s \in DOMAIN answer.counts[n] \ {Gap} :
              answer.counts[n][s] > 0 <=> \E set \in sets : <<s, n>> \in survey[set]

\* The nodes a restoration is accepted on are out-groups that show the segment.
RestorationIsWitnessed(reading, evidence, relation, r) ==
  RestorationAccepted(reading, evidence, relation, r)
  => \A n \in r.from : relation[n] = "outgroup" /\ Attests(evidence, n, r)
=============================================================================
