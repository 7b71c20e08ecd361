----------------------------- MODULE MCBenchmark -----------------------------
(* A benchmark from its dataset to its score: the commands that make a     *)
(* payload and plan its run, on small datasets, requests and definitions;  *)
(* a run over a chain of three nodes above two leaves each, one of them    *)
(* not a target, with a reader at any time; and what the scores are taken  *)
(* of, every small pair of words and every small session.  A behaviour is  *)
(* about one of them.                                                      *)
EXTENDS Ingestion, Evaluation

CONSTANTS
  a, b, c, d, g, h, N, M, R,  \* varieties and nodes
  Start0,
  Commands,  \* the subject of a behaviour that prepares and plans
  Subjects,  \* the kinds of subject to look at: commands, walk, pair, session
  Repeated   \* may one word have two pieces of one unit?

VARIABLE subject

-----------------------------------------------------------------------------
(* Datasets.  Three daughters, two historical varieties and a language      *)
(* without forms; trees that need every step of normalization and lengths   *)
(* that are rounded when written.                                           *)

Leaf(label, length) == [label |-> label, length |-> length, children |-> <<>>]
Node(label, length, children) == [label |-> label, length |-> length, children |-> children]

AB(label) == Node(label, 2, <<Leaf(a, 1), Leaf(b, 25)>>)
Texts ==
  {<<Node(R, 0, <<AB(N), Leaf(c, 12)>>)>>,
   <<Node(g, 0, <<AB(N), Node(NoLabel, 3, <<Leaf(c, 1), Leaf(d, 1)>>)>>)>>,
   <<Node(R, 0, <<Node(M, 13, <<AB(N), Leaf(d, 1)>>), Leaf(c, 98)>>)>>,
   <<Node(R, 0, <<Node(N, 1, <<Leaf(a, 1), Leaf(d, 1)>>),
                  Node(NoLabel, 4, <<Leaf(b, 1), Leaf(c, 1)>>)>>)>>,
   <<Node(NoLabel, 0, <<AB(N), Leaf(c, 1), Leaf(g, 1)>>)>>,
   <<Node(M, 0, <<Node(R, 5, <<AB(N), Leaf(c, 1), Leaf(h, 2)>>), Leaf(d, 1)>>)>>,
   <<Node(N, 0, <<AB(N), Leaf(c, 3)>>)>>,
   <<Node(R, 0, <<AB(N), Leaf(a, 3), Leaf(c, 3)>>)>>,
   <<Node(R, 0, <<AB(N), Leaf(c, -1)>>)>>,
   <<AB(N), Leaf(c, 1)>>}

MCInduced(leaves) ==
  IF leaves = {a, b} THEN {Node(NoLabel, 0, <<Leaf(a, 1), Leaf(b, 1)>>)}
  ELSE {Node(NoLabel, 0, <<Node(NoLabel, 1, <<Leaf(a, 1), Leaf(x, 1)>>)>>
                         \o SetToSeq({Leaf(y, length) : y \in leaves \ {a, x}})) :
          x \in leaves \cap {b, c}, length \in {-1, 1}}

\* Datasets for preparation: words of one sound, judged inline.
Parameters == {[id |-> 1, concepticon |-> 7], [id |-> 2, concepticon |-> Empty],
               [id |-> 3, concepticon |-> Empty]}
FormRow(v, k, sets) == [id |-> <<v, k>>, language |-> v, parameter |-> k,
                    segments |-> << <<"p">> >>, phonemic |-> <<>>,
                    inline |-> sets, partial |-> <<>>]
Columns(inline, table, partial) ==
  [inline |-> inline, table |-> table, partial |-> partial, segments |-> TRUE, phonemic |-> TRUE]
Dataset(forms, parameters) ==
  [columns |-> Columns(TRUE, FALSE, FALSE), unit |-> "morpheme",
   languages |-> {[id |-> v] : v \in {a, b, c, d, g, h}}, parameters |-> parameters,
   cognates |-> <<>>, forms |-> forms]
WordRows(sets2) ==
  <<FormRow(a, 1, <<"s">>), FormRow(b, 1, <<"s">>), FormRow(c, 1, <<"s">>), FormRow(g, 1, <<"s">>),
    FormRow(a, 2, <<"t">>), FormRow(b, 2, <<"t", "u">>), FormRow(c, 2, <<"s">>), FormRow(g, 2, sets2),
    FormRow(a, 3, <<"v">>), FormRow(b, 3, <<"v">>), FormRow(c, 3, <<"v">>), FormRow(g, 3, <<"v">>), FormRow(h, 3, <<"v">>)>>
Prepared0 == {Dataset(WordRows(<<"t">>), Parameters), Dataset(WordRows(<<"t", "s">>), Parameters),
              Dataset(WordRows(<<"t">>), {[p EXCEPT !.concepticon = 7] : p \in Parameters})}

\* Datasets of one interesting row beside a plain one.
Tokens == {<<"p">>, <<"+">>, <<"x", "q">>}
RowWords == UNION {[1..n -> Tokens] : n \in 0..4}
BadWords == {<< <<"p", Empty>> >>, << <<"p", "q", "r">> >>, << <<Empty, "h">> >>}
Slices == {<<>>, << <<1>> >>, << <<2>> >>, << <<1, 2>> >>, << <<1>>, <<2, 3>> >>,
           << <<2>>, <<1, 2>> >>, << <<2, 1>> >>, << <<>> >>}
Tabled(id, set, slice) == [id |-> id, form |-> <<a, 1>>, set |-> set, slice |-> slice]
RowSource(word, columns, unit, inline, partial, cognates) ==
  [Dataset(<<[FormRow(a, 1, inline) EXCEPT !.segments = word, !.partial = partial],
             [FormRow(b, 1, <<"s">>) EXCEPT !.partial = <<"s">>]>>, Parameters)
     EXCEPT !.columns = columns, !.unit = unit,
            !.cognates = cognates \o << [Tabled("m", "s", <<>>) EXCEPT !.form = <<b, 1>>] >>]
RowSources ==
  {RowSource(w, Columns(FALSE, FALSE, TRUE), "morpheme", <<>>, partial, <<>>) :
     w \in RowWords \cup BadWords, partial \in {<<>>, <<"s">>, <<"s", "t">>, <<"s", "s">>}}
  \cup {RowSource(w, Columns(inline, TRUE, TRUE), unit, <<"s">>, <<"s">>,
                  <<Tabled("1", "s", slice), Tabled(id, set, <<>>)>>) :
          w \in {v \in RowWords : Len(v) > 2}, inline \in BOOLEAN,
          unit \in {"segment", "morpheme"}, slice \in Slices,
          id \in {"1", Empty}, set \in {"s", "t", Empty}}

MCSources == Prepared0 \cup RowSources
PlainSources == {Dataset(WordRows(<<"t">>), Parameters)}

Request(varieties, concepts, bindings, newick) ==
  [varieties |-> varieties, concepts |-> concepts, bindings |-> bindings, newick |-> newick]
Bound(v, node, role, lineages) ==
  [source |-> v, node |-> node, role |-> role, lineages |-> lineages]
Lineages(descendants) ==
  {[target |-> g, branch |-> descendants[x], descendant |-> x] : x \in DOMAIN descendants}
OfLineages(rows) == LineageRequests(rows, "target")
MCBindings ==
  {{}, {Bound(g, N, "target", {})}, {Bound(g, N, "anchor", {})},
   {Bound(g, N, "target", {}), Bound(h, N, "anchor", {})},
   {Bound(g, N, "target", {}), Bound(h, R, "target", {})},
   {Bound(g, a, "target", {})}, {Bound(g, <<2>>, "anchor", {})}, {Bound(d, N, "target", {})},
   OfLineages(Lineages(a :> "x" @@ b :> "x" @@ c :> "y")),
   OfLineages(Lineages(a :> "x" @@ c :> "x")),
   OfLineages(Lineages(a :> "x" @@ b :> "y"))}
MCRequests(from) ==
  IF from \in RowSources THEN {Request({}, {}, {}, NoTree)}
  ELSE {Request(varieties, concepts, bindings, newick) :
          varieties \in {{}, {a, b, c}, {a, b}, {a, c, g}}, concepts \in {{}, {7}, {2, 3}},
          bindings \in MCBindings, newick \in Texts \cup {NoTree}}
MCDefinitions(from) ==
  IF from \in RowSources THEN {}
  ELSE {[daughters |-> daughters, targets |-> targets, reference |-> g, selection |-> selection,
         cap |-> cap, newick |-> newick] :
          daughters \in {{a, b, c}, {a, b}, {a, g}},
          targets \in {{[source |-> g, node |-> N]},
                       {[source |-> g, node |-> N], [source |-> h, node |-> R]}},
          selection \in {"cognate", "shared", "all"}, cap \in {0, 1},
          newick \in Texts}
Anchor(node, concept) ==
  [node |-> node, form |-> [id |-> <<"anchor", concept>>, variety |-> node, concept |-> concept]]
MCAnchorFiles(from) ==
  IF from \in RowSources THEN {{}} ELSE {{}, {Anchor(N, 3)}, {Anchor(a, 3), Anchor(R, 2)}}

-----------------------------------------------------------------------------
(* Runs and scores.                                                         *)

Piece(unit, kind, at) == [unit |-> unit, kind |-> kind, at |-> at]
Word(segments, pieces) == [segments |-> segments, pieces |-> pieces]

Right == <<1, 2>>
Wrong == <<1, 1>>
Concept == "k1"
Of(candidates) == Concept :> candidates

MCOrder == <<"inner", "middle", "root">>
MCKids == "inner" :> {} @@ "middle" :> {"inner"} @@ "root" :> {"middle"}
MCBelow == "inner" :> {} @@ "middle" :> {"inner"} @@ "root" :> {"inner", "middle"}
Gold == Of({Word(Right, NotScored), Word(<<2>>, NotScored)})
MCBinding == "inner" :> Gold @@ "root" :> Gold
MCObserved == [n \in {"inner", "middle", "root"} |-> Of({Wrong})]
MCOutputs == {Of(<<Word(Right, NotScored)>>), Of(<<Word(Wrong, NotScored)>>), Of(<<>>)}
MCFallback == Of(<<Word(Wrong, NotScored)>>)

\* Pairs of words, and a session on two concepts.
SmallWords == UNION {[1..n -> {1, 2}] : n \in 0..3}
Pairs == {[left |-> w, right |-> v] : w \in SmallWords, v \in SmallWords}

Layouts == {<<Piece(1, "cognate", <<1>>), Piece(2, "cognate", <<2>>)>>,
            <<Piece(2, "cognate", <<1>>), Piece(1, "cognate", <<2>>)>>,
            <<Piece(1, "cognate", <<1, 2>>)>>,
            <<Piece(1, "cognate", <<1>>), Piece(NotScored, "unknown", <<2>>)>>}
           \cup IF Repeated THEN {<<Piece(1, "cognate", <<1>>), Piece(1, "cognate", <<2>>)>>}
                ELSE {}
Candidates == {<<>>, <<Word(Right, NotScored)>>}
              \cup {<<Word(w, l)>> : w \in {Right, Wrong, <<2, 1>>}, l \in Layouts}
Opportunity(k, unit, locus, expected, tied) ==
  [concept |-> k, unit |-> unit, locus |-> locus, token |-> 2, absent |-> 1,
   expected |-> expected, tied |-> tied]
Case == [opportunities |-> <<Opportunity("k1", 1, "final", "retain", FALSE),
                             Opportunity("k1", 2, "piece", "absent", FALSE),
                             Opportunity("k2", 1, "initial", "absent", FALSE),
                             Opportunity("k2", 2, "piece", "retain", TRUE)>>,
         errors |-> "witness" :> {1, 2} @@ "retain" :> {2, 3},
         pairs |-> {{1, 3}}]
Column(unit, reflexes, set, by) == [unit |-> unit, reflexes |-> reflexes, set |-> set, by |-> by]
Sessions ==
  {[output |-> "k1" :> first @@ "k2" :> second, committed |-> TRUE, fallback |-> f,
    columns |-> [k \in {"k1", "k2"} |-> {Column(1, <<2, Gap>>, "s1", by)}],
    claims |-> "s1" :> claimed] :
     first \in Candidates, second \in Candidates, f \in BOOLEAN, claimed \in {1, 2},
     by \in {"claim", "residue"}}

-----------------------------------------------------------------------------
(* The commands start from any dataset; the rest does not look at it.       *)

Run == UNCHANGED commandVars /\ subject = Start0
TakePair == Run /\ "pair" \in Subjects /\ pc = "idle"
            /\ \E p \in Pairs : subject' = p
            /\ UNCHANGED vars
TakeSession == Run /\ "session" \in Subjects /\ pc = "idle"
               /\ \E s \in Sessions : subject' = s
               /\ UNCHANGED vars
Walk == Run /\ "walk" \in Subjects /\ Next /\ UNCHANGED subject
Command == subject = Commands /\ CommandsNext /\ UNCHANGED <<vars, subject>>

MCInit == /\ Init /\ CommandsInit
          /\ \/ subject = Start0 /\ source \in PlainSources
             \/ subject = Commands /\ "commands" \in Subjects
MCNext == TakePair \/ TakeSession \/ Walk \/ Command
MCSpec == MCInit /\ [][MCNext]_<<vars, commandVars, subject>>

Taken == subject \notin {Start0, Commands}

\* The alignment that is shown is the distance that is counted.
AlignmentHolds ==
  (Taken /\ "left" \in DOMAIN subject) => AlignmentIsDistance(subject.left, subject.right)

\* Deleting output, analysis or the commit raises no score.
DeletionHolds ==
  (Taken /\ "output" \in DOMAIN subject) => DeletionNeverHelps(Case, subject)

\* A word is scored by what was output, and no better for what was left out.
ScoresHold == AlignmentHolds /\ DeletionHolds
=============================================================================
