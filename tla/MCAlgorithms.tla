---------------------------- MODULE MCAlgorithms ----------------------------
(* Every small input of the deterministic parts: a subject is taken, or a  *)
(* node's beams are folded, and what the definitions compute is compared   *)
(* with what they are meant to compute.                                    *)
EXTENDS Analyses, Reconstruction, Synthesis

CONSTANT Start

VARIABLES subject, kind

\* Rows of one width are padded on the right.
Padded(words) ==
  LET width == Max({Len(words[n]) : n \in DOMAIN words})
  IN [n \in DOMAIN words |->
        [i \in 1..width |-> IF i <= Len(words[n]) THEN words[n][i] ELSE Gap]]

Env(l, r, i, f) == [left |-> l, right |-> r, initial |-> i, final |-> f]
Before1 == Env(<<>>, <<1>>, FALSE, FALSE)
After2 == Env(<<2>>, <<>>, FALSE, FALSE)
Initial == Env(<<>>, <<>>, TRUE, FALSE)
LastAfter1 == Env(<<1>>, <<>>, FALSE, TRUE)

Inventory(C) == [commitments |-> C, witness |-> 1, dispositions |-> <<>>,
                 restorations |-> <<>>]
Inventories ==
  {Inventory(C) : C \in
    {{Claim(<<1, 2>>, 2, Unconditioned, 3)},
     {Claim(<<1, 2>>, 2, Before1, 3), Claim(<<1, 2>>, 1, Unconditioned, 4)},
     {Claim(<<1, 2>>, 1, After2, 3), Claim(<<2, 1>>, 2, Before1, 3)},
     {Claim(<<1, 2>>, 1, Initial, 3), Claim(<<1, 2>>, 2, LastAfter1, 3),
      Claim(<<0, 2>>, 0, Unconditioned, 2)},
     {Claim(<<1, 2>>, 1, Initial, 3), Claim(<<1, 2>>, 2, Before1, 3)},
     {Claim(<<1, 0>>, 0, After2, 4), Claim(<<2, 2>>, 2, Unconditioned, 4),
      Claim(<<1, 2>>, 2, After2, 4)},
     {Claim(<<1, 2>>, 2, Unconditioned, 3), Claim(<<2, 2>>, 2, Unconditioned, 3),
      Claim(<<1, 0>>, 2, Unconditioned, 3)}}}
  \cup {[Inventory({Claim(<<1, 2>>, 2, Before1, 3)}) EXCEPT !.witness = 0,
           !.dispositions = (2 :> 1), !.restorations = (1 :> 2 @@ 4 :> 1)]}

ASSUME \A I \in Inventories : WellFormedInventory(I, 2)

Rows(n, w) == [1..n -> [1..w -> {0, 1, 2}]]
Columns == {[inventory |-> I, rows |-> r] : I \in Inventories, r \in Rows(2, 3)}

Candidate(f, m) == [form |-> f, mass |-> m]
Beams == {<<Candidate(<<1>>, 1)>>,
          <<Candidate(<<1>>, 3), Candidate(<<2>>, 2)>>,
          <<Candidate(<<1, 2>>, 2), Candidate(<<2>>, 2), Candidate(<<1>>, 1)>>}
Tuples == UNION {[1..n -> Beams] : n \in 1..3}

\* Words of segments 1, 2 and the boundary 9, annotated in every way.
Form(id, child, segments, cognate, memberships) ==
  [id |-> id, child |-> child, segments |-> segments, cognate |-> cognate,
   memberships |-> memberships]
Compound == <<1, 9, 2>>
Annotations ==
  {<<Compound, 0, {}>>, <<Compound, 1, {}>>,
   <<Compound, 0, {Membership(1, <<>>), Membership(2, <<>>)}>>,
   <<Compound, 0, {Membership(1, <<1>>), Membership(2, <<3>>)}>>,
   <<Compound, 0, {Membership(1, <<1>>)}>>,
   <<Compound, 0, {Membership(1, <<1>>), Membership(1, <<3>>)}>>,
   <<Compound, 0, {Membership(1, <<1, 2>>), Membership(2, <<1>>)}>>,
   <<Compound, 0, {Membership(1, <<>>), Membership(2, <<3>>)}>>,
   <<<<2, 1>>, 0, {Membership(2, <<1>>), Membership(1, <<2>>)}>>,
   <<<<2, 1>>, 0, {Membership(1, <<1, 2>>)}>>,
   <<<<2, 1>>, 0, {}>>}
Of(id, child, a) == Form(id, child, a[1], a[2], a[3])

Words(forms) == UNION {AnalysedWords(f) : f \in forms}
Second == [none |-> {}, same |-> {Of("f3", 2, <<Compound, 1, {}>>)},
           other |-> {Of("f3", 2, <<<<2>>, 0, {}>>)}]
OtherConcept == {Of("g1", 1, <<<<1, 2>>, 1, {}>>), Of("g2", 2, <<<<1>>, 1, {}>>)}
Lexicons ==
  {[concepts |-> [k \in {"k1", "k2"} |->
      IF k = "k1" THEN Words({Of("f1", 1, a), Of("f2", 2, b)} \cup Second[c])
      ELSE Words(OtherConcept)],
    claimed |-> [k \in {"k1", "k2"} |-> IF k = "k1" THEN order ELSE <<>>]] :
     a \in Annotations, b \in Annotations, c \in DOMAIN Second,
     order \in {<<>>, <<Cognate(2), <<"boundary", 1, 2, 9>>, Cognate(1)>>}}

\* Every way to lay tokens out in a width, and to leave them out.
Spread(tokens, width) ==
  {[i \in 1..width |-> IF i \in at THEN tokens[Cardinality(at \cap (1..i))] ELSE Gap] :
     at \in kSubset(Len(tokens), 1..width)}
Layouts(tokens, width) == Spread(tokens, width) \cup {[i \in 1..width |-> Gap]}
LayoutsOf(words, c, unit) ==
  UNION {{[row |-> row, analysis |-> w.analysis] :
            row \in Layouts(IF unit = NoUnit THEN w.segments
                            ELSE IF HasUnit(w, unit) THEN Tokens(w, unit) ELSE <<>>, 3)} :
           w \in {w \in words : w.child = c}}
Overlays ==
  UNION {LET words == Words({Of("f1", 1, a), Of("f2", 2, b)} \cup Second[c])
         IN {[words |-> words, override |->
                Override(u, <<x.row, y.row>>, <<x.analysis, y.analysis>>)] :
               x \in LayoutsOf(words, 1, u), y \in LayoutsOf(words, 2, u)} :
         a \in Annotations, b \in Annotations, c \in {"none", "other"},
         u \in {NoUnit, UnknownWhole, Cognate(1)}}

\* Splits: the sets <1 2> and <2 1> are said to be one segment, 1.
Environments1 == {Before1, After2, Initial, LastAfter1, Env(<<>>, <<2>>, FALSE, FALSE)}
Splits ==
  {[c |-> Claim(<<1, 2>>, 1, e, 3), d |-> Claim(<<2, 1>>, 1, f, 3), rows |-> r] :
     e \in Environments1, f \in Environments1, r \in Rows(2, 3)}

\* Witnesses: every layout of two words, and of the two beside a third.
Lemmas == {<<<<1, 1>>, 1, {}>>, <<<<2, 1>>, 1, {}>>, <<<<2>>, 1, {}>>,
           <<Compound, 0, {Membership(1, <<1>>), Membership(2, <<3>>)}>>}
OutPieces == {Piece(Cognate(1), 1, "whole", <<1, 2>>), Piece(Cognate(1), 1, "cognate", <<3>>)}
OutWord == <<1, 1, 2>>
WitnessSubjects ==
  UNION {UNION {{[words |-> <<x, y>>, piece |-> p,
                  override |-> Override(Cognate(1), <<r, s>>, <<x.analysis, y.analysis>>),
                  joint |-> <<l, m, o>>] :
                   r \in Spread(Tokens(x, Cognate(1)), 3), s \in Spread(Tokens(y, Cognate(1)), 3),
                   l \in Spread(Tokens(x, Cognate(1)), 3), m \in Spread(Tokens(y, Cognate(1)), 3),
                   o \in Spread([k \in DOMAIN p.at |-> OutWord[p.at[k]]], 3)} :
                 x \in Words({Of("f1", 1, a)}), y \in Words({Of("f2", 2, b)}), p \in OutPieces} :
         a \in Lemmas, b \in Lemmas}

\* Two concepts of two children, and the words of an out-group (3) and of a
\* node below them (4).
Outside(n, id, k, a) ==
  {[node |-> n, concept |-> k, id |-> w.id, segments |-> w.segments, pieces |-> w.pieces] :
     w \in AnalysedWords(Of(id, n, a))}
Plain == {<<<<1, 2>>, 0, {}>>, <<<<2, 1>>, 1, {}>>, <<<<1, 1>>, 1, {}>>,
          <<Compound, 0, {Membership(1, <<1>>), Membership(2, <<3>>)}>>}
Surroundings ==
  {[concepts |-> [k \in {"k1", "k2"} |->
      IF k = "k1" THEN Words({Of("f1", 1, a), Of("f2", 2, b)}) ELSE Words(OtherConcept)],
    outside |-> Outside(3, "o1", "k1", c) \cup Outside(4, "o2", "k1", d)
                \cup Outside(3, "o3", "k2", <<<<2>>, 1, {}>>)] :
     a \in Plain, b \in Plain, c \in Plain, d \in Plain}
NoClaims == [k \in {"k1", "k2"} |-> <<>>]
Relation == [n \in {1, 2, 3, 4} |->
               IF n = 3 THEN "outgroup" ELSE IF n = 4 THEN "descendant" ELSE "active"]
Restorations ==
  {Restoration("k1", i, u, s, from) :
     i \in {0, 3}, u \in {NoUnit, Cognate(1)}, s \in Segment,
     from \in (SUBSET {1, 2, 3, 4}) \ {{}}}

\* Edits: the words of one child, one or two, written with other boundaries;
\* a claim gives each position a unit.
Respellings(w) ==
  LET spoken == Spoken(w.segments)
      one == SubSeq(spoken, 1, 1)
      rest == SubSeq(spoken, 2, Len(spoken))
  IN {spoken, one \o <<9>> \o rest, one \o <<9, 9>> \o rest, <<9>> \o spoken, <<2>> \o rest}
ClaimOf(s) ==
  [i \in DOMAIN s |-> [unit |-> IF s[i] = 9 THEN <<"claimed">> ELSE Cognate(i),
                      cognate |-> IF s[i] = 9 THEN NoCognate ELSE i, at |-> <<i>>]]
Cuts == {<<Compound, 0, {}>>, <<Compound, 0, {Membership(1, <<1>>)}>>,
         <<Compound, 0, {Membership(1, <<1>>), Membership(2, <<3>>)}>>,
         <<Compound, 0, {Membership(1, <<1, 2>>), Membership(2, <<3>>)}>>,
         <<<<2, 1>>, 0, {Membership(2, <<1>>), Membership(1, <<2>>)}>>, <<<<2, 1>>, 0, {}>>}
Beam1(forms) == Canonical({AsCandidate(w) : w \in Words(forms)})
EditedWords ==
  UNION {LET words == Beam1({Of("f1", 1, a), Of("f2", 2, b)} \cup c)
         IN UNION {{[words |-> words, word |-> w, edit |-> e] :
                      e \in {Edit(s, <<>>) : s \in Respellings(w)}
                            \cup {Edit(Compound, ClaimOf(Compound)), Edit(<<1, 2>>, ClaimOf(<<1>>))}} :
                    w \in {w \in words : w.child = 1}} :
         a \in Cuts, b \in {<<<<1, 1>>, 1, {}>>, <<Compound, 0, {Membership(1, <<1>>), Membership(2, <<3>>)}>>},
         c \in {{}, {Of("f3", 1, <<<<1, 2>>, 0, {}>>)}, {Of("f3", 1, <<<<1, 2>>, 1, {}>>)}}}
Probes == {Inventory({Claim(<<1, 1>>, 2, Unconditioned, 3), Claim(<<1, 0>>, 0, Unconditioned, 3)}),
           [Inventory({Claim(<<2, 2>>, 1, Before1, 3)}) EXCEPT !.witness = 0]}
Restored == [proto : {1}, unit : {NoUnit, UnknownWhole, Cognate(1), Cognate(2)}]

-----------------------------------------------------------------------------
(* Beams of words over two segments, 1 and 2, and a boundary, 9, to be folded *)
(* under a cascade.                                                           *)

Law(t, r, left, right) ==
  [target |-> t, replacement |-> r, left |-> left, right |-> right,
   initial |-> FALSE, final |-> FALSE]
Only(law, S, c) == <<[rule |-> law, scope |-> S, confidence |-> c]>>

OneTwo == Law(<<1>>, <<2>>, <<>>, <<>>)          \* 1 > 2
TwoOne == Law(<<2>>, <<1>>, <<1>>, <<>>)         \* 2 > 1 / 1 _
Drop == Law(<<1>>, <<>>, <<>>, <<>>)             \* 1 > 0
Final == [OneTwo EXCEPT !.final = TRUE]          \* 1 > 2 / _ #
Long == Law(<<1, 2>>, <<2>>, <<>>, <<>>)         \* 1 2 > 2
Short == Law(<<1, 1>>, <<1>>, <<>>, <<>>)        \* 1 1 > 1

SomeCascades ==
  {<<>>, Only(OneTwo, {"a"}, 10), Only(Long, {"a", "b"}, 9), Only(Short, {"a", "b", "c"}, 9),
   Only(Final, {"b"}, 5) \o Only(TwoOne, {"b"}, 9),
   Only(TwoOne, {"a", "b", "c"}, 10) \o Only(Drop, {"a"}, 5)}

Weighed(f, m) == [form |-> f, mass |-> m]
SomeDists ==
  {<<>>, <<Weighed(<<2>>, 1)>>,
   LeafBeam(<<<<1>>, <<2>>, <<1>>>>),
   <<Weighed(<<1, 1>>, 1), Weighed(<<1, 2>>, 1)>>,
   <<Weighed(<<1, 1, 1>>, 1), Weighed(<<1, 1, 1, 1>>, 1)>>,
   <<Weighed(<<1, 9, 2>>, 3), Weighed(<<2>>, 2)>>}

SomeAnchors == {{}, {<<2>>}}
BeamOrder == <<"a", "b", "c">>
ASSUME \A s \in SomeCascades : \A i \in DOMAIN s : WellFormed(s[i].rule)

-----------------------------------------------------------------------------
(* Families of the tree ((a, b)m, c)p, of two concepts.                     *)

TwoThree == Law(<<2>>, <<3>>, <<>>, <<>>)        \* 2 > 3
LoseTwo == Law(<<2>>, <<>>, <<1>>, <<>>)         \* 2 > 0 / 1 _
AddTwo == Law(<<1>>, <<1, 2>>, <<>>, <<>>)       \* 1 > 1 2
Changes == {<<>>, <<OneTwo>>, <<TwoThree, OneTwo>>, <<TwoOne>>, <<LoseTwo>>, <<OneTwo, OneTwo>>}
Below == [a |-> "m", b |-> "m", c |-> "p", m |-> "p"]
Proto == {[k1 |-> v, k2 |-> w] : v \in {<<1>>, <<1, 2>>}, w \in {<<1, 2>>, <<2, 1, 2>>, <<2, 2>>}}
Families ==   \* an inverse is declared only where there are changes
  {fam \in {[root |-> "p", parent |-> Below, proto |-> words, rules |-> [a |-> r, m |-> q], declared |-> d] :
     words \in Proto, r \in Changes, q \in Changes,
     d \in {<<>>, [m |-> <<AddTwo>>], [a |-> <<TwoOne, OneTwo>>]}} :
     \A n \in DOMAIN fam.declared : fam.rules[n] # <<>>}

\* The sessions of a run: every rule the key has, after an attempt at each node
\* that failed; or every rule twice, one of them scoped to both children.
Said(key, children) ==
  FlattenSeq([i \in DOMAIN children |->
    LET inverse == key[children[i]].inverse
    IN [j \in DOMAIN inverse |-> [rule |-> inverse[j], scope |-> {children[i]}]]])
Session(n, completed, said) == [node |-> n, completed |-> completed, rules |-> said]
TrueRun(key) ==
  <<Session("m", FALSE, Said(key, <<"c">>)), Session("m", TRUE, Said(key, <<"a", "b">>)),
    Session("p", FALSE, <<>>), Session("p", TRUE, Said(key, <<"m", "c">>))>>
Twice(key) == TrueRun(key) \o <<Session("m", TRUE, Said(key, <<"a", "b">>)
                                        \o <<[rule |-> TwoOne, scope |-> {"a", "b"}]>>)>>

\* Two leaves of two concepts, and up to two perturbations of them.
ObservedWords == [{"a", "b"} -> {[k1 |-> <<1>>, k2 |-> <<1, 9>>], [k1 |-> <<2, 1>>, k2 |-> <<1>>],
                            [k1 |-> <<1>>, k2 |-> <<1>>]}]
Draws ==
  [kind : {"irregular_form"}, node : {"a", "b"}, concept : {"k1", "k2"}, at : 1..2, segment : 1..2]
  \cup [kind : {"loan"}, node : {"a", "b"}, concept : {"k1", "k2"}, donor : {"a", "b"}]
  \cup [kind : {"semantic_mismatch"}, node : {"a", "b"}, concept : {"k1", "k2"}, other : {"k1", "k2"}]
Rank == [irregular_form |-> 1, loan |-> 2, semantic_mismatch |-> 3]
NoisyFamilies ==
  UNION {LET drawn(now) == {x \in Draws : Drawable(now, Material(words), x)}
         IN UNION {{[words |-> words, draws |-> <<x, y>>] :
                      y \in {y \in drawn(Perturbed(words, x)) : Rank[x.kind] <= Rank[y.kind]}} :
                   x \in drawn(words)} :
         words \in ObservedWords}

\* Forms of two children, of three concepts.
FormOf(k, w) == [concept |-> k, word |-> w]
HeldForms ==
  {[forms |-> [a |-> <<FormOf("k1", w), FormOf("k1", <<2>>), FormOf("k2", v)>>,
               b |-> <<FormOf("k2", <<1, 2>>), FormOf("k3", v)>>],
    cascade |-> [a |-> r, b |-> q], digest |-> d, share |-> 3] :
     w \in {<<1>>, <<1, 2>>}, v \in {<<2>>, <<2, 1, 2>>}, r \in Changes, q \in Changes,
     d \in {[k1 |-> 1, k2 |-> 2, k3 |-> 3], [k1 |-> 3, k2 |-> 1, k3 |-> 2],
            [k1 |-> 2, k2 |-> 3, k3 |-> 1]}}
  \cup {[n |-> n, share |-> share] : n \in 0..15, share \in {1, 3, 5, 9}}

-----------------------------------------------------------------------------
\* Either a subject of one kind is to be taken, or a node's beams are folded
\* step by step.
Kinds == {"columns", "beams", "words", "overlay", "witness", "evidence", "split", "edit",
          "family", "noise", "held"}
Unused ==
  /\ dist = Start /\ rules = Start /\ anchors = Start /\ folded = Start
  /\ partials = Start /\ pruned = Start /\ beam = <<>>
MCInit ==
  /\ subject = Start
  /\ \/ kind \in Kinds /\ Unused
     \/ kind = "node" /\ Init

Take(k, S) == kind = k /\ subject = Start /\ subject' \in S /\ UNCHANGED <<kind, vars>>
TakeColumns == Take("columns", Columns)
TakeBeams == Take("beams", Tuples)
TakeWords == Take("words", Lexicons)
TakeOverlay == Take("overlay", Overlays)
TakeWitness == Take("witness", WitnessSubjects)
TakeEvidence == Take("evidence", Surroundings)
TakeSplit == Take("split", Splits)
TakeEdit == Take("edit", EditedWords)
TakeFamily == Take("family", Families)
TakeNoise == Take("noise", NoisyFamilies)
TakeHeld == Take("held", HeldForms)
Fold == kind = "node" /\ Next /\ UNCHANGED <<kind, subject>>

MCNext ==
  \/ TakeColumns \/ TakeBeams \/ TakeWords \/ TakeOverlay \/ TakeWitness
  \/ TakeEvidence \/ TakeSplit \/ TakeEdit
  \/ TakeFamily \/ TakeNoise \/ TakeHeld \/ Fold
MCSpec == MCInit /\ [][MCNext]_<<subject, kind, vars>>

Taken(k) == kind = k /\ subject # Start
ConditionedClaimsHold ==
  Taken("columns") => ConditionedHolds(subject.inventory, subject.rows)
ResolvedKept ==
  Taken("columns") => ResolvedIsVariant(subject.inventory, subject.rows, 3)
ReportedContextsAccepted ==
  Taken("columns") => ReportAccepted(subject.rows)
DerivedRulesVerified ==
  Taken("columns") => \A n \in 1..2 :
    DerivedRulesAgree(subject.inventory, subject.rows, n)
FrontierExact ==
  Taken("beams") => FrontierIsExact(subject)

NoOverrides == [k \in {"k1", "k2"} |-> {}]
SegmentsKept ==
  Taken("words") => \A kt \in NodeTuples(subject.concepts) :
    EverySegmentOnce(kt[2], subject.claimed[kt[1]], {})
ReadableMap(P(_)) ==
  Taken("words") /\ ~EvidenceRefused(subject.concepts, subject.claimed, NoOverrides)
    => P(EvidenceMap(subject.concepts, subject.claimed, NoOverrides))
SupportIndependent == ReadableMap(SupportIsIndependent)
CandidatesSeparate == ReadableMap(CandidatesSeparable)
RealignEffective ==
  Taken("overlay") => RealignTakesEffect(subject.words, subject.override)
WitnessesHold ==
  Taken("witness") =>
    WitnessesStandBeside(subject.words, Cognate(1), {subject.override},
                         subject.piece, subject.joint)
OfEvidence(P(_)) ==
  Taken("evidence") /\ ~EvidenceRefused(subject.concepts, NoClaims, NoOverrides)
    => P(Reading(subject.concepts, NoClaims, NoOverrides))
PolarizeAgrees ==
  OfEvidence(LAMBDA reading :
    PolarizeIsSurvey(reading, EvidenceMap(subject.concepts, NoClaims, NoOverrides),
                     subject.outside))
\* The children's own words are evidence too.
OwnWords ==
  UNION {{[node |-> w.child, concept |-> k, id |-> w.id, segments |-> w.segments,
           pieces |-> w.pieces] : w \in subject.concepts[k]} : k \in DOMAIN subject.concepts}
RestorationsWitnessed ==
  OfEvidence(LAMBDA reading : \A r \in Restorations :
    RestorationIsWitnessed(reading, subject.outside \cup OwnWords, Relation, r))
\* The words as they are, or after the edit where it is accepted.
AfterEdit ==
  IF EditRefused(subject.word, subject.edit) THEN subject.words
  ELSE ApplyOverlay(subject.words, subject.word.id :> subject.edit)
EditsKeepUnits ==
  Taken("edit") => /\ EditKeepsUnits(subject.word, subject.edit)
                   /\ EditIsAccepted(subject.word, subject.edit)
EditsAccepted == Taken("edit") => BoundaryEditAccepted(subject.word, subject.edit)
EveryColumnBound == Taken("edit") => ColumnsBound(AfterEdit)
BoundAlways == Taken("edit") => ColumnsAlwaysBound(AfterEdit)
\* Every tuple that can be read, as the assembler resolves its columns.
EachTuple(P(_, _, _)) ==
  Taken("edit") =>
    \E words \in {AfterEdit} : \A t \in TuplesOf(words) : ~Unreadable(t, <<>>, {}) =>
      \E columns \in {AlignTuple(t, <<>>, {})} : \A I \in Probes :
        \E outcomes \in {ResolveColumns(BoundInventory(I, words, t), ColumnRows(columns))} :
          P(t, columns, outcomes)
AnalysesSound ==
  EachTuple(LAMBDA t, columns, outcomes :
              /\ WrittenSound(t, columns, outcomes)
              /\ \A r \in Restored : RestorationFits(columns, outcomes, r))
RestorationsAssemble ==
  EachTuple(LAMBDA t, columns, outcomes :
              \A r \in Restored : RestorationAssembles(columns, outcomes, r))
RestorationsPut == Taken("edit") => RestorationStaysPut(AfterEdit)

SplitHolds(P(_, _, _, _)) ==
  Taken("split") =>
    P([Inventory({subject.c, subject.d}) EXCEPT !.witness = 0],
      subject.c, subject.d, {subject.rows})
SplitsAssembled == SplitHolds(LoneSplitIsAssembled)
SplitsAlwaysAssembled == SplitHolds(SplitIsAssembled)

\* A family with its lexicons, its key and a run on it.
OfFamily(P(_, _, _)) ==
  Taken("family") =>
    \E lexicons \in {NodeLexicons(subject)} : \E key \in {AnswerKey(subject, lexicons)} :
      P(subject, lexicons, key)
FamilyScored ==
  OfFamily(LAMBDA fam, lexicons, key :
    /\ KeyIsSound(fam, lexicons, key)
    /\ TrueCascadeScores(fam, key, RunScore(fam, lexicons, key, TrueRun(key)))
    /\ ScoreIsBounded(fam, lexicons, RunScore(fam, lexicons, key, Twice(key))))
TrueCascadeAlways ==
  OfFamily(LAMBDA fam, lexicons, key :
    TrueCascadeScoresAlways(fam, key, RunScore(fam, lexicons, key, TrueRun(key))))
DeletionsLost == OfFamily(LAMBDA fam, lexicons, key : DeletionNeverInvertible(fam, key))

AfterNoise == FoldLeft(Perturbed, subject.words, subject.draws)
Records == {NoiseRecord(subject.draws[i]) : i \in DOMAIN subject.draws}
NoiseRecorded == Taken("noise") => NoiseIsRecorded(subject.words, AfterNoise, Records)
NoiseNamed == Taken("noise") => NoiseIsNamed(subject.words, AfterNoise, Records)

K3 == {"k1", "k2", "k3"}
HeldOutHolds ==
  Taken("held") =>
    IF "n" \in DOMAIN subject
    THEN SplitIsFair(1..subject.n, [k \in 1..subject.n |-> k], subject.share)
    ELSE HeldOutAddsUp(subject.forms, subject.cascade, K3,
                       HeldOut(K3, subject.digest, subject.share))

-----------------------------------------------------------------------------
(* What a run checks: one property for each question.                       *)

\* The searches that prune lose nothing they need not lose: the incremental
\* fold of traversal/reconstructor.py scores as the whole product would, and the
\* bounded frontier of traversal/assembler.py yields the best tuples of all.
SearchIsExact ==
  /\ FrontierExact
  /\ kind = "node" => IncrementalIsExact

\* A rule does to a word what its text says, leftmost first and once
\* (rules/engine.py), and a cascade that merges two words holds a rule reported
\* as removing a distinction (rules/contrast.py); the rules that made a family
\* (synthesis) and the ones fitted to it are scored as what they do.
RulesExplained ==
  /\ kind = "node" => CascadeExplained /\ CascadeMergersReported
  /\ FamilyScored /\ NoiseRecorded /\ HeldOutHolds

\* What is committed over alignment columns is what is assembled and what the
\* derived rules do: claims hold in their environments, contexts the survey
\* reports are accepted back, a split of two sets resolves each to its own, and
\* the first variants of a reading, kept when there are too many, hold it.
AssemblyHolds ==
  ConditionedClaimsHold /\ ReportedContextsAccepted /\ DerivedRulesVerified
    /\ SplitsAssembled /\ AnalysesSound /\ ResolvedKept

\* The survey of cognate sets keeps every segment, counts support that does not
\* depend on itself, proposes as complementary only what contexts can tell
\* apart, and an accepted realignment is what it then reads.
SurveyHolds ==
  SegmentsKept /\ SupportIndependent /\ CandidatesSeparate /\ RealignEffective
    /\ EditsKeepUnits /\ EveryColumnBound

\* A witness stands beside the very columns it is cited for, and polarize
\* tells of a correspondence what the survey tells of it.
WitnessesSound == WitnessesHold /\ PolarizeAgrees
=============================================================================
