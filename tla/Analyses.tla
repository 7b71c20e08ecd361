------------------------------- MODULE Analyses -------------------------------
(***************************************************************************)
(* Which segment of a word is of which unit, from the child's word to the  *)
(* parent's.  Beams merge words that are alike; a segmentation overlay     *)
(* moves boundaries and carries the units along; the survey names every    *)
(* column it reads, and the assembler looks its own columns up by name;    *)
(* the word it writes has an analysis of its own, which the next node      *)
(* reads.  A position of a disposition or a restoration is checked against *)
(* the columns before it is used.                                          *)
(*                                                                         *)
(* A word here holds beside its pieces the forms it was read from.  Notes, *)
(* claim labels, membership names and order_status are left out, and a     *)
(* name is what it digests.                                                *)
(***************************************************************************)
EXTENDS Witnesses

\* A candidate of a beam: a word of one analysis and the forms behind it.
AsCandidate(w) == w @@ [from |-> {w.id}]

-----------------------------------------------------------------------------
(* make_leaf_beam, merge_compatible_analyses                               *)

\* compatibility_key: what is claimed of the word, whatever it was read from.
Alike(v, w) == v.child = w.child /\ v.segments = w.segments /\ v.pieces = w.pieces

\* Words that are alike are one candidate, of all their forms.
Canonical(words) ==
  {[w EXCEPT !.id = <<w.segments, w.pieces>>,
             !.from = UNION {v.from : v \in {v \in words : Alike(v, w)}}] : w \in words}

-----------------------------------------------------------------------------
(* segment_morphemes: a word is written with other boundaries.             *)

\* Maximal runs of one unit, each as the positions it covers.
Runs(units) ==
  LET starts == SelectSeq([i \in DOMAIN units |-> i],
                          LAMBDA i : i = 1 \/ units[i] # units[i - 1])
      end(k) == IF k = Len(starts) THEN Len(units) ELSE starts[k + 1] - 1
  IN [k \in DOMAIN starts |-> [i \in 1..(end(k) - starts[k] + 1) |-> starts[k] + i - 1]]

\* FormAnalysis refuses a unit that occurs twice.
Repeats(units) == \E i, j \in DOMAIN units : /\ i < j - 1 /\ units[i] = units[j]
                                             /\ \E m \in i..j : units[m] # units[i]

Phonetic(s) == SelectSeq([i \in DOMAIN s |-> i], LAMBDA i : s[i] \notin Boundaries)
Spoken(s) == [k \in DOMAIN Phonetic(s) |-> s[Phonetic(s)[k]]]
Offset(s, i) == Cardinality({j \in ToSet(Phonetic(s)) : j < i})

\* Where an old position is written now: a segment as the one of its rank, a
\* boundary where the same one stands after as many segments.
Stays(old, i, new) ==
  IF old[i] \notin Boundaries THEN {Phonetic(new)[Offset(old, i) + 1]}
  ELSE LET same == {j \in DOMAIN new : new[j] = old[i] /\ Offset(new, j) = Offset(old, i)}
       IN IF same = {} THEN {} ELSE {Min(same)}

\* The unit of each new position that is an old one, as a set.
Carried(w, new) ==
  [j \in 0..(Len(new) + 1) |->
     LET old == {i \in DOMAIN w.segments : j \in Stays(w.segments, i, new)}
     IN {p.unit : p \in {p \in ToSet(w.pieces) : old # {} /\ Max(old) \in ToSet(p.at)}}]

\* MUTANT of WithInserted: a boundary that is new stands by itself.
WithInsertedApart(id, kept) ==
  [j \in 1..(Cardinality(DOMAIN kept) - 2) |->
     CHOOSE u \in kept[j] \cup {<<"inserted", id, j>>} : kept[j] = {} \/ u \in kept[j]]

\* A new boundary joins the unit that has both its neighbours.
WithInserted(id, kept) ==
  [j \in 1..(Cardinality(DOMAIN kept) - 2) |->
     IF kept[j] # {} THEN CHOOSE u \in kept[j] : TRUE
     ELSE IF kept[j - 1] # {} /\ kept[j - 1] = kept[j + 1]
     THEN CHOOSE u \in kept[j - 1] : TRUE
     ELSE <<"inserted", id, j>>]

UnitsNow(w, new) == WithInserted(w.id, Carried(w, new))

\* An edit writes a word's segments anew, and may claim an analysis: units by
\* position, each with its cognate.
Edit(segments, claim) == [segments |-> segments, claim |-> claim]

\* Units are carried over before a claim replaces them, so that what could not be
\* carried over is refused with a claim too.
EditRefused(w, e) ==
  \/ Spoken(e.segments) # Spoken(w.segments)
  \/ Repeats(UnitsNow(w, e.segments))
  \/ /\ e.claim # <<>>
     /\ \/ FlattenSeq([k \in DOMAIN e.claim |-> e.claim[k].at]) # [i \in DOMAIN e.segments |-> i]
        \/ Cardinality({p.unit : p \in ToSet(e.claim)}) # Len(e.claim)

\* remap_analysis: the pieces are the runs of one unit.
Regrouped(w, units) ==
  LET piece(at, unit) ==
        IF HasUnit(w, unit) THEN [PieceOf(w, unit) EXCEPT !.at = at]
        ELSE Piece(unit, NoCognate, "boundary", at)
      cut(runs) == [k \in DOMAIN runs |-> piece(runs[k], units[runs[k][1]])]
  IN cut(Runs(units))

\* A claimed unit with no cognate is unknown.
ClaimedPieces(claim) ==
  [k \in DOMAIN claim |->
     Piece(claim[k].unit, claim[k].cognate,
           IF claim[k].cognate = NoCognate THEN "unknown" ELSE "cognate", claim[k].at)]

WrittenAs(w, segments, pieces) ==
  [w EXCEPT !.segments = segments, !.pieces = pieces, !.analysis = pieces]
Edited(w, e) ==
  WrittenAs(w, e.segments,
            IF e.claim = <<>> THEN Regrouped(w, UnitsNow(w, e.segments)) ELSE ClaimedPieces(e.claim))

\* _apply_overlay: each candidate the overlay edits, found by its identifier.
ApplyOverlay(words, edits) ==
  {IF w.id \in DOMAIN edits THEN Edited(w, edits[w.id]) ELSE w : w \in words}

-----------------------------------------------------------------------------
(* column_bindings, column_matches: a column is found again by its name.   *)

\* MUTANT of ColumnName: of what the forms say, not of where it was read.
ColumnNameOfForms(t, unit, i) ==
  <<[n \in DOMAIN t |-> <<t[n].child, t[n].segments>>], unit, i>>

ColumnName(t, unit, i) ==
  <<[n \in DOMAIN t |-> <<t[n].child, t[n].segments, t[n].pieces, t[n].from>>], unit, i>>

\* The survey reads the merged words, the assembler the candidates as they are.
NamesOf(t, columns) == {ColumnName(t, columns[i].unit, i) : i \in DOMAIN columns}
NamesIn(words) == UNION {NamesOf(t, AlignTuple(t, <<>>, {})) : t \in TuplesOf(words)}
Bound(words) == NamesIn(Canonical(words))

\* The claims that are looked at for a tuple: none if its columns have no name.
BoundInventory(I, words, t) ==
  IF NamesOf(t, AlignTuple(t, <<>>, {})) \subseteq Bound(words) THEN I ELSE [I EXCEPT !.commitments = {}]

-----------------------------------------------------------------------------
(* _assembled_analysis: the word a tuple is assembled to.                  *)

\* What is written where: a restoration before a column, then its segment.
\* restorations: a function from positions to [proto, unit].
Emitted(columns, outcomes, restorations) ==
  LET restored(i) ==
        IF i \notin DOMAIN restorations THEN <<>>
        ELSE <<[unit |-> IF restorations[i].unit = NoUnit THEN <<"restoration", i>>
                         ELSE restorations[i].unit, from |-> {}]>>
      shown(i) == {<<c, columns[i].sources[c]>> :
                     c \in {c \in 1..Children : columns[i].sources[c] # 0}}
      written(i) ==
        IF \E k \in DOMAIN outcomes : outcomes[k].at = i /\ outcomes[k].proto # Gap
        THEN <<[unit |-> columns[i].unit, from |-> shown(i)]>> ELSE <<>>
      last == Max(DOMAIN columns \cup DOMAIN restorations \cup {0})
  IN FlattenSeq([i \in 1..last |-> restored(i) \o written(i)])

UnitsWritten(emitted) == [k \in DOMAIN emitted |-> emitted[k].unit]

\* A unit that a child's word has keeps its kind and cognate: those of the last.
WrittenPiece(t, emitted, at) ==
  LET unit == emitted[at[1]].unit
      having == {n \in DOMAIN t : HasUnit(t[n], unit)}
      kind == IF unit[1] = "restoration" THEN "restoration" ELSE "whole"
  IN [piece |-> IF having = {} THEN Piece(unit, NoCognate, kind, at)
                ELSE [PieceOf(t[Max(having)], unit) EXCEPT !.at = at],
      from |-> UNION {emitted[i].from : i \in ToSet(at)}]

AssembledPieces(t, emitted) ==
  LET runs == Runs(UnitsWritten(emitted))
  IN [k \in DOMAIN runs |-> WrittenPiece(t, emitted, runs[k])]

-----------------------------------------------------------------------------
(* verify_positions: an index is good for one column, of one tuple.        *)

\* readings: the columns of each tuple of the concept.
PositionAccepted(readings, i, restoration) ==
  LET there == {t \in DOMAIN readings : i <= Len(readings[t])}
      append == \E t \in DOMAIN readings : i = Len(readings[t]) + 1
  IN /\ Cardinality(there) <= 1
     /\ ~(append /\ there # {})
     /\ there # {} \/ (append /\ restoration)

-----------------------------------------------------------------------------
(* Properties *)

\* Moving boundaries keeps every segment with the unit it had
\* (segment_morphemes.py: "A boundary-only edit does not silently split one
\* claimed unit"), and writing the word as it was gives it back.
KeepsUnits(w, now) ==
  LET of(x, k) == (CHOOSE p \in ToSet(x.pieces) : Phonetic(x.segments)[k] \in ToSet(p.at))
      same(p, q) == p.unit = q.unit /\ p.cognate = q.cognate
  IN /\ FlattenSeq([k \in DOMAIN now.pieces |-> now.pieces[k].at]) = AllOf(now)
     /\ \A k \in DOMAIN Phonetic(w.segments) : same(of(now, k), of(w, k))
     /\ ~Repeats([k \in DOMAIN now.pieces |-> now.pieces[k].unit])
     /\ now.segments = w.segments => now = w
EditKeepsUnits(w, e) ==
  (~EditRefused(w, e) /\ e.claim = <<>>) => \A now \in {Edited(w, e)} : KeepsUnits(w, now)

\* A boundary that stands alone can be put or taken away anywhere.
EditIsAccepted(w, e) ==
  (/\ Spoken(e.segments) = Spoken(w.segments) /\ e.claim = <<>>
   /\ \A j \in 2..Len(e.segments) : ~({e.segments[j - 1], e.segments[j]} \subseteq Boundaries))
    => ~EditRefused(w, e)

\* STATED BY segment_morphemes.py:39-40: an edit of nothing but boundaries can
\* always be made.
BoundaryEditAccepted(w, e) ==
  (Spoken(e.segments) = Spoken(w.segments) /\ e.claim = <<>>) => ~EditRefused(w, e)

Readable(words) == \A t \in TuplesOf(words) : ~Unreadable(t, <<>>, {})

\* What an inventory was checked against is what is assembled: every column of
\* every candidate has the name the survey gave it, if no edit made two
\* candidates one; and a name stands for one row of reflexes
\* (assembler.py:692: "bound evidence column changed reflexes").
NamedReflexes(t, columns) ==
  {<<ColumnName(t, columns[i].unit, i), columns[i].reflexes>> : i \in DOMAIN columns}
ColumnsBound(words) ==
  Readable(words) =>
    /\ (\A v, w \in words : Alike(v, w) => v = w) => NamesIn(words) = Bound(words)
    /\ \E named \in {UNION {NamedReflexes(t, AlignTuple(t, <<>>, {})) : t \in TuplesOf(words)}} :
         \A x, y \in named : x[1] = y[1] => x[2] = y[2]

\* STATED BY proto_assembly.py:119-121 ("the number a session reads before it
\* commits and the number the artifact records cannot disagree") and by
\* evidence_map ("Apply that same canonicalization before surveying"): always.
ColumnsAlwaysBound(words) == Readable(words) => NamesIn(words) = Bound(words)

\* The analysis of an assembled word covers its segments, has each unit once,
\* names for each segment only children's segments of that unit, and gives it
\* no cognate the children's words do not.
PieceIsSound(t, p) ==
  LET scoped == InOneScope(t)
      word(c) == scoped[CHOOSE n \in DOMAIN scoped : scoped[n].child = c]
      having == {w \in ToSet(t) : HasUnit(w, p.piece.unit)}
  IN /\ \A x \in p.from : /\ HasUnit(word(x[1]), p.piece.unit)
                           /\ x[2] \in ToSet(PieceOf(word(x[1]), p.piece.unit).at)
     /\ p.piece.cognate \in {NoCognate} \cup {PieceOf(w, p.piece.unit).cognate : w \in having}

WrittenSound(t, columns, outcomes) ==
  \E emitted \in {Emitted(columns, outcomes, <<>>)} :
    /\ Len(emitted) = Len(AssembleSegments(outcomes, <<>>))
    /\ ~Repeats(UnitsWritten(emitted))
    /\ \A p \in ToSet(AssembledPieces(t, emitted)) : PieceIsSound(t, p)

\* A restoration beside a segment of its own unit, or between units, leaves the
\* word assembled; a segment of none splits the unit it stands in.
RestorationSplits(columns, outcomes, i, r) ==
  Repeats(UnitsWritten(Emitted(columns, outcomes, i :> r)))

BesideItsUnit(columns, i, r) ==
  \/ \E j \in {i - 1, i} : j \in DOMAIN columns /\ columns[j].unit = r.unit
  \/ /\ \A j \in DOMAIN columns : columns[j].unit # r.unit
     /\ ~(\E j \in DOMAIN columns : j + 1 = i /\ i \in DOMAIN columns
                                    /\ columns[j].unit = columns[i].unit)

RestorationFits(columns, outcomes, r) ==
  \A i \in {i \in 1..(Len(columns) + 1) : BesideItsUnit(columns, i, r)} :
    ~RestorationSplits(columns, outcomes, i, r)

\* STATED BY inventory_evidence.py:628-631: a restoration that names no unit is
\* good where the concept has one unit.
RestorationAssembles(columns, outcomes, r) ==
  Cardinality(UnitsIn([columns |-> columns])) = 1 =>
    \A i \in 1..(Len(columns) + 1) : ~RestorationSplits(columns, outcomes, i, r)

\* STATED BY proto_assembly.py:380-384 ("column numbers do not select
\* provenance"): an index that is accepted for a restoration is beyond the end
\* of no tuple but one that ends there, so it is written nowhere else.
RestorationStaysPut(words) ==
  LET readings == [t \in TuplesOf(words) |-> AlignTuple(t, <<>>, {})]
  IN Readable(words) =>
       \A i \in 1..(Max({Len(readings[t]) : t \in DOMAIN readings}) + 1) :
         PositionAccepted(readings, i, TRUE)
           => \A t \in DOMAIN readings : i <= Len(readings[t]) + 1
=============================================================================
