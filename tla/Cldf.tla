-------------------------------- MODULE Cldf --------------------------------
(***************************************************************************)
(* Loading a CLDF wordlist: which rows become forms, with which segments,  *)
(* concept and judgements of cognacy.                                      *)
(*                                                                         *)
(* A source is a record: which columns its tables have, the unit its       *)
(* slices count in, its languages, its parameters, and the rows of its     *)
(* form and cognate tables, in order.  A token is the sequence of its      *)
(* parts between slashes.  Identifiers are scoped to the one dataset, so   *)
(* they are kept bare.  Refused stands for every error the loader raises.  *)
(***************************************************************************)
EXTENDS Integers, Sequences, FiniteSets, SequencesExt

CONSTANTS
  Boundary,  \* the tokens "+" and "-"
  Empty,     \* an empty cell, and the empty side of a slash
  Refused

\* _phoneme_side: the phoneme of a grapheme/phoneme pair.
PhonemeSide(token) ==
  IF Len(token) = 1 THEN token[1]
  ELSE IF Len(token) = 2 /\ token[2] # Empty THEN token[2] ELSE Refused

\* Segments, or Phonemic_Segments where a row has none of the first.
SourceSegments(source, row) ==
  IF source.columns.segments /\ row.segments # <<>> THEN row.segments
  ELSE IF source.columns.phonemic THEN row.phonemic ELSE <<>>

\* MUTANT of MorphemeGroups: every boundary starts a group, an empty one too.
GroupsOfEveryBoundary(segments) ==
  FoldLeft(LAMBDA groups, i : IF segments[i] \in Boundary THEN Append(groups, <<>>)
                              ELSE [groups EXCEPT ![Len(groups)] = Append(@, i)],
           << <<>> >>, [i \in DOMAIN segments |-> i])

\* _morpheme_groups: the positions of each morpheme, boundaries left out.
MorphemeGroups(segments) ==
  LET add(groups, i) ==
        IF segments[i] \notin Boundary
        THEN [groups EXCEPT ![Len(groups)] = Append(@, i)]
        ELSE IF groups[Len(groups)] # <<>> THEN Append(groups, <<>>) ELSE groups
      folded == FoldLeft(add, << <<>> >>, [i \in DOMAIN segments |-> i])
  IN SelectSeq(folded, LAMBDA group : group # <<>>)

\* _segment_indices: the positions that one-based, inclusive slices of
\* segments or of morphemes name.  A slice is <<start>> or <<start, stop>>;
\* any other shape is malformed.
SegmentIndices(slices, segments, unit) ==
  LET units == IF unit = "segment" THEN [i \in DOMAIN segments |-> <<i>>]
               ELSE MorphemeGroups(segments)
      stop(slice) == slice[Len(slice)]
      named == FlattenSeq([k \in DOMAIN slices |->
                 FlattenSeq(SubSeq(units, slices[k][1], stop(slices[k])))])
  IN IF \E slice \in Range(slices) :
          \/ Len(slice) \notin 1..2
          \/ slice[1] < 1 \/ stop(slice) < slice[1] \/ stop(slice) > Len(units)
     THEN Refused
     ELSE IF IsInjective(named) THEN named ELSE Refused

(***************************************************************************)
(* The judgements on one form.                                             *)
(***************************************************************************)
\* _partial_cognacy_rows: one judgement for each morpheme, in their order.
PartialRows(row, segments) ==
  IF row.partial = <<>> THEN <<>>
  ELSE IF Len(row.partial) # Len(MorphemeGroups(segments)) THEN Refused
  ELSE [i \in DOMAIN row.partial |->
          [id |-> <<"partial", row.id, i>>, set |-> row.partial[i], slice |-> << <<i>> >>]]

\* The rows of the cognate table that name a form and a set.
TableRows(source, row) ==
  LET rows == SelectSeq([i \in DOMAIN source.cognates |-> i],
                LAMBDA i : /\ source.cognates[i].form = row.id
                           /\ source.cognates[i].set # Empty)
      rowId(i) == IF source.cognates[i].id = Empty THEN <<"row", i>>
                  ELSE <<"table", source.cognates[i].id>>
  IN IF ~source.columns.table THEN <<>>
     ELSE [k \in DOMAIN rows |-> [id |-> rowId(rows[k]),
                                  set |-> source.cognates[rows[k]].set,
                                  slice |-> source.cognates[rows[k]].slice]]

InlineRows(source, row) ==
  IF ~source.columns.inline THEN <<>>
  ELSE [i \in DOMAIN row.inline |->
          [id |-> <<"inline", row.id, i>>, set |-> row.inline[i], slice |-> <<>>]]

\* Partial_Cognacy is read where neither of the other two is published.
ReadsPartial(source) ==
  source.columns.partial /\ ~source.columns.inline /\ ~source.columns.table

JudgementRows(source, row, segments) ==
  LET partial == IF ReadsPartial(source) THEN PartialRows(row, segments) ELSE <<>>
  IN IF partial = Refused THEN Refused
     ELSE TableRows(source, row) \o InlineRows(source, row) \o partial

\* Several sets for a whole form are alternative analyses of it.
Memberships(source, rows, segments) ==
  LET wholes == {judged.set : judged \in {r \in Range(rows) : r.slice = <<>>}}
  IN [k \in DOMAIN rows |->
        [id |-> rows[k].id, set |-> rows[k].set,
         scope |-> IF rows[k].slice = <<>> THEN "whole_form" ELSE "segment_slice",
         interpretation |-> IF rows[k].slice # <<>> THEN "partial_cognate"
                            ELSE IF Cardinality(wholes) > 1 THEN "alternative_analysis"
                            ELSE "asserted",
         indices |-> IF rows[k].slice = <<>> THEN <<>>
                     ELSE SegmentIndices(rows[k].slice, segments, source.unit)]]

\* cognate_set_id: the one set asserted of the whole form.
Shorthand(memberships) ==
  LET sets == {m.set : m \in Range(memberships)}
  IN IF Cardinality(sets) = 1
        /\ \A m \in Range(memberships) : m.interpretation = "asserted"
     THEN CHOOSE set \in sets : TRUE ELSE Empty

\* LexicalForm.validate_boundaries and CognateMembership.validate_scope, as
\* far as the loader could build what they refuse.
FormAccepted(segments, memberships) ==
  /\ \A m \in Range(memberships) :
       m.scope = "segment_slice" =>
         /\ m.indices # Refused
         /\ \E i \in Range(m.indices) : segments[i] \notin Boundary
  /\ IsInjective([k \in DOMAIN memberships |-> memberships[k].id])

(***************************************************************************)
(* load_cldf_dataset.                                                      *)
(***************************************************************************)
\* A parameter's concept is its Concepticon entry, or else itself.
ConceptOf(source, parameter) ==
  LET known == {p \in source.parameters : p.id = parameter}
  IN IF \E p \in known : p.concepticon # Empty
     THEN (CHOOSE p \in known : TRUE).concepticon ELSE parameter

\* The form of one row: a set of none or one, or Refused.
LoadForm(source, row) ==
  LET tokens == SourceSegments(source, row)
      segments == [i \in DOMAIN tokens |-> PhonemeSide(tokens[i])]
      rows == JudgementRows(source, row, segments)
      memberships == Memberships(source, rows, segments)
  IN IF row.language \notin {l.id : l \in source.languages} \/ row.id = Empty
        \/ row.parameter = Empty \/ tokens = <<>>
     THEN {}
     ELSE IF Refused \in Range(segments) \/ rows = Refused THEN Refused
     ELSE IF rows = <<>> THEN {}
     ELSE IF ~FormAccepted(segments, memberships) THEN Refused
     ELSE { [id |-> row.id, variety |-> row.language,
              concept |-> ConceptOf(source, row.parameter),
              segments |-> segments, set |-> Shorthand(memberships),
              memberships |-> memberships] }

\* LanguageLexicon.validate_form_ownership: a form is one variety's once.
FormsDistinct(loaded) ==
  \A i, j \in DOMAIN loaded : \A p \in loaded[i], q \in loaded[j] :
    p.id = q.id /\ p.variety = q.variety => i = j

\* The lexicons are those of the varieties with forms; the concepts, the
\* parameters whose concept some form has.
Gathered(source, loaded) ==
  LET forms == UNION Range(loaded)
      of(variety) == {form \in forms : form.variety = variety}
  IN IF Refused \in Range(loaded) THEN Refused
     ELSE IF forms = {} \/ ~FormsDistinct(loaded) THEN Refused
     ELSE [lexicons |-> {[variety |-> v, forms |-> of(v)] :
                           v \in {form.variety : form \in forms}},
           concepts |-> {[parameter |-> p.id, concept |-> ConceptOf(source, p.id)] :
                           p \in {q \in source.parameters :
                                    ConceptOf(source, q.id) \in
                                      {form.concept : form \in forms}}}]

Load(source) ==
  IF \/ ~source.columns.inline /\ ~source.columns.table /\ ~source.columns.partial
     \/ ~source.columns.segments /\ ~source.columns.phonemic
  THEN Refused
  ELSE Gathered(source, [i \in DOMAIN source.forms |-> LoadForm(source, source.forms[i])])

\* LexicalForm.segments_for_membership, boundaries left out.
SegmentsFor(form, membership) ==
  LET positions == IF membership.scope = "segment_slice" THEN membership.indices
                   ELSE [i \in DOMAIN form.segments |-> i]
  IN SelectSeq([k \in DOMAIN positions |-> form.segments[positions[k]]],
               LAMBDA segment : segment \notin Boundary)

\* LexicalForm.cognate_set_ids.
CognateSets(form) == {m.set : m \in Range(form.memberships)}
=============================================================================
