---------------------------- MODULE Environments ----------------------------
(***************************************************************************)
(* What a column of an alignment reads as, and whether it stands in an     *)
(* environment.  The correspondence report, the complementarity check and  *)
(* the assembler all read columns through these definitions.               *)
(*                                                                         *)
(* An alignment is a sequence of rows of one width, a row a sequence of    *)
(* segments and gaps.  The reading of a column is the set of its segments, *)
(* empty when it contributes nothing, or Undecided.  An environment asks   *)
(* for the segments before and after a column, and for a word edge.        *)
(***************************************************************************)
EXTENDS Naturals, Sequences, SequencesExt

CONSTANTS
  Segment,    \* the segments, none of them a word edge
  Gap,        \* a row has nothing in this column
  Undecided,  \* nobody has decided this column yet
  Edge        \* "#"

ASSUME EnvironmentAssumption ==
  /\ Gap \notin Segment /\ Edge \notin Segment
  /\ \A S \in SUBSET Segment : Undecided # S

Environment == [left : Seq(Segment), right : Seq(Segment),
                initial : BOOLEAN, final : BOOLEAN]

Width(rows) == IF rows = <<>> THEN 0 ELSE Len(rows[1])

Reflexes(rows, i) == [n \in DOMAIN rows |-> rows[n][i]]

\* observed_column_tokens, observed_readings: what the rows show.
Observed(rows, i) == {rows[n][i] : n \in DOMAIN rows} \ {Gap}
ObservedReadings(rows) == [i \in 1..Width(rows) |-> Observed(rows, i)]

\* readings_from: what has been decided, and what is shown where nothing was.
ReadingsFrom(rows, decided) ==
  [i \in 1..Width(rows) |->
     IF i \in DOMAIN decided THEN decided[i] ELSE Observed(rows, i)]

\* _neighbours: the readings met on the way out of column i, nearest first,
\* empty ones skipped, up to the first undecided one; and whether the walk
\* came to the edge.
Neighbours(readings, i, forward) ==
  LET outward == IF forward THEN SubSeq(readings, i + 1, Len(readings))
                 ELSE Reverse(SubSeq(readings, 1, i - 1))
      open == {k \in DOMAIN outward : outward[k] = Undecided}
      reach == IF open = {} THEN Len(outward)
               ELSE (CHOOSE k \in open : \A l \in open : k <= l) - 1
  IN [passed |-> SelectSeq(SubSeq(outward, 1, reach), LAMBDA r : r # {}),
      complete |-> open = {}]

\* Does a walk meet these tokens, nearest first?
TokensMatch(tokens, walk) ==
  LET met == {k \in DOMAIN tokens : k <= Len(walk.passed)}
  IN IF \E k \in met : tokens[k] \notin walk.passed[k] THEN "no"
     ELSE IF Len(tokens) <= Len(walk.passed) THEN "yes"
     ELSE IF walk.complete THEN "no" ELSE "undecided"

\* Is there nothing more on a walk?
EdgeMatch(asked, walk) ==
  IF ~asked THEN "yes"
  ELSE IF walk.passed # <<>> THEN "no"
  ELSE IF walk.complete THEN "yes" ELSE "undecided"

\* environment_matches: "yes", "no", or "undecided" when the answer hangs on
\* a column nobody has decided.  The first part to fail decides, so a token
\* that is out of reach on the left hides a mismatch on the right.
EnvironmentMatches(env, readings, i) ==
  LET before == Neighbours(readings, i, FALSE)
      after == Neighbours(readings, i, TRUE)
      edges == {EdgeMatch(env.initial, before), EdgeMatch(env.final, after)}
      left == TokensMatch(Reverse(env.left), before)
      right == TokensMatch(env.right, after)
  IN IF "no" \in edges THEN "no"
     ELSE IF left # "yes" THEN left
     ELSE IF right # "yes" THEN right
     ELSE IF "undecided" \in edges THEN "undecided" ELSE "yes"

\* MUTANT of NextTo: the column that is adjacent, whatever it reads as.
NextToAdjacent(readings, i, forward) ==
  LET j == IF forward THEN i + 1 ELSE i - 1
  IN IF j \in DOMAIN readings THEN readings[j] ELSE {Edge}

\* context_tokens: the tokens next to a column on each side, or the edge.
NextTo(readings, i, forward) ==
  LET walk == Neighbours(readings, i, forward)
  IN IF walk.passed # <<>> THEN walk.passed[1]
     ELSE IF walk.complete THEN {Edge} ELSE {}

ContextTokens(readings, i) ==
  [left |-> NextTo(readings, i, FALSE), right |-> NextTo(readings, i, TRUE)]

\* The environment that asks for one reported context token on one side.
Asking(token, forward) ==
  [left |-> IF forward \/ token = Edge THEN <<>> ELSE <<token>>,
   right |-> IF forward /\ token # Edge THEN <<token>> ELSE <<>>,
   initial |-> ~forward /\ token = Edge,
   final |-> forward /\ token = Edge]
=============================================================================
