-------------------------------- MODULE Rules --------------------------------
(***************************************************************************)
(* Sound rules: what one does to a word, what an ordered cascade of them   *)
(* does to a child's words, and which distinctions it gives up.            *)
(*                                                                         *)
(* A word is a sequence of segments, numbered in their code-point order.   *)
(* A rule is the parsed form of "target > replacement / left _ right" with *)
(* "#" at either end of the environment.                                   *)
(***************************************************************************)
EXTENDS Integers, Sequences, FiniteSets, Folds, SequencesExt

CONSTANT Boundaries   \* the morpheme boundaries among the segments

\* A rule the parser and the schema accept: it has something to match, it
\* changes it, and it neither rewrites nor inserts a boundary.
WellFormed(r) ==
  /\ r.target # <<>> /\ r.target # r.replacement
  /\ Boundaries \cap (ToSet(r.target) \cup ToSet(r.replacement)) = {}

-----------------------------------------------------------------------------
\* The segments of s from i for as long as t.
Span(s, i, t) == SubSeq(s, i, i + Len(t) - 1)

\* t stands in s at i.
StandsAt(s, t, i) == i >= 1 /\ i + Len(t) - 1 <= Len(s) /\ Span(s, i, t) = t

Occurrences(s, t) == {i \in 1..Len(s) : StandsAt(s, t, i)}

\* The environment holds around an occurrence: it is read on the word as it
\* was, never on what the rule has already rewritten.
ContextMatches(r, s, i) ==
  LET end == i + Len(r.target)
  IN  /\ r.initial => i = 1
      /\ r.final => end = Len(s) + 1
      /\ StandsAt(s, r.left, i - Len(r.left))
      /\ StandsAt(s, r.right, end)

Matching(r, s) == {i \in Occurrences(s, r.target) : ContextMatches(r, s, i)}

\* The matches that are rewritten: from the left, each that starts after the
\* last one rewritten has ended.
Selected(r, s) ==
  LET matching == Matching(r, s)
      take(S, i) == IF i \in matching /\ \A j \in S : i >= j + Len(r.target)
                    THEN S \cup {i} ELSE S
  IN  FoldLeft(take, {}, [i \in 1..Len(s) |-> i])

\* MUTANT of Replace: an overlapping match is rewritten too.
ReplaceEveryMatch(r, s) ==
  LET from[i \in 1..Len(s) + Len(r.target) + 1] ==
        IF i > Len(s) THEN <<>>
        ELSE IF i \in Matching(r, s) THEN r.replacement \o from[i + 1]
        ELSE IF \E j \in Matching(r, s) : i \in j..(j + Len(r.target) - 1)
        THEN from[i + 1]
        ELSE <<s[i]>> \o from[i + 1]
  IN  from[1]

Replace(r, s) ==
  LET selected == Selected(r, s)
      from[i \in 1..Len(s) + Len(r.target) + 1] ==
        IF i > Len(s) THEN <<>>
        ELSE IF i \in selected
        THEN r.replacement \o from[i + Len(r.target)]
        ELSE <<s[i]>> \o from[i + 1]
  IN  from[1]

\* A rule may delete material, never a word: then it leaves the word alone.
WouldEmpty(r, s) == Matching(r, s) # {} /\ Replace(r, s) = <<>>

\* The places the report says the rule applied at.
Locations(r, s) == IF WouldEmpty(r, s) THEN {} ELSE Matching(r, s)

Output(r, s) == IF WouldEmpty(r, s) THEN s ELSE Replace(r, s)

\* What the report says of one word, given the anchors' forms for it.
Status(r, s, anchors) ==
  CASE Occurrences(s, r.target) = {} -> "target absent"
    [] Occurrences(s, r.target) # {} /\ WouldEmpty(r, s) -> "would empty form"
    [] Occurrences(s, r.target) # {} /\ Matching(r, s) = {} -> "context mismatch"
    [] Locations(r, s) # {} /\ anchors # {} /\ Output(r, s) \notin anchors ->
         "anchor mismatch"
    [] OTHER -> "applied"

\* The words a rule was applicable to and did not apply cleanly to.
Exceptions(r, words, anchors) ==
  {s \in words : Status(r, s, anchors) \notin {"applied", "target absent"}}

\* An ordered cascade, each rule reading what the last one left.
ApplyRules(rules, s) == FoldLeft(LAMBDA w, r : Output(r, w), s, rules)

\* The word the i-th rule of a cascade is given.
Given(rules, i, s) == ApplyRules(SubSeq(rules, 1, i - 1), s)

\* The rules of the cascade that fired on the word.
Fired(rules, s) ==
  {i \in DOMAIN rules : Locations(rules[i], Given(rules, i, s)) # {}}

-----------------------------------------------------------------------------
(* Which distinctions a rule removes from the words it is given.            *)

\* The positions of s inside a reported match.
Covered(r, s) ==
  UNION {i..(i + Len(r.target) - 1) : i \in Locations(r, s)}

\* The mapping of sequences the rule induces on the words: a match becomes the
\* replacement, a segment outside the matches itself.
Images(r, words) ==
  (UNION {{<<<<s[i]>>, <<s[i]>>>> : i \in DOMAIN s \ Covered(r, s)} : s \in words})
  \cup (IF \E s \in words : Locations(r, s) # {}
        THEN {<<r.target, r.replacement>>} ELSE {})

\* MUTANT of Merges: only words the rule changes are looked at.
MergesOfChanged(r, words) ==
  LET changed == {s \in words : Locations(r, s) # {}}
  IN  \E p, q \in Images(r, changed) : p[2] = q[2] /\ p[2] # <<>> /\ p[1] # q[1]

Merges(r, words) ==
  \E p, q \in Images(r, words) : p[2] = q[2] /\ p[2] # <<>> /\ p[1] # q[1]

Deletes(r, words) ==
  r.replacement = <<>> /\ \E s \in words : Locations(r, s) # {}

\* The rule is reported as removing a distinction the words make.
Reduces(r, words) ==
  /\ \E s \in words : Locations(r, s) # {}
  /\ Merges(r, words) \/ Deletes(r, words)

\* The rules of a cascade reported for a child, each judged on the words the
\* earlier ones leave it.
CascadeReductions(rules, words) ==
  {i \in DOMAIN rules : Reduces(rules[i], {Given(rules, i, s) : s \in words})}

\* The available nodes that still attest the material a rule discards.
Attesting(r, lexica) ==
  {n \in DOMAIN lexica : \E s \in lexica[n] : Occurrences(s, r.target) # {}}

-----------------------------------------------------------------------------
\* The children agree on a concept: all their words became one.
Converged(outputs) == Cardinality(UNION outputs) = 1

\* No target that overlaps itself: no suffix of it is a prefix of it.
Borderless(t) ==
  \A n \in 1..(Len(t) - 1) : SubSeq(t, 1, n) # SubSeq(t, Len(t) - n + 1, Len(t))

-----------------------------------------------------------------------------
\* A rewritten word is the word with disjoint matches replaced, and a match
\* left alone overlaps one that was replaced before it (rules/engine.py,
\* _replace): context is never read from rewritten material, no word is ever
\* emptied, and a word is changed only where the report says so.
RewriteIsLeftmost(r, s) ==
  LET n == Len(r.target)
      cut(S) == {i \in 1..Len(s) : \A j \in S : i \notin j..(j + n - 1)}
  IN  /\ s # <<>> => Output(r, s) # <<>>
      /\ Locations(r, s) = {} => Output(r, s) = s
      /\ Locations(r, s) # {} =>
           \E S \in SUBSET Locations(r, s) :
             /\ \A i, j \in S : i # j => i >= j + n \/ j >= i + n
             /\ \A i \in Locations(r, s) \ S : \E j \in S : j < i /\ i < j + n
             /\ Len(Output(r, s)) =
                  Cardinality(cut(S)) + Len(r.replacement) * Cardinality(S)
             /\ \A i \in cut(S) \cup S :
                  LET at == 1 + Cardinality({k \in cut(S) : k < i})
                              + Len(r.replacement) * Cardinality({j \in S : j < i})
                  IN  IF i \in S
                      THEN Span(Output(r, s), at, r.replacement) = r.replacement
                      ELSE Output(r, s)[at] = s[i]

\* A rule that turns two words of a child into one is reported as removing a
\* distinction (rules/contrast.py: "Both are exact and cheap"); replacements of
\* more than one segment are excepted there.
MergerReported(r, words) ==
  /\ Len(r.replacement) <= 1
  /\ \E s, t \in words : s # t /\ Output(r, s) = Output(r, t)
  => Reduces(r, words)
=============================================================================
