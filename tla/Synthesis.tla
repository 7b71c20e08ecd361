------------------------------ MODULE Synthesis ------------------------------
(***************************************************************************)
(* A synthetic family and what a run on it is scored by.  Sound changes    *)
(* are run down a tree, from a proto-lexicon to the daughters; what undoes *)
(* a branch is written beside it, where something does; the daughters are  *)
(* then perturbed, and a record is kept of each perturbation.  The rules a *)
(* run commits are compared with the branches they are scoped to.  With    *)
(* it, the concepts a node holds out and what is measured on them.         *)
(*                                                                         *)
(* A family is a record of its parents, proto-lexicon, changes and         *)
(* declared inverses.  A rule is its parsed form, so two spellings of one  *)
(* change are one rule; the random choices of the noise are given; the     *)
(* order of the hashes is a function.  Glosses, confidences, rationales    *)
(* and the ingestion of the payload are left out.                          *)
(***************************************************************************)
EXTENDS Rules

CONSTANT NotDeclared   \* a branch whose inverse is left to the generator

Nodes(fam) == {fam.root} \cup DOMAIN fam.parent
Leaves(fam) == {n \in DOMAIN fam.parent : \A m \in DOMAIN fam.parent : fam.parent[m] # n}
Entry(f, n, default) == IF n \in DOMAIN f THEN f[n] ELSE default

-----------------------------------------------------------------------------
(* generate_family                                                         *)

\* The words of every node, each from its parent's.
NodeLexicons(fam) ==
  LET words[n \in Nodes(fam)] ==
        IF n = fam.root THEN fam.proto
        ELSE [k \in DOMAIN fam.proto |->
                ApplyRules(Entry(fam.rules, n, <<>>), words[fam.parent[n]][k])]
  IN words

Invert(r) == [r EXCEPT !.target = r.replacement, !.replacement = r.target]
Deletion(r) == r.replacement = <<>>

\* MUTANT of Undoing: the changes are undone in the order they were made.
UndoingInOrder(rules) ==
  IF \E i \in DOMAIN rules : Deletion(rules[i]) THEN NotDeclared
  ELSE [i \in DOMAIN rules |-> Invert(rules[i])]

\* A rule has something to match, so what was deleted is not put back.
Undoing(rules) ==
  IF \E i \in DOMAIN rules : Deletion(rules[i]) THEN NotDeclared
  ELSE [i \in DOMAIN rules |-> Invert(rules[Len(rules) + 1 - i])]

Recovered(rules, child, parent) ==
  {k \in DOMAIN child : ApplyRules(rules, child[k]) = parent[k]}

\* What the key says of the branch to a node.
KeyOf(rules, candidate, child, parent) ==
  LET kept == candidate # NotDeclared /\ Recovered(candidate, child, parent) = DOMAIN parent
  IN [rules |-> rules, inverse |-> IF kept THEN candidate ELSE <<>>,
      invertible |-> kept \/ rules = <<>>, innovated |-> rules # <<>>]
Answer(rules, declared, child, parent) ==
  KeyOf(rules, IF declared = NotDeclared /\ rules # <<>> THEN Undoing(rules) ELSE declared,
           child, parent)
AnswerKey(fam, lexicons) ==
  [n \in DOMAIN fam.parent |->
     Answer(Entry(fam.rules, n, <<>>), Entry(fam.declared, n, NotDeclared),
            lexicons[n], lexicons[fam.parent[n]])]

-----------------------------------------------------------------------------
(* _perturb.  observed: the words of the leaves; x: a perturbation drawn.   *)

Material(observed) ==
  (UNION {UNION {ToSet(observed[n][k]) : k \in DOMAIN observed[n]} : n \in DOMAIN observed})
    \ Boundaries

\* What can be drawn: another segment if there is one, another leaf or concept.
Drawable(observed, inventory, x) ==
  CASE x.kind = "irregular_form" ->
         /\ x.at \in DOMAIN observed[x.node][x.concept] /\ x.segment \in inventory
         /\ x.segment # observed[x.node][x.concept][x.at] \/ inventory = {x.segment}
    [] x.kind = "loan" -> x.donor # x.node
    [] x.kind = "semantic_mismatch" -> x.other # x.concept

Perturbed(observed, x) ==
  CASE x.kind = "irregular_form" -> [observed EXCEPT ![x.node][x.concept][x.at] = x.segment]
    [] x.kind = "loan" ->
         [observed EXCEPT ![x.node][x.concept] = observed[x.donor][x.concept]]
    [] x.kind = "semantic_mismatch" ->
         [observed EXCEPT ![x.node][x.concept] = observed[x.node][x.other],
                          ![x.node][x.other] = observed[x.node][x.concept]]

\* MUTANT of NoiseRecord: a loan is recorded of the leaf it comes from.
NoiseRecordOfDonor(x) ==
  [node |-> IF x.kind = "loan" THEN x.donor ELSE x.node, concept |-> x.concept,
   detail |-> IF x.kind = "semantic_mismatch" THEN {x.concept, x.other} ELSE {}]

\* The record has one concept; the other of a swap is in its detail.
NoiseRecord(x) ==
  [node |-> x.node, concept |-> x.concept,
   detail |-> IF x.kind = "semantic_mismatch" THEN {x.concept, x.other} ELSE {}]

-----------------------------------------------------------------------------
(* score_run.  A session: its node, whether it was completed, and the rules *)
(* it committed, each with the children it is scoped to.                    *)

\* Every completed session counts, in the order of the file.
CommittedFor(sessions, child) ==
  FlattenSeq([i \in DOMAIN sessions |->
    IF ~sessions[i].completed THEN <<>>
    ELSE LET mine == SelectSeq(sessions[i].rules, LAMBDA x : child \in x.scope)
         IN [j \in DOMAIN mine |-> mine[j].rule]])

SessionNodes(sessions, completed) ==
  {sessions[i].node : i \in {i \in DOMAIN sessions : sessions[i].completed = completed}}

MatchedRules(answer, committed) == SelectSeq(committed, LAMBDA r : r \in ToSet(answer.inverse))

\* MUTANT of MatchedTrue: as many as were committed.
MatchedTrueByCommit(answer, committed) == Len(MatchedRules(answer, committed))

\* A true rule counts once, however often it is committed or declared.
MatchedTrue(answer, committed) == Cardinality(ToSet(answer.inverse) \cap ToSet(committed))

BranchScore(answer, committed, child, parent) ==
  [committed |-> Len(committed), true |-> Len(answer.inverse),
   matched |-> Len(MatchedRules(answer, committed)), matchedTrue |-> MatchedTrue(answer, committed),
   recovered |-> Recovered(committed, child, parent),
   misdirected |-> committed # <<>> /\ ~answer.innovated]
RunScore(fam, lexicons, key, sessions) ==
  [n \in DOMAIN fam.parent |->
     BranchScore(key[n], CommittedFor(sessions, n), lexicons[n], lexicons[fam.parent[n]])]

-----------------------------------------------------------------------------
(* split_concepts, held_out_evaluation.  digest: the order of the concepts  *)
(* by the node's hash; share: in tenths; forms: a child's forms, each of a  *)
(* concept; cascade: a child's rules.                                       *)

\* A half is rounded to the even number.
Rounded(tenths) ==
  (tenths \div 10) + (IF tenths % 10 > 5 \/ (tenths % 10 = 5 /\ (tenths \div 10) % 2 = 1)
                      THEN 1 ELSE 0)

\* MUTANT of HeldCount: nothing is kept back.
HeldCountRounded(n, share) == Rounded(n * share)

HeldCount(n, share) == Min({Rounded(n * share), Max({n - 1, 0})})

HeldOut(concepts, digest, share) ==
  {k \in concepts : Cardinality({l \in concepts : digest[l] > digest[k]})
                      < HeldCount(Cardinality(concepts), share)}

\* What the children's rules make of some concepts, as sets of words by child.
OutputsOf(forms, cascade, concepts) ==
  LET of(c, k) == {j \in DOMAIN forms[c] : forms[c][j].concept = k}
  IN [k \in {k \in concepts : \E c \in DOMAIN forms : of(c, k) # {}} |->
        {{ApplyRules(cascade[c], forms[c][j].word) : j \in of(c, k)} :
           c \in {c \in DOMAIN forms : of(c, k) # {}}}]

\* A result for each rule and each form of those concepts.
RuleResults(forms, cascade, concepts) ==
  UNION {UNION {{[child |-> c, form |-> j, rule |-> i,
                  given |-> Given(cascade[c], i, forms[c][j].word)] :
                   i \in DOMAIN cascade[c]} :
                 j \in {j \in DOMAIN forms[c] : forms[c][j].concept \in concepts}} :
          c \in DOMAIN forms}

Evaluated(outputs, results, cascade) ==
  LET with(status) == {x \in results : Status(cascade[x.child][x.rule], x.given, {}) = status}
  IN [concepts |-> Cardinality(DOMAIN outputs),
      converged |-> Cardinality({k \in DOMAIN outputs : Converged(outputs[k])}),
      forms |-> Cardinality(results),
      applications |-> Cardinality(
        {x \in results : Locations(cascade[x.child][x.rule], x.given) # {}}),
      absent |-> Cardinality(with("target absent")),
      mismatches |-> Cardinality(with("context mismatch"))]
HeldOutEvaluation(forms, cascade, concepts) ==
  Evaluated(OutputsOf(forms, cascade, concepts), RuleResults(forms, cascade, concepts), cascade)

-----------------------------------------------------------------------------
(* Properties *)

\* A branch said to be invertible has made no two words one, a branch with no
\* changes has words as its parent's, and a branch is said to be invertible if
\* each of its changes can be undone by itself: a chain shift is undone from its
\* end (test_synthetic_benchmark.py:194).
UndoneOneByOne(rules, parent) ==
  \A i \in DOMAIN rules : \A k \in DOMAIN parent :
    /\ ~Deletion(rules[i])
    /\ Output(Invert(rules[i]), Given(rules, i + 1, parent[k])) = Given(rules, i, parent[k])
BranchIsSound(answer, declared, child, parent) ==
  /\ answer.invertible =>
       \A k, l \in DOMAIN child : child[k] = child[l] => parent[k] = parent[l]
  /\ ~answer.innovated => child = parent /\ answer.inverse = <<>>
  /\ (declared = NotDeclared /\ UndoneOneByOne(answer.rules, parent)) => answer.invertible
KeyIsSound(fam, lexicons, key) ==
  \A n \in DOMAIN fam.parent :
    BranchIsSound(key[n], Entry(fam.declared, n, NotDeclared), lexicons[n],
                  lexicons[fam.parent[n]])

\* "The true cascade scores perfectly" (test_synthetic_benchmark.py:283): a run
\* that commits what the key says, after attempts that failed, matches every
\* rule, is misdirected nowhere, and recovers every branch that can be undone.
\* A key that writes one rule twice on a branch is excepted.
TrueCascadeScores(fam, key, score) ==
  \A n \in DOMAIN fam.parent :
    /\ score[n].matched = score[n].committed /\ ~score[n].misdirected
    /\ IsInjective(key[n].inverse) => score[n].matchedTrue = score[n].true
    /\ key[n].invertible => score[n].recovered = DOMAIN fam.proto

\* STATED BY test_synthetic_benchmark.py:283 for every key.
TrueCascadeScoresAlways(fam, key, score) ==
  \A n \in DOMAIN fam.parent : score[n].matchedTrue = score[n].true

\* Whatever is committed, no more is matched than there is, and a rule is called
\* misdirected only on a branch whose words did not change.
ScoreIsBounded(fam, lexicons, score) ==
  \A n \in DOMAIN fam.parent :
    /\ score[n].matched <= score[n].committed /\ score[n].matchedTrue <= score[n].true
    /\ score[n].misdirected => lexicons[n] = lexicons[fam.parent[n]]

\* STATED BY schemas/synthetic.py:138: "False for any branch containing a
\* deletion".
DeletionNeverInvertible(fam, key) ==
  \A n \in DOMAIN fam.parent :
    (\E i \in DOMAIN key[n].rules : Deletion(key[n].rules[i])) => ~key[n].invertible

\* noise_records "names every leaf form that therefore differs"
\* (schemas/synthetic.py:177-178), the second of two swapped ones in its detail.
NoiseIsRecorded(lexicons, observed, records) ==
  \A n \in DOMAIN observed : \A k \in DOMAIN observed[n] :
    observed[n][k] # lexicons[n][k] =>
      \E r \in records : r.node = n /\ k \in {r.concept} \cup r.detail

\* STATED BY schemas/synthetic.py:177-178: by its concept_id.
NoiseIsNamed(lexicons, observed, records) ==
  \A n \in DOMAIN observed : \A k \in DOMAIN observed[n] :
    observed[n][k] # lexicons[n][k] => \E r \in records : r.node = n /\ r.concept = k

\* At the default share or more, something is held out of every node with two
\* concepts; never is all of it.  What is reported of the held-out concepts and
\* of the rest is together what is reported of the node; and an application is a
\* form that changed.
SplitIsFair(concepts, digest, share) ==
  /\ concepts # {} => HeldOut(concepts, digest, share) # concepts
  /\ (share >= 3 /\ Cardinality(concepts) > 1) => HeldOut(concepts, digest, share) # {}
PartsAddUp(forms, cascade, held, whole, part, rest) ==
  /\ \A f \in DOMAIN whole : whole[f] = part[f] + rest[f]
  /\ part.applications =
       Cardinality({x \in RuleResults(forms, cascade, held) :
                      Output(cascade[x.child][x.rule], x.given) # x.given})
HeldOutAddsUp(forms, cascade, concepts, held) ==
  PartsAddUp(forms, cascade, held,
             HeldOutEvaluation(forms, cascade, concepts),
             HeldOutEvaluation(forms, cascade, held),
             HeldOutEvaluation(forms, cascade, concepts \ held))
=============================================================================
