--------------------------- MODULE CommitProtocol ---------------------------
(***************************************************************************)
(* One node's context: overlays, validations, previews, and the commit.    *)
(*                                                                         *)
(* A session re-segments forms and re-lays alignments in overlays, which   *)
(* are named by their content and build on one another; tests sound laws   *)
(* and previews ordered cascades of them; previews inventories of          *)
(* correspondence sets, each under a handle; and commits one hypothesis,   *)
(* which must be bound to what this session validated on the very overlays *)
(* it is committed on.  Validations are kept in dictionaries keyed by the  *)
(* tool call's ID, which the provider chooses.                             *)
(*                                                                         *)
(* Abstracted: a child has one form, so children stand for forms, and for  *)
(* concepts; a form has a few segmentations, a unit a few layouts, and a   *)
(* set's support is the number of units that show it; the claims of an     *)
(* inventory are one value; digests and revisions are what they are        *)
(* digests of.  A refused call changes nothing and is left out as a        *)
(* stuttering step, except that of `realign`.  Missing explanations are    *)
(* kept for inventories only, whose preview reports them; unit orders and  *)
(* anomalies are left out; every pair of overlays is taken to align.       *)
(***************************************************************************)
EXTENDS Naturals, Sequences, FiniteSets, Functions

CONSTANTS
  Children, ChildOrder,  \* the node's children, and child_ids
  Segmentations,         \* ways to edit a form's boundaries
  Laws, Rules,           \* sound laws; and the rules a provider may propose,
                         \* each a law and a scope, a sequence of children
  Changes(_, _, _, _),   \* does a law change a child's form so segmented, after
                         \* the earlier laws of a cascade?
  Units, Layouts,        \* alignment units, and ways to re-lay one
  Sets, Shows(_, _, _),  \* does a unit so laid out show a correspondence set?
  Claims,                \* inventories: the claims made of sets
  Explained,             \* those with every explanation a commit requires
  Identity,              \* the one that makes no claim
  CallIds,               \* IDs of tool calls
  FreshCalls,            \* does the provider never use one twice?
  MaxRules,              \* bound: rules of a cascade or commit
  MaxCalls,              \* bound: accepted calls before the commit
  None

Scopes == {s \in UNION {[1..n -> Children] : n \in 1..Cardinality(Children)} :
             \A i, j \in DOMAIN s : s[i] = s[j] => i = j}

RuleSeqs == UNION {[1..n -> Rules] : n \in 1..MaxRules}

ASSUME ContextAssumption ==
  /\ IsFiniteSet(Children) /\ ChildOrder \in Scopes
  /\ Range(ChildOrder) = Children
  /\ Rules \subseteq [law : Laws, scope : Scopes]
  /\ IsFiniteSet(Units)
  /\ None \notin Segmentations \cup Layouts \cup CallIds
  /\ Identity \in Explained /\ Explained \subseteq Claims
  /\ FreshCalls \in BOOLEAN /\ MaxRules \in Nat \ {0} /\ MaxCalls \in Nat

VARIABLES
  segs,       \* context.overlays
  alns,       \* context.alignment_overlays
  laws,       \* context.validations, in the order of a dictionary
  cascades,   \* context.cascade_validations, likewise
  previews,   \* context.assembly_validations, likewise
  handles,    \* context.inventory_hypotheses
  commit,     \* context.commit
  \* the provider
  used,       \* call IDs it has given
  \* bound
  calls,
  \* ghosts
  reused,     \* has it given one twice?
  inspected,  \* hypotheses that were assembled in this session
  applied,    \* [rule, seg, forms] of every application of a rule
  ordered,    \* [rules, seg] of every cascade previewed
  discarded   \* accepted overlays that a refused call removed

vars == <<segs, alns, laws, cascades, previews, handles, commit, used, calls,
          reused, inspected, applied, ordered, discarded>>

\* An overlay is its edits; the empty one stands for None, "no overlay".
NoOverlay == [x \in {} |-> None]
KnownSegs == segs \cup {NoOverlay}
KnownAlns == alns \cup {NoOverlay}

\* store_overlay and store_alignment_overlay: cumulative over the base.
Extended(base, edits) ==
  [x \in DOMAIN base \cup DOMAIN edits |->
     IF x \in DOMAIN edits THEN edits[x] ELSE base[x]]

At(overlay, x) == IF x \in DOMAIN overlay THEN overlay[x] ELSE None

\* d[k] = v in a Python dictionary: a key keeps its first position.
Stored(d, v) ==
  IF \E i \in DOMAIN d : d[i].call = v.call
    THEN [i \in DOMAIN d |-> IF d[i].call = v.call THEN v ELSE d[i]]
    ELSE Append(d, v)

Init ==
  /\ segs = {} /\ alns = {}
  /\ laws = << >> /\ cascades = << >> /\ previews = << >>
  /\ handles = NoOverlay /\ commit = None
  /\ used = {} /\ calls = 0
  /\ reused = FALSE /\ inspected = {} /\ applied = {} /\ ordered = {}
  /\ discarded = {}

\* run() returns at the commit, so no call follows it.
Call == commit = None /\ calls < MaxCalls /\ calls' = calls + 1

CallWith(id) ==
  /\ Call
  /\ FreshCalls => id \notin used
  /\ used' = used \cup {id} /\ reused' = (reused \/ id \in used)

-----------------------------------------------------------------------------
(* Overlays *)

\* segment_morphemes
SegmentMorphemes ==
  /\ Call
  /\ \E base \in KnownSegs, C \in (SUBSET Children) \ {{}} :
       \E edits \in [C -> Segmentations] :
         segs' = segs \cup {Extended(base, edits)}
  /\ UNCHANGED <<alns, laws, cascades, previews, handles, commit, used, reused,
                 inspected, applied, ordered, discarded>>

LayoutOf(aln, u) == IF u \in DOMAIN aln THEN aln[u].layout ELSE None

Support(set, aln) == Cardinality({u \in Units : Shows(u, LayoutOf(aln, u), set)})

\* A set's ID names the evidence it was surveyed under.
SetIds == [set : Sets, seg : KnownSegs, aln : KnownAlns]

\* _verify_joins, for one override: the set it names is in the evidence before
\* the edit and gains support by it.
Joins(id, seg, base, new) ==
  /\ id.seg = seg /\ id.aln = base
  /\ Support(id.set, base) > 0
  /\ Support(id.set, new) > Support(id.set, base)

\* realign, on some base and segmentation.  The overlay is stored first; a
\* false claim refuses the call and removes it.
Realign ==
  /\ Call
  /\ \E base \in KnownAlns, seg \in KnownSegs, U \in (SUBSET Units) \ {{}} :
       \E edits \in [U -> [layout : Layouts, joins : SetIds \cup {None}]] :
         LET new == Extended(base, edits)
             true == \A u \in U : edits[u].joins = None
                                    \/ Joins(edits[u].joins, seg, base, new)
         IN IF true
              THEN alns' = alns \cup {new} /\ UNCHANGED discarded
              ELSE alns' = alns \ {new} /\ discarded' = discarded \cup (alns \cap {new})
  /\ UNCHANGED <<segs, laws, cascades, previews, handles, commit, used, reused,
                 inspected, applied, ordered>>

-----------------------------------------------------------------------------
(* Sound laws *)

\* The laws of rs before position j that apply to child c.
Before(rs, j, c) ==
  LET mine == SelectSeq(SubSeq(rs, 1, j - 1), LAMBDA r : c \in Range(r.scope))
  IN [i \in DOMAIN mine |-> mine[i].law]

\* The selected forms that rule j of rs changes under an overlay, the children
\* taken in the given order.
Supporting(rs, j, seg, order, selected) ==
  SelectSeq(order, LAMBDA c :
    /\ c \in selected \cap Range(rs[j].scope)
    /\ Changes(rs[j].law, c, At(seg, c), Before(rs, j, c)))

\* The forms each rule of a validation changed.
Applications(v) ==
  {[rule |-> v.rules[j], seg |-> v.seg, forms |-> Range(v.forms[j])] :
     j \in DOMAIN v.rules}

\* test_sound_law: the children in the order of the call's own scope.
TestSoundLaw ==
  \E id \in CallIds : CallWith(id) /\
  \E rule \in Rules, seg \in KnownSegs, selected \in SUBSET Children :
    LET v == [call |-> id, rules |-> <<rule>>, seg |-> seg,
              forms |-> <<Supporting(<<rule>>, 1, seg, rule.scope, selected)>>]
    IN /\ selected \cap Range(rule.scope) # {}
       /\ laws' = Stored(laws, v)
       /\ applied' = applied \cup Applications(v)
       /\ UNCHANGED <<segs, alns, cascades, previews, handles, commit,
                      inspected, ordered, discarded>>

\* test_rule_cascade: the children in the node's order.
TestRuleCascade ==
  \E id \in CallIds : CallWith(id) /\
  \E rs \in RuleSeqs, seg \in KnownSegs, selected \in SUBSET Children :
    LET v == [call |-> id, rules |-> rs, seg |-> seg,
              forms |-> [j \in DOMAIN rs |->
                           Supporting(rs, j, seg, ChildOrder, selected)]]
    IN /\ selected # {}
       /\ cascades' = Stored(cascades, v)
       /\ applied' = applied \cup Applications(v)
       /\ ordered' = ordered \cup {[rules |-> rs, seg |-> seg]}
       /\ UNCHANGED <<segs, alns, laws, previews, handles, commit, inspected,
                      discarded>>

\* _session_validations: each rule of each law test and each cascade.
RecordsOf(kind, d) ==
  UNION {{[kind |-> kind, at |-> <<i, j>>, call |-> d[i].call,
           rule |-> d[i].rules[j], seg |-> d[i].seg, forms |-> d[i].forms[j]] :
            j \in DOMAIN d[i].rules} : i \in DOMAIN d}
Records == RecordsOf("law", laws) \cup RecordsOf("cascade", cascades)

\* MUTANT of Matches: the overlay of the validation is not compared.
MatchesOnAnyOverlay(rule, id, seg) ==
  {r \in Records :
     /\ id \in {None, r.call}
     /\ r.rule.law = rule.law /\ Range(r.rule.scope) = Range(rule.scope)}

\* _resolve_validation: same rule, scope and overlay; and the call, if named.
Matches(rule, id, seg) ==
  {r \in Records :
     /\ id \in {None, r.call} /\ r.seg = seg
     /\ r.rule.law = rule.law /\ Range(r.rule.scope) = Range(rule.scope)}

\* MUTANT of Agreed: take one even when they disagree.
AgreedAlways(M) == M # {}

\* _choose_validation: the matches agree on the forms, compared in order;
\* otherwise the commit is refused as ambiguous ...
Agreed(M) == M # {} /\ \A r, s \in M : r.forms = s.forms

\* ... and a cascade wins over a law test, a later record over an earlier one.
Later(r, s) == r.at[1] > s.at[1] \/ (r.at[1] = s.at[1] /\ r.at[2] >= s.at[2])
Chosen(M) ==
  LET best == IF \E r \in M : r.kind = "cascade"
                THEN {r \in M : r.kind = "cascade"} ELSE M
  IN CHOOSE r \in best : \A s \in best : Later(r, s)

\* A rule as committed: `call` and `cites` ({} when omitted) are the model's.
Entries == [rule : Rules, call : CallIds \cup {None}, cites : SUBSET Children]

\* The record it is bound to, and the forms it is committed with.
Binding(e, seg) == Chosen(Matches(e.rule, e.call, seg))
CommittedForms(e, seg) ==
  IF e.cites = {} THEN Range(Binding(e, seg).forms) ELSE e.cites

Backed(e, seg) ==
  /\ Agreed(Matches(e.rule, e.call, seg))
  /\ LET forms == CommittedForms(e, seg)
     IN forms # {} /\ forms \subseteq Range(Binding(e, seg).forms)

\* The entries a commit may carry on an overlay, each with its forms.
BackedEntries(seg) ==
  {[rule |-> e.rule, omitted |-> e.cites = {} /\ e.call = None,
    forms |-> CommittedForms(e, seg)] : e \in {x \in Entries : Backed(x, seg)}}

\* cascade_validation_call_id: that cascade is the committed one.
Previewed(id, rs, seg) ==
  \E i \in DOMAIN cascades :
    cascades[i].call = id /\ cascades[i].seg = seg /\ cascades[i].rules = rs

\* commit_reconstruction with rules; none of them is the identity.
CommitRules ==
  /\ commit = None
  /\ \E seg \in KnownSegs, n \in 0..MaxRules :
       \E es \in [1..n -> BackedEntries(seg)], id \in CallIds \cup {None} :
         LET rs == [i \in 1..n |-> es[i].rule]
         IN /\ id # None => Previewed(id, rs, seg)
            /\ commit' =
                 [shape |-> "rules", seg |-> seg, cascade |-> id, rules |-> rs,
                  omitted |-> {i \in 1..n : es[i].omitted},
                  forms |-> [i \in 1..n |-> es[i].forms]]
  /\ UNCHANGED <<segs, alns, laws, cascades, previews, handles, used, calls,
                 reused, inspected, applied, ordered, discarded>>

-----------------------------------------------------------------------------
(* Inventories *)

Hypothesis == [claims : Claims, seg : KnownSegs, aln : KnownAlns]

\* test_proto_assembly: assemble the node under the hypothesis; the handle
\* keeps its first snapshot.
TestProtoAssembly ==
  \E id \in CallIds : CallWith(id) /\
  \E h \in Hypothesis :
    /\ previews' = Stored(previews, [call |-> id, hyp |-> h])
    /\ handles' = [g \in DOMAIN handles \cup {h} |->
                     IF g \in DOMAIN handles THEN handles[g]
                     ELSE [ready |-> h.claims \in Explained, call |-> id]]
    /\ inspected' = inspected \cup {h}
    /\ UNCHANGED <<segs, alns, laws, cascades, commit, applied, ordered,
                   discarded>>

\* MUTANT of Validating: a call the model names is taken at its word.
ValidatingNamed(h, id) ==
  {i \in DOMAIN previews :
     IF id = None THEN previews[i].hyp = h ELSE previews[i].call = id}

\* _resolve_assembly_validation: previews of exactly this hypothesis.
Validating(h, id) ==
  {i \in DOMAIN previews :
     previews[i].hyp = h /\ id \in {None, previews[i].call}}

LastOf(S) == CHOOSE i \in S : \A j \in S : j <= i

\* The checks of _commit_inventory.
Acceptable(h, id) ==
  /\ h.seg \in KnownSegs /\ h.aln \in KnownAlns
  /\ h.claims \in Explained
  /\ h.claims = Identity \/ Validating(h, id) # {}

Accept(h, id) ==
  commit' = [shape |-> "inventory", hyp |-> h, seg |-> h.seg,
             call |-> IF h.claims = Identity THEN id
                      ELSE previews[LastOf(Validating(h, id))].call]

\* commit_reconstruction with a full inventory.
CommitInventory ==
  /\ commit = None
  /\ \E h \in Hypothesis, id \in CallIds \cup {None} :
       Acceptable(h, id) /\ Accept(h, id)
  /\ UNCHANGED <<segs, alns, laws, cascades, previews, handles, used, calls,
                 reused, inspected, applied, ordered, discarded>>

\* MUTANT of Restored: the snapshot's segmentation overlay is not put back.
RestoredWithoutOverlay(h) == [h EXCEPT !.seg = NoOverlay]

\* What commit_stored_hypothesis passes on.
Restored(h) == h

HandleCommits(h) ==
  /\ h.seg \in KnownSegs /\ h.aln \in KnownAlns
  /\ handles[h].ready
  /\ Acceptable(Restored(h), handles[h].call)

\* commit_reconstruction with a hypothesis_id.
CommitHandle ==
  /\ commit = None
  /\ \E h \in DOMAIN handles :
       HandleCommits(h) /\ Accept(Restored(h), handles[h].call)
  /\ UNCHANGED <<segs, alns, laws, cascades, previews, handles, used, calls,
                 reused, inspected, applied, ordered, discarded>>

Next ==
  \/ SegmentMorphemes \/ Realign
  \/ TestSoundLaw \/ TestRuleCascade \/ TestProtoAssembly
  \/ CommitRules \/ CommitInventory \/ CommitHandle

Spec == Init /\ [][Next]_vars

-----------------------------------------------------------------------------
(* Properties *)

SameRule(r, s) == r.law = s.law /\ Range(r.scope) = Range(s.scope)

Validations ==
  [call : CallIds, rules : RuleSeqs, seg : KnownSegs,
   forms : UNION {[1..n -> UNION {[1..k -> Children] : k \in 0..Cardinality(Children)}] :
                    n \in 1..MaxRules}]

\* Every overlay edits something, every validation and preview names overlays
\* of this session, no dictionary holds a key twice, and the alignment overlay
\* of a stored hypothesis is there unless a refused call removed it.
TypeOK ==
  /\ \A seg \in segs : DOMAIN seg \in (SUBSET Children) \ {{}}
                         /\ Range(seg) \subseteq Segmentations
  /\ \A aln \in alns : DOMAIN aln \in (SUBSET Units) \ {{}}
                         /\ {a.layout : a \in Range(aln)} \subseteq Layouts
  /\ \A d \in {laws, cascades} :
       Range(d) \subseteq Validations
         /\ \A i \in DOMAIN d : DOMAIN d[i].forms = DOMAIN d[i].rules
  /\ \A d \in {laws, cascades, previews} :
       \A i, j \in DOMAIN d : d[i].call = d[j].call => i = j
  /\ \A h \in inspected : h.claims \in Claims /\ h.seg \in KnownSegs
                            /\ h.aln \in KnownAlns \cup discarded
  /\ DOMAIN handles = inspected
  /\ used \subseteq CallIds /\ calls \in 0..MaxCalls
  /\ commit # None => commit.seg \in KnownSegs

\* An inventory that makes a claim is committed only if this session assembled
\* the node under exactly that hypothesis, on exactly those overlays, and the
\* validation the commit records is the preview of it that is kept, whatever
\* IDs the provider gave its calls: _resolve_assembly_validation.
CommitInspected ==
  commit # None /\ commit.shape = "inventory" /\ commit.hyp.claims # Identity =>
    /\ commit.hyp \in inspected
    /\ \E i \in DOMAIN previews :
         previews[i].call = commit.call /\ previews[i].hyp = commit.hyp

\* Every committed rule was applied in this session, over the same children and
\* on the committed overlay, and changed every form it is committed with; and a
\* cascade the commit cites was previewed with the committed rules in their
\* order: _resolve_validation, and the end of commit_reconstruction.
RulesApplied ==
  commit # None /\ commit.shape = "rules" =>
    /\ \A i \in DOMAIN commit.rules :
         \E a \in applied : /\ SameRule(a.rule, commit.rules[i])
                            /\ a.seg = commit.seg
                            /\ commit.forms[i] \subseteq a.forms
                            /\ commit.forms[i] # {}
    /\ commit.cascade # None =>
         [rules |-> commit.rules, seg |-> commit.seg] \in ordered

\* A rule committed with neither a call nor forms named leaves the choice of its
\* validation to the harness; unless a call ID was given twice, every
\* application of it on the committed overlay in this session, alone or after
\* other rules, changed exactly the forms it is committed with:
\* _choose_validation.
BindingUnambiguous ==
  commit # None /\ commit.shape = "rules" /\ ~reused =>
    \A i \in commit.omitted : \A a \in applied :
      SameRule(a.rule, commit.rules[i]) /\ a.seg = commit.seg =>
        a.forms = commit.forms[i]

\* Unless a call ID was given twice, a handle whose preview was ready stays
\* committable until the commit, whatever is previewed, re-segmented and
\* realigned meanwhile, except when a refused `realign` removed the alignment
\* overlay it was taken on: commit_stored_hypothesis and its checks.
ReadyUnlessLost ==
  commit = None /\ ~reused =>
    \A h \in DOMAIN handles :
      handles[h].ready /\ h.aln \notin discarded => HandleCommits(h)

\* Unless a call ID was given twice, a ready handle commits: the handle is an
\* "immutable, session-local hypothesis_id", and "a ready handle commits with
\* node_id, hypothesis_id, summary and anomalies" (docs/protocol_revision.md).
ReadyCommits ==
  commit = None /\ ~reused =>
    \A h \in DOMAIN handles : handles[h].ready => HandleCommits(h)

\* A commit is refused as ambiguous only when two validations of the rule
\* changed different forms: _choose_validation "returns `None` only when the
\* matches genuinely disagree".
AmbiguityIsGenuine ==
  \A rule \in Rules, seg \in KnownSegs :
    LET M == Matches(rule, None, seg)
    IN M # {} /\ ~Agreed(M) => \E r, s \in M : Range(r.forms) # Range(s.forms)
=============================================================================
