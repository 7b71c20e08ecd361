---------------------------- MODULE CommitProofs ----------------------------
(***************************************************************************)
(* Proofs about CommitProtocol, for all children, laws, overlays, claims   *)
(* and bounds, and whether or not call IDs repeat: an inventory is         *)
(* committed only if it was inspected, a rule only if it was applied on    *)
(* the committed overlay, and a validation is chosen by the harness only   *)
(* where all of them agree.                                                *)
(*                                                                         *)
(* And about the tuples of candidates a committed inventory is assembled   *)
(* from (Assembly), for all beams of the children and every budget: what   *)
(* is cut while the list is built is what a cut of the whole product would *)
(* have lost.                                                              *)
(*                                                                         *)
(* And about the cascades a session probes and commits (Rules), for all    *)
(* words: the report on what a cascade costs misses no merger.             *)
(***************************************************************************)
EXTENDS CommitProtocol, Assembly, SumProofs, SequenceTheorems, WellFoundedInduction, TLAPS

IsSequence(d) == d \in Seq(Range(d))

Dictionaries ==
  /\ IsSequence(laws) /\ IsSequence(cascades) /\ IsSequence(previews)
  /\ \A i \in DOMAIN laws : \E n \in Nat : DOMAIN laws[i].rules = 1..n
  /\ \A i \in DOMAIN cascades : \E n \in Nat : DOMAIN cascades[i].rules = 1..n

(* What the dictionaries hold is what happened, whatever the call IDs ... *)
HoldsWhatHappened ==
  /\ \A i \in DOMAIN previews : previews[i].hyp \in inspected
  /\ \A i \in DOMAIN laws : Applications(laws[i]) \subseteq applied
  /\ \A i \in DOMAIN cascades :
       /\ Applications(cascades[i]) \subseteq applied
       /\ [rules |-> cascades[i].rules, seg |-> cascades[i].seg] \in ordered

(* ... and, unless an ID was given twice, they hold all of it. *)
KeepsWhatHappened ==
  ~reused =>
    /\ \A i \in DOMAIN laws : laws[i].call \in used
    /\ \A i \in DOMAIN cascades : cascades[i].call \in used
    /\ \A a \in applied :
         \/ \E i \in DOMAIN laws : a \in Applications(laws[i])
         \/ \E i \in DOMAIN cascades : a \in Applications(cascades[i])

IInv ==
  /\ Dictionaries /\ HoldsWhatHappened /\ KeepsWhatHappened
  /\ CommitInspected /\ RulesApplied /\ BindingUnambiguous

-----------------------------------------------------------------------------
(* The last of some positions. *)
LEMMA LastExists ==
  ASSUME NEW n \in Nat, NEW T \in SUBSET (1..n), T # {}
  PROVE  \E x \in T : \A y \in T : y <= x
<1> DEFINE D == {k \in Nat : n - k \in T}
<1>1. D \subseteq Nat /\ D # {}
  <2>1. PICK t \in T : TRUE
    OBVIOUS
  <2>2. n - t \in Nat /\ n - (n - t) = t
    BY <2>1
  <2>. QED
    BY <2>1, <2>2
<1>2. PICK k \in D : \A l \in D : ~(<<l, k>> \in OpToRel(<, Nat))
  <2>. HIDE DEF D
  <2>. QED
    BY <1>1, NatLessThanWellFounded, WFMin
<1>3. \A l \in D : ~(l < k)
  BY <1>2 DEF OpToRel
<1>4. \A y \in T : n - y \in D
  <2>. SUFFICES ASSUME NEW y \in T PROVE n - y \in D
    OBVIOUS
  <2>1. n - y \in Nat /\ n - (n - y) = y
    OBVIOUS
  <2>. QED
    BY <2>1
<1>5. ASSUME NEW y \in T PROVE y <= n - k
  <2>1. ~(n - y < k)
    <3>. HIDE DEF D
    <3>. QED
      BY <1>3, <1>4
  <2>. QED
    BY <2>1
<1>. QED
  BY <1>5

(* Storing a result keeps a dictionary a sequence, adds no other value, and *)
(* under a new key keeps every old one.                                     *)
Adds(e, d, v) ==
  /\ IsSequence(e)
  /\ \A i \in DOMAIN e : e[i] = v \/ \E j \in DOMAIN d : e[i] = d[j]
  /\ (\A j \in DOMAIN d : d[j].call # v.call) =>
       /\ \A j \in DOMAIN d : j \in DOMAIN e /\ e[j] = d[j]
       /\ \E i \in DOMAIN e : e[i] = v

LEMMA StoredProperties ==
  ASSUME NEW d, IsSequence(d), NEW v
  PROVE  Adds(Stored(d, v), d, v)
<1> DEFINE S == Range(d) \cup {v}
<1>1. d \in Seq(S) /\ Len(d) \in Nat /\ DOMAIN d = 1..Len(d)
  <2>1. d \in Seq(S)
    BY SeqMonotonic DEF IsSequence
  <2>. QED
    BY <2>1, LenProperties
<1>2. ASSUME NEW e, e \in Seq(S)
      PROVE  IsSequence(e)
  <2>1. Len(e) \in Nat /\ e \in [1..Len(e) -> S] /\ DOMAIN e = 1..Len(e)
    BY <1>2, LenProperties
  <2>2. e \in [1..Len(e) -> Range(e)]
    BY <2>1 DEF Range
  <2>. QED
    BY <2>1, <2>2 DEF IsSequence
<1>3. CASE \E i \in DOMAIN d : d[i].call = v.call
  <2>1. Stored(d, v) = [i \in 1..Len(d) |-> IF d[i].call = v.call THEN v ELSE d[i]]
    BY <1>1, <1>3 DEF Stored
  <2>2. \A i \in 1..Len(d) : d[i] \in S
    BY <1>1 DEF Range
  <2>3. Stored(d, v) \in Seq(S)
    BY <1>1, <2>1, <2>2
  <2>. QED
    BY <1>1, <1>2, <1>3, <2>1, <2>3 DEF Adds
<1>4. CASE ~ \E i \in DOMAIN d : d[i].call = v.call
  <2>1. Stored(d, v) = Append(d, v)
    BY <1>4 DEF Stored
  <2>2. v \in S
    OBVIOUS
  <2>3. /\ Append(d, v) \in Seq(S)
        /\ DOMAIN Append(d, v) = 1..(Len(d) + 1)
        /\ \A i \in 1..Len(d) : Append(d, v)[i] = d[i]
        /\ Append(d, v)[Len(d) + 1] = v
    <3>. HIDE DEF S
    <3>. QED
      BY <1>1, <2>2
  <2>4. IsSequence(Append(d, v))
    <3>. HIDE DEF S
    <3>. QED
      BY <1>2, <2>3
  <2>. QED
    BY <1>1, <1>4, <2>1, <2>3, <2>4 DEF Adds
<1>. QED
  BY <1>3, <1>4

-----------------------------------------------------------------------------
RecordAt(kind, d, i, j) ==
  [kind |-> kind, at |-> <<i, j>>, call |-> d[i].call,
   rule |-> d[i].rules[j], seg |-> d[i].seg, forms |-> d[i].forms[j]]

(* A record comes from one rule of one validation. *)
LEMMA RecordOrigin ==
  ASSUME NEW kind, NEW d, NEW r
  PROVE  r \in RecordsOf(kind, d) <=>
           \E i \in DOMAIN d : \E j \in DOMAIN d[i].rules :
             r = RecordAt(kind, d, i, j)
  BY DEF RecordsOf, RecordAt

(* Among records of one kind there is a last one. *)
LEMMA LastRecord ==
  ASSUME NEW d, IsSequence(d),
         \A i \in DOMAIN d : \E n \in Nat : DOMAIN d[i].rules = 1..n,
         NEW kind, NEW T, T \subseteq RecordsOf(kind, d), T # {}
  PROVE  \E r \in T : \A s \in T : Later(r, s)
<1>. Len(d) \in Nat /\ DOMAIN d = 1..Len(d)
  BY LenProperties DEF IsSequence
<1>1. \A r \in T : \E i \in DOMAIN d : \E j \in DOMAIN d[i].rules :
                     r.at = <<i, j>> /\ r.at[1] = i /\ r.at[2] = j
  BY RecordOrigin DEF RecordAt
<1> DEFINE Is == {i \in 1..Len(d) : \E r \in T : r.at[1] = i}
<1>2. PICK i \in Is : \A k \in Is : k <= i
  <2>1. Is # {}
    BY <1>1
  <2>. HIDE DEF Is
  <2>2. Is \in SUBSET (1..Len(d))
    BY DEF Is
  <2>. QED
    BY <2>1, <2>2, LastExists
<1>3. PICK n \in Nat : DOMAIN d[i].rules = 1..n
  BY <1>2
<1> DEFINE Js == {j \in 1..n : \E r \in T : r.at[1] = i /\ r.at[2] = j}
<1>4. PICK j \in Js : \A k \in Js : k <= j
  <2>1. Js # {}
    BY <1>1, <1>2, <1>3
  <2>. HIDE DEF Js
  <2>2. Js \in SUBSET (1..n)
    BY DEF Js
  <2>. QED
    BY <2>1, <2>2, LastExists
<1>5. PICK r \in T : r.at[1] = i /\ r.at[2] = j
  BY <1>4
<1>6. ASSUME NEW s \in T PROVE Later(r, s)
  <2>1. PICK k \in 1..Len(d) : \E l \in DOMAIN d[k].rules : s.at[1] = k /\ s.at[2] = l
    BY <1>1
  <2>2. k \in Is /\ k <= i
    BY <1>2, <2>1
  <2>3. CASE k < i
    BY <1>5, <2>1, <2>3 DEF Later
  <2>4. CASE k = i
    <3>1. s.at[2] \in Js
      BY <1>3, <2>1, <2>4
    <3>2. s.at[2] <= j
      BY <1>4, <3>1
    <3>. QED
      BY <1>4, <1>5, <2>1, <2>4, <3>1, <3>2 DEF Later
  <2>. QED
    BY <2>2, <2>3, <2>4
<1>. QED
  BY <1>6

(* The harness binds a rule to one of the records that match it. *)
LEMMA ChosenMatches ==
  ASSUME Dictionaries, NEW M, M \subseteq Records, M # {}
  PROVE  Chosen(M) \in M
<1> DEFINE best == IF \E r \in M : r.kind = "cascade"
                     THEN {r \in M : r.kind = "cascade"} ELSE M
<1>1. best \subseteq M /\ best # {}
  OBVIOUS
<1>2. \A r \in RecordsOf("law", laws) : r.kind = "law"
  BY RecordOrigin DEF RecordAt
<1>3. \A r \in RecordsOf("cascade", cascades) : r.kind = "cascade"
  BY RecordOrigin DEF RecordAt
<1>4. \E r \in best : \A s \in best : Later(r, s)
  <2>1. CASE \E r \in M : r.kind = "cascade"
    <3>1. best \subseteq RecordsOf("cascade", cascades)
      BY <1>2, <2>1 DEF Records
    <3>. HIDE DEF best
    <3>. QED
      BY <1>1, <3>1, LastRecord DEF Dictionaries
  <2>2. CASE ~ \E r \in M : r.kind = "cascade"
    <3>1. best \subseteq RecordsOf("law", laws)
      BY <1>3, <2>2 DEF Records
    <3>. HIDE DEF best
    <3>. QED
      BY <1>1, <3>1, LastRecord DEF Dictionaries
  <2>. QED
    BY <2>1, <2>2
<1>5. Chosen(M) = CHOOSE r \in best : \A s \in best : Later(r, s)
  BY DEF Chosen
<1>. HIDE DEF best
<1>6. Chosen(M) \in best
  BY <1>4, <1>5
<1>. QED
  BY <1>1, <1>6

ApplicationOf(r) == [rule |-> r.rule, seg |-> r.seg, forms |-> Range(r.forms)]

(* Each record is of an application that happened. *)
LEMMA RecordApplied ==
  ASSUME HoldsWhatHappened, NEW r \in Records
  PROVE  ApplicationOf(r) \in applied
<1>1. ASSUME NEW kind, NEW d, \A i \in DOMAIN d : Applications(d[i]) \subseteq applied,
             r \in RecordsOf(kind, d)
      PROVE  ApplicationOf(r) \in applied
  <2>1. PICK i \in DOMAIN d : \E j \in DOMAIN d[i].rules : r = RecordAt(kind, d, i, j)
    BY <1>1, RecordOrigin
  <2>2. PICK j \in DOMAIN d[i].rules : r = RecordAt(kind, d, i, j)
    BY <2>1
  <2>3. ApplicationOf(r) \in Applications(d[i])
    BY <2>2 DEF ApplicationOf, RecordAt, Applications
  <2>. QED
    BY <1>1, <2>3
<1>. QED
  BY <1>1 DEF Records, HoldsWhatHappened

(* Each application of a validation still held has a record. *)
LEMMA ApplicationRecorded ==
  ASSUME NEW a,
         \/ \E i \in DOMAIN laws : a \in Applications(laws[i])
         \/ \E i \in DOMAIN cascades : a \in Applications(cascades[i])
  PROVE  \E r \in Records : ApplicationOf(r) = a
<1>1. ASSUME NEW kind, NEW d, NEW i \in DOMAIN d, a \in Applications(d[i])
      PROVE  \E r \in RecordsOf(kind, d) : ApplicationOf(r) = a
  <2>1. PICK j \in DOMAIN d[i].rules :
          a = [rule |-> d[i].rules[j], seg |-> d[i].seg, forms |-> Range(d[i].forms[j])]
    BY <1>1 DEF Applications
  <2>2. RecordAt(kind, d, i, j) \in RecordsOf(kind, d)
    BY RecordOrigin
  <2>3. ApplicationOf(RecordAt(kind, d, i, j)) = a
    BY <2>1 DEF ApplicationOf, RecordAt
  <2>. QED
    BY <2>2, <2>3
<1>. QED
  BY <1>1 DEF Records

(* The preview an inventory commit records is one of those that validate it. *)
LEMMA LastValidating ==
  ASSUME Dictionaries, NEW h, NEW id, Validating(h, id) # {}
  PROVE  LastOf(Validating(h, id)) \in Validating(h, id)
<1> DEFINE V == Validating(h, id)
<1>1. Len(previews) \in Nat /\ DOMAIN previews = 1..Len(previews)
  BY LenProperties DEF Dictionaries, IsSequence
<1>2. V \in SUBSET (1..Len(previews)) /\ V # {}
  BY <1>1 DEF Validating
<1>. HIDE DEF V
<1>3. \E i \in V : \A j \in V : j <= i
  BY <1>1, <1>2, LastExists
<1>4. LastOf(V) \in V
  BY <1>3 DEF LastOf
<1>. QED
  BY <1>4 DEF V

-----------------------------------------------------------------------------
LEMMA Initially == Init => IInv
<1>. SUFFICES ASSUME Init PROVE IInv
  OBVIOUS
<1>1. IsSequence(<< >>) /\ DOMAIN << >> = {}
  BY EmptySeq DEF IsSequence
<1>. QED
  BY <1>1 DEF Init, IInv, Dictionaries, HoldsWhatHappened, KeepsWhatHappened,
              CommitInspected, RulesApplied, BindingUnambiguous

(* While nothing is committed there is nothing to say of the commit. *)
LEMMA NoCommitYet ==
  ASSUME commit' = None
  PROVE  CommitInspected' /\ RulesApplied' /\ BindingUnambiguous'
  BY DEF CommitInspected, RulesApplied, BindingUnambiguous

LEMMA TestSoundLawStep ==
  ASSUME IInv, TestSoundLaw
  PROVE  IInv'
<1>1. PICK id \in CallIds, rule \in Rules, seg \in KnownSegs, selected \in SUBSET Children :
        LET v == [call |-> id, rules |-> <<rule>>, seg |-> seg,
                  forms |-> <<Supporting(<<rule>>, 1, seg, rule.scope, selected)>>]
        IN /\ CallWith(id)
           /\ laws' = Stored(laws, v)
           /\ applied' = applied \cup Applications(v)
           /\ UNCHANGED <<segs, alns, cascades, previews, handles, commit,
                          inspected, ordered, discarded>>
  BY DEF TestSoundLaw
<1> DEFINE v == [call |-> id, rules |-> <<rule>>, seg |-> seg,
                 forms |-> <<Supporting(<<rule>>, 1, seg, rule.scope, selected)>>]
<1>2. /\ laws' = Stored(laws, v)
      /\ applied' = applied \cup Applications(v)
      /\ v.call = id /\ DOMAIN v.rules = 1..1
  BY <1>1
<1>. HIDE DEF v
<1>3. /\ IsSequence(laws')
      /\ \A i \in DOMAIN laws' : laws'[i] = v \/ \E j \in DOMAIN laws : laws'[i] = laws[j]
      /\ (\A j \in DOMAIN laws : laws[j].call # id) =>
            /\ \A j \in DOMAIN laws : j \in DOMAIN laws' /\ laws'[j] = laws[j]
            /\ \E i \in DOMAIN laws' : laws'[i] = v
  <2>1. IsSequence(laws)
    BY DEF IInv, Dictionaries
  <2>2. Adds(Stored(laws, v), laws, v)
    BY <2>1, StoredProperties
  <2>. QED
    BY <1>2, <2>2 DEF Adds
<1>4. UNCHANGED <<cascades, previews, inspected, ordered>>
  BY <1>1
<1>5. commit' = None
  BY <1>1 DEF CallWith, Call
<1>6. Dictionaries'
  <2>1. \A i \in DOMAIN laws' : \E n \in Nat : DOMAIN laws'[i].rules = 1..n
    <3>1. \E n \in Nat : DOMAIN v.rules = 1..n
      BY <1>2
    <3>. QED
      BY <1>3, <3>1 DEF IInv, Dictionaries
  <2>2. IsSequence(cascades)' /\ IsSequence(previews)'
    BY <1>4 DEF IInv, Dictionaries, IsSequence
  <2>3. \A i \in DOMAIN cascades' : \E n \in Nat : DOMAIN cascades'[i].rules = 1..n
    BY <1>4 DEF IInv, Dictionaries
  <2>. QED
    BY <1>3, <2>1, <2>2, <2>3 DEF Dictionaries
<1>7. HoldsWhatHappened'
  BY <1>2, <1>3, <1>4 DEF IInv, HoldsWhatHappened
<1>8. KeepsWhatHappened'
  <2>. SUFFICES ASSUME ~reused' PROVE KeepsWhatHappened'
    BY DEF KeepsWhatHappened
  <2>1. ~reused /\ id \notin used /\ used' = used \cup {id}
    BY <1>1 DEF CallWith
  <2>2. \A j \in DOMAIN laws : laws[j].call # id
    BY <2>1 DEF IInv, KeepsWhatHappened
  <2>3. \A i \in DOMAIN laws' : laws'[i].call \in used'
    BY <1>2, <1>3, <2>1 DEF IInv, KeepsWhatHappened
  <2>4. \A i \in DOMAIN cascades' : cascades'[i].call \in used'
    BY <1>4, <2>1 DEF IInv, KeepsWhatHappened
  <2>5. ASSUME NEW a \in applied'
        PROVE  \/ \E i \in DOMAIN laws' : a \in Applications(laws'[i])
               \/ \E i \in DOMAIN cascades' : a \in Applications(cascades'[i])
    <3>1. CASE a \in Applications(v)
      BY <1>3, <2>2, <3>1
    <3>2. CASE a \in applied
      BY <1>3, <1>4, <2>1, <2>2, <3>2 DEF IInv, KeepsWhatHappened
    <3>. QED
      BY <1>2, <2>5, <3>1, <3>2
  <2>. QED
    BY <2>3, <2>4, <2>5 DEF KeepsWhatHappened, Applications
<1>. QED
  BY <1>5, <1>6, <1>7, <1>8, NoCommitYet DEF IInv

LEMMA TestRuleCascadeStep ==
  ASSUME IInv, TestRuleCascade
  PROVE  IInv'
<1>1. PICK id \in CallIds, rs \in RuleSeqs, seg \in KnownSegs, selected \in SUBSET Children :
        LET v == [call |-> id, rules |-> rs, seg |-> seg,
                  forms |-> [j \in DOMAIN rs |->
                               Supporting(rs, j, seg, ChildOrder, selected)]]
        IN /\ CallWith(id)
           /\ cascades' = Stored(cascades, v)
           /\ applied' = applied \cup Applications(v)
           /\ ordered' = ordered \cup {[rules |-> rs, seg |-> seg]}
           /\ UNCHANGED <<segs, alns, laws, previews, handles, commit, inspected,
                          discarded>>
  BY DEF TestRuleCascade
<1> DEFINE v == [call |-> id, rules |-> rs, seg |-> seg,
                 forms |-> [j \in DOMAIN rs |->
                              Supporting(rs, j, seg, ChildOrder, selected)]]
<1>2. /\ cascades' = Stored(cascades, v)
      /\ applied' = applied \cup Applications(v)
      /\ v.call = id /\ v.rules = rs /\ v.seg = seg
      /\ ordered' = ordered \cup {[rules |-> v.rules, seg |-> v.seg]}
  BY <1>1
<1>. HIDE DEF v
<1>3. /\ IsSequence(cascades')
      /\ \A i \in DOMAIN cascades' : cascades'[i] = v \/ \E j \in DOMAIN cascades : cascades'[i] = cascades[j]
      /\ (\A j \in DOMAIN cascades : cascades[j].call # id) =>
            /\ \A j \in DOMAIN cascades : j \in DOMAIN cascades' /\ cascades'[j] = cascades[j]
            /\ \E i \in DOMAIN cascades' : cascades'[i] = v
  <2>1. IsSequence(cascades)
    BY DEF IInv, Dictionaries
  <2>2. Adds(Stored(cascades, v), cascades, v)
    BY <2>1, StoredProperties
  <2>. QED
    BY <1>2, <2>2 DEF Adds
<1>4. UNCHANGED <<laws, previews, inspected>>
  BY <1>1
<1>5. commit' = None
  BY <1>1 DEF CallWith, Call
<1>6. Dictionaries'
  <2>1. \A i \in DOMAIN cascades' : \E n \in Nat : DOMAIN cascades'[i].rules = 1..n
    <3>1. \E n \in Nat : DOMAIN v.rules = 1..n
      BY <1>2 DEF RuleSeqs
    <3>. QED
      BY <1>3, <3>1 DEF IInv, Dictionaries
  <2>2. IsSequence(laws)' /\ IsSequence(previews)'
    BY <1>4 DEF IInv, Dictionaries, IsSequence
  <2>3. \A i \in DOMAIN laws' : \E n \in Nat : DOMAIN laws'[i].rules = 1..n
    BY <1>4 DEF IInv, Dictionaries
  <2>. QED
    BY <1>3, <2>1, <2>2, <2>3 DEF Dictionaries
<1>7. HoldsWhatHappened'
  BY <1>2, <1>3, <1>4 DEF IInv, HoldsWhatHappened
<1>8. KeepsWhatHappened'
  <2>. SUFFICES ASSUME ~reused' PROVE KeepsWhatHappened'
    BY DEF KeepsWhatHappened
  <2>1. ~reused /\ id \notin used /\ used' = used \cup {id}
    BY <1>1 DEF CallWith
  <2>2. \A j \in DOMAIN cascades : cascades[j].call # id
    BY <2>1 DEF IInv, KeepsWhatHappened
  <2>3. \A i \in DOMAIN cascades' : cascades'[i].call \in used'
    BY <1>2, <1>3, <2>1 DEF IInv, KeepsWhatHappened
  <2>4. \A i \in DOMAIN laws' : laws'[i].call \in used'
    BY <1>4, <2>1 DEF IInv, KeepsWhatHappened
  <2>5. ASSUME NEW a \in applied'
        PROVE  \/ \E i \in DOMAIN cascades' : a \in Applications(cascades'[i])
               \/ \E i \in DOMAIN laws' : a \in Applications(laws'[i])
    <3>1. CASE a \in Applications(v)
      BY <1>3, <2>2, <3>1
    <3>2. CASE a \in applied
      BY <1>3, <1>4, <2>1, <2>2, <3>2 DEF IInv, KeepsWhatHappened
    <3>. QED
      BY <1>2, <2>5, <3>1, <3>2
  <2>. QED
    BY <2>3, <2>4, <2>5 DEF KeepsWhatHappened, Applications
<1>. QED
  BY <1>5, <1>6, <1>7, <1>8, NoCommitYet DEF IInv

LEMMA TestProtoAssemblyStep ==
  ASSUME IInv, TestProtoAssembly
  PROVE  IInv'
<1>1. PICK id \in CallIds, h \in Hypothesis :
        /\ CallWith(id)
        /\ previews' = Stored(previews, [call |-> id, hyp |-> h])
        /\ inspected' = inspected \cup {h}
        /\ UNCHANGED <<laws, cascades, commit, applied, ordered>>
  BY DEF TestProtoAssembly
<1> DEFINE v == [call |-> id, hyp |-> h]
<1>2. previews' = Stored(previews, v) /\ v.hyp = h
  BY <1>1
<1>. HIDE DEF v
<1>3. /\ IsSequence(previews')
      /\ \A i \in DOMAIN previews' :
           previews'[i] = v \/ \E j \in DOMAIN previews : previews'[i] = previews[j]
  <2>1. IsSequence(previews)
    BY DEF IInv, Dictionaries
  <2>2. Adds(Stored(previews, v), previews, v)
    BY <2>1, StoredProperties
  <2>. QED
    BY <1>2, <2>2 DEF Adds
<1>4. Dictionaries'
  BY <1>1, <1>3 DEF IInv, Dictionaries, IsSequence
<1>5. HoldsWhatHappened'
  <2>1. \A i \in DOMAIN previews' : previews'[i].hyp \in inspected'
    BY <1>1, <1>2, <1>3 DEF IInv, HoldsWhatHappened
  <2>2. UNCHANGED <<laws, cascades, applied, ordered>>
    BY <1>1
  <2>. QED
    BY <2>1, <2>2 DEF IInv, HoldsWhatHappened, Applications
<1>6. KeepsWhatHappened'
  <2>1. used \subseteq used' /\ (~reused' => ~reused)
    BY <1>1 DEF CallWith
  <2>2. UNCHANGED <<laws, cascades, applied>>
    BY <1>1
  <2>. QED
    BY <2>1, <2>2 DEF IInv, KeepsWhatHappened, Applications
<1>7. commit' = None
  BY <1>1 DEF CallWith, Call
<1>. QED
  BY <1>4, <1>5, <1>6, <1>7, NoCommitYet DEF IInv

(* An accepted inventory was inspected, and its preview is still held. *)
LEMMA AcceptedInspected ==
  ASSUME IInv, NEW h, NEW id, Acceptable(h, id), Accept(h, id),
         UNCHANGED <<previews, inspected>>
  PROVE  CommitInspected' /\ RulesApplied' /\ BindingUnambiguous'
<1>1. /\ commit'.shape = "inventory" /\ commit'.hyp = h
      /\ h.claims # Identity => commit'.call = previews[LastOf(Validating(h, id))].call
  BY DEF Accept
<1>2. ASSUME h.claims # Identity
      PROVE  /\ h \in inspected
             /\ \E i \in DOMAIN previews :
                  previews[i].call = commit'.call /\ previews[i].hyp = h
  <2>1. Validating(h, id) # {}
    BY <1>2 DEF Acceptable
  <2>2. LastOf(Validating(h, id)) \in Validating(h, id)
    BY <2>1, LastValidating DEF IInv
  <2>3. PICK i \in DOMAIN previews :
          i = LastOf(Validating(h, id)) /\ previews[i].hyp = h
    BY <2>2 DEF Validating
  <2>. QED
    BY <1>1, <1>2, <2>3 DEF IInv, HoldsWhatHappened
<1>. QED
  BY <1>1, <1>2 DEF CommitInspected, RulesApplied, BindingUnambiguous

(* A rule that a commit of rules may carry was applied to its forms, ... *)
LEMMA BackedApplied ==
  ASSUME Dictionaries, HoldsWhatHappened, NEW e, NEW seg, Backed(e, seg)
  PROVE  \E a \in applied : /\ SameRule(a.rule, e.rule) /\ a.seg = seg
                            /\ CommittedForms(e, seg) \subseteq a.forms
<1> DEFINE M == Matches(e.rule, e.call, seg)
<1>1. M \subseteq Records /\ M # {}
  BY DEF Matches, Backed, Agreed
<1>2. Binding(e, seg) \in M
  <2>. HIDE DEF M
  <2>1. Chosen(M) \in M
    BY <1>1, ChosenMatches
  <2>. QED
    BY <2>1 DEF Binding, M
<1>3. ApplicationOf(Binding(e, seg)) \in applied
  BY <1>1, <1>2, RecordApplied
<1>4. /\ SameRule(Binding(e, seg).rule, e.rule) /\ Binding(e, seg).seg = seg
  BY <1>2 DEF Matches, SameRule
<1>5. CommittedForms(e, seg) \subseteq Range(Binding(e, seg).forms)
  BY DEF Backed
<1>. QED
  BY <1>3, <1>4, <1>5 DEF ApplicationOf

(* ... and, when the harness chose the validation, by every application.  *)
LEMMA BackedUnambiguous ==
  ASSUME Dictionaries, KeepsWhatHappened, ~reused,
         NEW e, NEW seg, Backed(e, seg), e.cites = {}, e.call = None,
         NEW a \in applied, SameRule(a.rule, e.rule), a.seg = seg
  PROVE  a.forms = CommittedForms(e, seg)
<1> DEFINE M == Matches(e.rule, e.call, seg)
<1>1. M \subseteq Records /\ M # {} /\ \A r, s \in M : r.forms = s.forms
  BY DEF Matches, Backed, Agreed
<1>2. Binding(e, seg) \in M
  <2>. HIDE DEF M
  <2>1. Chosen(M) \in M
    BY <1>1, ChosenMatches
  <2>. QED
    BY <2>1 DEF Binding, M
<1>3. PICK r \in Records : ApplicationOf(r) = a
  BY ApplicationRecorded DEF KeepsWhatHappened
<1>4. a.rule = r.rule /\ a.seg = r.seg /\ a.forms = Range(r.forms)
  BY <1>3 DEF ApplicationOf
<1>5. r \in M
  BY <1>4 DEF Matches, SameRule
<1>6. r.forms = Binding(e, seg).forms
  BY <1>1, <1>2, <1>5
<1>. QED
  BY <1>4, <1>6 DEF CommittedForms

LEMMA CommitRulesStep ==
  ASSUME IInv, CommitRules
  PROVE  CommitInspected' /\ RulesApplied' /\ BindingUnambiguous'
<1>1. PICK seg \in KnownSegs, n \in 0..MaxRules :
        \E bs \in [1..n -> BackedEntries(seg)], id \in CallIds \cup {None} :
          LET rs == [i \in 1..n |-> bs[i].rule]
          IN /\ id # None => Previewed(id, rs, seg)
             /\ commit' =
                  [shape |-> "rules", seg |-> seg, cascade |-> id, rules |-> rs,
                   omitted |-> {i \in 1..n : bs[i].omitted},
                   forms |-> [i \in 1..n |-> bs[i].forms]]
  BY DEF CommitRules
<1>2. PICK bs \in [1..n -> BackedEntries(seg)], id \in CallIds \cup {None} :
          LET rs == [i \in 1..n |-> bs[i].rule]
          IN /\ id # None => Previewed(id, rs, seg)
             /\ commit' =
                  [shape |-> "rules", seg |-> seg, cascade |-> id, rules |-> rs,
                   omitted |-> {i \in 1..n : bs[i].omitted},
                   forms |-> [i \in 1..n |-> bs[i].forms]]
  BY <1>1
<1> DEFINE From(b, e) == b = [rule |-> e.rule,
                              omitted |-> e.cites = {} /\ e.call = None,
                              forms |-> CommittedForms(e, seg)]
           es == [i \in 1..n |-> CHOOSE e \in Entries : Backed(e, seg) /\ From(bs[i], e)]
<1>5. \A i \in 1..n : Backed(es[i], seg) /\ From(bs[i], es[i])
  <2>. SUFFICES ASSUME NEW i \in 1..n
                PROVE  \E e \in Entries : Backed(e, seg) /\ From(bs[i], e)
    OBVIOUS
  <2>. QED
    BY <1>2 DEF BackedEntries
<1>. HIDE DEF es, From
<1>3. /\ commit'.shape = "rules" /\ commit'.seg = seg /\ commit'.cascade = id
      /\ DOMAIN commit'.rules = 1..n
      /\ \A i \in 1..n : /\ commit'.rules[i] = es[i].rule
                         /\ commit'.forms[i] = CommittedForms(es[i], seg)
      /\ commit'.omitted = {i \in 1..n : es[i].cites = {} /\ es[i].call = None}
      /\ id # None => Previewed(id, commit'.rules, seg)
  <2>1. \A i \in 1..n : /\ bs[i].rule = es[i].rule
                        /\ bs[i].forms = CommittedForms(es[i], seg)
                        /\ bs[i].omitted = (es[i].cites = {} /\ es[i].call = None)
    BY <1>5 DEF From
  <2>2. {i \in 1..n : bs[i].omitted} = {i \in 1..n : es[i].cites = {} /\ es[i].call = None}
    BY <2>1
  <2>3. /\ commit'.shape = "rules" /\ commit'.seg = seg /\ commit'.cascade = id
        /\ commit'.rules = [i \in 1..n |-> bs[i].rule]
        /\ commit'.forms = [i \in 1..n |-> bs[i].forms]
        /\ commit'.omitted = {i \in 1..n : bs[i].omitted}
        /\ id # None => Previewed(id, commit'.rules, seg)
    BY <1>2
  <2>. QED
    BY <2>1, <2>2, <2>3
<1>4. UNCHANGED <<cascades, applied, ordered, reused>>
  BY DEF CommitRules
<1>6. RulesApplied'
  <2>1. ASSUME NEW i \in 1..n
        PROVE  \E a \in applied : /\ SameRule(a.rule, es[i].rule) /\ a.seg = seg
                                  /\ CommittedForms(es[i], seg) \subseteq a.forms
    BY <1>5, BackedApplied DEF IInv
  <2>2. \A i \in 1..n : CommittedForms(es[i], seg) # {}
    BY <1>5 DEF Backed
  <2>3. ASSUME id # None
        PROVE  [rules |-> commit'.rules, seg |-> seg] \in ordered
    BY <1>3, <2>3 DEF Previewed, IInv, HoldsWhatHappened
  <2>4. \A i \in 1..n :
          \E a \in applied' : /\ SameRule(a.rule, commit'.rules[i]) /\ a.seg = commit'.seg
                              /\ commit'.forms[i] \subseteq a.forms /\ commit'.forms[i] # {}
    <3>. SUFFICES ASSUME NEW i \in 1..n
                  PROVE  \E a \in applied :
                           /\ SameRule(a.rule, commit'.rules[i]) /\ a.seg = commit'.seg
                           /\ commit'.forms[i] \subseteq a.forms /\ commit'.forms[i] # {}
      BY <1>4
    <3>1. /\ commit'.rules[i] = es[i].rule /\ commit'.seg = seg
          /\ commit'.forms[i] = CommittedForms(es[i], seg)
      BY <1>3
    <3>. QED
      BY <2>1, <2>2, <3>1
  <2>. QED
    BY <1>3, <1>4, <2>3, <2>4 DEF RulesApplied, SameRule
<1>7. BindingUnambiguous'
  <2>1. ASSUME ~reused, NEW i \in 1..n, es[i].cites = {}, es[i].call = None,
               NEW a \in applied, SameRule(a.rule, es[i].rule), a.seg = seg
        PROVE  a.forms = CommittedForms(es[i], seg)
    BY <1>5, <2>1, BackedUnambiguous DEF IInv
  <2>. QED
    BY <1>3, <1>4, <2>1 DEF BindingUnambiguous, SameRule
<1>8. CommitInspected'
  BY <1>3 DEF CommitInspected
<1>. QED
  BY <1>6, <1>7, <1>8

(* Steps that touch neither a dictionary nor what happened keep the rest. *)
LEMMA Unrelated ==
  ASSUME IInv,
         UNCHANGED <<laws, cascades, previews, used, reused, inspected, applied, ordered>>
  PROVE  Dictionaries' /\ HoldsWhatHappened' /\ KeepsWhatHappened'
  BY DEF IInv, Dictionaries, IsSequence, HoldsWhatHappened, KeepsWhatHappened, Applications

(* The invariant: dictionaries hold what happened, and the commit agrees. *)
THEOREM Invariance == Spec => []IInv
<1>1. ASSUME IInv, [Next]_vars PROVE IInv'
  <2>. USE <1>1
  <2>1. CASE SegmentMorphemes
    <3>1. commit' = None
      BY <2>1 DEF SegmentMorphemes, Call
    <3>2. UNCHANGED <<laws, cascades, previews, used, reused, inspected, applied, ordered>>
      BY <2>1 DEF SegmentMorphemes
    <3>. QED
      BY <3>1, <3>2, NoCommitYet, Unrelated DEF IInv
  <2>2. CASE Realign
    <3>1. commit' = None
      BY <2>2 DEF Realign, Call
    <3>2. UNCHANGED <<laws, cascades, previews, used, reused, inspected, applied, ordered>>
      BY <2>2 DEF Realign
    <3>. QED
      BY <3>1, <3>2, NoCommitYet, Unrelated DEF IInv
  <2>3. CASE TestSoundLaw
    BY <2>3, TestSoundLawStep
  <2>4. CASE TestRuleCascade
    BY <2>4, TestRuleCascadeStep
  <2>5. CASE TestProtoAssembly
    BY <2>5, TestProtoAssemblyStep
  <2>6. CASE CommitRules
    <3>1. UNCHANGED <<laws, cascades, previews, used, reused, inspected, applied, ordered>>
      BY <2>6 DEF CommitRules
    <3>. QED
      BY <2>6, <3>1, CommitRulesStep, Unrelated DEF IInv
  <2>7. CASE CommitInventory
    <3>1. UNCHANGED <<laws, cascades, previews, used, reused, inspected, applied, ordered>>
      BY <2>7 DEF CommitInventory
    <3>2. PICK h \in Hypothesis, id \in CallIds \cup {None} :
            Acceptable(h, id) /\ Accept(h, id)
      BY <2>7 DEF CommitInventory
    <3>. QED
      BY <3>1, <3>2, AcceptedInspected, Unrelated DEF IInv
  <2>8. CASE CommitHandle
    <3>1. UNCHANGED <<laws, cascades, previews, used, reused, inspected, applied, ordered>>
      BY <2>8 DEF CommitHandle
    <3>2. PICK h \in DOMAIN handles :
            /\ Acceptable(Restored(h), handles[h].call)
            /\ Accept(Restored(h), handles[h].call)
      BY <2>8 DEF CommitHandle, HandleCommits
    <3>. QED
      BY <3>1, <3>2, AcceptedInspected, Unrelated DEF IInv
  <2>9. CASE UNCHANGED vars
    <3>1. Dictionaries' /\ HoldsWhatHappened' /\ KeepsWhatHappened'
      BY <2>9, Unrelated DEF vars
    <3>2. CommitInspected' /\ RulesApplied' /\ BindingUnambiguous'
      BY <2>9 DEF vars, IInv, CommitInspected, RulesApplied, BindingUnambiguous, SameRule
    <3>. QED
      BY <3>1, <3>2 DEF IInv
  <2>. QED
    BY <2>1, <2>2, <2>3, <2>4, <2>5, <2>6, <2>7, <2>8, <2>9 DEF Next
<1>. QED
  BY <1>1, Initially, PTL DEF Spec

(* An inventory that makes a claim is committed only if this session assembled *)
(* the node under exactly that hypothesis on exactly those overlays.           *)
THEOREM NothingUninspected == Spec => []CommitInspected
<1>1. IInv => CommitInspected
  BY DEF IInv
<1>. QED
  BY <1>1, Invariance, PTL

(* Every committed rule was applied, on the committed overlay, to the forms it *)
(* is committed with; a cited cascade is the committed one.                    *)
THEOREM NothingUntested == Spec => []RulesApplied
<1>1. IInv => RulesApplied
  BY DEF IInv
<1>. QED
  BY <1>1, Invariance, PTL

(* A validation the harness chose is one with which all others agree. *)
THEOREM ChoiceWithoutContent == Spec => []BindingUnambiguous
<1>1. IInv => BindingUnambiguous
  BY DEF IInv
<1>. QED
  BY <1>1, Invariance, PTL

-----------------------------------------------------------------------------
(* Unless an ID was given twice, each handle has its preview, on overlays that *)
(* are there or were discarded.                                                *)
HandlesHold ==
  /\ IsSequence(previews)
  /\ \A h \in DOMAIN handles :
       /\ h.seg \in KnownSegs /\ h.aln \in KnownAlns \cup discarded
       /\ handles[h].ready => h.claims \in Explained
  /\ ~reused =>
       /\ \A i \in DOMAIN previews : previews[i].call \in used
       /\ \A h \in DOMAIN handles : \E i \in DOMAIN previews :
            previews[i].call = handles[h].call /\ previews[i].hyp = h

(* Overlays are only added, or moved to the discarded ones. *)
LEMMA OverlaysKept ==
  ASSUME HandlesHold, UNCHANGED <<previews, handles, used, reused>>,
         segs \subseteq segs', alns \cup discarded \subseteq alns' \cup discarded'
  PROVE  HandlesHold'
<1>1. KnownSegs \subseteq KnownSegs'
  BY DEF KnownSegs
<1>2. KnownAlns \cup discarded \subseteq KnownAlns' \cup discarded'
  BY DEF KnownAlns
<1>. QED
  BY <1>1, <1>2 DEF HandlesHold, IsSequence

LEMMA NewHandle ==
  ASSUME HandlesHold, TestProtoAssembly
  PROVE  HandlesHold'
<1>1. PICK id \in CallIds, h \in Hypothesis :
        /\ CallWith(id)
        /\ previews' = Stored(previews, [call |-> id, hyp |-> h])
        /\ handles' = [g \in DOMAIN handles \cup {h} |->
                         IF g \in DOMAIN handles THEN handles[g]
                         ELSE [ready |-> h.claims \in Explained, call |-> id]]
        /\ UNCHANGED <<segs, alns, discarded>>
  BY DEF TestProtoAssembly
<1> DEFINE v == [call |-> id, hyp |-> h]
<1>2. previews' = Stored(previews, v) /\ v.hyp = h /\ v.call = id
  BY <1>1
<1>. HIDE DEF v
<1>3. Adds(previews', previews, v)
  <2>1. Adds(Stored(previews, v), previews, v)
    BY StoredProperties DEF HandlesHold
  <2>. QED
    BY <1>2, <2>1
<1>4. h.seg \in KnownSegs /\ h.aln \in KnownAlns
  BY DEF Hypothesis
<1>5. KnownSegs' = KnownSegs /\ KnownAlns' = KnownAlns /\ discarded' = discarded
  BY <1>1 DEF KnownSegs, KnownAlns
<1>6. /\ DOMAIN handles' = DOMAIN handles \cup {h}
      /\ \A g \in DOMAIN handles : handles'[g] = handles[g]
      /\ h \notin DOMAIN handles => /\ handles'[h].ready = (h.claims \in Explained)
                                    /\ handles'[h].call = id
  BY <1>1
<1>7. \A g \in DOMAIN handles' :
        /\ g.seg \in KnownSegs' /\ g.aln \in KnownAlns' \cup discarded'
        /\ handles'[g].ready => g.claims \in Explained
  BY <1>4, <1>5, <1>6 DEF HandlesHold
<1>8. ASSUME ~reused'
      PROVE  /\ \A i \in DOMAIN previews' : previews'[i].call \in used'
             /\ \A g \in DOMAIN handles' : \E i \in DOMAIN previews' :
                  previews'[i].call = handles'[g].call /\ previews'[i].hyp = g
  <2>1. ~reused /\ id \notin used /\ used' = used \cup {id}
    BY <1>1, <1>8 DEF CallWith
  <2>2. \A j \in DOMAIN previews : previews[j].call # v.call
    BY <1>2, <2>1 DEF HandlesHold
  <2>3. /\ \A j \in DOMAIN previews : j \in DOMAIN previews' /\ previews'[j] = previews[j]
        /\ \E i \in DOMAIN previews' : previews'[i] = v
    BY <1>3, <2>2 DEF Adds
  <2>4. \A i \in DOMAIN previews' : previews'[i].call \in used'
    BY <1>2, <1>3, <2>1 DEF Adds, HandlesHold
  <2>5. ASSUME NEW g \in DOMAIN handles'
        PROVE  \E i \in DOMAIN previews' :
                 previews'[i].call = handles'[g].call /\ previews'[i].hyp = g
    <3>1. CASE g \in DOMAIN handles
      BY <1>6, <2>1, <2>3, <3>1 DEF HandlesHold
    <3>2. CASE g \notin DOMAIN handles
      BY <1>2, <1>6, <2>3, <2>5, <3>2
    <3>. QED
      BY <3>1, <3>2
  <2>. QED
    BY <2>4, <2>5
<1>. QED
  BY <1>3, <1>7, <1>8 DEF HandlesHold, Adds

(* Unless an ID was given twice, a ready handle commits until its alignment *)
(* overlay is discarded.                                                    *)
THEOREM ReadyHandlesCommit == Spec => []ReadyUnlessLost
<1>1. Init => HandlesHold
  <2>. SUFFICES ASSUME Init PROVE HandlesHold
    OBVIOUS
  <2>1. IsSequence(<< >>) /\ DOMAIN << >> = {}
    BY EmptySeq DEF IsSequence
  <2>2. DOMAIN handles = {}
    BY DEF Init, NoOverlay
  <2>. QED
    BY <2>1, <2>2 DEF Init, HandlesHold
<1>2. ASSUME HandlesHold, [Next]_vars PROVE HandlesHold'
  <2>. USE <1>2
  <2>1. CASE SegmentMorphemes
    BY <2>1, OverlaysKept DEF SegmentMorphemes
  <2>2. CASE Realign
    <3>1. alns \cup discarded \subseteq alns' \cup discarded'
      BY <2>2 DEF Realign
    <3>. QED
      BY <2>2, <3>1, OverlaysKept DEF Realign
  <2>3. CASE TestSoundLaw
    <3>1. used \subseteq used' /\ (~reused' => ~reused)
          /\ UNCHANGED <<segs, alns, previews, handles, discarded>>
      BY <2>3 DEF TestSoundLaw, CallWith
    <3>. QED
      BY <3>1 DEF HandlesHold, IsSequence, KnownSegs, KnownAlns
  <2>4. CASE TestRuleCascade
    <3>1. used \subseteq used' /\ (~reused' => ~reused)
          /\ UNCHANGED <<segs, alns, previews, handles, discarded>>
      BY <2>4 DEF TestRuleCascade, CallWith
    <3>. QED
      BY <3>1 DEF HandlesHold, IsSequence, KnownSegs, KnownAlns
  <2>5. CASE TestProtoAssembly
    BY <2>5, NewHandle
  <2>6. CASE CommitRules
    BY <2>6, OverlaysKept DEF CommitRules
  <2>7. CASE CommitInventory
    BY <2>7, OverlaysKept DEF CommitInventory
  <2>8. CASE CommitHandle
    BY <2>8, OverlaysKept DEF CommitHandle
  <2>9. CASE UNCHANGED vars
    BY <2>9, OverlaysKept DEF vars
  <2>. QED
    BY <2>1, <2>2, <2>3, <2>4, <2>5, <2>6, <2>7, <2>8, <2>9 DEF Next
<1>3. HandlesHold => ReadyUnlessLost
  <2>. SUFFICES ASSUME HandlesHold, ~reused, NEW h \in DOMAIN handles,
                       handles[h].ready, h.aln \notin discarded
                PROVE  HandleCommits(h)
    BY DEF ReadyUnlessLost
  <2>1. h.seg \in KnownSegs /\ h.aln \in KnownAlns /\ h.claims \in Explained
    BY DEF HandlesHold
  <2>2. PICK i \in DOMAIN previews :
          previews[i].call = handles[h].call /\ previews[i].hyp = h
    BY DEF HandlesHold
  <2>3. i \in Validating(h, handles[h].call)
    BY <2>2 DEF Validating
  <2>. QED
    BY <2>1, <2>3 DEF HandleCommits, Acceptable, Restored
<1>. QED
  BY <1>1, <1>2, <1>3, PTL DEF Spec

-----------------------------------------------------------------------------
(* The tuples of candidates of Assembly *)

Candidate == [form : Seq(Nat), mass : Nat \ {0}]

\* Tuples of one length, as many children as they have.
Tuples(m) == [1..m -> Candidate]

\* Their words, child by child.
Texts(m) == [1..m -> Seq(Nat)]

\* Words are ordered as the code compares them, and strictly.
LEMMA WordOrder ==
  ASSUME NEW s \in Seq(Nat), NEW t \in Seq(Nat), NEW u \in Seq(Nat)
  PROVE  /\ ~WordLess(s, s)
         /\ WordLess(s, t) /\ WordLess(t, u) => WordLess(s, u)
<1>1. ~WordLess(s, s)
  BY DEF WordLess
<1>2. ASSUME WordLess(s, t), WordLess(t, u) PROVE WordLess(s, u)
  <2>1. PICK i \in 1..Len(t) : /\ \A j \in 1..(i - 1) : j <= Len(s) /\ s[j] = t[j]
                               /\ i > Len(s) \/ (i <= Len(s) /\ s[i] < t[i])
    BY <1>2 DEF WordLess
  <2>2. PICK k \in 1..Len(u) : /\ \A j \in 1..(k - 1) : j <= Len(t) /\ t[j] = u[j]
                               /\ k > Len(t) \/ (k <= Len(t) /\ t[k] < u[k])
    BY <1>2 DEF WordLess
  <2>3. CASE i < k
    <3>1. i \in 1..Len(u) /\ t[i] = u[i]
      BY <2>2, <2>3
    <3>2. \A j \in 1..(i - 1) : j <= Len(s) /\ s[j] = u[j]
      BY <2>1, <2>2, <2>3
    <3> QED BY <2>1, <3>1, <3>2 DEF WordLess
  <2>4. CASE i >= k
    <3>1. \A j \in 1..(k - 1) : j <= Len(s) /\ s[j] = u[j]
      BY <2>1, <2>2, <2>4
    <3>2. k > Len(s) \/ (k <= Len(s) /\ s[k] < u[k])
      <4>1. k <= Len(t) /\ t[k] < u[k] /\ k \in 1..Len(t)
        BY <2>1, <2>2, <2>4
      <4>2. CASE i = k
        <5>1. i > Len(s) \/ (i <= Len(s) /\ s[i] < t[i])
          BY <2>1
        <5>2. t[i] \in Nat /\ u[i] \in Nat
          <6>1. i \in 1..Len(t) /\ i \in 1..Len(u)
            BY <4>2
          <6> QED BY <6>1
        <5>3. ASSUME i <= Len(s) PROVE s[i] \in Nat
          <6>1. i \in 1..Len(s)
            BY <5>3
          <6> QED BY <6>1
        <5> QED BY <5>1, <5>2, <5>3, <4>1, <4>2
      <4>3. CASE i > k
        <5>1. k <= Len(s) /\ s[k] = t[k]
          BY <2>1, <4>3
        <5> QED BY <4>1, <5>1
      <4> QED BY <2>4, <4>2, <4>3
    <3> QED BY <3>1, <3>2 DEF WordLess
  <2> QED BY <2>3, <2>4
<1> QED BY <1>1, <1>2

\* So are the words of two tuples, child by child.
LEMMA WordsOrder ==
  ASSUME NEW m \in Nat, NEW p \in Texts(m), NEW q \in Texts(m),
         NEW r \in Texts(m)
  PROVE  /\ ~WordsLess(p, p)
         /\ WordsLess(p, q) /\ WordsLess(q, r) => WordsLess(p, r)
<1>1. ~WordsLess(p, p)
  BY WordOrder DEF WordsLess, Texts
<1>2. ASSUME WordsLess(p, q), WordsLess(q, r) PROVE WordsLess(p, r)
  <2>1. PICK i \in 1..m : WordLess(p[i], q[i]) /\ \A j \in 1..(i - 1) : p[j] = q[j]
    BY <1>2 DEF WordsLess, Texts
  <2>2. PICK k \in 1..m : WordLess(q[k], r[k]) /\ \A j \in 1..(k - 1) : q[j] = r[j]
    BY <1>2 DEF WordsLess, Texts
  <2>3. CASE i < k
    <3>1. WordLess(p[i], r[i]) /\ \A j \in 1..(i - 1) : p[j] = r[j]
      BY <2>1, <2>2, <2>3
    <3> QED BY <3>1 DEF WordsLess, Texts
  <2>4. CASE i > k
    <3>1. WordLess(p[k], r[k]) /\ \A j \in 1..(k - 1) : p[j] = r[j]
      BY <2>1, <2>2, <2>4
    <3> QED BY <3>1 DEF WordsLess, Texts
  <2>5. CASE i = k
    <3>1. WordLess(p[i], r[i])
      BY <2>1, <2>2, <2>5, WordOrder DEF Texts
    <3>2. \A j \in 1..(i - 1) : p[j] = r[j]
      BY <2>1, <2>2, <2>5
    <3> QED BY <3>1, <3>2 DEF WordsLess, Texts
  <2> QED BY <2>3, <2>4, <2>5
<1> QED BY <1>1, <1>2

\* An order on the words of tuples is kept when both get one more word.
LEMMA WordsMore ==
  ASSUME NEW m \in Nat, NEW p \in Texts(m), NEW q \in Texts(m),
         NEW P \in Texts(m + 1), NEW Q \in Texts(m + 1), WordsLess(p, q),
         \A i \in 1..m : P[i] = p[i] /\ Q[i] = q[i]
  PROVE  WordsLess(P, Q)
<1>1. PICK i \in 1..m : WordLess(p[i], q[i]) /\ \A j \in 1..(i - 1) : p[j] = q[j]
  BY DEF WordsLess, Texts
<1>2. i \in 1..(m + 1) /\ WordLess(P[i], Q[i]) /\ \A j \in 1..(i - 1) : P[j] = Q[j]
  BY <1>1
<1> QED BY <1>2 DEF WordsLess, Texts

-----------------------------------------------------------------------------
(* Folds over sequences *)

\* A fold takes the positions of a sequence from the last one down.
LEMMA LastUpTo == ASSUME NEW i \in Nat \ {0} PROVE Max(1..i) = i /\ (1..i) \ {i} = 1..(i - 1)
<1>1. i \in 1..i /\ \A y \in 1..i : i >= y
  OBVIOUS
<1>2. \A x \in 1..i : (\A y \in 1..i : x >= y) => x = i
  BY <1>1
<1>3. Max(1..i) = CHOOSE x \in 1..i : \A y \in 1..i : x >= y
  BY DEF Max
<1>4. Max(1..i) = i
  BY <1>1, <1>2, <1>3
<1> QED BY <1>4

\* The greatest of some positions is one of them.
LEMMA MaxIn ==
  ASSUME NEW n \in Nat, NEW s \in SUBSET (1..n), s # {} PROVE Max(s) \in s
<1>1. \E x \in s : \A y \in s : x >= y
  <2> DEFINE T == {n - x : x \in s}
  <2>0. \A x \in s : x \in 1..n /\ n - x \in Nat
    OBVIOUS
  <2>1. T \subseteq Nat /\ T # {}
    BY <2>0
  <2>2. PICK x \in T : \A y \in T : ~(<<y, x>> \in OpToRel(<, Nat))
    <3> HIDE DEF T
    <3> QED BY <2>1, NatLessThanWellFounded, WFMin
  <2>3. \A y \in T : x <= y
    <3> HIDE DEF T
    <3> TAKE y \in T
    <3>1. x \in Nat /\ y \in Nat
      BY <2>1
    <3>2. y < x => <<y, x>> \in OpToRel(<, Nat)
      BY <3>1 DEF OpToRel
    <3>3. ~(<<y, x>> \in OpToRel(<, Nat))
      BY <2>2
    <3>4. ~(y < x)
      BY <3>2, <3>3
    <3> QED BY <3>1, <3>4
  <2>4. PICK w \in s : x = n - w
    BY <2>2
  <2>5. \A y \in s : w >= y
    <3> SUFFICES ASSUME NEW y \in s PROVE w >= y
      OBVIOUS
    <3>1. n - y \in T
      OBVIOUS
    <3>2. n - w <= n - y
      BY <2>3, <2>4, <3>1
    <3> QED BY <2>0, <3>2
  <2> QED BY <2>5
<1> QED BY <1>1 DEF Max

\* What a fold from the left gives a set of positions: base b, step h.
LeftStep(b, h, g, s) == IF s = {} THEN b ELSE h[<<Max(s), g[s \ {Max(s)}]>>]

\* The ways to go on from a value at a position, and the folds along them.
Ways(V, n) == [(1..n) \X V -> V]
LeftFolds(V, b, n, h) ==
  {g \in [SUBSET (1..n) -> V] : \A s \in SUBSET (1..n) : g[s] = LeftStep(b, h, g, s)}

\* The fold exists: it is built on ever larger sets of positions.
LEMMA LeftFoldExists ==
  ASSUME NEW V, NEW b \in V, NEW n \in Nat, NEW h \in Ways(V, n)
  PROVE  LeftFolds(V, b, n, h) # {}
<1> DEFINE S == 1..n
           Upto(g, m) == \A s \in SUBSET S : Cardinality(s) <= m => g[s] = LeftStep(b, h, g, s)
           N == {m \in Nat : \E g \in [SUBSET S -> V] : Upto(g, m)}
<1>0. /\ Cardinality(S) = n
      /\ \A s \in SUBSET S : IsFiniteSet(s) /\ Cardinality(s) \in Nat
                            /\ Cardinality(s) <= Cardinality(S)
  <2>1. IsFiniteSet(S) /\ Cardinality(S) = n
    BY FS_Interval
  <2> HIDE DEF S
  <2>2. \A s \in SUBSET S : IsFiniteSet(s) /\ Cardinality(s) <= Cardinality(S)
    BY <2>1, FS_Subset
  <2> QED BY <2>1, <2>2, FS_CardinalityType
<1>1. 0 \in N
  <2> DEFINE g == [s \in SUBSET S |-> b]
  <2>1. ASSUME NEW s \in SUBSET S, Cardinality(s) <= 0 PROVE g[s] = LeftStep(b, h, g, s)
    <3>1. IsFiniteSet(s) /\ Cardinality(s) = 0
      BY <1>0, <2>1
    <3>2. s = {}
      BY <3>1, FS_EmptySet
    <3> QED BY <3>2 DEF LeftStep
  <2>2. g \in [SUBSET S -> V] /\ Upto(g, 0)
    BY <2>1
  <2> HIDE DEF g, Upto
  <2> QED BY <2>2
<1>2. ASSUME NEW m \in Nat, m \in N PROVE m + 1 \in N
  <2>1. PICK g \in [SUBSET S -> V] : Upto(g, m)
    BY <1>2
  <2> DEFINE f == [s \in SUBSET S |-> IF Cardinality(s) <= m THEN g[s] ELSE LeftStep(b, h, g, s)]
  <2>2. ASSUME NEW s \in SUBSET S, s # {}
        PROVE  /\ Max(s) \in S /\ s \ {Max(s)} \in SUBSET S
               /\ Cardinality(s \ {Max(s)}) + 1 = Cardinality(s)
               /\ Cardinality(s \ {Max(s)}) \in Nat
    <3>1. Max(s) \in s
      BY <2>2, MaxIn
    <3> QED BY <3>1, <1>0, OneLess
  <2>3. ASSUME NEW s \in SUBSET S PROVE LeftStep(b, h, g, s) \in V
    <3>1. CASE s = {}
      BY <3>1 DEF LeftStep
    <3>2. CASE s # {}
      <4>1. g[s \ {Max(s)}] \in V /\ Max(s) \in 1..n
        BY <2>2, <3>2
      <4> QED BY <4>1, <3>2 DEF LeftStep, Ways
    <3> QED BY <3>1, <3>2
  <2>4. f \in [SUBSET S -> V]
    <3> HIDE DEF S
    <3> QED BY <2>3
  <2>5. ASSUME NEW s \in SUBSET S, Cardinality(s) <= m + 1
        PROVE  f[s] = LeftStep(b, h, f, s)
    <3>1. CASE s = {}
      <4>1. Cardinality(s) <= m
        BY <3>1, FS_EmptySet
      <4>2. f[s] = g[s] /\ g[s] = b
        BY <2>1, <3>1, <4>1 DEF LeftStep
      <4> QED BY <3>1, <4>2 DEF LeftStep
    <3>2. CASE s # {}
      <4>1. /\ s \ {Max(s)} \in SUBSET S
            /\ Cardinality(s \ {Max(s)}) <= m
        <5>1. Cardinality(s) \in Nat
          BY <1>0
        <5>2. /\ s \ {Max(s)} \in SUBSET S
              /\ Cardinality(s \ {Max(s)}) + 1 = Cardinality(s)
              /\ Cardinality(s \ {Max(s)}) \in Nat
          BY <2>2, <3>2
        <5> QED BY <2>5, <5>1, <5>2
      <4>2. f[s \ {Max(s)}] = g[s \ {Max(s)}]
        BY <4>1
      <4>3. f[s] = LeftStep(b, h, g, s)
        BY <2>1
      <4> HIDE DEF f
      <4> QED BY <3>2, <4>2, <4>3 DEF LeftStep
    <3> QED BY <3>1, <3>2
  <2>6. f \in [SUBSET S -> V] /\ Upto(f, m + 1)
    BY <2>4, <2>5
  <2> HIDE DEF f, Upto
  <2> QED BY <2>6
<1> HIDE DEF N
<1>3. Nat \subseteq N
  BY <1>1, <1>2, AllNumbers
<1>4. n \in N
  BY <1>3
<1>5. PICK g \in [SUBSET S -> V] : Upto(g, n)
  BY <1>4 DEF N
<1>6. \A s \in SUBSET S : Cardinality(s) <= n
  BY <1>0
<1> QED BY <1>5, <1>6 DEF LeftFolds

-----------------------------------------------------------------------------
(* Masses *)

MassFold(t, g) ==
  g = [s \in SUBSET DOMAIN t |-> IF s = {} THEN 1 ELSE g[s \ {Max(s)}] * t[Max(s)].mass]

\* The mass of a tuple is a fold of its candidates.
LEMMA MassIsFold ==
  ASSUME NEW t PROVE TupleMass(t) = (CHOOSE g : MassFold(t, g))[DOMAIN t]
BY DEF TupleMass, FoldLeft, MapThenFoldSet, MassFold

\* The mass of a tuple is a product, candidate by candidate.
LEMMA MassIs ==
  ASSUME NEW m \in Nat, NEW t \in Tuples(m)
  PROVE  \E g : /\ TupleMass(t) = g[1..m] /\ g[1..0] = 1
                /\ \A i \in 1..m : g[1..i] = g[1..(i - 1)] * t[i].mass
<1> DEFINE h == [iv \in (1..m) \X Nat |-> iv[2] * t[iv[1]].mass]
<1>1. DOMAIN t = 1..m /\ \A i \in 1..m : t[i].mass \in Nat
  BY DEF Tuples, Candidate
<1>2. h \in [(1..m) \X Nat -> Nat]
  BY <1>1
<1>3. \E g : MassFold(t, g)
  <2> HIDE DEF h
  <2>1. PICK g \in [SUBSET (1..m) -> Nat] :
          \A s \in SUBSET (1..m) : g[s] = LeftStep(1, h, g, s)
    <3>1. h \in Ways(Nat, m)
      BY <1>2 DEF Ways
    <3>2. LeftFolds(Nat, 1, m, h) # {}
      BY <3>1, LeftFoldExists
    <3> QED BY <3>2 DEF LeftFolds
  <2>2. ASSUME NEW s \in SUBSET (1..m), s # {}
        PROVE  g[s] = g[s \ {Max(s)}] * t[Max(s)].mass
    <3>1. Max(s) \in 1..m /\ s \ {Max(s)} \in SUBSET (1..m)
      BY <2>2, MaxIn
    <3>2. <<Max(s), g[s \ {Max(s)}]>> \in (1..m) \X Nat
      BY <3>1
    <3>3. h[<<Max(s), g[s \ {Max(s)}]>>] = g[s \ {Max(s)}] * t[Max(s)].mass
      BY <3>2 DEF h
    <3> QED BY <2>1, <2>2, <3>3 DEF LeftStep
  <2>3. g[{}] = 1
    BY <2>1 DEF LeftStep
  <2>4. MassFold(t, g)
    BY <1>1, <2>1, <2>2, <2>3 DEF MassFold
  <2> QED BY <2>4
<1> DEFINE g == CHOOSE f : MassFold(t, f)
<1>4. MassFold(t, g)
  BY <1>3
<1> HIDE DEF g
<1>5. ASSUME NEW s \in SUBSET (1..m)
      PROVE  g[s] = IF s = {} THEN 1 ELSE g[s \ {Max(s)}] * t[Max(s)].mass
  BY <1>1, <1>4 DEF MassFold
<1>6. g[1..0] = 1
  <2>1. 1..0 = {}
    OBVIOUS
  <2> QED BY <2>1, <1>5
<1>7. ASSUME NEW i \in 1..m PROVE g[1..i] = g[1..(i - 1)] * t[i].mass
  <2>1. 1..i \in SUBSET (1..m) /\ 1..i # {} /\ Max(1..i) = i /\ (1..i) \ {i} = 1..(i - 1)
    BY LastUpTo
  <2> QED BY <2>1, <1>5
<1>8. TupleMass(t) = g[1..m]
  BY <1>1, MassIsFold DEF g
<1> QED BY <1>6, <1>7, <1>8

\* Multiplying by a mass keeps the order.
LEMMA TimesMass ==
  ASSUME NEW a \in Nat \ {0}, NEW b \in Nat \ {0}, NEW c \in Nat \ {0}
  PROVE  a * c \in Nat \ {0} /\ (a > b => a * c > b * c)
OBVIOUS

\* One candidate more multiplies the mass.
LEMMA MassMore ==
  ASSUME NEW m \in Nat, NEW t \in Tuples(m), NEW c \in Candidate
  PROVE  /\ Append(t, c) \in Tuples(m + 1)
         /\ TupleMass(t) \in Nat \ {0}
         /\ TupleMass(Append(t, c)) = TupleMass(t) * c.mass
<1> DEFINE w == Append(t, c)
<1>1. /\ w \in Tuples(m + 1) /\ \A i \in 1..m : w[i] = t[i]
      /\ w[m + 1] = c /\ DOMAIN w = 1..(m + 1)
  <2>1. t \in Seq(Candidate) /\ Len(t) = m
    BY DEF Tuples
  <2>2. w \in Seq(Candidate) /\ Len(w) = m + 1
    BY <2>1
  <2>3. \A i \in 1..m : w[i] = t[i]
    BY <2>1
  <2>4. w[m + 1] = c
    BY <2>1
  <2>5. DOMAIN w = 1..(m + 1)
    BY <2>2
  <2> HIDE DEF w
  <2> QED BY <2>2, <2>3, <2>4, <2>5 DEF Tuples
<1>2. PICK g : /\ TupleMass(t) = g[1..m] /\ g[1..0] = 1
               /\ \A i \in 1..m : g[1..i] = g[1..(i - 1)] * t[i].mass
  BY MassIs
<1>3. PICK f : /\ TupleMass(w) = f[1..(m + 1)] /\ f[1..0] = 1
               /\ \A i \in 1..(m + 1) : f[1..i] = f[1..(i - 1)] * w[i].mass
  <2> HIDE DEF w
  <2>1. m + 1 \in Nat
    OBVIOUS
  <2> QED BY <1>1, <2>1, MassIs, Zenon
<1> DEFINE N == {i \in Nat : i <= m => f[1..i] = g[1..i] /\ g[1..i] \in Nat \ {0}}
<1>4. 0 \in N
  BY <1>2, <1>3
<1>5. ASSUME NEW i \in Nat, i \in N PROVE i + 1 \in N
  <2> SUFFICES ASSUME i + 1 <= m
               PROVE f[1..(i + 1)] = g[1..(i + 1)] /\ g[1..(i + 1)] \in Nat \ {0}
    OBVIOUS
  <2>1. f[1..i] = g[1..i] /\ g[1..i] \in Nat \ {0}
    BY <1>5
  <2>2. i + 1 \in 1..m /\ i + 1 \in 1..(m + 1) /\ (i + 1) - 1 = i
    OBVIOUS
  <2>3. w[i + 1] = t[i + 1] /\ t[i + 1].mass \in Nat \ {0}
    BY <1>1, <2>2 DEF Tuples, Candidate
  <2>4. /\ f[1..(i + 1)] = f[1..i] * t[i + 1].mass
        /\ g[1..(i + 1)] = g[1..i] * t[i + 1].mass
    <3> HIDE DEF w
    <3> QED BY <1>2, <1>3, <2>2, <2>3
  <2> QED BY <2>1, <2>3, <2>4, TimesMass
<1> HIDE DEF N
<1>6. Nat \subseteq N
  BY <1>4, <1>5, AllNumbers
<1>7. f[1..m] = g[1..m] /\ g[1..m] \in Nat \ {0}
  <2>1. m \in N
    BY <1>6
  <2> QED BY <2>1 DEF N
<1>8. f[1..(m + 1)] = f[1..m] * c.mass
  <2>1. m + 1 \in 1..(m + 1) /\ (m + 1) - 1 = m
    OBVIOUS
  <2> HIDE DEF w
  <2> QED BY <1>1, <1>3, <2>1
<1> HIDE DEF w
<1> QED BY <1>1, <1>2, <1>3, <1>7, <1>8 DEF w

\* The order that cuts is strict, so a cut never depends on how ties fall.
LEMMA TupleOrder ==
  ASSUME NEW m \in Nat, NEW t \in Tuples(m), NEW u \in Tuples(m), NEW v \in Tuples(m)
  PROVE  /\ ~Heavier(t, t)
         /\ Heavier(t, u) /\ Heavier(u, v) => Heavier(t, v)
<1>1. \A x \in Tuples(m) : TupleMass(x) \in Nat
  <2>1. [form |-> <<>>, mass |-> 1] \in Candidate
    BY DEF Candidate
  <2> QED BY <2>1, MassMore
<1>2. \A x \in Tuples(m) : TupleWords(x) \in Texts(m)
  BY DEF Tuples, TupleWords, Candidate, Texts
<1>3. ~WordsLess(TupleWords(t), TupleWords(t))
  BY <1>2, WordsOrder
<1>4. WordsLess(TupleWords(t), TupleWords(u)) /\ WordsLess(TupleWords(u), TupleWords(v))
        => WordsLess(TupleWords(t), TupleWords(v))
  BY <1>2, WordsOrder
<1> DEFINE a == TupleMass(t)
           b == TupleMass(u)
           d == TupleMass(v)
<1>5. a \in Nat /\ b \in Nat /\ d \in Nat
  BY <1>1
<1> QED BY <1>3, <1>4, <1>5 DEF Heavier

\* What is above stays above when both get the same candidate.
LEMMA HeavierMore ==
  ASSUME NEW m \in Nat, NEW t \in Tuples(m), NEW u \in Tuples(m), NEW c \in Candidate,
         Heavier(t, u)
  PROVE  Heavier(Append(t, c), Append(u, c))
<1>1. /\ Append(t, c) \in Tuples(m + 1) /\ Append(u, c) \in Tuples(m + 1)
      /\ TupleMass(t) \in Nat \ {0} /\ TupleMass(u) \in Nat \ {0}
      /\ TupleMass(Append(t, c)) = TupleMass(t) * c.mass
      /\ TupleMass(Append(u, c)) = TupleMass(u) * c.mass
      /\ c.mass \in Nat \ {0}
  BY MassMore DEF Candidate
<1>2. CASE TupleMass(t) > TupleMass(u)
  <2>1. TupleMass(t) * c.mass > TupleMass(u) * c.mass
    BY <1>1, <1>2, TimesMass
  <2> QED BY <1>1, <2>1 DEF Heavier
<1>3. CASE TupleMass(t) = TupleMass(u) /\ WordsLess(TupleWords(t), TupleWords(u))
  <2>1. /\ TupleWords(t) \in Texts(m) /\ TupleWords(u) \in Texts(m)
        /\ TupleWords(Append(t, c)) \in Texts(m + 1)
        /\ TupleWords(Append(u, c)) \in Texts(m + 1)
    BY <1>1 DEF Tuples, TupleWords, Candidate, Texts
  <2>2. \A i \in 1..m : /\ TupleWords(Append(t, c))[i] = TupleWords(t)[i]
                        /\ TupleWords(Append(u, c))[i] = TupleWords(u)[i]
    <3>1. t \in Seq(Candidate) /\ u \in Seq(Candidate) /\ Len(t) = m /\ Len(u) = m
      BY DEF Tuples
    <3> QED BY <3>1 DEF TupleWords
  <2>3. WordsLess(TupleWords(Append(t, c)), TupleWords(Append(u, c)))
    BY <1>3, <2>1, <2>2, WordsMore
  <2> QED BY <1>1, <1>3, <2>3 DEF Heavier
<1> QED BY <1>2, <1>3 DEF Heavier

-----------------------------------------------------------------------------
(* The foremost tuples *)

Above(A, t) == {u \in A : Heavier(u, t)}

\* Those above a tuple of a finite set are finitely many.
LEMMA AboveFinite ==
  ASSUME NEW A, IsFiniteSet(A), NEW t
  PROVE  IsFiniteSet(Above(A, t)) /\ Cardinality(Above(A, t)) \in Nat
<1>1. Above(A, t) \in SUBSET A
  BY DEF Above
<1> QED BY <1>1, FS_Subset, FS_CardinalityType

\* A tuple is among the foremost n if fewer than n are above it.
LEMMA ForemostIs ==
  ASSUME NEW A, NEW n
  PROVE  Foremost(A, n) = {t \in A : Cardinality(Above(A, t)) < n}
BY DEF Foremost, Above

\* What is above has less above it.
LEMMA AboveLess ==
  ASSUME NEW m \in Nat, NEW A \in SUBSET Tuples(m), IsFiniteSet(A),
         NEW v \in A, NEW w \in Above(A, v)
  PROVE  Cardinality(Above(A, w)) < Cardinality(Above(A, v))
<1>1. w \in A /\ Heavier(w, v) /\ \A x \in A : Heavier(x, w) => Heavier(x, v) /\ x # w
  BY TupleOrder DEF Above
<1>2. Above(A, w) \in SUBSET (Above(A, v) \ {w})
  BY <1>1 DEF Above
<1>3. /\ IsFiniteSet(Above(A, v) \ {w}) /\ Cardinality(Above(A, v)) \in Nat
      /\ Cardinality(Above(A, v)) = Cardinality(Above(A, v) \ {w}) + 1
      /\ Cardinality(Above(A, v) \ {w}) \in Nat
  BY AboveFinite, OneLess
<1>4. Cardinality(Above(A, w)) <= Cardinality(Above(A, v) \ {w})
  BY <1>2, <1>3, FS_Subset
<1>5. Cardinality(Above(A, w)) \in Nat
  BY AboveFinite
<1> QED BY <1>3, <1>4, <1>5

\* Of those that have something above them, one has it all outside.
LEMMA TopOf ==
  ASSUME NEW m \in Nat, NEW A \in SUBSET Tuples(m), IsFiniteSet(A),
         NEW B \in SUBSET A, B # {}
  PROVE  \E v \in B : Above(A, v) \cap B = {}
<1> DEFINE T == {Cardinality(Above(A, v)) : v \in B}
<1>1. T \subseteq Nat /\ T # {}
  BY AboveFinite
<1>2. PICK x \in T : \A y \in T : ~(<<y, x>> \in OpToRel(<, Nat))
  <2> HIDE DEF T
  <2> QED BY <1>1, NatLessThanWellFounded, WFMin
<1>3. PICK v \in B : x = Cardinality(Above(A, v))
  BY <1>2
<1>4. ASSUME NEW w \in B, w \in Above(A, v) PROVE FALSE
  <2>1. Cardinality(Above(A, w)) < x
    BY <1>3, <1>4, AboveLess
  <2>2. Cardinality(Above(A, w)) \in T
    OBVIOUS
  <2> HIDE DEF T
  <2>3. <<Cardinality(Above(A, w)), x>> \in OpToRel(<, Nat)
    BY <1>1, <1>2, <2>1, <2>2 DEF OpToRel
  <2> QED BY <1>2, <2>2, <2>3
<1> QED BY <1>4

\* Of at least n tuples above one, n are among the foremost n.
LEMMA EnoughAbove ==
  ASSUME NEW m \in Nat, NEW A \in SUBSET Tuples(m), IsFiniteSet(A), NEW u \in A,
         NEW n \in Nat, Cardinality(Above(A, u)) >= n
  PROVE  Cardinality(Above(Foremost(A, n), u)) >= n
<1> DEFINE H == Above(A, u)
           G(k) == {v \in H : Cardinality(Above(A, v)) < k}
           N == {k \in Nat : k <= n => Cardinality(G(k)) >= k}
<1>1. IsFiniteSet(H) /\ Cardinality(H) \in Nat
  BY AboveFinite
<1>2. \A k : G(k) \in SUBSET H
  OBVIOUS
<1>3. \A k : IsFiniteSet(G(k)) /\ Cardinality(G(k)) \in Nat
  <2> HIDE DEF H, G
  <2> QED BY <1>1, <1>2, FS_Subset, FS_CardinalityType
<1>4. 0 \in N
  <2> HIDE DEF G
  <2> QED BY <1>3
<1>5. ASSUME NEW k \in Nat, k \in N PROVE k + 1 \in N
  <2> SUFFICES ASSUME k + 1 <= n PROVE Cardinality(G(k + 1)) >= k + 1
    OBVIOUS
  <2>1. Cardinality(G(k)) >= k
    BY <1>5
  <2>2. G(k) \in SUBSET G(k + 1)
    <3> SUFFICES ASSUME NEW v \in H, Cardinality(Above(A, v)) < k
                 PROVE  Cardinality(Above(A, v)) < k + 1
      OBVIOUS
    <3>1. Cardinality(Above(A, v)) \in Nat
      BY AboveFinite
    <3> QED BY <3>1
  <2>3. CASE Cardinality(G(k)) >= k + 1
    <3> HIDE DEF G
    <3>1. Cardinality(G(k)) <= Cardinality(G(k + 1))
      BY <1>3, <2>2, FS_Subset
    <3> QED BY <1>3, <2>3, <3>1
  <2>4. CASE Cardinality(G(k)) = k
    <3> DEFINE B == H \ G(k)
    <3>1. B \in SUBSET A /\ B # {}
      <4>1. H \in SUBSET A
        BY DEF Above
      <4>2. H # G(k)
        <5>1. Cardinality(H) >= n
          OBVIOUS
        <5> HIDE DEF H, G
        <5> QED BY <1>1, <2>4, <5>1
      <4> QED BY <4>1, <4>2
    <3>2. PICK v \in B : Above(A, v) \cap B = {}
      <4> HIDE DEF B
      <4> QED BY <3>1, TopOf
    <3>3. v \in H /\ v \notin G(k) /\ v \in A
      BY <3>1
    <3>4. Above(A, v) \in SUBSET G(k)
      <4>1. ASSUME NEW w \in Above(A, v) PROVE w \in H
        BY <3>3, TupleOrder DEF Above
      <4> HIDE DEF G, H
      <4> QED BY <3>2, <4>1
    <3>5. Cardinality(Above(A, v)) <= k
      <4> HIDE DEF G
      <4> QED BY <1>3, <2>4, <3>4, FS_Subset
    <3>6. v \in G(k + 1)
      <4>1. Cardinality(Above(A, v)) \in Nat
        BY AboveFinite
      <4> QED BY <3>3, <3>5, <4>1
    <3>7. Cardinality(G(k) \cup {v}) = k + 1 /\ G(k) \cup {v} \in SUBSET G(k + 1)
      <4> HIDE DEF G, H
      <4> QED BY <1>3, <2>2, <2>4, <3>3, <3>6, FS_AddElement
    <3>8. Cardinality(G(k) \cup {v}) <= Cardinality(G(k + 1))
      <4> HIDE DEF G
      <4> QED BY <1>3, <3>7, FS_Subset
    <3> HIDE DEF G
    <3> QED BY <1>3, <3>7, <3>8
  <2> HIDE DEF G
  <2> QED BY <1>3, <2>1, <2>3, <2>4
<1> HIDE DEF N
<1>6. Nat \subseteq N
  BY <1>4, <1>5, AllNumbers
<1>7. Cardinality(G(n)) >= n
  <2>1. n \in N
    BY <1>6
  <2> QED BY <2>1 DEF N
<1>8. G(n) = Above(Foremost(A, n), u)
  BY ForemostIs DEF Above
<1> QED BY <1>7, <1>8

-----------------------------------------------------------------------------
(* One child more *)

Longer(F, d) == {Append(t, d[k]) : t \in F, k \in DOMAIN d}

\* One child more: tuples of one candidate more, finitely many.
LEMMA LongerIs ==
  ASSUME NEW m \in Nat, NEW A \in SUBSET Tuples(m), IsFiniteSet(A), NEW d \in Seq(Candidate)
  PROVE  Longer(A, d) \in SUBSET Tuples(m + 1) /\ IsFiniteSet(Longer(A, d))
<1>1. ASSUME NEW t \in A, NEW k \in DOMAIN d PROVE Append(t, d[k]) \in Tuples(m + 1)
  BY MassMore
<1>2. Longer(A, d) \in SUBSET Tuples(m + 1)
  <2> SUFFICES ASSUME NEW x \in Longer(A, d) PROVE x \in Tuples(m + 1)
    OBVIOUS
  <2>1. PICK t \in A, k \in DOMAIN d : x = Append(t, d[k])
    BY DEF Longer
  <2> QED BY <1>1, <2>1
<1> DEFINE P == A \X DOMAIN d
           f == [tk \in P |-> Append(tk[1], d[tk[2]])]
<1>3. IsFiniteSet(P)
  <2>1. DOMAIN d = 1..Len(d) /\ Len(d) \in Nat
    OBVIOUS
  <2>2. IsFiniteSet(DOMAIN d)
    BY <2>1, FS_Interval
  <2> QED BY <2>2, FS_Product
<1>4. f \in [P -> Longer(A, d)]
  BY DEF Longer
<1>5. ASSUME NEW x \in Longer(A, d) PROVE \E y \in P : f[y] = x
  <2>1. PICK t \in A, k \in DOMAIN d : x = Append(t, d[k])
    BY DEF Longer
  <2>2. <<t, k>> \in P /\ f[<<t, k>>] = x
    BY <2>1
  <2> QED BY <2>2
<1>6. f \in Surjection(P, Longer(A, d))
  <2> HIDE DEF f, P
  <2> QED BY <1>4, <1>5 DEF Surjection
<1>7. IsFiniteSet(Longer(A, d))
  <2> HIDE DEF f, P
  <2> QED BY <1>3, <1>6, FS_Surjection
<1> QED BY <1>2, <1>7

\* Tuples that agree with the same candidate added agree.
LEMMA SameLast ==
  ASSUME NEW m \in Nat, NEW t \in Tuples(m), NEW u \in Tuples(m), NEW c \in Candidate,
         Append(t, c) = Append(u, c)
  PROVE  t = u
<1>1. t \in Seq(Candidate) /\ u \in Seq(Candidate) /\ Len(t) = m /\ Len(u) = m
  BY DEF Tuples
<1>2. \A i \in 1..m : t[i] = Append(t, c)[i] /\ u[i] = Append(u, c)[i]
  BY <1>1
<1>3. \A i \in 1..m : t[i] = u[i]
  BY <1>2
<1> QED BY <1>3 DEF Tuples

\* A tuple that is cut has as many above it, whatever word it would have got.
LEMMA StillAbove ==
  ASSUME NEW m \in Nat, NEW A \in SUBSET Tuples(m), IsFiniteSet(A), NEW d \in Seq(Candidate),
         NEW n \in Nat, NEW u \in A, u \notin Foremost(A, n), NEW k \in DOMAIN d
  PROVE  Cardinality(Above(Longer(Foremost(A, n), d), Append(u, d[k]))) >= n
<1> DEFINE F == Foremost(A, n)
           c == d[k]
           S == Above(F, u)
           T == Above(Longer(F, d), Append(u, c))
           f == [v \in S |-> Append(v, c)]
<1>1. /\ F \in SUBSET A /\ IsFiniteSet(F) /\ F \in SUBSET Tuples(m) /\ c \in Candidate
  <2>1. F \in SUBSET A
    BY DEF Foremost
  <2>2. IsFiniteSet(F)
    <3> HIDE DEF F
    <3> QED BY <2>1, FS_Subset
  <2> QED BY <2>1, <2>2
<1>2. Cardinality(S) >= n
  <2>1. Cardinality(Above(A, u)) \in Nat /\ ~(Cardinality(Above(A, u)) < n)
    BY AboveFinite, ForemostIs
  <2> QED BY <2>1, EnoughAbove
<1>3. IsFiniteSet(S) /\ Cardinality(S) \in Nat
  <2> HIDE DEF F
  <2> QED BY <1>1, AboveFinite
<1>4. IsFiniteSet(T) /\ Cardinality(T) \in Nat
  <2> HIDE DEF F, c
  <2>1. IsFiniteSet(Longer(F, d))
    BY <1>1, LongerIs
  <2> QED BY <2>1, AboveFinite
<1>5. ASSUME NEW v \in S PROVE Append(v, c) \in T
  <2>1. v \in F /\ Heavier(v, u) /\ v \in Tuples(m) /\ u \in Tuples(m)
    BY <1>1 DEF Above
  <2>2. Heavier(Append(v, c), Append(u, c))
    <3> HIDE DEF c
    <3> QED BY <1>1, <2>1, HeavierMore
  <2>3. Append(v, c) \in Longer(F, d)
    BY <2>1 DEF Longer
  <2> QED BY <2>2, <2>3 DEF Above
<1>6. f \in [S -> T]
  <2> HIDE DEF T, S, c
  <2> QED BY <1>5
<1>7. ASSUME NEW v \in S, NEW w \in S, v # w PROVE f[v] # f[w]
  <2>1. v \in Tuples(m) /\ w \in Tuples(m)
    BY <1>1 DEF Above
  <2>2. f[v] = Append(v, c) /\ f[w] = Append(w, c)
    <3> HIDE DEF S, c
    <3> QED OBVIOUS
  <2> HIDE DEF c, S, f
  <2> QED BY <1>1, <1>7, <2>1, <2>2, SameLast
<1>8. ~(Cardinality(T) < Cardinality(S))
  <2> HIDE DEF S, T, f
  <2> QED BY <1>3, <1>4, <1>6, <1>7, FS_PigeonHole
<1> HIDE DEF S, T
<1>9. Cardinality(T) >= n
  BY <1>2, <1>3, <1>4, <1>8
<1> QED BY <1>9 DEF T

\* Cutting before a child is added changes nothing of the cut after it.
LEMMA CutIsSafe ==
  ASSUME NEW m \in Nat, NEW A \in SUBSET Tuples(m), IsFiniteSet(A), NEW d \in Seq(Candidate),
         NEW n \in Nat
  PROVE  Foremost(Longer(Foremost(A, n), d), n) = Foremost(Longer(A, d), n)
<1> DEFINE F == Foremost(A, n)
           L == Longer(F, d)
           M == Longer(A, d)
<1>1. F \in SUBSET A
  BY DEF Foremost
<1>2. L \in SUBSET M
  BY <1>1 DEF Longer
<1>3. M \in SUBSET Tuples(m + 1) /\ IsFiniteSet(M) /\ IsFiniteSet(L)
  <2>1. M \in SUBSET Tuples(m + 1) /\ IsFiniteSet(M)
    BY LongerIs
  <2> HIDE DEF L, M
  <2> QED BY <1>2, <2>1, FS_Subset
<1>4. \A x : /\ IsFiniteSet(Above(L, x)) /\ Cardinality(Above(L, x)) \in Nat
             /\ IsFiniteSet(Above(M, x)) /\ Cardinality(Above(M, x)) \in Nat
             /\ Cardinality(Above(L, x)) <= Cardinality(Above(M, x))
  <2> HIDE DEF L, M
  <2> TAKE x
  <2>1. Above(L, x) \in SUBSET Above(M, x)
    BY <1>2 DEF Above
  <2>2. IsFiniteSet(Above(M, x))
    BY <1>3, AboveFinite
  <2> QED BY <1>3, <2>1, <2>2, AboveFinite, FS_Subset
<1>5. ASSUME NEW y \in M, y \notin L PROVE Cardinality(Above(L, y)) >= n
  <2>1. PICK u \in A, k \in DOMAIN d : y = Append(u, d[k])
    BY DEF Longer
  <2>2. u \notin F
    BY <1>5, <2>1 DEF Longer
  <2> QED BY <2>1, <2>2, StillAbove
<1>6. ASSUME NEW x \in Foremost(M, n) PROVE x \in Foremost(L, n)
  <2> HIDE DEF L, M
  <2>1. x \in M /\ Cardinality(Above(M, x)) < n
    BY ForemostIs
  <2>2. Cardinality(Above(L, x)) < n
    BY <1>4, <2>1
  <2>3. x \in L
    BY <1>4, <1>5, <2>1, <2>2
  <2> QED BY <2>2, <2>3, ForemostIs
<1>7. ASSUME NEW x \in Foremost(L, n) PROVE x \in Foremost(M, n)
  <2> HIDE DEF L, M
  <2>1. x \in L /\ x \in M /\ Cardinality(Above(L, x)) < n
    BY <1>2, ForemostIs
  <2>2. ASSUME NEW y \in Above(M, x), y \notin L PROVE FALSE
    <3>1. y \in M /\ Heavier(y, x)
      BY DEF Above
    <3>2. Above(L, y) \in SUBSET Above(L, x)
      <4> SUFFICES ASSUME NEW z \in L, Heavier(z, y) PROVE Heavier(z, x)
        BY DEF Above
      <4>1. z \in Tuples(m + 1) /\ y \in Tuples(m + 1) /\ x \in Tuples(m + 1)
        BY <1>2, <1>3, <2>1, <3>1
      <4> QED BY <3>1, <4>1, TupleOrder
    <3>3. Cardinality(Above(L, y)) <= Cardinality(Above(L, x))
      BY <1>4, <3>2, FS_Subset
    <3>4. Cardinality(Above(L, y)) >= n
      BY <1>5, <2>2, <3>1
    <3> QED BY <1>4, <2>1, <3>3, <3>4
  <2>3. Above(M, x) = Above(L, x)
    BY <1>2, <2>2 DEF Above
  <2> QED BY <2>1, <2>3, ForemostIs
<1> HIDE DEF L, M
<1>8. Foremost(L, n) = Foremost(M, n)
  BY <1>6, <1>7
<1> QED BY <1>8 DEF L, M

-----------------------------------------------------------------------------
(* The list of tuples *)

\* What is kept of a list: the foremost, or all.
Kept(S, cut) == IF cut THEN Foremost(S, MaxTuples) ELSE S

ListFold(dists, cut, g) ==
  g = [s \in SUBSET DOMAIN dists |->
         IF s = {} THEN {<<>>} ELSE Kept(Longer(g[s \ {Max(s)}], dists[Max(s)]), cut)]
Listed(dists, cut) == (CHOOSE g : ListFold(dists, cut, g))[DOMAIN dists]

\* Both lists are one fold, with a cut after each child or without.
LEMMA ListsAreFolds ==
  ASSUME NEW dists
  PROVE  /\ CandidateTuples(dists) = Listed(dists, TRUE)
         /\ FrontierIsExact(dists)
              = (CandidateTuples(dists) = Foremost(Listed(dists, FALSE), MaxTuples))
<1>1. CandidateTuples(dists) = Listed(dists, TRUE)
  BY DEF CandidateTuples, FoldLeft, MapThenFoldSet, Listed, ListFold, Kept, Longer
<1>2. FrontierIsExact(dists)
        = (CandidateTuples(dists) = Foremost(Listed(dists, FALSE), MaxTuples))
  BY DEF FrontierIsExact, FoldLeft, MapThenFoldSet, Listed, ListFold, Kept, Longer
<1> QED BY <1>1, <1>2

\* That fold, child by child.
LEMMA ListIs ==
  ASSUME NEW dists \in Seq(Seq(Candidate)), NEW cut \in BOOLEAN
  PROVE  \E g : /\ Listed(dists, cut) = g[1..Len(dists)] /\ g[1..0] = {<<>>}
                /\ \A i \in 1..Len(dists) :
                     g[1..i] = Kept(Longer(g[1..(i - 1)], dists[i]), cut)
<1> DEFINE n == Len(dists)
           V == SUBSET Seq(Candidate)
           h == [iv \in (1..n) \X V |-> Kept(Longer(iv[2], dists[iv[1]]), cut)]
<1>1. n \in Nat /\ DOMAIN dists = 1..n
  OBVIOUS
<1>2. ASSUME NEW i \in 1..n, NEW S \in V PROVE Kept(Longer(S, dists[i]), cut) \in V
  <2>1. dists[i] \in Seq(Candidate)
    OBVIOUS
  <2>2. ASSUME NEW x \in Longer(S, dists[i]) PROVE x \in Seq(Candidate)
    <3>1. PICK t \in S, k \in DOMAIN dists[i] : x = Append(t, dists[i][k])
      BY DEF Longer
    <3>2. t \in Seq(Candidate) /\ dists[i][k] \in Candidate
      BY <2>1
    <3> QED BY <3>1, <3>2
  <2> QED BY <2>2 DEF Kept, Foremost
<1>3. h \in Ways(V, n)
  BY <1>2 DEF Ways
<1>4. {<<>>} \in V
  OBVIOUS
<1>5. \E g : ListFold(dists, cut, g)
  <2> HIDE DEF h, V
  <2>1. LeftFolds(V, {<<>>}, n, h) # {}
    BY <1>1, <1>3, <1>4, LeftFoldExists
  <2>2. PICK g \in [SUBSET (1..n) -> V] :
          \A s \in SUBSET (1..n) : g[s] = LeftStep({<<>>}, h, g, s)
    BY <2>1 DEF LeftFolds
  <2>3. ASSUME NEW s \in SUBSET (1..n), s # {}
        PROVE  g[s] = Kept(Longer(g[s \ {Max(s)}], dists[Max(s)]), cut)
    <3>1. Max(s) \in 1..n /\ s \ {Max(s)} \in SUBSET (1..n)
      BY <1>1, <2>3, MaxIn
    <3>2. <<Max(s), g[s \ {Max(s)}]>> \in (1..n) \X V
      BY <3>1
    <3>3. h[<<Max(s), g[s \ {Max(s)}]>>] = Kept(Longer(g[s \ {Max(s)}], dists[Max(s)]), cut)
      BY <3>2 DEF h
    <3> QED BY <2>2, <2>3, <3>3 DEF LeftStep
  <2>4. g[{}] = {<<>>}
    BY <2>2 DEF LeftStep
  <2>5. ListFold(dists, cut, g)
    BY <1>1, <2>2, <2>3, <2>4 DEF ListFold
  <2> QED BY <2>5
<1> DEFINE g == CHOOSE f : ListFold(dists, cut, f)
<1>6. ListFold(dists, cut, g)
  BY <1>5
<1>7. Listed(dists, cut) = g[1..n]
  BY <1>1 DEF Listed
<1> HIDE DEF g, n
<1>8. ASSUME NEW s \in SUBSET (1..n)
      PROVE  g[s] = IF s = {} THEN {<<>>}
                    ELSE Kept(Longer(g[s \ {Max(s)}], dists[Max(s)]), cut)
  BY <1>1, <1>6 DEF ListFold
<1>9. g[1..0] = {<<>>}
  <2>1. 1..0 = {}
    OBVIOUS
  <2> QED BY <2>1, <1>8
<1>10. ASSUME NEW i \in 1..n PROVE g[1..i] = Kept(Longer(g[1..(i - 1)], dists[i]), cut)
  <2>1. 1..i \in SUBSET (1..n) /\ 1..i # {} /\ Max(1..i) = i /\ (1..i) \ {i} = 1..(i - 1)
    <3>1. i \in Nat \ {0} /\ i <= n
      BY <1>1
    <3>2. Max(1..i) = i /\ (1..i) \ {i} = 1..(i - 1)
      BY <3>1, LastUpTo
    <3>3. 1..i \in SUBSET (1..n) /\ i \in 1..i
      BY <1>1, <3>1
    <3>4. 1..i # {}
      BY <3>3
    <3> QED BY <3>2, <3>3, <3>4
  <2> QED BY <2>1, <1>8
<1> QED BY <1>7, <1>9, <1>10 DEF n

\* traversal/assembler.py, _tuple_budget: "a tuple is only ever dropped in favour
\* of tuples the children themselves scored higher".  However many children and
\* candidates there are and whatever the budget is, cutting the list after each
\* child leaves what one cut of the whole product would have left.
THEOREM FrontiersAreExact ==
  ASSUME NEW dists \in Seq(Seq(Candidate))
  PROVE  FrontierIsExact(dists)
<1> DEFINE n == Len(dists)
<1>1. PICK f : /\ Listed(dists, TRUE) = f[1..n] /\ f[1..0] = {<<>>}
               /\ \A i \in 1..n : f[1..i] = Kept(Longer(f[1..(i - 1)], dists[i]), TRUE)
  BY ListIs
<1>2. PICK g : /\ Listed(dists, FALSE) = g[1..n] /\ g[1..0] = {<<>>}
               /\ \A i \in 1..n : g[1..i] = Kept(Longer(g[1..(i - 1)], dists[i]), FALSE)
  BY ListIs
<1> DEFINE Good(i) == /\ g[1..i] \in SUBSET Tuples(i) /\ IsFiniteSet(g[1..i])
                      /\ f[1..i] = Foremost(g[1..i], MaxTuples)
           N == {i \in Nat : i <= n => Good(i)}
<1>3. MaxTuples \in Nat \ {0} /\ n \in Nat
  BY AssemblyAssumption
<1>4. 0 \in N
  <2> DEFINE S == {<<>>}
  <2>1. S \in SUBSET Tuples(0) /\ IsFiniteSet(S)
    <3>1. <<>> \in [1..0 -> Candidate]
      OBVIOUS
    <3>2. IsFiniteSet(S)
      BY FS_Singleton
    <3> QED BY <3>1, <3>2 DEF Tuples
  <2>2. Above(S, <<>>) = {}
    BY <2>1, TupleOrder DEF Above
  <2>3. Foremost(S, MaxTuples) = S
    <3>1. Cardinality(Above(S, <<>>)) < MaxTuples
      <4>1. Cardinality(Above(S, <<>>)) = 0
        BY <2>2, FS_EmptySet, Zenon
      <4> HIDE DEF S
      <4> QED BY <1>3, <4>1
    <3> QED BY <3>1, ForemostIs
  <2>4. Good(0)
    BY <1>1, <1>2, <2>1, <2>3
  <2> HIDE DEF Good
  <2> QED BY <2>4
<1>5. ASSUME NEW i \in Nat, i \in N PROVE i + 1 \in N
  <2> SUFFICES ASSUME i + 1 <= n PROVE Good(i + 1)
    OBVIOUS
  <2>1. Good(i)
    BY <1>3, <1>5
  <2>2. i + 1 \in 1..n /\ (i + 1) - 1 = i /\ dists[i + 1] \in Seq(Candidate)
    BY <1>3
  <2> HIDE DEF n
  <2>3. /\ f[1..(i + 1)] = Foremost(Longer(f[1..i], dists[i + 1]), MaxTuples)
        /\ g[1..(i + 1)] = Longer(g[1..i], dists[i + 1])
    BY <1>1, <1>2, <2>2 DEF Kept
  <2>4. g[1..(i + 1)] \in SUBSET Tuples(i + 1) /\ IsFiniteSet(g[1..(i + 1)])
    BY <2>1, <2>2, <2>3, LongerIs
  <2>5. f[1..(i + 1)] = Foremost(g[1..(i + 1)], MaxTuples)
    BY <1>3, <2>1, <2>2, <2>3, CutIsSafe
  <2> QED BY <2>4, <2>5
<1> HIDE DEF N
<1>6. Nat \subseteq N
  BY <1>4, <1>5, AllNumbers
<1>7. Good(n)
  <2>1. n \in N
    BY <1>3, <1>6
  <2> QED BY <1>3, <2>1 DEF N
<1>8. CandidateTuples(dists) = Foremost(Listed(dists, FALSE), MaxTuples)
  BY <1>1, <1>2, <1>7, ListsAreFolds
<1> QED BY <1>8, ListsAreFolds

-----------------------------------------------------------------------------
(* The rules of Rules *)

\* A rule as the parser makes it: something to match, and an environment.
Law ==
  [target : Seq(Nat) \ {<<>>}, replacement : Seq(Nat), left : Seq(Nat), right : Seq(Nat),
   initial : BOOLEAN, final : BOOLEAN]

\* The matches up to i that are rewritten, when those up to i - 1 are S.
Rewritten(r, s, S, i) ==
  IF i \in Matching(r, s) /\ \A j \in S : i >= j + Len(r.target) THEN S \cup {i} ELSE S

SelectFold(r, s, g) ==
  LET q == [i \in 1..Len(s) |-> i]
  IN  g = [x \in SUBSET DOMAIN q |->
             IF x = {} THEN {} ELSE Rewritten(r, s, g[x \ {Max(x)}], q[Max(x)])]

\* The choice of matches is a fold of the positions.
LEMMA SelectedIsFold ==
  ASSUME NEW r, NEW s
  PROVE  Selected(r, s) = (CHOOSE g : SelectFold(r, s, g))[DOMAIN [i \in 1..Len(s) |-> i]]
BY DEF Selected, FoldLeft, MapThenFoldSet, SelectFold, Rewritten

\* Which matches are rewritten is decided from the left.
FromTheLeft(r, s, g) ==
  /\ Selected(r, s) = g[1..Len(s)] /\ g[1..0] = {}
  /\ \A i \in 1..Len(s) : g[1..i] = Rewritten(r, s, g[1..(i - 1)], i)

\* Such a way from the left exists.
LEMMA SelectedIs == ASSUME NEW r, NEW s \in Seq(Nat) PROVE \E g : FromTheLeft(r, s, g)
<1> DEFINE n == Len(s)
           V == SUBSET (1..n)
           q == [i \in 1..n |-> i]
           h == [iv \in (1..n) \X V |-> Rewritten(r, s, iv[2], iv[1])]
<1>1. n \in Nat /\ DOMAIN q = 1..n /\ \A i \in 1..n : q[i] = i
  OBVIOUS
<1>2. h \in Ways(V, n)
  BY DEF Ways, Rewritten
<1>3. \E g : SelectFold(r, s, g)
  <2> HIDE DEF h, n
  <2>1. LeftFolds(V, {}, n, h) # {}
    BY <1>1, <1>2, LeftFoldExists
  <2>2. PICK g \in [SUBSET (1..n) -> V] :
          \A x \in SUBSET (1..n) : g[x] = LeftStep({}, h, g, x)
    BY <2>1 DEF LeftFolds
  <2>3. ASSUME NEW x \in SUBSET (1..n), x # {}
        PROVE  g[x] = Rewritten(r, s, g[x \ {Max(x)}], Max(x)) /\ Max(x) \in 1..n
    <3>1. Max(x) \in 1..n /\ x \ {Max(x)} \in SUBSET (1..n)
      BY <1>1, <2>3, MaxIn
    <3>2. <<Max(x), g[x \ {Max(x)}]>> \in (1..n) \X V
      BY <3>1
    <3>3. h[<<Max(x), g[x \ {Max(x)}]>>] = Rewritten(r, s, g[x \ {Max(x)}], Max(x))
      BY <3>2 DEF h
    <3> QED BY <2>2, <2>3, <3>1, <3>3 DEF LeftStep
  <2>4. g[{}] = {}
    BY <2>2 DEF LeftStep
  <2>5. ASSUME NEW x \in SUBSET DOMAIN q
        PROVE  g[x] = IF x = {} THEN {} ELSE Rewritten(r, s, g[x \ {Max(x)}], q[Max(x)])
    BY <1>1, <2>3, <2>4
  <2>6. g = [x \in SUBSET DOMAIN q |-> g[x]]
    BY <1>1, <2>2
  <2> HIDE DEF q
  <2>7. g = [x \in SUBSET DOMAIN q |->
               IF x = {} THEN {} ELSE Rewritten(r, s, g[x \ {Max(x)}], q[Max(x)])]
    BY <2>5, <2>6
  <2>8. SelectFold(r, s, g)
    BY <2>7 DEF SelectFold, q, n
  <2> QED BY <2>8
<1> DEFINE g == CHOOSE f : SelectFold(r, s, f)
<1>4. SelectFold(r, s, g)
  BY <1>3
<1>5. Selected(r, s) = g[1..n]
  BY <1>1, SelectedIsFold
<1> HIDE DEF g
<1>6. ASSUME NEW x \in SUBSET (1..n)
      PROVE  g[x] = IF x = {} THEN {} ELSE Rewritten(r, s, g[x \ {Max(x)}], q[Max(x)])
  BY <1>1, <1>4 DEF SelectFold
<1>7. g[1..0] = {}
  <2>1. 1..0 = {}
    OBVIOUS
  <2> QED BY <2>1, <1>6
<1>8. ASSUME NEW i \in 1..n PROVE g[1..i] = Rewritten(r, s, g[1..(i - 1)], i)
  <2> HIDE DEF n
  <2>1. i \in Nat \ {0} /\ i <= n
    BY <1>1
  <2>2. Max(1..i) = i /\ (1..i) \ {i} = 1..(i - 1)
    BY <2>1, LastUpTo
  <2>3. 1..i \in SUBSET (1..n) /\ i \in 1..i
    BY <1>1, <2>1
  <2>4. q[Max(1..i)] = i
    BY <2>2
  <2> HIDE DEF q
  <2> QED BY <1>6, <2>2, <2>3, <2>4
<1> QED BY <1>5, <1>7, <1>8 DEF n, FromTheLeft

\* Matches are positions of the word.
LEMMA MatchingIn == ASSUME NEW r, NEW s PROVE Matching(r, s) \in SUBSET (1..Len(s))
BY DEF Matching, Occurrences

\* S is apart and leaves none of M out without a reason, as far as i.
ApartUpTo(M, n, S, i) ==
  /\ S \in SUBSET M /\ \A j \in S : j <= i
  /\ \A a, b \in S : a # b => a >= b + n \/ b >= a + n
  /\ \A a \in M \ S : a <= i => \E b \in S : b < a /\ a < b + n

\* Deciding one more position keeps that.
LEMMA OneMoreApart ==
  ASSUME NEW n \in Nat, NEW M \in SUBSET Nat, NEW i \in Nat, NEW S, ApartUpTo(M, n, S, i),
         NEW T, T = IF i + 1 \in M /\ \A j \in S : i + 1 >= j + n THEN S \cup {i + 1} ELSE S
  PROVE  ApartUpTo(M, n, T, i + 1)
<1> USE DEF ApartUpTo
<1>0. \A j \in S : j \in Nat /\ j <= i
  OBVIOUS
<1>1. CASE i + 1 \in M /\ \A j \in S : i + 1 >= j + n
  <2>1. T = S \cup {i + 1}
    BY <1>1
  <2>2. \A a, b \in T : a # b => a >= b + n \/ b >= a + n
    <3> TAKE a, b \in T
    <3> QED BY <1>0, <1>1, <2>1
  <2>3. ASSUME NEW a \in M \ T, a <= i + 1 PROVE \E b \in T : b < a /\ a < b + n
    <3>1. a \in M \ S /\ a <= i
      BY <2>1, <2>3
    <3> QED BY <2>1, <3>1
  <2> QED BY <1>0, <1>1, <2>1, <2>2, <2>3
<1>2. CASE i + 1 \in M /\ ~(\A j \in S : i + 1 >= j + n)
  <2>1. T = S
    BY <1>2
  <2>2. PICK j \in S : ~(i + 1 >= j + n)
    BY <1>2
  <2>3. j < i + 1 /\ i + 1 < j + n
    BY <1>0, <2>2
  <2>4. ASSUME NEW a \in M \ T, a <= i + 1 PROVE \E b \in T : b < a /\ a < b + n
    <3>1. a <= i \/ a = i + 1
      BY <2>4
    <3> QED BY <2>1, <2>3, <3>1
  <2> QED BY <1>0, <2>1, <2>4
<1>3. CASE i + 1 \notin M
  <2>1. T = S
    BY <1>3
  <2>2. ASSUME NEW a \in M \ T, a <= i + 1 PROVE a <= i
    BY <1>3, <2>2
  <2> QED BY <1>0, <2>1, <2>2
<1> QED BY <1>1, <1>2, <1>3

\* The rewritten matches are apart, and a match left alone overlaps one before it.
LEMMA SelectedApart ==
  ASSUME NEW r, r.target \in Seq(Nat), NEW s \in Seq(Nat)
  PROVE  /\ Selected(r, s) \in SUBSET Matching(r, s)
         /\ \A i, j \in Selected(r, s) :
              i # j => i >= j + Len(r.target) \/ j >= i + Len(r.target)
         /\ \A i \in Matching(r, s) \ Selected(r, s) :
              \E j \in Selected(r, s) : j < i /\ i < j + Len(r.target)
<1>0. PICK g : FromTheLeft(r, s, g)
  BY SelectedIs
<1>1. /\ Selected(r, s) = g[1..Len(s)] /\ g[1..0] = {}
      /\ \A i \in 1..Len(s) : g[1..i] = Rewritten(r, s, g[1..(i - 1)], i)
  BY <1>0 DEF FromTheLeft
<1> DEFINE n == Len(r.target)
           M == Matching(r, s)
<1> DEFINE N == {i \in Nat : i <= Len(s) => ApartUpTo(M, n, g[1..i], i)}
<1>2. n \in Nat /\ Len(s) \in Nat /\ M \in SUBSET (1..Len(s))
  BY MatchingIn
<1>3. 0 \in N
  BY <1>1, <1>2 DEF ApartUpTo
<1>4. ASSUME NEW i \in Nat, i \in N PROVE i + 1 \in N
  <2> SUFFICES ASSUME i + 1 <= Len(s) PROVE ApartUpTo(M, n, g[1..(i + 1)], i + 1)
    OBVIOUS
  <2>1. ApartUpTo(M, n, g[1..i], i)
    BY <1>2, <1>4
  <2>2. g[1..(i + 1)] = IF i + 1 \in M /\ \A j \in g[1..i] : i + 1 >= j + n
                        THEN g[1..i] \cup {i + 1} ELSE g[1..i]
    <3>1. i + 1 \in 1..Len(s) /\ (i + 1) - 1 = i
      BY <1>2
    <3> QED BY <1>1, <3>1 DEF Rewritten
  <2>3. M \in SUBSET Nat
    BY <1>2
  <2> HIDE DEF M, n
  <2> QED BY <1>2, <2>1, <2>2, <2>3, OneMoreApart
<1> HIDE DEF N
<1>5. Nat \subseteq N
  BY <1>3, <1>4, AllNumbers
<1>6. ApartUpTo(M, n, g[1..Len(s)], Len(s))
  BY <1>2, <1>5 DEF N
<1> HIDE DEF n
<1> QED BY <1>1, <1>2, <1>6 DEF n, ApartUpTo

\* The rewritten word from i on, given what follows it.
Onwards(r, s, f, i) ==
  IF i > Len(s) THEN <<>>
  ELSE IF i \in Selected(r, s) THEN r.replacement \o f[i + Len(r.target)]
  ELSE <<s[i]>> \o f[i + 1]

Positions(r, s) == 1..Len(s) + Len(r.target) + 1
ReplaceFold(r, s, f) == f = [i \in Positions(r, s) |-> Onwards(r, s, f, i)]

\* The rewriting is a fold of the positions, from the right.
LEMMA ReplaceIsFold ==
  ASSUME NEW r, NEW s PROVE Replace(r, s) = (CHOOSE f : ReplaceFold(r, s, f))[1]
BY DEF Replace, ReplaceFold, Onwards, Positions

\* The rewritten word and all its ends.
FromTheRight(r, s, f) ==
  /\ Replace(r, s) = f[1] /\ f \in [Positions(r, s) -> Seq(Nat)]
  /\ \A i \in Positions(r, s) : f[i] = Onwards(r, s, f, i)

\* What is right in the last k positions.
Ends(r, s, k) ==
  {f \in [Positions(r, s) -> Seq(Nat)] :
     \A i \in Positions(r, s) : i > Len(s) - k => f[i] = Onwards(r, s, f, i)}

\* Which positions there are.
LEMMA PositionsIn ==
  ASSUME NEW r, r.target \in Seq(Nat) \ {<<>>}, NEW s \in Seq(Nat)
  PROVE  /\ Len(s) \in Nat /\ Len(r.target) \in Nat \ {0}
         /\ \A i \in Positions(r, s) : i \in Nat /\ i >= 1
         /\ 1 \in Positions(r, s)
         /\ \A i \in 1..Len(s) : /\ i \in Positions(r, s) /\ i + 1 \in Positions(r, s)
                                 /\ i + Len(r.target) \in Positions(r, s)
BY DEF Positions

\* A segment of a word, alone.
LEMMA OneSegment ==
  ASSUME NEW s \in Seq(Nat), NEW i \in 1..Len(s)
  PROVE  s[i] \in Nat /\ <<s[i]>> \in Seq(Nat) /\ Len(<<s[i]>>) = 1 /\ <<s[i]>>[1] = s[i]
OBVIOUS

\* The map can be carried one position further to the left.
LEMMA OneMoreEnd ==
  ASSUME NEW r, r.target \in Seq(Nat) \ {<<>>}, r.replacement \in Seq(Nat),
         NEW s \in Seq(Nat), NEW k \in Nat, k + 1 <= Len(s), NEW g \in Ends(r, s, k)
  PROVE  \E f : f \in Ends(r, s, k + 1)
<1> DEFINE a == Len(s) - k
           f == [g EXCEPT ![a] = Onwards(r, s, g, a)]
           n == Len(r.target)
<1>0. Len(s) \in Nat /\ a \in 1..Len(s) /\ a = Len(s) - k
  OBVIOUS
<1> HIDE DEF a, f, n
<1>1. /\ n \in Nat \ {0} /\ \A i \in Positions(r, s) : i \in Nat /\ i >= 1
      /\ a \in Positions(r, s)
      /\ a + 1 \in Positions(r, s) /\ a + n \in Positions(r, s)
  BY <1>0, PositionsIn DEF n
<1>2. \A i \in Positions(r, s) : i > Len(s) - (k + 1) => i >= a
  BY <1>0, <1>1
<1>3. /\ g \in [Positions(r, s) -> Seq(Nat)]
      /\ \A i \in Positions(r, s) : i > a => g[i] = Onwards(r, s, g, i)
  BY DEF Ends, a
<1>4. Onwards(r, s, g, a) \in Seq(Nat)
  <2>1. g[a + 1] \in Seq(Nat) /\ g[a + n] \in Seq(Nat)
    BY <1>1, <1>3
  <2>2. <<s[a]>> \in Seq(Nat)
    BY <1>0
  <2>3. <<s[a]>> \o g[a + 1] \in Seq(Nat)
    BY <2>1, <2>2
  <2>4. r.replacement \o g[a + n] \in Seq(Nat)
    BY <2>1
  <2> QED BY <2>3, <2>4 DEF Onwards, n
<1>5. f \in [Positions(r, s) -> Seq(Nat)]
  BY <1>1, <1>3, <1>4 DEF f
<1>6. (\A i \in Positions(r, s) : i # a => f[i] = g[i]) /\ f[a] = Onwards(r, s, g, a)
  BY <1>1, <1>3 DEF f
<1>7. ASSUME NEW i \in Positions(r, s), i >= a PROVE Onwards(r, s, f, i) = Onwards(r, s, g, i)
  <2>0. i \in Nat /\ i >= 1 /\ Len(s) \in Nat /\ a \in Nat
    BY <1>0, <1>1
  <2>1. CASE i > Len(s)
    BY <2>1 DEF Onwards
  <2>2. CASE i <= Len(s)
    <3>1. i \in 1..Len(s)
      BY <2>0, <2>2
    <3>2. i + 1 \in Positions(r, s) /\ i + n \in Positions(r, s)
      BY <3>1, PositionsIn DEF n
    <3>3. i + 1 # a /\ i + n # a
      <4>1. n \in Nat /\ n >= 1
        BY <1>1
      <4> QED BY <2>0, <4>1, <1>7
    <3>4. f[i + 1] = g[i + 1] /\ f[i + n] = g[i + n]
      BY <1>6, <3>2, <3>3
    <3> QED BY <3>4 DEF Onwards, n
  <2> QED BY <2>0, <2>1, <2>2
<1>8. ASSUME NEW i \in Positions(r, s), i >= a PROVE f[i] = Onwards(r, s, f, i)
  <2>0. i \in Nat /\ a \in Nat
    BY <1>0, <1>1
  <2>1. CASE i = a
    BY <1>6, <1>7, <1>8, <2>1
  <2>2. CASE i # a
    <3>1. i > a
      BY <1>8, <2>0, <2>2
    <3> QED BY <1>3, <1>6, <1>7, <1>8, <2>2, <3>1
  <2> QED BY <2>1, <2>2
<1> QED BY <1>2, <1>5, <1>8 DEF Ends

\* Such a map exists for the whole word.
LEMMA EndsExist ==
  ASSUME NEW r, r.target \in Seq(Nat) \ {<<>>}, r.replacement \in Seq(Nat), NEW s \in Seq(Nat)
  PROVE  \E f : ReplaceFold(r, s, f)
<1> DEFINE N == {k \in Nat : k <= Len(s) => Ends(r, s, k) # {}}
<1>1. 0 \in N
  <2> DEFINE f == [i \in Positions(r, s) |-> <<>>]
  <2>1. \A i \in Positions(r, s) : i > Len(s) - 0 => f[i] = Onwards(r, s, f, i)
    BY PositionsIn DEF Onwards
  <2>2. f \in Ends(r, s, 0)
    BY <2>1 DEF Ends
  <2> HIDE DEF f
  <2> QED BY <2>2
<1>2. ASSUME NEW k \in Nat, k \in N PROVE k + 1 \in N
  <2> SUFFICES ASSUME k + 1 <= Len(s) PROVE Ends(r, s, k + 1) # {}
    OBVIOUS
  <2>1. k <= Len(s)
    BY PositionsIn
  <2>2. PICK g : g \in Ends(r, s, k)
    BY <1>2, <2>1
  <2> HIDE DEF N
  <2> QED BY <2>2, OneMoreEnd
<1> HIDE DEF N
<1>3. Len(s) \in N
  BY <1>1, <1>2, AllNumbers, PositionsIn
<1>4. PICK g : g \in Ends(r, s, Len(s))
  BY <1>3, PositionsIn DEF N
<1>5. \A i \in Positions(r, s) : i > Len(s) - Len(s)
  BY PositionsIn
<1>6. /\ g \in [Positions(r, s) -> Seq(Nat)]
      /\ \A i \in Positions(r, s) : g[i] = Onwards(r, s, g, i)
  BY <1>4, <1>5 DEF Ends
<1>7. g = [i \in Positions(r, s) |-> g[i]]
  BY <1>6
<1>8. g = [i \in Positions(r, s) |-> Onwards(r, s, g, i)]
  BY <1>6, <1>7
<1> QED BY <1>8 DEF ReplaceFold

\* The rewritten word is read off such a map.
LEMMA ReplaceIs ==
  ASSUME NEW r, r.target \in Seq(Nat) \ {<<>>}, r.replacement \in Seq(Nat), NEW s \in Seq(Nat)
  PROVE  \E f : FromTheRight(r, s, f)
<1> DEFINE f == CHOOSE x : ReplaceFold(r, s, x)
<1>1. ReplaceFold(r, s, f)
  BY EndsExist
<1>2. Replace(r, s) = f[1]
  BY ReplaceIsFold
<1> HIDE DEF f
<1>3. f = [i \in Positions(r, s) |-> Onwards(r, s, f, i)]
  BY <1>1 DEF ReplaceFold
<1>4. \A i \in Positions(r, s) : f[i] = Onwards(r, s, f, i)
  BY <1>3
<1> DEFINE Typed(k) == \A i \in Positions(r, s) : i > Len(s) - k => f[i] \in Seq(Nat)
           K == {k \in Nat : k <= Len(s) => Typed(k)}
<1>5. 0 \in K
  <2>1. ASSUME NEW i \in Positions(r, s), i > Len(s) - 0 PROVE f[i] \in Seq(Nat)
    <3>1. i > Len(s)
      BY <2>1, PositionsIn
    <3>2. f[i] = <<>>
      BY <1>4, <3>1 DEF Onwards
    <3> QED BY <3>2
  <2> QED BY <2>1
<1>6. ASSUME NEW k \in Nat, k \in K PROVE k + 1 \in K
  <2> SUFFICES ASSUME k + 1 <= Len(s), NEW i \in Positions(r, s), i > Len(s) - (k + 1)
               PROVE  f[i] \in Seq(Nat)
    OBVIOUS
  <2>1. Typed(k)
    BY <1>6, PositionsIn
  <2>2. CASE i > Len(s) - k
    BY <2>1, <2>2
  <2>3. CASE i = Len(s) - k
    <3>0. i \in 1..Len(s) /\ i + 1 > Len(s) - k /\ i + Len(r.target) > Len(s) - k
      <4> HIDE DEF Typed, K
      <4>1. /\ Len(s) \in Nat /\ Len(r.target) \in Nat \ {0}
            /\ i \in Nat /\ i >= 1
        BY PositionsIn
      <4> QED BY <2>3, <4>1
    <3>1. /\ i \in 1..Len(s) /\ i + 1 > Len(s) - k /\ i + Len(r.target) > Len(s) - k
          /\ i + 1 \in Positions(r, s) /\ i + Len(r.target) \in Positions(r, s)
      BY <3>0, PositionsIn
    <3>2. f[i + 1] \in Seq(Nat) /\ f[i + Len(r.target)] \in Seq(Nat)
      BY <2>1, <3>1
    <3>3. <<s[i]>> \in Seq(Nat)
      BY <3>1, OneSegment
    <3>4. <<s[i]>> \o f[i + 1] \in Seq(Nat)
      BY <3>2, <3>3
    <3>5. r.replacement \o f[i + Len(r.target)] \in Seq(Nat)
      BY <3>2
    <3>6. Onwards(r, s, f, i) \in Seq(Nat)
      BY <3>4, <3>5 DEF Onwards
    <3> QED BY <1>4, <3>6
  <2> QED BY <2>2, <2>3, PositionsIn
<1> HIDE DEF K
<1>7. Len(s) \in K
  BY <1>5, <1>6, AllNumbers, PositionsIn
<1>8. \A i \in Positions(r, s) : i > Len(s) - Len(s)
  BY PositionsIn
<1>9. \A i \in Positions(r, s) : f[i] \in Seq(Nat)
  BY <1>7, <1>8, PositionsIn DEF K
<1>10. f \in [Positions(r, s) -> Seq(Nat)]
  BY <1>3, <1>9
<1> QED BY <1>2, <1>4, <1>10 DEF FromTheRight

\* What an occurrence is.
LEMMA StandsIs ==
  ASSUME NEW t \in Seq(Nat), NEW s \in Seq(Nat), NEW i \in Occurrences(s, t)
  PROVE  /\ i \in Nat \ {0} /\ i <= Len(s) /\ i + Len(t) - 1 <= Len(s)
         /\ \A k \in 1..Len(t) : i + k - 1 \in 1..Len(s) /\ t[k] = s[i + k - 1]
<1>1. i \in 1..Len(s) /\ i + Len(t) - 1 <= Len(s) /\ SubSeq(s, i, i + Len(t) - 1) = t
  BY DEF Occurrences, StandsAt, Span
<1> DEFINE m == i + Len(t) - 1
<1>2. i \in Nat \ {0} /\ Len(t) \in Nat /\ Len(s) \in Nat
  BY <1>1
<1>3. ASSUME NEW k \in 1..Len(t) PROVE i + k - 1 \in 1..Len(s) /\ t[k] = s[i + k - 1]
  <2>1. i + k - 1 \in 1..Len(s)
    BY <1>1, <1>2
  <2>2. SubSeq(s, i, i + Len(t) - 1)[k] = s[i + k - 1]
    BY <1>1, <1>2
  <2> QED BY <1>1, <2>1, <2>2
<1> QED BY <1>1, <1>2, <1>3

\* Where a target stands twice and overlaps, a prefix of it is a suffix.
LEMMA OverlapIsBorder ==
  ASSUME NEW u \in Seq(Nat), NEW s \in Seq(Nat), NEW n, n = Len(u),
         NEW i \in Occurrences(s, u), NEW j \in Occurrences(s, u), j < i, i < j + n
  PROVE  ~Borderless(u)
<1>1. /\ i \in Nat \ {0} /\ \A k \in 1..n : u[k] = s[i + k - 1]
      /\ j \in Nat \ {0} /\ \A k \in 1..n : u[k] = s[j + k - 1]
  <2>1. i \in Nat \ {0} /\ \A k \in 1..Len(u) : u[k] = s[i + k - 1]
    BY StandsIs
  <2>2. j \in Nat \ {0} /\ \A k \in 1..Len(u) : u[k] = s[j + k - 1]
    BY StandsIs
  <2> QED BY <2>1, <2>2
<1>2. n \in Nat /\ \A k \in 1..n : u[k] \in Nat
  OBVIOUS
<1>3. PICK m \in 1..(n - 1) : n - m = i - j
  <2>1. n - (i - j) \in 1..(n - 1) /\ n - (n - (i - j)) = i - j
    BY <1>1, <1>2
  <2> QED BY <2>1
<1> DEFINE p == SubSeq(u, 1, m)
           q == SubSeq(u, n - m + 1, n)
<1>4. p \in Seq(Nat) /\ Len(p) = m /\ \A k \in 1..m : p[k] = u[k]
  <2>1. \A k \in 1..m : u[k] \in Nat
    BY <1>2
  <2>2. m \in Int /\ 1 <= m
    BY <1>2
  <2> QED BY <2>1, <2>2, SubSeqProperties
<1>5. q \in Seq(Nat) /\ Len(q) = m /\ \A k \in 1..m : q[k] = u[n - m + k]
  <2>1. \A k \in (n - m + 1)..n : u[k] \in Nat
    BY <1>2
  <2>2. n \in Int /\ n - m + 1 \in Int /\ n - m + 1 <= n /\ n - (n - m + 1) + 1 = m
    BY <1>2
  <2>3. \A k \in 1..m : (n - m + 1) + k - 1 = n - m + k
    BY <1>2
  <2>4. /\ q \in Seq(Nat)
        /\ Len(q) = IF n - m + 1 <= n THEN n - (n - m + 1) + 1 ELSE 0
        /\ \A k \in 1..(n - (n - m + 1) + 1) : q[k] = u[(n - m + 1) + k - 1]
    BY <2>1, <2>2, SubSeqProperties
  <2> HIDE DEF q
  <2> QED BY <2>2, <2>3, <2>4
<1>6. ASSUME NEW k \in 1..m PROVE p[k] = q[k]
  <2>0. i \in Nat /\ j \in Nat /\ n \in Nat /\ m \in Nat /\ k \in Nat /\ k >= 1 /\ k <= m
    BY <1>1, <1>2
  <2>1. k \in 1..n /\ n - m + k \in 1..n /\ j + (n - m + k) - 1 = i + k - 1
    <3> HIDE DEF p, q
    <3>1. n - m + k <= n /\ n - m + k >= 1
      BY <1>3, <2>0
    <3>2. j + (n - m + k) - 1 = i + k - 1
      <4>1. n - m + k = (i - j) + k
        BY <1>3
      <4>2. j + ((i - j) + k) - 1 = i + k - 1
        BY <2>0
      <4> QED BY <4>1, <4>2
    <3> QED BY <2>0, <3>1, <3>2
  <2>2. u[k] = s[i + k - 1] /\ u[n - m + k] = s[j + (n - m + k) - 1]
    BY <1>1, <2>1
  <2> HIDE DEF p, q
  <2> QED BY <1>4, <1>5, <2>1, <2>2
<1>7. p = q
  <2> HIDE DEF p, q
  <2> QED BY <1>4, <1>5, <1>6, SeqEqual
<1> QED BY <1>7 DEF Borderless

\* A target that does not overlap itself leaves no match alone.
LEMMA BorderlessApart ==
  ASSUME NEW r, r.target \in Seq(Nat) \ {<<>>}, Borderless(r.target), NEW s \in Seq(Nat)
  PROVE  Selected(r, s) = Matching(r, s)
<1>1. SUFFICES ASSUME NEW i \in Matching(r, s), i \notin Selected(r, s) PROVE FALSE
  BY SelectedApart
<1>2. PICK j \in Selected(r, s) : j < i /\ i < j + Len(r.target)
  BY <1>1, SelectedApart
<1>3. i \in Occurrences(s, r.target) /\ j \in Occurrences(s, r.target)
  BY <1>1, <1>2, SelectedApart DEF Matching
<1> QED BY <1>2, <1>3, OverlapIsBorder

\* A word no match of which is rewritten stays.
LEMMA Unmatched ==
  ASSUME NEW r, r.target \in Seq(Nat) \ {<<>>}, r.replacement \in Seq(Nat),
         NEW s \in Seq(Nat), Matching(r, s) = {}
  PROVE  Replace(r, s) = s
<1>1. PICK f : FromTheRight(r, s, f)
  BY ReplaceIs
<1> DEFINE n == Len(s)
<1>2. n \in Nat
  OBVIOUS
<1>3. \A i \in 1..n : f[i] = <<s[i]>> \o f[i + 1]
  <2>1. Selected(r, s) = {}
    BY SelectedApart
  <2> TAKE i \in 1..n
  <2>2. i \in Positions(r, s) /\ ~(i > Len(s))
    BY PositionsIn
  <2> QED BY <1>1, <2>1, <2>2 DEF FromTheRight, Onwards
<1>4. f[n + 1] = <<>>
  <2>1. Len(r.target) \in Nat \ {0} /\ Len(s) \in Nat
    BY PositionsIn
  <2>2. n + 1 \in Positions(r, s) /\ n + 1 > Len(s)
    BY <2>1 DEF Positions
  <2> HIDE DEF n
  <2> QED BY <1>1, <2>2 DEF FromTheRight, Onwards
<1> HIDE DEF n
<1> DEFINE Good(i) == f[i] = SubSeq(s, i, n)
           N == {k \in Nat : k <= n => Good(n + 1 - k)}
<1>5. 0 \in N
  <2>1. SubSeq(s, n + 1, n) = <<>>
    BY <1>2, SubSeqEmpty
  <2>2. n + 1 - 0 = n + 1
    BY <1>2
  <2> QED BY <1>4, <2>1, <2>2
<1>6. ASSUME NEW k \in Nat, k \in N PROVE k + 1 \in N
  <2> SUFFICES ASSUME k + 1 <= n PROVE Good(n + 1 - (k + 1))
    <3> HIDE DEF Good
    <3> QED OBVIOUS
  <2>1. PICK i \in 1..n : i + 1 = n + 1 - k /\ i = n + 1 - (k + 1)
    <3>1. n - k \in 1..n /\ (n - k) + 1 = n + 1 - k /\ n - k = n + 1 - (k + 1)
      BY <1>2
    <3> QED BY <3>1
  <2>2. Good(i + 1)
    <3>1. k <= n
      BY <1>2
    <3> HIDE DEF Good
    <3> QED BY <1>6, <2>1, <3>1
  <2>3. f[i] = <<s[i]>> \o SubSeq(s, i + 1, n)
    BY <1>3, <2>2
  <2>4. SubSeq(s, i, n) = <<s[i]>> \o SubSeq(s, i + 1, n)
    <3>1. i \in 1..Len(s) /\ Len(s) \in i..Len(s)
      BY <1>2 DEF n
    <3>2. SubSeq(s, i, Len(s)) = <<s[i]>> \o SubSeq(s, i + 1, Len(s))
      BY <3>1, SubSeqRecursiveFirst
    <3> QED BY <3>2 DEF n
  <2>5. Good(i)
    BY <2>3, <2>4
  <2> HIDE DEF Good
  <2> QED BY <2>1, <2>5
<1> HIDE DEF N
<1>7. n \in N
  BY <1>2, <1>5, <1>6, AllNumbers
<1>8. f[1] = SubSeq(s, 1, n)
  <2>1. n + 1 - n = 1 /\ n <= n
    BY <1>2
  <2> QED BY <1>7, <2>1 DEF N
<1>9. SubSeq(s, 1, n) = s
  BY SubSeqFull DEF n
<1> QED BY <1>1, <1>8, <1>9 DEF FromTheRight

\* A word is read piece by piece: a match as a whole, else a segment.
Piece(r, s, i) == IF i \in Matching(r, s) THEN r.target ELSE <<s[i]>>
Image(r, s, i) == IF i \in Matching(r, s) THEN r.replacement ELSE <<s[i]>>

\* A piece may begin at i: no match has begun before it that goes past it.
Boundary(r, s, i) ==
  i \in 1..(Len(s) + 1) /\ \A j \in Matching(r, s) : ~(j < i /\ i < j + Len(r.target))

\* What the theorem is about: a rule whose target does not overlap itself.
Plain(r) ==
  /\ r.target \in Seq(Nat) \ {<<>>} /\ r.replacement \in Seq(Nat)
  /\ Borderless(r.target)

\* What the rewriting does to a piece p whose image is c.
Rewrites(r, s, f, i, p, c) ==
  /\ p \in Seq(Nat) /\ Len(p) \in Nat \ {0}
  /\ \A k \in 1..Len(p) : s[i + k - 1] = p[k]
  /\ Boundary(r, s, i + Len(p))
  /\ f[i] = c \o f[i + Len(p)]
  /\ f[i + Len(p)] \in Seq(Nat) /\ c \in Seq(Nat)

\* The rewriting takes a piece at a boundary to its image.
LEMMA PieceIs ==
  ASSUME NEW r, Plain(r), NEW s \in Seq(Nat), NEW i \in 1..Len(s), Boundary(r, s, i),
         NEW f, FromTheRight(r, s, f)
  PROVE  Rewrites(r, s, f, i, Piece(r, s, i), Image(r, s, i))
<1> DEFINE n == Len(r.target)
<1>1. /\ r.target \in Seq(Nat) \ {<<>>} /\ r.replacement \in Seq(Nat)
      /\ Selected(r, s) = Matching(r, s)
  BY BorderlessApart DEF Plain
<1>2. /\ i \in Positions(r, s) /\ i + 1 \in Positions(r, s) /\ i + n \in Positions(r, s)
      /\ n \in Nat \ {0} /\ Len(s) \in Nat /\ i \in Nat /\ i >= 1 /\ i <= Len(s)
      /\ s[i] \in Nat /\ <<s[i]>> \in Seq(Nat) /\ Len(<<s[i]>>) = 1 /\ <<s[i]>>[1] = s[i]
  <2>1. /\ i \in Positions(r, s) /\ i + 1 \in Positions(r, s) /\ i + n \in Positions(r, s)
        /\ n \in Nat \ {0}
    BY <1>1, PositionsIn
  <2>2. Len(s) \in Nat /\ i \in Nat /\ i >= 1 /\ i <= Len(s)
    OBVIOUS
  <2>3. s[i] \in Nat /\ <<s[i]>> \in Seq(Nat) /\ Len(<<s[i]>>) = 1 /\ <<s[i]>>[1] = s[i]
    BY OneSegment
  <2> QED BY <2>1, <2>2, <2>3
<1>3. f[i] = Onwards(r, s, f, i) /\ f[i + 1] \in Seq(Nat) /\ f[i + n] \in Seq(Nat)
  BY <1>2 DEF FromTheRight
<1>4. \A j \in Matching(r, s) : j \in Nat /\ j + n <= Len(s) + 1
  <2> TAKE j \in Matching(r, s)
  <2>1. j \in Occurrences(s, r.target)
    BY DEF Matching
  <2>2. j \in Nat \ {0} /\ j + Len(r.target) - 1 <= Len(s)
    BY <1>1, <2>1, StandsIs
  <2> QED BY <1>2, <2>2
<1>5. CASE i \in Matching(r, s)
  <2>1. Piece(r, s, i) = r.target /\ Image(r, s, i) = r.replacement
    BY <1>5 DEF Piece, Image
  <2>2. \A k \in 1..n : s[i + k - 1] = r.target[k]
    <3>1. i \in Occurrences(s, r.target)
      BY <1>5 DEF Matching
    <3> QED BY <1>1, <3>1, StandsIs
  <2>3. Boundary(r, s, i + n)
    <3>1. i + n \in 1..(Len(s) + 1)
      BY <1>2, <1>4, <1>5
    <3>2. ASSUME NEW j \in Matching(r, s), j < i + n, i + n < j + n PROVE FALSE
      <4>1. i < j /\ j < i + n
        BY <1>2, <1>4, <3>2
      <4>2. i \in Selected(r, s) /\ j \in Selected(r, s)
        BY <1>1, <1>5
      <4>3. i >= j + n \/ j >= i + n
        BY <1>1, <1>2, <1>4, <4>1, <4>2, SelectedApart
      <4> QED BY <1>2, <1>4, <4>1, <4>3
    <3> QED BY <3>1, <3>2 DEF Boundary
  <2>4. f[i] = r.replacement \o f[i + n]
    <3>1. ~(i > Len(s)) /\ i \in Selected(r, s)
      BY <1>1, <1>2, <1>5
    <3>2. Onwards(r, s, f, i) = r.replacement \o f[i + Len(r.target)]
      BY <3>1 DEF Onwards
    <3> QED BY <1>3, <3>2
  <2> QED BY <1>1, <1>2, <1>3, <2>1, <2>2, <2>3, <2>4 DEF Rewrites
<1>6. CASE i \notin Matching(r, s)
  <2>1. Piece(r, s, i) = <<s[i]>> /\ Image(r, s, i) = <<s[i]>>
    BY <1>6 DEF Piece, Image
  <2>2. \A k \in 1..1 : s[i + k - 1] = <<s[i]>>[k]
    BY <1>2
  <2>3. Boundary(r, s, i + 1)
    <3>1. i + 1 \in 1..(Len(s) + 1)
      BY <1>2
    <3>2. ASSUME NEW j \in Matching(r, s), j < i + 1, i + 1 < j + n PROVE FALSE
      <4>1. j # i /\ ~(j < i /\ i < j + n)
        BY <1>6, <3>2 DEF Boundary
      <4> QED BY <1>2, <1>4, <3>2, <4>1
    <3> QED BY <3>1, <3>2 DEF Boundary
  <2>4. f[i] = <<s[i]>> \o f[i + 1]
    BY <1>1, <1>2, <1>3, <1>6 DEF Onwards
  <2> QED BY <1>2, <1>3, <2>1, <2>2, <2>3, <2>4 DEF Rewrites
<1> QED BY <1>5, <1>6

\* A rule that puts one segment in the place of a target never empties a word.
LEMMA NeverEmpty ==
  ASSUME NEW r, Plain(r), Len(r.replacement) = 1, NEW s \in Seq(Nat)
  PROVE  Locations(r, s) = Matching(r, s) /\ Output(r, s) = Replace(r, s)
<1>1. SUFFICES ASSUME Matching(r, s) # {} PROVE Replace(r, s) # <<>>
  BY DEF Locations, Output, WouldEmpty
<1>2. PICK f : FromTheRight(r, s, f)
  BY ReplaceIs DEF Plain
<1>3. Len(s) \in Nat /\ 1 \in 1..Len(s)
  BY <1>1, MatchingIn
<1>4. Boundary(r, s, 1)
  <2>1. \A j \in Matching(r, s) : ~(j < 1)
    BY MatchingIn
  <2> QED BY <1>3, <2>1 DEF Boundary
<1> DEFINE q == f[1 + Len(Piece(r, s, 1))]
           c == Image(r, s, 1)
<1>5. f[1] = c \o q /\ q \in Seq(Nat) /\ c \in Seq(Nat)
  BY <1>2, <1>3, <1>4, PieceIs DEF Rewrites
<1>6. Len(c) = 1
  BY <1>3 DEF Image
<1> HIDE DEF c, q
<1>7. Len(c \o q) = 1 + Len(q) /\ Len(q) \in Nat
  <2>1. Len(c \o q) = Len(c) + Len(q)
    BY <1>5, ConcatProperties, Zenon
  <2>2. Len(q) \in Nat
    BY <1>5
  <2> QED BY <1>6, <2>1, <2>2
<1>8. f[1] # <<>>
  BY <1>5, <1>7
<1> QED BY <1>2, <1>8 DEF FromTheRight

\* The segments of a word outside its matches, as the mapping has them.
Outside(r, w) == {<<<<w[k]>>, <<w[k]>>>> : k \in DOMAIN w \ Covered(r, w)}

\* The mapping the report inspects: segments left alone, and the rule where it applies.
LEMMA ImagesAre ==
  ASSUME NEW r, NEW words
  PROVE  Images(r, words) = (UNION {Outside(r, w) : w \in words})
           \cup (IF \E w \in words : Locations(r, w) # {}
                 THEN {<<r.target, r.replacement>>} ELSE {})
BY Zenon DEF Images, Outside

\* Each piece and its image are in the mapping the report judges.
LEMMA PieceReported ==
  ASSUME NEW r, Plain(r), Len(r.replacement) = 1, NEW words \in SUBSET Seq(Nat),
         NEW s \in words, NEW i \in 1..Len(s), Boundary(r, s, i)
  PROVE  <<Piece(r, s, i), Image(r, s, i)>> \in Images(r, words)
<1>1. Locations(r, s) = Matching(r, s)
  BY NeverEmpty
<1>2. CASE i \in Matching(r, s)
  <2>1. <<r.target, r.replacement>> \in Images(r, words)
    <3>1. \E w \in words : Locations(r, w) # {}
      BY <1>1, <1>2
    <3>2. Images(r, words) =
            (UNION {Outside(r, w) : w \in words}) \cup {<<r.target, r.replacement>>}
      BY <3>1, ImagesAre, Zenon
    <3> QED BY <3>2, Zenon
  <2> QED BY <1>2, <2>1 DEF Piece, Image
<1>3. CASE i \notin Matching(r, s)
  <2>1. i \notin Covered(r, s)
    <3> SUFFICES ASSUME NEW j \in Matching(r, s), i \in j..(j + Len(r.target) - 1) PROVE FALSE
      BY <1>1 DEF Covered
    <3>1. j \in Nat /\ Len(r.target) \in Nat /\ i \in Nat
      BY MatchingIn DEF Plain
    <3>2. j < i /\ i < j + Len(r.target)
      BY <1>3, <3>1
    <3> QED BY <3>2 DEF Boundary
  <2>2. DOMAIN s = 1..Len(s)
    OBVIOUS
  <2>3. <<<<s[i]>>, <<s[i]>>>> \in Images(r, words)
    <3>1. <<<<s[i]>>, <<s[i]>>>> \in Outside(r, s)
      BY <2>1, <2>2 DEF Outside
    <3> QED BY <3>1, ImagesAre
  <2> QED BY <1>3, <2>3 DEF Piece, Image
<1> QED BY <1>2, <1>3

\* From i and from j on, two words are the same.
SameEnds(s, i, t, j) ==
  /\ Len(s) - i = Len(t) - j
  /\ \A k \in Nat : i + k <= Len(s) => s[i + k] = t[j + k]

\* Images of one segment each can be told off the front of the output.
LEMMA FirstSame ==
  ASSUME NEW c \in Seq(Nat), NEW d \in Seq(Nat), NEW x \in Seq(Nat), NEW y \in Seq(Nat),
         Len(c) = 1, Len(d) = 1, c \o x = d \o y
  PROVE  c = d /\ x = y
<1>1. (c \o x)[1] = c[1] /\ (d \o y)[1] = d[1]
  <2>1. Len(x) \in Nat /\ Len(y) \in Nat
    OBVIOUS
  <2>2. 1 \in 1..(Len(c) + Len(x)) /\ 1 \in 1..(Len(d) + Len(y)) /\ 1 <= Len(c) /\ 1 <= Len(d)
    BY <2>1
  <2>3. \A k \in 1..(Len(c) + Len(x)) : (c \o x)[k] = IF k <= Len(c) THEN c[k] ELSE x[k - Len(c)]
    BY ConcatProperties
  <2>4. \A k \in 1..(Len(d) + Len(y)) : (d \o y)[k] = IF k <= Len(d) THEN d[k] ELSE y[k - Len(d)]
    BY ConcatProperties
  <2> QED BY <2>2, <2>3, <2>4
<1>2. c[1] = d[1]
  BY <1>1
<1>3. c = d
  <2>1. \A k \in 1..Len(c) : c[k] = d[k]
    BY <1>2
  <2> QED BY <2>1, SeqEqual
<1>4. x = y
  <2>1. c \o x = c \o y
    BY <1>3
  <2> QED BY <2>1, ConcatSimplifications
<1> QED BY <1>3, <1>4

\* One piece of n segments at i and at j, and the same of the output after it.
SamePiece(r, s, t, f, g, i, j, n) ==
  /\ Boundary(r, s, i + n) /\ Boundary(r, t, j + n) /\ f[i + n] = g[j + n]
  /\ \A k \in 1..n : s[i + k - 1] = t[j + k - 1]

\* Where no two pieces have the same image, a piece is known by its image.
LEMMA PieceSame ==
  ASSUME NEW r, Plain(r), Len(r.replacement) = 1, NEW words \in SUBSET Seq(Nat),
         NEW s \in words, NEW t \in words, ~Merges(r, words),
         NEW f, FromTheRight(r, s, f), NEW g, FromTheRight(r, t, g),
         NEW i \in 1..Len(s), Boundary(r, s, i), NEW j \in 1..Len(t), Boundary(r, t, j),
         f[i] = g[j]
  PROVE  \E n \in Nat \ {0} : SamePiece(r, s, t, f, g, i, j, n)
<1> DEFINE p == Piece(r, s, i)
           c == Image(r, s, i)
           q == Piece(r, t, j)
           d == Image(r, t, j)
<1>1. Rewrites(r, s, f, i, p, c) /\ Rewrites(r, t, g, j, q, d)
  <2>1. Rewrites(r, s, f, i, p, c)
    BY PieceIs
  <2>2. Rewrites(r, t, g, j, q, d)
    BY PieceIs
  <2> QED BY <2>1, <2>2
<1>3. Len(c) = 1 /\ Len(d) = 1
  BY DEF Image
<1>4. <<p, c>> \in Images(r, words) /\ <<q, d>> \in Images(r, words)
  BY PieceReported
<1> HIDE DEF p, c, q, d
<1>5. c = d /\ f[i + Len(p)] = g[j + Len(q)]
  <2> DEFINE x == f[i + Len(p)]
             y == g[j + Len(q)]
  <2>1. c \o x = d \o y /\ x \in Seq(Nat) /\ y \in Seq(Nat) /\ c \in Seq(Nat) /\ d \in Seq(Nat)
    BY <1>1 DEF Rewrites
  <2> HIDE DEF x, y
  <2>2. c = d /\ x = y
    BY <1>3, <2>1, FirstSame
  <2> QED BY <2>2 DEF x, y
<1>6. p = q
  <2>1. c # <<>>
    <3>1. c \in Seq(Nat) /\ Len(c) # 0
      BY <1>1, <1>3 DEF Rewrites
    <3> QED BY <3>1, EmptySeq
  <2> DEFINE a == <<p, c>>
             b == <<q, d>>
  <2>2. a[1] = p /\ a[2] = c /\ b[1] = q /\ b[2] = d
    OBVIOUS
  <2>3. a \in Images(r, words) /\ b \in Images(r, words)
    BY <1>4
  <2> HIDE DEF a, b
  <2> QED BY <1>5, <2>1, <2>2, <2>3 DEF Merges
<1>7. /\ Len(p) \in Nat \ {0} /\ Boundary(r, s, i + Len(p)) /\ Boundary(r, t, j + Len(p))
      /\ \A k \in 1..Len(p) : s[i + k - 1] = t[j + k - 1]
  BY <1>1, <1>6 DEF Rewrites
<1> QED BY <1>5, <1>6, <1>7 DEF SamePiece

\* Only the end of the word has nothing left to write.
LEMMA EndIs ==
  ASSUME NEW r, Plain(r), Len(r.replacement) = 1, NEW s \in Seq(Nat),
         NEW f, FromTheRight(r, s, f), NEW i, Boundary(r, s, i)
  PROVE  /\ i \in Nat /\ i >= 1 /\ i <= Len(s) + 1 /\ Len(s) \in Nat
         /\ f[i] = <<>> <=> i = Len(s) + 1
         /\ f[i] # <<>> => i \in 1..Len(s)
<1>1. i \in Nat /\ i >= 1 /\ i <= Len(s) + 1 /\ Len(s) \in Nat
  BY DEF Boundary
<1>2. CASE i = Len(s) + 1
  <2>1. i \in Positions(r, s) /\ i > Len(s)
    BY <1>1, <1>2 DEF Positions, Plain
  <2> QED BY <1>1, <1>2, <2>1 DEF FromTheRight, Onwards
<1>3. CASE i # Len(s) + 1
  <2>1. i \in 1..Len(s)
    BY <1>1, <1>3
  <2> DEFINE c == Image(r, s, i)
             x == f[i + Len(Piece(r, s, i))]
  <2>2. f[i] = c \o x /\ c \in Seq(Nat) /\ x \in Seq(Nat)
    <3>1. Rewrites(r, s, f, i, Piece(r, s, i), Image(r, s, i))
      BY <2>1, PieceIs
    <3> QED BY <3>1 DEF Rewrites
  <2>3. Len(c) = 1
    BY DEF Image
  <2> HIDE DEF c, x
  <2>4. Len(c \o x) = Len(c) + Len(x) /\ Len(x) \in Nat
    BY <2>2, ConcatProperties, LenProperties, Zenon
  <2>5. Len(f[i]) # 0
    BY <2>2, <2>3, <2>4
  <2> QED BY <1>3, <1>1, <2>1, <2>5
<1> QED BY <1>2, <1>3

\* Where no two pieces have the same image, equal outputs come of equal words.
LEMMA Decoded ==
  ASSUME NEW r, Plain(r), Len(r.replacement) = 1, NEW words \in SUBSET Seq(Nat),
         NEW s \in words, NEW t \in words, ~Merges(r, words),
         NEW f, FromTheRight(r, s, f), NEW g, FromTheRight(r, t, g), f[1] = g[1]
  PROVE  s = t
<1> DEFINE Good(i, j) == Boundary(r, s, i) /\ Boundary(r, t, j) /\ f[i] = g[j]
                         => SameEnds(s, i, t, j)
           Within(k) == \A i, j : Len(s) + 1 - i <= k => Good(i, j)
           N == {k \in Nat : Within(k)}
<1>1. 0 \in N
  <2> SUFFICES ASSUME NEW i, NEW j, Len(s) + 1 - i <= 0, Boundary(r, s, i), Boundary(r, t, j),
                      f[i] = g[j]
               PROVE  SameEnds(s, i, t, j)
    OBVIOUS
  <2>1. i = Len(s) + 1 /\ Len(s) \in Nat
    BY EndIs
  <2>2. j = Len(t) + 1 /\ Len(t) \in Nat
    BY <2>1, EndIs
  <2> QED BY <2>1, <2>2 DEF SameEnds
<1>2. ASSUME NEW k \in Nat, k \in N PROVE k + 1 \in N
  <2> SUFFICES ASSUME NEW i, NEW j, Len(s) + 1 - i <= k + 1, Boundary(r, s, i),
                      Boundary(r, t, j), f[i] = g[j]
               PROVE  SameEnds(s, i, t, j)
    OBVIOUS
  <2>1. Within(k)
    BY <1>2
  <2> HIDE DEF N, Within
  <2>2. /\ i \in Nat /\ i >= 1 /\ i <= Len(s) + 1 /\ Len(s) \in Nat
        /\ j \in Nat /\ j >= 1 /\ j <= Len(t) + 1 /\ Len(t) \in Nat
    BY EndIs
  <2>3. i = Len(s) + 1 <=> j = Len(t) + 1
    BY EndIs
  <2>4. CASE i = Len(s) + 1
    BY <2>2, <2>3, <2>4 DEF SameEnds
  <2>5. CASE i # Len(s) + 1
    <3>1. i \in 1..Len(s) /\ j \in 1..Len(t)
      <4>1. f[i] # <<>> /\ g[j] # <<>>
        BY <2>5, EndIs
      <4> QED BY <4>1, EndIs
    <3>0. PICK n \in Nat \ {0} : SamePiece(r, s, t, f, g, i, j, n)
      BY <3>1, PieceSame
    <3>2. /\ Boundary(r, s, i + n) /\ Boundary(r, t, j + n) /\ f[i + n] = g[j + n]
          /\ \A a \in 1..n : s[i + a - 1] = t[j + a - 1]
      BY <3>0 DEF SamePiece
    <3>3. SameEnds(s, i + n, t, j + n)
      <4>1. Len(s) + 1 - (i + n) <= k
        BY <2>2
      <4> QED BY <2>1, <3>2, <4>1 DEF Within
    <3>4. Len(s) - i = Len(t) - j
      BY <2>2, <3>3 DEF SameEnds
    <3>5. ASSUME NEW a \in Nat, i + a <= Len(s) PROVE s[i + a] = t[j + a]
      <4>1. CASE a < n
        <5>1. a + 1 \in 1..n /\ i + (a + 1) - 1 = i + a /\ j + (a + 1) - 1 = j + a
          BY <2>2, <4>1
        <5> QED BY <3>2, <5>1
      <4>2. CASE a >= n
        <5>1. /\ a - n \in Nat /\ (i + n) + (a - n) = i + a /\ (j + n) + (a - n) = j + a
          BY <2>2, <4>2
        <5> QED BY <3>3, <3>5, <5>1 DEF SameEnds
      <4> QED BY <4>1, <4>2
    <3> QED BY <3>4, <3>5 DEF SameEnds
  <2> QED BY <2>4, <2>5
<1> HIDE DEF N
<1>3. Nat \subseteq N
  BY <1>1, <1>2, AllNumbers
<1>4. Boundary(r, s, 1) /\ Boundary(r, t, 1) /\ Len(s) \in Nat
  BY MatchingIn DEF Boundary
<1>5. SameEnds(s, 1, t, 1)
  <2>1. Len(s) \in N /\ Len(s) + 1 - 1 <= Len(s)
    BY <1>3, <1>4
  <2>2. Within(Len(s))
    BY <2>1 DEF N
  <2> QED BY <1>4, <2>1, <2>2
<1>6. Len(s) = Len(t) /\ \A a \in 1..Len(s) : s[a] = t[a]
  <2>1. Len(s) = Len(t) /\ \A a \in Nat : 1 + a <= Len(s) => s[1 + a] = t[1 + a]
    BY <1>4, <1>5 DEF SameEnds
  <2>2. ASSUME NEW a \in 1..Len(s) PROVE s[a] = t[a]
    <3>1. a - 1 \in Nat /\ 1 + (a - 1) = a /\ 1 + (a - 1) <= Len(s)
      <4> HIDE DEF Good
      <4> QED BY <1>4
    <3>2. s[1 + (a - 1)] = t[1 + (a - 1)]
      BY <2>1, <3>1
    <3> QED BY <3>1, <3>2
  <2> QED BY <2>1, <2>2
<1>7. s \in Seq(Nat) /\ t \in Seq(Nat)
  OBVIOUS
<1> QED BY <1>6, <1>7, SeqEqual

\* What a rule makes is a word, and the same word where it applies nowhere.
LEMMA OutputIs ==
  ASSUME NEW r, Plain(r), NEW s \in Seq(Nat)
  PROVE  /\ Output(r, s) \in Seq(Nat)
         /\ Locations(r, s) = {} => Output(r, s) = s
<1>1. PICK f : FromTheRight(r, s, f)
  BY ReplaceIs DEF Plain
<1>2. Replace(r, s) \in Seq(Nat)
  <2>1. 1 \in Positions(r, s)
    BY PositionsIn DEF Plain
  <2> QED BY <1>1, <2>1 DEF FromTheRight
<1>3. Matching(r, s) = {} => Replace(r, s) = s
  BY Unmatched DEF Plain
<1> QED BY <1>2, <1>3 DEF Output, Locations

\* One rule: two words become one only where the report says so.
LEMMA MergerIsReported ==
  ASSUME NEW r, Plain(r), Len(r.replacement) <= 1, NEW words \in SUBSET Seq(Nat),
         NEW s \in words, NEW t \in words, s # t, Output(r, s) = Output(r, t)
  PROVE  Reduces(r, words)
<1>1. \E w \in words : Locations(r, w) # {}
  BY OutputIs
<1>2. Len(r.replacement) \in Nat /\ r.replacement \in Seq(Nat)
  BY DEF Plain
<1>3. CASE Len(r.replacement) = 0
  <2>1. r.replacement = <<>>
    BY <1>2, <1>3, EmptySeq
  <2> QED BY <1>1, <2>1 DEF Reduces, Deletes
<1>4. CASE Len(r.replacement) = 1
  <2> SUFFICES ASSUME ~Merges(r, words) PROVE FALSE
    BY <1>1 DEF Reduces
  <2>1. Replace(r, s) = Replace(r, t)
    BY <1>4, NeverEmpty
  <2>2. PICK f : FromTheRight(r, s, f)
    BY ReplaceIs DEF Plain
  <2>3. PICK g : FromTheRight(r, t, g)
    BY ReplaceIs DEF Plain
  <2>4. f[1] = g[1]
    BY <2>1, <2>2, <2>3 DEF FromTheRight
  <2> QED BY <1>4, <2>2, <2>3, <2>4, Decoded
<1>5. Len(r.replacement) = 0 \/ Len(r.replacement) = 1
  <2>1. \A n \in Nat : n <= 1 => n = 0 \/ n = 1
    OBVIOUS
  <2> QED BY <1>2, <2>1
<1> QED BY <1>3, <1>4, <1>5

-----------------------------------------------------------------------------
(* Cascades *)

ApplyFold(rules, s, g) ==
  g = [x \in SUBSET DOMAIN rules |->
         IF x = {} THEN s ELSE Output(rules[Max(x)], g[x \ {Max(x)}])]

\* Applying a cascade is a fold of its rules.
LEMMA ApplyIsFold ==
  ASSUME NEW rules, NEW s
  PROVE  ApplyRules(rules, s) = (CHOOSE g : ApplyFold(rules, s, g))[DOMAIN rules]
BY DEF ApplyRules, FoldLeft, MapThenFoldSet, ApplyFold

\* A cascade of such rules.
Plains(rules) == rules \in Seq(Law) /\ \A i \in 1..Len(rules) : Plain(rules[i])

\* g has the word after each rule.
InOrder(rules, s, g) ==
  /\ ApplyRules(rules, s) = g[1..Len(rules)] /\ g[1..0] = s
  /\ \A i \in 1..Len(rules) : g[1..i] = Output(rules[i], g[1..(i - 1)])

\* Such a way through the cascade exists.
LEMMA ApplyIs ==
  ASSUME NEW rules, Plains(rules), NEW s \in Seq(Nat)
  PROVE  \E g : InOrder(rules, s, g)
<1> DEFINE n == Len(rules)
           V == Seq(Nat)
           h == [iv \in (1..n) \X V |-> Output(rules[iv[1]], iv[2])]
<1>1. n \in Nat /\ DOMAIN rules = 1..n /\ \A i \in 1..n : Plain(rules[i])
  BY DEF Plains
<1>2. h \in Ways(V, n)
  <2>1. \A iv \in (1..n) \X V : Output(rules[iv[1]], iv[2]) \in V
    BY <1>1, OutputIs
  <2> QED BY <2>1 DEF Ways
<1>3. \E g : ApplyFold(rules, s, g)
  <2> HIDE DEF h, n, V
  <2>1. LeftFolds(V, s, n, h) # {}
    <3>1. s \in V
      BY DEF V
    <3> QED BY <1>1, <1>2, <3>1, LeftFoldExists
  <2>2. PICK g \in [SUBSET (1..n) -> V] :
          \A x \in SUBSET (1..n) : g[x] = LeftStep(s, h, g, x)
    BY <2>1 DEF LeftFolds
  <2>3. ASSUME NEW x \in SUBSET (1..n), x # {}
        PROVE  g[x] = Output(rules[Max(x)], g[x \ {Max(x)}])
    <3>1. Max(x) \in 1..n /\ x \ {Max(x)} \in SUBSET (1..n)
      BY <1>1, <2>3, MaxIn
    <3>2. <<Max(x), g[x \ {Max(x)}]>> \in (1..n) \X V
      BY <3>1
    <3>3. h[<<Max(x), g[x \ {Max(x)}]>>] = Output(rules[Max(x)], g[x \ {Max(x)}])
      BY <3>2 DEF h
    <3> QED BY <2>2, <2>3, <3>3 DEF LeftStep
  <2>4. g[{}] = s
    BY <2>2 DEF LeftStep
  <2>5. ASSUME NEW x \in SUBSET DOMAIN rules
        PROVE  g[x] = IF x = {} THEN s ELSE Output(rules[Max(x)], g[x \ {Max(x)}])
    BY <1>1, <2>3, <2>4
  <2>6. g = [x \in SUBSET DOMAIN rules |-> g[x]]
    BY <1>1, <2>2
  <2> QED BY <2>5, <2>6 DEF ApplyFold
<1> DEFINE g == CHOOSE f : ApplyFold(rules, s, f)
<1>4. ApplyFold(rules, s, g)
  BY <1>3
<1>5. ApplyRules(rules, s) = g[1..n]
  BY <1>1, ApplyIsFold
<1> HIDE DEF g, n
<1>6. ASSUME NEW x \in SUBSET (1..n)
      PROVE  g[x] = IF x = {} THEN s ELSE Output(rules[Max(x)], g[x \ {Max(x)}])
  BY <1>1, <1>4 DEF ApplyFold
<1>7. g[1..0] = s
  <2>1. 1..0 = {}
    OBVIOUS
  <2> QED BY <2>1, <1>6
<1>8. ASSUME NEW i \in 1..n PROVE g[1..i] = Output(rules[i], g[1..(i - 1)])
  <2>1. i \in Nat \ {0} /\ i <= n
    BY <1>1
  <2>2. Max(1..i) = i /\ (1..i) \ {i} = 1..(i - 1)
    BY <2>1, LastUpTo
  <2>3. 1..i \in SUBSET (1..n) /\ i \in 1..i
    BY <1>1, <2>1
  <2> QED BY <1>6, <2>2, <2>3
<1> QED BY <1>5, <1>7, <1>8 DEF n, InOrder

\* The words the first rules of a cascade make are those it makes on its way.
LEMMA GivenIs ==
  ASSUME NEW rules, Plains(rules), NEW s \in Seq(Nat), NEW g, InOrder(rules, s, g),
         NEW i \in 1..Len(rules)
  PROVE  Given(rules, i, s) = g[1..(i - 1)]
<1> DEFINE q == SubSeq(rules, 1, i - 1)
<1>1. /\ i \in Nat /\ i - 1 \in Nat /\ i - 1 <= Len(rules) /\ Len(rules) \in Nat
      /\ rules \in Seq(Law)
  BY DEF Plains
<1>2. q \in Seq(Law) /\ Len(q) = i - 1 /\ \A k \in 1..(i - 1) : q[k] = rules[k]
  <2>1. \A k \in 1..(i - 1) : k \in 1..Len(rules) /\ rules[k] \in Law
    BY <1>1
  <2>2. /\ q \in Seq(Law) /\ Len(q) = IF 1 <= i - 1 THEN (i - 1) - 1 + 1 ELSE 0
        /\ \A k \in 1..((i - 1) - 1 + 1) : q[k] = rules[1 + k - 1]
    BY <1>1, <2>1, SubSeqProperties
  <2> HIDE DEF q
  <2>3. \A k \in 1..(i - 1) : k \in 1..((i - 1) - 1 + 1) /\ 1 + k - 1 = k
    BY <1>1
  <2> QED BY <1>1, <2>2, <2>3
<1> HIDE DEF q
<1>3. Plains(q)
  BY <1>1, <1>2 DEF Plains
<1>4. PICK f : InOrder(q, s, f)
  BY <1>3, ApplyIs
<1> DEFINE N == {k \in Nat : k <= i - 1 => f[1..k] = g[1..k]}
<1>5. 0 \in N
  BY <1>4 DEF InOrder
<1>6. ASSUME NEW k \in Nat, k \in N PROVE k + 1 \in N
  <2> SUFFICES ASSUME k + 1 <= i - 1 PROVE f[1..(k + 1)] = g[1..(k + 1)]
    OBVIOUS
  <2>1. f[1..k] = g[1..k]
    BY <1>1, <1>6
  <2>2. /\ k + 1 \in 1..(i - 1) /\ k + 1 \in 1..Len(q) /\ k + 1 \in 1..Len(rules)
        /\ (k + 1) - 1 = k
    <3> HIDE DEF N
    <3> QED BY <1>1, <1>2
  <2>3. q[k + 1] = rules[k + 1]
    BY <1>2, <2>2
  <2> QED BY <1>4, <2>1, <2>2, <2>3 DEF InOrder
<1> HIDE DEF N
<1>7. i - 1 \in N
  BY <1>1, <1>5, <1>6, AllNumbers
<1>8. f[1..(i - 1)] = g[1..(i - 1)]
  BY <1>1, <1>7 DEF N
<1> QED BY <1>2, <1>4, <1>8 DEF Given, InOrder, q

\* rules/contrast.py: "merger -- two distinct input sequences produce one output
\* sequence, so a contrast the child made no longer exists in the parent. [...]
\* Both are exact and cheap".  If a cascade makes two words of a child one, one of
\* its rules is reported as removing a distinction, whatever the words are: for
\* targets that do not overlap themselves and replacements of one segment or none.
THEOREM MergersAreReported ==
  ASSUME NEW cascade \in Seq(Law), NEW words \in SUBSET Seq(Nat),
         \A i \in DOMAIN cascade :
           Len(cascade[i].replacement) <= 1 /\ Borderless(cascade[i].target),
         NEW s \in words, NEW t \in words, s # t, ApplyRules(cascade, s) = ApplyRules(cascade, t)
  PROVE  CascadeReductions(cascade, words) # {}
<1>1. SUFFICES ASSUME CascadeReductions(cascade, words) = {} PROVE FALSE
  OBVIOUS
<1> DEFINE n == Len(cascade)
<1>2. n \in Nat /\ DOMAIN cascade = 1..n
  OBVIOUS
<1>3. Plains(cascade)
  <2>1. ASSUME NEW i \in 1..Len(cascade) PROVE Plain(cascade[i])
    <3>1. cascade[i] \in Law
      OBVIOUS
    <3>2. Borderless(cascade[i].target)
      BY <1>2
    <3> QED BY <3>1, <3>2 DEF Plain, Law
  <2> QED BY <2>1 DEF Plains
<1>4. PICK f : InOrder(cascade, s, f)
  BY <1>3, ApplyIs
<1>5. PICK g : InOrder(cascade, t, g)
  BY <1>3, ApplyIs
<1>6. \A w \in words, i \in 1..n : Given(cascade, i, w) \in Seq(Nat)
  <2> TAKE w \in words, i \in 1..n
  <2>1. PICK e : InOrder(cascade, w, e)
    BY <1>3, ApplyIs
  <2> DEFINE K == {k \in Nat : k <= n => e[1..k] \in Seq(Nat)}
  <2>2. 0 \in K
    BY <2>1 DEF InOrder
  <2>3. ASSUME NEW k \in Nat, k \in K PROVE k + 1 \in K
    <3> SUFFICES ASSUME k + 1 <= n PROVE e[1..(k + 1)] \in Seq(Nat)
      OBVIOUS
    <3>1. e[1..k] \in Seq(Nat) /\ k + 1 \in 1..n /\ (k + 1) - 1 = k
      <4>1. k <= n
        BY <1>2
      <4>2. e[1..k] \in Seq(Nat)
        BY <2>3, <4>1
      <4> HIDE DEF K
      <4> QED BY <1>2, <4>2
    <3>2. e[1..(k + 1)] = Output(cascade[k + 1], e[1..k])
      BY <2>1, <3>1 DEF InOrder
    <3>3. Plain(cascade[k + 1])
      BY <1>3, <3>1 DEF Plains
    <3> QED BY <3>1, <3>2, <3>3, OutputIs
  <2> HIDE DEF K, n
  <2>4. i - 1 \in Nat /\ i - 1 <= n
    BY <1>2
  <2>5. i - 1 \in K
    BY <2>2, <2>3, <2>4, AllNumbers
  <2>6. e[1..(i - 1)] \in Seq(Nat)
    BY <2>4, <2>5 DEF K
  <2> QED BY <1>3, <2>1, <2>6, GivenIs DEF n
<1>7. ASSUME NEW i \in 1..n, f[1..(i - 1)] # g[1..(i - 1)] PROVE f[1..i] # g[1..i]
  <2> DEFINE W == {Given(cascade, i, w) : w \in words}
  <2>1. W \in SUBSET Seq(Nat)
    BY <1>6
  <2>2. ~Reduces(cascade[i], W)
    BY <1>1, <1>2 DEF CascadeReductions
  <2>3. f[1..(i - 1)] = Given(cascade, i, s) /\ g[1..(i - 1)] = Given(cascade, i, t)
    BY <1>3, <1>4, <1>5, GivenIs
  <2>4. f[1..(i - 1)] \in W /\ g[1..(i - 1)] \in W
    BY <2>3
  <2>5. Plain(cascade[i]) /\ Len(cascade[i].replacement) <= 1
    BY <1>2, <1>3 DEF Plains
  <2>6. /\ f[1..i] = Output(cascade[i], f[1..(i - 1)])
        /\ g[1..i] = Output(cascade[i], g[1..(i - 1)])
    BY <1>4, <1>5 DEF InOrder
  <2> HIDE DEF W
  <2> QED BY <1>7, <2>1, <2>2, <2>4, <2>5, <2>6, MergerIsReported
<1> DEFINE N == {k \in Nat : k <= n => f[1..k] # g[1..k]}
<1>8. 0 \in N
  BY <1>4, <1>5 DEF InOrder
<1>9. ASSUME NEW k \in Nat, k \in N PROVE k + 1 \in N
  <2> SUFFICES ASSUME k + 1 <= n PROVE f[1..(k + 1)] # g[1..(k + 1)]
    OBVIOUS
  <2>1. f[1..k] # g[1..k] /\ k + 1 \in 1..n /\ (k + 1) - 1 = k
    BY <1>2, <1>9
  <2> QED BY <1>7, <2>1
<1> HIDE DEF N
<1>10. n \in N
  BY <1>2, <1>8, <1>9, AllNumbers
<1>11. f[1..n] # g[1..n]
  BY <1>2, <1>10 DEF N
<1> QED BY <1>4, <1>5, <1>11 DEF InOrder
=============================================================================
