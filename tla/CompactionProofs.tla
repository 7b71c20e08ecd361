-------------------------- MODULE CompactionProofs --------------------------
(***************************************************************************)
(* Proofs that the prompt stays a legal conversation, and that what it no  *)
(* longer states was cut at a page, for every evidence, every set of calls *)
(* and every limit.                                                        *)
(*                                                                         *)
(* Two arguments meet.  About the tools: a call that supersedes another    *)
(* lists at least what that one listed, and a listing that ends on its     *)
(* page shows everything from there on, so only a later page can lack a    *)
(* fact.  About the conversation: each dropped result is answered for by a *)
(* later one of the same tool; of all results that state a fact, the last  *)
(* is therefore whole or was dropped for one with a further page.          *)
(***************************************************************************)
EXTENDS Compaction, FiniteSetTheorems, WellFoundedInduction, TLAPS

-----------------------------------------------------------------------------
(* A later call that asks for as much is told as much, up to its page.     *)

\* What is on a page stays within its end in a longer listing that ends there.
LEMMA RankInside ==
  ASSUME NEW T, IsFiniteSet(T), NEW A, NEW C, A \subseteq C, C \subseteq T,
         NEW x \in T, x \notin C, NEW o \in Nat, NEW n \in Nat,
         Cardinality(A) \in o..(o + n - 1), ~ (o + n < Cardinality(T))
  PROVE  Cardinality(C) \in o..(o + n - 1)
<1>1. IsFiniteSet(C) /\ Cardinality(A) <= Cardinality(C)
  BY FS_Subset
<1>2. /\ IsFiniteSet(T \ {x}) /\ Cardinality(T \ {x}) = Cardinality(T) - 1
      /\ C \subseteq T \ {x}
  BY FS_RemoveElement
<1>3. Cardinality(C) <= Cardinality(T \ {x})
  BY <1>2, FS_Subset
<1>4. Cardinality(A) \in Nat /\ Cardinality(C) \in Nat /\ Cardinality(T) \in Nat
  BY <1>1, FS_CardinalityType
<1> QED BY <1>1, <1>2, <1>3, <1>4

\* A selection that covers another selects as much.
LEMMA CoversMore ==
  ASSUME NEW e \in Calls, NEW l \in Calls, Supersedes(l, e), ~ UnknownNodes(e)
  PROVE  /\ SelectedNodes(e) \subseteq SelectedNodes(l)
         /\ Hits(e) \subseteq Hits(l) /\ Listed(e) \subseteq Listed(l)
         /\ l.offset = e.offset /\ l.limit = e.limit
<1>1. /\ l.scope = e.scope /\ l.pattern = e.pattern /\ l.position = e.position
      /\ l.offset = e.offset /\ l.limit = e.limit
  BY DEF Supersedes, SameQuestion
<1>2. /\ CoversSelection(l.nodes, e.nodes) /\ CoversSelection(l.concepts, e.concepts)
      /\ CoversSelection(l.sets, e.sets)
  BY DEF Supersedes
<1>3. SelectedNodes(e) \subseteq SelectedNodes(l)
  BY <1>1, <1>2 DEF CoversSelection, SelectedNodes, UnknownNodes
<1>4. Hits(e) \subseteq Hits(l)
  BY <1>1, <1>2, <1>3 DEF CoversSelection, Hits
<1> QED BY <1>1, <1>3, <1>4 DEF Listed

LEMMA SearchGrows ==
  ASSUME NEW e \in Calls, NEW l \in Calls, Supersedes(l, e),
         SearchForms(e).ok, SearchForms(l).ok, ~ SearchForms(l).more
  PROVE  SearchForms(e).facts \subseteq SearchForms(l).facts
<1> DEFINE Before(S, x) == {y \in S : FormBefore(y, x)}
           OnPage(S, x) == Cardinality(Before(S, x)) \in e.offset..(e.offset + e.limit - 1)
<1>1. ~ UnknownNodes(e) /\ ~ UnknownNodes(l)
  BY DEF SearchForms, Refused
<1>2. /\ Hits(e) \subseteq Hits(l) /\ l.offset = e.offset /\ l.limit = e.limit
      /\ e.offset \in Nat /\ e.limit \in Nat
  BY <1>1, CoversMore, CompactionAssumption DEF CompactionAssumption
<1>3. IsFiniteSet(Hits(l)) /\ \A f \in Hits(l) : ~ FormBefore(f, f)
  BY CompactionAssumption, FS_Subset DEF CompactionAssumption, Hits, FormBefore
<1>4. /\ ~ (e.offset + e.limit < Cardinality(Hits(l)))
      /\ SearchForms(l).facts =
           UNION {{Fact("form", f.id, f.node)} : f \in {g \in Hits(l) : OnPage(Hits(l), g)}}
      /\ SearchForms(e).facts =
           UNION {{Fact("form", f.id, f.node)} : f \in {g \in Hits(e) : OnPage(Hits(e), g)}}
  BY <1>1, <1>2 DEF SearchForms, Page
<1>5. ASSUME NEW f \in Hits(e), OnPage(Hits(e), f)
      PROVE  f \in Hits(l) /\ OnPage(Hits(l), f)
  <2>1. /\ Before(Hits(e), f) \subseteq Before(Hits(l), f)
        /\ Before(Hits(l), f) \subseteq Hits(l) /\ f \notin Before(Hits(l), f) /\ f \in Hits(l)
    BY <1>2, <1>3
  <2> HIDE DEF Before
  <2> QED BY <1>2, <1>3, <1>4, <1>5, <2>1, RankInside
<1> HIDE DEF OnPage
<1> QED BY <1>4, <1>5

LEMMA ListGrows ==
  ASSUME NEW e \in Calls, NEW l \in Calls, Supersedes(l, e),
         ListConcepts(e).ok, ListConcepts(l).ok, ~ ListConcepts(l).more
  PROVE  ListConcepts(e).facts \subseteq ListConcepts(l).facts
<1> DEFINE Of(call) == {f.concept : f \in Listed(call)}
           Before(S, x) == {y \in S : y < x}
           OnPage(S, x) == Cardinality(Before(S, x)) \in e.offset..(e.offset + e.limit - 1)
           Stated(call, c) == {Fact("attests", f.node, c) : f \in {g \in Listed(call) : g.concept = c}}
<1>1. ~ UnknownNodes(e) /\ ~ UnknownNodes(l)
  BY DEF ListConcepts, Refused
<1>2. /\ Listed(e) \subseteq Listed(l) /\ l.offset = e.offset /\ l.limit = e.limit
      /\ e.offset \in Nat /\ e.limit \in Nat
  BY <1>1, CoversMore, CompactionAssumption DEF CompactionAssumption
<1>3. IsFiniteSet(Of(l)) /\ Of(l) \subseteq Nat /\ Of(e) \subseteq Of(l)
  <2>1. IsFiniteSet(Listed(l)) /\ \A f \in Listed(l) : f.concept \in Nat
    BY CompactionAssumption, FS_Subset DEF CompactionAssumption, Listed
  <2>2. [f \in Listed(l) |-> f.concept] \in Surjection(Listed(l), Of(l))
    BY DEF Surjection
  <2>3. IsFiniteSet(Of(l))
    BY <2>1, <2>2, FS_Surjection
  <2> QED BY <1>2, <2>1, <2>3
<1>4. /\ ~ (e.offset + e.limit < Cardinality(Of(l)))
      /\ ListConcepts(l).facts = UNION {Stated(l, c) : c \in {d \in Of(l) : OnPage(Of(l), d)}}
      /\ ListConcepts(e).facts = UNION {Stated(e, c) : c \in {d \in Of(e) : OnPage(Of(e), d)}}
  BY <1>1, <1>2 DEF ListConcepts, Page
<1>5. ASSUME NEW c \in Of(e), OnPage(Of(e), c)
      PROVE  c \in Of(l) /\ OnPage(Of(l), c)
  <2>1. /\ Before(Of(e), c) \subseteq Before(Of(l), c)
        /\ Before(Of(l), c) \subseteq Of(l) /\ c \notin Before(Of(l), c) /\ c \in Of(l)
    BY <1>3
  <2> HIDE DEF Before, Of
  <2> QED BY <1>2, <1>3, <1>4, <1>5, <2>1, RankInside
<1>6. \A c : Stated(e, c) \subseteq Stated(l, c)
  BY <1>2
<1> HIDE DEF OnPage, Stated, Of
<1> QED BY <1>4, <1>5, <1>6

\* A result is one of the answers its call could draw.
Answers(call, message) ==
  \E outcome \in OutcomesOf[call] :
    outcome.ok /\ message.facts = outcome.facts /\ message.more = outcome.more

LEMMA LaterStates ==
  ASSUME NEW e \in Calls, NEW l \in Calls, Supersedes(l, e), l.tool = e.tool,
         e.tool \in COMPACTABLE_TOOL_NAMES,
         NEW m, Answers(e, m), NEW n, Answers(l, n)
  PROVE  m.facts \subseteq n.facts \/ n.more
<1>1. /\ \E o \in Outcomes(e) : o.ok /\ m.facts = o.facts /\ m.more = o.more
      /\ \E o \in Outcomes(l) : o.ok /\ n.facts = o.facts /\ n.more = o.more
  BY DEF Answers, OutcomesOf
<1>2. CASE e.tool = "search_forms"
  <2>1. /\ SearchForms(e).ok /\ m.facts = SearchForms(e).facts
        /\ SearchForms(l).ok /\ n.facts = SearchForms(l).facts /\ n.more = SearchForms(l).more
    BY <1>1, <1>2 DEF Outcomes
  <2> QED BY <2>1, SearchGrows
<1>3. CASE e.tool = "list_concepts"
  <2>1. /\ ListConcepts(e).ok /\ m.facts = ListConcepts(e).facts
        /\ ListConcepts(l).ok /\ n.facts = ListConcepts(l).facts /\ n.more = ListConcepts(l).more
    BY <1>1, <1>3 DEF Outcomes
  <2> QED BY <2>1, ListGrows
<1>4. CASE e.tool = "list_available_nodes"
  BY <1>1, <1>4 DEF Outcomes
<1>5. CASE e.tool = "get_node_reconstruction"
  <2>1. /\ m.facts = GetNodeReconstruction(e).facts
        /\ n.facts = GetNodeReconstruction(l).facts
        /\ GetNodeReconstruction(e).ok /\ GetNodeReconstruction(l).ok
    BY <1>1, <1>5 DEF Outcomes
  <2>2. l.nodes = e.nodes
    BY <1>5, CompactionAssumption DEF CompactionAssumption, Supersedes, CoversSelection
  <2> QED BY <2>1, <2>2 DEF GetNodeReconstruction, Refused, Whole
<1> QED BY <1>2, <1>3, <1>4, <1>5 DEF COMPACTABLE_TOOL_NAMES

-----------------------------------------------------------------------------
(* The inductive invariant.                                                *)

IsRow(s) == s \in Seq({s[i] : i \in 1..Len(s)})

\* A dropped result is answered for by a later one of the same tool.
Dropped(i) ==
  LET k == prompt[i].by
  IN  /\ audit[i].kind = "result" /\ audit[i].tool \in COMPACTABLE_TOOL_NAMES
      /\ prompt[i] = Placeholder(audit[i], k)
      /\ k \in (i + 1)..Len(audit)
      /\ audit[k].kind = "result" /\ audit[k].tool = audit[i].tool
      /\ audit[i].facts \subseteq audit[k].facts \/ audit[k].more

\* The two copies agree up to dropped results, and an answer is where the ID
\* of its call says.
CopiesInv ==
  /\ IsRow(audit) /\ IsRow(prompt) /\ Len(prompt) = Len(audit)
  /\ \A i \in 1..Len(audit) :
       /\ prompt[i] = audit[i] \/ Dropped(i)
       /\ audit[i].kind # "placeholder"
       /\ audit[i].kind = "result" => audit[i].role = "tool"
       /\ audit[i].role = "tool" => audit[i].ids = <<i>> /\ audit[i].kind # "calls"

\* Every call of a reply is answered at its place or still to be.
BatchInv ==
  /\ IsRow(pending)
  /\ \A k \in 1..Len(pending) : pending[k].id = Len(audit) + k /\ pending[k].call \in Calls
  /\ \A i \in 1..Len(audit) : audit[i].kind = "calls" =>
       /\ Len(audit[i].ids) \in Nat
       /\ \A j \in 1..Len(audit[i].ids) :
            /\ audit[i].ids[j] = i + j /\ i + j <= Len(audit) + Len(pending)
            /\ i + j <= Len(audit) => audit[i + j].role = "tool"

\* A live record names a result that is whole, and what its call asked.
Live(r) ==
  /\ r.index \in 1..Len(audit) /\ r.id = r.index
  /\ r.call \in Calls /\ r.call.tool \in COMPACTABLE_TOOL_NAMES
  /\ prompt[r.index] = audit[r.index] /\ audit[r.index].kind = "result"
  /\ audit[r.index].tool = r.call.tool /\ Answers(r.call, audit[r.index])

LiveInv ==
  /\ IsFiniteSet(live) /\ \A r \in live : Live(r)
  /\ \A r, q \in live : r.index = q.index => r = q
  /\ IsFiniteSet(Placeholders) /\ compacted = Cardinality(Placeholders)

PromptInv == CopiesInv /\ BatchInv /\ LiveInv

LEMMA Extended ==
  ASSUME NEW s, IsRow(s), NEW t, IsRow(t)
  PROVE  /\ IsRow(s \o t) /\ Len(s \o t) = Len(s) + Len(t)
         /\ Len(s) \in Nat /\ Len(t) \in Nat
         /\ \A i \in 1..Len(s) : (s \o t)[i] = s[i]
         /\ \A j \in 1..Len(t) : (s \o t)[Len(s) + j] = t[j]
<1> DEFINE S == {s[i] : i \in 1..Len(s)}
           T == {t[i] : i \in 1..Len(t)}
           R == S \cup T
           u == s \o t
<1>1. s \in Seq(R) /\ t \in Seq(R)
  BY DEF IsRow
<1> HIDE DEF R
<1>2. u \in Seq(R)
  BY <1>1
<1>3. /\ Len(u) = Len(s) + Len(t) /\ Len(s) \in Nat /\ Len(t) \in Nat
      /\ \A i \in 1..Len(s) : u[i] = s[i]
      /\ \A j \in 1..Len(t) : u[Len(s) + j] = t[j]
  BY <1>1
<1> HIDE DEF u
<1>4. u \in Seq({u[i] : i \in 1..Len(u)})
  BY <1>2
<1> QED BY <1>3, <1>4 DEF IsRow, u

LEMMA OneMore ==
  ASSUME NEW s, IsRow(s), NEW m
  PROVE  IsRow(<<m>>) /\ Len(<<m>>) = 1 /\ <<m>>[1] = m /\ Append(s, m) = s \o <<m>>
<1>1. IsRow(<<m>>) /\ Len(<<m>>) = 1 /\ <<m>>[1] = m
  BY DEF IsRow
<1>2. Append(s, m) = s \o <<m>>
  <2> DEFINE R == {s[i] : i \in 1..Len(s)} \cup {m}
  <2>1. s \in Seq(R) /\ m \in R
    BY DEF IsRow
  <2> HIDE DEF R
  <2> QED BY <2>1
<1> QED BY <1>1, <1>2

\* Messages that are not results are recorded and sent alike.
LEMMA Logged ==
  ASSUME CopiesInv, LiveInv, NEW ms, IsRow(ms),
         audit' = audit \o ms, prompt' = prompt \o ms, live' = live, compacted' = compacted,
         \A j \in 1..Len(ms) :
           /\ ms[j].kind \notin {"placeholder", "result"}
           /\ ms[j].role = "tool" => ms[j].ids = <<Len(audit) + j>> /\ ms[j].kind # "calls"
  PROVE  CopiesInv' /\ LiveInv'
<1> USE DEF CopiesInv
<1>1. /\ IsRow(audit') /\ IsRow(prompt') /\ Len(prompt') = Len(audit')
      /\ Len(audit') = Len(audit) + Len(ms) /\ Len(audit) \in Nat /\ Len(ms) \in Nat
      /\ \A i \in 1..Len(audit) : audit'[i] = audit[i] /\ prompt'[i] = prompt[i]
      /\ \A j \in 1..Len(ms) : /\ audit'[Len(audit) + j] = ms[j]
                               /\ prompt'[Len(audit) + j] = ms[j]
  <2>0. IsRow(audit) /\ IsRow(ms) /\ Len(prompt) = Len(audit)
    OBVIOUS
  <2>1. IsRow(prompt)
    OBVIOUS
  <2> HIDE DEF CopiesInv
  <2>2. /\ IsRow(audit \o ms) /\ Len(audit \o ms) = Len(audit) + Len(ms)
        /\ Len(audit) \in Nat /\ Len(ms) \in Nat
        /\ \A i \in 1..Len(audit) : (audit \o ms)[i] = audit[i]
        /\ \A j \in 1..Len(ms) : (audit \o ms)[Len(audit) + j] = ms[j]
    BY <2>0, Extended
  <2>3. /\ IsRow(prompt \o ms) /\ Len(prompt \o ms) = Len(prompt) + Len(ms)
        /\ \A i \in 1..Len(prompt) : (prompt \o ms)[i] = prompt[i]
        /\ \A j \in 1..Len(ms) : (prompt \o ms)[Len(prompt) + j] = ms[j]
    BY <2>1, Extended
  <2> QED BY <2>0, <2>2, <2>3
<1>2. \A i \in 1..Len(audit') : i \in 1..Len(audit) \/ \E j \in 1..Len(ms) : i = Len(audit) + j
  <2> SUFFICES ASSUME NEW i \in 1..Len(audit'), ~ i \in 1..Len(audit)
               PROVE  \E j \in 1..Len(ms) : i = Len(audit) + j
    OBVIOUS
  <2>1. i - Len(audit) \in 1..Len(ms) /\ i = Len(audit) + (i - Len(audit))
    BY <1>1
  <2> QED BY <2>1
<1>3. \A i \in 1..Len(audit) : Dropped(i) => Dropped(i)'
  BY <1>1 DEF Dropped
<1>4. CopiesInv'
  <2> SUFFICES ASSUME NEW i \in 1..Len(audit')
               PROVE  /\ prompt'[i] = audit'[i] \/ Dropped(i)'
                      /\ audit'[i].kind # "placeholder"
                      /\ audit'[i].kind = "result" => audit'[i].role = "tool"
                      /\ audit'[i].role = "tool" => audit'[i].ids = <<i>> /\ audit'[i].kind # "calls"
    BY <1>1 DEF CopiesInv
  <2>1. CASE i \in 1..Len(audit)
    BY <1>1, <1>3, <2>1
  <2>2. CASE \E j \in 1..Len(ms) : i = Len(audit) + j
    BY <1>1, <2>2
  <2> QED BY <1>2, <2>1, <2>2
<1>5. Placeholders' = Placeholders
  <2>1. ASSUME NEW i \in 1..Len(audit'), prompt'[i].kind = "placeholder"
        PROVE  i \in 1..Len(audit)
    <3>1. \A j \in 1..Len(ms) : prompt'[Len(audit) + j].kind # "placeholder"
      BY <1>1
    <3> QED BY <1>2, <2>1, <3>1
  <2>2. \A i \in 1..Len(audit) : i \in 1..Len(audit') /\ prompt'[i] = prompt[i]
    BY <1>1
  <2> QED BY <1>1, <2>1, <2>2 DEF Placeholders
<1>6. \A r \in live : Live(r)'
  BY <1>1 DEF LiveInv, Live, Answers
<1> QED BY <1>4, <1>5, <1>6 DEF LiveInv

LEMMA Rest ==
  ASSUME NEW s, IsRow(s), s # <<>>
  PROVE  /\ IsRow(Tail(s)) /\ Len(s) \in Nat \ {0} /\ Len(Tail(s)) = Len(s) - 1
         /\ Head(s) = s[1] /\ \A i \in 1..Len(Tail(s)) : Tail(s)[i] = s[i + 1]
<1> DEFINE R == {s[i] : i \in 1..Len(s)}
           t == Tail(s)
<1>1. s \in Seq(R)
  BY DEF IsRow
<1> HIDE DEF R
<1>2. /\ t \in Seq(R) /\ Len(s) \in Nat \ {0} /\ Len(t) = Len(s) - 1
      /\ Head(s) = s[1] /\ \A i \in 1..Len(t) : t[i] = s[i + 1]
  BY <1>1
<1> HIDE DEF t
<1>3. t \in Seq({t[i] : i \in 1..Len(t)})
  BY <1>2
<1> QED BY <1>2, <1>3 DEF t, IsRow

\* An answer takes the place of the first call still to be answered.
LEMMA BatchAnswered ==
  ASSUME CopiesInv, BatchInv, pending # <<>>, pending' = Tail(pending),
         NEW m, m.role = "tool", m.kind # "calls", audit' = Append(audit, m)
  PROVE  BatchInv'
<1> USE DEF BatchInv
<1>1. /\ IsRow(audit) /\ Len(audit) \in Nat
      /\ Len(audit') = Len(audit) + 1 /\ audit'[Len(audit) + 1] = m
      /\ \A i \in 1..Len(audit) : audit'[i] = audit[i]
  BY OneMore, Extended DEF CopiesInv
<1>2. /\ IsRow(pending') /\ Len(pending) \in Nat \ {0} /\ Len(pending') = Len(pending) - 1
      /\ \A k \in 1..Len(pending') : pending'[k] = pending[k + 1]
  BY Rest
<1>3. ASSUME NEW k \in 1..Len(pending')
      PROVE  pending'[k].id = Len(audit') + k /\ pending'[k].call \in Calls
  <2>1. k + 1 \in 1..Len(pending)
    BY <1>2
  <2> QED BY <1>1, <1>2, <2>1
<1>4. ASSUME NEW i \in 1..Len(audit'), audit'[i].kind = "calls"
      PROVE  /\ Len(audit'[i].ids) \in Nat
             /\ \A j \in 1..Len(audit'[i].ids) :
                  /\ audit'[i].ids[j] = i + j /\ i + j <= Len(audit') + Len(pending')
                  /\ i + j <= Len(audit') => audit'[i + j].role = "tool"
  <2>1. i \in 1..Len(audit) /\ audit'[i] = audit[i]
    BY <1>1, <1>4
  <2>2. Len(audit[i].ids) \in Nat
    BY <1>4, <2>1
  <2>3. ASSUME NEW j \in 1..Len(audit[i].ids)
        PROVE  /\ audit[i].ids[j] = i + j /\ i + j <= Len(audit') + Len(pending')
               /\ i + j <= Len(audit') => audit'[i + j].role = "tool"
    <3>1. /\ audit[i].ids[j] = i + j /\ i + j <= Len(audit) + Len(pending)
          /\ i + j <= Len(audit) => audit[i + j].role = "tool"
      BY <1>4, <2>1
    <3>2. i + j \in Nat /\ i + j >= 1
      BY <2>1, <2>2
    <3>3. i + j <= Len(audit') => audit'[i + j].role = "tool"
      <4>1. CASE i + j = Len(audit) + 1
        BY <1>1, <4>1
      <4>2. CASE i + j <= Len(audit)
        BY <1>1, <3>1, <3>2, <4>2
      <4>3. Len(audit) \in Nat /\ Len(audit') = Len(audit) + 1
        BY <1>1
      <4>4. \A x \in Nat : x <= Len(audit') => x = Len(audit) + 1 \/ x <= Len(audit)
        BY <4>3
      <4> QED BY <3>2, <4>1, <4>2, <4>4
    <3>4. Len(audit) + Len(pending) = Len(audit') + Len(pending')
      BY <1>1, <1>2
    <3> QED BY <3>1, <3>3, <3>4
  <2> QED BY <2>1, <2>2, <2>3
<1> QED BY <1>2, <1>3, <1>4

\* Nothing is asked and nothing is open.
LEMMA BatchQuiet ==
  ASSUME CopiesInv, BatchInv, pending = <<>>, pending' = <<>>,
         NEW ms, IsRow(ms), \A j \in 1..Len(ms) : ms[j].kind # "calls",
         audit' = audit \o ms
  PROVE  BatchInv'
<1> USE DEF BatchInv
<1>1. /\ Len(audit') = Len(audit) + Len(ms) /\ Len(audit) \in Nat /\ Len(ms) \in Nat
      /\ \A i \in 1..Len(audit) : audit'[i] = audit[i]
      /\ \A j \in 1..Len(ms) : audit'[Len(audit) + j] = ms[j]
  BY Extended DEF CopiesInv
<1>2. IsRow(<<>>) /\ Len(<<>>) = 0
  BY DEF IsRow
<1>3. ASSUME NEW i \in 1..Len(audit'), audit'[i].kind = "calls"
      PROVE  i \in 1..Len(audit) /\ audit'[i] = audit[i]
  <2>1. CASE i \in 1..Len(audit)
    BY <1>1, <2>1
  <2>2. CASE i \notin 1..Len(audit)
    <3>1. i - Len(audit) \in 1..Len(ms) /\ i = Len(audit) + (i - Len(audit))
      BY <1>1, <2>2
    <3> QED BY <1>1, <1>3, <3>1
  <2> QED BY <2>1, <2>2
<1>4. ASSUME NEW i \in 1..Len(audit), audit[i].kind = "calls"
      PROVE  /\ Len(audit[i].ids) \in Nat
             /\ \A j \in 1..Len(audit[i].ids) :
                  /\ audit[i].ids[j] = i + j /\ i + j \in 1..Len(audit)
                  /\ audit[i + j].role = "tool"
  BY <1>1, <1>2, <1>4
<1>5. ASSUME NEW i \in 1..Len(audit'), audit'[i].kind = "calls"
      PROVE  /\ Len(audit'[i].ids) \in Nat
             /\ \A j \in 1..Len(audit'[i].ids) :
                  /\ audit'[i].ids[j] = i + j /\ i + j <= Len(audit') + Len(pending')
                  /\ i + j <= Len(audit') => audit'[i + j].role = "tool"
  BY <1>1, <1>2, <1>3, <1>4, <1>5
<1> QED BY <1>2, <1>5

LEMMA BatchReplied ==
  ASSUME CopiesInv, BatchInv, pending = <<>>, NEW n \in Nat, NEW batch \in [1..n -> Calls],
         Reply(batch)
  PROVE  BatchInv'
<1> USE DEF BatchInv
<1> DEFINE ids == CallIds(batch)
           m == Message("assistant", ids, "calls", "", {}, FALSE, 0)
<1>1. batch \in Seq(Calls) /\ Len(batch) = n
  OBVIOUS
<1>2. /\ ids = [i \in 1..n |-> Len(audit) + 1 + i]
      /\ pending' = [i \in 1..n |-> [id |-> Len(audit) + 1 + i, call |-> batch[i]]]
      /\ audit' = Append(audit, m)
  BY <1>1 DEF Reply, CallIds, Log
<1> HIDE DEF m
<1>3. /\ IsRow(audit) /\ Len(audit) \in Nat
      /\ Len(audit') = Len(audit) + 1 /\ audit'[Len(audit) + 1] = m
      /\ \A i \in 1..Len(audit) : audit'[i] = audit[i]
  <2>1. IsRow(audit)
    BY DEF CopiesInv
  <2>2. audit' = audit \o <<m>> /\ IsRow(<<m>>) /\ Len(<<m>>) = 1 /\ <<m>>[1] = m
    BY <1>2, <2>1, OneMore
  <2> QED BY <2>1, <2>2, Extended
<1>4. m.kind = "calls" /\ m.ids = ids
  BY DEF Message, m
<1>5. Len(ids) = n
  <2>1. ids \in [1..n -> Nat]
    <3>1. Len(audit) \in Nat /\ ids = [i \in 1..n |-> Len(audit) + 1 + i]
      BY <1>2, <1>3
    <3>2. \A i \in 1..n : Len(audit) + 1 + i \in Nat
      BY <3>1
    <3> HIDE DEF ids
    <3> QED BY <3>1, <3>2
  <2> HIDE DEF ids
  <2> QED BY <2>1
<1>6. IsRow(pending') /\ Len(pending') = n
  <2> DEFINE R == {[id |-> Len(audit) + 1 + i, call |-> batch[i]] : i \in 1..n}
  <2>1. pending' \in [1..n -> R]
    BY <1>2
  <2> HIDE DEF R
  <2>2. pending' \in Seq(R) /\ Len(pending') = n
    BY <2>1
  <2> QED BY <2>2 DEF IsRow
<1> HIDE DEF ids
<1>7. \A k \in 1..n : pending'[k].id = Len(audit') + k /\ pending'[k].call \in Calls
  BY <1>2, <1>3
<1>8. IsRow(<<>>) /\ Len(<<>>) = 0
  BY DEF IsRow
<1>9. ASSUME NEW i \in 1..Len(audit'), audit'[i].kind = "calls"
      PROVE  /\ Len(audit'[i].ids) \in Nat
             /\ \A j \in 1..Len(audit'[i].ids) :
                  /\ audit'[i].ids[j] = i + j /\ i + j <= Len(audit') + Len(pending')
                  /\ i + j <= Len(audit') => audit'[i + j].role = "tool"
  <2>1. CASE i = Len(audit) + 1
    BY <1>2, <1>3, <1>4, <1>5, <1>6, <2>1
  <2>2. CASE i \in 1..Len(audit)
    <3>1. /\ Len(audit[i].ids) \in Nat /\ audit'[i] = audit[i]
          /\ \A j \in 1..Len(audit[i].ids) :
               /\ audit[i].ids[j] = i + j /\ i + j \in 1..Len(audit)
               /\ audit[i + j].role = "tool"
      BY <1>3, <1>8, <1>9, <2>2
    <3>2. \A j \in 1..Len(audit[i].ids) :
            i + j <= Len(audit') + Len(pending') /\ audit'[i + j].role = "tool"
      BY <1>3, <1>6, <3>1
    <3> QED BY <3>1, <3>2
  <2> QED BY <1>3, <2>1, <2>2
<1> QED BY <1>6, <1>7, <1>9

\* An accepted result is appended, and what it supersedes is dropped from the
\* prompt: each dropped result is named by a live record, hence is whole.
LEMMA Compacted ==
  ASSUME CopiesInv, BatchInv, LiveInv, pending # <<>>,
         NEW next, next = Head(pending), NEW outcome \in OutcomesOf[next.call],
         Accepted(next, outcome)
  PROVE  CopiesInv' /\ LiveInv'
<1> DEFINE N == Len(audit) + 1
           m == ResultMessage(next, outcome)
           q == Append(prompt, m)
           D == Superseded(next)
           I == {r.index : r \in D}
<1>1. next.id = N /\ next.call \in Calls
  BY Rest DEF BatchInv
<1>2. /\ m.role = "tool" /\ m.ids = <<N>> /\ m.kind = "result" /\ m.tool = next.call.tool
      /\ Answers(next.call, m)
  BY <1>1 DEF Accepted, ResultMessage, Message, Answers
<1>3. /\ audit' = Append(audit, m)
      /\ prompt' = [i \in 1..Len(q) |-> IF i \in I THEN Placeholder(q[i], N) ELSE q[i]]
      /\ compacted' = compacted + Cardinality(D)
      /\ live' = (live \ D) \cup (IF next.call.tool \in COMPACTABLE_TOOL_NAMES
                                  THEN {RecordOf(next, Len(prompt) + 1)} ELSE {})
  BY <1>1 DEF Accepted, Compact
<1> HIDE DEF m
<1>4. /\ IsRow(audit) /\ IsRow(prompt) /\ Len(prompt) = Len(audit) /\ Len(audit) \in Nat
  BY Extended, OneMore DEF CopiesInv
<1>5. /\ IsRow(audit') /\ Len(audit') = N /\ audit'[N] = m
      /\ \A i \in 1..Len(audit) : audit'[i] = audit[i]
  <2>1. audit' = audit \o <<m>> /\ IsRow(<<m>>) /\ Len(<<m>>) = 1 /\ <<m>>[1] = m
    BY <1>3, <1>4, OneMore
  <2> QED BY <1>4, <2>1, Extended
<1>6. /\ Len(q) = N /\ q[N] = m
      /\ \A i \in 1..Len(audit) : q[i] = prompt[i]
  <2>0. IsRow(prompt)
    BY <1>4
  <2>1. q = prompt \o <<m>> /\ IsRow(<<m>>) /\ Len(<<m>>) = 1 /\ <<m>>[1] = m
    BY <2>0, OneMore
  <2>2. Len(q) = Len(prompt) + 1 /\ q[Len(prompt) + 1] = m
        /\ \A i \in 1..Len(prompt) : q[i] = prompt[i]
    BY <2>0, <2>1, Extended
  <2> QED BY <1>4, <2>2
<1> HIDE DEF q
<1>7. \A r \in D : /\ r \in live /\ Live(r) /\ r.index \in 1..Len(audit)
                   /\ r.call.tool = next.call.tool /\ Supersedes(next.call, r.call)
  BY DEF Superseded, LiveInv, Live
<1> HIDE DEF D
<1>8. I \subseteq 1..Len(audit) /\ N \notin I /\ N \in Nat
  BY <1>4, <1>7
<1>9. /\ IsRow(prompt') /\ Len(prompt') = N /\ prompt'[N] = m
      /\ \A i \in I : prompt'[i] = Placeholder(prompt[i], N)
      /\ \A i \in (1..Len(audit)) \ I : prompt'[i] = prompt[i]
  <2> DEFINE R == {IF i \in I THEN Placeholder(q[i], N) ELSE q[i] : i \in 1..N}
  <2> HIDE DEF I
  <2>1. prompt' \in [1..N -> R]
    BY <1>3, <1>6
  <2>2. \A i \in 1..N : prompt'[i] = IF i \in I THEN Placeholder(q[i], N) ELSE q[i]
    BY <1>3, <1>6
  <2> HIDE DEF R
  <2>3. prompt' \in Seq(R) /\ Len(prompt') = N
    BY <1>8, <2>1
  <2>4. IsRow(prompt')
    BY <2>3 DEF IsRow
  <2>5. \A i \in 1..Len(audit) : i \in 1..N
    BY <1>4
  <2>6. N \in 1..N
    BY <1>8, <1>4
  <2> QED BY <1>6, <1>8, <2>2, <2>3, <2>4, <2>5, <2>6
\* The rest of the record is as it was, and what is dropped is answered for.
<1>10. CopiesInv'
  <2>1. ASSUME NEW i \in I PROVE Dropped(i)'
    <3>1. PICK r \in D : r.index = i
      OBVIOUS
    <3>2. /\ i \in 1..Len(audit) /\ prompt[i] = audit[i] /\ audit[i].kind = "result"
          /\ audit[i].tool = next.call.tool /\ audit[i].tool \in COMPACTABLE_TOOL_NAMES
          /\ Answers(r.call, audit[i]) /\ r.call \in Calls /\ r.call.tool = next.call.tool
          /\ Supersedes(next.call, r.call)
      BY <1>7, <3>1 DEF Live
    <3>3. audit[i].facts \subseteq m.facts \/ m.more
      BY <1>1, <1>2, <3>2, LaterStates
    <3>4. /\ audit'[i] = audit[i] /\ audit'[N] = m /\ Len(audit') = N
          /\ prompt'[i] = Placeholder(audit[i], N) /\ N \in (i + 1)..N
      BY <1>4, <1>5, <1>9, <3>2
    <3>5. prompt'[i].by = N
      BY <3>4 DEF Placeholder, Message
    <3> HIDE DEF N
    <3> QED BY <1>2, <3>2, <3>3, <3>4, <3>5 DEF Dropped
  <2>2. ASSUME NEW i \in (1..Len(audit)) \ I
        PROVE  prompt'[i] = audit'[i] \/ Dropped(i)'
    <3>1. prompt'[i] = prompt[i] /\ audit'[i] = audit[i]
      BY <1>5, <1>9
    <3>2. CASE prompt[i] = audit[i]
      BY <3>1, <3>2
    <3>3. CASE Dropped(i)
      <4>1. /\ prompt[i].by \in (i + 1)..Len(audit')
            /\ audit'[prompt[i].by] = audit[prompt[i].by]
        BY <1>4, <1>5, <3>3 DEF Dropped
      <4> QED BY <3>1, <3>3, <4>1 DEF Dropped
    <3> QED BY <3>2, <3>3 DEF CopiesInv
  <2>3. ASSUME NEW i \in 1..Len(audit')
        PROVE  /\ prompt'[i] = audit'[i] \/ Dropped(i)'
               /\ audit'[i].kind # "placeholder"
               /\ audit'[i].kind = "result" => audit'[i].role = "tool"
               /\ audit'[i].role = "tool" => audit'[i].ids = <<i>> /\ audit'[i].kind # "calls"
    <3>1. i = N \/ i \in 1..Len(audit)
      BY <1>4, <1>5
    <3>2. CASE i = N
      BY <1>2, <1>5, <1>9, <3>2
    <3>3. CASE i \in 1..Len(audit)
      BY <1>5, <2>1, <2>2, <3>3 DEF CopiesInv
    <3> QED BY <3>1, <3>2, <3>3
  <2> QED BY <1>5, <1>9, <2>3 DEF CopiesInv
<1>11. \A r \in live' : Live(r)'
  <2>1. ASSUME NEW r \in live \ D PROVE Live(r)'
    <3>1. Live(r) /\ \A d \in D : d.index # r.index
      BY <1>7 DEF LiveInv
    <3>2. r.index \in (1..Len(audit)) \ I
      BY <3>1 DEF Live
    <3>3. /\ prompt'[r.index] = prompt[r.index] /\ audit'[r.index] = audit[r.index]
          /\ r.index \in 1..Len(audit')
      BY <1>4, <1>5, <1>9, <3>2
    <3> QED BY <3>1, <3>3 DEF Live, Answers
  <2>2. ASSUME NEW r, r = RecordOf(next, Len(prompt) + 1),
               next.call.tool \in COMPACTABLE_TOOL_NAMES
        PROVE  Live(r)'
    <3>1. r.index = N /\ r.id = N /\ r.call = next.call
      BY <1>1, <1>4, <2>2 DEF RecordOf
    <3>2. N \in 1..Len(audit') /\ prompt'[N] = m /\ audit'[N] = m
      BY <1>5, <1>8, <1>9
    <3> HIDE DEF N
    <3> QED BY <1>1, <1>2, <2>2, <3>1, <3>2 DEF Live, Answers
  <2> QED BY <1>3, <2>1, <2>2
<1>12. IsFiniteSet(live') /\ \A r, s \in live' : r.index = s.index => r = s
  <2>1. IsFiniteSet(live \ D)
    BY FS_Subset DEF LiveInv
  <2>2. IsFiniteSet((live \ D) \cup {RecordOf(next, Len(prompt) + 1)})
    BY <2>1, FS_AddElement
  <2>3. \A r \in live : r.index # N
    BY <1>4 DEF LiveInv, Live
  <2>4. RecordOf(next, Len(prompt) + 1).index = N
    BY <1>4 DEF RecordOf
  <2> HIDE DEF N
  <2>5. IsFiniteSet(live')
    BY <1>3, <2>1, <2>2
  <2> QED BY <1>3, <2>3, <2>4, <2>5 DEF LiveInv
<1>13. IsFiniteSet(Placeholders') /\ compacted' = Cardinality(Placeholders')
  <2>1. Placeholders' = Placeholders \cup I
    <3>1. \A i \in I : prompt'[i].kind = "placeholder"
      <4>1. \A message, by : Placeholder(message, by).kind = "placeholder"
        BY DEF Placeholder, Message
      <4> HIDE DEF I
      <4> QED BY <1>9, <4>1
    <3>2. \A i \in 1..N : i = N \/ i \in 1..Len(audit)
      BY <1>4
    <3>3. \A i \in 1..Len(audit) : i \in 1..N
      BY <1>4
    <3> HIDE DEF I, N
    <3> QED BY <1>2, <1>4, <1>8, <1>9, <3>1, <3>2, <3>3 DEF Placeholders
  <2>2. Placeholders \cap I = {}
    <3>1. \A r \in D : prompt[r.index].kind = "result"
      BY <1>7 DEF Live
    <3> QED BY <3>1 DEF Placeholders
  <2>3. IsFiniteSet(D)
    BY <1>7, FS_Subset DEF LiveInv
  <2>4. IsFiniteSet(I) /\ Cardinality(I) = Cardinality(D)
    <3> DEFINE f == [r \in D |-> r.index]
    <3>1. \A r, s \in D : f[r] = f[s] => r = s
      BY <1>7 DEF LiveInv
    <3>2. f \in [D -> I] /\ \A i \in I : \E r \in D : f[r] = i
      OBVIOUS
    <3> HIDE DEF f, I
    <3>3. f \in Bijection(D, I)
      BY <3>1, <3>2 DEF Bijection, Injection, IsInjective, Surjection
    <3> QED BY <2>3, <3>3, FS_Bijection DEF ExistsBijection
  <2>5. Cardinality({}) = 0 /\ Cardinality(D) \in Nat /\ Cardinality(Placeholders) \in Nat
    BY <2>3, FS_EmptySet, FS_CardinalityType DEF LiveInv
  <2>6. /\ IsFiniteSet(Placeholders \cup I)
        /\ Cardinality(Placeholders \cup I) = Cardinality(Placeholders) + Cardinality(D)
    <3>1. IsFiniteSet(Placeholders)
      BY DEF LiveInv
    <3> HIDE DEF I
    <3>2. /\ IsFiniteSet(Placeholders \cup I)
          /\ Cardinality(Placeholders \cup I) =
               Cardinality(Placeholders) + Cardinality(I) - Cardinality(Placeholders \cap I)
      BY <2>4, <3>1, FS_Union
    <3>3. Placeholders \cap I = {} /\ Cardinality(I) = Cardinality(D)
      BY <2>2, <2>4
    <3>4. Cardinality(Placeholders \cap I) = 0
      BY <2>5, <3>3
    <3> QED BY <2>5, <3>2, <3>3, <3>4
  <2> QED BY <1>3, <2>1, <2>6 DEF LiveInv
<1> QED BY <1>10, <1>11, <1>12, <1>13 DEF LiveInv

LEMMA PromptInit == Init => PromptInv
<1> SUFFICES ASSUME Init PROVE PromptInv
  OBVIOUS
<1> DEFINE x == Text("system")
           y == Text("user")
<1>1. x.kind = "text" /\ x.role = "system" /\ y.kind = "text" /\ y.role = "user"
  BY DEF Text, Message
<1>2. audit = <<x, y>> /\ prompt = <<x, y>> /\ pending = <<>> /\ live = {} /\ compacted = 0
  BY DEF Init
<1> HIDE DEF x, y
<1>3. /\ IsRow(audit) /\ Len(audit) = 2 /\ audit[1] = x /\ audit[2] = y
      /\ \A i \in 1..2 : i = 1 \/ i = 2
  BY <1>2 DEF IsRow
<1>4. CopiesInv
  BY <1>1, <1>2, <1>3 DEF CopiesInv
<1>5. BatchInv
  <2>1. IsRow(<<>>) /\ Len(<<>>) = 0
    BY DEF IsRow
  <2> QED BY <1>1, <1>2, <1>3, <2>1 DEF BatchInv
<1>6. LiveInv
  <2>1. Placeholders = {}
    BY <1>1, <1>2, <1>3 DEF Placeholders
  <2> QED BY <1>2, <2>1, FS_EmptySet DEF LiveInv
<1> QED BY <1>4, <1>5, <1>6 DEF PromptInv

LEMMA PromptStep == PromptInv /\ [Next]_vars => PromptInv'
<1> SUFFICES ASSUME PromptInv, [Next]_vars PROVE PromptInv'
  OBVIOUS
<1> USE DEF PromptInv
<1>0. IsRow(audit) /\ IsRow(prompt) /\ IsRow(pending) /\ Len(audit) \in Nat
  BY Extended, OneMore DEF CopiesInv, BatchInv
<1>1. ASSUME NEW n \in 1..MaxBatch, NEW batch \in [1..n -> Calls], Reply(batch)
      PROVE  PromptInv'
  <2> DEFINE m == Message("assistant", CallIds(batch), "calls", "", {}, FALSE, 0)
  <2>1. /\ audit' = Append(audit, m) /\ prompt' = Append(prompt, m) /\ pending = <<>>
        /\ live' = live /\ compacted' = compacted
    BY <1>1 DEF Reply, Log, MayAsk
  <2>2. m.role = "assistant" /\ m.kind = "calls"
    BY DEF Message
  <2> HIDE DEF m
  <2>3. /\ audit' = audit \o <<m>> /\ prompt' = prompt \o <<m>>
        /\ IsRow(<<m>>) /\ Len(<<m>>) = 1 /\ <<m>>[1] = m
    BY <1>0, <2>1, OneMore
  <2>7. \A j \in 1..Len(<<m>>) :
          /\ <<m>>[j].kind \notin {"placeholder", "result"}
          /\ <<m>>[j].role = "tool" => <<m>>[j].ids = <<Len(audit) + j>> /\ <<m>>[j].kind # "calls"
    BY <2>2, <2>3
  <2>4. CopiesInv' /\ LiveInv'
    BY <2>1, <2>3, <2>7, Logged
  <2>5. n \in Nat
    OBVIOUS
  <2>6. BatchInv'
    BY <1>1, <2>1, <2>5, BatchReplied
  <2> QED BY <2>4, <2>6
<1>2. ASSUME NEW ms, IsRow(ms), \A j \in 1..Len(ms) : ms[j].kind = "text" /\ ms[j].role # "tool",
             pending = <<>>, pending' = pending, live' = live, compacted' = compacted,
             audit' = audit \o ms, prompt' = prompt \o ms
      PROVE  PromptInv'
  <2>1. CopiesInv' /\ LiveInv'
    BY <1>2, Logged
  <2>2. BatchInv'
    BY <1>2, BatchQuiet
  <2> QED BY <2>1, <2>2
<1>3. Text("user").kind = "text" /\ Text("user").role = "user"
      /\ Text("assistant").kind = "text" /\ Text("assistant").role = "assistant"
  BY DEF Text, Message
<1>4. CASE ReplyWithoutCalls
  <2> DEFINE ms == <<Text("assistant"), Text("user")>>
  <2>1. IsRow(ms) /\ Len(ms) = 2 /\ ms[1] = Text("assistant") /\ ms[2] = Text("user")
    BY DEF IsRow
  <2>2. /\ audit' = audit \o ms /\ prompt' = prompt \o ms /\ pending = <<>> /\ pending' = pending
        /\ live' = live /\ compacted' = compacted
    BY <1>4 DEF ReplyWithoutCalls, MayAsk
  <2> HIDE DEF ms
  <2>3. \A j \in 1..Len(ms) : ms[j].kind = "text" /\ ms[j].role # "tool"
    BY <1>3, <2>1
  <2> QED BY <1>2, <2>1, <2>2, <2>3
<1>5. CASE AnswerNext
  <2> DEFINE next == Head(pending)
  <2>1. PICK outcome \in OutcomesOf[next.call] :
          Accepted(next, outcome) \/ Rejected(next, outcome)
    BY <1>5 DEF AnswerNext
  <2> DEFINE m == ResultMessage(next, outcome)
  <2>2. /\ pending # <<>> /\ pending' = Tail(pending) /\ audit' = Append(audit, m)
        /\ next.id = Len(audit) + 1
    BY <1>5, <2>1, Rest DEF AnswerNext, Accepted, Rejected, Log, BatchInv
  <2>3. /\ m.role = "tool" /\ m.kind \in {"result", "refusal"} /\ m.ids = <<next.id>>
        /\ ~ outcome.ok => m.kind = "refusal"
    BY DEF ResultMessage, Message
  <2> HIDE DEF m
  <2>4. BatchInv'
    BY <2>2, <2>3, BatchAnswered
  <2>5. CASE Accepted(next, outcome)
    <3>1. CopiesInv' /\ LiveInv'
      BY <2>2, <2>5, Compacted
    <3> QED BY <2>4, <3>1
  <2>6. CASE Rejected(next, outcome)
    <3>1. /\ prompt' = Append(prompt, m) /\ live' = live /\ compacted' = compacted /\ ~ outcome.ok
      BY <2>6 DEF Rejected, Log, m
    <3>2. /\ audit' = audit \o <<m>> /\ prompt' = prompt \o <<m>>
          /\ IsRow(<<m>>) /\ Len(<<m>>) = 1 /\ <<m>>[1] = m
      BY <1>0, <2>2, <3>1, OneMore
    <3>7. \A j \in 1..Len(<<m>>) :
            /\ <<m>>[j].kind \notin {"placeholder", "result"}
            /\ <<m>>[j].role = "tool" => <<m>>[j].ids = <<Len(audit) + j>> /\ <<m>>[j].kind # "calls"
      BY <2>2, <2>3, <3>1, <3>2
    <3>3. CopiesInv' /\ LiveInv'
      BY <3>1, <3>2, <3>7, Logged
    <3> QED BY <2>4, <3>3
  <2> QED BY <2>1, <2>5, <2>6
<1>6. CASE UNCHANGED <<audit, prompt, live, pending, compacted>>
  <2>3. CopiesInv'
    BY <1>6 DEF CopiesInv, Dropped
  <2>4. Placeholders' = Placeholders /\ \A r : Live(r)' <=> Live(r)
    BY <1>6 DEF Placeholders, Live, Answers
  <2>1. CopiesInv' /\ LiveInv'
    BY <1>6, <2>3, <2>4 DEF LiveInv
  <2>2. BatchInv'
    BY <1>6 DEF BatchInv
  <2> QED BY <2>1, <2>2
<1>7. CASE Intervene
  <2>1. CASE stall
    BY <1>6, <1>7, <2>1 DEF Intervene
  <2>2. CASE ~ stall
    <3>1. /\ audit' = Append(audit, Text("user")) /\ prompt' = Append(prompt, Text("user"))
          /\ pending = <<>> /\ pending' = pending /\ live' = live /\ compacted' = compacted
      BY <1>7, <2>2 DEF Intervene, Log
    <3>2. /\ audit' = audit \o <<Text("user")>> /\ prompt' = prompt \o <<Text("user")>>
          /\ IsRow(<<Text("user")>>) /\ Len(<<Text("user")>>) = 1
          /\ <<Text("user")>>[1] = Text("user")
      BY <1>0, <3>1, OneMore
    <3>7. \A j \in 1..Len(<<Text("user")>>) : /\ <<Text("user")>>[j].kind = "text"
                                               /\ <<Text("user")>>[j].role # "tool"
      BY <1>3, <3>2
    <3> QED BY <1>2, <3>1, <3>2, <3>7
  <2> QED BY <2>1, <2>2
<1> QED BY <1>1, <1>4, <1>5, <1>6, <1>7 DEF Next, Exhausted, vars

-----------------------------------------------------------------------------
(* What the invariant implies.                                             *)

LEMMA LastOne ==
  ASSUME NEW n \in Nat, NEW S, S \subseteq 1..n, S # {}
  PROVE  \E m \in S : \A j \in S : j <= m
<1> DEFINE T == {n - j : j \in S}
<1>1. T \subseteq Nat /\ T # {}
  <2>1. \A j \in S : j \in 1..n
    OBVIOUS
  <2>2. \A j \in 1..n : n - j \in Nat
    OBVIOUS
  <2> QED BY <2>1, <2>2
<1> HIDE DEF T
<1>2. PICK x \in T : \A y \in T : ~ (<<y, x>> \in OpToRel(<, Nat))
  BY <1>1, NatLessThanWellFounded, WFMin
<1>3. \A y \in T : ~ (y < x)
  BY <1>1, <1>2 DEF OpToRel
<1>4. PICK m \in S : x = n - m
  BY DEF T
<1>5. \A j \in S : n - j \in T
  BY DEF T
<1>6. ASSUME NEW j \in S PROVE j <= m
  <2>1. ~ (n - j < n - m)
    BY <1>3, <1>4, <1>5
  <2>2. j \in Int /\ m \in Int
    OBVIOUS
  <2> QED BY <2>1, <2>2
<1> QED BY <1>6

\* An accepted answer is found at its own place.
LEMMA AnswerAt ==
  ASSUME CopiesInv, NEW k \in 1..Len(audit), audit[k].kind = "result"
  PROVE  AnswerOf(k) = k
<1>1. audit[k].role = "tool" /\ audit[k].ids = <<k>>
  BY DEF CopiesInv
<1>2. \A i \in 1..Len(audit) : audit[i].role = "tool" /\ audit[i].ids = <<k>> => i = k
  BY DEF CopiesInv
<1> QED BY <1>1, <1>2 DEF AnswerOf

\* Of the results that share a fact or a tool the last is whole or has a page.
LEMMA LastIsWhole ==
  ASSUME CopiesInv, NEW S, S # {}, S \subseteq Results(audit)
  PROVE  \E m \in S : /\ \A j \in S : j <= m
                      /\ \/ m \in Results(prompt) /\ prompt[m] = audit[m]
                         \/ /\ Dropped(m) /\ m \in Placeholders
                            /\ prompt[m].by \notin S
<1>1. Len(audit) \in Nat /\ Len(prompt) = Len(audit) /\ S \subseteq 1..Len(audit)
  BY Extended, OneMore DEF CopiesInv, Results
<1>2. PICK m \in S : \A j \in S : j <= m
  BY <1>1, LastOne
<1>3. m \in 1..Len(audit) /\ audit[m].kind = "result"
  BY <1>1 DEF Results
<1>4. CASE prompt[m] = audit[m]
  BY <1>1, <1>2, <1>3, <1>4 DEF Results
<1>5. CASE Dropped(m)
  <2>1. prompt[m].by \in (m + 1)..Len(audit) /\ prompt[m].kind = "placeholder"
    BY <1>5 DEF Dropped, Placeholder, Message
  <2>2. prompt[m].by \notin S
    BY <1>1, <1>2, <1>3, <2>1
  <2> QED BY <1>1, <1>2, <1>3, <1>5, <2>1, <2>2 DEF Placeholders
<1> QED BY <1>3, <1>4, <1>5 DEF CopiesInv

LEMMA InvLost == PromptInv => LostOnlyToPages
<1> SUFFICES ASSUME PromptInv, NEW fact \in Told \ Readable
             PROVE  \E i \in Placeholders : /\ fact \in audit[i].facts
                                            /\ audit[AnswerOf(prompt[i].by)].more
  BY DEF LostOnlyToPages
<1> DEFINE S == {i \in Results(audit) : fact \in audit[i].facts}
<1>1. S # {} /\ S \subseteq Results(audit)
  BY DEF Told
<1>2. CopiesInv
  BY DEF PromptInv
<1> HIDE DEF S
<1>3. PICK m \in S : \/ m \in Results(prompt) /\ prompt[m] = audit[m]
                     \/ /\ Dropped(m) /\ m \in Placeholders
                        /\ prompt[m].by \notin S
  BY <1>1, <1>2, LastIsWhole
<1>4. fact \in audit[m].facts
  BY DEF S
<1>5. Dropped(m) /\ m \in Placeholders /\ prompt[m].by \notin S
  BY <1>3, <1>4 DEF Readable
<1> DEFINE k == prompt[m].by
<1>6. /\ k \in 1..Len(audit) /\ audit[k].kind = "result"
      /\ audit[m].facts \subseteq audit[k].facts \/ audit[k].more
  <2>1. m \in 1..Len(audit)
    BY <1>1 DEF Results
  <2>2. k \in (m + 1)..Len(audit) /\ audit[k].kind = "result"
        /\ (audit[m].facts \subseteq audit[k].facts \/ audit[k].more)
    BY <1>5 DEF Dropped
  <2> HIDE DEF k
  <2> QED BY <2>1, <2>2
<1>7. audit[k].more
  BY <1>4, <1>5, <1>6 DEF S, Results
<1>8. AnswerOf(k) = k
  BY <1>2, <1>6, AnswerAt
<1> QED BY <1>4, <1>5, <1>7, <1>8

LEMMA InvWellFormed == PromptInv => PromptWellFormed
<1> SUFFICES ASSUME PromptInv PROVE PromptWellFormed
  OBVIOUS
<1> USE DEF PromptInv
<1>0. Len(audit) \in Nat /\ Len(prompt) = Len(audit) /\ Len(pending) \in Nat
  BY Extended, OneMore DEF CopiesInv, BatchInv
<1>1. ASSUME NEW i \in 1..Len(audit), Dropped(i)
      PROVE  /\ i \in Placeholders /\ i \in Results(audit)
             /\ audit[i].tool \in COMPACTABLE_TOOL_NAMES
             /\ prompt[i].ids = audit[i].ids /\ prompt[i].tool = audit[i].tool
             /\ prompt[i].kind = "placeholder" /\ prompt[i].role = "tool"
  <2>1. \A message, by : /\ Placeholder(message, by).kind = "placeholder"
                         /\ Placeholder(message, by).role = "tool"
                         /\ Placeholder(message, by).ids = message.ids
                         /\ Placeholder(message, by).tool = message.tool
    BY DEF Placeholder, Message
  <2>2. /\ audit[i].kind = "result" /\ audit[i].tool \in COMPACTABLE_TOOL_NAMES
        /\ prompt[i] = Placeholder(audit[i], prompt[i].by)
    BY <1>1 DEF Dropped
  <2>3. /\ prompt[i].kind = "placeholder" /\ prompt[i].role = "tool"
        /\ prompt[i].ids = audit[i].ids /\ prompt[i].tool = audit[i].tool
    BY <2>1, <2>2
  <2> QED BY <1>0, <2>2, <2>3 DEF Placeholders, Results
<1>2. ASSUME NEW i \in 1..Len(audit)
      PROVE  /\ audit[i].kind # "placeholder"
             /\ \/ prompt[i] = audit[i]
                \/ /\ i \in Placeholders /\ i \in Results(audit)
                   /\ audit[i].tool \in COMPACTABLE_TOOL_NAMES
                   /\ prompt[i].ids = audit[i].ids /\ prompt[i].tool = audit[i].tool
  BY <1>1 DEF CopiesInv
<1>3. ASSUME NEW i \in 1..Len(prompt), prompt[i].kind = "calls", NEW j \in 1..Len(prompt[i].ids)
      PROVE  \/ i + j <= Len(prompt) /\ prompt[i + j].role = "tool"
                /\ prompt[i + j].ids = <<prompt[i].ids[j]>>
             \/ \E k \in 1..Len(pending) : pending[k].id = prompt[i].ids[j]
  <2>1. i \in 1..Len(audit) /\ prompt[i] = audit[i]
    BY <1>0, <1>1, <1>3 DEF CopiesInv
  <2>2. /\ Len(audit[i].ids) \in Nat
        /\ audit[i].ids[j] = i + j /\ i + j <= Len(audit) + Len(pending)
        /\ i + j <= Len(audit) => audit[i + j].role = "tool"
    BY <1>3, <2>1 DEF BatchInv
  <2>3. i \in Nat \ {0} /\ j \in Nat \ {0}
    BY <1>0, <2>1, <2>2
  <2>4. CASE i + j <= Len(audit)
    <3>1. i + j \in 1..Len(audit) /\ audit[i + j].role = "tool"
      BY <1>0, <2>2, <2>3, <2>4
    <3>2. audit[i + j].ids = <<i + j>>
      BY <3>1 DEF CopiesInv
    <3>3. prompt[i + j].role = "tool" /\ prompt[i + j].ids = <<i + j>>
      BY <1>1, <3>1, <3>2 DEF CopiesInv
    <3> QED BY <1>0, <2>1, <2>2, <2>4, <3>3
  <2>5. CASE ~ (i + j <= Len(audit))
    <3> DEFINE k == i + j - Len(audit)
    <3>1. k \in 1..Len(pending) /\ Len(audit) + k = i + j
      BY <1>0, <2>2, <2>3, <2>5
    <3>2. pending[k].id = Len(audit) + k
      BY <3>1 DEF BatchInv
    <3> QED BY <2>1, <2>2, <3>1, <3>2
  <2> QED BY <2>4, <2>5
<1>4. ASSUME NEW i \in Placeholders
      PROVE  \E j \in Results(prompt) : j > i /\ prompt[j].tool = prompt[i].tool
  <2>1. i \in 1..Len(audit) /\ prompt[i].kind = "placeholder"
    BY <1>0 DEF Placeholders
  <2>2. Dropped(i)
    BY <1>2, <2>1 DEF CopiesInv
  <2> DEFINE S == {j \in Results(audit) : audit[j].tool = audit[i].tool}
  <2>3. i \in S /\ S \subseteq Results(audit)
    BY <1>1, <2>1, <2>2
  <2>4. \A j \in S : Dropped(j) => prompt[j].by \in S
    <3> SUFFICES ASSUME NEW j \in S, Dropped(j) PROVE prompt[j].by \in S
      OBVIOUS
    <3>1. j \in 1..Len(audit) /\ audit[j].tool = audit[i].tool
      BY DEF Results
    <3>2. prompt[j].by \in (j + 1)..Len(audit) /\ audit[prompt[j].by].kind = "result"
          /\ audit[prompt[j].by].tool = audit[j].tool
      BY DEF Dropped
    <3>3. prompt[j].by \in 1..Len(audit)
      BY <1>0, <3>1, <3>2
    <3> QED BY <3>1, <3>2, <3>3 DEF Results
  <2>5. \A j \in S : audit[j].tool = audit[i].tool /\ j \in 1..Len(audit)
    BY DEF Results
  <2> HIDE DEF S
  <2>6. PICK m \in S : /\ \A j \in S : j <= m
                       /\ \/ m \in Results(prompt) /\ prompt[m] = audit[m]
                          \/ /\ Dropped(m) /\ m \in Placeholders
                             /\ prompt[m].by \notin S
    BY <2>3, LastIsWhole
  <2>7. m \in Results(prompt) /\ prompt[m] = audit[m]
    BY <2>4, <2>6
  <2>8. m # i
    BY <2>1, <2>7 DEF Results
  <2>9. m > i
    BY <1>0, <2>1, <2>3, <2>5, <2>6, <2>8
  <2> QED BY <1>1, <2>1, <2>2, <2>5, <2>7, <2>9
<1> QED BY <1>2, <1>3, <1>4 DEF PromptWellFormed, LiveInv

\* A dropped result is never the last to state a fact, unless what replaced it
\* was cut at its page, however the calls are chained (agent/orchestrator.py,
\* _supersedes and _compact_superseded_results).
THEOREM OnlyPagesLose == Spec => []LostOnlyToPages
<1> QED BY PromptInit, PromptStep, InvLost, PTL DEF Spec

\* The prompt is the record with placeholders only where a read-only result
\* was, every call is followed by its own answer, and the newest result of
\* every tool is whole (agent/orchestrator.py, _MessageLog and run).
THEOREM PromptStaysLegal == Spec => []PromptWellFormed
<1> QED BY PromptInit, PromptStep, InvWellFormed, PTL DEF Spec
=============================================================================
