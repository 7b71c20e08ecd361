------------------------------ MODULE Compaction ------------------------------
(***************************************************************************)
(* The conversation of one node session, kept twice: whole, for the        *)
(* trajectory (audit), and as it is sent (prompt), from which the result   *)
(* of a read-only call is dropped once a later call has asked for at least *)
(* as much.                                                                *)
(*                                                                         *)
(* A result is the set of facts it states.  The evidence of a session      *)
(* never changes: its lexicons and the hypotheses of the nodes below are   *)
(* fixed when it opens, and these tools read no overlay.                   *)
(*                                                                         *)
(* Abstracted: concepts, forms and nodes are numbers in the order of their *)
(* names; a text query is left out, being compared as a pattern is; when a *)
(* refusal draws a correction or ends the session is NodeSession's matter, *)
(* so any may.  The aggregates of get_alignments, summarize_correspondences*)
(* and polarize are not lists of facts and are left out.                   *)
(***************************************************************************)
EXTENDS Integers, Sequences, FiniteSets

CONSTANTS
  Forms,         \* [id, concept, node, segments, sets], one record each
  Active, Tree,  \* the active children; every node with evidence
  Prior,         \* nodes with a hypothesis committed earlier in the run
  Calls,         \* the calls a model may make
  Compacts,      \* compact_superseded_tool_results
  MaxTurns, MaxCalls, \* max_turns, max_tool_calls
  MaxBatch       \* bound: tool calls in one reply

\* A call's arguments: "given" names those the model spelled out, the others
\* hold the defaults.
Call == [tool : STRING, given : SUBSET STRING,
         nodes : SUBSET Nat, concepts : SUBSET Nat, sets : SUBSET Nat,
         scope : {"children", "tree"}, pattern : Seq(Nat),
         position : {"initial", "final", "contains", "exact"},
         offset : Nat, limit : Nat]

ASSUME CompactionAssumption ==
  /\ Active \subseteq Tree /\ \A f \in Forms : f.node \in Tree
  /\ IsFiniteSet(Forms) /\ \A f \in Forms : {f.id, f.concept, f.node} \subseteq Nat
  /\ \A f, g \in Forms : f.id = g.id => f = g
  \* A node is asked for by its name, which is required.
  /\ \A c \in Calls : c.tool = "get_node_reconstruction" => \E n \in c.nodes : c.nodes = {n}
  /\ \A c \in Calls : c.limit \in Nat \ {0} /\ c.offset \in Nat
  /\ {MaxTurns, MaxCalls, MaxBatch} \subseteq Nat \ {0} /\ Compacts \in BOOLEAN

VARIABLES
  audit, prompt,  \* _MessageLog
  live,           \* state.live_tool_results; its order is never read
  pending,        \* the calls of the reply still to be answered
  correction,     \* pending_correction
  stall,          \* pending_stall
  compacted,      \* state.compacted_tool_results
  inspected,      \* state.inspected_concept_ids
  turns, calls,   \* state.turn_count, state.tool_call_count
  status          \* "open", or how the session ended

vars == <<audit, prompt, live, pending, correction, stall, compacted, inspected,
          turns, calls, status>>

-----------------------------------------------------------------------------
(* What the evidence tools answer.                                         *)

Refused == [ok |-> FALSE, facts |-> {}, more |-> FALSE]
Whole(facts) == [ok |-> TRUE, facts |-> facts, more |-> FALSE]

Fact(kind, x, y) == <<kind, x, y>>

\* The page [offset : offset + limit] of a sorted listing: what has so many
\* before it; "more" is next_offset.
Page(listed, Before(_, _), call, FactsOf(_)) ==
  LET Rank(x) == Cardinality({y \in listed : Before(y, x)})
  IN  [ok |-> TRUE,
       facts |-> UNION {FactsOf(x) : x \in {z \in listed :
                    Rank(z) \in call.offset..(call.offset + call.limit - 1)}},
       more |-> call.offset + call.limit < Cardinality(listed)]

InScope(scope) == IF scope = "tree" THEN Tree ELSE Active

\* selected_evidence: no node named means every node of the scope.
SelectedNodes(call) ==
  IF call.nodes = {} THEN InScope(call.scope) ELSE call.nodes

UnknownNodes(call) == ~ call.nodes \subseteq InScope(call.scope)

SegmentsMatch(word, pattern, position) ==
  LET n == Len(word)  w == Len(pattern)
      At(i) == i + w - 1 <= n /\ SubSeq(word, i, i + w - 1) = pattern
  IN  \/ w = 0
      \/ position = "initial" /\ At(1)
      \/ position = "final" /\ w <= n /\ At(n - w + 1)
      \/ position = "exact" /\ word = pattern
      \/ position = "contains" /\ \E i \in 1..n : At(i)

Hits(call) ==
  {f \in Forms :
     /\ f.node \in SelectedNodes(call)
     /\ call.concepts # {} => f.concept \in call.concepts
     /\ call.sets # {} => call.sets \cap f.sets # {}
     /\ SegmentsMatch(f.segments, call.pattern, call.position)}

FormBefore(f, g) ==
  \/ f.concept < g.concept
  \/ f.concept = g.concept /\ f.node < g.node
  \/ f.concept = g.concept /\ f.node = g.node /\ f.id < g.id

SearchForms(call) ==
  IF UnknownNodes(call) THEN Refused
  ELSE Page(Hits(call), FormBefore, call, LAMBDA f : {Fact("form", f.id, f.node)})

Listed(call) == {f \in Forms : f.node \in SelectedNodes(call)}

ListConcepts(call) ==
  IF UnknownNodes(call) THEN Refused
  ELSE Page({f.concept : f \in Listed(call)}, <, call,
         LAMBDA c : {Fact("attests", f.node, c) : f \in {g \in Listed(call) : g.concept = c}})

\* A node names itself in "nodes".
GetNodeReconstruction(call) ==
  IF call.nodes \subseteq Prior
  THEN Whole({Fact("hypothesis", n, 0) : n \in call.nodes}) ELSE Refused

ListAvailableNodes ==
  Whole({Fact("node", n, Cardinality({f \in Forms : f.node = n})) : n \in Tree})

\* Only these tools' results are ever dropped.
COMPACTABLE_TOOL_NAMES ==
  {"search_forms", "list_concepts", "list_available_nodes", "get_node_reconstruction"}

\* A tool that is not modelled here may accept the call or refuse it.
Outcomes(call) ==
  CASE call.tool = "search_forms" -> {SearchForms(call)}
    [] call.tool = "list_concepts" -> {ListConcepts(call)}
    [] call.tool = "list_available_nodes" -> {ListAvailableNodes}
    [] call.tool = "get_node_reconstruction" -> {GetNodeReconstruction(call)}
    [] OTHER -> {Refused, Whole({})}

OutcomesOf == [c \in Calls |-> Outcomes(c)]

-----------------------------------------------------------------------------
(* What one call brought into view, by its arguments alone.                *)

WHOLE_LEXICON_WHEN_UNSCOPED == {"test_sound_law"}

Available == {f.concept : f \in {g \in Forms : g.node \in Active}}

InspectedConcepts(call) ==
  LET named == call.concepts \cap Available
  IN  IF named = {} /\ call.tool \in WHOLE_LEXICON_WHEN_UNSCOPED
      THEN Available ELSE named

-----------------------------------------------------------------------------
(* What a later call takes over from an earlier one.                       *)

\* An empty selection is no filter, so it covers every other.
CoversSelection(later, earlier) ==
  later = {} \/ (earlier # {} /\ earlier \subseteq later)

\* Every other argument must be the same, and spelled out by both or by neither.
SameQuestion(later, earlier) ==
  /\ later.given \ {"nodes", "concepts", "sets"} =
       earlier.given \ {"nodes", "concepts", "sets"}
  /\ \A key \in {"scope", "pattern", "position", "offset", "limit"} :
       later[key] = earlier[key]

\* MUTANT of Supersedes: a later call that overlaps an earlier one replaces it.
SupersedesOverlapping(later, earlier) ==
  /\ SameQuestion(later, earlier)
  /\ \A key \in {"nodes", "concepts", "sets"} :
       CoversSelection(later[key], earlier[key]) \/ later[key] \cap earlier[key] # {}

Supersedes(later, earlier) ==
  /\ SameQuestion(later, earlier)
  /\ \A key \in {"nodes", "concepts", "sets"} :
       CoversSelection(later[key], earlier[key])

-----------------------------------------------------------------------------
(* The session.                                                            *)

Message(role, ids, kind, tool, facts, more, by) ==
  [role |-> role, ids |-> ids, kind |-> kind, tool |-> tool, facts |-> facts,
   more |-> more, by |-> by]

Text(role) == Message(role, <<>>, "text", "", {}, FALSE, 0)

Log(message) ==
  /\ audit' = Append(audit, message)
  /\ prompt' = Append(prompt, message)

Init ==
  /\ audit = <<Text("system"), Text("user")>> /\ prompt = audit
  /\ live = {} /\ pending = <<>> /\ correction = FALSE /\ stall = FALSE
  /\ compacted = 0 /\ inspected = {} /\ turns = 0 /\ calls = 0
  /\ status = "open"

\* A provider's call IDs only have to differ.
CallIds(batch) == [i \in 1..Len(batch) |-> Len(audit) + 1 + i]

MayAsk == status = "open" /\ pending = <<>> /\ ~ stall /\ ~ correction /\ turns < MaxTurns

\* The model asks for tools.
Reply(batch) ==
  /\ MayAsk /\ turns' = turns + 1
  /\ Log(Message("assistant", CallIds(batch), "calls", "", {}, FALSE, 0))
  /\ pending' = [i \in 1..Len(batch) |-> [id |-> CallIds(batch)[i], call |-> batch[i]]]
  /\ UNCHANGED <<live, correction, stall, compacted, inspected, calls, status>>

\* It asks for none, and is told to go on.
ReplyWithoutCalls ==
  /\ MayAsk /\ turns' = turns + 1
  /\ audit' = audit \o <<Text("assistant"), Text("user")>>
  /\ prompt' = prompt \o <<Text("assistant"), Text("user")>>
  /\ UNCHANGED <<live, pending, correction, stall, compacted, inspected, calls, status>>

ResultMessage(next, outcome) ==
  Message("tool", <<next.id>>, IF outcome.ok THEN "result" ELSE "refusal",
          next.call.tool, outcome.facts, outcome.more, 0)

Placeholder(message, by) ==
  Message("tool", message.ids, "placeholder", message.tool, {}, FALSE, by)

\* MUTANT of RecordOf: the index of the message before the result.
RecordBefore(next, index) == [index |-> index - 1, id |-> next.id, call |-> next.call]

\* Where a result sits, which call it answers and what that call asked.
RecordOf(next, index) == [index |-> index, id |-> next.id, call |-> next.call]

\* _compact_superseded_results, after the new result was appended.
Superseded(next) ==
  IF Compacts /\ next.call.tool \in COMPACTABLE_TOOL_NAMES
  THEN {r \in live :
          /\ r.call.tool = next.call.tool /\ r.id # next.id
          /\ Supersedes(next.call, r.call)}
  ELSE {}

Compact(messages, next) ==
  [i \in 1..Len(messages) |->
     IF \E r \in Superseded(next) : r.index = i
     THEN Placeholder(messages[i], next.id) ELSE messages[i]]

Accepted(next, outcome) ==
  LET message == ResultMessage(next, outcome)
  IN  /\ outcome.ok
      /\ audit' = Append(audit, message)
      /\ prompt' = Compact(Append(prompt, message), next)
      /\ compacted' = compacted + Cardinality(Superseded(next))
      /\ live' = (live \ Superseded(next))
                 \cup (IF next.call.tool \in COMPACTABLE_TOOL_NAMES
                       THEN {RecordOf(next, Len(prompt) + 1)} ELSE {})
      /\ status' = IF next.call.tool = "commit_reconstruction" THEN "committed" ELSE status
      /\ UNCHANGED <<correction, stall>>

\* A refusal may draw a correction, of which the first is kept, or a stall.
Rejected(next, outcome) ==
  /\ ~ outcome.ok
  /\ Log(ResultMessage(next, outcome))
  /\ \/ UNCHANGED <<correction, stall>>
     \/ correction' = TRUE /\ UNCHANGED stall
     \/ stall' = TRUE /\ UNCHANGED correction
  /\ UNCHANGED <<live, compacted, status>>

AnswerNext ==
  /\ status = "open" /\ pending # <<>> /\ calls < MaxCalls
  /\ calls' = calls + 1
  /\ inspected' = inspected \cup InspectedConcepts(Head(pending).call)
  /\ \E outcome \in OutcomesOf[Head(pending).call] :
       Accepted(Head(pending), outcome) \/ Rejected(Head(pending), outcome)
  /\ pending' = Tail(pending) /\ UNCHANGED turns

\* The whole batch is answered: only now is the session stopped, or the
\* correction handed over.
Intervene ==
  /\ status = "open" /\ pending = <<>> /\ (stall \/ correction)
  /\ stall' = FALSE /\ correction' = FALSE
  /\ IF stall
     THEN status' = "stalled" /\ UNCHANGED <<audit, prompt>>
     ELSE Log(Text("user")) /\ UNCHANGED status
  /\ UNCHANGED <<live, pending, compacted, inspected, turns, calls>>

\* The turns, or the calls in the middle of a batch, are used up.
Exhausted ==
  /\ status = "open"
  /\ IF pending = <<>> THEN turns = MaxTurns /\ ~ stall /\ ~ correction
     ELSE calls = MaxCalls
  /\ status' = "limit"
  /\ UNCHANGED <<audit, prompt, live, pending, correction, stall, compacted,
                 inspected, turns, calls>>

Next ==
  \/ \E n \in 1..MaxBatch : \E batch \in [1..n -> Calls] : Reply(batch)
  \/ ReplyWithoutCalls
  \/ AnswerNext
  \/ Intervene
  \/ Exhausted

Spec == Init /\ [][Next]_vars

-----------------------------------------------------------------------------
TypeOK ==
  /\ status \in {"open", "committed", "stalled", "limit"}
  /\ Len(audit) = Len(prompt) /\ compacted \in Nat
  /\ turns \in 0..MaxTurns /\ calls \in 0..MaxCalls /\ inspected \subseteq Available

Results(messages) == {i \in 1..Len(messages) : messages[i].kind = "result"}
Placeholders == {i \in 1..Len(prompt) : prompt[i].kind = "placeholder"}

\* What the model has been told, and what it can still read.
Told == UNION {audit[i].facts : i \in Results(audit)}
Readable == UNION {prompt[i].facts : i \in Results(prompt)}

\* The answer to a call, in the record.
AnswerOf(id) == CHOOSE i \in 1..Len(audit) : audit[i].role = "tool" /\ audit[i].ids = <<id>>

\* Everything the model was told it can still read, unless the result that
\* stood for it was itself only the first page of what was asked: a result is
\* dropped for one that states at least as much, and a dropped one is never
\* the last to state a fact, however the calls are chained.
LostOnlyToPages ==
  \A fact \in Told \ Readable :
    \E i \in Placeholders : /\ fact \in audit[i].facts
                            /\ audit[AnswerOf(prompt[i].by)].more

\* What is sent is what was recorded, with placeholders only where an accepted
\* read-only result was; every call is followed by its own answer, and by
\* nothing else before the batch is answered; the newest result of every tool
\* is whole; and the count of dropped results is right.
PromptWellFormed ==
  /\ \A i \in 1..Len(audit) :
       /\ audit[i].kind # "placeholder"
       /\ \/ prompt[i] = audit[i]
          \/ /\ i \in Placeholders /\ i \in Results(audit)
             /\ audit[i].tool \in COMPACTABLE_TOOL_NAMES
             /\ prompt[i].ids = audit[i].ids /\ prompt[i].tool = audit[i].tool
  /\ \A i \in 1..Len(prompt) : prompt[i].kind = "calls" =>
       \A j \in 1..Len(prompt[i].ids) :
         \/ i + j <= Len(prompt) /\ prompt[i + j].role = "tool"
            /\ prompt[i + j].ids = <<prompt[i].ids[j]>>
         \/ status # "open" /\ i + j > Len(prompt)
         \/ \E k \in 1..Len(pending) : pending[k].id = prompt[i].ids[j]
  /\ \A i \in Placeholders : \E j \in Results(prompt) :
       j > i /\ prompt[j].tool = prompt[i].tool
  /\ compacted = Cardinality(Placeholders)

\* The documented promise without the exception: nothing the model was told is
\* taken back.  A wider call cut at its page takes back what it did not repeat.
NothingTakenBack == Told \subseteq Readable

\* What a placeholder tells the model: the result that replaced this one is
\* still in the conversation.  That one may have been dropped in its turn.
PlaceholderHonest ==
  \A i \in Placeholders : AnswerOf(prompt[i].by) \in Results(prompt)

\* A concept counts as inspected only if some call named it or a call that
\* covers every concept named none.  A call that names only unknown concepts
\* is counted as naming none.
InventedCountsNothing ==
  [][status = "open" /\ pending # <<>> /\ Head(pending).call.concepts # {} =>
       inspected' \subseteq inspected \cup Head(pending).call.concepts]_vars
=============================================================================
