----------------------------- MODULE Ingestion -----------------------------
(***************************************************************************)
(* From a dataset to a run: `prepare-lexibank` and `build-benchmark` load  *)
(* a dataset, hide the varieties bound to nodes of a tree and write a      *)
(* payload; `infer` ingests a payload, reads its anchors and fixes the     *)
(* order in which nodes are reconstructed.                                 *)
(*                                                                         *)
(* A payload is a record of its lexicons, its concepts, the text of its    *)
(* tree (NoTree when it has none) and its historical bindings; a binding   *)
(* has a node, a role, a source variety, the forms copied from it, and     *)
(* the lineages it declares, pairs of a branch and a descendant.           *)
(***************************************************************************)
EXTENDS Cldf

-----------------------------------------------------------------------------
(***************************************************************************)
(* Classification trees: pruning to the varieties with evidence, the       *)
(* identifiers of nodes, and the order in which nodes are reconstructed.   *)
(*                                                                         *)
(* A tree is a record: its label (NoLabel for an unlabelled node), the     *)
(* length of the branch above it, a number of some small unit, and the     *)
(* sequence of its children.  The length 0 stands for an omitted one: the  *)
(* Newick reader returns 0 for it and the writer omits it again.           *)
(***************************************************************************)

CONSTANTS
  NoLabel, Gone,
  Digits  \* how many significant digits of a length are written (six)
ASSUME TreesAssumption == NoLabel # Gone /\ Digits \in Nat \ {0}

IsLeaf(tree) == tree.children = <<>>

\* The nodes of a tree, each with its path from the root, level by level.
Places(tree) ==
  LET below(place) == {[path |-> Append(place.path, i), node |-> place.node.children[i]] :
                         i \in DOMAIN place.node.children}
      level[n \in Nat] == IF n = 0 THEN {[path |-> <<>>, node |-> tree]}
                          ELSE UNION {below(place) : place \in level[n - 1]}
      from[n \in Nat] == IF level[n] = {} THEN {} ELSE level[n] \cup from[n + 1]
  IN from[0]

Paths(tree) == {place.path : place \in Places(tree)}
At(tree, path) == FoldLeft(LAMBDA node, i : node.children[i], tree, path)

Leaves(tree) == {place \in Places(tree) : IsLeaf(place.node)}
LeafLabels(tree) == {leaf.node.label : leaf \in Leaves(tree)} \ {NoLabel}

\* validate_unique_leaf_labels.
UniqueLeaves(tree) ==
  \A leaf, other \in Leaves(tree) :
    leaf.node.label # NoLabel /\ (leaf.node.label = other.node.label => leaf = other)

(***************************************************************************)
(* normalize_tree.                                                         *)
(***************************************************************************)
\* _combine_lengths, of lengths that are always present.
CombineLengths(upper, lower) == upper + lower

\* A node and what is left of its children: a branch without usable leaves
\* is pruned, a node left with one child gives way to it.
Rejoin(node, children, usable) ==
  CASE IsLeaf(node) -> IF node.label \in usable THEN node ELSE Gone
    [] ~IsLeaf(node) /\ Len(children) = 0 -> Gone
    [] ~IsLeaf(node) /\ Len(children) = 1 ->
         [children[1] EXCEPT !.length = CombineLengths(node.length, @)]
    [] ~IsLeaf(node) /\ Len(children) > 1 -> [node EXCEPT !.children = children]

Visit(tree, usable) ==
  LET visit[path \in Paths(tree)] ==
        LET node == At(tree, path)
            visited == [i \in DOMAIN node.children |-> visit[Append(path, i)]]
        IN Rejoin(node, SelectSeq(visited, LAMBDA child : child # Gone), usable)
  IN visit[<<>>]

\* What is left of the tree, its root without a length; Gone when refused.
Rooted(visited, usable) ==
  IF \/ Cardinality(usable) < 2
     \/ visited = Gone
     \/ ~(usable \subseteq LeafLabels(visited))
     \/ IsLeaf(visited)
  THEN Gone ELSE [visited EXCEPT !.length = 0]

Normalize(tree, usable) == Rooted(Visit(tree, usable), usable)

(***************************************************************************)
(* Identifiers and order.                                                  *)
(***************************************************************************)
\* assign_node_ids: every node with its identifier.  An unlabelled node is
\* named by its place.
Name(node, path) == IF node.label = NoLabel THEN path ELSE node.label

NamedNodes(tree) ==
  {[id |-> Name(place.node, place.path), node |-> place.node, path |-> place.path] :
     place \in Places(tree)}

\* assign_node_ids raises on an identifier used twice.
UniqueIds(tree) ==
  \A entry, other \in NamedNodes(tree) : entry.id = other.id => entry = other

Internal(tree) == {entry \in NamedNodes(tree) : ~IsLeaf(entry.node)}

\* postorder_groups: the identifiers of each internal node and of its
\* children, children before parents.  Gone marks the node with one child
\* at which the walk raises.
PostorderGroups(tree) ==
  LET groups[path \in Paths(tree)] ==
        LET node == At(tree, path)
            ids == [i \in DOMAIN node.children |-> Name(node.children[i], Append(path, i))]
        IN CASE Len(ids) = 0 -> <<>>
             [] Len(ids) = 1 -> <<Gone>>
             [] Len(ids) > 1 ->
                  FlattenSeq([i \in DOMAIN ids |-> groups[Append(path, i)]])
                    \o <<[parent |-> Name(node, path), children |-> ids]>>
  IN groups[<<>>]

\* parse_newick, of a text given as the trees it holds: exactly one.
ParseNewick(text) == IF Len(text) = 1 THEN text[1] ELSE Gone

\* _length: a length as it is written, rounded half to even.
Written(length) ==
  LET place == CHOOSE k \in 0..length :
                 /\ length < 10^(Digits + k)
                 /\ k > 0 => length >= 10^(Digits + k - 1)
      unit == 10^place
      kept == length \div unit
      rest == 2 * (length % unit)
      up == rest > unit \/ (rest = unit /\ kept % 2 = 1)
  IN (IF up THEN kept + 1 ELSE kept) * unit

\* to_newick: it raises on a negative length.
ToNewick(tree) ==
  LET write[path \in Paths(tree)] ==
        LET node == At(tree, path)
        IN [node EXCEPT !.length = Written(@),
                        !.children = [i \in DOMAIN @ |-> write[Append(path, i)]]]
  IN IF tree = Gone THEN Gone
     ELSE IF \E place \in Places(tree) : place.node.length < 0 THEN Gone
     ELSE <<write[<<>>]>>

-----------------------------------------------------------------------------
(* The pipeline.                                                           *)

CONSTANTS
  NoTree, NotYet,
  Sources,      \* the datasets there are
  Requests(_),  \* what may be asked of a dataset once loaded
  Definitions(_),
  AnchorFiles(_),
  Induced(_)    \* external: the trees LexStat's distances may give

ASSUME IngestionAssumption == NoTree # NotYet

\* The table of forms is keyed by its IDs: no two languages share one.
Keyed(dataset) ==
  \A row, other \in Range(dataset.forms) : row.id = other.id => row.language = other.language

\* A request and a definition are files of different shapes.
ASSUME SourcesAssumption ==
  \A dataset \in Sources :
    /\ Keyed(dataset)
    /\ \A request \in Requests(dataset) : "daughters" \notin DOMAIN request
    /\ \A definition \in Definitions(dataset) : "daughters" \in DOMAIN definition

VARIABLES source, asked, payload, run
commandVars == <<source, asked, payload, run>>

Varieties(lexicons) == {lexicon.variety : lexicon \in lexicons}
FormsOf(lexicons) == UNION {lexicon.forms : lexicon \in lexicons}
ConceptsIn(lexicons) == {form.concept : form \in FormsOf(lexicons)}
FormsBy(variety, lexicons) == (CHOOSE l \in lexicons : l.variety = variety).forms

(***************************************************************************)
(* Historical bindings.                                                    *)
(***************************************************************************)
\* load_historical_lineage_bindings: one request for each target of a
\* lineage table, whose node has the variety's own identifier.
LineageRequests(rows, role) ==
  {[source |-> target, node |-> target, role |-> role,
    lineages |-> {<<row.branch, row.descendant>> :
                    row \in {r \in rows : r.target = target}}] :
     target \in {row.target : row \in rows}}

\* HistoricalBindingFile.validate_bindings.
RequestsAccepted(requests) ==
  \A r, s \in requests :
    r # s => r.source # s.source /\ <<r.node, r.role>> # <<s.node, s.role>>

\* materialize_historical_bindings.
Materialize(requests, lexicons) ==
  {[node |-> r.node, role |-> r.role, source |-> r.source, lineages |-> r.lineages,
    forms |-> {[form EXCEPT !.variety = r.node] : form \in FormsBy(r.source, lexicons)}] :
     r \in requests}

\* _validate_historical_bindings, the lineages of one binding: an injection of
\* its branches into the direct children of its node.
LineagesAccepted(lineages, children) ==
  LET within == [i \in DOMAIN children |-> LeafLabels(children[i])]
      directs(branch) == {i \in DOMAIN children :
                            \E l \in lineages : l[1] = branch /\ l[2] \in within[i]}
      branches == {lineage[1] : lineage \in lineages}
  IN /\ \A lineage \in lineages : \E i \in DOMAIN children : lineage[2] \in within[i]
     /\ \A branch \in branches : Cardinality(directs(branch)) = 1
     /\ \A b, c \in branches : directs(b) = directs(c) => b = c

\* _validate_historical_bindings, one binding: its node is internal and an
\* anchor says nothing of concepts without evidence.
BindingAccepted(binding, tree, concepts) ==
  /\ \E entry \in Internal(tree) :
       entry.id = binding.node /\ LineagesAccepted(binding.lineages, entry.node.children)
  /\ binding.role = "anchor" => {form.concept : form \in binding.forms} \subseteq concepts

\* With bindings the tree's identifiers must be distinct; without them
\* nobody looks.
BindingsAccepted(bindings, tree, lexicons) ==
  bindings # {} =>
    UniqueIds(tree) /\ \A b \in bindings : BindingAccepted(b, tree, ConceptsIn(lexicons))

(***************************************************************************)
(* Payloads.                                                               *)
(***************************************************************************)
\* WorkbenchPayload.validate_varieties, of what preparation could get wrong.
PayloadAccepted(made) ==
  /\ Cardinality(made.lexicons) >= 2
  /\ \A p, q \in made.concepts : p.concept = q.concept => p = q
  /\ made.bindings # {} => made.newick # NoTree

\* The tree that ingest_payload settles on, of the ones it may come to;
\* Gone when it raises.
IngestedTrees(made) ==
  LET usable == {l \in made.lexicons : l.forms # {}}
      expected == Varieties(usable)
      root == ParseNewick(made.newick)
  IN IF Cardinality(expected) < 2 THEN {Gone}
     ELSE IF made.newick = NoTree THEN {ToNewick(tree) : tree \in Induced(expected)}
     ELSE IF root = Gone THEN {Gone}
     ELSE IF ~UniqueLeaves(root) \/ ~(expected \subseteq LeafLabels(root)) THEN {Gone}
     ELSE {ToNewick(Normalize(root, expected))}

\* ingest_payload.
Ingested(made) ==
  {IF text = Gone THEN Refused
   ELSE IF ~BindingsAccepted(made.bindings, ParseNewick(text), made.lexicons) THEN Refused
   ELSE [made EXCEPT !.newick = text, !.lexicons = {l \in @ : l.forms # {}}] :
     text \in IngestedTrees(made)}

\* assert_targets_are_hidden.
TargetsHidden(made) ==
  LET targets == {b \in made.bindings : b.role = "target"}
  IN \A b \in targets :
       b.source \notin Varieties(made.lexicons) /\ b.node \notin Varieties(made.lexicons)

\* MUTANT of Selected: only the varieties of targets are taken out.
SelectedButTargets(loaded, request) ==
  {l \in loaded.lexicons :
     /\ request.varieties # {} => l.variety \in request.varieties
     /\ l.variety \notin {r.source : r \in {s \in request.bindings : s.role = "target"}}}

\* The lexicons asked for, without the varieties bound to a node.
Selected(loaded, request) ==
  {l \in loaded.lexicons :
     /\ request.varieties # {} => l.variety \in request.varieties
     /\ l.variety \notin {r.source : r \in request.bindings}}

OnConcepts(forms, concepts) ==
  IF concepts = {} THEN forms ELSE {form \in forms : form.concept \in concepts}

\* prepare_payload, up to the validation of its tree.
Assembled(loaded, request) ==
  [lexicons |-> {[l EXCEPT !.forms = OnConcepts(@, request.concepts)] :
                   l \in Selected(loaded, request)},
   concepts |-> {c \in loaded.concepts :
                   request.concepts # {} => c.concept \in request.concepts},
   bindings |-> {[b EXCEPT !.forms = OnConcepts(@, request.concepts)] :
                   b \in Materialize(request.bindings, loaded.lexicons)},
   newick |-> request.newick]

\* prepare_payload: a tree that is given is stored as ingestion settles it.
Prepared(loaded, request) ==
  LET made == Assembled(loaded, request)
      ingested == CHOOSE i \in Ingested(made) : TRUE
      stored == IF made.newick = NoTree THEN made
                ELSE [made EXCEPT !.newick = ingested.newick]
  IN IF \/ ~RequestsAccepted(request.bindings)
        \/ ~({r.source : r \in request.bindings} \subseteq Varieties(loaded.lexicons))
        \/ ~(request.varieties \subseteq Varieties(loaded.lexicons))
        \/ ~(request.concepts \subseteq ConceptsIn(loaded.lexicons))
     THEN Refused
     ELSE IF \/ \E l \in made.lexicons : l.forms = {}
             \/ \E b \in made.bindings : b.forms = {}
             \/ ~PayloadAccepted(made)
     THEN Refused
     ELSE IF made.newick # NoTree /\ ingested = Refused THEN Refused
     ELSE IF TargetsHidden(stored) THEN stored ELSE Refused

(***************************************************************************)
(* Benchmarks.  A definition names its daughters, its targets, the one     *)
(* whose cognacy selects, the selection, a cap (0 for none), and a tree.   *)
(***************************************************************************)
\* BenchmarkDefinition.validate_definition, of what a file may hold.
DefinitionAccepted(definition) ==
  /\ Cardinality(definition.daughters) >= 2
  /\ {t.source : t \in definition.targets} \cap definition.daughters = {}
  /\ definition.reference \in {t.source : t \in definition.targets}

\* MUTANT of SetsOn: the sets of all the variety's forms.
SetsOfVariety(variety, concept, lexicons) ==
  UNION {CognateSets(form) : form \in FormsBy(variety, lexicons)}

SetsOn(variety, concept, lexicons) ==
  UNION {CognateSets(form) : form \in {f \in FormsBy(variety, lexicons) :
                                         f.concept = concept}}

Attested(variety, lexicons) == {form.concept : form \in FormsBy(variety, lexicons)}

\* The first concepts in the order of their identifiers.
Capped(concepts, cap) ==
  IF cap = 0 THEN concepts
  ELSE {k \in concepts : Cardinality({l \in concepts : l <= k}) <= cap}

\* select_concepts.
SelectConcepts(definition, lexicons) ==
  LET daughters == definition.daughters
      gold == definition.reference
      shared == {k \in ConceptsIn(lexicons) : \A d \in daughters : k \in Attested(d, lexicons)}
      cognate == {k \in shared : \A d \in daughters :
                    SetsOn(gold, k, lexicons) \cap SetsOn(d, k, lexicons) # {}}
  IN Capped(CASE definition.selection = "all" ->
                   UNION {Attested(d, lexicons) : d \in daughters}
              [] definition.selection = "shared" -> shared
              [] definition.selection = "cognate" -> cognate, definition.cap)

\* build_benchmark: the request a definition comes to, or Refused.
RequestOf(definition, lexicons) ==
  IF \/ ~DefinitionAccepted(definition)
     \/ ~(definition.daughters \cup {t.source : t \in definition.targets}
            \subseteq Varieties(lexicons))
  THEN Refused
  ELSE LET concepts == SelectConcepts(definition, lexicons)
       IN IF concepts = {} THEN Refused
          ELSE [varieties |-> definition.daughters, concepts |-> concepts,
                newick |-> definition.newick,
                bindings |-> {[source |-> t.source, node |-> t.node, role |-> "target",
                               lineages |-> {}] : t \in definition.targets}]

(***************************************************************************)
(* The run's anchors and order.                                            *)
(***************************************************************************)
\* AnchorFile.validate_for_dataset: anchors stand at internal nodes and
\* speak of concepts with evidence.
AnchorsAccepted(anchors, dataset) ==
  /\ UniqueIds(ParseNewick(dataset.newick))
  /\ \A anchor \in anchors :
       /\ anchor.node \in {entry.id : entry \in Internal(ParseNewick(dataset.newick))}
       /\ anchor.form.concept \in ConceptsIn(dataset.lexicons)

\* _forms_by_node and _merge_node_forms: the anchors of the payload and of
\* the file together, no form of one node twice.
ActiveAnchors(dataset, anchors) ==
  LET embedded == UNION {{[node |-> b.node, form |-> f] : f \in b.forms} :
                           b \in {c \in dataset.bindings : c.role = "anchor"}}
  IN IF \E a \in embedded, b \in anchors : a.form.id = b.form.id
     THEN Refused ELSE embedded \cup anchors

\* The run that a dataset and an anchor file make: its order and anchors.
Planned(dataset, anchors) ==
  LET root == ParseNewick(dataset.newick)
      active == ActiveAnchors(dataset, anchors)
  IN IF dataset = Refused THEN Refused
     ELSE IF \/ anchors # {} /\ ~AnchorsAccepted(anchors, dataset)
             \/ active = Refused \/ ~UniqueIds(root)
             \/ Gone \in Range(PostorderGroups(root))
             \/ ~(LeafLabels(root) \subseteq Varieties(dataset.lexicons))
     THEN Refused
     ELSE [dataset |-> dataset, order |-> PostorderGroups(root), anchors |-> active]

(***************************************************************************)
(* The commands.                                                           *)
(***************************************************************************)
CommandsInit == source \in Sources /\ asked = NotYet /\ payload = NotYet /\ run = NotYet

\* prepare-lexibank.
Prepare ==
  /\ payload = NotYet
  /\ Load(source) # Refused
  /\ \E request \in Requests(source) :
       asked' = request /\ payload' = Prepared(Load(source), request)
  /\ UNCHANGED <<source, run>>

\* build-benchmark.
Build ==
  /\ payload = NotYet
  /\ Load(source) # Refused
  /\ \E definition \in Definitions(source) :
       LET request == RequestOf(definition, Load(source).lexicons)
       IN /\ asked' = definition
          /\ payload' = IF request = Refused THEN Refused ELSE Prepared(Load(source), request)
  /\ UNCHANGED <<source, run>>

\* infer, up to the first node; a payload may be run again.
Infer ==
  /\ payload \notin {NotYet, Refused}
  /\ \E dataset \in Ingested(payload), anchors \in AnchorFiles(source) :
       run' = Planned(dataset, anchors)
  /\ UNCHANGED <<source, asked, payload>>

\* Either command stops on a dataset that does not load.
Reject ==
  /\ payload = NotYet /\ Load(source) = Refused
  /\ payload' = Refused
  /\ UNCHANGED <<source, asked, run>>

CommandsNext == Prepare \/ Build \/ Infer \/ Reject
CommandsSpec == CommandsInit /\ [][CommandsNext]_commandVars

(***************************************************************************)
(* What the commands promise.                                              *)
(***************************************************************************)
Made == payload \notin {NotYet, Refused}
Running == run \notin {NotYet, Refused}

\* No form of a variety bound to a node is left among the evidence of a
\* payload or of its run, whatever was selected (prepare_payload: a target
\* left in is a lookup, an anchor left in its own ancestor).
BoundHidden ==
  Made => \A b \in payload.bindings : \A bound \in b.forms :
            /\ bound.id \notin {form.id : form \in FormsOf(payload.lexicons)}
            /\ Running => bound.id \notin {form.id : form \in FormsOf(run.dataset.lexicons)}

\* The tree of a run is the tree that was supplied, restricted to the
\* varieties with evidence: the same groups, each name still over the leaves
\* it was over, and each branch as long as the supplied ones it stands for
\* together, rounded once although it is written twice (normalize_tree,
\* through preparation, to_newick and a second ingestion).
TreeKept ==
  Running /\ payload.newick # NoTree =>
    LET given == ParseNewick(asked.newick)
        tree == ParseNewick(run.dataset.newick)
        leaves == Varieties(run.dataset.lexicons)
        over(entry) == LeafLabels(entry.node) \cap leaves
        groups == {entry \in Internal(given) : Cardinality(over(entry)) > 1}
        merged(entry) == {old \in NamedNodes(given) : over(old) = over(entry)}
    IN /\ LeafLabels(tree) = leaves
       /\ {over(entry) : entry \in Internal(tree)} = {over(entry) : entry \in groups}
       /\ \A entry \in Internal(tree) :
            entry.node.label # NoLabel =>
              \E old \in groups : old.node.label = entry.node.label /\ over(old) = over(entry)
       /\ \A entry \in NamedNodes(tree) :
            over(entry) # leaves =>
              entry.node.length
                = Written(MapThenSumSet(LAMBDA old : old.node.length, merged(entry)))

\* A run reconstructs each internal node once, after its children, the
\* root last, and every node a binding names (postorder_groups and
\* _validate_historical_bindings, over identifiers assigned three times).
OrderSound ==
  Running =>
    LET order == run.order
        parents == [i \in DOMAIN order |-> order[i].parent]
        below(i) == Range(order[i].children) \ Varieties(run.dataset.lexicons)
    IN /\ IsInjective(parents)
       /\ \A i \in DOMAIN order : below(i) \subseteq {parents[j] : j \in 1..(i - 1)}
       /\ UNION {Range(order[i].children) : i \in DOMAIN order}
            = (Range(parents) \ {parents[Len(order)]}) \cup Varieties(run.dataset.lexicons)
       /\ {b.node : b \in payload.bindings} \subseteq Range(parents)

\* Of which morpheme, counted by where morphemes start, is a position?
MorphemeAt(segments, i) ==
  Cardinality({j \in 1..i : segments[j] \notin Boundary /\ (j = 1 \/ segments[j - 1] \in Boundary)})

\* The sounds that the slices of a judgement speak of, read off the form.
SpokenOf(form, slices) ==
  {i \in DOMAIN form.segments :
     /\ form.segments[i] \notin Boundary
     /\ slices # <<>> => \E slice \in Range(slices) :
          (IF source.unit = "segment" THEN i ELSE MorphemeAt(form.segments, i))
            \in slice[1]..slice[Len(slice)]}

\* Every judgement of a loaded form's row is one of its memberships, on
\* exactly the sounds it speaks of, and the shorthand names a set only when
\* nothing else is judged (load_cldf_dataset, _segment_indices,
\* _partial_cognacy_rows).
JudgementsKept ==
  Load(source) # Refused =>
    \A form \in FormsOf(Load(source).lexicons) :
      LET row == CHOOSE r \in Range(source.forms) : r.id = form.id
          judged == IF source.columns.table
                    THEN SelectSeq(source.cognates, LAMBDA c : c.form = form.id /\ c.set # Empty)
                    ELSE <<>>
          partial == IF ReadsPartial(source) THEN row.partial ELSE <<>>
          inline == IF source.columns.inline THEN row.inline ELSE <<>>
          on(set, sounds) == Cardinality({k \in DOMAIN form.memberships :
                               LET m == form.memberships[k]
                               IN /\ m.set = set
                                  /\ SpokenOf(form, <<>>) \cap
                                       (IF m.scope = "whole_form" THEN DOMAIN form.segments
                                        ELSE Range(m.indices)) = sounds})
      IN /\ Len(form.memberships) = Len(judged) + Len(partial) + Len(inline)
         /\ \A c \in Range(judged) : on(c.set, SpokenOf(form, c.slice)) > 0
         /\ \A i \in DOMAIN partial : on(partial[i], SpokenOf(form, << <<i>> >>)) > 0
         /\ \A i \in DOMAIN inline : on(inline[i], SpokenOf(form, <<>>)) > 0
         /\ form.set # Empty =>
              \A m \in Range(form.memberships) :
                m.set = form.set /\ m.scope = "whole_form"

\* What was supplied is what a run works on: its tree, its order of nodes and
\* its judgements of cognacy.
SuppliedKept == TreeKept /\ OrderSound /\ JudgementsKept

\* In a benchmark that selects by cognacy, every concept of the payload has,
\* in every daughter, a form cognate with the gold bound for it: what was
\* selected on the dataset survives its preparation (select_concepts,
\* prepare_payload).
BenchmarkScorable ==
  Made /\ "daughters" \in DOMAIN asked =>
    /\ Varieties(payload.lexicons) = asked.daughters
    /\ asked.selection = "cognate" =>
         LET gold == CHOOSE b \in payload.bindings : b.source = asked.reference
         IN \A k \in ConceptsIn(payload.lexicons), d \in asked.daughters :
              \E form \in FormsBy(d, payload.lexicons), g \in gold.forms :
                /\ form.concept = k /\ g.concept = k
                /\ CognateSets(form) \cap CognateSets(g) # {}
=============================================================================
