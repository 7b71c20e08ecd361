---------------------------- MODULE MCCompaction ----------------------------
(***************************************************************************)
(* Two active children, 1 and 2, an outside node 3 and a completed node 4; *)
(* three concepts, of which 1 has two forms at node 1.                     *)
(***************************************************************************)
EXTENDS Compaction

MCForms ==
  {[id |-> 1, concept |-> 1, node |-> 1, segments |-> <<1, 2>>, sets |-> {1}],
   [id |-> 2, concept |-> 1, node |-> 2, segments |-> <<1>>, sets |-> {1}],
   [id |-> 3, concept |-> 2, node |-> 1, segments |-> <<2>>, sets |-> {2}],
   [id |-> 4, concept |-> 2, node |-> 3, segments |-> <<2, 1>>, sets |-> {2}],
   [id |-> 5, concept |-> 3, node |-> 2, segments |-> <<2>>, sets |-> {3}]}
MCActive == {1, 2}
MCTree == {1, 2, 3, 4}
MCPrior == {4}

Default(tool) ==
  [tool |-> tool, given |-> {}, nodes |-> {}, concepts |-> {}, sets |-> {},
   scope |-> "children", pattern |-> <<>>, position |-> "contains",
   offset |-> 0, limit |-> 50]
Of(concepts) == [Default("search_forms") EXCEPT !.concepts = concepts]
Paged(call, offset, limit) ==
  [call EXCEPT !.offset = offset, !.limit = limit, !.given = @ \cup {"offset", "limit"}]

\* Narrow, wide and overlapping searches; pages of two and of one; a pattern; a
\* search of the tree, one that names a node out of scope; the other tools; a
\* test that names an unknown concept (9), and the commit.
MCCalls ==
  {Of({1}), Of({1, 2}), Of({2, 3}),
   Paged(Of({2}), 0, 2), Paged(Of({}), 0, 2), Paged(Of({}), 1, 1),
   [Default("search_forms") EXCEPT !.pattern = <<2>>, !.position = "final",
                                   !.given = {"pattern", "position"}],
   [Default("search_forms") EXCEPT !.scope = "tree", !.given = {"scope"}],
   [Default("search_forms") EXCEPT !.nodes = {3}],
   [Default("list_concepts") EXCEPT !.nodes = {2}], Default("list_concepts"),
   Default("list_available_nodes"),
   [Default("get_node_reconstruction") EXCEPT !.nodes = {4}],
   [Default("test_sound_law") EXCEPT !.concepts = {9}],
   Default("commit_reconstruction")}
=============================================================================
