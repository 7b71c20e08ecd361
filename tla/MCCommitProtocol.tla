-------------------------- MODULE MCCommitProtocol --------------------------
(***************************************************************************)
(* Values for model-checking CommitProtocol: two children; a law that a    *)
(* new boundary blocks and that a second application does not change, over *)
(* two scopes; and two alignment units, the second of which shows the one  *)
(* set as it is.                                                           *)
(***************************************************************************)
EXTENDS CommitProtocol, TLC

NodeOrder == <<"A", "B">>

BothScopes ==
  {[law |-> "p", scope |-> <<"B", "A">>], [law |-> "p", scope |-> <<"A">>]}

OnceAndWhole(law, child, segmentation, earlier) ==
  segmentation = None /\ earlier = << >>

SecondShows(unit, layout, set) == unit = "u2" \/ layout = "shifted"

AnyCall == Permutations(CallIds)
=============================================================================
