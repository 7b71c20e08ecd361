---------------------------- MODULE MCFamilyRun ----------------------------
(***************************************************************************)
(* Instances of FamilyRun for TLC: a fork (two nodes under a root), and a  *)
(* tree with both a chain (a under b) and a fork (b and c under the root). *)
(***************************************************************************)
EXTENDS FamilyRun, TLC

CONSTANTS a, b, c, r

ForkNodes == {a, b, r}
ForkOrder == <<a, b, r>>
ForkKids == a :> {} @@ b :> {} @@ r :> {a, b}

TreeNodes == {a, b, c, r}
TreeOrder == <<a, b, c, r>>
TreeKids == a :> {} @@ b :> {a} @@ c :> {} @@ r :> {b, c}
=============================================================================
