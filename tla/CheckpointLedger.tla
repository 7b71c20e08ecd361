-------------------------- MODULE CheckpointLedger --------------------------
(***************************************************************************)
(* What the checkpoint of a family run promises, whatever processes write  *)
(* it: it holds at most one step per internal node; a recorded step stays  *)
(* as it is for good; and at every moment the recorded steps form a sound  *)
(* reconstruction of the subtrees they cover.  One change may record       *)
(* several nodes, as the recovery of finalized receipts does.              *)
(***************************************************************************)
CONSTANTS
  Nodes,     \* internal nodes
  NoStep,    \* "nothing recorded for this node"
  Sound(_)   \* is this assignment of steps to nodes a sound reconstruction?

VARIABLE ledger

Init == ledger = [n \in Nodes |-> NoStep]

Record ==
  /\ \A n \in Nodes : ledger[n] # NoStep => ledger'[n] = ledger[n]
  /\ Sound(ledger')

Spec == Init /\ [][Record]_ledger
=============================================================================
