\* A chain and a fork; three disruptions; fair processes.
CONSTANTS
  a = a
  b = b
  c = c
  r = r
  Nodes <- TreeNodes
  Order <- TreeOrder
  Kids <- TreeKids
  Beams = {x, id}
  IdBeam = id
  NoStep = NoStep
  NoStop = NoStop
  Overlays = {FALSE}
  MaxFailedNodes = 1
  MaxDisruptions = 3
  MaxForeign = 0
SPECIFICATION FairSpec
INVARIANTS
  CheckpointSound
  NoLaundering
  NeverRefused
PROPERTIES
  ImplementsLedger
  EventuallyReconstructed
