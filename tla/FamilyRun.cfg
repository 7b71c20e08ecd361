\* A fork; two failures, crashes, interruptions or stops; another run on the same file.
CONSTANTS
  a = a
  b = b
  c = c
  r = r
  Nodes <- ForkNodes
  Order <- ForkOrder
  Kids <- ForkKids
  Beams = {x, id}
  IdBeam = id
  NoStep = NoStep
  NoStop = NoStop
  Overlays = {FALSE}
  MaxFailedNodes = 1
  MaxDisruptions = 2
  MaxForeign = 1
SPECIFICATION Spec
INVARIANTS
  TypeOK
  NeverReplayed
  HypothesesMatchBeams
  CompleteCheckpoint
