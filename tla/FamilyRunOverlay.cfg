\* A commit may name a segmentation overlay: its checkpoint is refused.
CONSTANTS
  a = a
  b = b
  c = c
  r = r
  Nodes <- ForkNodes
  Order <- ForkOrder
  Kids <- ForkKids
  Beams = {x, id}
  IdBeam = id
  NoStep = NoStep
  NoStop = NoStop
  Overlays = {TRUE, FALSE}
  MaxFailedNodes = 1
  MaxDisruptions = 1
  MaxForeign = 0
SPECIFICATION Spec
INVARIANT
  NeverRefused
