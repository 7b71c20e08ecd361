SPECIFICATION MCSpec
CONSTANTS
  Boundaries = {9}
  Segment = {1, 2}
  Gap = 0
  Undecided = Undecided
  Edge = Edge
  Unspellable = {}
  Unconditioned = Unconditioned
  Align <- Padded
  MaxTuples = 3
  Children = 2
  MaxUnitTuples = 6
  MaxNodeTuples = 6
  MaxProjectedColumns = 30
  Start = Start
  NotDeclared = NotDeclared
  ChildBeams <- BeamOrder
  Beam = 3
  Boost = 4
  Dists <- SomeDists
  Cascades <- SomeCascades
  AnchorSets <- SomeAnchors
INVARIANTS
  SearchIsExact
  RulesExplained
  AssemblyHolds
  SurveyHolds
  WitnessesSound
\* One subject is taken, or one node folded, and that is all.
CHECK_DEADLOCK FALSE
