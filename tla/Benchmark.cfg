SPECIFICATION MCSpec
CONSTANTS
  NoLabel = NoLabel
  Gone = Gone
  Digits = 1
  Boundary = {"+", "-"}
  Empty = Empty
  Refused = Refused
  NoTree = NoTree
  NotYet = NotYet
  Sources <- MCSources
  Requests <- MCRequests
  Definitions <- MCDefinitions
  AnchorFiles <- MCAnchorFiles
  Induced <- MCInduced
  a = a
  b = b
  c = c
  d = d
  g = g
  h = h
  N = N
  M = M
  R = R
  Gap = 0
  Boundaries = {9}
  Tones = {8}
  Ambiguous = {7}
  NotScored = NotScored
  CriterionPrimary = 3
  WitnessRuleFloor = 2
  PairsFloor = 1
  BaselinePrimary = 1
  SurveyLabelCeiling = 0
  BaselinePairs = 0
  Half = 1
  Order <- MCOrder
  Below <- MCBelow
  Kids <- MCKids
  Binding <- MCBinding
  Observed <- MCObserved
  Outputs <- MCOutputs
  FallbackOutput <- MCFallback
  MaxFailedNodes = 1
  MaxEnds = 2
  MaxAttempts = 5
  Start0 = Start0
  Commands = Commands
  Subjects = {"commands", "walk", "pair", "session"}
  Repeated = FALSE
INVARIANTS
  ReportHolds
  SweepAgrees
  ScoresHold
  BoundHidden
  SuppliedKept
  BenchmarkScorable
\* The commands end, a subject is looked at once, and a walk may stop at the
\* bound on attempts.
CHECK_DEADLOCK FALSE
