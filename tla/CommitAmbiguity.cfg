SPECIFICATION Spec
CONSTANTS
  None = None
  Children = {"A", "B"}
  ChildOrder <- NodeOrder
  Segmentations = {"split"}
  Laws = {"p"}
  Rules <- BothScopes
  Changes <- OnceAndWhole
  Units = {"u1", "u2"}
  Layouts = {"shifted"}
  Sets = {"t:d"}
  Shows <- SecondShows
  Claims = {"empty", "bare", "explained"}
  Explained = {"empty", "explained"}
  Identity = "empty"
  CallIds = {c1, c2}
  FreshCalls = TRUE
  MaxRules = 2
  MaxCalls = 3
SYMMETRY AnyCall
INVARIANT AmbiguityIsGenuine
CHECK_DEADLOCK FALSE
