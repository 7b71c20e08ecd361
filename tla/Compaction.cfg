SPECIFICATION Spec
CONSTANTS
  Forms <- MCForms
  Active <- MCActive
  Tree <- MCTree
  Prior <- MCPrior
  Calls <- MCCalls
  Compacts = TRUE
  MaxTurns = 2
  MaxCalls = 3
  MaxBatch = 2
INVARIANTS
  LostOnlyToPages
  PromptWellFormed
CHECK_DEADLOCK FALSE
