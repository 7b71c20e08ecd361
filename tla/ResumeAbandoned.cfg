CONSTANTS
  MaxSessions = 2
  MaxTurns = 2
  MaxAttempts = 1
  MaxBatch = 1
  MaxDisruptions = 1
  Configurations <- OnlySpend
  NoCap = NoCap
  Outcomes = {"priced", "abandoned"}
  JournalMayFail = FALSE
  MayVanish = {}
  NoRecord = NoRecord

SPECIFICATION Spec
INVARIANTS SpendKnown
CHECK_DEADLOCK FALSE
