CONSTANTS
  MaxSessions = 2
  MaxTurns = 2
  MaxAttempts = 2
  MaxBatch = 1
  MaxDisruptions = 2
  Configurations <- AllCaps
  NoCap = NoCap
  Outcomes = {"priced", "unpriced", "retryable", "uncertain", "abandoned"}
  JournalMayFail = TRUE
  MayVanish = {"journal", "trajectories", "summary"}
  NoRecord = NoRecord

SPECIFICATION Spec
INVARIANTS CapsHold EffortCounted SpendAccounted HistoryHonest
CHECK_DEADLOCK FALSE
