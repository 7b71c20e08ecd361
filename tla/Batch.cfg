\* Two trials whose reservations together exceed their arm's ceilings, one
\* that needs the first; two faults.
SPECIFICATION Spec
CONSTANTS
  Paid = Paid
  Free = Free
  None = None
  Arms <- MCArms
  Trial <- MCTrial
  Ceiling <- MCCeiling
  RunCap = 2
  MaxResponse = 1
  MaxRequests = 2
  MaxFaults = 2
INVARIANTS
  OneRunPerTrial
  LedgerHolds
