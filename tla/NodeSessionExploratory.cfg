CONSTANTS
  Signatures <- SomeSignatures
  Protocol <- SomeProtocol
  Keys <- SomeKeys
  KeyOf <- SomeKeyOf
  CountOf <- SomeCountOf
  NoCount = NoCount
  Success = Success
  MaxTurns = 4
  MaxCalls = 5
  MaxBatch = 1
  MaxRepeated = 2
  Window = 4
  Saturation = 3
  MaxTruncated = 3
  Ceiling = 5
  Lengths = {2, 7, NoLimit}
  NoLimit = NoLimit

SPECIFICATION Spec
INVARIANTS ExploratoryEndsNoNode
CHECK_DEADLOCK FALSE
