SPECIFICATION Spec
CONSTANTS
  f1 = f1 f2 = f2 f3 = f3 f4 = f4 f5 = f5 f6 = f6 f7 = f7 f8 = f8
  Files = {f1, f2, f3, f4, f5, f6, f7, f8}
  Batches <- MCBatches
  Size = 3
  SubBatch = 1
  StartFails = FALSE
INVARIANTS
  TypeOK
  GraphExact
  CrashNeedsTimeout
PROPERTIES
  ParseEnds
CHECK_DEADLOCK FALSE
