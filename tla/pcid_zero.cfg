SPECIFICATION Spec
CONSTANTS
  Threads <- MCThreads
  NoThread = NoThread
  NoBitmap = NoBitmap
  Garbage <- CleanGarbage
  MaxCalls = 64
  MaxFrees = 0
INVARIANT ExhaustionReported
CHECK_DEADLOCK FALSE
