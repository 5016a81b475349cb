SPECIFICATION FairSpec
CONSTANTS
  Threads <- MCThreads
  NoThread = NoThread
  NoBitmap = NoBitmap
  Garbage <- CleanGarbage
  MaxCalls = 33
  MaxFrees = 0
PROPERTY AllocateReturns
CHECK_DEADLOCK FALSE
