SPECIFICATION Spec
CONSTANTS
  Threads <- MCThreads
  NoThread = NoThread
  NoBitmap = NoBitmap
  Garbage <- MixedGarbage
  MaxCalls = 18
  MaxFrees = 1
INVARIANTS
  TypeOK
  FreshPcid
PROPERTY OwnersKeepTheirBits
\* The budgets of calls run out, and a kept lock stops both threads.
CHECK_DEADLOCK FALSE
