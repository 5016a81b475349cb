SPECIFICATION Spec
CONSTANTS
  Threads <- MCThreads
  UserThreads <- MCUserThreads
  ProcessOf <- MCProcessOf
  NoPage = NoPage
  MaxSyscalls = 2
INVARIANTS
  TypeOK
  RegistersConserved
  OwnTables
  GsFollowsMode
  OwnTcb
\* A handler that hangs stops the processor.
CHECK_DEADLOCK FALSE
