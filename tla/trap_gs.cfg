SPECIFICATION Spec
CONSTANTS
  Threads <- MCThreads
  UserThreads <- MCUserThreads
  ProcessOf <- MCProcessOf
  NoPage = NoPage
  MaxSyscalls = 2
INVARIANT HandlerSeesDescriptor
CHECK_DEADLOCK FALSE
