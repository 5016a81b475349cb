SPECIFICATION Spec
CONSTANTS
  Bsp = "b"
  Aps = {"p"}
  Cpuids <- MCCpuids
  Listings <- MCListings
  Exceptions = {0, 31}
  Devices = {33}
  Handlers = {"h"}
  Idle = Idle
  Threads = {"t", "u"}
  Xcr0 = {"x87"}
  None = None
  Fresh = Fresh
INVARIANTS
  TypeOK
  TrapsAreDelivered
  InterruptsFindGates
  FramesAreKept
  KeptFloatsAreOwn
  AreasFit
  SelectedIsEnabled
\* A processor may hang for want of memory.
CHECK_DEADLOCK FALSE
