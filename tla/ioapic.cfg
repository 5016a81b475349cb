SPECIFICATION Spec
CONSTANTS
  Madt <- MCMadt
  MaxEntry <- MCMaxEntry
  Threads = {t, u}
  Requests <- MCRequests
  Serialised = TRUE
  Idle = Idle
  Lost = Lost
INVARIANTS
  TypeOK
  HomeIsFound
  NoMixture
  ReadsAreWhole
PROPERTY ImplementsRouting
\* A thread that faults in the kernel stops.
CHECK_DEADLOCK FALSE
