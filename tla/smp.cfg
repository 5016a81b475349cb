SPECIFICATION FairSpec
CONSTANTS
  Bsp = "b"
  Processors <- MCProcessors
  Madts <- MCMadts
  BspHasNx = TRUE
  Nobody = Nobody
  NoPage = NoPage
  Static = Static
INVARIANTS
  TypeOK
  TrampolineStays
  OneAtATime
  OwnDescriptor
  SynchronizedInKernel
  StructuresAreMapped
PROPERTY StartedIsBroughtUp
\* Booting ends, or waits for a processor that lost its start-up IPIs.
CHECK_DEADLOCK FALSE
