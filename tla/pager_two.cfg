SPECIFICATION Spec
CONSTANTS
  Threads <- MCThreads
  Spaces <- MCSpaces
  BootSpace = "kernel"
  Frames <- Frames8
  NoFrame = NoFrame
  BootFrame <- MCBootFrame
  PmmOffers <- LowestFirst
  Fanout = 2
  GibPages = TRUE
  NxFeature = TRUE
  PcidResults <- PcidsOff
  Requests <- SharedRequests
  Serialised = TRUE
  NoJob = NoJob
  Unmapped = Unmapped
INVARIANT NoLeak
PROPERTY ImplementsAddressSpace
