SPECIFICATION FairSpec
CONSTANTS
  Threads <- OneThread
  Spaces <- MCSpaces
  BootSpace = "kernel"
  Frames <- Frames12
  NoFrame = NoFrame
  BootFrame <- MCBootFrame
  PmmOffers <- LowestFirst
  Fanout = 2
  GibPages = TRUE
  NxFeature = TRUE
  PcidResults <- PcidsOff
  Requests <- PassRequests
  Serialised = TRUE
  NoJob = NoJob
  Unmapped = Unmapped
INVARIANTS
  TypeOK
  TreeShape
  NoLeak
  NoWildWalk
  LeafRightsAreEffective
PROPERTIES
  RequestsReturn
  ImplementsAddressSpace
