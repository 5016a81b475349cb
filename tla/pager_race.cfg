SPECIFICATION Spec
CONSTANTS
  Threads <- MCThreads
  Spaces <- MCSpaces
  BootSpace = "kernel"
  Frames <- Frames9
  NoFrame = NoFrame
  BootFrame <- MCBootFrame
  PmmOffers <- LowestFirst
  Fanout = 2
  GibPages = TRUE
  NxFeature = TRUE
  PcidResults <- PcidsOff
  Requests <- RaceRequests
  Serialised = FALSE
  NoJob = NoJob
  Unmapped = Unmapped
PROPERTY TablesAreNeverReplaced
