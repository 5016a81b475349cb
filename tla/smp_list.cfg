SPECIFICATION Spec
CONSTANTS
  Bsp = "b"
  Processors <- MCProcessors
  Madts <- FirstOnly
  BspHasNx = TRUE
  Nobody = Nobody
  NoPage = NoPage
  Static = Static
INVARIANT DescriptorInList
CHECK_DEADLOCK FALSE
