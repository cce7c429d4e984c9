SPECIFICATION FrontendLive
CONSTANTS
  PARCELS = 2
  LINE_GROUPS = 2
  ADDRS = 12
  Long <- MCLong
  Uncacheable <- MCUncacheable
  Iccm <- MCIccm
  AnyOrder = TRUE
  BusWaits = FALSE
  Branches <- MCBranches
  FlushPaths <- MCFlushPaths
INVARIANTS
  BuffersCounted
PROPERTIES
  ImplementsStream
  FetchGoesOn
