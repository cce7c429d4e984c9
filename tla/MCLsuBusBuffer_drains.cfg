SPECIFICATION FairSpec
CONSTANTS
  DEPTH = 4
  BYTES = 2
  TIMER_MAX = 1
  Words <- FourWords
  Accesses <- DualLoads
  BusClockDivided = TRUE
  CoalescingDisable = FALSE
  PostedDisable = FALSE
  BusErrors = FALSE
  Flushes = FALSE
  MaxOps = 4
INVARIANTS
  EntriesSound
PROPERTIES
  EverythingDrains
