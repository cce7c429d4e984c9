SPECIFICATION Spec
CONSTANTS
  DEPTH = 8
  BYTES = 2
  TIMER_MAX = 1
  Words <- FourWords
  Accesses <- Mixed
  BusClockDivided = FALSE
  CoalescingDisable = FALSE
  PostedDisable = TRUE
  BusErrors = TRUE
  Flushes = FALSE
  MaxOps = 3
INVARIANTS
  LoadsSeeProgramOrder
  MemoryFollowsProgram
  DevicesInOrder
