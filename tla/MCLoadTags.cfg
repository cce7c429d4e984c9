SPECIFICATION TagsSpec
CONSTANTS
  DEPTH = 4
  BYTES = 2
  TIMER_MAX = 1
  Words <- FourWords
  Accesses <- TwoBusWords
  BusClockDivided = FALSE
  CoalescingDisable = FALSE
  PostedDisable = FALSE
  BusErrors = FALSE
  Flushes = TRUE
  MaxOps = 3
  x1 = x1
  NBLOAD_SIZE = 2
  CamRegs <- MCRegs
  CamInFlight = 3
INVARIANTS
  OneOwner
  AnswersHaveOwners
  TagsComeBack
  OneEntryPerTag
  RegistersSettle
  ReadersSeeProgramOrder
PROPERTIES
  NeverThawedByAnother
