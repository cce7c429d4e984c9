SPECIFICATION Spec
CONSTANTS
  DEPTH = 4
  BYTES = 2
  NumBanks = 2
  Words = {0, 1}
  Values = {0, 1}
  Watched <- MCWatched
  CoreAccesses <- MCCore
  DmaAccesses <- MCDma
  EccErrors = TRUE
  MaxInFlight = 3
INVARIANTS
  ReadsProgramOrder
  DrainsWholeWords
  EveryEntryDecided
  StoreFindsRoom
  NoCoreAheadOfDma
CHECK_DEADLOCK FALSE
