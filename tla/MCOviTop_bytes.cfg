SPECIFICATION FairSpec
CONSTANTS
  SubPackets = 4
  PacketBits = 32
  StoreDepth = 4
  MaxCredits = 2
  SbIds = 4
  NoData = NoData
  VpuLatencies = {3}
  StoreCredits = 1
  Programs <- MCShortPrograms
  VectorConfigs <- MCBytes
INVARIANT PetitionsContiguous
CHECK_DEADLOCK TRUE
