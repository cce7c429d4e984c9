SPECIFICATION FairSwSpec
CONSTANTS
  SubPackets = 2
  PacketBits = 32
  StoreDepth = 2
  MaxCredits = 1
  SbIds = 2
  NoData = NoData
  VpuLatencies = {1, 3}
  StoreCredits = 1
  VectorInstrs <- MCVectors
  ScalarDrained = TRUE
  MaxDecoded = 2
  MaxMishaps = 1
INVARIANTS
  SwTypeOK VectorTakenWhenDecoded PetitionsAccounted 
PROPERTIES
  VectorEnds
CHECK_DEADLOCK TRUE
