SPECIFICATION SwSpec
CONSTANTS
  SubPackets = 2
  PacketBits = 32
  StoreDepth = 2
  MaxCredits = 1
  SbIds = 2
  NoData = NoData
  VpuLatencies = {1}
  StoreCredits = 1
  VectorInstrs <- MCVectors
  ScalarDrained = FALSE
  MaxDecoded = 2
  MaxMishaps = 0
INVARIANTS
  AnswersAreVectorData
CHECK_DEADLOCK TRUE
