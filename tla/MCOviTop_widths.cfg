SPECIFICATION FairSpec
CONSTANTS
  SubPackets = 4
  PacketBits = 32
  StoreDepth = 3
  MaxCredits = 4
  SbIds = 2
  NoData = NoData
  VpuLatencies = {3, 5}
  StoreCredits = 1
  Programs <- MCPrograms
  VectorConfigs <- MCWidths
INVARIANTS
  TypeOK ExactlyAllPackets StorePetitionIsNextPacket AnswersMatchPetitions
  AnnouncedDataIsFresh AllElementsAnnounced CreditsAccounted StoreCreditsConserved
  Lockstep StoreBufferNeverOverrun NoInstructionSkipped
PROPERTIES
  ProgramCompletes ImplementsVectorTransfer
CHECK_DEADLOCK TRUE
