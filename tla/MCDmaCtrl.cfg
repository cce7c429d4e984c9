CONSTANTS
  DMA_BUF_DEPTH = 2
  dec_tlu_dma_qos_prty = 1
  DrainCycles = 1
  Writes <- MCDccm
  Reads <- MCBoth
  DbgWrites <- MCIccm
  DbgReads <- MCBad
SPECIFICATION DmaSpec
PROPERTIES
  DmaImplementsQueue
  EveryRequestAnswered
