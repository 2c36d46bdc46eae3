CONSTANTS
  CMD_BITS = 3
  ADDR_BITS = 3
  MEM_BITS = 2
  DATA_BITS = 4
  ID_BITS = 3
  QUAD_STEP = 2
  CMD_READ <- MCRead
  CMD_QREAD <- MCQRead
  CMD_RDID <- MCRdid
  CMD_WREN <- MCWren
  CMD_WRSR <- MCWrsr
  CMD_RDSR <- MCRdsr
  QE_STATUS <- MCQe
  IDCODE <- MCId
  LoadData <- MCLoads
  ReadSizes = {2}
  WriteSizes = {2}
  RESET_PULSES = 2
  IDLE_PULSES = 2
  FlashArray <- MCArray
  DUMMY_CLOCKS = 2
SPECIFICATION MirrorSpec
INVARIANTS ReadReturnsMemory IdReturnsIdcode AnswersAlike DrivesWhereFlashDoes FightsOnlyInQuadReads
