CONSTANTS
  CMD_BITS = 8
  ADDR_BITS = 2
  MEM_BITS = 1
  DATA_BITS = 4
  ID_BITS = 3
  QUAD_STEP = 2
  CMD_READ <- MCRead
  CMD_QREAD <- MCQRead
  CMD_RDID <- MCRdid
  IDCODE <- MCId
  LoadData <- MCLoad
  READ_BYTES = 3
SPECIFICATION ArtySpec
INVARIANTS CleanReadReturnsMemory IdReturnsIdcode CutExchangeIsSilent
