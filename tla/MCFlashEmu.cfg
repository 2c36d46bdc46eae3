CONSTANTS
  CMD_BITS = 2
  ADDR_BITS = 3
  MEM_BITS = 2
  DATA_BITS = 4
  ID_BITS = 3
  QUAD_STEP = 2
  CMD_READ <- MCRead
  CMD_QREAD <- MCQRead
  CMD_RDID <- MCRdid
  IDCODE <- MCId
  LoadData <- MCLoad
SPECIFICATION Spec
INVARIANTS TypeOK DrivesOnlyAnswers PortHoldsNextByte ByteIntact
PROPERTIES ImplementsSerialFlash
