CONSTANTS
  NREADS = 4
  BLOCKS = 4
  HoldsData = TRUE
  CMD_BITS = 4
  ADDR_BITS = 8
  PREFETCH_BITS = 6
  DATA_BITS = 2
  ID_BITS = 2
  NBYTES = 16
  PFR_SPAN = 8
  TIMED = TRUE
  TICKS = 4
  MAX_STALL = 13
SPECIFICATION Spec
INVARIANTS AnswersFromDram
