CONSTANTS
  NREADS = 2
  BLOCKS = 2
  HoldsData = TRUE
  CMD_BITS = 2
  ADDR_BITS = 3
  PREFETCH_BITS = 2
  DATA_BITS = 2
  ID_BITS = 2
  NBYTES = 2
  PFR_SPAN = 4
  TIMED = FALSE
  TICKS = 0
  MAX_STALL = 0
SPECIFICATION LiveSpec
INVARIANTS TypeOK ReadsAccounted RegistersSettle
PROPERTIES PrefetchCompletes
