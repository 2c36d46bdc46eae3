CONSTANTS
  HoldsData = TRUE
  DELAY = 2
  WORDS = 3
  CNT_SPAN = 3
  TRACED = TRUE
  MAX_OUTSTANDING = 3
  Blocks <- MCBlocks
SPECIFICATION LiveSpec
INVARIANTS TypeOK ReadsAccounted CsrsRestored ReadbackLags
PROPERTIES RunEnds
