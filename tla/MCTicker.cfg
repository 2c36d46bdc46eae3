CONSTANTS
  MAX_CNT = 29
  SPAN = 32
  MAX_CNT_B = 11
  SPAN_B = 16
  NARROW = 8
  P = 6
  MAX_FREQ = 31
SPECIFICATION MCSpec
INVARIANTS TypeOK TickPeriod BeatPeriod PeriodWithinAClock NarrowIsSilent
PROPERTIES BeatsForever
