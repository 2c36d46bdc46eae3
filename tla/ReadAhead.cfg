CONSTANTS
  Latencies = {0, 1, 3, 11}
  ClkRatios = {1, 2, 4}
  Widths = {1, 3, 16, 64}
  MAX_GUESS = 13
SPECIFICATION CalcSpec
CHECK_DEADLOCK FALSE
INVARIANTS CountsLandedReads SlackMeansCovered
