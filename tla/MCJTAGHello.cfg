CONSTANTS
  DR_BITS = 3
  HELLO <- MCHello
  MAX_SHIFTS = 6
SPECIFICATION Spec
INVARIANTS TypeOK HelloScan
