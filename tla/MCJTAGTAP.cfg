CONSTANTS
  IR_BITS = 3
  DR_BITS = 3
  OP_IDCODE <- MCIdcodeOp
  OP_BYPASS <- MCBypassOp
  OP_HELLO <- MCHelloOp
  IR_CAPTURE <- MCCapture
  IDCODE <- MCIdcode
  HELLO <- MCHello
  MAX_SHIFTS = 4
SPECIFICATION Spec
INVARIANTS TypeOK InstructionScan HelloScan FirstBit
