------------------------------ MODULE JTAGTAP ------------------------------
(* litespih4x/tap.py: a JTAG test access port with the registers IDCODE,     *)
(* HELLO and BYPASS, and the instruction register that chooses one.  LiteX's *)
(* JTAGTAPFSM supplies the states of the controller.                         *)
(*                                                                           *)
(* The registers of IDCODE and BYPASS are driven twice: by the clock, which  *)
(* shifts them, and combinationally, with their reset value as the default   *)
(* (tap.py:47-59, 66-78).  At a shift, where both assign, either may win.    *)
EXTENDS Wires

CONSTANTS IR_BITS, DR_BITS,  \* 5 and 32 in the code
          OP_IDCODE, OP_BYPASS, OP_HELLO, IR_CAPTURE, IDCODE, HELLO,
          MAX_SHIFTS         \* bound: no scan goes on after so many bits

ASSUME TapAssumption ==
  /\ IR_BITS \in Nat \ {0} /\ DR_BITS \in Nat \ {0} /\ MAX_SHIFTS \in Nat
  /\ {OP_IDCODE, OP_BYPASS, OP_HELLO, IR_CAPTURE} \subseteq Word(IR_BITS)
  /\ OP_IDCODE # OP_HELLO
  /\ {IDCODE, HELLO} \subseteq Word(DR_BITS)

VARIABLES tck, tap,              \* the clock pin, the controller's state
          ir, idcode, hello, bypass,
          hello_tmp, tdo,        \* registers of the falling edge
          given, seen,           \* history: bits in and out in this scan
          stale, paused          \* history: hello_tmp at capture; Pause-DR

regVars == <<ir, idcode, hello, bypass>>
outVars == <<hello_tmp, tdo>>
histVars == <<given, seen, stale, paused>>
vars == <<tck, tap, regVars, outVars, histVars>>

(* The controller: the successors of a state for tms low and for tms high.   *)
Successors ==
  [TEST_LOGIC_RESET |-> <<"RUN_TEST_IDLE", "TEST_LOGIC_RESET">>,
   RUN_TEST_IDLE    |-> <<"RUN_TEST_IDLE", "SELECT_DR">>,
   SELECT_DR        |-> <<"CAPTURE_DR", "SELECT_IR">>,
   CAPTURE_DR       |-> <<"SHIFT_DR", "EXIT1_DR">>,
   SHIFT_DR         |-> <<"SHIFT_DR", "EXIT1_DR">>,
   EXIT1_DR         |-> <<"PAUSE_DR", "UPDATE_DR">>,
   PAUSE_DR         |-> <<"PAUSE_DR", "EXIT2_DR">>,
   EXIT2_DR         |-> <<"SHIFT_DR", "UPDATE_DR">>,
   UPDATE_DR        |-> <<"RUN_TEST_IDLE", "SELECT_DR">>,
   SELECT_IR        |-> <<"CAPTURE_IR", "TEST_LOGIC_RESET">>,
   CAPTURE_IR       |-> <<"SHIFT_IR", "EXIT1_IR">>,
   SHIFT_IR         |-> <<"SHIFT_IR", "EXIT1_IR">>,
   EXIT1_IR         |-> <<"PAUSE_IR", "UPDATE_IR">>,
   PAUSE_IR         |-> <<"PAUSE_IR", "EXIT2_IR">>,
   EXIT2_IR         |-> <<"SHIFT_IR", "UPDATE_IR">>,
   UPDATE_IR        |-> <<"RUN_TEST_IDLE", "SELECT_DR">>]

TypeOK ==
  /\ tck \in Bit /\ tap \in DOMAIN Successors
  /\ ir \in Word(IR_BITS) /\ bypass \in Bit
  /\ idcode \in Word(DR_BITS) /\ hello \in Word(DR_BITS)
  /\ hello_tmp \in Bit /\ tdo \in Bit
  /\ given \in Seq(Bit) /\ seen \in Seq(Bit)
  /\ stale \in Bit /\ paused \in BOOLEAN

Loads == tap \in {"TEST_LOGIC_RESET", "CAPTURE_DR"}
Shifts == tap = "SHIFT_DR"

(* IDCODEReg, BYPASSReg: whichever driver wins.                              *)
IdcodeReg(tdi) ==
  idcode' \in {IDCODE} \cup (IF Shifts THEN {ShiftDown(DR_BITS, tdi, idcode)} ELSE {})

BypassRegHeld(tdi) ==  \* mutant: without the default
  bypass' \in {bypass} \cup (IF Shifts THEN {tdi} ELSE {})
BypassReg(tdi) == bypass' \in {1} \cup (IF Shifts THEN {tdi} ELSE {})

(* HelloReg, all on the clock.                                               *)
HelloReg(tdi) == hello' = CASE Loads -> HELLO
                            [] Shifts -> ShiftDown(DR_BITS, tdi, hello)
                            [] OTHER -> hello

ShiftIrUp(tdi) == ShiftIn(IR_BITS, tdi, ir)           \* mutant: wrong end first
ShiftIrShort(tdi) == ShiftDown(IR_BITS - 1, tdi, ir)  \* mutant: a bit short
ShiftIr(tdi) == ShiftDown(IR_BITS, tdi, ir)

InstructionReg(tdi) ==
  ir' = CASE tap = "TEST_LOGIC_RESET" -> Zero(IR_BITS)
          [] tap = "CAPTURE_IR" -> IR_CAPTURE
          [] tap = "SHIFT_IR" -> ShiftIr(tdi)
          [] OTHER -> ir

TckRise(tms, tdi) ==
  /\ tck = 0 /\ tck' = 1
  /\ tms = 0 /\ tap \in {"SHIFT_DR", "SHIFT_IR", "EXIT2_DR", "EXIT2_IR"}
       => Len(given) < MAX_SHIFTS
  /\ tap' = Successors[tap][tms + 1]
  /\ IdcodeReg(tdi) /\ BypassReg(tdi) /\ HelloReg(tdi) /\ InstructionReg(tdi)
  /\ CASE tap \in {"CAPTURE_DR", "CAPTURE_IR"} ->
            given' = << >> /\ seen' = << >> /\ stale' = hello_tmp /\ paused' = FALSE
       [] tap \in {"SHIFT_DR", "SHIFT_IR"} ->
            given' = Append(given, tdi) /\ UNCHANGED <<seen, stale, paused>>
       [] OTHER -> paused' = (paused \/ tap = "PAUSE_DR")
                   /\ UNCHANGED <<given, seen, stale>>
  /\ UNCHANGED outVars

(* The register an instruction selects; HELLO's comes through hello_tmp.     *)
HelloTdoDirect == hello[0]  \* mutant: without the register
HelloTdo == hello_tmp

TdoPre == CASE tap = "SHIFT_IR" -> ir[0]
            [] tap = "SHIFT_DR" -> (CASE ir = OP_IDCODE -> idcode[0]
                                      [] ir = OP_HELLO -> HelloTdo
                                      [] OTHER -> bypass)
            [] OTHER -> 0

TckFall == /\ tck = 1 /\ tck' = 0
           /\ hello_tmp' = hello[0]
           /\ tdo' = TdoPre
           /\ seen' = IF tap \in {"SHIFT_DR", "SHIFT_IR"} THEN Append(seen, TdoPre) ELSE seen
           /\ UNCHANGED <<tap, regVars, given, stale, paused>>

Init == /\ tck = 0 /\ tap = "TEST_LOGIC_RESET"
        /\ ir = Zero(IR_BITS) /\ idcode = IDCODE /\ hello = HELLO /\ bypass = 1
        /\ hello_tmp = HELLO[0] /\ tdo = 0
        /\ given = << >> /\ seen = << >> /\ stale = 0 /\ paused = FALSE

Rise == \E tms, tdi \in Bit : TckRise(tms, tdi)

Next == Rise \/ TckFall

Spec == Init /\ [][Next]_vars
-----------------------------------------------------------------------------
(* A word as it is shifted out, least significant bit first.                 *)
LsbFirst(n, w) == [k \in 1 .. n |-> w[k - 1]]

(* seen is the beginning of the bits s.                                      *)
SeenIn(s) == Len(seen) <= Len(s) /\ \A k \in 1 .. Len(seen) : seen[k] = s[k]

IrStates == {"SHIFT_IR", "EXIT1_IR", "PAUSE_IR", "EXIT2_IR", "UPDATE_IR"}
DrStates == {"SHIFT_DR", "EXIT1_DR", "PAUSE_DR", "EXIT2_DR", "UPDATE_DR"}

(* An instruction scan, however it is paused, gives out the capture pattern  *)
(* and then what was put in, and leaves the last bits put in, first one      *)
(* lowest, as the instruction (tap.py:124-150).                              *)
InstructionScan ==
  tap \in IrStates =>
    LET chain == LsbFirst(IR_BITS, IR_CAPTURE) \o given
    IN  SeenIn(chain) /\ \A i \in 0 .. (IR_BITS - 1) : ir[i] = chain[Len(given) + 1 + i]

(* A scan of HELLO that is not paused gives out its word one clock late,     *)
(* after a bit left from before the capture: the bit passes two registers of *)
(* the falling edge (tap.py:84-86, 152-154).                                 *)
HelloScan ==
  tap \in DrStates /\ ir = OP_HELLO /\ ~paused =>
    SeenIn(<<stale>> \o LsbFirst(DR_BITS, HELLO) \o given)

(* Of IDCODE, with its two drivers, only the first bit is sure; BYPASS and   *)
(* every unknown instruction begin with a one (tap.py:45, 64, 146).          *)
FirstBit ==
  tap \in DrStates /\ ir # OP_HELLO /\ seen # << >> =>
    seen[1] = IF ir = OP_IDCODE THEN IDCODE[0] ELSE 1
=============================================================================
