----------------------------- MODULE JTAGHello -----------------------------
(* litespih4x/hello.py, class JTAGHello: a data register behind a JTAG phy.  *)
(* The phy tells what its controller is doing with the levels reset, capture *)
(* and shift, which change on the rising edge as the controller does.        *)
EXTENDS Wires

CONSTANTS DR_BITS,    \* 32 in the code
          HELLO,
          MAX_SHIFTS  \* bound on the length of a scan

ASSUME HelloAssumption == /\ DR_BITS \in Nat \ {0} /\ MAX_SHIFTS \in Nat
                          /\ HELLO \in Word(DR_BITS)

VARIABLES tck,
          phy,        \* external: "reset", "capture", "shift" or "other"
          hello_dr,
          tdo,        \* hello_inner_tdo, of the falling edge
          given, seen \* history: bits in and out in this scan

vars == <<tck, phy, hello_dr, tdo, given, seen>>

TypeOK == /\ tck \in Bit /\ phy \in {"reset", "capture", "shift", "other"}
          /\ hello_dr \in Word(DR_BITS) /\ tdo \in Bit
          /\ given \in Seq(Bit) /\ seen \in Seq(Bit)

ShiftUp(tdi) == ShiftIn(DR_BITS, tdi, hello_dr)            \* mutant: wrong end
ShiftShort(tdi) == ShiftDown(DR_BITS - 1, tdi, hello_dr)   \* mutant: a bit short
Shift(tdi) == ShiftDown(DR_BITS, tdi, hello_dr)

HelloDr(tdi) == hello_dr' = CASE phy \in {"reset", "capture"} -> HELLO
                              [] phy = "shift" -> Shift(tdi)
                              [] OTHER -> hello_dr

(* A scan goes from a capture to a reset or the next capture.                *)
TckRise(tdi) ==
  /\ tck = 0 /\ tck' = 1
  /\ phy' \in {"reset", "capture", "other"} \cup
              (IF Len(given) < MAX_SHIFTS THEN {"shift"} ELSE {})
  /\ HelloDr(tdi)
  /\ given' = CASE phy \in {"reset", "capture"} -> << >>
                [] phy = "shift" -> Append(given, tdi)
                [] OTHER -> given
  /\ seen' = IF phy \in {"reset", "capture"} THEN << >> ELSE seen
  /\ UNCHANGED tdo

TckFall == /\ tck = 1 /\ tck' = 0
           /\ tdo' = hello_dr[0]
           /\ seen' = IF phy = "shift" THEN Append(seen, hello_dr[0]) ELSE seen
           /\ UNCHANGED <<phy, hello_dr, given>>

Init == /\ tck = 0 /\ phy = "reset" /\ hello_dr = HELLO /\ tdo = 0
        /\ given = << >> /\ seen = << >>

Rise == \E tdi \in Bit : TckRise(tdi)

Next == Rise \/ TckFall

Spec == Init /\ [][Next]_vars
-----------------------------------------------------------------------------
(* A scan, however it is interrupted, gives out the word, least significant  *)
(* bit first, and then what was put in, without delay (hello.py:96-104).     *)
HelloScan ==
  LET chain == [k \in 1 .. DR_BITS |-> HELLO[k - 1]] \o given
  IN  /\ Len(seen) <= Len(chain)
      /\ \A k \in 1 .. Len(seen) : seen[k] = chain[k]
=============================================================================
