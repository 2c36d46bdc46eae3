--------------------------- MODULE JTAGTAPProofs ---------------------------
(* Theorems about JTAGTAP, for registers, words and scans of every length.   *)
EXTENDS JTAGTAP, SequenceTheorems, TLAPS

USE TapAssumption

-----------------------------------------------------------------------------
(* The bit k of what a register of n bits gives out that captured w: the     *)
(* word, then what was put in.                                               *)
ChainBit(n, w, k) == IF k < n THEN w[k] ELSE given[k - n + 1]

(* The register r is the part of it that is still to come.                   *)
Window(n, w, r) == \A i \in 0 .. (n - 1) : r[i] = ChainBit(n, w, i + Len(given))

(* A register that just captured its word.                                   *)
LEMMA Captured ==
  ASSUME NEW n \in Nat \ {0}, NEW w \in Word(n), given' = << >>
  PROVE  \A i \in 0 .. (n - 1) : w[i] = ChainBit(n, w, i + Len(given))'
<1>1. Len(given') = 0
  OBVIOUS
<1> QED BY <1>1 DEF ChainBit

(* A shift takes bit and register along together.                            *)
LEMMA Shifted ==
  ASSUME NEW n \in Nat \ {0}, NEW w \in Word(n), NEW r \in Word(n), Window(n, w, r),
         given \in Seq(Bit), NEW b \in Bit, given' = Append(given, b)
  PROVE  /\ ShiftDown(n, b, r) \in Word(n)
         /\ given' \in Seq(Bit) /\ Len(given') = Len(given) + 1
         /\ \A k \in 0 .. (n + Len(given) - 1) : ChainBit(n, w, k)' = ChainBit(n, w, k)
         /\ \A i \in 0 .. (n - 1) :
              ShiftDown(n, b, r)[i] = ChainBit(n, w, i + Len(given))'
<1> DEFINE Next1(k) == IF k < n THEN w[k] ELSE given'[k - n + 1]
<1>1. /\ given' \in Seq(Bit) /\ Len(given') = Len(given) + 1 /\ Len(given) \in Nat
      /\ given'[Len(given) + 1] = b
      /\ \A k \in 1 .. Len(given) : given'[k] = given[k]
  OBVIOUS
<1>2. /\ ShiftDown(n, b, r) \in Word(n)
      /\ ShiftDown(n, b, r)[n - 1] = b
      /\ \A i \in 0 .. (n - 2) : ShiftDown(n, b, r)[i] = r[i + 1]
  BY DEF ShiftDown, Word
<1>3. \A k \in 0 .. (n + Len(given) - 1) : Next1(k) = ChainBit(n, w, k)
  BY <1>1 DEF ChainBit
<1>4. Next1(n + Len(given)) = b
  <2>1. (n + Len(given)) - n + 1 = Len(given) + 1 /\ ~(n + Len(given) < n)
    BY <1>1
  <2> QED BY <1>1, <2>1
<1> HIDE DEF Next1
<1>5. ASSUME NEW i \in 0 .. (n - 1)
      PROVE  ShiftDown(n, b, r)[i] = Next1(i + Len(given'))
  <2>0. i + Len(given') = i + Len(given) + 1
    BY <1>1
  <2>1. CASE i = n - 1
    <3>1. i + Len(given') = n + Len(given)
      BY <1>1, <2>1
    <3> QED BY <1>2, <1>4, <2>1, <3>1
  <2>2. CASE i # n - 1
    <3>1. /\ i + 1 \in 0 .. (n - 1) /\ i \in 0 .. (n - 2)
          /\ (i + 1) + Len(given) = i + Len(given')
          /\ i + Len(given') \in 0 .. (n + Len(given) - 1)
      BY <1>1, <2>2
    <3>2. r[i + 1] = ChainBit(n, w, (i + 1) + Len(given))
      BY <3>1 DEF Window
    <3> QED BY <1>2, <1>3, <3>1, <3>2
  <2> QED BY <2>1, <2>2
<1> QED BY <1>1, <1>2, <1>3, <1>5 DEF ChainBit, Next1

(* The chain as a sequence, which the properties speak of.                   *)
LEMMA ChainSequence ==
  ASSUME NEW n \in Nat \ {0}, NEW w \in Word(n), given \in Seq(Bit)
  PROVE  LET chain == LsbFirst(n, w) \o given
         IN  /\ chain \in Seq(Bit) /\ Len(chain) = n + Len(given)
             /\ \A k \in 1 .. (n + Len(given)) : chain[k] = ChainBit(n, w, k - 1)
<1> DEFINE word == LsbFirst(n, w)
           chain == word \o given
<1>1. word \in Seq(Bit) /\ Len(word) = n /\ \A k \in 1 .. n : word[k] = w[k - 1]
  BY DEF LsbFirst, Word
<1>2. /\ chain \in Seq(Bit) /\ Len(chain) = n + Len(given)
      /\ \A k \in 1 .. (n + Len(given)) :
           chain[k] = IF k <= n THEN word[k] ELSE given[k - n]
  <2> HIDE DEF word
  <2>1. /\ chain \in Seq(Bit) /\ Len(chain) = Len(word) + Len(given)
        /\ \A k \in 1 .. (Len(word) + Len(given)) :
             chain[k] = IF k <= Len(word) THEN word[k] ELSE given[k - Len(word)]
    BY <1>1, ConcatProperties
  <2> QED BY <1>1, <2>1
<1> HIDE DEF chain, word
<1>3. ASSUME NEW k \in 1 .. (n + Len(given)) PROVE chain[k] = ChainBit(n, w, k - 1)
  <2>1. (k - 1) - n + 1 = k - n /\ (k - 1 < n <=> k <= n) /\ (k <= n => k \in 1 .. n)
    OBVIOUS
  <2> QED BY <1>1, <1>2, <2>1 DEF ChainBit
<1> QED BY <1>2, <1>3 DEF chain, word

-----------------------------------------------------------------------------
(* Where the controller comes from.                                          *)
LEMMA ComesFrom ==
  ASSUME tap \in DOMAIN Successors, NEW tms \in Bit, tap' = Successors[tap][tms + 1]
  PROVE  /\ tap' \in DOMAIN Successors
         /\ tap' \in IrStates => tap \in (IrStates \ {"UPDATE_IR"}) \cup {"CAPTURE_IR"}
         /\ tap' \in DrStates => tap \in (DrStates \ {"UPDATE_DR"}) \cup {"CAPTURE_DR"}
         /\ tap' = "SHIFT_IR" => tap \in {"CAPTURE_IR", "SHIFT_IR", "EXIT2_IR"}
         /\ tap' = "SHIFT_DR" => tap \in {"CAPTURE_DR", "SHIFT_DR", "EXIT2_DR"}
         /\ tap' = "EXIT2_DR" => tap = "PAUSE_DR"
BY DEF Successors, Bit, IrStates, DrStates

(* What a rising edge does to the history of a scan.                         *)
LEMMA RiseHistory ==
  ASSUME TypeOK, NEW tms \in Bit, NEW tdi \in Bit, TckRise(tms, tdi)
  PROVE  /\ tap \in {"CAPTURE_DR", "CAPTURE_IR"} =>
              given' = << >> /\ seen' = << >> /\ stale' = hello_tmp /\ paused' = FALSE
         /\ tap \in {"SHIFT_DR", "SHIFT_IR"} =>
              given' = Append(given, tdi) /\ UNCHANGED <<seen, stale, paused>>
         /\ tap \notin {"CAPTURE_DR", "CAPTURE_IR", "SHIFT_DR", "SHIFT_IR"} =>
              /\ paused' = (paused \/ tap = "PAUSE_DR")
              /\ UNCHANGED <<given, seen, stale>>
BY DEF TckRise

LEMMA InitType == Init => TypeOK
<1> SUFFICES ASSUME Init PROVE TypeOK
  OBVIOUS
<1>1. Zero(IR_BITS) \in Word(IR_BITS)
  BY DEF Zero, Word, Bit
<1>2. HELLO[0] \in Bit
  BY DEF Word
<1>3. tap \in DOMAIN Successors
  BY DEF Init, Successors
<1>4. << >> \in Seq(Bit)
  OBVIOUS
<1> QED BY <1>1, <1>2, <1>3, <1>4 DEF Init, TypeOK, Bit

LEMMA NextType == ASSUME TypeOK, [Next]_vars PROVE TypeOK'
<1>1. ASSUME NEW tms \in Bit, NEW tdi \in Bit, TckRise(tms, tdi) PROVE TypeOK'
  <2>1. tck' \in Bit /\ tap' \in DOMAIN Successors
    BY <1>1, ComesFrom DEF TypeOK, TckRise, Bit
  <2>2. \A n \in Nat : \A r \in Word(n) : ShiftDown(n, tdi, r) \in Word(n)
    BY DEF ShiftDown, Word
  <2>3. ir' \in Word(IR_BITS)
    BY <1>1, <2>2 DEF TypeOK, TckRise, InstructionReg, ShiftIr, Zero, Word, Bit
  <2>4. idcode' \in Word(DR_BITS) /\ bypass' \in Bit
    BY <1>1, <2>2 DEF TypeOK, TckRise, IdcodeReg, BypassReg, Bit
  <2>5. hello' \in Word(DR_BITS)
    BY <1>1, <2>2 DEF TypeOK, TckRise, HelloReg
  <2>6. given' \in Seq(Bit) /\ seen' \in Seq(Bit) /\ stale' \in Bit /\ paused' \in BOOLEAN
    <3>1. CASE tap \in {"CAPTURE_DR", "CAPTURE_IR"}
      <4>1. given' = << >> /\ seen' = << >> /\ stale' = hello_tmp /\ paused' = FALSE
        BY <1>1, <3>1, RiseHistory
      <4>2. << >> \in Seq(Bit)
        OBVIOUS
      <4> QED BY <4>1, <4>2 DEF TypeOK
    <3>2. CASE tap \in {"SHIFT_DR", "SHIFT_IR"}
      <4>1. given' = Append(given, tdi) /\ UNCHANGED <<seen, stale, paused>>
        BY <1>1, <3>2, RiseHistory
      <4> QED BY <4>1, AppendProperties DEF TypeOK
    <3>3. CASE tap \notin {"CAPTURE_DR", "CAPTURE_IR", "SHIFT_DR", "SHIFT_IR"}
      BY <1>1, <3>3, RiseHistory DEF TypeOK
    <3> QED BY <3>1, <3>2, <3>3
  <2>7. UNCHANGED outVars
    BY <1>1 DEF TckRise
  <2> QED BY <2>1, <2>3, <2>4, <2>5, <2>6, <2>7 DEF TypeOK, outVars
<1>2. CASE TckFall
  <2>1. hello[0] \in Bit /\ idcode[0] \in Bit /\ ir[0] \in Bit
    BY DEF TypeOK, Word
  <2>2. TdoPre \in Bit
    BY <2>1 DEF TypeOK, TdoPre, HelloTdo, Bit
  <2> QED BY <1>2, <2>1, <2>2 DEF TypeOK, TckFall, regVars, Bit
<1>3. CASE UNCHANGED vars
  BY <1>3 DEF TypeOK, vars, regVars, outVars, histVars
<1> QED BY <1>1, <1>2, <1>3 DEF Next, Rise

(* Registers and histories keep their types (tap.py:45-160).                 *)
THEOREM TypeCorrect == Spec => []TypeOK
BY InitType, NextType, PTL DEF Spec

-----------------------------------------------------------------------------
(* A bit goes out on the falling edge before the next one comes in.          *)
Paced ==
  tap \in IrStates \cup DrStates =>
    Len(seen) = Len(given) + (IF tck = 0 /\ tap \in {"SHIFT_IR", "SHIFT_DR"} THEN 1 ELSE 0)

(* The instruction register and what it has given out are the parts of one   *)
(* chain.                                                                    *)
IrChain ==
  tap \in IrStates =>
    /\ Window(IR_BITS, IR_CAPTURE, ir)
    /\ \A k \in 1 .. Len(seen) : seen[k] = ChainBit(IR_BITS, IR_CAPTURE, k - 1)

(* HELLO's is one behind: the bit k of a scan that is not paused.            *)
LateBit(k) == IF k = 0 THEN stale ELSE ChainBit(DR_BITS, HELLO, k - 1)

DrChain ==
  tap \in DrStates =>
    /\ Window(DR_BITS, HELLO, hello)
    /\ tap = "EXIT2_DR" => paused
    /\ ir = OP_HELLO /\ ~paused =>
         /\ tap = "SHIFT_DR" => hello_tmp = LateBit(Len(seen))
         /\ \A k \in 1 .. Len(seen) : seen[k] = LateBit(k - 1)

(* Before the first shift the doubly driven registers hold what they capture.*)
FirstShift ==
  tap \in DrStates /\ given = << >> => idcode = IDCODE /\ bypass = 1

IInv == TypeOK /\ Paced /\ IrChain /\ DrChain /\ FirstShift /\ FirstBit

LEMMA InitInv == Init => IInv
BY InitType
   DEF Init, IInv, Paced, IrChain, DrChain, FirstShift, FirstBit, IrStates, DrStates

LEMMA RisePaced ==
  ASSUME IInv, NEW tms \in Bit, NEW tdi \in Bit, TckRise(tms, tdi) PROVE Paced'
<1>0. /\ tck = 0 /\ tck' = 1 /\ tap' = Successors[tap][tms + 1] /\ tap \in DOMAIN Successors
      /\ given \in Seq(Bit)
  BY DEF TckRise, IInv, TypeOK
<1> SUFFICES ASSUME tap' \in IrStates \cup DrStates PROVE Len(seen') = Len(given')
  BY <1>0 DEF Paced
<1>1. CASE tap \in {"CAPTURE_DR", "CAPTURE_IR"}
  BY <1>1, RiseHistory DEF IInv
<1>2. CASE tap \in {"SHIFT_DR", "SHIFT_IR"}
  <2>0. given' = Append(given, tdi) /\ seen' = seen
    BY <1>2, RiseHistory DEF IInv
  <2>1. Len(given') = Len(given) + 1
    BY <1>0, <2>0, AppendProperties
  <2> QED BY <1>0, <1>2, <2>0, <2>1 DEF IInv, Paced, IrStates, DrStates
<1>3. CASE tap \notin {"CAPTURE_DR", "CAPTURE_IR", "SHIFT_DR", "SHIFT_IR"}
  <2>1. tap \in IrStates \cup DrStates
    BY <1>0, <1>3, ComesFrom
  <2>2. UNCHANGED <<given, seen>>
    BY <1>3, RiseHistory DEF IInv
  <2> QED BY <1>0, <1>3, <2>1, <2>2 DEF IInv, Paced, TypeOK
<1> QED BY <1>1, <1>2, <1>3

LEMMA RiseIr ==
  ASSUME IInv, NEW tms \in Bit, NEW tdi \in Bit, TckRise(tms, tdi) PROVE IrChain'
<1>0. /\ tck = 0 /\ tap' = Successors[tap][tms + 1] /\ tap \in DOMAIN Successors
      /\ given \in Seq(Bit) /\ seen \in Seq(Bit) /\ ir \in Word(IR_BITS)
  BY DEF TckRise, IInv, TypeOK
<1> SUFFICES ASSUME tap' \in IrStates PROVE IrChain'
  BY DEF IrChain
<1>1. tap \in (IrStates \ {"UPDATE_IR"}) \cup {"CAPTURE_IR"}
  BY <1>0, ComesFrom
<1>2. CASE tap = "CAPTURE_IR"
  <2>1. ir' = IR_CAPTURE /\ given' = << >> /\ seen' = << >>
    BY <1>2, RiseHistory DEF IInv, TckRise, InstructionReg
  <2>2. Window(IR_BITS, IR_CAPTURE, ir)'
    BY <2>1, Captured DEF Window
  <2> QED BY <2>1, <2>2 DEF IrChain
<1>3. CASE tap = "SHIFT_IR"
  <2>1. /\ ir' = ShiftDown(IR_BITS, tdi, ir) /\ given' = Append(given, tdi) /\ seen' = seen
        /\ Window(IR_BITS, IR_CAPTURE, ir) /\ Len(seen) = Len(given) + 1
    BY <1>0, <1>3, RiseHistory
       DEF IInv, TckRise, InstructionReg, ShiftIr, IrChain, Paced, IrStates
  <2>2. /\ \A k \in 0 .. (IR_BITS + Len(given) - 1) :
             ChainBit(IR_BITS, IR_CAPTURE, k)' = ChainBit(IR_BITS, IR_CAPTURE, k)
        /\ \A i \in 0 .. (IR_BITS - 1) :
             ir'[i] = ChainBit(IR_BITS, IR_CAPTURE, i + Len(given))'
    BY <1>0, <2>1, Shifted
  <2>3. ASSUME NEW k \in 1 .. Len(seen')
        PROVE  seen'[k] = ChainBit(IR_BITS, IR_CAPTURE, k - 1)'
    <3>1. k \in 1 .. Len(seen) /\ k - 1 \in 0 .. (IR_BITS + Len(given) - 1)
      BY <1>0, <2>1
    <3> QED BY <1>3, <2>1, <2>2, <3>1 DEF IInv, IrChain, IrStates
  <2> QED BY <2>2, <2>3 DEF IrChain, Window
<1>4. CASE tap \notin {"CAPTURE_IR", "SHIFT_IR"}
  <2>1. UNCHANGED <<ir, given, seen>> /\ tap \in IrStates
    BY <1>1, <1>4, RiseHistory DEF IInv, TckRise, InstructionReg, IrStates
  <2> QED BY <2>1 DEF IInv, IrChain, Window, ChainBit
<1> QED BY <1>2, <1>3, <1>4

LEMMA RiseDr ==
  ASSUME IInv, NEW tms \in Bit, NEW tdi \in Bit, TckRise(tms, tdi)
  PROVE  DrChain' /\ FirstShift' /\ FirstBit'
<1>0. /\ tck = 0 /\ tap' = Successors[tap][tms + 1] /\ tap \in DOMAIN Successors
      /\ given \in Seq(Bit) /\ seen \in Seq(Bit) /\ hello \in Word(DR_BITS)
      /\ hello_tmp' = hello_tmp /\ HelloReg(tdi)
  BY DEF TckRise, IInv, TypeOK, outVars
<1> SUFFICES ASSUME tap' \in DrStates PROVE DrChain' /\ FirstShift' /\ FirstBit'
  BY DEF DrChain, FirstShift, FirstBit
<1>1. /\ tap \in (DrStates \ {"UPDATE_DR"}) \cup {"CAPTURE_DR"}
      /\ tap' = "SHIFT_DR" => tap \in {"CAPTURE_DR", "SHIFT_DR", "EXIT2_DR"}
      /\ tap' = "EXIT2_DR" => tap = "PAUSE_DR"
  BY <1>0, ComesFrom
<1>2. ir' = ir
  BY <1>1 DEF TckRise, InstructionReg, DrStates
<1>3. CASE tap = "CAPTURE_DR"
  <2>1. /\ hello' = HELLO /\ given' = << >> /\ seen' = << >> /\ stale' = hello_tmp
        /\ idcode' = IDCODE /\ bypass' = 1
    BY <1>0, <1>3, RiseHistory
       DEF IInv, HelloReg, Loads, TckRise, IdcodeReg, BypassReg, Shifts
  <2>2. Window(DR_BITS, HELLO, hello)'
    BY <2>1, Captured DEF Window
  <2>3. Len(seen') = 0 /\ tap' # "EXIT2_DR"
    BY <1>1, <1>3, <2>1
  <2> QED BY <1>0, <2>1, <2>2, <2>3 DEF DrChain, FirstShift, FirstBit, LateBit
<1>4. CASE tap = "SHIFT_DR"
  <2>1. /\ hello' = ShiftDown(DR_BITS, tdi, hello) /\ given' = Append(given, tdi)
        /\ UNCHANGED <<seen, stale, paused>>
        /\ Window(DR_BITS, HELLO, hello) /\ Len(seen) = Len(given) + 1
    BY <1>0, <1>4, RiseHistory DEF IInv, HelloReg, Loads, Shifts, DrChain, Paced, DrStates
  <2>2. /\ Len(given') = Len(given) + 1
        /\ \A k \in 0 .. (DR_BITS + Len(given) - 1) :
             ChainBit(DR_BITS, HELLO, k)' = ChainBit(DR_BITS, HELLO, k)
        /\ \A i \in 0 .. (DR_BITS - 1) :
             hello'[i] = ChainBit(DR_BITS, HELLO, i + Len(given))'
    BY SMTT(20), <1>0, <2>1, Shifted
  <2>3. ASSUME NEW k \in 0 .. Len(seen) PROVE LateBit(k)' = LateBit(k)
    <3>1. k # 0 => k - 1 \in 0 .. (DR_BITS + Len(given) - 1)
      BY <1>0, <2>1
    <3> QED BY <2>1, <2>2, <3>1 DEF LateBit
  <2>4. ASSUME ir = OP_HELLO, ~paused
        PROVE  /\ hello_tmp = LateBit(Len(seen))'
               /\ \A k \in 1 .. Len(seen) : seen[k] = LateBit(k - 1)'
    <3>1. /\ hello_tmp = LateBit(Len(seen))
          /\ \A k \in 1 .. Len(seen) : seen[k] = LateBit(k - 1)
      BY <1>4, <2>4 DEF IInv, DrChain, DrStates
    <3>2. Len(seen) \in 0 .. Len(seen) /\ \A k \in 1 .. Len(seen) : k - 1 \in 0 .. Len(seen)
      BY <1>0
    <3>3. LateBit(Len(seen))' = LateBit(Len(seen))
      BY <2>1, <2>3, <3>2 DEF LateBit
    <3> QED BY <2>3, <3>1, <3>2, <3>3
  <2>5. Window(DR_BITS, HELLO, hello)' /\ tap' # "EXIT2_DR"
    BY <1>1, <1>4, <2>2 DEF Window
  <2>6. DrChain'
    BY <1>0, <1>2, <2>1, <2>4, <2>5 DEF DrChain
  <2>7. FirstShift'
    BY <1>0, <2>1, <2>2 DEF FirstShift
  <2>8. FirstBit'
    BY <1>2, <1>4, <2>1 DEF IInv, FirstBit, DrStates
  <2> QED BY <2>6, <2>7, <2>8
<1>5. CASE tap \notin {"CAPTURE_DR", "SHIFT_DR"}
  <2>1. /\ UNCHANGED <<hello, given, seen, stale>> /\ paused' = (paused \/ tap = "PAUSE_DR")
        /\ tap \in DrStates /\ idcode' = IDCODE /\ bypass' = 1
    BY <1>0, <1>1, <1>5, RiseHistory
       DEF IInv, HelloReg, Loads, TckRise, IdcodeReg, BypassReg, Shifts, DrStates
  <2>2. tap' = "SHIFT_DR" => paused'
    BY <1>1, <1>5, <2>1 DEF IInv, DrChain
  <2>3. tap' = "EXIT2_DR" => paused'
    BY <1>1, <2>1
  <2>4. DrChain'
    BY <1>2, <2>1, <2>2, <2>3 DEF IInv, DrChain, Window, ChainBit, LateBit
  <2> QED BY <1>2, <2>1, <2>4 DEF IInv, FirstShift, FirstBit
<1> QED BY <1>3, <1>4, <1>5

(* A falling edge puts the next bit out: of the register, or, of HELLO's, the *)
(* one before.                                                               *)
LEMMA FallKeeps == ASSUME IInv, TckFall PROVE IInv'
<1>0. /\ tck = 1 /\ tck' = 0 /\ TypeOK' /\ TypeOK
      /\ UNCHANGED <<tap, ir, idcode, hello, bypass, given, stale, paused>>
      /\ hello_tmp' = hello[0]
      /\ given \in Seq(Bit) /\ seen \in Seq(Bit) /\ seen' \in Seq(Bit)
  BY NextType DEF IInv, TypeOK, TckFall, regVars, Next
<1>1. CASE tap \in {"SHIFT_IR", "SHIFT_DR"}
  <2>1. /\ Len(seen) = Len(given) /\ seen' = Append(seen, TdoPre) /\ TdoPre \in Bit
    <3>1. seen' = Append(seen, TdoPre) /\ Len(seen) = Len(given)
      BY <1>0, <1>1 DEF IInv, Paced, TckFall, IrStates, DrStates
    <3>2. TdoPre \in Bit
      <4>1. ir[0] \in Bit /\ idcode[0] \in Bit /\ hello_tmp \in Bit /\ bypass \in Bit
        BY <1>0 DEF TypeOK, Word
      <4> QED BY <4>1 DEF TdoPre, HelloTdo, Bit
    <3> QED BY <3>1, <3>2
  <2>2. /\ Len(seen') = Len(given) + 1 /\ seen'[Len(given) + 1] = TdoPre
        /\ \A k \in 1 .. Len(given) : seen'[k] = seen[k]
    BY <1>0, <2>1, AppendProperties
  <2>3. Paced'
    BY <1>0, <1>1, <2>2 DEF Paced
  <2>4. IrChain'
    <3> SUFFICES ASSUME tap = "SHIFT_IR" PROVE IrChain'
      BY <1>0, <1>1 DEF IrChain, IrStates
    <3>1. TdoPre = ir[0] /\ ir[0] = ChainBit(IR_BITS, IR_CAPTURE, 0 + Len(given))
      BY DEF TdoPre, IInv, IrChain, Window, IrStates
    <3>2. ASSUME NEW k \in 1 .. Len(seen')
          PROVE  seen'[k] = ChainBit(IR_BITS, IR_CAPTURE, k - 1)
      <4>1. CASE k = Len(given) + 1
        <5>1. k - 1 = 0 + Len(given)
          BY <1>0, <4>1
        <5> QED BY <2>2, <3>1, <4>1, <5>1
      <4>2. CASE k # Len(given) + 1
        <5>1. k \in 1 .. Len(seen) /\ k \in 1 .. Len(given)
          BY <1>0, <2>1, <2>2, <4>2
        <5> QED BY <2>2, <5>1 DEF IInv, IrChain, IrStates
      <4> QED BY <4>1, <4>2
    <3> QED BY <1>0, <3>2 DEF IInv, IrChain, Window, ChainBit
  <2>5. DrChain'
    <3> SUFFICES ASSUME tap = "SHIFT_DR" PROVE DrChain'
      BY <1>0, <1>1 DEF DrChain, DrStates
    <3>1. hello[0] = ChainBit(DR_BITS, HELLO, 0 + Len(given))
      BY DEF IInv, DrChain, Window, DrStates
    <3>2. ASSUME ir = OP_HELLO, ~paused
          PROVE  /\ hello_tmp' = LateBit(Len(seen'))
                 /\ \A k \in 1 .. Len(seen') : seen'[k] = LateBit(k - 1)
      <4>1. LateBit(Len(seen')) = ChainBit(DR_BITS, HELLO, 0 + Len(given))
        <5>1. Len(seen') # 0 /\ Len(seen') - 1 = 0 + Len(given)
          BY <1>0, <2>2
        <5> QED BY <5>1 DEF LateBit
      <4>2. ASSUME NEW k \in 1 .. Len(seen') PROVE seen'[k] = LateBit(k - 1)
        <5>1. CASE k = Len(given) + 1
          <6>1. k - 1 = Len(seen)
            BY <1>0, <2>1, <5>1
          <6>2. TdoPre = hello_tmp /\ hello_tmp = LateBit(Len(seen))
            BY <3>2 DEF TapAssumption, TdoPre, HelloTdo, IInv, DrChain, DrStates
          <6> QED BY <2>2, <5>1, <6>1, <6>2
        <5>2. CASE k # Len(given) + 1
          <6>1. k \in 1 .. Len(seen) /\ k \in 1 .. Len(given)
            BY <1>0, <2>1, <2>2, <5>2
          <6> QED BY <2>2, <3>2, <6>1 DEF IInv, DrChain, DrStates
        <5> QED BY <5>1, <5>2
      <4> QED BY <1>0, <3>1, <4>1, <4>2
    <3> QED BY <1>0, <3>2 DEF IInv, DrChain, Window, ChainBit, LateBit
  <2>6. FirstShift'
    BY <1>0 DEF IInv, FirstShift
  <2>7. FirstBit'
    <3> SUFFICES ASSUME tap = "SHIFT_DR", ir # OP_HELLO
                 PROVE  seen'[1] = IF ir = OP_IDCODE THEN IDCODE[0] ELSE 1
      BY <1>0, <1>1 DEF FirstBit, DrStates
    <3>1. CASE given = << >>
      <4>1. idcode = IDCODE /\ bypass = 1
        BY <3>1 DEF IInv, FirstShift, DrStates
      <4>2. seen'[1] = TdoPre
        <5>1. Len(given) + 1 = 1
          BY <3>1
        <5> QED BY <2>2, <5>1
      <4> QED BY <4>1, <4>2 DEF TdoPre
    <3>2. CASE given # << >>
      <4>1. 1 \in 1 .. Len(given) /\ seen # << >>
        BY <1>0, <2>1, <3>2
      <4> QED BY <2>2, <4>1 DEF IInv, FirstBit, DrStates
    <3> QED BY <3>1, <3>2
  <2> QED BY <1>0, <2>3, <2>4, <2>5, <2>6, <2>7 DEF IInv
<1>2. CASE tap \notin {"SHIFT_IR", "SHIFT_DR"}
  <2>1. seen' = seen
    BY <1>2 DEF TckFall
  <2>2. Paced' /\ FirstShift' /\ FirstBit'
    BY <1>0, <1>2, <2>1 DEF IInv, Paced, FirstShift, FirstBit
  <2>3. IrChain'
    BY <1>0, <2>1 DEF IInv, IrChain, Window, ChainBit
  <2>4. DrChain'
    BY <1>0, <1>2, <2>1 DEF IInv, DrChain, Window, ChainBit, LateBit
  <2> QED BY <1>0, <2>2, <2>3, <2>4 DEF IInv
<1> QED BY <1>1, <1>2

LEMMA Invariance == Spec => []IInv
<1>1. ASSUME IInv, [Next]_vars PROVE IInv'
  <2>1. ASSUME NEW tms \in Bit, NEW tdi \in Bit, TckRise(tms, tdi) PROVE IInv'
    <3>1. TypeOK'
      BY <1>1, <2>1, NextType DEF IInv, Next, Rise
    <3>2. Paced' /\ IrChain' /\ DrChain' /\ FirstShift' /\ FirstBit'
      BY <1>1, <2>1, RisePaced, RiseIr, RiseDr
    <3> QED BY <3>1, <3>2 DEF IInv
  <2>2. CASE TckFall
    BY <1>1, <2>2, FallKeeps
  <2>3. CASE UNCHANGED vars
    <3>1. TypeOK'
      BY <1>1, <2>3, NextType DEF IInv
    <3> QED BY <1>1, <2>3, <3>1
            DEF IInv, Paced, IrChain, DrChain, FirstShift, FirstBit, Window, ChainBit,
                LateBit, vars, regVars, outVars, histVars
  <2> QED BY <1>1, <2>1, <2>2, <2>3 DEF Next, Rise
<1> QED BY <1>1, InitInv, PTL DEF Spec

-----------------------------------------------------------------------------
(* However a scan of the instruction register is paused, it gives out the    *)
(* capture pattern and then what was put in, and leaves the last bits put in *)
(* as the instruction (tap.py:124-150).                                      *)
THEOREM ScansInstruction == Spec => []InstructionScan
<1>1. IInv => InstructionScan
  <2> SUFFICES ASSUME IInv, tap \in IrStates PROVE InstructionScan
    BY DEF InstructionScan
  <2> DEFINE chain == LsbFirst(IR_BITS, IR_CAPTURE) \o given
  <2>0. given \in Seq(Bit) /\ seen \in Seq(Bit) /\ ir \in Word(IR_BITS)
    BY DEF IInv, TypeOK
  <2>1. /\ Len(chain) = IR_BITS + Len(given)
        /\ \A k \in 1 .. (IR_BITS + Len(given)) :
             chain[k] = ChainBit(IR_BITS, IR_CAPTURE, k - 1)
    BY <2>0, ChainSequence
  <2>2. Len(seen) <= IR_BITS + Len(given)
    BY <2>0 DEF IInv, Paced
  <2> HIDE DEF chain
  <2>3. SeenIn(chain)
    BY <2>0, <2>1, <2>2 DEF IInv, IrChain, SeenIn
  <2>4. ASSUME NEW i \in 0 .. (IR_BITS - 1) PROVE ir[i] = chain[Len(given) + 1 + i]
    <3>1. /\ Len(given) + 1 + i \in 1 .. (IR_BITS + Len(given))
          /\ (Len(given) + 1 + i) - 1 = i + Len(given)
      BY <2>0
    <3> QED BY <2>1, <3>1 DEF IInv, IrChain, Window
  <2> QED BY <2>3, <2>4 DEF InstructionScan, chain
<1> QED BY <1>1, Invariance, PTL

(* A scan of HELLO that is not paused gives out its word one clock late,     *)
(* after one stale bit (tap.py:84-86, 152-154).                              *)
THEOREM ScansHello == Spec => []HelloScan
<1>1. IInv => HelloScan
  <2> SUFFICES ASSUME IInv, tap \in DrStates, ir = OP_HELLO, ~paused
               PROVE  SeenIn(<<stale>> \o LsbFirst(DR_BITS, HELLO) \o given)
    BY DEF HelloScan
  <2> DEFINE word == LsbFirst(DR_BITS, HELLO)
             chain == word \o given
  <2>0. given \in Seq(Bit) /\ seen \in Seq(Bit) /\ stale \in Bit /\ word \in Seq(Bit)
    BY DEF IInv, TypeOK, LsbFirst, Word
  <2>1. /\ chain \in Seq(Bit) /\ Len(chain) = DR_BITS + Len(given)
        /\ \A k \in 1 .. (DR_BITS + Len(given)) :
             chain[k] = ChainBit(DR_BITS, HELLO, k - 1)
    BY <2>0, ChainSequence
  <2>2. Len(seen) <= DR_BITS + Len(given)
    BY <2>0 DEF IInv, Paced
  <2> DEFINE late == <<stale>> \o chain
  <2>3. <<stale>> \o word \o given = late
    <3> HIDE DEF word
    <3> QED BY <2>0, ConcatAssociative
  <2> HIDE DEF chain
  <2>4. Len(late) = 1 + Len(chain) /\ late[1] = stale
        /\ \A k \in 2 .. (1 + Len(chain)) : late[k] = chain[k - 1]
    <3>1. <<stale>> \in Seq(Bit) /\ Len(<<stale>>) = 1 /\ <<stale>>[1] = stale
      BY <2>0
    <3>2. /\ Len(late) = 1 + Len(chain)
          /\ \A k \in 1 .. (1 + Len(chain)) :
               late[k] = IF k <= 1 THEN <<stale>>[k] ELSE chain[k - 1]
      <4> DEFINE first == <<stale>>
      <4>1. first \in Seq(Bit) /\ Len(first) = 1
        BY <3>1
      <4> HIDE DEF first
      <4> QED BY <2>1, <4>1, ConcatProperties DEF first
    <3> QED BY <2>1, <3>1, <3>2
  <2> HIDE DEF late
  <2>5. ASSUME NEW k \in 1 .. Len(seen) PROVE seen[k] = late[k]
    <3>1. seen[k] = LateBit(k - 1)
      BY DEF IInv, DrChain
    <3>2. CASE k = 1
      BY <2>4, <3>1, <3>2 DEF LateBit
    <3>3. CASE k # 1
      <4>1. /\ k - 1 \in 1 .. (DR_BITS + Len(given)) /\ k - 1 # 0
            /\ k \in 2 .. (1 + Len(chain))
        BY <2>0, <2>1, <2>2, <3>3
      <4> QED BY <2>1, <2>4, <3>1, <4>1 DEF LateBit
    <3> QED BY <3>2, <3>3
  <2>6. SeenIn(late)
    BY <2>0, <2>1, <2>2, <2>4, <2>5 DEF SeenIn
  <2> QED BY <2>3, <2>6
<1> QED BY <1>1, Invariance, PTL

(* IDCODE's first bit is the word's, and BYPASS and every unknown            *)
(* instruction begin with a one, whichever driver wins (tap.py:45, 64, 146). *)
THEOREM FirstBitSure == Spec => []FirstBit
BY Invariance, PTL DEF IInv

=============================================================================
