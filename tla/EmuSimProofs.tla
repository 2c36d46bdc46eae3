---------------------------- MODULE EmuSimProofs ----------------------------
(* What the bench's host and loader get from FlashEmu, and how its answers   *)
(* compare with those of the flash beside it.                                *)
EXTENDS MirroredFlash, FlashEmuProofs

-----------------------------------------------------------------------------
(* The bench.  Its procedures hold the chip select, the reset and the memory *)
(* while they run.                                                           *)
Ops == {"idle", "done", "read", "id", "other", "reset", "pulses", "busread", "write"}

BenchOK ==
  /\ op \in Ops
  /\ out \in Seq(Bit)
  /\ csn = (IF Sending THEN 0 ELSE 1)
  /\ rstn = (IF op = "reset" THEN 0 ELSE 1)
  /\ sel = (IF op \in {"busread", "write"} THEN 1 ELSE 0)
  /\ ptr \in Word(MEM_BITS)
  /\ op = "write" => buf \in Seq(LoadData)

LEMMA StartOK ==
  ASSUME BenchOK, NEW name \in {"read", "id", "other"}, NEW bits \in Seq(Bit), NEW n \in Nat,
         Start(name, bits, n)
  PROVE  BenchOK' /\ SetPins(0, rstn)
<1>1. Repeat(n, 0) \in Seq(Bit) /\ Len(Repeat(n, 0)) = n
  BY RepeatType DEF Bit
<1>2. out' \in Seq(Bit)
  BY <1>1, Concatenation DEF Start
<1>3. /\ op' = name /\ csn' = 0 /\ rstn' = rstn /\ sel' = sel /\ ptr' = ptr
      /\ op \in {"idle", "done"} /\ SetPins(0, rstn)
  BY DEF Start, SetPins, memVars, loaderVars, Free
<1> QED BY <1>2, <1>3 DEF BenchOK, Sending, Ops

(* What the host sends.                                                      *)
LEMMA WordSent ==
  ASSUME NEW n \in Nat, NEW w \in Word(n)
  PROVE  MsbFirst(n, w) \in Seq(Bit) /\ Len(MsbFirst(n, w)) = n
BY MsbFirstType

LEMMA OthersOK ==
  ASSUME BenchOK, EnableWrite \/ EnableQuadMode \/ ReadStatus \/ QuadRead
  PROVE  BenchOK' /\ SetPins(0, rstn) /\ op' = "other"
<1>1. /\ CMD_BITS \in Nat /\ ADDR_BITS \in Nat /\ DATA_BITS \in Nat
      /\ {CMD_WREN, CMD_WRSR, CMD_RDSR, CMD_QREAD} \subseteq Word(CMD_BITS)
      /\ QE_STATUS \in Word(DATA_BITS)
  BY WidthAssumption, CommandAssumption, BenchAssumption
<1>2. ASSUME NEW bits \in Seq(Bit), Discard(bits)
      PROVE  BenchOK' /\ SetPins(0, rstn) /\ op' = "other"
  <2>1. Start("other", bits, 0)
    BY <1>2 DEF Discard
  <2> QED BY <2>1, StartOK DEF Start
<1>3. CASE EnableWrite
  <2>1. MsbFirst(CMD_BITS, CMD_WREN) \in Seq(Bit)
    BY <1>1, WordSent
  <2> QED BY <1>2, <1>3, <2>1 DEF EnableWrite
<1>4. CASE EnableQuadMode
  <2>1. MsbFirst(CMD_BITS, CMD_WRSR) \o MsbFirst(DATA_BITS, QE_STATUS) \in Seq(Bit)
    BY <1>1, WordSent, Concatenation
  <2> QED BY <1>2, <1>4, <2>1 DEF EnableQuadMode
<1>5. CASE ReadStatus
  <2>1. MsbFirst(CMD_BITS, CMD_RDSR) \o Repeat(DATA_BITS, 0) \in Seq(Bit)
    BY <1>1, WordSent, RepeatType, Concatenation DEF Bit
  <2> QED BY <1>2, <1>5, <2>1 DEF ReadStatus
<1>6. CASE QuadRead
  <2>1. PICK a \in Word(ADDR_BITS), n \in ReadSizes :
          Discard(MsbFirst(CMD_BITS, CMD_QREAD) \o MsbFirst(ADDR_BITS, a)
                    \o Repeat(n * DATA_BITS, 0))
    BY <1>6 DEF QuadRead
  <2>2. n * DATA_BITS \in Nat
    BY <1>1, BenchAssumption
  <2>3. Repeat(n * DATA_BITS, 0) \in Seq(Bit)
    BY <2>2, RepeatType DEF Bit
  <2>4. MsbFirst(CMD_BITS, CMD_QREAD) \o MsbFirst(ADDR_BITS, a) \in Seq(Bit)
    BY <1>1, WordSent, Concatenation
  <2>5. MsbFirst(CMD_BITS, CMD_QREAD) \o MsbFirst(ADDR_BITS, a) \o Repeat(n * DATA_BITS, 0)
          \in Seq(Bit)
    BY <2>3, <2>4, Concatenation
  <2> QED BY <1>2, <2>1, <2>5
<1> QED BY <1>3, <1>4, <1>5, <1>6

(* What the host sends to be answered: the command, the address it asks for, *)
(* and zeros for as long as the answer is.                                   *)
Asking == op \in {"read", "id"}
Ahead == IF op = "read" THEN CMD_BITS + ADDR_BITS ELSE CMD_BITS
Asked == IF op = "read" THEN CMD_READ ELSE CMD_RDID
Frame == [k \in Nat |-> CASE k <= CMD_BITS -> Asked[CMD_BITS - k]
                          [] k > CMD_BITS /\ k <= Ahead -> req[ADDR_BITS - (k - CMD_BITS)]
                          [] OTHER -> 0]
Sent == Ahead + answer - Len(out)

ToSend ==
  Asking => /\ req \in Word(ADDR_BITS) /\ answer \in Nat
            /\ op = "id" => answer = ID_BITS
            /\ Len(out) <= Ahead + answer
            /\ \A k \in 1 .. Len(out) : out[k] = Frame[Sent + k]

LEMMA ReadAsked ==
  ASSUME BenchOK, StartRead
  PROVE  /\ BenchOK' /\ SetPins(0, rstn) /\ op' = "read" /\ ToSend' /\ Sent' = 0
         /\ got' = << >>
<1>1. PICK a \in Word(ADDR_BITS), n \in ReadSizes :
        /\ Start("read", MsbFirst(CMD_BITS, CMD_READ) \o MsbFirst(ADDR_BITS, a), n * DATA_BITS)
        /\ req' = a
  BY DEF StartRead
<1>2. CMD_BITS \in Nat \ {0} /\ ADDR_BITS \in Nat \ {0} /\ n * DATA_BITS \in Nat
  BY WidthAssumption, BenchAssumption
<1> DEFINE c == MsbFirst(CMD_BITS, CMD_READ)
           d == MsbFirst(ADDR_BITS, a)
           z == Repeat(n * DATA_BITS, 0)
<1>3. /\ c \in Seq(Bit) /\ Len(c) = CMD_BITS /\ d \in Seq(Bit) /\ Len(d) = ADDR_BITS
      /\ z \in Seq(Bit) /\ Len(z) = n * DATA_BITS
      /\ \A k \in 1 .. CMD_BITS : c[k] = CMD_READ[CMD_BITS - k]
      /\ \A k \in 1 .. ADDR_BITS : d[k] = a[ADDR_BITS - k]
      /\ \A k \in 1 .. (n * DATA_BITS) : z[k] = 0
  <2>1. CMD_READ \in Word(CMD_BITS)
    BY CommandAssumption
  <2>2. c \in Seq(Bit) /\ Len(c) = CMD_BITS /\ \A k \in 1 .. CMD_BITS : c[k] = CMD_READ[CMD_BITS - k]
    BY <1>2, <2>1, MsbFirstType
  <2>3. d \in Seq(Bit) /\ Len(d) = ADDR_BITS /\ \A k \in 1 .. ADDR_BITS : d[k] = a[ADDR_BITS - k]
    BY <1>2, MsbFirstType
  <2>4. z \in Seq(Bit) /\ Len(z) = n * DATA_BITS /\ \A k \in 1 .. (n * DATA_BITS) : z[k] = 0
    BY <1>2, RepeatType DEF Bit
  <2> QED BY <2>2, <2>3, <2>4
<1>4. /\ op' = "read" /\ out' = (c \o d) \o z /\ answer' = n * DATA_BITS /\ got' = << >>
      /\ Start("read", c \o d, n * DATA_BITS)
  BY <1>1 DEF Start
<1> HIDE DEF c, d, z
<1>5. c \o d \in Seq(Bit) /\ Len(c \o d) = CMD_BITS + ADDR_BITS
  BY <1>3, Concatenation
<1>6. Len(out') = CMD_BITS + ADDR_BITS + n * DATA_BITS
  <2>1. Len((c \o d) \o z) = Len(c \o d) + Len(z)
    BY <1>3, <1>5, Concatenation
  <2> QED BY <1>2, <1>3, <1>4, <1>5, <2>1
<1>7. Ahead' = CMD_BITS + ADDR_BITS /\ Asked' = CMD_READ /\ Sent' = 0
  BY <1>2, <1>4, <1>6 DEF Ahead, Asked, Sent
<1>8. ASSUME NEW k \in 1 .. Len(out') PROVE out'[k] = Frame'[k]
  <2>1. k \in Nat /\ k >= 1 /\ k <= CMD_BITS + ADDR_BITS + n * DATA_BITS
    BY <1>2, <1>6
  <2>2. CASE k <= CMD_BITS
    <3>1. k \in 1 .. Len(c) /\ k \in 1 .. Len(c \o d) /\ k \in 1 .. CMD_BITS
      BY <1>2, <1>3, <1>5, <2>1, <2>2
    <3>2. out'[k] = c[k]
      BY <1>3, <1>4, <1>5, <3>1, Concatenation
    <3>3. ~(k > CMD_BITS /\ k <= CMD_BITS + ADDR_BITS)
      BY <1>2, <2>1, <2>2
    <3> QED BY <1>3, <1>7, <2>1, <2>2, <3>1, <3>2, <3>3 DEF Frame
  <2>3. CASE k > CMD_BITS /\ k <= CMD_BITS + ADDR_BITS
    <3>1. k \in 1 .. Len(c \o d) /\ k > Len(c) /\ k <= Len(c) + Len(d)
      BY <1>2, <1>3, <1>5, <2>1, <2>3
    <3>2. out'[k] = (c \o d)[k]
      BY <1>3, <1>4, <1>5, <3>1, Concatenation
    <3>3. (c \o d)[k] = d[k - CMD_BITS] /\ k - CMD_BITS \in 1 .. ADDR_BITS
      BY <1>3, <2>1, <3>1, ConcatenationEnd
    <3>4. ~(k <= CMD_BITS)
      BY <1>2, <2>1, <2>3
    <3> QED BY <1>1, <1>3, <1>7, <2>1, <2>3, <3>2, <3>3, <3>4 DEF Frame
  <2>4. CASE k > CMD_BITS + ADDR_BITS
    <3>1. k > Len(c \o d) /\ k <= Len(c \o d) + Len(z)
      BY <1>2, <1>3, <1>5, <2>1, <2>4
    <3>2. out'[k] = z[k - Len(c \o d)] /\ k - Len(c \o d) \in 1 .. (n * DATA_BITS)
      BY SMTT(20), <1>3, <1>4, <1>5, <2>1, <3>1, ConcatenationEnd
    <3>3. ~(k <= CMD_BITS) /\ ~(k > CMD_BITS /\ k <= CMD_BITS + ADDR_BITS)
      BY <1>2, <2>1, <2>4
    <3> QED BY <1>3, <1>7, <2>1, <3>2, <3>3 DEF Frame
  <2> QED BY <1>2, <2>1, <2>2, <2>3, <2>4
<1>9. ToSend'
  <2>1. \A k \in 1 .. Len(out') : Sent' + k = k
    BY <1>6, <1>7
  <2> QED BY <1>1, <1>2, <1>4, <1>6, <1>7, <1>8, <2>1 DEF ToSend
<1>10. BenchOK' /\ SetPins(0, rstn)
  BY <1>2, <1>4, <1>5, StartOK
<1> QED BY <1>4, <1>7, <1>9, <1>10

LEMMA IdAsked ==
  ASSUME BenchOK, StartId
  PROVE  /\ BenchOK' /\ SetPins(0, rstn) /\ op' = "id" /\ ToSend' /\ Sent' = 0
         /\ got' = << >>
<1> DEFINE c == MsbFirst(CMD_BITS, CMD_RDID)
           z == Repeat(ID_BITS, 0)
<1>1. Start("id", c, ID_BITS) /\ req' = Zero(ADDR_BITS)
  BY DEF StartId
<1>2. CMD_BITS \in Nat \ {0} /\ ADDR_BITS \in Nat \ {0} /\ ID_BITS \in Nat
  BY WidthAssumption
<1>3. /\ c \in Seq(Bit) /\ Len(c) = CMD_BITS /\ z \in Seq(Bit) /\ Len(z) = ID_BITS
      /\ \A k \in 1 .. CMD_BITS : c[k] = CMD_RDID[CMD_BITS - k]
      /\ \A k \in 1 .. ID_BITS : z[k] = 0
  <2>1. CMD_RDID \in Word(CMD_BITS)
    BY CommandAssumption
  <2>2. c \in Seq(Bit) /\ Len(c) = CMD_BITS /\ \A k \in 1 .. CMD_BITS : c[k] = CMD_RDID[CMD_BITS - k]
    BY <1>2, <2>1, MsbFirstType
  <2>3. z \in Seq(Bit) /\ Len(z) = ID_BITS /\ \A k \in 1 .. ID_BITS : z[k] = 0
    BY <1>2, RepeatType DEF Bit
  <2> QED BY <2>2, <2>3
<1> HIDE DEF c
<1>4. op' = "id" /\ out' = c \o z /\ answer' = ID_BITS /\ got' = << >>
  BY <1>1 DEF Start
<1> HIDE DEF z
<1>5. Len(out') = CMD_BITS + ID_BITS
  BY <1>3, <1>4, Concatenation
<1>6. Ahead' = CMD_BITS /\ Asked' = CMD_RDID /\ Sent' = 0
  BY <1>2, <1>4, <1>5 DEF Ahead, Asked, Sent
<1>7. ASSUME NEW k \in 1 .. Len(out') PROVE out'[k] = Frame'[k]
  <2>1. k \in Nat /\ k >= 1 /\ k <= CMD_BITS + ID_BITS
    BY <1>2, <1>5
  <2>2. CASE k <= CMD_BITS
    <3>1. k \in 1 .. Len(c) /\ k \in 1 .. CMD_BITS
      BY <1>2, <1>3, <2>1, <2>2
    <3>2. out'[k] = c[k]
      BY <1>3, <1>4, <3>1, Concatenation
    <3>3. ~(k > CMD_BITS /\ k <= CMD_BITS)
      BY <1>2, <2>1
    <3> QED BY <1>3, <1>6, <2>1, <2>2, <3>1, <3>2, <3>3 DEF Frame
  <2>3. CASE k > CMD_BITS
    <3>1. k > Len(c) /\ k <= Len(c) + Len(z)
      BY <1>2, <1>3, <2>1, <2>3
    <3>2. out'[k] = z[k - Len(c)] /\ k - Len(c) \in 1 .. ID_BITS
      BY <1>3, <1>4, <2>1, <3>1, ConcatenationEnd
    <3>3. ~(k <= CMD_BITS) /\ ~(k > CMD_BITS /\ k <= CMD_BITS)
      BY <1>2, <2>1, <2>3
    <3> QED BY <1>3, <1>6, <2>1, <3>2, <3>3 DEF Frame
  <2> QED BY <1>2, <2>1, <2>2, <2>3
<1>8. ToSend'
  <2>1. \A k \in 1 .. Len(out') : Sent' + k = k
    BY <1>5, <1>6
  <2> QED BY <1>1, <1>2, <1>4, <1>5, <1>6, <1>7, <2>1, ZeroType DEF ToSend
<1>9. BenchOK' /\ SetPins(0, rstn)
  BY <1>1, <1>2, <1>3, StartOK
<1> QED BY <1>4, <1>6, <1>8, <1>9

(* Each step of the bench keeps its procedures in order.                     *)
LEMMA TailType ==
  ASSUME NEW S, NEW s \in Seq(S), s # << >>
  PROVE  /\ Tail(s) \in Seq(S) /\ Head(s) \in S /\ Len(Tail(s)) = Len(s) - 1
         /\ Head(s) = s[1] /\ Len(s) \in Nat \ {0}
         /\ \A k \in 1 .. (Len(s) - 1) : Tail(s)[k] = s[k + 1]
OBVIOUS

LEMMA BenchStepOK == ASSUME BenchOK, [BenchNext]_benchVars PROVE BenchOK'
<1> USE DEF hostVars, loaderVars, Ops, Sending
<1>1. CASE StartRead \/ StartId
  BY <1>1, ReadAsked, IdAsked
<1>2. CASE EnableWrite \/ EnableQuadMode \/ ReadStatus \/ QuadRead
  BY <1>2, OthersOK
<1>3. CASE TickHigh
  <2>1. out' \in Seq(Bit)
    BY <1>3, TailType DEF TickHigh, BenchOK
  <2> QED BY <1>3, <2>1 DEF TickHigh, SclkRise, SpiClock, BenchOK
<1>4. CASE TickLow
  BY <1>4 DEF TickLow, SclkFall, memVars, BenchOK
<1>5. CASE End
  BY <1>5 DEF End, SetPins, memVars, BenchOK
<1>6. CASE StartReset
  <2>1. out' \in Seq(Bit)
    BY <1>6, BenchAssumption, RepeatType DEF StartReset, Bit
  <2> QED BY <1>6, <2>1 DEF StartReset, SetPins, memVars, BenchOK, Free
<1>7. CASE StartPulses
  <2>1. out' \in Seq(Bit)
    BY <1>7, BenchAssumption, RepeatType DEF StartPulses, Bit
  <2> QED BY <1>7, <2>1 DEF StartPulses, vars, pinVars, memVars, BenchOK, Free
<1>8. CASE Pulse
  <2>1. out' \in Seq(Bit)
    BY <1>8, TailType DEF Pulse, BenchOK
  <2> QED BY <1>8, <2>1 DEF Pulse, SclkRise, SclkFall, SpiClock, memVars, BenchOK
<1>9. CASE EndReset
  BY <1>9 DEF EndReset, SetPins, memVars, BenchOK
<1>10. CASE EndPulses
  BY <1>10 DEF EndPulses, vars, pinVars, memVars, BenchOK
<1>11. CASE StartBusRead
  BY <1>11 DEF StartBusRead, LoaderSelect, SetSel, pinVars, BenchOK, Free
<1>12. CASE ReadByte
  <2>1. ptr' \in Word(MEM_BITS)
    <3>1. MEM_BITS \in Nat
      BY WidthAssumption
    <3> QED BY <1>12, <3>1, IncType DEF ReadByte, BenchOK
  <2> QED BY <1>12, <2>1 DEF ReadByte, LoaderCycle, SysClock, pinVars, BenchOK
<1>13. CASE EndBusRead
  BY <1>13 DEF EndBusRead, LoaderSelect, SetSel, pinVars, BenchOK
<1>14. CASE StartWrite
  <2>1. PICK a \in Word(MEM_BITS), n \in WriteSizes, d \in LoadData :
          buf' = [k \in 1 .. n |-> d] /\ ptr' = a
    BY <1>14 DEF StartWrite
  <2>2. buf' \in Seq(LoadData)
    BY <2>1, BenchAssumption
  <2> QED BY <1>14, <2>1, <2>2 DEF StartWrite, LoaderSelect, SetSel, pinVars, BenchOK, Free
<1>15. CASE WriteByte
  <2>1. ptr' \in Word(MEM_BITS)
    <3>1. MEM_BITS \in Nat
      BY WidthAssumption
    <3> QED BY <1>15, <3>1, IncType DEF WriteByte, BenchOK
  <2>2. buf' \in Seq(LoadData)
    BY <1>15, TailType DEF WriteByte, BenchOK
  <2> QED BY <1>15, <2>1, <2>2 DEF WriteByte, LoaderCycle, SysClock, pinVars, BenchOK
<1>16. CASE EndWrite
  BY <1>16 DEF EndWrite, LoaderSelect, SetSel, pinVars, BenchOK
<1>17. CASE UNCHANGED benchVars
  BY <1>17 DEF benchVars, vars, pinVars, memVars, BenchOK
<1> QED
  BY <1>1, <1>2, <1>3, <1>4, <1>5, <1>6, <1>7, <1>8, <1>9, <1>10, <1>11, <1>12, <1>13, <1>14,
     <1>15, <1>16, <1>17 DEF BenchNext

(* Each step of the bench is one of the emulator's, or none.                 *)
LEMMA BenchStepIsEmulators == ASSUME BenchOK, [BenchNext]_benchVars PROVE [Next]_vars
<1> USE DEF Next
<1>1. CASE StartRead \/ StartId
  <2>1. SetPins(0, rstn)
    BY <1>1, ReadAsked, IdAsked
  <2> QED BY <2>1 DEF SetCsn, Bit
<1>2. CASE EnableWrite \/ EnableQuadMode \/ ReadStatus \/ QuadRead
  <2>1. SetPins(0, rstn)
    BY <1>2, OthersOK
  <2> QED BY <2>1 DEF SetCsn, Bit
<1>3. CASE TickHigh
  <2>1. Head(out) \in Bit
    BY <1>3, TailType DEF TickHigh, BenchOK
  <2> QED BY <1>3, <2>1 DEF TickHigh, Rise
<1>4. CASE TickLow
  BY <1>4 DEF TickLow
<1>5. CASE End
  BY <1>5 DEF End, SetCsn, Bit
<1>6. CASE StartReset \/ EndReset
  BY <1>6 DEF StartReset, EndReset, SetRstn, Bit
<1>7. CASE StartPulses \/ EndPulses
  BY <1>7 DEF StartPulses, EndPulses
<1>8. CASE Pulse
  BY <1>8 DEF Pulse, Rise, Bit
<1>9. CASE StartBusRead \/ EndBusRead \/ StartWrite \/ EndWrite
  BY <1>9 DEF StartBusRead, EndBusRead, StartWrite, EndWrite, Loader, Bit
<1>10. CASE ReadByte
  <2>1. PICK d \in LoadData : TRUE
    BY BenchAssumption
  <2>2. LoaderCycle(ptr, 0, Head(buf)) => LoaderCycle(ptr, 0, d)
    BY DEF LoaderCycle, SysClock
  <2> QED BY <1>10, <2>1, <2>2 DEF ReadByte, BenchOK, Loader, Bit
<1>11. CASE WriteByte
  <2>1. Head(buf) \in LoadData
    BY <1>11, TailType DEF WriteByte, BenchOK
  <2> QED BY <1>11, <2>1 DEF WriteByte, BenchOK, Loader, Bit
<1>12. CASE UNCHANGED benchVars
  BY <1>12 DEF benchVars
<1> QED
  BY <1>1, <1>2, <1>3, <1>4, <1>5, <1>6, <1>7, <1>8, <1>9, <1>10, <1>11, <1>12 DEF BenchNext

LEMMA BenchInvariance == BenchSpec => []BenchOK
<1>1. BenchInit => BenchOK
  <2>1. Zero(MEM_BITS) \in Word(MEM_BITS)
    BY WidthAssumption, ZeroType
  <2> QED BY <2>1 DEF BenchInit, Init, MemInit, BenchOK, Ops, Sending
<1> QED BY <1>1, BenchStepOK, PTL DEF BenchSpec

(* Whatever procedures of host and loader the bench runs and in which order, *)
(* each of their steps is one FlashEmu may meet: what holds of FlashEmu      *)
(* holds in the bench (emu_sim.py:295-413, 415-576).                         *)
THEOREM BenchIsEmulator == BenchSpec => Spec
<1>1. BenchInit => Init
  BY DEF BenchInit
<1> QED BY <1>1, BenchInvariance, BenchStepIsEmulators, PTL DEF BenchSpec, Spec

(* What holds in the bench is a serial flash too (emu.py:97-181).            *)
THEOREM BenchIsSerialFlash == BenchSpec => ImplementsSerialFlash
BY BenchIsEmulator, Refinement

-----------------------------------------------------------------------------
(* The answers over the SPI pins.                                            *)

(* The bit that belongs at clock i of the answer, and the clocks so far.     *)
Reply(i) ==
  IF op = "read" THEN BitRead(req, i) ELSE IDCODE[ID_BITS - 1 - (i % ID_BITS)]
Answered == IF Sent > Ahead THEN Sent - Ahead ELSE 0

(* What the emulator has heard, shows and has been sampled of.               *)
Asks ==
  Asking => /\ Heard(Frame, Sent) /\ Genuine
            /\ sclk = 0 /\ Sent >= Ahead => So = Reply(Sent - Ahead)
            /\ got \in Seq({0, 1, HiZ}) /\ Len(got) = Answered
            /\ \A i \in 1 .. Len(got) : got[i] = Reply(i - 1)

LEMMA AheadType == Ahead \in Nat \ {0} /\ CMD_BITS \in Nat /\ ADDR_BITS \in Nat /\ Ahead >= CMD_BITS
BY WidthAssumption DEF Ahead

(* The command and the address arrive.                                       *)
LEMMA FrameHeard ==
  ASSUME ToSend, Asking
  PROVE  CommandIn(Frame) = Asked /\ (op = "read" => AddressIn(Frame) = req)
<1>0. CMD_BITS \in Nat \ {0} /\ ADDR_BITS \in Nat \ {0} /\ Asked \in Word(CMD_BITS)
  BY WidthAssumption, CommandAssumption DEF Asked
<1>1. CommandIn(Frame) = Asked
  <2>1. ASSUME NEW k \in 1 .. CMD_BITS PROVE Frame[k] = Asked[CMD_BITS - k]
    <3>1. k \in Nat /\ k <= CMD_BITS /\ ~(k > CMD_BITS /\ k <= Ahead)
      BY <1>0
    <3> QED BY <3>1 DEF Frame
  <2> QED BY <1>0, <2>1, CommandSent
<1>2. ASSUME op = "read" PROVE AddressIn(Frame) = req
  <2>1. ASSUME NEW k \in 1 .. ADDR_BITS PROVE Frame[CMD_BITS + k] = req[ADDR_BITS - k]
    <3>1. /\ CMD_BITS + k \in Nat /\ CMD_BITS + k > CMD_BITS /\ ~(CMD_BITS + k <= CMD_BITS)
          /\ CMD_BITS + k <= CMD_BITS + ADDR_BITS /\ (CMD_BITS + k) - CMD_BITS = k
      BY <1>0
    <3>2. Ahead = CMD_BITS + ADDR_BITS
      BY <1>2 DEF Ahead
    <3> QED BY <3>1, <3>2 DEF Frame
  <2> QED BY <2>1, AddressSent DEF ToSend
<1> QED BY <1>1, <1>2

(* An exchange starts with nothing heard.                                    *)
LEMMA AskStarts ==
  ASSUME BenchOK, RInv, StartRead \/ StartId PROVE ToSend' /\ Asks'
<1>1. ToSend' /\ Sent' = 0 /\ got' = << >> /\ SetPins(0, rstn) /\ op' \in {"read", "id"}
  BY ReadAsked, IdAsked
<1>2. op \in {"idle", "done"}
  BY DEF StartRead, StartId, Start, Free
<1>3. Deselected /\ ~Deselected'
  BY <1>1, <1>2 DEF BenchOK, Sending, SetPins, Deselected
<1>4. (\A f : Heard(f, 0))' /\ PhaseBar' = "cmd"
  BY <1>1, <1>3, SelectHears
<1>5. Heard(Frame, Sent)' /\ Genuine'
  BY <1>1, <1>4 DEF Genuine
<1>6. Ahead' \in Nat \ {0}
  BY WidthAssumption DEF Ahead
<1>7. Len(got') = 0 /\ got' \in Seq({0, 1, HiZ}) /\ \A i \in 1 .. Len(got') : got'[i] = Reply(i - 1)'
  BY <1>1
<1>8. Answered' = 0 /\ ~(Sent' >= Ahead')
  <2>1. Sent' = 0 /\ ~(Sent' > Ahead') /\ ~(Sent' >= Ahead')
    <3>1. PICK n \in Nat \ {0} : n = Ahead'
      BY <1>6
    <3>2. ~(0 > n) /\ ~(0 >= n)
      OBVIOUS
    <3> QED BY <1>1, <3>1, <3>2
  <2> QED BY <2>1 DEF Answered
<1> QED BY <1>1, <1>5, <1>7, <1>8 DEF Asks

(* The words of an exchange under way stay what they are.                    *)
LEMMA AskedKept ==
  ASSUME UNCHANGED <<op, req, mem>>
  PROVE  /\ Frame' = Frame /\ Ahead' = Ahead /\ Asked' = Asked /\ (Asking' <=> Asking)
         /\ \A i : Reply(i)' = Reply(i)
<1>1. Ahead' = Ahead /\ Asked' = Asked /\ (Asking' <=> Asking)
  BY DEF Ahead, Asked, Asking
<1> QED BY <1>1 DEF Frame, Reply, BitRead

LEMMA SentType ==
  ASSUME BenchOK, ToSend, Asking
  PROVE  /\ Sent \in Nat /\ Len(out) \in Nat /\ Sent + Len(out) = Ahead + answer
         /\ answer \in Nat
BY AheadType DEF BenchOK, ToSend, Sent

(* The host clocks out the next bit of its frame.                            *)
LEMMA HighSends ==
  ASSUME BenchOK, ToSend, Asking, TickHigh
  PROVE  /\ Sent' = Sent + 1 /\ Head(out) = Frame[Sent + 1]
         /\ Frame' = Frame /\ Ahead' = Ahead /\ Asking' /\ \A i : Reply(i)' = Reply(i)
<1>1. /\ SclkRise(Head(out)) /\ out # << >> /\ out' = Tail(out)
      /\ UNCHANGED <<op, req, answer, mem>>
  BY RiseKeeps DEF TickHigh
<1>2. Len(out') = Len(out) - 1 /\ Head(out) = out[1] /\ Len(out) \in Nat \ {0}
  BY <1>1, TailType DEF BenchOK
<1>3. Frame' = Frame /\ Ahead' = Ahead /\ Asking' /\ \A i : Reply(i)' = Reply(i)
  BY <1>1, AskedKept
<1>4. Sent' = Ahead + answer - (Len(out) - 1) /\ Sent = Ahead + answer - Len(out)
  BY <1>1, <1>2, <1>3 DEF Sent
<1>5. Sent' = Sent + 1
  <2>1. PICK x \in Nat : x = Ahead
    BY AheadType
  <2>2. PICK n \in Nat : n = Len(out)
    BY <1>2
  <2>3. x + answer - (n - 1) = (x + answer - n) + 1
    BY <2>1, <2>2, SentType
  <2> QED BY <1>4, <2>1, <2>2, <2>3
<1>6. Head(out) = Frame[Sent + 1]
  BY <1>2 DEF ToSend
<1> QED BY <1>3, <1>5, <1>6

LEMMA HighAsks ==
  ASSUME BenchOK, RInv, ToSend, Asks, Asking, TickHigh PROVE ToSend' /\ Asks'
<1>1. /\ SclkRise(Head(out)) /\ out # << >> /\ out' = Tail(out)
      /\ UNCHANGED <<op, req, answer, mem>> /\ So' = So /\ sclk = 0 /\ sclk' = 1 /\ sel = 0
  BY RiseKeeps DEF TickHigh, BenchOK, Asking
<1>2. /\ Len(out') = Len(out) - 1 /\ Head(out) = out[1] /\ Head(out) \in Bit
      /\ \A k \in 1 .. (Len(out) - 1) : out'[k] = out[k + 1]
      /\ Len(out) \in Nat \ {0}
  BY <1>1, TailType DEF BenchOK
<1>3. Frame' = Frame /\ Ahead' = Ahead /\ Asking' /\ \A i : Reply(i)' = Reply(i)
  BY HighSends
<1>4. Sent \in Nat /\ Sent' = Sent + 1 /\ Sent + Len(out) = Ahead + answer /\ answer \in Nat
  BY SentType, HighSends
<1>5. ToSend'
  <2>1. ASSUME NEW k \in 1 .. Len(out') PROVE out'[k] = Frame[Sent' + k]
    <3>1. k + 1 \in 1 .. Len(out) /\ Sent + (k + 1) = Sent' + k
      BY <1>2, <1>4
    <3>2. out[k + 1] = Frame[Sent + (k + 1)]
      BY <3>1 DEF ToSend
    <3> QED BY <1>2, <3>1, <3>2
  <2>2. Len(out') <= Ahead + answer
    BY <1>2, <1>4, AheadType
  <2> QED BY <1>1, <1>3, <2>1, <2>2 DEF ToSend
<1>6. Head(out) = Frame[Sent + 1]
  BY HighSends
<1>7. Heard(Frame, Sent)' /\ Genuine'
  <2>1. PICK f : f = Frame
    OBVIOUS
  <2>2. PICK m \in Nat : m = Sent
    BY <1>4
  <2>3. PICK b \in Bit : b = Head(out)
    BY <1>2
  <2>4. Heard(f, m) /\ f[m + 1] = b /\ SclkRise(b) /\ Genuine
    BY <1>1, <1>6, <2>1, <2>2, <2>3 DEF Asks
  <2>5. Heard(f, m + 1)'
    BY <2>4, HeardRise
  <2>6. Genuine'
    BY <1>1, <2>4, RiseGenuine
  <2>7. Frame' = f /\ Sent' = m + 1
    BY <1>3, <1>4, <2>1, <2>2
  <2> QED BY <2>5, <2>6, <2>7
<1>8. CASE Sent < Ahead
  <2>1. got' = got
    <3>1. ~(Len(out) <= answer)
      BY <1>2, <1>4, <1>8, AheadType
    <3> QED BY <3>1 DEF TickHigh
  <2>2. Answered = 0 /\ Answered' = 0
    BY <1>3, <1>4, <1>8, AheadType DEF Answered
  <2>3. got' \in Seq({0, 1, HiZ}) /\ Len(got') = Answered' /\ Len(got') = 0
    BY <2>1, <2>2 DEF Asks
  <2>4. \A i \in 1 .. Len(got') : got'[i] = Reply(i - 1)'
    BY <2>3
  <2> QED BY <1>1, <1>3, <1>5, <1>7, <2>3, <2>4 DEF Asks
<1>9. CASE Sent >= Ahead
  <2>1. got' = Append(got, So)
    <3>1. Len(out) <= answer
      BY <1>2, <1>4, <1>9, AheadType
    <3> QED BY <3>1 DEF TickHigh
  <2>2. So \in {0, 1, HiZ}
    BY DEF RInv, IInv, TypeOK, So, Bit
  <2>3. /\ got \in Seq({0, 1, HiZ}) /\ Len(got) = Sent - Ahead
        /\ \A i \in 1 .. Len(got) : got[i] = Reply(i - 1)
        /\ So = Reply(Sent - Ahead)
    BY <1>1, <1>4, <1>9, AheadType DEF Asks, Answered
  <2>4. got' \in Seq({0, 1, HiZ}) /\ Len(got') = Len(got) + 1
    BY <2>1, <2>2, <2>3
  <2>5. Len(got') = Answered'
    BY <1>3, <1>4, <1>9, <2>3, <2>4, AheadType DEF Answered
  <2>6. ASSUME NEW i \in 1 .. Len(got') PROVE got'[i] = Reply(i - 1)'
    <3>1. CASE i \in 1 .. Len(got)
      <4>1. got'[i] = got[i]
        BY <2>1, <2>2, <2>3, <3>1
      <4> QED BY <1>3, <2>3, <3>1, <4>1
    <3>2. CASE i = Len(got) + 1
      <4>1. got'[i] = So /\ i - 1 = Sent - Ahead
        BY <2>1, <2>2, <2>3, <3>2
      <4> QED BY <1>3, <2>3, <4>1
    <3> QED BY <2>3, <2>4, <3>1, <3>2
  <2> QED BY <1>1, <1>3, <1>5, <1>7, <2>4, <2>5, <2>6 DEF Asks
<1> QED BY <1>4, <1>8, <1>9, AheadType

LEMMA LowAsks ==
  ASSUME BenchOK, RInv, ToSend, Asks, Asking, TickLow PROVE ToSend' /\ Asks'
<1>1. SclkFall /\ UNCHANGED <<op, req, answer, out, got, mem>>
  BY FallKeeps DEF TickLow, hostVars
<1>2. /\ Frame' = Frame /\ Ahead' = Ahead /\ Asking' /\ \A i : Reply(i)' = Reply(i)
      /\ Asked' = Asked
  BY <1>1, AskedKept
<1>3. Sent' = Sent /\ Sent \in Nat
  BY <1>1, <1>2, SentType DEF Sent
<1>4. PICK f : f = Frame
  OBVIOUS
<1>5. PICK m \in Nat : m = Sent
  BY <1>3
<1>6. Heard(f, m) /\ Genuine
  BY <1>4, <1>5 DEF Asks
<1>7. Heard(f, m)' /\ Genuine'
  BY <1>1, <1>6, FallKeeps, FallGenuine, HeardKept
<1>8. ASSUME Sent >= Ahead PROVE So' = Reply(Sent - Ahead)
  <2>1. CASE op = "read"
    <3>1. CommandIn(f) = CMD_READ /\ AddressIn(f) = req /\ Ahead = CMD_BITS + ADDR_BITS
      BY <1>4, <2>1, FrameHeard DEF Asked, Ahead
    <3>2. m >= CMD_BITS + ADDR_BITS /\ m - CMD_BITS - ADDR_BITS = Sent - Ahead
      BY <1>5, <1>8, <3>1, AheadType
    <3>3. So' = BitRead(AddressIn(f), m - CMD_BITS - ADDR_BITS)
      BY <1>1, <1>6, <3>1, <3>2, AnswersRead
    <3> QED BY <2>1, <3>1, <3>2, <3>3 DEF Reply
  <2>2. CASE op = "id"
    <3>1. CommandIn(f) = CMD_RDID /\ Ahead = CMD_BITS
      BY <1>4, <2>2, FrameHeard DEF Asked, Ahead
    <3>2. m >= CMD_BITS /\ m - CMD_BITS = Sent - Ahead
      BY <1>5, <1>8, <3>1
    <3>3. So' = IDCODE[ID_BITS - 1 - ((m - CMD_BITS) % ID_BITS)]
      BY <1>1, <1>6, <3>1, <3>2, AnswersId
    <3> QED BY <2>2, <3>2, <3>3 DEF Reply
  <2> QED BY <2>1, <2>2 DEF Asking
<1>9. ToSend'
  BY <1>1, <1>2, <1>3 DEF ToSend
<1>10. got' = got /\ Answered' = Answered
  BY <1>1, <1>2, <1>3 DEF Answered
<1>11. Heard(Frame, Sent)' /\ Genuine'
  BY <1>2, <1>3, <1>4, <1>5, <1>7
<1> QED BY <1>2, <1>3, <1>8, <1>9, <1>10, <1>11 DEF Asks

(* The steps of an exchange.                                                 *)
LEMMA AskSteps ==
  ASSUME BenchOK, [BenchNext]_benchVars, Asking'
  PROVE  \/ StartRead \/ StartId
         \/ (TickHigh \/ TickLow \/ UNCHANGED benchVars) /\ Asking
<1> USE DEF hostVars, loaderVars, Asking
<1>1. EnableWrite \/ EnableQuadMode \/ ReadStatus \/ QuadRead => ~Asking'
  BY OthersOK
<1>2. TickHigh \/ TickLow \/ Pulse \/ UNCHANGED benchVars => op' = op
  BY DEF TickHigh, TickLow, Pulse, benchVars
<1> QED BY <1>1, <1>2
    DEF BenchNext, End, StartReset, StartPulses, Pulse, EndReset, EndPulses, StartBusRead,
        ReadByte, EndBusRead, StartWrite, WriteByte, EndWrite

LEMMA AskNext ==
  ASSUME BenchOK, RInv, ToSend, Asks, [BenchNext]_benchVars PROVE ToSend' /\ Asks'
<1> USE DEF hostVars, loaderVars, Asking
<1>1. CASE StartRead \/ StartId
  BY <1>1, AskStarts
<1>2. CASE TickHigh /\ Asking
  BY <1>2, HighAsks
<1>3. CASE TickLow /\ Asking
  BY <1>3, LowAsks
<1>4. CASE UNCHANGED benchVars /\ Asking
  <2>1. /\ UNCHANGED <<op, out, answer, got, req, mem, fresh, sclk>> /\ So' = So /\ SameBars
    BY <1>4, FsmKept DEF benchVars, vars, pinVars, outVars, histVars, memVars, So
  <2>2. /\ Frame' = Frame /\ Ahead' = Ahead /\ \A i : Reply(i)' = Reply(i)
    BY <2>1, AskedKept
  <2>3. Sent' = Sent
    BY <2>1, <2>2 DEF Sent
  <2>4. Heard(Frame, Sent)'
    <3>1. PICK f, m : f = Frame /\ m = Sent
      OBVIOUS
    <3>2. Heard(f, m)'
      BY <1>4, <2>1, <3>1, HeardKept DEF Asks
    <3> QED BY <2>2, <2>3, <3>1, <3>2
  <2>5. Genuine'
    BY <1>4, <2>1 DEF Genuine, SameBars, Asks
  <2>6. ToSend'
    BY <2>1, <2>2, <2>3 DEF ToSend
  <2>7. Answered' = Answered
    BY <2>2, <2>3 DEF Answered
  <2> QED BY <1>4, <2>1, <2>2, <2>3, <2>4, <2>5, <2>6, <2>7 DEF Asks
<1>5. CASE ~Asking'
  BY <1>5 DEF ToSend, Asks
<1> QED BY <1>1, <1>2, <1>3, <1>4, <1>5, AskSteps

LEMMA AskInvariance == BenchSpec => [](ToSend /\ Asks)
<1>1. BenchInit => ToSend /\ Asks
  BY DEF BenchInit, ToSend, Asks, Asking
<1>2. BenchSpec => []RInv
  BY BenchIsEmulator, RInvariance
<1> QED BY <1>1, <1>2, BenchInvariance, AskNext, PTL DEF BenchSpec

(* In the bench the identification is answered from its first bit, whatever  *)
(* the procedures before it, for commands and words of any length            *)
(* (emu.py:190-238, emu_sim.py:445).                                         *)
THEOREM BenchIdentifies == BenchSpec => []IdReturnsIdcode
<1>1. BenchOK /\ ToSend /\ Asks => IdReturnsIdcode
  <2> SUFFICES ASSUME BenchOK, ToSend, Asks, op = "id", NEW j \in 1 .. Len(got)
               PROVE  got[j] = IDCODE[ID_BITS - j]
    BY DEF IdReturnsIdcode
  <2>1. /\ Len(got) = Answered /\ got[j] = Reply(j - 1) /\ answer = ID_BITS
        /\ Sent \in Nat /\ Sent <= Ahead + answer
    BY SentType DEF Asks, Asking, ToSend
  <2>2. j \in 1 .. ID_BITS
    BY <2>1, AheadType, WidthAssumption DEF Answered
  <2>3. (j - 1) % ID_BITS = j - 1
    <3>1. PICK x \in 0 .. (ID_BITS - 1) : x = j - 1
      BY <2>2, WidthAssumption
    <3>2. ID_BITS \in Nat \ {0} /\ x \in 0 .. ID_BITS /\ x # ID_BITS
      BY <3>1, WidthAssumption
    <3>3. x % ID_BITS = IF x = ID_BITS THEN 0 ELSE x
      BY <3>2, WrapValue
    <3> QED BY <3>1, <3>2, <3>3
  <2>4. ID_BITS - 1 - (j - 1) = ID_BITS - j
    BY <2>2, WidthAssumption
  <2> QED BY <2>1, <2>3, <2>4 DEF Reply
<1> QED BY <1>1, AskInvariance, BenchInvariance, PTL

-----------------------------------------------------------------------------
(* The answers over the bus, and answers that are complete.                  *)

(* The bytes read so far, and where the next one is.                         *)
BusReads ==
  op = "busread" =>
    /\ req \in Word(ADDR_BITS) /\ got \in Seq({0, 1, HiZ}) /\ buf \in Seq(Word(DATA_BITS))
    /\ answer = Len(got) + Len(buf) * DATA_BITS
    /\ \E r \in Nat : /\ Len(got) = r * DATA_BITS
                      /\ ptr = Low(MEM_BITS, Plus(ADDR_BITS, req, r))
    /\ Agrees(req, got)

Done ==
  op = "done" => /\ got \in Seq({0, 1, HiZ}) /\ Len(got) = answer
                 /\ Agrees(req, got)

LEMMA LowInc ==
  ASSUME NEW n \in Nat, NEW m \in 0 .. n, NEW r PROVE Low(m, Inc(n, r)) = Inc(m, Low(m, r))
<1>1. ASSUME NEW i \in 0 .. (m - 1)
      PROVE  Low(m, Inc(n, r))[i] = Inc(m, Low(m, r))[i]
  <2>1. i \in 0 .. (n - 1) /\ \A j \in 0 .. (i - 1) : j \in 0 .. (m - 1)
    OBVIOUS
  <2>2. /\ Low(m, r)[i] = r[i]
        /\ \A j \in 0 .. (i - 1) : Low(m, r)[j] = r[j]
    BY <2>1 DEF Low
  <2>3. Low(m, Inc(n, r))[i] = IF \A j \in 0 .. (i - 1) : r[j] = 1 THEN 1 - r[i] ELSE r[i]
    BY <2>1 DEF Low, Inc
  <2>4. Inc(m, Low(m, r))[i] =
          IF \A j \in 0 .. (i - 1) : Low(m, r)[j] = 1 THEN 1 - Low(m, r)[i] ELSE Low(m, r)[i]
    BY DEF Inc
  <2> QED BY <2>2, <2>3, <2>4
<1>2. /\ Low(m, Inc(n, r)) = [i \in 0 .. (m - 1) |-> Low(m, Inc(n, r))[i]]
      /\ Inc(m, Low(m, r)) = [i \in 0 .. (m - 1) |-> Inc(m, Low(m, r))[i]]
  BY DEF Low, Inc
<1> QED BY <1>1, <1>2

LEMMA BusReadStarts ==
  ASSUME BenchOK, StartBusRead PROVE BusReads'
<1>1. PICK a \in Word(MEM_BITS), n \in ReadSizes :
        /\ buf' = [k \in 1 .. n |-> Zero(DATA_BITS)] /\ ptr' = a
        /\ req' = [i \in 0 .. (ADDR_BITS - 1) |-> IF i < MEM_BITS THEN a[i] ELSE 0]
        /\ got' = << >> /\ answer' = n * DATA_BITS
  BY DEF StartBusRead
<1>2. /\ ADDR_BITS \in Nat /\ MEM_BITS \in 1 .. ADDR_BITS /\ DATA_BITS \in Nat /\ n \in Nat
  BY WidthAssumption, BenchAssumption
<1>3. req' \in Word(ADDR_BITS)
  BY <1>1, <1>2 DEF Word, Bit
<1>4. buf' \in Seq(Word(DATA_BITS)) /\ Len(buf') = n
  BY <1>1, <1>2, ZeroType
<1>5. Low(MEM_BITS, req') = a
  <2>1. ASSUME NEW i \in 0 .. (MEM_BITS - 1) PROVE req'[i] = a[i]
    BY <1>1, <1>2
  <2>2. a = [i \in 0 .. (MEM_BITS - 1) |-> a[i]]
    BY DEF Word
  <2> QED BY <2>1, <2>2 DEF Low
<1>6. Plus(ADDR_BITS, req', 0) = req'
  BY PlusZero
<1>7. Len(got') = 0 /\ 0 = 0 * DATA_BITS /\ got' \in Seq({0, 1, HiZ})
  BY <1>1, <1>2
<1>8. \E r \in Nat : /\ Len(got') = r * DATA_BITS
                     /\ ptr' = Low(MEM_BITS, Plus(ADDR_BITS, req', r))
  <2>1. /\ Len(got') = 0 * DATA_BITS
        /\ ptr' = Low(MEM_BITS, Plus(ADDR_BITS, req', 0))
    BY <1>1, <1>5, <1>6, <1>7
  <2> QED BY <2>1
<1>9. answer' = Len(got') + Len(buf') * DATA_BITS
  BY <1>1, <1>2, <1>4, <1>7
<1>10. Agrees(req, got)'
  BY <1>7 DEF Agrees
<1> QED BY <1>3, <1>4, <1>7, <1>8, <1>9, <1>10 DEF BusReads

(* A byte of the memory continues the bits read before it.                   *)
LEMMA AgreesByte ==
  ASSUME NEW s \in Seq({0, 1, HiZ}), NEW a, NEW r \in Nat,
         Len(s) = r * DATA_BITS, Agrees(a, s), NEW w \in Word(DATA_BITS),
         w = mem[Low(MEM_BITS, Plus(ADDR_BITS, a, r))]
  PROVE  /\ Agrees(a, s \o MsbFirst(DATA_BITS, w))
         /\ s \o MsbFirst(DATA_BITS, w) \in Seq({0, 1, HiZ})
         /\ Len(s \o MsbFirst(DATA_BITS, w)) = (r + 1) * DATA_BITS
<1> DEFINE t == MsbFirst(DATA_BITS, w)
<1>1. DATA_BITS \in Nat \ {0} /\ r * DATA_BITS \in Nat
  BY WidthAssumption
<1>2. t \in Seq({0, 1, HiZ}) /\ Len(t) = DATA_BITS /\ \A k \in 1 .. DATA_BITS : t[k] = w[DATA_BITS - k]
  <2>1. t \in Seq(Bit) /\ Len(t) = DATA_BITS /\ \A k \in 1 .. DATA_BITS : t[k] = w[DATA_BITS - k]
    BY <1>1, MsbFirstType
  <2> HIDE DEF t
  <2> QED BY <2>1 DEF Bit
<1> HIDE DEF t
<1>3. s \o t \in Seq({0, 1, HiZ}) /\ Len(s \o t) = r * DATA_BITS + DATA_BITS
  BY <1>2, Concatenation
<1>4. ASSUME NEW i \in 1 .. Len(s \o t) PROVE (s \o t)[i] = BitRead(a, i - 1)
  <2>1. CASE i \in 1 .. Len(s)
    BY <2>1, Concatenation, <1>2 DEF Agrees
  <2>2. CASE i \notin 1 .. Len(s)
    <3>1. i \in Nat /\ i > Len(s) /\ i <= Len(s) + Len(t) /\ Len(s) \in Nat
      BY <1>1, <1>2, <1>3, <2>2
    <3> DEFINE j == i - Len(s)
    <3>2. (s \o t)[i] = t[j] /\ j \in 1 .. DATA_BITS
      BY <1>2, <3>1, ConcatenationEnd
    <3>3. PICK x, y : x = i - 1 /\ y = j - 1
      OBVIOUS
    <3>4. y \in 0 .. (DATA_BITS - 1) /\ x = r * DATA_BITS + y
      BY <1>1, <3>1, <3>2, <3>3
    <3>5. x \div DATA_BITS = r /\ x % DATA_BITS = y
      BY <1>1, <3>4, Quotient
    <3>6. DATA_BITS - 1 - y = DATA_BITS - j
      BY <1>1, <3>2, <3>3
    <3> HIDE DEF j
    <3> QED BY <1>2, <3>2, <3>3, <3>5, <3>6 DEF BitRead
  <2> QED BY <2>1, <2>2
<1>5. (r + 1) * DATA_BITS = r * DATA_BITS + DATA_BITS
  BY <1>1
<1> QED BY <1>3, <1>4, <1>5 DEF Agrees, t

LEMMA BusReadGoesOn ==
  ASSUME BenchOK, RInv, BusReads, ReadByte PROVE BusReads'
<1>1. /\ op = "busread" /\ op' = op /\ buf # << >> /\ buf' = Tail(buf)
      /\ ptr' = Inc(MEM_BITS, ptr) /\ UNCHANGED <<req, answer, mem>>
      /\ DatR' = mem[ptr] /\ got' = got \o MsbFirst(DATA_BITS, DatR')
  BY DEF ReadByte, LoaderCycle, SysClock, DatR
<1>2. /\ ADDR_BITS \in Nat /\ MEM_BITS \in 1 .. ADDR_BITS /\ MEM_BITS \in 0 .. ADDR_BITS
      /\ DATA_BITS \in Nat
  BY WidthAssumption
<1>3. /\ req \in Word(ADDR_BITS) /\ got \in Seq({0, 1, HiZ}) /\ buf \in Seq(Word(DATA_BITS))
      /\ answer = Len(got) + Len(buf) * DATA_BITS /\ Agrees(req, got)
  BY <1>1 DEF BusReads
<1>4. PICK r \in Nat : /\ Len(got) = r * DATA_BITS
                       /\ ptr = Low(MEM_BITS, Plus(ADDR_BITS, req, r))
  BY <1>1 DEF BusReads
<1>5. PICK w \in Word(DATA_BITS) : w = mem[ptr]
  BY DEF BenchOK, RInv, IInv, TypeOK, MemTypeOK
<1>6. PICK s : s = got
  OBVIOUS
<1>7. PICK a : a = req
  OBVIOUS
<1>8. /\ Agrees(a, s \o MsbFirst(DATA_BITS, w))
      /\ s \o MsbFirst(DATA_BITS, w) \in Seq({0, 1, HiZ})
      /\ Len(s \o MsbFirst(DATA_BITS, w)) = (r + 1) * DATA_BITS
  <2>1. s \in Seq({0, 1, HiZ}) /\ Len(s) = r * DATA_BITS /\ Agrees(a, s)
    BY <1>3, <1>4, <1>6, <1>7
  <2>2. w = mem[Low(MEM_BITS, Plus(ADDR_BITS, a, r))]
    BY <1>4, <1>5, <1>7
  <2> QED BY <1>4, <1>5, <2>1, <2>2, AgreesByte
<1>9. Agrees(a, s \o MsbFirst(DATA_BITS, w))'
  BY <1>1, <1>8, AgreesKept
<1>10. got' = s \o MsbFirst(DATA_BITS, w) /\ req' = a
  BY <1>1, <1>5, <1>6, <1>7
<1>11. Agrees(req, got)'
  BY <1>9, <1>10
<1>12. /\ buf' \in Seq(Word(DATA_BITS)) /\ Len(buf') = Len(buf) - 1 /\ Len(buf) \in Nat
  BY <1>1, <1>3, TailType
<1>13. answer' = Len(got') + Len(buf') * DATA_BITS
  <2>1. (r + 1) * DATA_BITS = r * DATA_BITS + DATA_BITS
    BY <1>2
  <2>2. (Len(buf) - 1) * DATA_BITS = Len(buf) * DATA_BITS - DATA_BITS
    BY <1>2, <1>12
  <2>3. r * DATA_BITS \in Nat /\ Len(buf) * DATA_BITS \in Nat
    BY <1>2, <1>12
  <2> QED BY SMTT(20), <1>1, <1>2, <1>3, <1>4, <1>8, <1>10, <1>12, <2>1, <2>2, <2>3
<1>14. ptr' = Low(MEM_BITS, Plus(ADDR_BITS, req', r + 1))
  BY <1>1, <1>2, <1>4, LowInc, PlusNext
<1>15. \E q \in Nat : /\ Len(got') = q * DATA_BITS
                      /\ ptr' = Low(MEM_BITS, Plus(ADDR_BITS, req', q))
  <2>1. r + 1 \in Nat
    OBVIOUS
  <2> QED BY <1>8, <1>10, <1>14, <2>1
<1> QED BY <1>1, <1>3, <1>8, <1>10, <1>11, <1>12, <1>13, <1>15 DEF BusReads

LEMMA ReadCompletes ==
  ASSUME BenchOK, RInv, ToSend, Asks, BusReads, Done, [BenchNext]_benchVars
  PROVE  BusReads' /\ Done'
<1> USE DEF hostVars, loaderVars
<1>1. CASE StartBusRead
  BY <1>1, BusReadStarts DEF StartBusRead, Done
<1>2. CASE ReadByte
  BY <1>2, BusReadGoesOn DEF ReadByte, Done
<1>3. CASE End
  <2>1. CASE op = "read"
    <3>1. UNCHANGED <<mem, got, answer, req>> /\ op' = "done" /\ out = << >>
      BY <1>3, <2>1 DEF End, SetPins, memVars
    <3>2. PICK n \in Nat : n = Ahead
      BY AheadType
    <3>3. answer \in Nat /\ Sent = n + answer
      BY <2>1, <3>1, <3>2 DEF Sent, ToSend, Asking
    <3>4. Answered = answer
      BY <3>2, <3>3 DEF Answered
    <3>5. got \in Seq({0, 1, HiZ}) /\ Len(got) = answer /\ Agrees(req, got)
      BY <2>1, <3>4 DEF Asks, Asking, Reply, Agrees
    <3>6. PICK s, a : s = got /\ a = req
      OBVIOUS
    <3>7. Agrees(a, s)'
      BY <3>1, <3>5, <3>6, AgreesKept
    <3> QED BY <3>1, <3>5, <3>6, <3>7 DEF Done, BusReads
  <2> QED BY <1>3, <2>1 DEF End, Done, BusReads
<1>4. CASE EndBusRead
  <2>1. UNCHANGED <<mem, got, answer, req>> /\ op' = "done" /\ op = "busread" /\ buf = << >>
    BY <1>4 DEF EndBusRead, LoaderSelect, SetSel
  <2>2. got \in Seq({0, 1, HiZ}) /\ Len(got) = answer /\ Agrees(req, got)
    <3>1. 0 * DATA_BITS = 0
      BY WidthAssumption
    <3> QED BY <2>1, <3>1 DEF BusReads
  <2>3. PICK s, a : s = got /\ a = req
    OBVIOUS
  <2>4. Agrees(a, s)'
    BY <2>1, <2>2, <2>3, AgreesKept
  <2> QED BY <2>1, <2>2, <2>3, <2>4 DEF Done, BusReads
<1>5. CASE UNCHANGED benchVars
  <2>1. UNCHANGED <<op, req, got, buf, answer, ptr, mem>>
    BY <1>5 DEF benchVars, vars, memVars
  <2>2. Agrees(req, got)' = Agrees(req, got)
    BY <2>1 DEF Agrees, BitRead
  <2> QED BY <2>1, <2>2 DEF BusReads, Done
<1>6. CASE op' \notin {"busread", "done"}
  BY <1>6 DEF BusReads, Done
<1>7. op' \in {"busread", "done"} =>
        StartBusRead \/ ReadByte \/ End \/ EndBusRead \/ UNCHANGED benchVars
  <2>1. EnableWrite \/ EnableQuadMode \/ ReadStatus \/ QuadRead \/ StartRead \/ StartId
          => op' \notin {"busread", "done"}
    BY OthersOK, ReadAsked, IdAsked
  <2>2. TickHigh \/ TickLow \/ Pulse \/ WriteByte => op' \notin {"busread", "done"}
    BY DEF TickHigh, TickLow, Pulse, WriteByte, Sending
  <2> QED BY <2>1, <2>2
      DEF BenchNext, StartReset, StartPulses, EndReset, EndPulses, StartWrite, EndWrite
<1> QED BY <1>1, <1>2, <1>3, <1>4, <1>5, <1>6, <1>7

(* In the bench every read, over the SPI pins or over the bus, returns the   *)
(* bytes that are then in the memory, whatever procedures ran before it, for *)
(* words, memories and reads of any size (emu.py:241-262, emu_mem.py:90-97,  *)
(* emu_sim.py:381-402, 454-481).                                             *)
THEOREM BenchReadsMemory == BenchSpec => []ReadReturnsMemory
<1>1. BenchInit => BusReads /\ Done
  BY DEF BenchInit, BusReads, Done
<1>2. BenchSpec => []RInv
  BY BenchIsEmulator, RInvariance
<1>3. BenchSpec => [](BusReads /\ Done)
  BY <1>1, <1>2, BenchInvariance, AskInvariance, ReadCompletes, PTL DEF BenchSpec
<1>4. Done => ReadReturnsMemory
  <2> SUFFICES ASSUME Done, op = "done",
                      NEW k \in 0 .. (Len(got) \div DATA_BITS - 1), NEW j \in 1 .. DATA_BITS
               PROVE  got[k * DATA_BITS + j]
                        = mem[Low(MEM_BITS, Plus(ADDR_BITS, req, k))][DATA_BITS - j]
    BY DEF ReadReturnsMemory, Done
  <2>1. got \in Seq({0, 1, HiZ}) /\ Agrees(req, got) /\ DATA_BITS \in Nat \ {0}
    BY WidthAssumption DEF Done
  <2>2. PICK n \in Nat : n = Len(got)
    BY <2>1
  <2>3. /\ n \div DATA_BITS \in Nat /\ n % DATA_BITS \in 0 .. (DATA_BITS - 1)
        /\ n = DATA_BITS * (n \div DATA_BITS) + (n % DATA_BITS)
    BY <2>1, Division
  <2>4. PICK q \in Nat, t \in 0 .. (DATA_BITS - 1) : q = n \div DATA_BITS /\ n = DATA_BITS * q + t
    BY <2>3
  <2>5. k \in Nat /\ k < q
    BY <2>2, <2>4
  <2>6. DATA_BITS * k + DATA_BITS <= DATA_BITS * q
    BY <2>1, <2>5, Multiple
  <2>7. /\ DATA_BITS * k = k * DATA_BITS /\ k * DATA_BITS \in Nat /\ DATA_BITS * q \in Nat
    BY <2>1, <2>5
  <2>8. k * DATA_BITS + j <= n
    BY <2>1, <2>4, <2>6, <2>7
  <2> QED BY <2>1, <2>2, <2>5, <2>8, BytesRead
<1> QED BY <1>3, <1>4, PTL

-----------------------------------------------------------------------------
(* The real flash beside the emulator.                                       *)

(* Whatever the real flash does, the bench is the bench (emu.py:159-181).    *)
THEOREM MirrorIsBench == MirrorSpec => BenchSpec
<1>1. MirrorInit => BenchInit
  BY DEF MirrorInit
<1>2. [MirrorNext]_mirrorVars => [BenchNext]_benchVars
  BY DEF MirrorNext, WriteEnds, mirrorVars
<1> QED BY <1>1, <1>2, PTL DEF MirrorSpec, BenchSpec

(* The flash takes the bits the emulator takes.                              *)
FlashIdle == received = << >> /\ mode = "none" /\ rso = HiZ /\ ~rsi_oe

Mirrors ==
  /\ received \in Seq(Bit) /\ wip \in Bit
  /\ ~Sending => FlashIdle
  /\ Sending => Heard(received, Len(received))

(* What it makes of the command c.                                           *)
Understood(c) ==
  /\ mode = "id" => c = CMD_RDID
  /\ mode = "read" => c = CMD_READ
  /\ mode = "qread" => c = CMD_QREAD
  /\ c = CMD_RDID => mode \in {"id", "busy"}
  /\ c = CMD_READ => mode \in {"read", "busy"}
  /\ c = CMD_QREAD => mode \in {"qread", "busy", "bad"}

Decoded ==
  /\ Len(received) < CMD_BITS => mode = "none"
  /\ Len(received) >= CMD_BITS => Understood(CommandIn(received))

(* When its pins are silent for certain.                                     *)
Quiet ==
  /\ mode \notin {"id", "read", "status", "qread"} => rso = HiZ
  /\ mode \notin {"id", "status"} /\ Len(received) < CMD_BITS + ADDR_BITS => rso = HiZ
  /\ rsi_oe => mode = "qread" /\ Len(received) >= CMD_BITS + ADDR_BITS

Listening == Mirrors /\ Decoded /\ Quiet

(* What a step of the bench does to it.                                      *)
Selects == ~Sending /\ Sending' /\ SetPins(0, rstn) /\ UNCHANGED flashVars
Deselects == Sending /\ ~Sending' /\ RealDeselect
Passes == ~Sending /\ ~Sending' /\ (RealReset \/ UNCHANGED flashVars)

LEMMA SelectedIsSending == ASSUME BenchOK PROVE RealSelected <=> Sending
BY DEF BenchOK, RealSelected, RealCsn, RealRstn, Sending

SelectedAsSending == BenchOK => (RealSelected <=> Sending)

LEMMA SelectedAlways == SelectedAsSending
BY SelectedIsSending DEF SelectedAsSending

LEMMA FlashSteps ==
  ASSUME BenchOK, BenchNext, RealEdge
  PROVE  \/ Selects
         \/ TickHigh /\ RealRise /\ Sending'
         \/ TickLow /\ RealFall /\ Sending'
         \/ Deselects
         \/ Passes
<1>0. BenchOK'
  BY BenchStepOK
<1>1. (RealSelected <=> Sending) /\ (RealSelected' <=> Sending')
  <2>1. SelectedAsSending'
    BY SelectedAlways, PTL
  <2> QED BY <1>0, <2>1, SelectedIsSending DEF SelectedAsSending
<1>2. CASE StartRead \/ StartId \/ EnableWrite \/ EnableQuadMode \/ ReadStatus \/ QuadRead
  <2>1. SetPins(0, rstn)
    BY <1>2, ReadAsked, IdAsked, OthersOK
  <2>2. ~Sending
    BY <1>2 DEF StartRead, StartId, EnableWrite, EnableQuadMode, ReadStatus, QuadRead, Discard,
                Start, Free, Sending
  <2>3. Sending'
    <3>1. op' \in {"read", "id", "other"}
      BY <1>2, ReadAsked, IdAsked, OthersOK
    <3> QED BY <3>1 DEF Sending
  <2>4. rstn' = rstn /\ rstn = 1
    <3>1. op # "reset"
      BY <1>2 DEF StartRead, StartId, EnableWrite, EnableQuadMode, ReadStatus, QuadRead, Discard,
                  Start, Free
    <3> QED BY <2>1, <3>1 DEF SetPins, BenchOK
  <2>5. UNCHANGED flashVars
    BY <1>1, <2>2, <2>3, <2>4 DEF RealEdge, RealRstn
  <2> QED BY <2>1, <2>2, <2>3, <2>5 DEF Selects
<1>3. CASE TickHigh
  <2>1. Sending /\ Sending' /\ sclk = 0 /\ sclk' = 1
    BY <1>3 DEF TickHigh, Sending, SclkRise
  <2> QED BY <1>1, <1>3, <2>1 DEF RealEdge, RealSclk
<1>4. CASE TickLow
  <2>1. Sending /\ Sending' /\ sclk = 1 /\ sclk' = 0
    BY <1>4 DEF TickLow, hostVars, Sending, SclkFall
  <2> QED BY <1>1, <1>4, <2>1 DEF RealEdge, RealSclk
<1>5. CASE End
  <2>1. Sending /\ ~Sending'
    BY <1>5 DEF End, Sending
  <2> QED BY <1>1, <2>1 DEF RealEdge, Deselects
<1>6. CASE \/ StartReset \/ StartPulses \/ Pulse \/ EndReset \/ EndPulses
           \/ StartBusRead \/ ReadByte \/ EndBusRead \/ StartWrite \/ WriteByte \/ EndWrite
  <2>1. ~Sending /\ ~Sending'
    BY <1>6 DEF StartReset, StartPulses, Pulse, EndReset, EndPulses, StartBusRead, ReadByte,
                EndBusRead, StartWrite, WriteByte, EndWrite, Free, Sending, hostVars
  <2> QED BY <1>1, <2>1 DEF RealEdge, Passes
<1> QED BY <1>2, <1>3, <1>4, <1>5, <1>6 DEF BenchNext

(* The command, once it is in, stays.                                        *)
LEMMA CommandStays ==
  ASSUME NEW s \in Seq(Bit), NEW b \in Bit, Len(s) >= CMD_BITS
  PROVE  CommandIn(Append(s, b)) = CommandIn(s)
<1>1. ASSUME NEW i \in 0 .. (CMD_BITS - 1) PROVE Append(s, b)[CMD_BITS - i] = s[CMD_BITS - i]
  <2>1. CMD_BITS - i \in 1 .. Len(s)
    BY WidthAssumption
  <2> QED BY <2>1
<1> QED BY <1>1 DEF CommandIn, WordOf

LEMMA Understands ==
  ASSUME NEW c, wip \in Bit, mode' = RealDecode(c) PROVE Understood(c)'
<1>1. /\ CMD_READ # CMD_QREAD /\ CMD_READ # CMD_RDID /\ CMD_QREAD # CMD_RDID
      /\ \A x \in {CMD_WREN, CMD_WRSR, CMD_RDSR} : x \notin {CMD_READ, CMD_QREAD, CMD_RDID}
  BY CommandAssumption, BenchAssumption
<1> QED BY <1>1 DEF RealDecode, Understood, Bit

LEMMA HighListens ==
  ASSUME BenchOK, RInv, Listening, TickHigh, RealRise, Sending' PROVE Listening'
<1> DEFINE b == Head(out)
<1>1. SclkRise(b) /\ Sending /\ b \in Bit /\ RealSi = b
  <2>1. out # << >> /\ out \in Seq(Bit) /\ Sending /\ SclkRise(b)
    BY DEF TickHigh, BenchOK
  <2> QED BY <2>1, TailType DEF RealSi, EmuDrivesSi, Esi
<1>2. /\ received' = Append(received, b) /\ UNCHANGED <<rso, rsi_oe, wip>>
      /\ mode' = IF Len(received') = CMD_BITS THEN RealDecode(WordOf(CMD_BITS, received'))
                 ELSE mode
  BY <1>1 DEF RealRise
<1> HIDE DEF b
<1>3. /\ received \in Seq(Bit) /\ received' \in Seq(Bit) /\ Len(received') = Len(received) + 1
      /\ Len(received) \in Nat /\ received'[Len(received) + 1] = b
      /\ \A k \in 1 .. Len(received) : received'[k] = received[k]
  BY <1>1, <1>2 DEF Listening, Mirrors
<1>4. CMD_BITS \in Nat /\ ADDR_BITS \in Nat /\ CMD_BITS > 1
  BY WidthAssumption
<1>5. Heard(received, Len(received))'
  <2>1. PICK f, g : f = received' /\ g = received
    OBVIOUS
  <2>2. PICK m \in Nat : m = Len(received)
    BY <1>3
  <2>3. Heard(g, m)
    BY <1>1, <2>1, <2>2 DEF Listening, Mirrors
  <2>4. Heard(f, m) /\ f[m + 1] = b
    BY <1>3, <2>1, <2>2, <2>3, HeardSame
  <2>5. Heard(f, m + 1)'
    BY <1>1, <2>2, <2>4, HeardRise
  <2> QED BY <1>3, <2>1, <2>2, <2>5
<1>6. Mirrors'
  BY <1>2, <1>3, <1>5 DEF Listening, Mirrors
<1>7. CASE Len(received') < CMD_BITS
  <2>1. mode' = mode /\ mode = "none"
    BY <1>2, <1>3, <1>4, <1>7 DEF Listening, Decoded
  <2> QED BY <1>2, <1>3, <1>4, <1>6, <1>7, <2>1 DEF Listening, Decoded, Quiet
<1>8. CASE Len(received') = CMD_BITS
  <2>1. Understood(CommandIn(received))'
    <3>1. PICK c : c = CommandIn(received)'
      OBVIOUS
    <3>2. mode' = RealDecode(c) /\ wip \in Bit
      BY <1>2, <1>8, <3>1 DEF CommandIn, Listening, Mirrors
    <3>3. Understood(c)'
      BY <3>2, Understands
    <3> QED BY <3>1, <3>3
  <2>2. mode = "none" /\ rso' = HiZ /\ ~rsi_oe'
    BY <1>2, <1>3, <1>4, <1>8 DEF Listening, Decoded, Quiet
  <2>3. ~(Len(received') < CMD_BITS)
    BY <1>4, <1>8
  <2> QED BY <1>6, <2>1, <2>2, <2>3 DEF Listening, Decoded, Quiet
<1>9. CASE Len(received') > CMD_BITS
  <2>1. mode' = mode /\ CommandIn(received') = CommandIn(received) /\ Len(received) >= CMD_BITS
    BY <1>1, <1>2, <1>3, <1>4, <1>9, CommandStays
  <2>2. Understood(CommandIn(received))'
    <3>1. PICK c : c = CommandIn(received)
      OBVIOUS
    <3>2. CommandIn(received)' = c
      BY <2>1, <3>1 DEF CommandIn
    <3>3. Understood(c)'
      BY <2>1, <3>1 DEF Listening, Decoded, Understood
    <3> QED BY <3>2, <3>3
  <2>3. ~(Len(received') < CMD_BITS)
    BY <1>3, <1>4, <1>9
  <2>4. Quiet'
    BY <1>2, <1>3, <1>4, <2>1 DEF Listening, Quiet
  <2> QED BY <1>6, <2>2, <2>3, <2>4 DEF Listening, Decoded
<1> QED BY <1>3, <1>4, <1>7, <1>8, <1>9

LEMMA LowListens ==
  ASSUME BenchOK, RInv, Listening, TickLow, RealFall, Sending' PROVE Listening'
<1>1. SclkFall /\ Sending /\ UNCHANGED <<received, mode, wip>>
  BY DEF TickLow, RealFall
<1>2. Heard(received, Len(received))'
  <2>1. PICK f, m : f = received /\ m = Len(received)
    OBVIOUS
  <2>2. Heard(f, m)
    BY <1>1, <2>1 DEF Listening, Mirrors
  <2>3. Heard(f, m)'
    BY <1>1, <2>2, FallKeeps, HeardKept
  <2> QED BY <1>1, <2>1, <2>3
<1>3. Mirrors'
  BY <1>1, <1>2 DEF Listening, Mirrors
<1>4. Decoded'
  BY <1>1 DEF Listening, Decoded, Understood
<1>5. Quiet'
  <2>1. PICK n \in Nat : n = Len(received)
    BY DEF Listening, Mirrors
  <2>2. CMD_BITS \in Nat /\ ADDR_BITS \in Nat /\ DUMMY_CLOCKS \in Nat
    BY WidthAssumption, FlashAssumption
  <2>3. rsi_oe' = (mode = "qread" /\ n - CMD_BITS - ADDR_BITS >= DUMMY_CLOCKS)
    BY <2>1 DEF RealFall
  <2>4. rsi_oe' => mode' = "qread" /\ Len(received') >= CMD_BITS + ADDR_BITS
    <3>1. n - CMD_BITS - ADDR_BITS >= DUMMY_CLOCKS => n >= CMD_BITS + ADDR_BITS
      BY <2>2
    <3> QED BY <1>1, <2>1, <2>3, <3>1
  <2>5. mode \notin {"id", "status"} /\ (mode \notin {"read", "qread"} \/ n < CMD_BITS + ADDR_BITS)
          => rso' = rso
    <3>1. n < CMD_BITS + ADDR_BITS => /\ ~(n - CMD_BITS - ADDR_BITS >= 0)
                                      /\ ~(n - CMD_BITS - ADDR_BITS >= DUMMY_CLOCKS)
      BY <2>2
    <3> QED BY <2>1, <3>1 DEF RealFall
  <2> QED BY <1>1, <2>1, <2>4, <2>5 DEF Listening, Quiet
<1> QED BY <1>3, <1>4, <1>5 DEF Listening

LEMMA FlashListens ==
  ASSUME BenchOK, RInv, Listening, [MirrorNext]_mirrorVars PROVE Listening'
<1>0. CMD_BITS \in Nat /\ ADDR_BITS \in Nat /\ CMD_BITS > 1
  BY WidthAssumption
<1>1. ASSUME BenchNext, RealEdge PROVE Listening'
  <2>1. CASE Selects
    <3>1. /\ UNCHANGED flashVars /\ FlashIdle /\ ~Sending /\ Sending' /\ SetPins(0, rstn)
      BY <2>1 DEF Selects, Listening, Mirrors
    <3>2. Deselected /\ ~Deselected'
      <4>1. BenchOK'
        BY <1>1, BenchStepOK
      <4> QED BY <3>1, <4>1 DEF BenchOK, Deselected, Sending, SetPins
    <3>3. (\A f : Heard(f, 0))'
      BY <3>1, <3>2, SelectHears
    <3>4. received' = << >> /\ Len(received') = 0 /\ 0 < CMD_BITS
      BY <1>0, <3>1 DEF FlashIdle, flashVars
    <3>5. Mirrors'
      BY <3>1, <3>3, <3>4 DEF Listening, Mirrors, flashVars
    <3>6. Decoded' /\ Quiet'
      BY <1>0, <3>1, <3>4 DEF FlashIdle, flashVars, Decoded, Quiet
    <3> QED BY <3>5, <3>6 DEF Listening
  <2>2. CASE TickHigh /\ RealRise /\ Sending'
    BY <2>2, HighListens
  <2>3. CASE TickLow /\ RealFall /\ Sending'
    BY <2>3, LowListens
  <2>4. CASE Deselects
    <3>1. FlashIdle' /\ ~Sending' /\ wip' \in Bit
      BY <2>4 DEF Deselects, RealDeselect, FlashIdle, Listening, Mirrors, Bit
    <3> QED BY <1>0, <3>1 DEF FlashIdle, Listening, Mirrors, Decoded, Quiet
  <2>5. CASE Passes
    <3>1. FlashIdle' /\ ~Sending' /\ wip' \in Bit
      BY <2>5 DEF Passes, RealReset, flashVars, FlashIdle, Listening, Mirrors, Bit
    <3> QED BY <1>0, <3>1 DEF FlashIdle, Listening, Mirrors, Decoded, Quiet
  <2> QED BY <1>1, <2>1, <2>2, <2>3, <2>4, <2>5, FlashSteps
<1>2. CASE WriteEnds \/ UNCHANGED mirrorVars
  <2>1. UNCHANGED <<received, mode, rso, rsi_oe, op>> /\ wip' \in Bit /\ UNCHANGED vars
    BY <1>2 DEF WriteEnds, mirrorVars, flashVars, benchVars, hostVars, Listening, Mirrors, Bit
  <2>2. Heard(received, Len(received)) => Heard(received, Len(received))'
    <3>1. SameBars
      BY <2>1, FsmKept DEF vars, pinVars, histVars
    <3>2. PICK f, m : f = received /\ m = Len(received)
      OBVIOUS
    <3> QED BY <2>1, <3>1, <3>2, HeardKept
  <2> QED BY <2>1, <2>2 DEF Listening, Mirrors, Decoded, Quiet, Understood, FlashIdle, Sending
<1> QED BY <1>1, <1>2 DEF MirrorNext

LEMMA ListeningAlways == MirrorSpec => []Listening
<1>1. MirrorInit => Listening
  BY WidthAssumption
     DEF MirrorInit, BenchInit, Listening, Mirrors, Decoded, Quiet, FlashIdle, Sending, Bit
<1>2. MirrorSpec => [](BenchOK /\ RInv)
  BY MirrorIsBench, BenchInvariance, BenchIsEmulator, RInvariance, PTL
<1> QED BY <1>1, <1>2, FlashListens, PTL DEF MirrorSpec

(* The emulator and the flash drive si against each other in a quad read     *)
(* only, and then the emulator's own state says so, for every number of      *)
(* dummy clocks and whatever the flash's status (emu.py:183-188).            *)
THEOREM FightsAreQuadReads == MirrorSpec => []FightsOnlyInQuadReads
<1>1. RInv /\ Listening => FightsOnlyInQuadReads
  <2> SUFFICES ASSUME RInv, Listening, rsi_oe
               PROVE  ~Deselected /\ rst = 0 /\ state = "read_get_data" /\ qmode = 1
    BY DEF FightsOnlyInQuadReads
  <2>1. mode = "qread" /\ Len(received) >= CMD_BITS + ADDR_BITS
    BY DEF Listening, Quiet
  <2>2. /\ Len(received) \in Nat /\ CMD_BITS \in Nat /\ ADDR_BITS \in Nat
    BY WidthAssumption DEF Listening, Mirrors
  <2>3. Len(received) >= CMD_BITS
    BY <2>1, <2>2
  <2>4. CommandIn(received) = CMD_QREAD /\ Sending
    BY <2>1, <2>3 DEF Listening, Decoded, Understood, Mirrors, FlashIdle
  <2>5. PhaseBar = "data" /\ QuadBar = 1
    BY <2>1, <2>3, <2>4 DEF Listening, Mirrors, Heard, IsRead
  <2>6. rst \in Bit
    BY DEF RInv, IInv, TypeOK
  <2> QED BY <2>5, <2>6 DEF PhaseBar, Receiving, QuadBar, Bit
<1>2. MirrorSpec => []RInv
  BY MirrorIsBench, BenchIsEmulator, RInvariance
<1> QED BY <1>1, <1>2, ListeningAlways, PTL

(* The address and the bits the flash answers from.                          *)
LEMMA AddressTaken ==
  ASSUME Listening, Len(received) >= CMD_BITS + ADDR_BITS
  PROVE  /\ Field(CMD_BITS + 1, ADDR_BITS) = AddressIn(received)
         /\ AddressIn(received) \in Word(ADDR_BITS)
<1>1. received \in Seq(Bit) /\ CMD_BITS \in Nat /\ ADDR_BITS \in Nat
  BY WidthAssumption DEF Listening, Mirrors
<1>2. PICK s \in Seq(Bit) : s = received
  BY <1>1
<1>3. Len(s) \in Nat /\ Len(s) >= CMD_BITS + ADDR_BITS
  BY <1>2
<1>4. SubSeq(s, CMD_BITS + 1, CMD_BITS + 1 + ADDR_BITS - 1)
        = [k \in 1 .. ADDR_BITS |-> s[CMD_BITS + k]]
  <2>1. /\ CMD_BITS + 1 \in 1 .. (Len(s) + 1) /\ CMD_BITS + ADDR_BITS \in 0 .. Len(s)
        /\ CMD_BITS + 1 + ADDR_BITS - 1 = CMD_BITS + ADDR_BITS
    BY <1>1, <1>3
  <2>2. SubSeq(s, CMD_BITS + 1, CMD_BITS + ADDR_BITS)
          = [k \in 1 .. ADDR_BITS |-> s[CMD_BITS + k]]
    BY <1>1, <1>2, <1>3, <2>1
  <2> QED BY <2>1, <2>2
<1>5. ASSUME NEW i \in 0 .. (ADDR_BITS - 1)
      PROVE  /\ ADDR_BITS - i \in 1 .. ADDR_BITS
             /\ CMD_BITS + (ADDR_BITS - i) = CMD_BITS + ADDR_BITS - i
             /\ s[CMD_BITS + ADDR_BITS - i] \in Bit
  BY <1>1, <1>3
<1>6. Field(CMD_BITS + 1, ADDR_BITS) = AddressIn(s)
  BY <1>2, <1>4, <1>5 DEF Field, WordOf, AddressIn
<1>7. AddressIn(s) \in Word(ADDR_BITS)
  BY <1>5 DEF AddressIn, Word
<1> QED BY <1>2, <1>6, <1>7

LEMMA BytePlace ==
  ASSUME NEW a \in Word(ADDR_BITS), NEW i \in Nat
  PROVE  /\ Plus(ADDR_BITS, a, i \div DATA_BITS) \in Word(ADDR_BITS)
         /\ DATA_BITS - 1 - (i % DATA_BITS) \in 0 .. (DATA_BITS - 1)
<1>1. DATA_BITS \in Nat \ {0} /\ ADDR_BITS \in Nat
  BY WidthAssumption
<1>2. PICK q \in Nat, r \in 0 .. (DATA_BITS - 1) : q = i \div DATA_BITS /\ r = i % DATA_BITS
  BY <1>1, Division
<1>3. DATA_BITS - 1 - r \in 0 .. (DATA_BITS - 1)
  BY <1>1, <1>2
<1> QED BY <1>1, <1>2, <1>3, PlusType

LEMMA FlashDrives ==
  /\ \A n \in Nat : IdBit(n) \in Bit
  /\ \A n \in Nat : Listening /\ Len(received) >= CMD_BITS + ADDR_BITS => ArrayBit(n) \in Bit
<1>1. ID_BITS \in Nat \ {0} /\ IDCODE \in Word(ID_BITS) /\ DATA_BITS \in Nat
  BY WidthAssumption, CommandAssumption
<1>2. ASSUME NEW n \in Nat PROVE IdBit(n) \in Bit
  <2>1. PICK r \in 0 .. (ID_BITS - 1) : r = n % ID_BITS
    BY <1>1, WrapType
  <2>2. ID_BITS - 1 - r \in 0 .. (ID_BITS - 1)
    BY <1>1, <2>1
  <2>3. IDCODE[ID_BITS - 1 - r] \in Bit
    BY <1>1, <2>2 DEF Word
  <2> QED BY <2>1, <2>3 DEF IdBit
<1>3. ASSUME NEW n \in Nat, Listening, Len(received) >= CMD_BITS + ADDR_BITS
      PROVE  ArrayBit(n) \in Bit
  <2>1. PICK a \in Word(ADDR_BITS) : a = Field(CMD_BITS + 1, ADDR_BITS)
    BY <1>3, AddressTaken
  <2>2. PICK p \in Word(ADDR_BITS) : p = Plus(ADDR_BITS, a, n \div DATA_BITS)
    BY <2>1, BytePlace
  <2>3. PICK j \in 0 .. (DATA_BITS - 1) : j = DATA_BITS - 1 - (n % DATA_BITS)
    BY <2>1, BytePlace
  <2>4. FlashArray[p] \in Word(DATA_BITS)
    BY <2>2, FlashAssumption
  <2>5. FlashArray[p][j] \in Bit
    BY <2>3, <2>4 DEF Word
  <2>6. ArrayBit(n) = FlashArray[p][j]
    BY <2>1, <2>2, <2>3 DEF ArrayBit
  <2> QED BY <2>5, <2>6
<1> QED BY <1>2, <1>3

(* An emulator that is not selected, or has no command yet, is silent.       *)
LEMMA FloatsDeselected ==
  ASSUME RInv, Deselected PROVE So = HiZ
BY DEF RInv, IInv, ResetHeld, So

LEMMA DrivesCommand ==
  ASSUME BenchOK, RInv, Listening, So # HiZ
  PROVE  /\ Len(received) >= CMD_BITS /\ Sending
         /\ rst = 0 /\ state \in {"rdid", "read_get_data"}
<1>1. rst = 0 /\ state \in {"rdid", "read_get_data"}
  BY DEF RInv, IInv, Driving, So, TypeOK, Bit
<1>2. Sending /\ ~Deselected
  BY FloatsDeselected DEF BenchOK, Deselected, Sending
<1>3. PhaseBar \in {"id", "data"}
  BY <1>1, <1>2 DEF PhaseBar, Receiving
<1>4. Len(received) \in Nat /\ CMD_BITS \in Nat
  BY WidthAssumption DEF Listening, Mirrors
<1> QED BY <1>1, <1>2, <1>3, <1>4 DEF Listening, Mirrors, Heard

LEMMA HighDrives ==
  ASSUME BenchOK, RInv, Listening, DrivesWhereFlashDoes, TickHigh, RealRise
  PROVE  DrivesWhereFlashDoes'
<1> SUFFICES ASSUME So' # HiZ
             PROVE  rso' \in Bit \/ mode' = "busy" \/ (qmode' = 1 /\ mode' \in {"qread", "bad"})
  BY DEF DrivesWhereFlashDoes
<1>1. SclkRise(Head(out)) /\ So' = So
  BY RiseKeeps DEF TickHigh
<1>2. Len(received) >= CMD_BITS /\ rst = 0 /\ state \in {"rdid", "read_get_data"}
  BY <1>1, DrivesCommand
<1>3. qmode' = qmode
  BY <1>1, <1>2 DEF SclkRise, GetCmd, Rdid, ReadGetAddr, ReadGetData, BadCmdErr
<1>4. mode' = mode /\ rso' = rso
  <2>1. PICK x : x = RealSi
    OBVIOUS
  <2>2. Len(received') = Len(received) + 1 /\ Len(received) \in Nat /\ CMD_BITS \in Nat
    <3>1. received' = Append(received, x) /\ received \in Seq(Bit)
      BY <2>1 DEF RealRise, Listening, Mirrors
    <3> QED BY <3>1, WidthAssumption
  <2> QED BY <1>2, <2>2 DEF RealRise
<1> QED BY <1>1, <1>3, <1>4 DEF DrivesWhereFlashDoes

LEMMA LowDrives ==
  ASSUME BenchOK, RInv, Listening, TickLow, RealFall PROVE DrivesWhereFlashDoes'
<1> SUFFICES ASSUME So' # HiZ
             PROVE  rso' \in Bit \/ mode' = "busy" \/ (qmode' = 1 /\ mode' \in {"qread", "bad"})
  BY DEF DrivesWhereFlashDoes
<1>1. SclkFall /\ Sending /\ mode' = mode /\ qmode' = qmode
  BY DEF TickLow, SclkFall, fsmVars, RealFall
<1>2. PICK f : f = received
  OBVIOUS
<1>3. PICK m \in Nat : m = Len(received)
  BY DEF Listening, Mirrors
<1>4. Heard(f, m)
  BY <1>1, <1>2, <1>3 DEF Listening, Mirrors
<1>5. ~Matters(f, m) /\ (CommandIn(f) = CMD_RDID \/ IsRead(f))
  BY <1>1, <1>4, Silent
<1>6. CMD_BITS \in Nat /\ ADDR_BITS \in Nat
  BY WidthAssumption
<1>7. m >= CMD_BITS /\ Understood(CommandIn(f))
  BY <1>2, <1>3, <1>5, <1>6 DEF Matters, Listening, Decoded
<1>8. CASE CommandIn(f) = CMD_RDID
  <2>1. mode \in {"id", "busy"} /\ m - CMD_BITS \in Nat
    BY <1>6, <1>7, <1>8 DEF Understood
  <2>2. mode = "id" => rso' = IdBit(m - CMD_BITS)
    BY <1>3 DEF RealFall
  <2> QED BY <1>1, <2>1, <2>2, FlashDrives
<1>9. CASE IsRead(f)
  <2>1. m >= CMD_BITS + ADDR_BITS /\ m - CMD_BITS - ADDR_BITS \in Nat
    BY <1>5, <1>6, <1>9 DEF Matters
  <2>2. CASE CommandIn(f) = CMD_READ
    <3>1. mode \in {"read", "busy"}
      BY <1>7, <2>2 DEF Understood
    <3>2. mode = "read" => rso' = ArrayBit(m - CMD_BITS - ADDR_BITS)
      BY <1>3, <2>1 DEF RealFall
    <3> QED BY <1>1, <1>3, <2>1, <3>1, <3>2, FlashDrives
  <2>3. CASE CommandIn(f) = CMD_QREAD
    <3>1. QuadBar = 1
      BY <1>4, <1>7, <1>9, <2>3 DEF Heard
    <3>2. mode \in {"qread", "busy", "bad"}
      BY <1>7, <2>3 DEF Understood
    <3> QED BY <1>1, <3>1, <3>2 DEF QuadBar
  <2> QED BY <1>9, <2>2, <2>3 DEF IsRead
<1> QED BY <1>5, <1>8, <1>9

LEMMA DrivesNext ==
  ASSUME BenchOK, RInv, RInv', Listening, DrivesWhereFlashDoes, [MirrorNext]_mirrorVars
  PROVE  DrivesWhereFlashDoes'
<1>1. CASE BenchNext /\ RealEdge
  <2>1. BenchOK'
    BY <1>1, BenchStepOK
  <2>2. CASE Selects
    <3>1. Deselected /\ ~Deselected' /\ SetPins(0, rstn)
      BY <2>1, <2>2 DEF Selects, BenchOK, Deselected, Sending, SetPins
    <3> QED BY <3>1, SelectHears DEF DrivesWhereFlashDoes
  <2>3. CASE Deselects \/ Passes
    <3>1. Deselected'
      BY <2>1, <2>3 DEF Deselects, Passes, BenchOK, Deselected, Sending
    <3>2. So' = HiZ
      BY <3>1 DEF RInv, IInv, ResetHeld, So
    <3> QED BY <3>2 DEF DrivesWhereFlashDoes
  <2> QED BY <1>1, <2>2, <2>3, FlashSteps, HighDrives, LowDrives
<1>2. CASE WriteEnds \/ UNCHANGED mirrorVars
  <2>1. UNCHANGED <<rso, mode, qmode>> /\ So' = So
    BY <1>2 DEF WriteEnds, mirrorVars, flashVars, benchVars, vars, fsmVars, outVars, So
  <2> QED BY <2>1 DEF DrivesWhereFlashDoes
<1> QED BY <1>1, <1>2 DEF MirrorNext

(* The emulator is silent wherever the flash it stands for is, and where it  *)
(* shows its status, but for a flash that is busy and for quad reads,        *)
(* whatever the flash holds, for commands and words of any length            *)
(* (emu.py:170-181, 218-228).                                                *)
THEOREM SilentLikeTheFlash == MirrorSpec => []DrivesWhereFlashDoes
<1>1. MirrorInit => DrivesWhereFlashDoes
  BY DEF MirrorInit, BenchInit, Init, DrivesWhereFlashDoes, So
<1>2. MirrorSpec => [](BenchOK /\ RInv)
  BY MirrorIsBench, BenchInvariance, BenchIsEmulator, RInvariance, PTL
<1> QED BY <1>1, <1>2, ListeningAlways, DrivesNext, PTL DEF MirrorSpec

(* What the host sends is what the flash has taken.                          *)
Matches == Asking => /\ Len(received) = Sent
                     /\ \A k \in 1 .. Len(received) : received[k] = Frame[k]

LEMMA ExchangeSteps ==
  ASSUME BenchOK, [MirrorNext]_mirrorVars, Asking'
  PROVE  \/ (StartRead \/ StartId) /\ Selects
         \/ TickHigh /\ RealRise /\ Asking
         \/ TickLow /\ RealFall /\ Asking
         \/ UNCHANGED <<benchVars, received, mode, rso>> /\ Asking
<1>1. CASE BenchNext /\ RealEdge
  <2>1. CASE StartRead \/ StartId
    <3>1. ~Sending
      BY <2>1 DEF StartRead, StartId, Start, Free, Sending
    <3> QED BY <1>1, <2>1, <3>1, FlashSteps DEF TickHigh, TickLow, Deselects, Passes, Sending, Asking
  <2>2. CASE TickHigh /\ Asking
    <3>1. Sending /\ Sending' /\ sclk = 0
      BY <2>2 DEF TickHigh, SclkRise, Sending
    <3> QED BY <1>1, <2>2, <3>1, FlashSteps DEF Selects, Deselects, Passes, TickLow, SclkFall
  <2>3. CASE TickLow /\ Asking
    <3>1. Sending /\ Sending' /\ sclk = 1
      BY <2>3 DEF TickLow, SclkFall, Sending, hostVars
    <3> QED BY <1>1, <2>3, <3>1, FlashSteps DEF Selects, Deselects, Passes, TickHigh, SclkRise
  <2>4. CASE UNCHANGED benchVars /\ Asking
    <3>1. Sending /\ Sending' /\ sclk' = sclk
      BY <2>4 DEF Asking, Sending, benchVars, hostVars, vars, pinVars
    <3> QED BY <1>1, <3>1, FlashSteps
            DEF Selects, Deselects, Passes, TickHigh, SclkRise, TickLow, SclkFall
  <2> QED BY <1>1, <2>1, <2>2, <2>3, <2>4, AskSteps
<1>2. CASE WriteEnds \/ UNCHANGED mirrorVars
  <2>1. UNCHANGED <<benchVars, received, mode, rso>>
    BY <1>2 DEF WriteEnds, mirrorVars, flashVars
  <2> QED BY <2>1 DEF benchVars, hostVars, Asking
<1> QED BY <1>1, <1>2 DEF MirrorNext

LEMMA MatchesNext ==
  ASSUME BenchOK, ToSend, Listening, Matches, [MirrorNext]_mirrorVars PROVE Matches'
<1> SUFFICES ASSUME Asking' PROVE Matches'
  BY DEF Matches
<1>1. CASE (StartRead \/ StartId) /\ Selects
  <2>1. Sent' = 0
    BY <1>1, ReadAsked, IdAsked
  <2>2. received' = << >>
    BY <1>1 DEF Selects, flashVars, Listening, Mirrors, FlashIdle
  <2> QED BY <2>1, <2>2 DEF Matches
<1>2. CASE TickHigh /\ RealRise /\ Asking
  <2>1. Sent' = Sent + 1 /\ Head(out) = Frame[Sent + 1] /\ Frame' = Frame
    BY <1>2, HighSends
  <2>2. PICK s : s = received
    OBVIOUS
  <2>3. PICK b \in Bit : b = Head(out)
    BY <1>2, TailType DEF TickHigh, BenchOK
  <2>4. received' = Append(s, b) /\ s \in Seq(Bit) /\ Len(s) = Sent
    BY <1>2, <2>2, <2>3
       DEF RealRise, RealSi, EmuDrivesSi, Esi, TickHigh, Listening, Mirrors, Matches
  <2>5. /\ Len(received') = Len(s) + 1 /\ Len(s) \in Nat /\ received'[Len(s) + 1] = b
        /\ \A k \in 1 .. Len(s) : received'[k] = s[k]
    BY <2>3, <2>4
  <2>6. \A k \in 1 .. Len(s) : s[k] = Frame[k]
    BY <1>2, <2>2 DEF Matches
  <2>7. ASSUME NEW k \in 1 .. Len(received') PROVE received'[k] = Frame'[k]
    <3>1. CASE k = Len(s) + 1
      BY <2>1, <2>3, <2>4, <2>5, <3>1
    <3>2. CASE k \in 1 .. Len(s)
      BY <2>1, <2>5, <2>6, <3>2
    <3> QED BY <2>5, <3>1, <3>2
  <2> QED BY <2>1, <2>4, <2>5, <2>7 DEF Matches
<1>3. CASE TickLow /\ RealFall /\ Asking
  <2>1. UNCHANGED <<received, op, req, out, answer, mem>>
    BY <1>3, FallKeeps DEF TickLow, SclkFall, RealFall, hostVars, memVars
  <2>2. Frame' = Frame /\ Ahead' = Ahead
    BY <2>1, AskedKept
  <2> QED BY <1>3, <2>1, <2>2 DEF Matches, Sent
<1>4. CASE UNCHANGED <<benchVars, received, mode, rso>> /\ Asking
  <2>1. UNCHANGED <<received, op, req, out, answer, mem>>
    BY <1>4 DEF benchVars, hostVars, vars, memVars
  <2>2. Frame' = Frame /\ Ahead' = Ahead
    BY <2>1, AskedKept
  <2> QED BY <1>4, <2>1, <2>2 DEF Matches, Sent
<1> QED BY <1>1, <1>2, <1>3, <1>4, ExchangeSteps

(* So it has the command and the address.                                    *)
LEMMA FlashAsked ==
  ASSUME ToSend, Listening, Matches, Asking
  PROVE  /\ Len(received) >= CMD_BITS => CommandIn(received) = Asked
         /\ op = "read" /\ Len(received) >= CMD_BITS + ADDR_BITS => AddressIn(received) = req
<1>0. /\ Len(received) \in Nat /\ CMD_BITS \in Nat /\ ADDR_BITS \in Nat
      /\ \A k \in 1 .. Len(received) : received[k] = Frame[k]
  BY WidthAssumption DEF Listening, Mirrors, Matches
<1>1. ASSUME Len(received) >= CMD_BITS PROVE CommandIn(received) = CommandIn(Frame)
  <2>1. ASSUME NEW i \in 0 .. (CMD_BITS - 1) PROVE received[CMD_BITS - i] = Frame[CMD_BITS - i]
    BY <1>0, <1>1
  <2> QED BY <2>1 DEF CommandIn, WordOf
<1>2. ASSUME Len(received) >= CMD_BITS + ADDR_BITS
      PROVE  AddressIn(received) = AddressIn(Frame)
  <2>1. ASSUME NEW i \in 0 .. (ADDR_BITS - 1)
        PROVE  received[CMD_BITS + ADDR_BITS - i] = Frame[CMD_BITS + ADDR_BITS - i]
    BY <1>0, <1>2
  <2> QED BY <2>1 DEF AddressIn
<1> QED BY <1>1, <1>2, FrameHeard

LEMMA LowAlike ==
  ASSUME BenchOK, RInv, ToSend, Asks', Listening, Matches, Matches', Asking,
         TickLow, RealFall, SameContents, mode # "busy"
  PROVE  So' = rso'
<1> DEFINE m == Len(received)
<1>1. /\ SclkFall /\ sclk' = 0 /\ UNCHANGED <<op, req, out, answer, mem, received, mode>>
  BY FallKeeps DEF TickLow, SclkFall, RealFall, hostVars
<1>2. Ahead' = Ahead /\ Asking' /\ Sent' = Sent /\ \A i : Reply(i)' = Reply(i)
  <2>1. Ahead' = Ahead /\ Asking' /\ \A i : Reply(i)' = Reply(i)
    BY <1>1, AskedKept
  <2> QED BY <1>1, <2>1 DEF Sent
<1>3. m \in Nat /\ m = Sent /\ CMD_BITS \in Nat /\ ADDR_BITS \in Nat /\ Heard(received, m)
  BY WidthAssumption DEF Listening, Mirrors, Matches, Asking, Sending
<1>4. /\ m < CMD_BITS => mode = "none"
      /\ m >= CMD_BITS => CommandIn(received) = Asked /\ mode = (IF op = "read" THEN "read" ELSE "id")
  <2>1. ASSUME m >= CMD_BITS PROVE CommandIn(received) = Asked /\ Understood(Asked)
    <3>1. CommandIn(received) = Asked
      BY <2>1, FlashAsked
    <3> QED BY <2>1, <3>1 DEF Listening, Decoded
  <2> QED BY <2>1 DEF Listening, Decoded, Understood, Asked, Asking
<1>5. m >= Ahead => So' = Reply(m - Ahead)
  BY <1>1, <1>2, <1>3 DEF Asks
<1> HIDE DEF m
<1>6. CASE m < Ahead
  <2>1. So' = HiZ
    <3>1. PICK f : f = received
      OBVIOUS
    <3>2. Matters(f, m)
      BY <1>3, <1>4, <1>6, <3>1 DEF Matters, IsRead, Asked, Ahead, Asking
    <3> QED BY <1>1, <1>3, <3>1, <3>2, Silent
  <2>2. mode = "none" \/ (mode = "read" /\ m < CMD_BITS + ADDR_BITS)
    BY <1>3, <1>4, <1>6 DEF Ahead, Asking
  <2>3. rso = HiZ
    BY <2>2 DEF Listening, Quiet, m
  <2>4. rso' = rso
    <3>1. m < CMD_BITS + ADDR_BITS => ~(m - CMD_BITS - ADDR_BITS >= 0)
      BY <1>3
    <3> QED BY <2>2, <3>1 DEF RealFall, m
  <2> QED BY <2>1, <2>3, <2>4
<1>7. CASE m >= Ahead /\ op = "id"
  <2>1. Ahead = CMD_BITS /\ mode = "id"
    BY <1>3, <1>4, <1>7, AheadType DEF Ahead
  <2>2. rso' = IdBit(m - CMD_BITS)
    BY <2>1 DEF RealFall, m
  <2> QED BY <1>5, <1>7, <2>1, <2>2 DEF Reply, IdBit
<1>8. CASE m >= Ahead /\ op = "read"
  <2>1. Ahead = CMD_BITS + ADDR_BITS /\ m >= CMD_BITS /\ mode = "read"
    BY <1>3, <1>4, <1>8 DEF Ahead
  <2>2. PICK k \in Nat : k = m - CMD_BITS - ADDR_BITS /\ k = m - Ahead
    BY <1>3, <1>8, <2>1
  <2>3. rso' = ArrayBit(k)
    BY <2>1, <2>2 DEF RealFall, m
  <2>4. Field(CMD_BITS + 1, ADDR_BITS) = req /\ req \in Word(ADDR_BITS)
    BY <1>8, <2>1, AddressTaken, FlashAsked DEF m, ToSend, Asking
  <2>5. ArrayBit(k) = BitRead(req, k)
    <3>1. PICK a \in Word(ADDR_BITS) : a = req
      BY <2>4
    <3>2. Plus(ADDR_BITS, a, k \div DATA_BITS) \in Word(ADDR_BITS)
      BY <2>2, <3>1, BytePlace
    <3> QED BY <2>4, <3>1, <3>2 DEF ArrayBit, BitRead, SameContents
  <2> QED BY <1>5, <1>8, <2>2, <2>3, <2>5 DEF Reply
<1> QED BY <1>3, <1>6, <1>7, <1>8, AheadType DEF Asking

LEMMA AlikeNext ==
  ASSUME BenchOK, RInv, ToSend, Asks', Listening, Matches, Matches', AnswersAlike,
         [MirrorNext]_mirrorVars
  PROVE  AnswersAlike'
<1> SUFFICES ASSUME Asking', SameContents' PROVE So' = rso' \/ mode' = "busy"
  BY DEF AnswersAlike, Asking
<1>1. CASE (StartRead \/ StartId) /\ Selects
  <2>1. BenchOK' /\ SetPins(0, rstn) /\ ~Sending /\ Sending'
    BY <1>1, ReadAsked, IdAsked DEF Selects
  <2>2. Deselected /\ ~Deselected'
    BY <2>1 DEF BenchOK, Deselected, Sending, SetPins
  <2>3. So' = HiZ
    BY <2>1, <2>2, SelectHears
  <2>4. rso' = HiZ
    BY <1>1, <2>1 DEF Selects, flashVars, Listening, Mirrors, FlashIdle
  <2> QED BY <2>3, <2>4
<1>2. CASE TickHigh /\ RealRise /\ Asking
  <2>1. So' = So /\ mem' = mem /\ rso' = rso
    BY <1>2, RiseKeeps DEF TickHigh, RealRise
  <2>2. So = rso \/ mode = "busy"
    BY <1>2, <2>1 DEF SameContents, AnswersAlike, Asking
  <2>3. mode = "busy" => mode' = mode
    <3>1. PICK x : x = RealSi
      OBVIOUS
    <3>2. Len(received') = Len(received) + 1 /\ Len(received) \in Nat /\ CMD_BITS \in Nat
      <4>1. received' = Append(received, x) /\ received \in Seq(Bit)
        BY <1>2, <3>1 DEF RealRise, Listening, Mirrors
      <4> QED BY <4>1, WidthAssumption
    <3>3. Len(received') = CMD_BITS => mode = "none"
      BY <3>2 DEF Listening, Decoded
    <3> QED BY <1>2, <3>3 DEF RealRise
  <2> QED BY <2>1, <2>2, <2>3
<1>3. CASE TickLow /\ RealFall /\ Asking
  <2>1. mem' = mem /\ mode' = mode
    BY <1>3, FallKeeps DEF TickLow, RealFall
  <2>2. SameContents
    BY <2>1 DEF SameContents
  <2> QED BY <1>3, <2>1, <2>2, LowAlike
<1>4. CASE UNCHANGED <<benchVars, received, mode, rso>> /\ Asking
  <2>1. mem' = mem /\ mode' = mode /\ rso' = rso /\ So' = So
    BY <1>4 DEF benchVars, vars, memVars, outVars, So
  <2> QED BY <1>4, <2>1 DEF SameContents, AnswersAlike, Asking
<1> QED BY <1>1, <1>2, <1>3, <1>4, ExchangeSteps

(* The emulator answers a read or an identification as the flash beside it   *)
(* does, level by level, whenever the two hold the same and the flash is not *)
(* busy: through every procedure before it and for words and memories of any *)
(* size (emu.py:159-181, 190-262).                                           *)
THEOREM AnswersLikeTheFlash == MirrorSpec => []AnswersAlike
<1>1. MirrorInit => Matches /\ AnswersAlike
  BY DEF MirrorInit, BenchInit, Matches, Asking, AnswersAlike
<1>2. MirrorSpec => [](BenchOK /\ RInv /\ ToSend /\ Asks)
  BY MirrorIsBench, BenchInvariance, BenchIsEmulator, RInvariance, AskInvariance, PTL
<1>3. MirrorSpec => []Matches
  BY <1>1, <1>2, ListeningAlways, MatchesNext, PTL DEF MirrorSpec
<1> QED BY <1>1, <1>2, <1>3, ListeningAlways, AlikeNext, PTL DEF MirrorSpec
=============================================================================
