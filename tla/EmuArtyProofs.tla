--------------------------- MODULE EmuArtyProofs ---------------------------
(* On the board FlashEmu is still FlashEmu, resets and loads at any moment   *)
(* included, and a host that asks for the identification is answered.        *)
EXTENDS EmuArty, FlashEmuProofs

-----------------------------------------------------------------------------
(* The host and the board.  The reset line is the SoC's reset, the chip      *)
(* select is low in exchanges only.                                          *)
HostOK ==
  /\ op \in {"idle", "done", "id", "read"}
  /\ sys_rst \in Bit /\ rstn = 1 - sys_rst
  /\ csn = (IF Exchanging THEN 0 ELSE 1)
  /\ frame \in Seq(Bit) /\ sent \in 0 .. Len(frame)

(* The frame is the command c, then zeros or its last bit to the end.        *)
FrameIs(c, level) ==
  /\ \A k \in 1 .. CMD_BITS : frame[k] = c[CMD_BITS - k]
  /\ \A k \in (CMD_BITS + 1) .. Len(frame) : frame[k] = level

(* The frame of an exchange is what it sends and clocks for the answer.      *)
LEMMA FrameOf ==
  ASSUME NEW name \in {"id", "read"}, NEW bits \in Seq(Bit), bits # << >>, NEW n \in Nat,
         HostOK, Exchange(name, bits, n)
  PROVE  /\ HostOK' /\ op' = name /\ sent' = 0 /\ Len(frame') = Len(bits) + n
         /\ \A k \in 1 .. Len(bits) : frame'[k] = bits[k]
         /\ \E level \in {0, bits[Len(bits)]} :
              \A k \in (Len(bits) + 1) .. Len(frame') : frame'[k] = level
<1>1. PICK level \in {0, bits[Len(bits)]} : frame' = bits \o Repeat(n, level)
  BY DEF Exchange
<1>2. level \in Bit
  BY <1>1 DEF Bit
<1>3. /\ Repeat(n, level) \in Seq(Bit) /\ Len(Repeat(n, level)) = n
      /\ \A k \in 1 .. n : Repeat(n, level)[k] = level
  BY <1>2, RepeatType
<1>4. /\ frame' \in Seq(Bit) /\ Len(frame') = Len(bits) + n
      /\ \A k \in 1 .. Len(bits) : frame'[k] = bits[k]
  BY <1>1, <1>3, Concatenation
<1>6. ASSUME NEW k \in (Len(bits) + 1) .. Len(frame') PROVE frame'[k] = level
  <2>1. k \in Nat /\ k > Len(bits) /\ k <= Len(bits) + Len(Repeat(n, level))
    BY <1>3, <1>4
  <2>2. frame'[k] = Repeat(n, level)[k - Len(bits)] /\ k - Len(bits) \in 1 .. n
    BY <1>1, <1>3, <2>1, ConcatenationEnd
  <2> QED BY <1>3, <2>2
<1>5. op' = name /\ sent' = 0 /\ csn' = 0 /\ rstn' = rstn /\ sys_rst' = sys_rst
  BY DEF Exchange, SetPins, socVars
<1> QED BY <1>4, <1>5, <1>6 DEF HostOK, Exchanging

LEMMA ReadIdFrame ==
  ASSUME HostOK, ReadId
  PROVE  /\ HostOK' /\ op' = "id" /\ sent' = 0
         /\ Len(frame') = CMD_BITS + ID_BITS /\ answer' = ID_BITS /\ got' = << >>
         /\ \A k \in 1 .. CMD_BITS : frame'[k] = CMD_RDID[CMD_BITS - k]
         /\ FrameIs(CMD_RDID, 0)' \/ FrameIs(CMD_RDID, CMD_RDID[0])'
<1>1. /\ MsbFirst(CMD_BITS, CMD_RDID) \in Seq(Bit) /\ Len(MsbFirst(CMD_BITS, CMD_RDID)) = CMD_BITS
      /\ \A k \in 1 .. CMD_BITS : MsbFirst(CMD_BITS, CMD_RDID)[k] = CMD_RDID[CMD_BITS - k]
  BY WidthAssumption, CommandAssumption, MsbFirstType
<1>2. MsbFirst(CMD_BITS, CMD_RDID) # << >> /\ ID_BITS \in Nat
  BY <1>1, WidthAssumption
<1>3. Exchange("id", MsbFirst(CMD_BITS, CMD_RDID), ID_BITS)
  BY DEF ReadId
<1>4. answer' = ID_BITS /\ got' = << >>
  BY <1>3 DEF Exchange
<1>5. /\ HostOK' /\ op' = "id" /\ sent' = 0 /\ Len(frame') = CMD_BITS + ID_BITS
      /\ \A k \in 1 .. CMD_BITS : frame'[k] = CMD_RDID[CMD_BITS - k]
  BY <1>1, <1>2, <1>3, FrameOf
<1>6. PICK level \in {0, CMD_RDID[0]} :
        \A k \in (CMD_BITS + 1) .. Len(frame') : frame'[k] = level
  <2>1. MsbFirst(CMD_BITS, CMD_RDID)[CMD_BITS] = CMD_RDID[0]
    BY <1>1, WidthAssumption
  <2>2. \E level \in {0, MsbFirst(CMD_BITS, CMD_RDID)[CMD_BITS]} :
          \A k \in (CMD_BITS + 1) .. Len(frame') : frame'[k] = level
    <3> DEFINE bits == MsbFirst(CMD_BITS, CMD_RDID)
    <3> HIDE DEF bits
    <3>1. bits \in Seq(Bit) /\ Len(bits) = CMD_BITS /\ bits # << >> /\ Exchange("id", bits, ID_BITS)
      BY <1>1, <1>2, <1>3 DEF bits
    <3>2. \E level \in {0, bits[Len(bits)]} :
            \A k \in (Len(bits) + 1) .. Len(frame') : frame'[k] = level
      BY <1>2, <3>1, FrameOf
    <3> QED BY <3>1, <3>2 DEF bits
  <2> QED BY <2>1, <2>2
<1>7. FrameIs(CMD_RDID, level)'
  BY <1>5, <1>6 DEF FrameIs
<1> QED BY <1>4, <1>5, <1>6, <1>7

LEMMA ReadFrame ==
  ASSUME HostOK, ReadFirstBytes
  PROVE  /\ HostOK' /\ op' = "read" /\ sent' = 0 /\ got' = << >>
         /\ answer' = READ_BYTES * DATA_BITS /\ answer' \in Nat
         /\ Len(frame') = CMD_BITS + ADDR_BITS + answer'
         /\ FrameIs(CMD_READ, 0)'
<1> DEFINE command == MsbFirst(CMD_BITS, CMD_READ)
           zeros == Repeat(ADDR_BITS, 0)
           bits == command \o zeros
<1>1. /\ command \in Seq(Bit) /\ Len(command) = CMD_BITS
      /\ \A k \in 1 .. CMD_BITS : command[k] = CMD_READ[CMD_BITS - k]
  BY WidthAssumption, CommandAssumption, MsbFirstType
<1>2. /\ zeros \in Seq(Bit) /\ Len(zeros) = ADDR_BITS
      /\ \A k \in 1 .. ADDR_BITS : zeros[k] = 0
  BY WidthAssumption, RepeatType DEF Bit
<1>0. /\ CMD_BITS \in Nat \ {0} /\ ADDR_BITS \in Nat \ {0}
      /\ READ_BYTES * DATA_BITS \in Nat
  BY WidthAssumption, ReadBytesAssumption
<1> HIDE DEF command, zeros
<1>3. /\ bits \in Seq(Bit) /\ Len(bits) = CMD_BITS + ADDR_BITS
      /\ \A k \in 1 .. CMD_BITS : bits[k] = CMD_READ[CMD_BITS - k]
      /\ \A k \in (CMD_BITS + 1) .. (CMD_BITS + ADDR_BITS) : bits[k] = 0
  <2>1. /\ bits \in Seq(Bit) /\ Len(bits) = CMD_BITS + ADDR_BITS
        /\ \A k \in 1 .. CMD_BITS : bits[k] = command[k]
    BY <1>1, <1>2, Concatenation
  <2>2. ASSUME NEW k \in (CMD_BITS + 1) .. (CMD_BITS + ADDR_BITS) PROVE bits[k] = 0
    <3>1. k \in Nat /\ k > Len(command) /\ k <= Len(command) + Len(zeros)
      BY <1>0, <1>1, <1>2
    <3>2. bits[k] = zeros[k - CMD_BITS] /\ k - CMD_BITS \in 1 .. ADDR_BITS
      BY <1>1, <1>2, <3>1, ConcatenationEnd
    <3> QED BY <1>2, <3>2
  <2> QED BY <1>1, <2>1, <2>2
<1>4. Exchange("read", bits, READ_BYTES * DATA_BITS)
  BY DEF ReadFirstBytes, command, zeros
<1> HIDE DEF bits
<1>5. bits # << >> /\ bits[Len(bits)] = 0
  BY <1>0, <1>3
<1>6. /\ HostOK' /\ op' = "read" /\ sent' = 0
      /\ Len(frame') = CMD_BITS + ADDR_BITS + READ_BYTES * DATA_BITS
      /\ \A k \in 1 .. (CMD_BITS + ADDR_BITS) : frame'[k] = bits[k]
      /\ \A k \in (CMD_BITS + ADDR_BITS + 1) .. Len(frame') : frame'[k] = 0
  BY <1>0, <1>3, <1>4, <1>5, FrameOf
<1>7. answer' = READ_BYTES * DATA_BITS /\ got' = << >>
  BY <1>4 DEF Exchange
<1>8. FrameIs(CMD_READ, 0)'
  <2>1. \A k \in 1 .. CMD_BITS : frame'[k] = CMD_READ[CMD_BITS - k]
    BY <1>0, <1>3, <1>6
  <2>2. \A k \in (CMD_BITS + 1) .. Len(frame') : frame'[k] = 0
    BY <1>0, <1>3, <1>6
  <2> QED BY <2>1, <2>2 DEF FrameIs
<1> QED BY <1>0, <1>6, <1>7, <1>8

LEMMA HostNext == ASSUME HostOK, [ArtyNext]_artyVars PROVE HostOK'
<1> USE DEF hostVars, socVars, archVars
<1>1. CASE ReadId
  BY <1>1, ReadIdFrame
<1>2. CASE ReadFirstBytes
  BY <1>2, ReadFrame
<1>3. CASE High
  BY <1>3 DEF High, SclkRise, HostOK, Exchanging
<1>4. CASE LowClk
  BY <1>4 DEF LowClk, SclkFall, HostOK, Exchanging
<1>5. CASE End
  BY <1>5 DEF End, SetPins, HostOK, Exchanging
<1>6. CASE SysReset
  BY <1>6 DEF SysReset, SetPins, HostOK, Exchanging, Bit
<1>7. CASE SysClockUnderReset
  BY <1>7 DEF SysClockUnderReset, LoaderSelect, vars, pinVars, HostOK, Exchanging
<1>8. CASE SysRelease
  BY <1>8 DEF SysRelease, SetPins, HostOK, Exchanging, Bit
<1>9. CASE BusSelect \/ BusCycle
  BY <1>9 DEF BusSelect, BusCycle, LoaderSelect, LoaderCycle, pinVars, HostOK, Exchanging
<1>10. CASE UNCHANGED artyVars
  BY <1>10 DEF artyVars, vars, pinVars, HostOK, Exchanging
<1> QED BY <1>1, <1>2, <1>3, <1>4, <1>5, <1>6, <1>7, <1>8, <1>9, <1>10 DEF ArtyNext

(* Each step of the board is one of the emulator's, or none.                 *)
LEMMA StepIsEmulators == ASSUME HostOK, [ArtyNext]_artyVars PROVE [Next]_vars
<1> USE DEF Next
<1>1. CASE ReadId \/ ReadFirstBytes \/ End
  BY <1>1 DEF ReadId, ReadFirstBytes, Exchange, End, SetCsn, Bit
<1>2. CASE SysReset \/ SysRelease
  BY <1>2 DEF SysReset, SysRelease, SetRstn, Bit
<1>3. CASE High
  <2>1. frame[sent + 1] \in Bit
    BY <1>3 DEF High, HostOK
  <2> QED BY <1>3, <2>1 DEF High, Rise
<1>4. CASE LowClk
  BY <1>4 DEF LowClk
<1>5. CASE SysClockUnderReset
  BY <1>5 DEF SysClockUnderReset, SelReset, Loader, Bit
<1>6. CASE BusSelect \/ BusCycle
  BY <1>6 DEF BusSelect, BusCycle, Loader
<1>7. CASE UNCHANGED artyVars
  BY <1>7 DEF artyVars
<1> QED BY <1>1, <1>2, <1>3, <1>4, <1>5, <1>6, <1>7 DEF ArtyNext

LEMMA HostInvariance == ArtySpec => []HostOK
<1>1. ArtyInit => HostOK
  BY DEF ArtyInit, Init, HostOK, Exchanging, Bit
<1> QED BY <1>1, HostNext, PTL DEF ArtySpec

(* On the Arty board, where a reset of the SoC may fall between any two      *)
(* edges of the host's clock and any master of the bus may take the memory,  *)
(* the emulator does nothing it does not do for some host and loader: what   *)
(* holds of FlashEmu holds of the board (emu_arty.py:41-51).                 *)
THEOREM BoardIsEmulator == ArtySpec => Spec
<1>1. ArtyInit => Init
  BY DEF ArtyInit
<1> QED BY <1>1, HostInvariance, StepIsEmulators, PTL DEF ArtySpec, Spec

(* And so the board is a serial flash too, whatever cuts its transactions    *)
(* (emu.py:97-181, emu_arty.py:41-51).                                       *)
THEOREM BoardIsSerialFlash == ArtySpec => ImplementsSerialFlash
BY BoardIsEmulator, Refinement

-----------------------------------------------------------------------------
(* The identification, bit by bit, for as long as no reset cuts it.          *)

(* What the host sends first is the command.                                 *)
IdFrame ==
  op = "id" => /\ Len(frame) = CMD_BITS + ID_BITS /\ answer = ID_BITS
               /\ \A k \in 1 .. CMD_BITS : frame[k] = CMD_RDID[CMD_BITS - k]

(* Where the FSM is after so many bits.                                      *)
Follows ==
  op = "id" /\ ~cut =>
    /\ rst = IF sent = 0 THEN 1 ELSE 0
    /\ sent > 0 => rstn = 1
    /\ sent \in 1 .. (CMD_BITS - 1) =>
         /\ state = "get_cmd" /\ cmd_bit_cnt = sent
         /\ \A i \in 0 .. (sent - 1) : cmd[i] = CMD_RDID[CMD_BITS - sent + i]
    /\ sent >= CMD_BITS => state = "rdid"
    /\ sent >= CMD_BITS /\ sent < CMD_BITS + ID_BITS => nout = sent - CMD_BITS

(* What the falling edges have put on the pin.                               *)
Shows ==
  op = "id" /\ ~cut =>
    /\ sent > 1 \/ (sent = 1 /\ sclk = 0) => rst_inv = 0
    /\ sent >= CMD_BITS /\ sclk = 0 =>
         eso_oe_delayed = 1 /\ eso_delayed = idcode[ID_BITS - 1]

(* What the host has sampled.                                                *)
Sampled ==
  op = "id" /\ ~cut =>
    /\ got \in Seq({0, 1, HiZ})
    /\ Len(got) = IF sent > CMD_BITS THEN sent - CMD_BITS ELSE 0

IdInv == IdFrame /\ Follows /\ Shows /\ Sampled /\ IdReturnsIdcode

(* The last command bit completes the command.                               *)
LEMMA CommandComplete ==
  ASSUME HostOK, IdFrame, Follows, op = "id", ~cut, sent = CMD_BITS - 1
  PROVE  ShiftIn(CMD_BITS, frame[sent + 1], cmd) = CMD_RDID
<1>1. CMD_BITS \in Nat /\ sent \in 1 .. (CMD_BITS - 1) /\ CMD_RDID \in Word(CMD_BITS)
  BY WidthAssumption, CommandAssumption
<1>2. ASSUME NEW i \in 0 .. (CMD_BITS - 1)
      PROVE  (IF i = 0 THEN frame[sent + 1] ELSE cmd[i - 1]) = CMD_RDID[i]
  <2>1. CASE i = 0
    BY <1>1, <2>1 DEF IdFrame
  <2>2. CASE i # 0
    <3>1. i - 1 \in 0 .. (sent - 1) /\ CMD_BITS - sent + (i - 1) = i
      BY <1>1, <2>2
    <3> QED BY <1>1, <2>2, <3>1 DEF Follows
  <2> QED BY <2>1, <2>2
<1>3. ShiftIn(CMD_BITS, frame[sent + 1], cmd) = [i \in 0 .. (CMD_BITS - 1) |-> CMD_RDID[i]]
  BY <1>2 DEF ShiftIn
<1>4. CMD_RDID = [i \in 0 .. (CMD_BITS - 1) |-> CMD_RDID[i]]
  BY <1>1 DEF Word
<1> QED BY <1>3, <1>4

(* A rising edge takes the FSM on by a bit.                                  *)
LEMMA HighFollows ==
  ASSUME HostOK, RInv, IdFrame, Follows, op = "id", High PROVE Follows'
<1> SUFFICES ASSUME ~cut' PROVE Follows'
  BY DEF Follows
<1> DEFINE b == frame[sent + 1]
<1>1. /\ ~cut /\ sys_rst = 0 /\ sent' = sent + 1 /\ op' = "id"
      /\ SclkRise(b) /\ sent < CMD_BITS + ID_BITS
  BY DEF High, HostOK, Bit, IdFrame
<1>2. rstn = 1 /\ csn = 0 /\ rst' = 0 /\ rstn' = 1
  BY <1>1 DEF HostOK, Exchanging, SclkRise, Released, Deselected
<1>3. CMD_BITS \in Nat /\ CMD_BITS > 1 /\ ID_BITS \in Nat \ {0} /\ sent \in Nat
  BY WidthAssumption DEF HostOK
<1>4. CASE sent = 0
  <2>1. SpiReset(b)
    BY <1>1, <1>4 DEF SclkRise, Follows
  <2>2. state' = "get_cmd" /\ cmd_bit_cnt' = 1 /\ cmd'[0] = CMD_RDID[CMD_BITS - 1]
    BY <1>3, <1>4, <2>1 DEF SpiReset, BitCntReset, IdFrame
  <2> QED BY <1>1, <1>2, <1>3, <1>4, <2>2 DEF Follows
<1>5. CASE sent \in 1 .. (CMD_BITS - 1)
  <2>1. GetCmd(b) /\ nout = 0 /\ nout' = nout
    BY <1>1, <1>5 DEF SclkRise, Follows, Rdid, ReadGetAddr, ReadGetData, BadCmdErr, RInv, Unused,
                      GetCmd
  <2>2. CASE sent = CMD_BITS - 1
    <3>1. state' = Decode(CMD_RDID)
      BY <1>1, <2>1, <2>2, <1>5, CommandComplete DEF GetCmd, Follows
    <3>2. Decode(CMD_RDID) = "rdid"
      BY CommandAssumption DEF Decode
    <3> QED BY <1>1, <1>2, <1>3, <2>1, <2>2, <3>1, <3>2 DEF Follows
  <2>3. CASE sent # CMD_BITS - 1
    <3>1. state' = "get_cmd"
      BY <1>1, <1>3, <1>5, <2>1, <2>3 DEF GetCmd, Follows
    <3>2. cmd_bit_cnt' = sent + 1
      <4>1. sent + 1 \in 0 .. CMD_BITS /\ sent + 1 # CMD_BITS
        BY <1>3, <1>5, <2>3
      <4>2. (sent + 1) % CMD_BITS = sent + 1
        <5>1. CMD_BITS \in Nat \ {0}
          BY <1>3
        <5>2. (sent + 1) % CMD_BITS = IF sent + 1 = CMD_BITS THEN 0 ELSE sent + 1
          BY <4>1, <5>1, WrapValue
        <5> QED BY <4>1, <5>2
      <4> QED BY <1>1, <1>5, <2>1, <4>2 DEF GetCmd, Follows
    <3>3. ASSUME NEW i \in 0 .. sent PROVE cmd'[i] = CMD_RDID[CMD_BITS - (sent + 1) + i]
      <4>1. cmd'[i] = IF i = 0 THEN b ELSE cmd[i - 1]
        BY <1>3, <1>5, <2>1 DEF GetCmd, ShiftIn
      <4>2. CASE i = 0
        <5>1. sent + 1 \in 1 .. CMD_BITS /\ CMD_BITS - (sent + 1) + 0 = CMD_BITS - (sent + 1)
          BY <1>3, <1>5
        <5>2. frame[sent + 1] = CMD_RDID[CMD_BITS - (sent + 1)]
          BY <5>1 DEF IdFrame
        <5> QED BY <4>1, <4>2, <5>1, <5>2
      <4>3. CASE i # 0
        <5>1. i - 1 \in 0 .. (sent - 1) /\ CMD_BITS - sent + (i - 1) = CMD_BITS - (sent + 1) + i
          BY <1>3, <4>3
        <5> QED BY <1>1, <1>5, <4>1, <4>3, <5>1 DEF Follows
      <4> QED BY <4>2, <4>3
    <3> QED BY <1>1, <1>2, <1>3, <1>5, <2>3, <3>1, <3>2, <3>3 DEF Follows
  <2> QED BY <2>2, <2>3
<1>6. CASE sent >= CMD_BITS
  <2>1. Rdid /\ nout = sent - CMD_BITS
    BY <1>1, <1>3, <1>6 DEF SclkRise, Follows, GetCmd, ReadGetAddr, ReadGetData, BadCmdErr
  <2>2. sent + 1 < CMD_BITS + ID_BITS => nout' = nout + 1
    <3>1. nout + 1 \in 0 .. ID_BITS /\ nout' = (nout + 1) % ID_BITS
      BY <1>1, <1>3, <1>6, <2>1 DEF Rdid
    <3>2. (nout + 1) % ID_BITS = IF nout + 1 = ID_BITS THEN 0 ELSE nout + 1
      BY <1>3, <3>1, WrapValue
    <3> QED BY <1>3, <2>1, <3>1, <3>2
  <2> QED BY <1>1, <1>2, <1>3, <1>6, <2>1, <2>2 DEF Follows, Rdid
<1> QED BY <1>3, <1>4, <1>5, <1>6

(* It leaves the output registers alone, and the host samples them first.    *)
LEMMA HighSamples ==
  ASSUME HostOK, RInv, IdInv, op = "id", High PROVE Shows' /\ Sampled' /\ IdReturnsIdcode'
<1> SUFFICES ASSUME ~cut' PROVE Shows' /\ Sampled' /\ IdReturnsIdcode'
  BY DEF Shows, Sampled, IdReturnsIdcode
<1>1. /\ ~cut /\ sent' = sent + 1 /\ op' = "id" /\ sclk = 0 /\ sclk' = 1
      /\ rst_inv' = rst_inv /\ sent < CMD_BITS + ID_BITS /\ answer = ID_BITS
  BY DEF High, SclkRise, IdInv, IdFrame
<1>2. CMD_BITS \in Nat /\ CMD_BITS > 1 /\ ID_BITS \in Nat \ {0} /\ sent \in Nat
  BY WidthAssumption DEF HostOK
<1>3. Shows'
  BY <1>1, <1>2 DEF Shows, IdInv
<1>4. CASE sent < CMD_BITS
  <2>1. got' = got
    BY <1>1, <1>2, <1>4 DEF High, IdInv, IdFrame
  <2> QED BY <1>1, <1>2, <1>3, <1>4, <2>1 DEF IdInv, Sampled, IdReturnsIdcode
<1>5. CASE sent >= CMD_BITS
  <2>1. got' = Append(got, So) /\ got \in Seq({0, 1, HiZ}) /\ Len(got) = sent - CMD_BITS
    BY <1>1, <1>2, <1>5 DEF High, IdInv, IdFrame, Sampled
  <2>2. So = idcode[ID_BITS - 1]
    BY <1>1, <1>2, <1>5 DEF IdInv, Shows, So
  <2>3. idcode[ID_BITS - 1] = IDCODE[ID_BITS - (Len(got) + 1)]
    <3>1. rst = 0 /\ nout = Len(got) /\ ID_BITS - 1 >= nout
      BY <1>1, <1>2, <1>5, <2>1 DEF IdInv, Follows
    <3>2. idcode[ID_BITS - 1] = IDCODE[ID_BITS - 1 - nout]
      BY <1>2, <3>1 DEF RInv, Turned
    <3> QED BY <1>2, <3>1, <3>2
  <2>4. So \in {0, 1, HiZ}
    BY DEF RInv, IInv, TypeOK, So, Bit
  <2>5. Sampled'
    BY <1>1, <1>2, <1>5, <2>1, <2>4 DEF Sampled
  <2>6. \A j \in 1 .. Len(got') : got'[j] = IDCODE[ID_BITS - j]
    BY <1>1, <2>1, <2>2, <2>3, <2>4 DEF IdInv, IdReturnsIdcode
  <2> QED BY <1>3, <2>5, <2>6 DEF IdReturnsIdcode
<1> QED BY <1>2, <1>3, <1>4, <1>5

LEMMA LowShows ==
  ASSUME HostOK, RInv, IdInv, op = "id", LowClk PROVE IdInv'
<1>1. /\ UNCHANGED <<op, frame, sent, answer, got, cut, csn, rstn, rst, fsmVars, nout>>
      /\ sclk = 1 /\ sclk' = 0 /\ rst_inv' = Released
      /\ eso_delayed' = IF rst_inv = 1 THEN 0 ELSE Eso
      /\ eso_oe_delayed' = IF rst_inv = 1 THEN 0 ELSE EsoOe
  BY DEF LowClk, SclkFall, hostVars, archVars, histVars
<1>2. IdFrame' /\ Follows' /\ Sampled' /\ IdReturnsIdcode'
  BY <1>1 DEF IdInv, IdFrame, Follows, Sampled, IdReturnsIdcode, fsmVars
<1>3. ASSUME ~cut, sent > 0 PROVE rst_inv' = 0
  BY <1>1, <1>3 DEF IdInv, Follows, HostOK, Exchanging, Released, Deselected
<1>4. ASSUME ~cut, sent >= CMD_BITS
      PROVE  eso_oe_delayed' = 1 /\ eso_delayed' = idcode'[ID_BITS - 1]
  <2>1. sent > 1
    BY <1>4, WidthAssumption DEF HostOK
  <2>2. rst_inv = 0
    BY <1>4, <2>1 DEF IdInv, Shows
  <2>3. state = "rdid"
    BY <1>4 DEF IdInv, Follows
  <2> QED BY <1>1, <2>2, <2>3 DEF Eso, EsoOe, fsmVars
<1>5. Shows'
  BY <1>1, <1>3, <1>4, WidthAssumption DEF Shows, HostOK
<1> QED BY <1>2, <1>5 DEF IdInv

(* The exchange starts with the emulator under reset.                        *)
LEMMA ReadIdStarts == ASSUME HostOK, RInv, ReadId PROVE IdInv'
<1>1. op \in {"idle", "done"} /\ csn = 1 /\ csn' = 0 /\ cut' = FALSE
  BY DEF ReadId, Exchange, SetPins, HostOK, Exchanging
<1>2. rst = 1 /\ rst_inv = 1
  BY <1>1 DEF RInv, IInv, ResetHeld, Deselected
<1>3. rst' = 1
  BY <1>2 DEF ReadId, Exchange, SetPins
<1>4. IdFrame' /\ sent' = 0 /\ got' = << >>
  BY ReadIdFrame DEF IdFrame
<1> QED BY <1>3, <1>4, WidthAssumption DEF IdInv, Follows, Shows, Sampled, IdReturnsIdcode

LEMMA IdNext == ASSUME HostOK, RInv, IdInv, [ArtyNext]_artyVars PROVE IdInv'
<1> USE DEF hostVars, socVars, archVars, histVars, outVars
<1>1. CASE ReadId
  BY <1>1, ReadIdStarts
<1>2. CASE op' # "id"
  BY <1>2 DEF IdInv, IdFrame, Follows, Shows, Sampled, IdReturnsIdcode
<1>3. CASE op = "id" /\ High
  <2>1. IdFrame'
    BY <1>3 DEF High, IdInv, IdFrame
  <2> QED BY <1>3, <2>1, HighFollows, HighSamples DEF IdInv
<1>4. CASE op = "id" /\ LowClk
  BY <1>4, LowShows
<1>5. CASE op = "id" /\ SysReset
  <2>1. UNCHANGED <<op, frame, sent, answer, got, sclk, fsmVars, nout>> /\ rst' = 1
    BY <1>5 DEF SysReset, SetPins
  <2>2. cut' = (cut \/ sent > 0)
    BY <1>5 DEF SysReset, Exchanging
  <2>3. ~cut' => ~cut /\ sent = 0
    <3>1. ~cut' => ~cut /\ ~(sent > 0)
      BY <2>2, Zenon
    <3>2. ~(sent > 0) => sent = 0
      BY DEF HostOK
    <3> QED BY <3>1, <3>2
  <2>4. IdFrame'
    BY <2>1 DEF IdInv, IdFrame
  <2>5. CASE cut'
    BY <2>4, <2>5 DEF IdInv, Follows, Shows, Sampled, IdReturnsIdcode
  <2>6. CASE ~cut'
    <3>1. Follows' /\ Shows'
      BY <2>1, <2>3, <2>6, WidthAssumption DEF Follows, Shows
    <3>2. Sampled' /\ IdReturnsIdcode'
      BY <1>5, <2>1, <2>3, <2>6 DEF IdInv, Sampled, IdReturnsIdcode
    <3> QED BY <2>4, <3>1, <3>2 DEF IdInv
  <2> QED BY <2>5, <2>6
<1>6. CASE op = "id" /\ SysRelease
  <2>1. /\ UNCHANGED <<op, frame, sent, answer, got, cut, sclk, rst, fsmVars, nout>>
        /\ rstn = 0
    BY <1>6 DEF SysRelease, SetPins, HostOK, Exchanging
  <2>2. ~cut => sent = 0
    BY <1>6, <2>1 DEF IdInv, Follows, HostOK
  <2> QED BY <1>6, <2>1, <2>2, WidthAssumption
          DEF IdInv, IdFrame, Follows, Shows, Sampled, IdReturnsIdcode
<1>7. CASE op = "id" /\ (SysClockUnderReset \/ BusSelect \/ BusCycle \/ UNCHANGED artyVars)
  <2>1. UNCHANGED <<op, frame, sent, answer, got, cut, pinVars, rst, rst_inv, fsmVars, outVars, nout>>
    BY <1>7 DEF SysClockUnderReset, BusSelect, BusCycle, LoaderSelect, LoaderCycle, artyVars, vars
  <2> QED BY <2>1 DEF IdInv, IdFrame, Follows, Shows, Sampled, IdReturnsIdcode, pinVars, fsmVars
<1>8. ReadFirstBytes \/ End => op' # "id"
  BY ReadFrame DEF End
<1>9. SysClockUnderReset \/ BusSelect \/ BusCycle \/ UNCHANGED artyVars \/ SysReset
        \/ SysRelease \/ High \/ LowClk => op' = op
  BY DEF SysClockUnderReset, BusSelect, BusCycle, artyVars, SysReset, SysRelease, High, LowClk
<1> QED BY <1>1, <1>2, <1>3, <1>4, <1>5, <1>6, <1>7, <1>8, <1>9 DEF ArtyNext

(* An identification that no reset cuts is answered with the identification  *)
(* word, from its first bit, wherever loads fall and whatever was cut off    *)
(* before it, for commands and words of any length (emu.py:190-238,          *)
(* ftdi_cli.py:13).                                                          *)
THEOREM BoardIdentifies == ArtySpec => []IdReturnsIdcode
<1>1. ArtyInit => IdInv
  BY DEF ArtyInit, IdInv, IdFrame, Follows, Shows, Sampled, IdReturnsIdcode
<1>2. IdInv => IdReturnsIdcode
  BY DEF IdInv
<1>3. ArtySpec => []RInv
  BY BoardIsEmulator, RInvariance
<1> QED BY <1>1, <1>2, <1>3, HostInvariance, IdNext, PTL DEF ArtySpec

-----------------------------------------------------------------------------
(* The rest of an exchange that a reset cuts.                                *)

(* The bits the emulator takes when it is released after s of the frame.     *)
Rest(s) == [k \in Nat |-> frame[s + k]]

(* What the frames of the host are.                                          *)
Framed ==
  /\ op = "read" => FrameIs(CMD_READ, 0)
  /\ op = "id" => FrameIs(CMD_RDID, 0) \/ FrameIs(CMD_RDID, CMD_RDID[0])

(* The emulator waits in reset, or has taken what is left as a command.      *)
Silenced ==
  Exchanging /\ cut =>
    /\ sent >= 1 /\ So = HiZ
    /\ Deselected \/ \E s \in 1 .. sent : Heard(Rest(s), sent - s)

(* The end of a command of the host is not a command.                        *)
LEMMA RestUnknown ==
  ASSUME HostOK, Framed, Exchanging, NEW s \in Nat, s >= 1, s + CMD_BITS <= Len(frame)
  PROVE  CommandIn(Rest(s)) \notin {CMD_READ, CMD_QREAD, CMD_RDID}
<1> DEFINE Known == {CMD_READ, CMD_QREAD, CMD_RDID}
<1>0. CMD_BITS \in Nat \ {0} /\ Len(frame) \in Nat
  BY WidthAssumption DEF HostOK
<1>1. PICK w \in {<<CMD_READ, 0>>, <<CMD_RDID, 0>>, <<CMD_RDID, CMD_RDID[0]>>} :
        FrameIs(w[1], w[2])
  <2>1. CASE op = "read"
    <3> DEFINE w == <<CMD_READ, 0>>
    <3>1. w[1] = CMD_READ /\ w[2] = 0
      OBVIOUS
    <3>2. FrameIs(w[1], w[2])
      BY <2>1, <3>1 DEF Framed
    <3> QED BY <3>2
  <2>2. CASE op = "id" /\ FrameIs(CMD_RDID, 0)
    <3> DEFINE w == <<CMD_RDID, 0>>
    <3>1. w[1] = CMD_RDID /\ w[2] = 0
      OBVIOUS
    <3>2. FrameIs(w[1], w[2])
      BY <2>2, <3>1
    <3> QED BY <3>2
  <2>3. CASE op = "id" /\ FrameIs(CMD_RDID, CMD_RDID[0])
    <3> DEFINE w == <<CMD_RDID, CMD_RDID[0]>>
    <3>1. w[1] = CMD_RDID /\ w[2] = CMD_RDID[0]
      OBVIOUS
    <3>2. FrameIs(w[1], w[2])
      BY <2>3, <3>1
    <3> QED BY <3>2
  <2> QED BY <2>1, <2>2, <2>3 DEF Exchanging, Framed
<1> DEFINE t == IF s <= CMD_BITS THEN s ELSE CMD_BITS
<1>2. t \in 1 .. CMD_BITS
  BY <1>0
<1>3. [i \in 0 .. (CMD_BITS - 1) |-> IF i >= t THEN w[1][i - t] ELSE w[2]] \notin Known
  <2> HIDE DEF t
  <2> QED BY <1>2, SilenceAssumption
<1>4. ASSUME NEW i \in 0 .. (CMD_BITS - 1)
      PROVE  Rest(s)[CMD_BITS - i] = IF i >= t THEN w[1][i - t] ELSE w[2]
  <2>1. CMD_BITS - i \in Nat /\ s + (CMD_BITS - i) \in 1 .. Len(frame)
    BY <1>0
  <2>2. Rest(s)[CMD_BITS - i] = frame[s + (CMD_BITS - i)]
    BY <2>1 DEF Rest
  <2>3. CASE i >= t
    <3>1. /\ s + (CMD_BITS - i) \in 1 .. CMD_BITS
          /\ CMD_BITS - (s + (CMD_BITS - i)) = i - t
      BY <1>0, <2>3
    <3>2. frame[s + (CMD_BITS - i)] = w[1][CMD_BITS - (s + (CMD_BITS - i))]
      BY <1>1, <3>1 DEF FrameIs
    <3> QED BY <2>2, <2>3, <3>1, <3>2
  <2>4. CASE ~(i >= t)
    <3>1. s + (CMD_BITS - i) \in (CMD_BITS + 1) .. Len(frame)
      BY <1>0, <2>1, <2>4
    <3> QED BY <1>1, <2>2, <2>4, <3>1 DEF FrameIs
  <2> QED BY <2>3, <2>4
<1> HIDE DEF t
<1>5. CommandIn(Rest(s)) =
        [i \in 0 .. (CMD_BITS - 1) |-> IF i >= t THEN w[1][i - t] ELSE w[2]]
  BY <1>4 DEF CommandIn, WordOf
<1> QED BY <1>3, <1>5

LEMMA FramedNext == ASSUME HostOK, Framed, [ArtyNext]_artyVars PROVE Framed'
<1>1. CASE ReadId
  BY <1>1, ReadIdFrame DEF Framed
<1>2. CASE ReadFirstBytes
  BY <1>2, ReadFrame DEF Framed
<1>3. CASE End
  BY <1>3 DEF End, Framed
<1>4. CASE UNCHANGED <<op, frame>>
  BY <1>4 DEF Framed, FrameIs
<1>5. ReadId \/ ReadFirstBytes \/ End \/ UNCHANGED <<op, frame>>
  BY DEF ArtyNext, High, LowClk, SysReset, SysClockUnderReset, SysRelease, BusSelect, BusCycle,
         artyVars, hostVars
<1> QED BY <1>1, <1>2, <1>3, <1>4, <1>5

(* In reset the pin floats.                                                  *)
LEMMA FloatsInReset == ASSUME RInv, Deselected PROVE So = HiZ
BY DEF RInv, IInv, ResetHeld, So

LEMMA HighSilent ==
  ASSUME HostOK, RInv, Framed, Silenced, High PROVE Silenced'
<1> SUFFICES ASSUME cut' PROVE Silenced'
  BY DEF Silenced
<1> DEFINE b == frame[sent + 1]
<1>1. /\ SclkRise(b) /\ b \in Bit /\ sent' = sent + 1 /\ sent \in Nat /\ frame' = frame
      /\ So' = So /\ UNCHANGED <<csn, rstn>> /\ Exchanging
  BY RiseKeeps DEF High, HostOK
<1>2. Deselected' <=> Deselected
  BY <1>1 DEF Deselected
<1>3. CASE Deselected
  BY <1>1, <1>2, <1>3, FloatsInReset DEF Silenced
<1>4. CASE ~Deselected
  <2>1. cut
    <3>1. sys_rst # 1
      BY <1>1, <1>4 DEF HostOK, Deselected, Bit
    <3>2. cut' = (cut \/ sys_rst = 1)
      BY DEF High
    <3> QED BY <3>1, <3>2, Zenon
  <2>2. PICK s \in 1 .. sent : Heard(Rest(s), sent - s)
    BY <1>1, <1>4, <2>1 DEF Silenced
  <2>3. PICK m \in Nat : m = sent - s
    BY <1>1
  <2>4. PICK f : f = Rest(s)
    OBVIOUS
  <2>5. f[m + 1] = b /\ Heard(f, m)
    <3>1. s + (m + 1) = sent + 1 /\ m + 1 \in Nat
      BY <1>1, <2>3
    <3> QED BY <2>2, <2>3, <2>4, <3>1 DEF Rest
  <2>6. Heard(f, m + 1)'
    <3> HIDE DEF b
    <3> QED BY <1>1, <2>5, HeardRise
  <2>7. Heard(Rest(s), sent - s)' /\ s \in 1 .. sent'
    <3>1. Rest(s)' = f
      BY <1>1, <2>4 DEF Rest
    <3>2. sent' - s = m + 1
      BY <1>1, <2>3
    <3> QED BY <1>1, <2>6, <3>1, <3>2
  <2> QED BY <1>1, <2>1, <2>7 DEF Silenced
<1> QED BY <1>3, <1>4

LEMMA LowSilent ==
  ASSUME HostOK, RInv, Framed, Silenced, LowClk PROVE Silenced'
<1> SUFFICES ASSUME Exchanging, cut PROVE Silenced'
  BY DEF Silenced, LowClk, hostVars, archVars, Exchanging
<1>1. /\ SclkFall /\ UNCHANGED <<op, frame, sent, cut, csn, rstn>> /\ sent \in 0 .. Len(frame)
      /\ Len(frame) \in Nat /\ CMD_BITS \in Nat /\ sent >= 1
  BY WidthAssumption DEF LowClk, SclkFall, hostVars, archVars, HostOK, Silenced
<1>2. Deselected' <=> Deselected
  BY <1>1 DEF Deselected
<1>3. CASE Deselected
  <2>1. PhaseBar = "idle"
    BY <1>3, BarsNow DEF Bars
  <2>2. So' = HiZ
    BY <1>1, <2>1, FallSilent
  <2> QED BY <1>1, <1>2, <1>3, <2>2 DEF Silenced
<1>4. CASE ~Deselected
  <2>1. PICK s \in 1 .. sent : Heard(Rest(s), sent - s)
    BY <1>1, <1>4 DEF Silenced
  <2>2. PICK m \in Nat : m = sent - s
    BY <1>1
  <2>3. PICK f : f = Rest(s)
    OBVIOUS
  <2>4. Matters(f, m) \/ (CommandIn(f) # CMD_RDID /\ ~IsRead(f))
    <3>1. CASE m < CMD_BITS
      BY <3>1 DEF Matters
    <3>2. CASE ~(m < CMD_BITS)
      <4>1. s \in Nat /\ s >= 1 /\ s + CMD_BITS <= Len(frame)
        BY <1>1, <2>2, <3>2
      <4>2. CommandIn(Rest(s)) \notin {CMD_READ, CMD_QREAD, CMD_RDID}
        BY <4>1, RestUnknown
      <4> QED BY <2>3, <4>2 DEF IsRead
    <3> QED BY <3>1, <3>2
  <2>5. So' = HiZ
    BY <1>1, <2>1, <2>2, <2>3, <2>4, Silent
  <2>6. Heard(f, m)'
    BY <1>1, <2>1, <2>2, <2>3, FallKeeps, HeardKept
  <2>7. Heard(Rest(s), sent - s)' /\ s \in 1 .. sent'
    <3>1. Rest(s)' = f
      BY <1>1, <2>3 DEF Rest
    <3> QED BY <1>1, <2>2, <2>6, <3>1
  <2> QED BY <1>1, <2>5, <2>7 DEF Silenced
<1> QED BY <1>3, <1>4

(* A load keeps what the emulator shows and has heard.                       *)
LEMMA LoadSilent ==
  ASSUME HostOK, RInv, Silenced, Loader \/ UNCHANGED vars,
         UNCHANGED <<op, frame, sent, cut>>
  PROVE  Silenced'
<1> SUFFICES ASSUME Exchanging, cut PROVE Silenced'
  BY DEF Silenced, Exchanging
<1>1. SameBars /\ So' = So /\ UNCHANGED <<csn, rstn>>
  <2>1. CASE Loader
    BY <2>1, LoaderKeeps DEF Loader, LoaderSelect, LoaderCycle, pinVars
  <2>2. CASE UNCHANGED vars
    BY <2>2, FsmKept DEF vars, pinVars, histVars, outVars, So
  <2> QED BY <2>1, <2>2
<1>2. sent >= 1 /\ So' = HiZ
  BY <1>1 DEF Silenced
<1>3. CASE Deselected
  BY <1>1, <1>2, <1>3 DEF Silenced, Deselected
<1>4. CASE ~Deselected
  <2>1. PICK s \in 1 .. sent : Heard(Rest(s), sent - s)
    BY <1>4 DEF Silenced
  <2>2. PICK m : m = sent - s
    OBVIOUS
  <2>3. PICK f : f = Rest(s)
    OBVIOUS
  <2>4. Heard(f, m)'
    BY <1>1, <2>1, <2>2, <2>3, HeardKept
  <2>5. Rest(s)' = f
    BY <2>3 DEF Rest
  <2>6. Heard(Rest(s), sent - s)'
    BY <2>2, <2>4, <2>5
  <2> QED BY <1>2, <2>6 DEF Silenced
<1> QED BY <1>3, <1>4

LEMMA ResetSilent == ASSUME HostOK, RInv, Silenced, SysReset PROVE Silenced'
<1> SUFFICES ASSUME Exchanging', cut' PROVE Silenced'
  BY DEF Silenced
<1>1. /\ SetPins(csn, 0) /\ UNCHANGED <<op, sent>> /\ sent \in Nat
      /\ cut' = (cut \/ (Exchanging /\ sent > 0))
  BY DEF SysReset, hostVars, HostOK
<1>2. Exchanging
  BY <1>1 DEF Exchanging
<1>3. cut \/ sent > 0
  BY <1>1, Zenon
<1>4. sent >= 1
  BY <1>1, <1>2, <1>3 DEF Silenced
<1>5. Deselected' /\ So' = HiZ
  BY <1>1 DEF SetPins, Deselected, So
<1> QED BY <1>1, <1>4, <1>5 DEF Silenced

LEMMA ReleaseSilent == ASSUME HostOK, RInv, Silenced, SysRelease PROVE Silenced'
<1> SUFFICES ASSUME Exchanging, cut PROVE Silenced'
  BY DEF Silenced, SysRelease, hostVars, archVars, Exchanging
<1>1. /\ SetPins(csn, 1) /\ Deselected /\ ~Deselected' /\ UNCHANGED <<sent, cut>>
      /\ sent \in Nat /\ sent >= 1
  BY DEF SysRelease, SetPins, hostVars, archVars, HostOK, Deselected, Silenced
<1>2. (\A f : Heard(f, 0))' /\ So' = HiZ
  BY <1>1, SelectHears
<1>3. sent' \in 1 .. sent' /\ sent' - sent' = 0
  BY <1>1
<1>4. Heard(Rest(sent), sent - sent)'
  BY <1>2, <1>3
<1> QED BY <1>1, <1>2, <1>3, <1>4 DEF Silenced

LEMMA SilencedNext ==
  ASSUME HostOK, RInv, Framed, Silenced, [ArtyNext]_artyVars PROVE Silenced'
<1>1. CASE ReadId \/ ReadFirstBytes
  BY <1>1 DEF ReadId, ReadFirstBytes, Exchange, Silenced
<1>2. CASE High
  BY <1>2, HighSilent
<1>3. CASE LowClk
  BY <1>3, LowSilent
<1>4. CASE End
  BY <1>4 DEF End, Silenced, Exchanging
<1>5. CASE SysReset
  BY <1>5, ResetSilent
<1>6. CASE SysRelease
  BY <1>6, ReleaseSilent
<1>7. CASE SysClockUnderReset \/ BusSelect \/ BusCycle \/ UNCHANGED artyVars
  <2>1. UNCHANGED <<op, frame, sent, cut>>
    BY <1>7 DEF SysClockUnderReset, BusSelect, BusCycle, artyVars, hostVars, archVars
  <2>2. Loader \/ UNCHANGED vars
    BY <1>7 DEF SysClockUnderReset, SelReset, BusSelect, BusCycle, Loader, artyVars, Bit
  <2> QED BY <2>1, <2>2, LoadSilent
<1> QED BY <1>1, <1>2, <1>3, <1>4, <1>5, <1>6, <1>7 DEF ArtyNext

(* After a reset in the middle of an exchange, of whichever of the two and   *)
(* wherever it falls, the emulator takes what is left of it for a command    *)
(* and answers nothing until the host deselects it: by SilenceAssumption no  *)
(* end of a command makes one (emu.py:97-114, 209-228).                      *)
THEOREM BoardStaysSilent == ArtySpec => []CutExchangeIsSilent
<1>1. ArtyInit => Framed /\ Silenced
  BY DEF ArtyInit, Framed, Silenced, Exchanging
<1>2. Silenced => CutExchangeIsSilent
  BY DEF Silenced, CutExchangeIsSilent
<1>3. ArtySpec => []RInv
  BY BoardIsEmulator, RInvariance
<1>4. ArtySpec => []Framed
  BY <1>1, HostInvariance, FramedNext, PTL DEF ArtySpec
<1> QED BY <1>1, <1>2, <1>3, <1>4, HostInvariance, SilencedNext, PTL DEF ArtySpec

-----------------------------------------------------------------------------
(* A read that nothing disturbs.                                             *)

(* Outside of resets the memory is the host's until the loader takes it.     *)
SelOwned == (sys_rst = 0 \/ clocked) /\ ~taken => sel = 0
CleanOwned == clean => sys_rst = 0 /\ ~taken /\ sel = 0

LEMMA OwnedNext ==
  ASSUME HostOK, SelOwned, CleanOwned, [ArtyNext]_artyVars PROVE SelOwned' /\ CleanOwned'
<1>1. CASE ReadId \/ ReadFirstBytes
  <2>1. UNCHANGED <<sys_rst, clocked, taken, sel>> /\ clean' = (sys_rst = 0 /\ ~taken)
    BY <1>1 DEF ReadId, ReadFirstBytes, Exchange, SetPins, socVars, memVars
  <2>2. SelOwned'
    BY <2>1 DEF SelOwned
  <2>3. clean' => sys_rst' = 0 /\ ~taken' /\ sel' = 0
    BY <2>1, Zenon DEF SelOwned
  <2> QED BY <2>2, <2>3 DEF CleanOwned
<1>2. CASE High \/ LowClk \/ End \/ UNCHANGED artyVars
  <2>1. UNCHANGED <<sys_rst, clocked, taken, sel, clean>>
    BY <1>2 DEF High, SclkRise, SpiClock, LowClk, SclkFall, End, SetPins, artyVars, vars, memVars,
                socVars, archVars
  <2> QED BY <2>1 DEF SelOwned, CleanOwned
<1>3. CASE SysReset
  <2>1. sys_rst' = 1 /\ clocked' = FALSE /\ clean' = FALSE
    BY <1>3 DEF SysReset
  <2> QED BY <2>1 DEF SelOwned, CleanOwned
<1>4. CASE SysClockUnderReset
  <2>1. sel' = 0
    BY <1>4 DEF SysClockUnderReset, SelReset, LoaderSelect, SetSel, vars, memVars
  <2>2. sys_rst = 1 /\ clean' = clean
    BY <1>4 DEF SysClockUnderReset, archVars
  <2> QED BY <2>1, <2>2 DEF SelOwned, CleanOwned
<1>5. CASE SysRelease
  <2>1. UNCHANGED <<clocked, taken, sel, clean>> /\ sys_rst = 1 /\ clocked
    BY <1>5 DEF SysRelease, SetPins, archVars, memVars
  <2> QED BY <2>1 DEF SelOwned, CleanOwned
<1>6. CASE BusSelect
  <2>1. PICK v \in Bit : LoaderSelect(v) /\ taken' = (v = 1) /\ clean' = FALSE
    BY <1>6 DEF BusSelect
  <2>2. sel' = v
    BY <2>1 DEF LoaderSelect, SetSel
  <2>3. ~taken' => sel' = 0
    <3>1. ~taken' => v # 1
      BY <2>1, Zenon
    <3> QED BY <2>2, <3>1 DEF Bit
  <2> QED BY <2>1, <2>3 DEF SelOwned, CleanOwned
<1>7. CASE BusCycle
  <2>1. UNCHANGED <<sys_rst, clocked, taken, sel>> /\ clean' = FALSE
    BY <1>7 DEF BusCycle, LoaderCycle, SysClock, socVars
  <2> QED BY <2>1 DEF SelOwned, CleanOwned
<1> QED BY <1>1, <1>2, <1>3, <1>4, <1>5, <1>6, <1>7 DEF ArtyNext

(* The frame of a read is the command, the address and the answer's clocks.  *)
Head0 == CMD_BITS + ADDR_BITS
ReadFramed ==
  op \in {"read", "done"} =>
    answer = READ_BYTES * DATA_BITS /\ answer \in Nat /\ Len(frame) = Head0 + answer

LEMMA ReadFramedNext == ASSUME HostOK, ReadFramed, [ArtyNext]_artyVars PROVE ReadFramed'
<1>1. CASE ReadId
  BY <1>1, ReadIdFrame DEF ReadFramed
<1>2. CASE ReadFirstBytes
  BY <1>2, ReadFrame DEF ReadFramed, Head0
<1>3. CASE End
  BY <1>3 DEF End, Exchanging, ReadFramed
<1>4. CASE UNCHANGED <<op, frame, answer>>
  BY <1>4 DEF ReadFramed
<1>5. ReadId \/ ReadFirstBytes \/ End \/ UNCHANGED <<op, frame, answer>>
  BY DEF ArtyNext, High, LowClk, SysReset, SysClockUnderReset, SysRelease, BusSelect, BusCycle,
         artyVars, hostVars
<1> QED BY <1>1, <1>2, <1>3, <1>4, <1>5

LEMMA ReadSent ==
  ASSUME HostOK, Framed, ReadFramed, op = "read"
  PROVE  CommandIn(frame) = CMD_READ /\ AddressIn(frame) = Zero(ADDR_BITS)
<1>0. CMD_BITS \in Nat \ {0} /\ ADDR_BITS \in Nat \ {0} /\ Head0 <= Len(frame)
  BY WidthAssumption DEF ReadFramed, Head0
<1>1. FrameIs(CMD_READ, 0)
  BY DEF Framed
<1>2. CommandIn(frame) = CMD_READ
  BY <1>1, CommandAssumption, CommandSent DEF FrameIs
<1>3. ASSUME NEW k \in 1 .. ADDR_BITS
      PROVE  frame[CMD_BITS + k] = Zero(ADDR_BITS)[ADDR_BITS - k]
  <2>1. CMD_BITS + k \in (CMD_BITS + 1) .. Len(frame) /\ ADDR_BITS - k \in 0 .. (ADDR_BITS - 1)
    BY <1>0 DEF Head0, ReadFramed
  <2> QED BY <1>1, <2>1 DEF FrameIs, Zero
<1> QED BY <1>0, <1>2, <1>3, ZeroType, AddressSent

(* What the emulator has heard of it, shows, and has been sampled of it.     *)
Answered == IF sent > Head0 THEN sent - Head0 ELSE 0

Reading ==
  op = "read" /\ clean =>
    /\ Heard(frame, sent) /\ Genuine
    /\ sclk = 0 /\ sent >= Head0 => So = BitRead(Zero(ADDR_BITS), sent - CMD_BITS - ADDR_BITS)
    /\ got \in Seq({0, 1, HiZ}) /\ Len(got) = Answered
    /\ Agrees(Zero(ADDR_BITS), got)

ReadDone ==
  op = "done" /\ clean => /\ got \in Seq({0, 1, HiZ}) /\ Len(got) = answer
                          /\ Agrees(Zero(ADDR_BITS), got)

LEMMA ReadStarts == ASSUME HostOK, RInv, SelOwned, ReadFirstBytes PROVE Reading'
<1> SUFFICES ASSUME clean' PROVE Reading'
  BY DEF Reading
<1>1. sent' = 0 /\ got' = << >>
  BY ReadFrame
<1>2. csn = 1 /\ csn' = 0 /\ SetPins(0, rstn) /\ clean' = (sys_rst = 0 /\ ~taken)
  BY DEF ReadFirstBytes, Exchange, SetPins, HostOK, Exchanging
<1>3. sys_rst = 0
  BY <1>2, Zenon
<1>4. Deselected /\ ~Deselected'
  BY <1>2, <1>3 DEF HostOK, Deselected, SetPins
<1>5. (\A f : Heard(f, 0))' /\ PhaseBar' = "cmd"
  BY <1>2, <1>4, SelectHears
<1>6. Heard(frame, sent)' /\ Genuine'
  BY <1>1, <1>5 DEF Genuine
<1>7. Head0 \in Nat /\ Head0 > 0
  BY WidthAssumption DEF Head0
<1>8. Agrees(Zero(ADDR_BITS), got)' /\ got' \in Seq({0, 1, HiZ}) /\ Len(got') = 0
  BY <1>1 DEF Agrees
<1> QED BY <1>1, <1>6, <1>7, <1>8 DEF Reading, Answered

LEMMA HighReads ==
  ASSUME HostOK, RInv, CleanOwned, ReadFramed, Reading, op = "read", High PROVE Reading'
<1> SUFFICES ASSUME clean PROVE Reading'
  BY DEF Reading, High
<1> DEFINE b == frame[sent + 1]
           a == Zero(ADDR_BITS)
<1>1. /\ SclkRise(b) /\ b \in Bit /\ sent' = sent + 1 /\ sent \in Nat /\ frame' = frame
      /\ op' = "read" /\ So' = So /\ mem' = mem /\ sclk = 0 /\ sclk' = 1 /\ sel = 0
      /\ sent < Len(frame)
  BY RiseKeeps DEF High, HostOK, CleanOwned
<1>2. Head0 \in Nat /\ Len(frame) - answer = Head0
  BY WidthAssumption DEF ReadFramed, Head0
<1>3. Heard(frame, sent)'
  <2>1. PICK f : f = frame
    OBVIOUS
  <2>2. PICK m \in Nat : m = sent
    BY <1>1
  <2>3. Heard(f, m) /\ f[m + 1] = b
    BY <2>1, <2>2 DEF Reading
  <2>4. Heard(f, m + 1)'
    <3> HIDE DEF b
    <3> QED BY <1>1, <2>3, HeardRise
  <2> QED BY <1>1, <2>1, <2>2, <2>4
<1>4. Genuine'
  <2> HIDE DEF b
  <2> QED BY <1>1, RiseGenuine DEF Reading
<1>5. CASE sent < Head0
  <2>1. got' = got /\ Answered' = Answered
    BY <1>1, <1>2, <1>5 DEF High, Answered
  <2>2. Agrees(a, got)'
    <3>1. PICK s : s = got
      OBVIOUS
    <3>2. Agrees(a, s)'
      BY <1>1, <3>1, AgreesKept DEF Reading
    <3> QED BY <2>1, <3>1, <3>2
  <2> QED BY <1>1, <1>3, <1>4, <2>1, <2>2 DEF Reading
<1>6. CASE sent >= Head0
  <2>1. PICK s : s = got
    OBVIOUS
  <2>2. PICK x : x = So
    OBVIOUS
  <2>3. got' = Append(s, x)
    BY <1>2, <1>6, <2>1, <2>2 DEF High
  <2>4. x \in {0, 1, HiZ}
    BY <2>2 DEF RInv, IInv, TypeOK, So, Bit
  <2>5. /\ s \in Seq({0, 1, HiZ}) /\ Len(s) = sent - Head0 /\ Agrees(a, s)
        /\ sent - CMD_BITS - ADDR_BITS = sent - Head0
    BY <1>1, <1>2, <1>6, <2>1, WidthAssumption DEF Reading, Answered, Head0
  <2>6. x = BitRead(a, Len(s))
    BY <1>1, <1>6, <2>2, <2>5 DEF Reading
  <2>7. Agrees(a, Append(s, x)) /\ Len(Append(s, x)) = Len(s) + 1
        /\ Append(s, x) \in Seq({0, 1, HiZ})
    BY <2>4, <2>5, <2>6, AgreesMore
  <2>8. Agrees(a, Append(s, x))'
    BY <1>1, <2>7, AgreesKept
  <2>9. Agrees(a, got)' /\ got' \in Seq({0, 1, HiZ}) /\ Len(got') = Answered'
    BY <1>1, <1>2, <1>6, <2>3, <2>5, <2>7, <2>8 DEF Answered
  <2> QED BY <1>1, <1>3, <1>4, <2>9 DEF Reading
<1> QED BY <1>1, <1>2, <1>5, <1>6

LEMMA LowReads ==
  ASSUME HostOK, RInv, Framed, ReadFramed, Reading, op = "read", LowClk PROVE Reading'
<1> SUFFICES ASSUME clean PROVE Reading'
  BY DEF Reading, LowClk, archVars
<1> DEFINE a == Zero(ADDR_BITS)
<1>1. SclkFall /\ UNCHANGED <<op, frame, sent, got, mem>> /\ sent \in Nat
  BY FallKeeps DEF LowClk, hostVars, HostOK
<1>2. PICK f : f = frame
  OBVIOUS
<1>3. PICK m \in Nat : m = sent
  BY <1>1
<1>4. Heard(f, m) /\ Genuine
  BY <1>2, <1>3 DEF Reading
<1>5. Heard(f, m)' /\ Genuine'
  BY <1>1, <1>4, FallKeeps, FallGenuine, HeardKept
<1>6. ASSUME sent >= Head0 PROVE So' = BitRead(a, sent - CMD_BITS - ADDR_BITS)'
  <2>1. CommandIn(f) = CMD_READ /\ AddressIn(f) = a /\ m >= CMD_BITS + ADDR_BITS
    BY <1>2, <1>3, <1>6, ReadSent DEF Head0
  <2>2. So' = BitRead(AddressIn(f), m - CMD_BITS - ADDR_BITS)
    BY <1>1, <1>4, <2>1, AnswersRead
  <2>3. So' = BitRead(a, m - CMD_BITS - ADDR_BITS)'
    BY <1>1, <2>1, <2>2, BitKept
  <2> QED BY <1>1, <1>3, <2>3
<1>7. Agrees(a, got)'
  <2>1. PICK s : s = got
    OBVIOUS
  <2>2. Agrees(a, s)'
    BY <1>1, <2>1, AgreesKept DEF Reading
  <2> QED BY <1>1, <2>1, <2>2
<1>8. got' \in Seq({0, 1, HiZ}) /\ Len(got') = Answered'
  BY <1>1 DEF Reading, Answered
<1> QED BY <1>1, <1>2, <1>3, <1>5, <1>6, <1>7, <1>8 DEF Reading

LEMMA ReadEnds ==
  ASSUME HostOK, ReadFramed, Reading, op = "read", End PROVE ReadDone'
<1> SUFFICES ASSUME clean PROVE ReadDone'
  BY DEF ReadDone, End, archVars
<1>1. UNCHANGED <<mem, got, answer>> /\ sent = Len(frame)
  BY DEF End, SetPins, memVars
<1>2. Head0 \in Nat /\ answer \in Nat /\ Len(frame) = Head0 + answer
  BY WidthAssumption DEF ReadFramed, Head0
<1>3. Answered = answer
  BY <1>1, <1>2 DEF Answered
<1>4. PICK s : s = got
  OBVIOUS
<1>5. Agrees(Zero(ADDR_BITS), s)'
  BY <1>1, <1>4, AgreesKept DEF Reading
<1> QED BY <1>1, <1>3, <1>4, <1>5 DEF Reading, ReadDone

LEMMA ReadNext ==
  ASSUME HostOK, RInv, SelOwned, CleanOwned, Framed, ReadFramed, Reading, ReadDone,
         [ArtyNext]_artyVars
  PROVE  Reading' /\ ReadDone'
<1>1. CASE ReadId
  BY <1>1, ReadIdFrame DEF Reading, ReadDone
<1>2. CASE ReadFirstBytes
  BY <1>2, ReadFrame, ReadStarts DEF ReadDone
<1>3. CASE High
  BY <1>3, HighReads DEF High, Exchanging, Reading, ReadDone
<1>4. CASE LowClk
  BY <1>4, LowReads DEF LowClk, hostVars, Exchanging, Reading, ReadDone
<1>5. CASE End
  BY <1>5, ReadEnds DEF End, Exchanging, Reading, ReadDone
<1>6. CASE SysReset \/ SysClockUnderReset \/ SysRelease \/ BusSelect \/ BusCycle
  <2>1. ~clean'
    BY <1>6 DEF SysReset, SysClockUnderReset, SysRelease, BusSelect, BusCycle, CleanOwned, archVars
  <2> QED BY <2>1 DEF Reading, ReadDone
<1>7. CASE UNCHANGED artyVars
  <2>1. /\ UNCHANGED <<op, clean, frame, sent, sclk, got, answer, mem, fresh>> /\ So' = So
        /\ SameBars
    BY <1>7, FsmKept DEF artyVars, vars, pinVars, outVars, histVars, memVars, hostVars, archVars, So
  <2>2. Heard(frame, sent) => Heard(frame, sent)'
    <3>1. PICK f, m : f = frame /\ m = sent
      OBVIOUS
    <3> QED BY <2>1, <3>1, HeardKept
  <2>3. Genuine => Genuine'
    BY <2>1 DEF Genuine, SameBars
  <2>4. Agrees(Zero(ADDR_BITS), got) => Agrees(Zero(ADDR_BITS), got)'
    BY <2>1 DEF Agrees, BitRead
  <2>5. BitRead(Zero(ADDR_BITS), sent - CMD_BITS - ADDR_BITS)'
          = BitRead(Zero(ADDR_BITS), sent - CMD_BITS - ADDR_BITS)
    BY <2>1 DEF BitRead
  <2>6. Reading'
    BY <2>1, <2>2, <2>3, <2>4, <2>5 DEF Reading, Answered
  <2> QED BY <2>1, <2>4, <2>6 DEF ReadDone
<1> QED BY <1>1, <1>2, <1>3, <1>4, <1>5, <1>6, <1>7 DEF ArtyNext

LEMMA DoneReturns ==
  ASSUME ReadFramed, ReadDone PROVE CleanReadReturnsMemory
<1> SUFFICES ASSUME op = "done", clean PROVE CleanReadReturnsMemory
  BY DEF CleanReadReturnsMemory
<1>1. /\ Len(got) = answer /\ Agrees(Zero(ADDR_BITS), got) /\ answer = READ_BYTES * DATA_BITS
      /\ answer \in Nat
  BY DEF ReadDone, ReadFramed
<1>2. ASSUME NEW k \in 0 .. (READ_BYTES - 1), NEW j \in 1 .. DATA_BITS
      PROVE  got[k * DATA_BITS + j]
               = mem[Low(MEM_BITS, Plus(ADDR_BITS, Zero(ADDR_BITS), k))][DATA_BITS - j]
  <2>1. k \in Nat /\ READ_BYTES \in Nat /\ DATA_BITS \in Nat \ {0} /\ k < READ_BYTES
    BY ReadBytesAssumption, WidthAssumption
  <2>2. DATA_BITS * k + DATA_BITS <= DATA_BITS * READ_BYTES
    BY <2>1, Multiple
  <2>3. k * DATA_BITS + j <= Len(got) /\ Len(got) \in Nat
    <3>1. DATA_BITS * k = k * DATA_BITS /\ DATA_BITS * READ_BYTES = READ_BYTES * DATA_BITS
          /\ k * DATA_BITS \in Nat
      BY <2>1
    <3> QED BY <1>1, <2>1, <2>2, <3>1
  <2> QED BY <1>1, <2>1, <2>3, BytesRead
<1> QED BY <1>1, <1>2 DEF CleanReadReturnsMemory

(* A read of the first bytes that neither a reset nor a load disturbs is     *)
(* answered with the memory, bit by bit, whatever transactions were cut      *)
(* before it and however the loader lost or returned the memory, for words,  *)
(* memories and reads of any size (emu.py:97-114, 241-262, emu_mem.py:90-97, *)
(* ftdi_cli.py:16).                                                          *)
THEOREM BoardReadsMemory == ArtySpec => []CleanReadReturnsMemory
<1>1. ArtyInit => /\ Framed /\ ReadFramed /\ SelOwned /\ CleanOwned
                  /\ Reading /\ ReadDone
  BY DEF ArtyInit, Init, MemInit, Framed, ReadFramed, SelOwned, CleanOwned, Reading, ReadDone
<1>2. ArtySpec => []RInv
  BY BoardIsEmulator, RInvariance
<1>3. ArtySpec => []Framed
  BY <1>1, HostInvariance, FramedNext, PTL DEF ArtySpec
<1>4. ArtySpec => []ReadFramed
  BY <1>1, HostInvariance, ReadFramedNext, PTL DEF ArtySpec
<1>5. ArtySpec => [](SelOwned /\ CleanOwned)
  BY <1>1, HostInvariance, OwnedNext, PTL DEF ArtySpec
<1>6. ArtySpec => [](Reading /\ ReadDone)
  BY <1>1, <1>2, <1>3, <1>4, <1>5, HostInvariance, ReadNext, PTL DEF ArtySpec
<1> QED BY <1>4, <1>6, DoneReturns, PTL
=============================================================================
