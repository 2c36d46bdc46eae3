------------------------- MODULE FlashEmuLiteProofs -------------------------
(* Theorems about FlashEmuLite and its prefetcher, for every geometry, and   *)
(* about what the DRAM simulation reads of it.                               *)
EXTENDS DramVerilator, TLAPS

USE PrefetchAssumption DEF RdCntReset

LEMMA BlockAddress ==
  ASSUME NEW b \in Block
  PROVE  /\ b * NREADS \in Nat
         /\ b * NREADS + NREADS <= BLOCKS * NREADS
<1>1. b \in Int /\ BLOCKS \in Int /\ NREADS \in Nat /\ 0 <= b /\ b + 1 <= BLOCKS
  BY DEF Block
<1>2. b * NREADS \in Nat
  BY <1>1
<1>3. (b + 1) * NREADS <= BLOCKS * NREADS
  BY <1>1
<1>4. (b + 1) * NREADS = b * NREADS + NREADS
  BY <1>1
<1> QED BY <1>2, <1>3, <1>4

LEMMA TakeOne ==
  ASSUME NEW S, NEW q \in Seq(S), q # << >>
  PROVE  /\ Head(q) \in S /\ Head(q) = q[1] /\ Tail(q) \in Seq(S)
         /\ Len(q) \in Nat /\ Len(q) > 0 /\ Len(Tail(q)) = Len(q) - 1
         /\ \A k \in 1 .. Len(Tail(q)) : Tail(q)[k] = q[k + 1]
OBVIOUS

LEMMA PutOne ==
  ASSUME NEW S, NEW q \in Seq(S), NEW x \in S
  PROVE  /\ Append(q, x) \in Seq(S) /\ Len(q) \in Nat
         /\ Len(Append(q, x)) = Len(q) + 1
         /\ \A k \in 1 .. Len(q) : Append(q, x)[k] = q[k]
         /\ Append(q, x)[Len(q) + 1] = x
OBVIOUS

LEMMA Stored ==
  ASSUME NEW D, NEW R, NEW f \in [D -> R], NEW n \in D, NEW e
  PROVE  /\ [f EXCEPT ![n] = e][n] = e
         /\ \A i \in D : i # n => [f EXCEPT ![n] = e][i] = f[i]
OBVIOUS

(* The prefetcher's part of the invariant.  Launches count up from the first *)
(* word of a block; landings fill the registers from 1 up.                   *)
Launched == CASE dram_state = "RD_LAUNCH" -> NREADS - 1 - rd_cnt
              [] OTHER -> NREADS

AddressesBlock ==
  dram_state # "IDLE" =>
    \E b \in Block : read_addr = b * NREADS + Launched

RegistersFill ==
  HoldsData /\ dram_state = "RD_LAND" =>
    /\ pf_regs[0] = NoWord
    /\ \A i \in 1 .. (NREADS - 1 - rd_cnt) :
         pf_regs[i] = read_addr - NREADS + i - 1

RegistersKept ==
  HoldsData /\ dram_state # "RD_LAND" =>
    /\ pf_regs[0] = NoWord
    /\ \/ \A i \in 0 .. (NREADS - 1) : pf_regs[i] = NoWord
       \/ \E b \in Block : \A i \in 1 .. (NREADS - 1) : pf_regs[i] = Landed(b, i)

DramInv == /\ DramTypeOK /\ AddressesBlock /\ ReadsAccounted
           /\ RegistersFill /\ RegistersKept

LEMMA DramInitInv == DramInit => DramInv
<1> SUFFICES ASSUME DramInit PROVE DramInv
  OBVIOUS
<1>1. DramTypeOK
  <2>1. BLOCKS * NREADS \in Nat /\ BLOCKS * NREADS > 0
    OBVIOUS
  <2> QED BY <2>1 DEF DramInit, DramTypeOK
<1>2. AddressesBlock /\ ReadsAccounted /\ RegistersFill /\ RegistersKept
  BY DEF DramInit, AddressesBlock, ReadsAccounted, RegistersFill, RegistersKept
<1> QED BY <1>1, <1>2 DEF DramInv

(* The three states of the FSM.                                              *)
LEMMA IdleInv ==
  ASSUME DramInv, NEW v \in {0, 1}, NEW p \in Block, NEW valid \in {0, 1},
         valid = 1 => inflight # << >>, Idle(v, p, valid)
  PROVE  DramInv'
<1>1. inflight' \in Seq(0 .. (BLOCKS * NREADS - 1))
  BY TakeOne DEF DramInv, DramTypeOK, Idle, Unread
<1>2. HoldsData => inflight = << >> /\ inflight' = << >>
  BY DEF DramInv, DramTypeOK, ReadsAccounted, Idle, Unread
<1>3. read_addr' \in 0 .. (BLOCKS * NREADS)
  BY BlockAddress DEF DramInv, DramTypeOK, Idle
<1>4. DramTypeOK'
  BY <1>1, <1>3 DEF DramInv, DramTypeOK, Idle
<1>5. AddressesBlock'
  BY BlockAddress DEF Idle, AddressesBlock, Launched
<1>6. ReadsAccounted'
  BY <1>2 DEF Idle, ReadsAccounted
<1>7. RegistersFill' /\ RegistersKept'
  BY DEF DramInv, Idle, RegistersFill, RegistersKept, Landed
<1> QED BY <1>4, <1>5, <1>6, <1>7 DEF DramInv

LEMMA LaunchInv ==
  ASSUME DramInv, NEW ready \in {0, 1}, NEW valid \in {0, 1},
         valid = 1 => inflight # << >>, Launch(ready, valid)
  PROVE  DramInv'
<1> DEFINE S == 0 .. (BLOCKS * NREADS - 1)
<1>1. Unread(valid) \in Seq(S) /\ (HoldsData => Unread(valid) = inflight)
  BY TakeOne DEF DramInv, DramTypeOK, Unread
<1>2. read_addr \in S /\ read_addr + 1 \in 0 .. (BLOCKS * NREADS)
  <2>1. PICK b \in Block : read_addr = b * NREADS + (NREADS - 1 - rd_cnt)
    BY DEF DramInv, AddressesBlock, Launched, Launch
  <2>2. rd_cnt \in 0 .. (NREADS - 1)
    BY DEF DramInv, DramTypeOK
  <2>3. /\ b * NREADS \in Nat /\ b * NREADS + NREADS <= BLOCKS * NREADS
        /\ BLOCKS * NREADS \in Nat /\ NREADS \in Nat
    BY <2>1, BlockAddress
  <2> QED BY <2>1, <2>2, <2>3
<1>3. CASE ready = 0
  <2>1. DramTypeOK'
    BY <1>1, <1>3 DEF DramInv, DramTypeOK, Launch
  <2>2. AddressesBlock' /\ RegistersFill' /\ RegistersKept'
    BY <1>3 DEF DramInv, Launch, AddressesBlock, Launched, RegistersFill, RegistersKept,
                Landed
  <2>3. ReadsAccounted'
    BY <1>1, <1>3 DEF DramInv, Launch, ReadsAccounted
  <2> QED BY <2>1, <2>2, <2>3 DEF DramInv
<1>4. CASE ready = 1
  <2>1. inflight' = Append(Unread(valid), read_addr) /\ read_addr' = read_addr + 1
    BY <1>4 DEF Launch
  <2>2. inflight' \in Seq(S)
    BY <1>1, <1>2, <2>1
  <2>3. DramTypeOK'
    BY <1>2, <1>4, <2>2 DEF DramInv, DramTypeOK, Launch
  <2>4. AddressesBlock'
    <3>1. PICK b \in Block : read_addr = b * NREADS + (NREADS - 1 - rd_cnt)
      BY DEF DramInv, AddressesBlock, Launched, Launch
    <3>2. b * NREADS \in Nat /\ rd_cnt \in 0 .. (NREADS - 1)
      BY BlockAddress DEF DramInv, DramTypeOK
    <3>3. CASE rd_cnt = 0
      <4>1. Launched' = NREADS
        BY <1>4, <3>3 DEF Launch, Launched
      <4> QED BY <2>1, <3>1, <3>2, <3>3, <4>1 DEF AddressesBlock
    <3>4. CASE rd_cnt # 0
      <4>1. Launched' = NREADS - 1 - (rd_cnt - 1)
        BY <1>4, <3>4 DEF Launch, Launched
      <4> QED BY <2>1, <3>1, <3>2, <3>4, <4>1 DEF AddressesBlock
    <3> QED BY <3>3, <3>4
  <2>5. ReadsAccounted'
    <3> SUFFICES ASSUME HoldsData PROVE ReadsAccounted'
      BY DEF ReadsAccounted
    <3>1. /\ Len(inflight) = NREADS - 1 - rd_cnt
          /\ \A k \in 1 .. Len(inflight) :
               inflight[k] = read_addr - Len(inflight) + k - 1
      BY DEF DramInv, ReadsAccounted, Launch
    <3>2. inflight' = Append(inflight, read_addr) /\ inflight \in Seq(S)
      BY <1>1, <2>1
    <3>3. /\ Len(inflight) \in Nat /\ Len(inflight') = Len(inflight) + 1
          /\ \A k \in 1 .. Len(inflight) : inflight'[k] = inflight[k]
          /\ inflight'[Len(inflight) + 1] = read_addr
      BY <1>2, <3>2, PutOne
    <3>4. ASSUME NEW k \in 1 .. Len(inflight')
          PROVE  inflight'[k] = read_addr' - Len(inflight') + k - 1
      <4>1. CASE k \in 1 .. Len(inflight)
        BY <1>2, <2>1, <3>1, <3>3, <4>1
      <4>2. CASE k = Len(inflight) + 1
        BY <1>2, <2>1, <3>3, <4>2
      <4> QED BY <3>3, <4>1, <4>2
    <3>5. rd_cnt \in 0 .. (NREADS - 1)
      BY DEF DramInv, DramTypeOK
    <3>6. CASE rd_cnt = 0
      <4>1. rd_cnt' = NREADS - 1 /\ dram_state' = "RD_LAND"
        BY <1>4, <3>6 DEF Launch
      <4> QED BY <3>1, <3>3, <3>4, <3>6, <4>1 DEF ReadsAccounted
    <3>7. CASE rd_cnt # 0
      <4>1. rd_cnt' = rd_cnt - 1 /\ dram_state' = "RD_LAUNCH"
        BY <1>4, <3>7 DEF Launch
      <4> QED BY <3>1, <3>3, <3>4, <3>5, <4>1 DEF ReadsAccounted
    <3> QED BY <3>6, <3>7
  <2>6. RegistersKept'
    BY <1>4 DEF DramInv, Launch, RegistersKept, Landed
  <2>7. RegistersFill'
    BY <1>4 DEF DramInv, DramTypeOK, Launch, RegistersFill, RegistersKept
  <2> QED BY <2>3, <2>4, <2>5, <2>6, <2>7 DEF DramInv
<1> QED BY <1>3, <1>4

LEMMA LandInv ==
  ASSUME DramInv, NEW valid \in {0, 1}, valid = 1 => inflight # << >>, Land(valid)
  PROVE  DramInv'
<1> DEFINE S == 0 .. (BLOCKS * NREADS - 1)
<1>1. CASE valid = 0
  <2>1. DramTypeOK' /\ AddressesBlock'
    BY <1>1 DEF DramInv, DramTypeOK, Land, AddressesBlock, Launched
  <2>2. ReadsAccounted'
    BY <1>1 DEF DramInv, Land, ReadsAccounted
  <2>3. RegistersFill' /\ RegistersKept'
    BY <1>1 DEF DramInv, Land, RegistersFill, RegistersKept
  <2> QED BY <2>1, <2>2, <2>3 DEF DramInv
<1>2. CASE valid = 1
  <2> DEFINE n == Select(NREADS - rd_cnt)
  <2>1. /\ inflight' = Tail(inflight) /\ read_addr' = read_addr
        /\ pf_regs' = [pf_regs EXCEPT ![n] = Head(inflight)]
        /\ rd_cnt' = IF rd_cnt = 0 THEN NREADS - 1 ELSE rd_cnt - 1
        /\ dram_state' = IF rd_cnt = 0 THEN "IDLE" ELSE "RD_LAND"
        /\ dram_state = "RD_LAND"
    BY <1>2 DEF Land, LandIndex, LastLanding
  <2>2. /\ inflight \in Seq(S) /\ inflight # << >>
        /\ rd_cnt \in 0 .. (NREADS - 1) /\ read_addr \in Nat
        /\ pf_regs \in [0 .. (NREADS - 1) -> {NoWord} \cup S]
    BY <1>2 DEF DramInv, DramTypeOK
  <2>3. /\ Head(inflight) \in S /\ Head(inflight) = inflight[1]
        /\ inflight' \in Seq(S)
        /\ Len(inflight) \in Nat /\ Len(inflight) > 0
        /\ Len(inflight') = Len(inflight) - 1
        /\ \A k \in 1 .. Len(inflight') : inflight'[k] = inflight[k + 1]
    BY <2>1, <2>2, TakeOne
  <2>4. n \in 1 .. (NREADS - 1)
    BY <2>2 DEF Select
  <2>5. pf_regs' \in [0 .. (NREADS - 1) -> {NoWord} \cup S]
    BY <2>1, <2>2, <2>3, <2>4
  <2>6. DramTypeOK'
    BY <2>1, <2>2, <2>3, <2>5 DEF DramInv, DramTypeOK
  <2>7. PICK b \in Block : read_addr = b * NREADS + NREADS
    BY <2>1 DEF DramInv, AddressesBlock, Launched
  <2>8. AddressesBlock'
    BY <2>1, <2>7 DEF AddressesBlock, Launched
  <2>9. HoldsData =>
          /\ Len(inflight) = rd_cnt + 1
          /\ \A k \in 1 .. Len(inflight) : inflight[k] = read_addr - Len(inflight) + k - 1
    BY <2>1 DEF DramInv, ReadsAccounted
  <2>10. ReadsAccounted'
    <3>1. HoldsData => Len(inflight') = rd_cnt
      BY <2>2, <2>3, <2>9
    <3>2. ASSUME HoldsData, NEW k \in 1 .. Len(inflight')
          PROVE  inflight'[k] = read_addr' - Len(inflight') + k - 1
      BY <2>1, <2>2, <2>3, <2>9, <3>2
    <3> QED BY <2>1, <2>2, <3>1, <3>2 DEF ReadsAccounted
  <2>11. ASSUME HoldsData
         PROVE  /\ Head(inflight) = read_addr - rd_cnt - 1
                /\ pf_regs'[0] = NoWord
                /\ \A i \in 1 .. (NREADS - 1 - rd_cnt) : i # n =>
                     pf_regs'[i] = read_addr - NREADS + i - 1
                /\ pf_regs'[n] = read_addr - rd_cnt - 1
    <3>1. Head(inflight) = read_addr - rd_cnt - 1
      BY <2>2, <2>3, <2>9, <2>11
    <3>2. /\ pf_regs[0] = NoWord
          /\ \A i \in 1 .. (NREADS - 1 - rd_cnt) :
               pf_regs[i] = read_addr - NREADS + i - 1
      BY <2>1, <2>11 DEF DramInv, RegistersFill
    <3>3. n \in 0 .. (NREADS - 1) /\ n # 0 /\ 0 \in 0 .. (NREADS - 1)
          /\ \A i \in 1 .. (NREADS - 1 - rd_cnt) : i \in 0 .. (NREADS - 1)
      BY <2>2, <2>4
    <3>4. /\ pf_regs'[n] = Head(inflight)
          /\ \A i \in 0 .. (NREADS - 1) : i # n => pf_regs'[i] = pf_regs[i]
      <4> HIDE DEF n, S
      <4> QED BY <2>1, <2>2, <3>3, Stored
    <3> HIDE DEF n
    <3> QED BY <3>1, <3>2, <3>3, <3>4
  <2>12. RegistersFill'
    <3>1. CASE rd_cnt = 0
      BY <2>1, <3>1 DEF RegistersFill
    <3>2. CASE rd_cnt # 0
      <4>1. n = NREADS - rd_cnt
        BY <2>2, <3>2 DEF Select
      <4> HIDE DEF n
      <4>2. rd_cnt \in Nat /\ rd_cnt' = rd_cnt - 1 /\ read_addr' = read_addr
        BY <2>1, <2>2, <3>2
      <4>3. ASSUME HoldsData, NEW i \in 1 .. (NREADS - 1 - rd_cnt')
            PROVE  pf_regs'[i] = read_addr' - NREADS + i - 1
        <5>1. i \in 1 .. (NREADS - rd_cnt)
          BY <4>2
        <5>2. CASE i = n
          BY <2>2, <2>11, <4>1, <4>2, <4>3, <5>2
        <5>3. CASE i # n
          <6>1. i \in 1 .. (NREADS - 1 - rd_cnt)
            BY <4>1, <4>2, <5>1, <5>3
          <6> QED BY <2>11, <4>2, <4>3, <5>3, <6>1
        <5> QED BY <5>2, <5>3
      <4> QED BY <2>11, <4>3 DEF RegistersFill
    <3> QED BY <3>1, <3>2
  <2>13. RegistersKept'
    <3>1. CASE rd_cnt # 0
      BY <2>1, <3>1 DEF RegistersKept
    <3>2. CASE rd_cnt = 0
      <4>1. n = NREADS - 1
        BY <3>2 DEF Select
      <4>2. b * NREADS \in Nat
        BY BlockAddress
      <4>3. HoldsData => \A i \in 1 .. (NREADS - 1) : pf_regs'[i] = Landed(b, i)
        BY <2>7, <2>11, <3>2, <4>1, <4>2 DEF Landed
      <4> QED BY <2>11, <4>3 DEF RegistersKept, Landed
    <3> QED BY <3>1, <3>2
  <2> QED BY <2>6, <2>8, <2>10, <2>12, <2>13 DEF DramInv
<1> QED BY <1>1, <1>2

-----------------------------------------------------------------------------
(* The SPI side's types.                                                     *)
SpiTypeOK ==
  /\ csn \in {0, 1} /\ clk \in {0, 1} /\ rst \in {0, 1}
  /\ state \in {"get_cmd", "rdid", "read_get_addr", "read_get_data", "bad_cmd_err"}
  /\ cmd_bit_cnt \in 0 .. (CMD_BITS - 1)
  /\ addr \in Addr /\ addr_cnt \in 0 .. ADDR_BITS
  /\ dr \in Byte /\ dr_bit_cnt \in 0 .. (DATA_BITS - 1)
  /\ id_pos \in 0 .. (ID_BITS - 1)
  /\ paddr \in Block
  /\ so \in [src : Byte, bit : 0 .. (DATA_BITS - 1)]
  /\ sync1 \in {0, 1} /\ sync2 \in {0, 1} /\ moved \in BOOLEAN
  /\ ticks \in 0 .. TICKS /\ stall \in 0 .. MAX_STALL

AddrCounts == rst = 0 /\ state # "read_get_data" => addr_cnt < ADDR_BITS

LEMMA Wraps ==
  ASSUME NEW n \in Nat \ {0}, NEW x \in Nat PROVE x % n \in 0 .. (n - 1)
BY SMT

LEMMA Divides ==
  ASSUME NEW n \in Nat \ {0}, NEW x \in Nat PROVE x \div n \in Nat
BY SMT

LEMMA Sizes ==
  /\ 2 ^ ADDR_BITS \in Nat \ {0} /\ 0 \in Addr /\ 0 \in Block
  /\ CMD_BITS \in Nat \ {0} /\ DATA_BITS \in Nat \ {0} /\ ID_BITS \in Nat \ {0}
  /\ NBYTES \in Nat \ {0} /\ PFR_SPAN \in Nat \ {0}
<1>1. NREADS * NBYTES \in Nat \ {0}
  BY LiteAssumption
<1>2. BLOCKS * (NREADS * NBYTES) \in Nat \ {0}
  BY <1>1
<1>3. 2 ^ ADDR_BITS = BLOCKS * (NREADS * NBYTES)
  BY LiteAssumption
<1> QED BY <1>2, <1>3, LiteAssumption DEF Addr, Block

LEMMA NoByteType == NoByte \in Byte
BY Sizes DEF NoByte, Byte

LEMMA ByteSelType ==
  ASSUME DramTypeOK, addr \in Addr, dr \in Byte PROVE DrTmp \in Byte
<1>1. addr \in Nat
  BY Sizes DEF Addr
<1>2. addr % NBYTES \in 0 .. (NBYTES - 1) /\ addr \div NBYTES \in Nat
  BY <1>1, Sizes, Wraps, Divides
<1>3. PfrIdx \in Nat
  BY <1>2, Sizes, Wraps DEF PfrIdx
<1>4. Select(PfrIdx) \in 0 .. (NREADS - 1)
  BY <1>3 DEF Select
<1>5. ByteSel \in Byte
  BY <1>2, <1>4 DEF ByteSel, Byte, DramTypeOK
<1> QED BY <1>5 DEF DrTmp

LEMMA RiseType ==
  ASSUME SpiTypeOK, AddrCounts, DramTypeOK, SpiRise
  PROVE  SpiTypeOK' /\ AddrCounts'
<1>1. /\ cmd_bit_cnt' \in 0 .. (CMD_BITS - 1) /\ id_pos' \in 0 .. (ID_BITS - 1)
      /\ dr_bit_cnt' \in 0 .. (DATA_BITS - 1)
  <2>1. cmd_bit_cnt + 1 \in Nat /\ id_pos + 1 \in Nat /\ dr_bit_cnt + 1 \in Nat
    BY Sizes DEF SpiTypeOK
  <2>2. /\ (cmd_bit_cnt + 1) % CMD_BITS \in 0 .. (CMD_BITS - 1)
        /\ (id_pos + 1) % ID_BITS \in 0 .. (ID_BITS - 1)
        /\ (dr_bit_cnt + 1) % DATA_BITS \in 0 .. (DATA_BITS - 1)
    BY <2>1, Sizes, Wraps
  <2>3. /\ 1 \in 0 .. (CMD_BITS - 1) /\ 0 \in 0 .. (ID_BITS - 1)
        /\ 0 \in 0 .. (DATA_BITS - 1)
    BY LiteAssumption
  <2> QED
    BY <2>2, <2>3
       DEF SpiTypeOK, SpiRise, SpiReset, GetCmd, Rdid, ReadGetAddr, ReadGetData,
           BadCmdErr, spiVars
<1>2. addr' \in Addr
  <2>1. addr \in Nat
    BY Sizes DEF SpiTypeOK, Addr
  <2>2. \A x \in Nat : x % 2 ^ ADDR_BITS \in Addr
    BY Sizes, Wraps DEF Addr
  <2>3. addr + 1 \in Nat /\ \A b \in {0, 1} : 2 * addr + b \in Nat
    BY <2>1
  <2> QED
    BY <2>2, <2>3, Sizes
       DEF SpiTypeOK, SpiRise, SpiReset, GetCmd, Rdid, ReadGetAddr, ReadGetData,
           BadCmdErr, spiVars
<1>3. paddr' \in Block
  <2>1. \A x \in Addr : x % BLOCKS \in Block
    BY Sizes, Wraps DEF Addr, Block
  <2> QED
    BY <1>2, <2>1, Sizes
       DEF SpiTypeOK, SpiRise, SpiReset, GetCmd, Rdid, ReadGetAddr, ReadGetData,
           BadCmdErr, spiVars
<1>4. dr' \in Byte
  BY ByteSelType, NoByteType
     DEF SpiTypeOK, SpiRise, SpiReset, GetCmd, Rdid, ReadGetAddr, ReadGetData,
         BadCmdErr, spiVars
<1>5. addr_cnt' \in 0 .. ADDR_BITS /\ AddrCounts'
  BY LiteAssumption
     DEF SpiTypeOK, AddrCounts, SpiRise, SpiReset, GetCmd, Rdid, ReadGetAddr,
         ReadGetData, BadCmdErr, spiVars
<1>6. state' \in {"get_cmd", "rdid", "read_get_addr", "read_get_data", "bad_cmd_err"}
  BY DEF SpiTypeOK, SpiRise, SpiReset, GetCmd, Rdid, ReadGetAddr, ReadGetData,
         BadCmdErr, spiVars
<1>7. ticks' \in 0 .. TICKS /\ moved' \in BOOLEAN
  BY LiteAssumption DEF SpiTypeOK, SpiRise
<1> QED
  BY <1>1, <1>2, <1>3, <1>4, <1>5, <1>6, <1>7 DEF SpiTypeOK, SpiRise, syncVars

Inv == SpiTypeOK /\ AddrCounts /\ DramInv

LEMMA InitInv == Init => Inv
<1> SUFFICES ASSUME Init PROVE Inv
  OBVIOUS
<1>1. SpiTypeOK /\ AddrCounts
  <2>1. /\ 1 \in 0 .. (CMD_BITS - 1) /\ 0 \in 0 .. (ID_BITS - 1)
        /\ 0 \in 0 .. (DATA_BITS - 1) /\ 0 \in 0 .. ADDR_BITS
        /\ 0 \in 0 .. TICKS /\ 0 \in 0 .. MAX_STALL
    BY LiteAssumption
  <2>2. [src |-> NoByte, bit |-> 0] \in [src : Byte, bit : 0 .. (DATA_BITS - 1)]
    BY <2>1, NoByteType
  <2>3. so \in [src : Byte, bit : 0 .. (DATA_BITS - 1)] /\ moved \in BOOLEAN
    BY <2>2 DEF Init, NothingShown
  <2>4. AddrCounts
    BY DEF Init, AddrCounts
  <2> QED BY <2>1, <2>3, <2>4, Sizes, NoByteType DEF Init, SpiTypeOK
<1> QED BY <1>1, DramInitInv DEF Init, Inv

LEMMA SysInv ==
  ASSUME Inv, NEW ready \in {0, 1}, NEW valid \in {0, 1}, SysTick(ready, valid)
  PROVE  Inv'
<1>1. PICK p \in Block : DramClock(sync2, p, ready, valid)
  BY DEF Inv, SpiTypeOK, SysTick
<1>2. DramInv'
  BY <1>1, IdleInv, LaunchInv, LandInv DEF Inv, SpiTypeOK, DramClock, Answers
<1>3. ticks' \in 0 .. TICKS /\ stall' \in 0 .. MAX_STALL
  <2>1. CASE TIMED
    <3>1. dram_state = "IDLE" => ~Waits(ready, valid)
      BY DEF Waits
    <3> QED BY <2>1, <3>1, LiteAssumption DEF Inv, SpiTypeOK, SysTick
  <2>2. CASE ~TIMED
    BY <2>2 DEF Inv, SpiTypeOK, SysTick
  <2> QED BY <2>1, <2>2
<1>4. sync1' \in {0, 1} /\ sync2' \in {0, 1} /\ moved' \in BOOLEAN
  BY DEF Inv, SpiTypeOK, SysTick, PaddrValid
<1>5. SpiTypeOK' /\ AddrCounts'
  BY <1>3, <1>4 DEF Inv, SpiTypeOK, AddrCounts, SysTick, pinVars, spiVars
<1> QED BY <1>2, <1>5 DEF Inv

LEMMA DramUntouched == ASSUME DramInv, UNCHANGED dramVars PROVE DramInv'
<1>1. DramTypeOK' /\ AddressesBlock'
  BY DEF DramInv, dramVars, DramTypeOK, AddressesBlock, Launched
<1>2. ReadsAccounted'
  BY DEF DramInv, dramVars, ReadsAccounted
<1>3. RegistersFill' /\ RegistersKept'
  BY DEF DramInv, dramVars, RegistersFill, RegistersKept, Landed
<1> QED BY <1>1, <1>2, <1>3 DEF DramInv

LEMMA ShownType ==
  ASSUME Inv
  PROVE  /\ Shown \in [src : Byte, bit : 0 .. (DATA_BITS - 1)]
         /\ NothingShown \in [src : Byte, bit : 0 .. (DATA_BITS - 1)]
<1>1. Shown \in [src : Byte, bit : 0 .. (DATA_BITS - 1)]
  BY ByteSelType, NoByteType DEF Inv, DramInv, SpiTypeOK, Shown
<1>2. 0 \in 0 .. (DATA_BITS - 1)
  BY LiteAssumption
<1>3. NothingShown \in [src : Byte, bit : 0 .. (DATA_BITS - 1)]
  BY <1>2, NoByteType DEF NothingShown
<1> QED BY <1>1, <1>3

LEMMA NextInv == ASSUME Inv, [Next]_vars PROVE Inv'
<1> USE DEF pinVars, spiVars, syncVars
<1>1. CASE SpiRise
  BY <1>1, RiseType, DramUntouched DEF Inv, DramInv, SpiRise
<1>2. CASE SpiFall
  <2>1. so' \in [src : Byte, bit : 0 .. (DATA_BITS - 1)]
    BY <1>2, ShownType DEF SpiFall
  <2>2. SpiTypeOK' /\ AddrCounts'
    BY <1>2, <2>1 DEF Inv, SpiTypeOK, AddrCounts, SpiFall
  <2> QED BY <1>2, <2>2, DramUntouched DEF Inv, SpiFall
<1>3. CASE CsnFall
  BY <1>3, DramUntouched DEF Inv, SpiTypeOK, AddrCounts, CsnFall
<1>4. CASE CsnRise
  <2>1. so' \in [src : Byte, bit : 0 .. (DATA_BITS - 1)]
    BY <1>4, ShownType DEF CsnRise, Inv, SpiTypeOK
  <2> QED BY <1>4, <2>1, DramUntouched DEF Inv, SpiTypeOK, AddrCounts, CsnRise
<1>5. CASE Sys
  BY <1>5, SysInv DEF Sys
<1>6. CASE UNCHANGED vars
  BY <1>6, DramUntouched DEF Inv, SpiTypeOK, AddrCounts, vars
<1> QED BY <1>1, <1>2, <1>3, <1>4, <1>5, <1>6 DEF Next

LEMMA Invariance == Spec => []Inv
<1>1. Inv /\ [Next]_vars => Inv'
  BY NextInv
<1> QED BY InitInv, <1>1, PTL DEF Spec

(* Every register, counter and queue stays within its width.                 *)
THEOREM TypeCorrect == Spec => []TypeOK
<1>1. Inv => TypeOK
  BY DEF Inv, SpiTypeOK, DramInv, TypeOK
<1> QED BY Invariance, <1>1, PTL

(* Over a port that holds its data, for every block size and whatever the    *)
(* host does: no read is left in flight between prefetches, and the words in *)
(* flight are the last ones launched, in order (emu_dram.py:110-151).        *)
THEOREM PrefetchAccounting == Spec => []ReadsAccounted
<1>1. Inv => ReadsAccounted
  BY DEF Inv, DramInv
<1> QED BY Invariance, <1>1, PTL

(* Between prefetches the registers never mix two blocks, even when the host *)
(* moves the requested address while the prefetcher latches it.              *)
THEOREM PrefetchedBlock == Spec => []RegistersSettle
<1>1. Inv => RegistersSettle
  BY DEF Inv, DramInv, RegistersKept, RegistersSettle
<1> QED BY Invariance, <1>1, PTL

-----------------------------------------------------------------------------
(* Time.  What the registers hold when a byte is due.                        *)

(* The partial address is complete with this bit of the address, and then    *)
(* the block is asked for.                                                   *)
RequestAt == ADDR_BITS - PREFETCH_BITS

(* System clocks a prefetch takes at most, and, of one under way, has left.  *)
Whole == 2 * NREADS + MAX_STALL
Left == CASE dram_state = "RD_LAUNCH" -> rd_cnt + 1 + NREADS + MAX_STALL - stall
          [] dram_state = "RD_LAND" -> rd_cnt + 1 + MAX_STALL - stall
          [] OTHER -> 0
Busy == dram_state # "IDLE"

(* At least so many of them have passed since the first bit of a command,    *)
(* and since the request.                                                    *)
Rises == IF state = "get_cmd" THEN cmd_bit_cnt - 1 ELSE CMD_BITS - 1 + addr_cnt
Elapsed == TICKS * Rises + ticks
Since == TICKS * (addr_cnt - RequestAt) + ticks

(* When a prefetch of this request is begun at the latest, counted from it:  *)
(* one that an earlier transaction left pending begins two clocks after that *)
(* one's last level and goes first.                                          *)
ToRequest == TICKS * (CMD_BITS - 1 + RequestAt)
Latest == IF ToRequest >= Whole THEN 2 ELSE 2 + Whole - ToRequest

(* The time there has to be: for the prefetch, for one that goes first, and  *)
(* for that one to be over before the request is withdrawn.                  *)
EnoughTime ==
  /\ HoldsData /\ TICKS > 1
  /\ Whole + 2 <= TICKS * PREFETCH_BITS
  /\ 2 * Whole + 2 <= TICKS * (CMD_BITS + ADDR_BITS - 1)
  /\ Whole + 1 <= TICKS * (CMD_BITS + ADDR_BITS - PREFETCH_BITS)

Fetches(b) == Busy => read_addr = b * NREADS + Launched
Holds(b) == \A i \in 1 .. (NREADS - 1) : pf_regs[i] \div NREADS = b
Settled == Holds(paddr) /\ Fetches(paddr)

Counting == rst = 0 /\ state = "get_cmd" => cmd_bit_cnt >= 1 /\ addr_cnt = 0

BeforeRequest ==
  rst = 0 /\ \/ state = "get_cmd"
             \/ state = "read_get_addr" /\ addr_cnt < RequestAt
AfterRequest == rst = 0 /\ state = "read_get_addr" /\ addr_cnt >= RequestAt
InData == rst = 0 /\ state = "read_get_data"

(* Until the request the prefetcher at most ends what was left pending.      *)
Early == BeforeRequest => /\ Elapsed >= 1 => sync1 = 0
                          /\ Elapsed >= 2 => sync2 = 0
                          /\ Busy => Left + Elapsed <= Whole + 2

(* The request crosses over while it is up.                                  *)
Crossing ==
  AfterRequest =>
    /\ moved => addr_cnt = RequestAt /\ ticks = 0 /\ sync1 = 0 /\ sync2 = 0
    /\ addr_cnt = RequestAt /\ ticks >= 1 => sync1 = 1
    /\ addr_cnt = RequestAt /\ ticks >= 2 => sync2 = 1
    /\ addr_cnt = RequestAt + 1 /\ ticks = 0 => sync1 = 1
    /\ addr_cnt = RequestAt + 1 /\ ticks <= 1 => sync2 = 1

(* Its prefetch waits, is under way, or is done.                             *)
Waiting == Left + Since <= Latest
Fetching == Busy /\ Fetches(paddr) /\ Left + Since <= Latest + 1 + Whole
Answering == AfterRequest => Waiting \/ Fetching \/ Settled

Answered == InData => ~moved /\ Settled

InTime == Counting /\ (TIMED => Early /\ Crossing /\ Answering /\ Answered)

(* What a quotient makes of a multiple and a rest.                           *)
LEMMA Quotient ==
  ASSUME NEW n \in Nat \ {0}, NEW b \in Nat, NEW j \in 0 .. (n - 1)
  PROVE  (b * n + j) \div n = b
<1> DEFINE x == b * n + j
           q == x \div n
<1>1. x \in Nat
  <2>1. b * n \in Nat
    OBVIOUS
  <2> QED BY <2>1
<1>2. \A m \in Nat \ {0}, y \in Nat :
        /\ y \div m \in Nat /\ y % m \in 0 .. (m - 1)
        /\ y = m * (y \div m) + (y % m)
  BY SMT
<1>3. PICK r \in 0 .. (n - 1) : q \in Nat /\ b * n + j = n * q + r
  BY <1>1, <1>2
<1> HIDE DEF q, x
<1>4. \A k \in Nat, d \in Nat : n * (k + 1 + d) >= n * k + n
  <2> SUFFICES ASSUME NEW k \in Nat, NEW d \in Nat PROVE n * (k + 1 + d) >= n * k + n
    OBVIOUS
  <2>1. n * d \in Nat /\ n * k \in Nat /\ n * (k + 1 + d) = n * k + n + n * d
    OBVIOUS
  <2> QED BY <2>1
<1>5. n * b \in Nat /\ n * q \in Nat /\ b * n = n * b
  BY <1>3
<1>6. ~(b < q)
  <2> SUFFICES ASSUME b < q PROVE FALSE
    OBVIOUS
  <2>1. q - b - 1 \in Nat /\ q = b + 1 + (q - b - 1)
    BY <1>3
  <2>2. n * q >= n * b + n
    BY <1>4, <2>1
  <2> QED BY <1>3, <1>5, <2>2
<1>7. ~(q < b)
  <2> SUFFICES ASSUME q < b PROVE FALSE
    OBVIOUS
  <2>1. b - q - 1 \in Nat /\ b = q + 1 + (b - q - 1)
    BY <1>3
  <2>2. n * b >= n * q + n
    BY <1>3, <1>4, <2>1
  <2> QED BY <1>3, <1>5, <2>2
<1>8. b = q
  BY <1>3, <1>6, <1>7
<1> QED BY <1>8 DEF q, x

(* The bounds, as the steps need them.                                       *)
LEMMA Bounds ==
  ASSUME EnoughTime
  PROVE  /\ HoldsData
         /\ TICKS \in Nat /\ TICKS > 1 /\ Whole \in Nat /\ MAX_STALL \in Nat
         /\ CMD_BITS \in Nat /\ CMD_BITS > 1 /\ ADDR_BITS \in Nat
         /\ PREFETCH_BITS \in Nat \ {0} /\ RequestAt \in Nat \ {0}
         /\ RequestAt + PREFETCH_BITS = ADDR_BITS
         /\ ToRequest \in Nat /\ ToRequest >= 2
         /\ Latest \in Nat /\ Latest >= 2 /\ Latest <= TICKS + 1
         /\ Whole + 2 - ToRequest <= Latest
         /\ Latest + Whole <= TICKS * PREFETCH_BITS /\ TICKS * PREFETCH_BITS \in Nat
<1> USE LiteAssumption
<1>1. /\ TICKS \in Nat /\ TICKS > 1 /\ Whole \in Nat /\ MAX_STALL \in Nat
      /\ CMD_BITS \in Nat /\ CMD_BITS > 1 /\ ADDR_BITS \in Nat
      /\ PREFETCH_BITS \in Nat \ {0} /\ RequestAt \in Nat \ {0}
      /\ RequestAt + PREFETCH_BITS = ADDR_BITS
  BY DEF EnoughTime, Whole, RequestAt
<1>2. \A t \in Nat, c \in Nat, r \in Nat, p \in Nat :
        /\ t * (c + (r + p) - 1) = t * (c - 1 + r) + t * p
        /\ t * (c + (r + p) - p) = t * (c - 1 + r) + t
  BY SMT
<1>3. /\ TICKS * (CMD_BITS + ADDR_BITS - 1) = ToRequest + TICKS * PREFETCH_BITS
      /\ TICKS * (CMD_BITS + ADDR_BITS - PREFETCH_BITS) = ToRequest + TICKS
  BY <1>1, <1>2 DEF ToRequest
<1>4. ToRequest \in Nat /\ ToRequest >= 2
  <2>1. \A t \in Nat, k \in Nat : t > 1 /\ k > 0 => t * k \in Nat /\ t * k >= 2
    BY SMT
  <2>2. CMD_BITS - 1 + RequestAt \in Nat /\ CMD_BITS - 1 + RequestAt > 0
    BY <1>1
  <2> QED BY <1>1, <2>1, <2>2 DEF ToRequest
<1>5. TICKS * PREFETCH_BITS \in Nat
  BY <1>1
<1> QED BY <1>1, <1>3, <1>4, <1>5 DEF EnoughTime, Latest

LEMMA LeftType ==
  ASSUME Inv
  PROVE  /\ Left \in Nat /\ Left <= Whole
         /\ ~Busy => Left = 0
         /\ Busy => Left > 0
<1>1. /\ dram_state \in {"IDLE", "RD_LAUNCH", "RD_LAND"} /\ rd_cnt \in 0 .. (NREADS - 1)
      /\ stall \in 0 .. MAX_STALL
  BY DEF Inv, SpiTypeOK, DramInv, DramTypeOK
<1> QED BY <1>1, LiteAssumption DEF Left, Busy, Whole

(* A word that lands is of the block that is fetched.                        *)
LEMMA LandsInBlock ==
  ASSUME Inv, HoldsData, NEW b \in Block, dram_state = "RD_LAND", Fetches(b)
  PROVE  /\ inflight # << >> => Head(inflight) \div NREADS = b
         /\ \A i \in 1 .. (NREADS - 1 - rd_cnt) : pf_regs[i] \div NREADS = b
<1>1. /\ inflight \in Seq(0 .. (BLOCKS * NREADS - 1)) /\ rd_cnt \in 0 .. (NREADS - 1)
      /\ read_addr = b * NREADS + NREADS /\ b \in Nat /\ b * NREADS \in Nat
      /\ NREADS \in Nat \ {0}
  BY BlockAddress DEF Inv, DramInv, DramTypeOK, Fetches, Busy, Launched, Block
<1>2. ASSUME inflight # << >>
      PROVE  Head(inflight) \div NREADS = b
  <2>1. Head(inflight) = read_addr - rd_cnt - 1
    <3>1. /\ Len(inflight) = rd_cnt + 1
          /\ \A k \in 1 .. Len(inflight) : inflight[k] = read_addr - Len(inflight) + k - 1
      BY DEF Inv, DramInv, ReadsAccounted
    <3>2. Head(inflight) = inflight[1]
      BY <1>1, <1>2, TakeOne
    <3>3. inflight[1] = read_addr - (rd_cnt + 1) + 1 - 1
      BY <1>1, <3>1
    <3> QED BY <1>1, <3>2, <3>3
  <2>2. Head(inflight) = b * NREADS + (NREADS - 1 - rd_cnt) /\ NREADS - 1 - rd_cnt \in 0 .. (NREADS - 1)
    BY <1>1, <2>1
  <2> QED BY <1>1, <2>2, Quotient
<1>3. ASSUME NEW i \in 1 .. (NREADS - 1 - rd_cnt)
      PROVE  pf_regs[i] \div NREADS = b
  <2>1. pf_regs[i] = read_addr - NREADS + i - 1
    BY DEF Inv, DramInv, RegistersFill
  <2>2. pf_regs[i] = b * NREADS + (i - 1) /\ i - 1 \in 0 .. (NREADS - 1)
    BY <1>1, <2>1
  <2> QED BY <1>1, <2>2, Quotient
<1> QED BY <1>2, <1>3

(* Before the very last word lands the block is complete: that word goes to  *)
(* the register of the one before.                                           *)
LEMMA LastLands ==
  ASSUME EnoughTime, Inv, NEW b \in Block, Busy, Left <= 1, Fetches(b)
  PROVE  Holds(b)
<1>1. /\ dram_state \in {"IDLE", "RD_LAUNCH", "RD_LAND"} /\ rd_cnt \in 0 .. (NREADS - 1)
      /\ stall \in 0 .. MAX_STALL
  BY DEF Inv, SpiTypeOK, DramInv, DramTypeOK
<1>2. dram_state = "RD_LAND" /\ rd_cnt = 0
  BY <1>1, Bounds DEF Busy, Left
<1> QED BY <1>2, LandsInBlock DEF EnoughTime, Holds


(* A clock of the prefetcher, busy or idle.                                  *)
LEMMA BusyTick ==
  ASSUME HoldsData, Inv, TIMED, NEW ready \in {0, 1}, NEW valid \in {0, 1},
         SysTick(ready, valid), Busy, NEW b \in Block
  PROVE  /\ Left' <= Left - 1 /\ Left' \in Nat
         /\ Fetches(b) => Fetches(b)'
         /\ Fetches(b) /\ ~Busy' => Holds(b)'
         /\ Fetches(b) /\ Holds(b) => Holds(b)'
<1>1. /\ dram_state \in {"RD_LAUNCH", "RD_LAND"} /\ rd_cnt \in 0 .. (NREADS - 1)
      /\ stall \in 0 .. MAX_STALL /\ MAX_STALL \in Nat /\ HoldsData
      /\ pf_regs \in [0 .. (NREADS - 1) -> {NoWord} \cup 0 .. (BLOCKS * NREADS - 1)]
      /\ read_addr \in Nat /\ b * NREADS \in Nat
  BY LiteAssumption, BlockAddress DEF Inv, SpiTypeOK, DramInv, DramTypeOK, Busy
<1>2. /\ Waits(ready, valid) => stall < MAX_STALL
      /\ stall' = IF Waits(ready, valid) THEN stall + 1 ELSE stall
      /\ valid = 1 => inflight # << >>
      /\ Launch(ready, valid) \/ Land(valid)
  BY <1>1 DEF SysTick, DramClock, Answers, Idle
<1>3. CASE Launch(ready, valid)
  <2>1. /\ dram_state = "RD_LAUNCH" /\ pf_regs' = pf_regs
        /\ Waits(ready, valid) <=> ready = 0
    BY <1>3 DEF Launch, Waits
  <2>2. CASE ready = 0
    <3>1. UNCHANGED <<dram_state, rd_cnt, read_addr>> /\ stall' = stall + 1 /\ stall < MAX_STALL
      BY <1>2, <1>3, <2>1, <2>2 DEF Launch
    <3> QED BY <1>1, <2>1, <3>1 DEF Left, Fetches, Launched, Holds, Busy
  <2>3. CASE ready = 1
    <3>1. /\ read_addr' = read_addr + 1 /\ stall' = stall
          /\ dram_state' = IF rd_cnt = 0 THEN "RD_LAND" ELSE "RD_LAUNCH"
          /\ rd_cnt' = IF rd_cnt = 0 THEN NREADS - 1 ELSE rd_cnt - 1
      BY <1>2, <1>3, <2>1, <2>3 DEF Launch
    <3>2. Left' = Left - 1 /\ Left' \in Nat
      <4>1. Left = rd_cnt + 1 + NREADS + MAX_STALL - stall
        BY <2>1 DEF Left
      <4>2. Left' = IF rd_cnt = 0 THEN NREADS + MAX_STALL - stall
                    ELSE rd_cnt + NREADS + MAX_STALL - stall
        <5>1. CASE rd_cnt = 0
          <6>1. dram_state' = "RD_LAND" /\ rd_cnt' = NREADS - 1 /\ stall' = stall
            BY <3>1, <5>1
          <6>2. Left' = NREADS - 1 + 1 + MAX_STALL - stall
            BY <6>1 DEF Left
          <6> QED BY <1>1, <5>1, <6>2
        <5>2. CASE rd_cnt # 0
          <6>1. dram_state' = "RD_LAUNCH" /\ rd_cnt' = rd_cnt - 1 /\ stall' = stall
            BY <3>1, <5>2
          <6>2. Left' = rd_cnt - 1 + 1 + NREADS + MAX_STALL - stall
            BY <6>1 DEF Left
          <6> QED BY <1>1, <5>2, <6>2
        <5> QED BY <5>1, <5>2
      <4> QED BY <1>1, <4>1, <4>2
    <3>3. Launched' = Launched + 1
      BY <1>1, <2>1, <3>1 DEF Launched
    <3>4. Launched \in Nat
      BY <1>1, <2>1 DEF Launched
    <3> QED BY <1>1, <2>1, <3>1, <3>2, <3>3, <3>4 DEF Fetches, Holds, Busy
  <2> QED BY <2>2, <2>3
<1>4. CASE Land(valid)
  <2>1. /\ dram_state = "RD_LAND" /\ read_addr' = read_addr
        /\ Waits(ready, valid) <=> valid = 0
    BY <1>4 DEF Land, Waits
  <2>2. CASE valid = 0
    <3>1. UNCHANGED <<dram_state, rd_cnt, pf_regs>> /\ stall' = stall + 1 /\ stall < MAX_STALL
      BY <1>2, <1>4, <2>1, <2>2 DEF Land
    <3> QED BY <1>1, <2>1, <3>1 DEF Left, Fetches, Launched, Holds, Busy
  <2>3. CASE valid = 1
    <3>1. /\ stall' = stall
          /\ dram_state' = IF rd_cnt = 0 THEN "IDLE" ELSE "RD_LAND"
          /\ rd_cnt' = IF rd_cnt = 0 THEN NREADS - 1 ELSE rd_cnt - 1
          /\ pf_regs' = [pf_regs EXCEPT ![LandIndex] = Head(inflight)]
      BY <1>2, <1>4, <2>1, <2>3 DEF Land, LastLanding
    <3>2. Left' <= Left - 1 /\ Left' \in Nat
      BY <1>1, <2>1, <3>1 DEF Left
    <3>3. Fetches(b) => Fetches(b)'
      BY <2>1, <3>1 DEF Fetches, Launched, Busy
    <3>4. LandIndex \in 1 .. (NREADS - 1) /\ LandIndex = IF rd_cnt = 0 THEN NREADS - 1 ELSE NREADS - rd_cnt
      BY <1>1 DEF LandIndex, Select
    <3>5. \A i \in 1 .. (NREADS - 1) : pf_regs'[i] = IF i = LandIndex THEN Head(inflight) ELSE pf_regs[i]
      BY <1>1, <3>1
    <3>6. ASSUME Fetches(b)
          PROVE  /\ Head(inflight) \div NREADS = b
                 /\ \A i \in 1 .. (NREADS - 1 - rd_cnt) : pf_regs[i] \div NREADS = b
      BY <1>1, <1>2, <2>1, <2>3, <3>6, LandsInBlock
    <3>7. Fetches(b) /\ Holds(b) => Holds(b)'
      BY <3>5, <3>6 DEF Holds
    <3>8. ASSUME Fetches(b), ~Busy'
          PROVE  Holds(b)'
      <4>1. rd_cnt = 0
        BY <3>1, <3>8 DEF Busy
      <4>2. NREADS - 1 - rd_cnt = NREADS - 1
        BY <4>1
      <4> QED BY <3>5, <3>6, <3>8, <4>2 DEF Holds
    <3> QED BY <3>2, <3>3, <3>7, <3>8
  <2> QED BY <2>2, <2>3
<1> QED BY <1>2, <1>3, <1>4

LEMMA IdleTick ==
  ASSUME Inv, TIMED, NEW ready \in {0, 1}, NEW valid \in {0, 1},
         SysTick(ready, valid), ~Busy
  PROVE  /\ pf_regs' = pf_regs
         /\ sync2 = 0 => ~Busy' /\ Left' = 0
         /\ sync2 = 1 => Busy' /\ Left' = Whole
         /\ sync2 = 1 /\ ~moved => Fetches(paddr)'
<1>1. PICK p \in (IF moved /\ sync2 = 1 /\ dram_state = "IDLE" THEN Block ELSE {paddr}) :
        DramClock(sync2, p, ready, valid)
  BY DEF SysTick
<1>2. /\ dram_state = "IDLE" /\ sync2 \in {0, 1} /\ paddr' = paddr /\ stall' = 0
  <2>1. dram_state = "IDLE" /\ ~Waits(ready, valid)
    BY DEF Busy, Waits
  <2> QED BY <2>1 DEF Inv, SpiTypeOK, SysTick, spiVars
<1>3. Idle(sync2, p, valid)
  BY <1>1, <1>2 DEF DramClock, Launch, Land
<1>4. CASE sync2 = 0
  BY <1>2, <1>3, <1>4 DEF Idle, Busy, Left
<1>5. CASE sync2 = 1
  <2>1. /\ pf_regs' = pf_regs /\ rd_cnt' = NREADS - 1 /\ dram_state' = "RD_LAUNCH"
        /\ read_addr' = p * NREADS
    BY <1>3, <1>5 DEF Idle
  <2>2. Left' = Whole
    BY <1>2, <2>1, LiteAssumption DEF Left, Whole
  <2>3. ASSUME ~moved PROVE Fetches(paddr)'
    <3>1. p = paddr /\ paddr \in Block
      BY <1>1, <2>3 DEF Inv, SpiTypeOK
    <3>2. Launched' = 0 /\ paddr * NREADS \in Nat
      BY <2>1, <3>1, BlockAddress DEF Launched
    <3> QED BY <1>2, <2>1, <3>1, <3>2 DEF Fetches
  <2> QED BY <1>5, <2>1, <2>2, <2>3 DEF Busy
<1> QED BY <1>2, <1>4, <1>5


(* The clocks counted.                                                       *)
LEMMA TimeType ==
  ASSUME EnoughTime, Inv, Counting
  PROVE  /\ ticks \in 0 .. TICKS /\ addr_cnt \in 0 .. ADDR_BITS
         /\ BeforeRequest => Rises \in Nat /\ Elapsed \in Nat
         /\ AfterRequest => addr_cnt - RequestAt \in Nat /\ Since \in Nat
<1>1. /\ ticks \in 0 .. TICKS /\ addr_cnt \in 0 .. ADDR_BITS /\ cmd_bit_cnt \in 0 .. (CMD_BITS - 1)
  BY DEF Inv, SpiTypeOK
<1>2. \A t \in Nat, k \in Nat : t * k \in Nat
  BY SMT
<1>3. ASSUME BeforeRequest PROVE Rises \in Nat
  BY <1>1, <1>3, Bounds DEF BeforeRequest, Counting, Rises
<1>4. ASSUME AfterRequest PROVE addr_cnt - RequestAt \in Nat
  BY <1>1, <1>4, Bounds DEF AfterRequest
<1>5. BeforeRequest => Elapsed \in Nat
  BY <1>1, <1>2, <1>3, Bounds DEF Elapsed
<1>6. AfterRequest => Since \in Nat
  BY <1>1, <1>2, <1>4, Bounds DEF Since
<1> QED BY <1>1, <1>3, <1>4, <1>5, <1>6

LEMMA OneRise ==
  ASSUME NEW t \in Nat, NEW k \in Nat PROVE t * (k + 1) + 0 = t * k + t
OBVIOUS

(* The request is there for a prefetch that may begin from two clocks after  *)
(* it on and begins in time.                                                 *)
LEMMA RequestSeen ==
  ASSUME EnoughTime, Inv, Counting, Crossing, AfterRequest, Since >= 2, Since <= TICKS + 1
  PROVE  sync2 = 1
<1>1. /\ ticks \in 0 .. TICKS /\ addr_cnt \in Nat /\ RequestAt \in Nat
      /\ TICKS \in Nat /\ TICKS > 1 /\ addr_cnt - RequestAt \in Nat
  BY TimeType, Bounds
<1>2. CASE addr_cnt = RequestAt
  <2>1. Since = ticks
    BY <1>1, <1>2 DEF Since
  <2> QED BY <1>2, <2>1 DEF Crossing
<1>3. CASE addr_cnt = RequestAt + 1
  <2>1. Since = TICKS + ticks
    BY <1>1, <1>3 DEF Since
  <2>2. ticks <= 1
    BY <1>1, <2>1
  <2> QED BY <1>3, <2>2 DEF Crossing
<1>4. CASE addr_cnt - RequestAt >= 2
  <2>1. \A t \in Nat, k \in Nat : k >= 2 => t * k >= 2 * t /\ t * k \in Nat
    BY SMT
  <2>2. TICKS * (addr_cnt - RequestAt) >= 2 * TICKS /\ TICKS * (addr_cnt - RequestAt) \in Nat
    BY <1>1, <1>4, <2>1
  <2> QED BY <1>1, <2>2 DEF Since
<1> QED BY <1>1, <1>2, <1>3, <1>4

LEMMA TickInTime ==
  ASSUME EnoughTime, Inv, InTime, NEW ready \in {0, 1}, NEW valid \in {0, 1},
         SysTick(ready, valid)
  PROVE  InTime'
<1>1. /\ UNCHANGED <<rst, state, cmd_bit_cnt, addr_cnt, paddr>>
      /\ sync1' = PaddrValid /\ sync2' = sync1 /\ moved' = FALSE
  BY DEF SysTick, pinVars, spiVars
<1>2. Counting'
  BY <1>1 DEF InTime, Counting
<1> SUFFICES ASSUME TIMED PROVE Early' /\ Crossing' /\ Answering' /\ Answered'
  BY <1>2 DEF InTime
<1>3. ticks' = IF ticks < TICKS THEN ticks + 1 ELSE ticks
  BY DEF SysTick
<1>4. Counting /\ Early /\ Crossing /\ Answering /\ Answered
  BY DEF InTime
<1>5. /\ ticks \in 0 .. TICKS /\ addr_cnt \in 0 .. ADDR_BITS /\ TICKS \in Nat /\ TICKS > 1
      /\ BeforeRequest => Elapsed \in Nat
      /\ AfterRequest => addr_cnt - RequestAt \in Nat /\ Since \in Nat
      /\ sync1 \in {0, 1} /\ sync2 \in {0, 1} /\ paddr \in Block /\ moved \in BOOLEAN
  BY <1>4, TimeType, Bounds DEF Inv, SpiTypeOK
<1>6. (BeforeRequest <=> BeforeRequest') /\ (AfterRequest <=> AfterRequest') /\ (InData <=> InData')
  BY <1>1 DEF BeforeRequest, AfterRequest, InData
<1>7. Rises' = Rises
  BY <1>1 DEF Rises
<1>8. Early'
  <2> SUFFICES ASSUME BeforeRequest PROVE Early'
    BY <1>6 DEF Early
  <2>1. PaddrValid = 0
    BY Bounds DEF PaddrValid, BeforeRequest, RequestAt
  <2>2. Elapsed' \in {Elapsed, Elapsed + 1} /\ (Elapsed' = Elapsed => Elapsed >= 2) /\ Elapsed \in Nat
    <3>1. Rises \in Nat /\ TICKS * Rises \in Nat
      <4>1. Rises \in Nat
        BY <1>4, TimeType
      <4> QED BY <1>5, <4>1
    <3> HIDE DEF Rises
    <3> QED BY <1>3, <1>5, <1>7, <3>1 DEF Elapsed
  <2>3. Elapsed' >= 2 => Elapsed >= 1
    BY <2>2
  <2>4. Elapsed' >= 2 => sync2' = 0
    BY <1>1, <1>4, <2>3 DEF Early
  <2>5. Busy' => Left' + Elapsed' <= Whole + 2
    <3>1. CASE Busy
      <4>1. Left' <= Left - 1 /\ Left' \in Nat /\ Left \in Nat
        BY <1>5, <3>1, BusyTick, Bounds, LeftType
      <4> QED BY <1>4, <2>2, <3>1, <4>1, Bounds DEF Early
    <3>2. CASE ~Busy
      <4>1. Busy' => sync2 # 0 /\ Left' = Whole
        BY <1>5, <3>2, IdleTick
      <4>2. Busy' => Elapsed < 2
        BY <1>4, <2>2, <4>1 DEF Early
      <4> QED BY <2>2, <4>1, <4>2, Bounds
    <3> QED BY <3>1, <3>2
  <2> QED BY <1>1, <2>1, <2>4, <2>5 DEF Early
<1>9. Crossing'
  <2> SUFFICES ASSUME AfterRequest PROVE Crossing'
    BY <1>6 DEF Crossing
  <2>1. addr_cnt = RequestAt => PaddrValid = 1
    BY DEF PaddrValid, AfterRequest, RequestAt
  <2> QED BY <1>1, <1>3, <1>4, <1>5, <2>1 DEF Crossing
<1>10. ASSUME Settled, ~moved PROVE Settled'
  <2>1. PICK b \in Block : b = paddr
    BY <1>5
  <2>2. CASE Busy
    <3>1. Fetches(b)' /\ Holds(b)'
      BY <1>10, <2>1, <2>2, BusyTick, Bounds DEF Settled
    <3> QED BY <1>1, <2>1, <3>1 DEF Settled, Fetches, Holds
  <2>3. CASE ~Busy
    <3>1. Holds(b)'
      BY <1>10, <2>1, <2>3, IdleTick DEF Settled, Holds
    <3>2. Fetches(paddr)'
      BY <1>5, <1>10, <2>3, IdleTick DEF Fetches
    <3> QED BY <1>1, <2>1, <3>1, <3>2 DEF Settled, Holds
  <2> QED BY <2>2, <2>3
<1>11. Answering'
  <2> SUFFICES ASSUME AfterRequest PROVE (Waiting \/ Fetching \/ Settled)'
    BY <1>6 DEF Answering
  <2>1. Since' \in {Since, Since + 1} /\ (Since' = Since => Since >= 2) /\ Since \in Nat
    <3>1. addr_cnt - RequestAt \in Nat /\ TICKS * (addr_cnt - RequestAt) \in Nat
      <4>1. addr_cnt - RequestAt \in Nat
        BY <1>5
      <4> QED BY <1>5, <4>1
    <3> QED BY <1>1, <1>3, <1>5, <3>1 DEF Since
  <2>2. moved => Since = 0 /\ sync2 = 0
    BY <1>4, <1>5 DEF Crossing, Since
  <2>3. CASE Waiting /\ Busy
    <3>1. Left' <= Left - 1 /\ Left' \in Nat /\ Left \in Nat
      BY <1>5, <2>3, BusyTick, Bounds, LeftType
    <3> QED BY <2>1, <2>3, <3>1, Bounds DEF Waiting
  <2>4. CASE Waiting /\ ~Busy
    <3>1. Left = 0 /\ Since <= Latest
      BY <2>1, <2>4, LeftType, Bounds DEF Waiting
    <3>2. CASE sync2 = 0
      <4>1. ~(Since >= 2)
        BY <1>4, <2>1, <3>1, <3>2, RequestSeen, Bounds
      <4>2. Left' = 0
        BY <2>4, <3>2, IdleTick
      <4> QED BY <2>1, <4>1, <4>2, Bounds DEF Waiting
    <3>3. CASE sync2 = 1
      <4>1. Busy' /\ Left' = Whole /\ Fetches(paddr)'
        BY <1>5, <2>2, <2>4, <3>3, IdleTick
      <4>2. Left' + Since' <= Latest + 1 + Whole
        BY <2>1, <3>1, <4>1, Bounds
      <4> QED BY <4>1, <4>2 DEF Fetching
    <3> QED BY <1>5, <3>2, <3>3
  <2>5. CASE Fetching
    <3>1. PICK b \in Block : b = paddr
      BY <1>5
    <3>2. /\ Left' <= Left - 1 /\ Left' \in Nat /\ Left \in Nat
          /\ Fetches(b)' /\ (~Busy' => Holds(b)')
      BY <2>5, <3>1, BusyTick, Bounds, LeftType DEF Fetching
    <3>3. Fetches(paddr)' /\ (~Busy' => Holds(paddr)')
      BY <1>1, <3>1, <3>2 DEF Fetches, Holds
    <3>4. Left' + Since' <= Latest + 1 + Whole
      BY <2>1, <2>5, <3>2, Bounds DEF Fetching
    <3> QED BY <3>3, <3>4 DEF Fetching, Settled
  <2>6. CASE Settled /\ ~moved
    BY <1>10, <2>6
  <2>7. CASE moved
    <3>1. Since = 0 /\ sync2 = 0
      BY <2>2, <2>7
    <3>2. CASE ~Busy
      <4>1. Left = 0
        BY <3>2, LeftType
      <4> QED BY <2>4, <3>1, <3>2, <4>1, Bounds DEF Waiting
    <3>3. CASE Busy /\ Settled
      <4>1. PICK b \in Block : b = paddr
        BY <1>5
      <4>2. Fetches(b)' /\ Holds(b)'
        BY <3>3, <4>1, BusyTick, Bounds DEF Settled
      <4> QED BY <1>1, <4>1, <4>2 DEF Settled, Fetches, Holds
    <3> QED BY <1>4, <2>3, <2>5, <3>2, <3>3 DEF Answering
  <2> QED BY <1>4, <2>3, <2>4, <2>5, <2>6, <2>7 DEF Answering
<1>12. Answered'
  BY <1>1, <1>4, <1>6, <1>10 DEF Answered
<1> QED BY <1>8, <1>9, <1>11, <1>12


(* A step that moves neither clocks nor fields.                              *)
LEMMA InTimeKept ==
  ASSUME InTime,
         UNCHANGED <<rst, state, cmd_bit_cnt, addr_cnt, paddr, sync1, sync2, moved, ticks,
                     stall, dramVars>>
  PROVE  InTime'
<1>1. /\ Rises' = Rises /\ Elapsed' = Elapsed /\ Since' = Since
      /\ Left' = Left /\ Busy' = Busy /\ Launched' = Launched
  BY DEF Rises, Elapsed, Since, Left, Busy, Launched, dramVars
<1>2. Settled' = Settled /\ Fetches(paddr)' = Fetches(paddr)
  BY <1>1 DEF Settled, Holds, Fetches, dramVars
<1>3. /\ BeforeRequest' = BeforeRequest /\ AfterRequest' = AfterRequest /\ InData' = InData
      /\ Counting' = Counting
  BY DEF BeforeRequest, AfterRequest, InData, Counting
<1>4. (TIMED => Early) => (TIMED => Early')
  BY <1>1, <1>3 DEF Early
<1>5. (TIMED => Crossing) => (TIMED => Crossing')
  BY <1>3 DEF Crossing
<1>6. (TIMED => Answering) => (TIMED => Answering')
  BY <1>1, <1>2, <1>3 DEF Answering, Waiting, Fetching
<1>7. (TIMED => Answered) => (TIMED => Answered')
  BY <1>2, <1>3 DEF Answered
<1> QED BY <1>3, <1>4, <1>5, <1>6, <1>7 DEF InTime

(* A bit of the command, and of the address before the request.              *)
LEMMA EarlyRise ==
  ASSUME EnoughTime, Inv, InTime, TIMED, SpiRise, BeforeRequest, Rises' = Rises + 1
  PROVE  Elapsed' = Elapsed /\ Elapsed \in Nat /\ Early'
<1>1. /\ Rises \in Nat /\ ticks = TICKS /\ ticks' = 0 /\ TICKS \in Nat /\ Elapsed \in Nat
      /\ UNCHANGED <<sync1, sync2, stall, dramVars>>
  BY TimeType, Bounds DEF InTime, SpiRise, syncVars
<1>2. Elapsed' = Elapsed
  <2>1. PICK k : k = Rises
    OBVIOUS
  <2>2. TICKS * (k + 1) + 0 = TICKS * k + TICKS
    BY <1>1, <2>1, OneRise
  <2> QED BY <1>1, <2>1, <2>2 DEF Elapsed
<1>3. Left' = Left /\ Busy' = Busy
  BY <1>1 DEF Left, Busy, dramVars
<1> QED BY <1>1, <1>2, <1>3 DEF InTime, Early

(* The first bit of a command.                                               *)
LEMMA FirstRise ==
  ASSUME EnoughTime, Inv, SpiRise, rst = 1, SpiReset
  PROVE  InTime'
<1>1. /\ rst' = 0 /\ state' = "get_cmd" /\ cmd_bit_cnt' = 1 /\ addr_cnt' = 0 /\ ticks' = 0
      /\ UNCHANGED <<stall, dramVars>>
  BY DEF SpiRise, SpiReset
<1>2. Elapsed' = 0
  BY <1>1, Bounds DEF Elapsed, Rises
<1>3. Left' = Left /\ Busy' = Busy
  BY <1>1 DEF Left, Busy, dramVars
<1>4. Early'
  BY <1>2, <1>3, LeftType, Bounds DEF Early
<1>5. Counting' /\ Crossing' /\ Answering' /\ Answered'
  BY <1>1 DEF Counting, Crossing, Answering, Answered, AfterRequest, InData
<1> QED BY <1>4, <1>5 DEF InTime

LEMMA CommandRise ==
  ASSUME EnoughTime, Inv, InTime, SpiRise, rst = 0, GetCmd
  PROVE  InTime'
<1>1. /\ rst' = 0 /\ state = "get_cmd" /\ addr_cnt' = addr_cnt /\ addr_cnt = 0
      /\ cmd_bit_cnt \in 1 .. (CMD_BITS - 1)
      /\ cmd_bit_cnt' = (cmd_bit_cnt + 1) % CMD_BITS
      /\ IF cmd_bit_cnt = CMD_BITS - 1
         THEN state' \in {"read_get_addr", "rdid", "bad_cmd_err"} ELSE state' = state
  BY DEF GetCmd, SpiRise, InTime, Counting, Inv, SpiTypeOK
<1>2. cmd_bit_cnt # CMD_BITS - 1 => cmd_bit_cnt' = cmd_bit_cnt + 1
  <2>1. \A n \in Nat \ {0} : \A k \in 0 .. (n - 1) : k % n = k
    BY SMT
  <2>2. cmd_bit_cnt # CMD_BITS - 1 => cmd_bit_cnt + 1 \in 0 .. (CMD_BITS - 1)
    BY <1>1, Bounds
  <2>3. CMD_BITS \in Nat \ {0}
    BY Bounds
  <2> QED BY <1>1, <2>1, <2>2, <2>3
<1>3. Counting'
  BY <1>1, <1>2, Bounds DEF Counting
<1>4. ~AfterRequest' /\ ~InData'
  BY <1>1, Bounds DEF AfterRequest, InData
<1>5. ASSUME TIMED PROVE Early'
  <2>1. CASE ~BeforeRequest'
    BY <2>1 DEF Early
  <2>2. CASE BeforeRequest'
    <3>1. BeforeRequest
      BY <1>1 DEF BeforeRequest, SpiRise, GetCmd
    <3>2. Rises' = Rises + 1
      BY <1>1, <1>2, <2>2, Bounds DEF Rises, BeforeRequest
    <3> QED BY <1>5, <3>1, <3>2, EarlyRise
  <2> QED BY <2>1, <2>2
<1> QED BY <1>3, <1>4, <1>5 DEF InTime, Crossing, Answering, Answered

(* A bit of the address: before the request, the one that makes it, those    *)
(* after it, and the last one.                                               *)
LEMMA AddressRise ==
  ASSUME EnoughTime, Inv, InTime, SpiRise, rst = 0, NEW b \in {0, 1}, ReadGetAddr(b)
  PROVE  InTime'
<1>1. /\ rst' = 0 /\ state = "read_get_addr" /\ addr_cnt' = addr_cnt + 1
      /\ addr_cnt \in 0 .. (ADDR_BITS - 1)
      /\ state' = IF addr_cnt = ADDR_BITS - 1 THEN "read_get_data" ELSE "read_get_addr"
      /\ addr_cnt # RequestAt - 1 => paddr' = paddr
      /\ TIMED => ticks = TICKS
      /\ ticks' = 0 /\ moved' = (moved \/ paddr' # paddr)
      /\ UNCHANGED <<sync1, sync2, stall, dramVars>>
  <2>1. addr_cnt \in 0 .. (ADDR_BITS - 1)
    BY Bounds DEF ReadGetAddr, Inv, SpiTypeOK, AddrCounts
  <2> QED BY <2>1, Bounds DEF ReadGetAddr, SpiRise, syncVars, RequestAt
<1>2. Counting'
  BY <1>1 DEF Counting
<1> SUFFICES ASSUME TIMED PROVE Early' /\ Crossing' /\ Answering' /\ Answered'
  BY <1>2 DEF InTime
<1>3. Left' = Left /\ Busy' = Busy /\ Left \in Nat /\ (Busy => Left > 0) /\ (~Busy => Left = 0)
  <2>1. Left' = Left /\ Busy' = Busy
    BY <1>1 DEF Left, Busy, dramVars
  <2> QED BY <2>1, LeftType
<1>4. Counting /\ Early /\ Crossing /\ Answering
  BY DEF InTime
<1>5. addr_cnt < RequestAt => BeforeRequest /\ Rises' = Rises + 1
  BY <1>1, Bounds DEF BeforeRequest, Rises
<1>6. CASE addr_cnt + 1 < RequestAt
  <2>1. Early'
    BY <1>1, <1>5, <1>6, Bounds, EarlyRise
  <2>2. ~AfterRequest' /\ ~InData'
    BY <1>1, <1>6, Bounds DEF AfterRequest, InData
  <2> QED BY <2>1, <2>2 DEF Crossing, Answering, Answered
<1>7. CASE addr_cnt + 1 = RequestAt
  <2>1. BeforeRequest /\ Elapsed' = Elapsed /\ Elapsed \in Nat
    BY <1>1, <1>5, <1>7, Bounds, EarlyRise
  <2>2. Elapsed' = ToRequest
    <3>1. state' = "read_get_addr"
      BY <1>1, <1>7, Bounds
    <3>2. Rises' = CMD_BITS - 1 + RequestAt
      BY <1>1, <1>7, <3>1, Bounds DEF Rises
    <3>3. TICKS * (CMD_BITS - 1 + RequestAt) \in Nat
      BY Bounds DEF ToRequest
    <3> QED BY <1>1, <3>2, <3>3 DEF Elapsed, ToRequest
  <2>3. sync1 = 0 /\ sync2 = 0 /\ (Busy => Left + ToRequest <= Whole + 2)
    BY <1>4, <2>1, <2>2, Bounds DEF Early
  <2>4. Left <= Latest
    BY <1>3, <2>3, Bounds
  <2>5. Since' = 0
    BY <1>1, <1>7, Bounds DEF Since
  <2>6. Waiting'
    BY <1>3, <2>4, <2>5, Bounds DEF Waiting
  <2>7. Crossing'
    BY <1>1, <1>7, <2>3, Bounds DEF Crossing
  <2>8. ~BeforeRequest' /\ ~InData'
    BY <1>1, <1>7, Bounds DEF BeforeRequest, InData
  <2> QED BY <2>6, <2>7, <2>8 DEF Early, Answering, Answered
<1>8. CASE addr_cnt >= RequestAt
  <2>1. AfterRequest /\ ~moved /\ paddr' = paddr /\ ~moved'
    <3>1. AfterRequest /\ paddr' = paddr /\ moved \in BOOLEAN
      BY <1>1, <1>8, Bounds DEF AfterRequest, Inv, SpiTypeOK
    <3> QED BY <1>1, <1>4, <3>1, Bounds DEF Crossing
  <2>2. Since' = Since /\ Since \in Nat
    <3>1. PICK k : k = addr_cnt - RequestAt
      OBVIOUS
    <3>2. k \in Nat
      BY <1>4, <2>1, <3>1, TimeType
    <3>3. TICKS * (k + 1) + 0 = TICKS * k + TICKS /\ TICKS * k \in Nat
      BY <3>2, OneRise, Bounds
    <3>4. addr_cnt' - RequestAt = k + 1
      BY <1>1, <3>1, Bounds
    <3> QED BY <1>1, <3>1, <3>3, <3>4, Bounds DEF Since
  <2>3. Settled' = Settled /\ Fetches(paddr)' = Fetches(paddr)
    <3>1. Launched' = Launched
      BY <1>1 DEF Launched, dramVars
    <3> QED BY <1>1, <1>3, <2>1, <3>1 DEF Settled, Holds, Fetches, dramVars
  <2>4. ~BeforeRequest'
    BY <1>1, <1>8, Bounds DEF BeforeRequest
  <2>5. CASE addr_cnt # ADDR_BITS - 1
    <3>1. Crossing'
      BY <1>1, <1>4, <1>8, <2>1, Bounds DEF Crossing
    <3>2. Answering'
      BY <1>3, <1>4, <2>1, <2>2, <2>3 DEF Answering, Waiting, Fetching
    <3>3. ~InData'
      BY <1>1, <2>5 DEF InData
    <3> QED BY <2>4, <3>1, <3>2, <3>3 DEF Early, Answered
  <2>6. CASE addr_cnt = ADDR_BITS - 1
    <3>1. Since = TICKS * PREFETCH_BITS
      <4>1. addr_cnt' - RequestAt = PREFETCH_BITS
        BY <1>1, <2>6, Bounds
      <4> QED BY <1>1, <2>2, <4>1, Bounds DEF Since
    <3>2. Since >= Latest + Whole /\ Whole > 0
      BY <3>1, Bounds DEF Whole
    <3>3. Settled
      <4>1. ~Waiting
        BY <1>3, <2>2, <3>2, Bounds DEF Waiting
      <4>2. ASSUME Fetching PROVE Settled
        <5>1. PICK c \in Block : c = paddr
          BY DEF Inv, SpiTypeOK
        <5>2. Left <= 1 /\ Busy /\ Fetches(c)
          BY <1>3, <2>2, <3>2, <4>2, <5>1, Bounds DEF Fetching
        <5> QED BY <5>1, <5>2, LastLands DEF Settled
      <4> QED BY <1>4, <2>1, <4>1, <4>2 DEF Answering
    <3>4. ~AfterRequest'
      BY <1>1, <2>6 DEF AfterRequest
    <3> QED BY <2>1, <2>3, <2>4, <3>3, <3>4 DEF Early, Crossing, Answering, Answered
  <2> QED BY <2>5, <2>6
<1> QED BY <1>1, <1>6, <1>7, <1>8, Bounds


LEMMA DataRise ==
  ASSUME Inv, InTime, SpiRise, rst = 0, Rdid \/ ReadGetData \/ BadCmdErr
  PROVE  InTime'
<1>1. /\ rst' = 0 /\ state' = state /\ state \in {"rdid", "read_get_data", "bad_cmd_err"}
      /\ paddr' = paddr /\ moved' = moved /\ UNCHANGED dramVars
  <2>1. moved \in BOOLEAN /\ state' = state /\ paddr' = paddr
    BY DEF Inv, SpiTypeOK, Rdid, ReadGetData, BadCmdErr, spiVars
  <2>2. moved' = moved
    BY <2>1 DEF SpiRise
  <2> QED BY <2>1, <2>2 DEF SpiRise, Rdid, ReadGetData, BadCmdErr
<1>2. ~BeforeRequest' /\ ~AfterRequest' /\ Counting'
  BY <1>1 DEF BeforeRequest, AfterRequest, Counting
<1>3. (TIMED => Answered) => (TIMED => Answered')
  <2>1. Settled' = Settled /\ (InData' <=> InData)
    <3>1. Launched' = Launched
      BY <1>1 DEF Launched, dramVars
    <3> QED BY <1>1, <3>1 DEF SpiRise, Settled, Holds, Fetches, Busy, dramVars, InData
  <2> QED BY <1>1, <2>1 DEF Answered
<1> QED BY <1>2, <1>3 DEF InTime, Early, Crossing, Answering

LEMMA NextInTime == ASSUME EnoughTime, Inv, InTime, [Next]_vars PROVE InTime'
<1>1. CASE SpiRise
  <2>1. CASE rst = 1 /\ SpiReset
    BY <1>1, <2>1, FirstRise
  <2>2. CASE rst = 0 /\ GetCmd
    BY <1>1, <2>2, CommandRise
  <2>3. CASE rst = 0 /\ \E b \in {0, 1} : ReadGetAddr(b)
    BY <1>1, <2>3, AddressRise
  <2>4. CASE rst = 0 /\ (Rdid \/ ReadGetData \/ BadCmdErr)
    BY <1>1, <2>4, DataRise
  <2> QED BY <1>1, <2>1, <2>2, <2>3, <2>4 DEF SpiRise
<1>2. CASE SpiFall
  BY <1>2, InTimeKept DEF SpiFall, spiVars, syncVars
<1>3. CASE CsnFall
  BY <1>3, InTimeKept DEF CsnFall, spiVars, syncVars
<1>4. CASE CsnRise
  <2>1. rst' = 1
    BY <1>4 DEF CsnRise
  <2> QED BY <2>1 DEF InTime, Counting, Early, Crossing, Answering, Answered,
                      BeforeRequest, AfterRequest, InData
<1>5. CASE Sys
  BY <1>5, TickInTime DEF Sys
<1>6. CASE UNCHANGED vars
  BY <1>6, InTimeKept DEF vars, pinVars, spiVars, syncVars
<1> QED BY <1>1, <1>2, <1>3, <1>4, <1>5, <1>6 DEF Next

(* Where there is EnoughTime, the registers hold words of the block an       *)
(* address names by the time its first byte is due, whatever transactions    *)
(* were cut before it and whatever they left pending (emu.py:329-384,        *)
(* emu_dram.py:119-151).                                                     *)
THEOREM ServesInTime == EnoughTime /\ Spec => []ServesRequestedBlock
<1>1. Init => InTime
  BY DEF Init, InTime, Counting, Early, Crossing, Answering, Answered,
         BeforeRequest, AfterRequest, InData
<1>2. EnoughTime /\ Inv /\ InTime /\ [Next]_vars => InTime'
  BY NextInTime
<1>3. InTime => ServesRequestedBlock
  BY DEF InTime, Answered, InData, Settled, Holds, ServesRequestedBlock
<1>4. EnoughTime => EnoughTime'
  BY DEF EnoughTime, Whole
<1> QED BY <1>1, <1>2, <1>3, <1>4, Invariance, PTL DEF Spec

-----------------------------------------------------------------------------
(* The DRAM simulation.  Its SPI master goes through every transaction to    *)
(* its end and at one speed.                                                 *)

(* The rise that makes the request, and the clocks since then.               *)
RequestBit == CMD_BITS + RequestAt
DataBit == CMD_BITS + ADDR_BITS
Gone == TICKS * (clocked - RequestBit) + ticks

(* A prefetch is over by the time the first bit of data is shown, half a     *)
(* clock after the last one of the address, and is not so short that it      *)
(* ends while the request is still up.                                       *)
TimeToAnswer ==
  /\ HoldsData /\ TIMED /\ TICKS > 1
  /\ Whole + 3 <= TICKS * PREFETCH_BITS + TICKS \div 2
  /\ TICKS <= 2 * NREADS + 1

SimType ==
  /\ pc \in {"idle", "waiting", "done"} /\ net \in {"none", "request", "response"}
  /\ req \in [cmd : {"rdid", "read_get_addr"}, addr : Addr, sz : Nat \ {0}]
  /\ lost \in BOOLEAN /\ master \in {"idle", "busy"} /\ clocked \in Nat
  /\ miso \in Seq([src : Byte, bit : 0 .. (DATA_BITS - 1), new : BOOLEAN])
  /\ filled \in 0 .. FILL_WORDS /\ sentFilled \in BOOLEAN /\ shown \in BOOLEAN
  /\ invers \in Seq(BOOLEAN) /\ Len(invers) = Len(inflight)
  /\ pfvers \in [0 .. (NREADS - 1) -> BOOLEAN]
  /\ sentFilled => filled = FILL_WORDS

(* One transaction after the other.                                          *)
Sequenced ==
  /\ master = "busy" => /\ pc = "waiting" /\ net = "none" /\ ~lost
                        /\ csn = 0 /\ clocked <= FrameBits
                        /\ rst = 1 <=> clocked = 0
  /\ master = "idle" => csn = 1 /\ clk = 0 /\ rst = 1
  /\ rst = 1 => state # "read_get_addr"
  /\ net # "none" => pc = "waiting" /\ master = "idle" /\ ~lost
  /\ net = "request" => miso = << >>
  /\ pc # "waiting" => net = "none" /\ ~lost
  /\ net = "response" \/ pc = "done" => Len(miso) = req.sz * DATA_BITS

(* Where the emulator is in one.                                             *)
Reading == master = "busy" /\ req.cmd = "read_get_addr"
At(j) == (req.addr + (j \div DATA_BITS)) % 2 ^ ADDR_BITS

InPosition ==
  master = "busy" /\ clocked > 0 =>
    /\ clocked < CMD_BITS => state = "get_cmd" /\ cmd_bit_cnt = clocked /\ addr_cnt = 0 /\ addr = 0
    /\ clocked >= CMD_BITS /\ req.cmd = "rdid" => state = "rdid"
    /\ clocked >= CMD_BITS /\ clocked < DataBit /\ Reading =>
         /\ state = "read_get_addr" /\ addr_cnt = clocked - CMD_BITS
         /\ addr = req.addr \div 2 ^ (ADDR_BITS - addr_cnt)
    /\ clocked >= DataBit /\ Reading =>
         /\ state = "read_get_data" /\ addr = At(clocked - DataBit)
         /\ dr_bit_cnt = (clocked - DataBit) % DATA_BITS
    /\ clocked < DataBit => dr_bit_cnt = 0
    /\ clocked >= RequestBit /\ Reading => paddr = (req.addr \div (NREADS * NBYTES)) % BLOCKS

(* The prefetcher: at rest before the request, then waiting for it to cross, *)
(* fetching its block, and done.                                             *)
Requested == Reading /\ clocked >= RequestBit
AtRest == ~Requested => ~Busy /\ sync1 = 0 /\ sync2 = 0

LeastLeft == CASE dram_state = "RD_LAUNCH" -> rd_cnt + 1 + NREADS
               [] dram_state = "RD_LAND" -> rd_cnt + 1
               [] OTHER -> 0

Fetched == /\ pf_regs[0] = NoWord
           /\ \A i \in 1 .. (NREADS - 1) : pf_regs[i] = Landed(paddr, i)

CrossesOnce ==
  Requested =>
    /\ moved => Gone = 0
    /\ Gone = 0 => sync1 = 0
    /\ Gone <= 1 => sync2 = 0
    /\ Gone >= 1 /\ Gone <= TICKS => sync1 = 1
    /\ Gone >= 2 /\ Gone <= TICKS + 1 => sync2 = 1
    /\ Gone >= TICKS + 1 => sync1 = 0
    /\ Gone >= TICKS + 2 => sync2 = 0

Awaited == ~Busy /\ Gone <= 2
Underway == /\ Busy /\ Fetches(paddr)
            /\ Left + Gone <= 3 + Whole /\ LeastLeft + Gone >= 3 + 2 * NREADS
Complete == ~Busy /\ Gone >= 3 + 2 * NREADS /\ Fetched

Prefetches == Requested => Awaited \/ Underway \/ Complete

(* What is fetched for a request sent when the fill was complete is from it. *)
FromFill(n, word, new) == \A i \in 1 .. n : Filled(word[i]) => new[i]
Fresh ==
  Requested /\ sentFilled =>
    /\ Busy => FromFill(Len(inflight), inflight, invers)
    /\ dram_state = "RD_LAND" => FromFill(NREADS - 1 - rd_cnt, pf_regs, pfvers)
    /\ Complete => FromFill(NREADS - 1, pf_regs, pfvers)

(* What is shown, held for the next bits and sampled.                        *)
Due(j) == [word |-> AnsweredWord(At(j)), byte |-> At(j) % NBYTES]
FromFillToo(src, new) == sentFilled /\ Filled(src.word) => new

Showing ==
  /\ Reading /\ clocked >= DataBit /\ clk = 0 =>
       /\ so = [src |-> Due(clocked - DataBit), bit |-> (clocked - DataBit) % DATA_BITS]
       /\ FromFillToo(so.src, shown)
  /\ Reading /\ clocked >= DataBit /\ dr_bit_cnt # 0 =>
       dr = Due(clocked - DataBit) /\ FromFillToo(dr, shown)
  /\ master = "busy" /\ req.cmd = "rdid" /\ clocked > 0 /\ clk = 0 => so.src = NoByte

Collected ==
  /\ master = "busy" => Len(miso) = IF clocked > HeaderBits THEN clocked - HeaderBits ELSE 0
  /\ \A k \in 1 .. Len(miso) :
       /\ req.cmd = "read_get_addr" => miso[k].src = Due(k - 1) /\ miso[k].bit = (k - 1) % DATA_BITS
       /\ req.cmd = "rdid" => miso[k].src = NoByte
       /\ FromFillToo(miso[k].src, miso[k].new)

SimInv == /\ SimType /\ Sequenced /\ InPosition /\ AtRest /\ CrossesOnce /\ Prefetches
          /\ Fresh /\ Showing /\ Collected

LEMMA BenchStep == ASSUME [BenchNext]_benchVars PROVE [Next]_vars
<1>1. CASE Client
  <2>1. UNCHANGED vars
    BY <1>1 DEF Client, GetIdcode, Read, SendTo, RecvFrom, Rerun
  <2> QED BY <2>1
<1>2. CASE Master
  <2>1. CASE MasterStart
    BY <2>1 DEF MasterStart, Next
  <2>2. CASE MasterRise
    BY <2>2 DEF MasterRise, Next
  <2>3. CASE MasterFall
    BY <2>3 DEF MasterFall, Next
  <2>4. CASE MasterEnd
    BY <2>4 DEF MasterEnd, Next
  <2> QED BY <1>2, <2>1, <2>2, <2>3, <2>4 DEF Master
<1>3. CASE Clock
  BY <1>3 DEF Clock, Next
<1>4. CASE Lose \/ Fill \/ UNCHANGED benchVars
  <2>1. UNCHANGED vars
    BY <1>4 DEF Lose, Fill, benchVars
  <2> QED BY <2>1
<1> QED BY <1>1, <1>2, <1>3, <1>4 DEF BenchNext

(* What its master and its clock make the emulator do are steps of the       *)
(* emulator: whatever holds of it for every host holds in the simulation.    *)
THEOREM SimulationIsEmulator == BenchSpec => Spec
<1>1. BenchInit => Init
  BY DEF BenchInit
<1>2. [BenchNext]_benchVars => [Next]_vars
  BY BenchStep
<1> QED BY <1>1, <1>2, PTL DEF BenchSpec, Spec

LEMMA AnswerBounds ==
  ASSUME TimeToAnswer
  PROVE  /\ HoldsData /\ TIMED /\ TICKS \in Nat /\ TICKS > 1
         /\ TICKS \div 2 \in Nat /\ TICKS \div 2 < TICKS
         /\ CMD_BITS \in Nat /\ CMD_BITS > 1 /\ DATA_BITS \in Nat /\ DATA_BITS > 1
         /\ ADDR_BITS \in Nat /\ PREFETCH_BITS \in Nat \ {0}
         /\ RequestAt \in Nat \ {0} /\ RequestAt + PREFETCH_BITS = ADDR_BITS
         /\ RequestBit \in Nat /\ RequestBit = CMD_BITS + RequestAt
         /\ DataBit \in Nat /\ DataBit = RequestBit + PREFETCH_BITS
         /\ DataBit = CMD_BITS + ADDR_BITS
         /\ TICKS * PREFETCH_BITS \in Nat /\ Whole \in Nat /\ Whole >= 2 * NREADS
         /\ Whole + 3 <= TICKS * PREFETCH_BITS + (TICKS \div 2)
         /\ TICKS <= 2 * NREADS + 1
<1>1. TICKS \in Nat /\ TICKS > 1 /\ PREFETCH_BITS \in Nat \ {0}
  BY LiteAssumption DEF TimeToAnswer
<1>2. TICKS \div 2 \in Nat /\ TICKS \div 2 < TICKS
  BY <1>1
<1>3. TICKS * PREFETCH_BITS \in Nat
  BY <1>1
<1>4. /\ HoldsData /\ TIMED /\ Whole + 3 <= TICKS * PREFETCH_BITS + (TICKS \div 2)
      /\ TICKS <= 2 * NREADS + 1
  BY DEF TimeToAnswer
<1>5. Whole \in Nat /\ Whole >= 2 * NREADS
  <2>1. MAX_STALL \in Nat /\ NREADS \in Nat
    BY LiteAssumption
  <2> QED BY <2>1 DEF Whole
<1>6. /\ CMD_BITS \in Nat /\ CMD_BITS > 1 /\ DATA_BITS \in Nat /\ DATA_BITS > 1
      /\ ADDR_BITS \in Nat /\ ADDR_BITS > PREFETCH_BITS
  BY LiteAssumption
<1>7. /\ RequestAt \in Nat \ {0} /\ RequestAt + PREFETCH_BITS = ADDR_BITS
      /\ RequestBit \in Nat /\ RequestBit = CMD_BITS + RequestAt
      /\ DataBit \in Nat /\ DataBit = RequestBit + PREFETCH_BITS
      /\ DataBit = CMD_BITS + ADDR_BITS
  BY <1>1, <1>6 DEF RequestAt, RequestBit, DataBit
<1> QED BY <1>1, <1>2, <1>3, <1>4, <1>5, <1>6, <1>7

LEMMA Frame ==
  ASSUME SimType
  PROVE  /\ HeaderBits \in Nat /\ FrameBits \in Nat
         /\ req.sz * DATA_BITS \in Nat \ {0}
         /\ FrameBits = HeaderBits + req.sz * DATA_BITS
         /\ req.cmd = "read_get_addr" => HeaderBits = DataBit
         /\ req.cmd = "rdid" => HeaderBits = CMD_BITS
         /\ req.cmd \in {"rdid", "read_get_addr"}
<1>1. req.cmd \in {"rdid", "read_get_addr"} /\ req.sz \in Nat \ {0}
  BY DEF SimType
<1>2. /\ CMD_BITS \in Nat /\ ADDR_BITS \in Nat /\ DATA_BITS \in Nat \ {0}
  BY LiteAssumption
<1>3. req.sz * DATA_BITS \in Nat \ {0}
  <2>1. \A n \in Nat \ {0}, m \in Nat \ {0} : n * m \in Nat \ {0}
    BY SMT
  <2> QED BY <1>1, <1>2, <2>1
<1> QED BY <1>1, <1>2, <1>3 DEF HeaderBits, FrameBits, DataBit

LEMMA BenchInitInv == BenchInit => SimInv
<1> SUFFICES ASSUME BenchInit PROVE SimInv
  OBVIOUS
<1>1. SimType
  <2>1. [cmd |-> "rdid", addr |-> 0, sz |-> 3]
          \in [cmd : {"rdid", "read_get_addr"}, addr : Addr, sz : Nat \ {0}]
    BY Sizes
  <2>2. FILL_WORDS \in Nat
    BY RequestAssumption
  <2>3. Len(invers) = Len(inflight) /\ invers \in Seq(BOOLEAN)
    BY DEF BenchInit, Init, DramInit
  <2>4. /\ pfvers \in [0 .. (NREADS - 1) -> BOOLEAN] /\ filled \in 0 .. FILL_WORDS
        /\ miso \in Seq([src : Byte, bit : 0 .. (DATA_BITS - 1), new : BOOLEAN])
    BY <2>2 DEF BenchInit
  <2> QED BY <2>1, <2>3, <2>4 DEF BenchInit, SimType
<1>2. Sequenced /\ InPosition /\ AtRest /\ CrossesOnce /\ Prefetches /\ Fresh /\ Showing
  BY DEF BenchInit, Init, DramInit, Sequenced, InPosition, AtRest, CrossesOnce, Prefetches,
         Fresh, Showing, Requested, Reading, Busy, NoByte, NothingShown
<1>3. Collected
  BY DEF BenchInit, Collected
<1> QED BY <1>1, <1>2, <1>3 DEF SimInv

(* A step of the client, of the network or of the fill.                      *)
LEMMA UntouchedInv ==
  ASSUME SimInv, UNCHANGED <<vars, master, clocked, req, miso, sentFilled, invers, pfvers, shown>>,
         filled' = filled \/ ~sentFilled
  PROVE  (InPosition /\ AtRest /\ CrossesOnce /\ Prefetches /\ Fresh /\ Showing /\ Collected)'
<1>1. /\ HeaderBits' = HeaderBits /\ Reading' = Reading /\ Requested' = Requested
      /\ Gone' = Gone /\ Busy' = Busy /\ Left' = Left /\ LeastLeft' = LeastLeft
      /\ Fetches(paddr)' = Fetches(paddr) /\ Fetched' = Fetched
  BY DEF HeaderBits, Reading, Requested, Gone, Busy, Left, LeastLeft, Fetches, Launched, Fetched,
         Landed, vars, dramVars, spiVars
<1>2. \A j \in Int : At(j)' = At(j) /\ Due(j)' = Due(j)
  BY DEF At, Due, AnsweredWord, Landed, Select
<1>3. \A w, n : filled' = filled => Filled(w)' = Filled(w)
  BY DEF Filled
<1>4. InPosition' /\ AtRest'
  BY <1>1, <1>2 DEF SimInv, InPosition, AtRest, vars, spiVars, syncVars, At
<1>5. CrossesOnce' /\ Prefetches'
  BY <1>1 DEF SimInv, CrossesOnce, Prefetches, Awaited, Underway, Complete, vars, syncVars
<1>6. Fresh'
  <2>1. CASE ~sentFilled
    BY <2>1 DEF Fresh
  <2>2. CASE filled' = filled
    BY <1>1, <1>3, <2>2 DEF SimInv, Fresh, FromFill, Complete, vars, dramVars
  <2> QED BY <2>1, <2>2
<1>7. \A src, new : FromFillToo(src, new) => FromFillToo(src, new)'
  <2>1. CASE ~sentFilled
    BY <2>1 DEF FromFillToo
  <2>2. CASE filled' = filled
    BY <1>3, <2>2 DEF FromFillToo
  <2> QED BY <2>1, <2>2
<1>8. Showing'
  <2>1. /\ UNCHANGED <<so, clk, dr, dr_bit_cnt, shown, clocked, master>> /\ req'.cmd = req.cmd
    BY DEF vars, pinVars, spiVars
  <2>2. PICK j \in Int : j = clocked - DataBit
    BY LiteAssumption DEF SimInv, SimType, DataBit
  <2>3. Due(clocked - DataBit)' = Due(clocked - DataBit)
    <3>1. Due(j)' = Due(j) /\ clocked' - DataBit = j
      BY <1>2, <2>1, <2>2
    <3> QED BY <2>2, <3>1
  <2>4. /\ FromFillToo(so.src, shown) => FromFillToo(so.src, shown)'
        /\ FromFillToo(dr, shown) => FromFillToo(dr, shown)'
    BY <1>7, <2>1 DEF FromFillToo, Filled
  <2>5. (clocked - DataBit)' = clocked - DataBit
    BY <2>1 DEF DataBit
  <2> HIDE DEF Due, FromFillToo
  <2> QED BY <1>1, <2>1, <2>3, <2>4, <2>5 DEF SimInv, Showing
<1>9. Collected'
  BY <1>1, <1>2, <1>7 DEF SimInv, Collected
<1> QED BY <1>4, <1>5, <1>6, <1>8, <1>9

LEMMA AwayInv ==
  ASSUME master' = "idle"
  PROVE  (InPosition /\ CrossesOnce /\ Prefetches /\ Fresh /\ Showing)'
BY DEF InPosition, CrossesOnce, Prefetches, Fresh, Showing, Requested, Reading

LEMMA SendInv ==
  ASSUME SimInv, NEW r, r \in [cmd : {"rdid", "read_get_addr"}, addr : Addr, sz : Nat \ {0}],
         SendTo(r)
  PROVE  SimInv'
<1>1. /\ pc' = "waiting" /\ req' = r /\ net' = "request" /\ miso' = << >>
      /\ pc # "waiting" /\ master = "idle" /\ net = "none" /\ ~lost
      /\ UNCHANGED <<vars, lost, master, clocked, filled, invers, pfvers, shown>>
  <2>1. pc # "waiting" /\ master = "idle"
    BY DEF SendTo, SimInv, SimType, Sequenced
  <2> QED BY <2>1 DEF SendTo, versionVars, SimInv, Sequenced
<1>2. SimType'
  <2>1. sentFilled' \in BOOLEAN /\ (sentFilled' => filled = FILL_WORDS)
    BY DEF SendTo
  <2>2. miso' \in Seq([src : Byte, bit : 0 .. (DATA_BITS - 1), new : BOOLEAN])
    BY <1>1
  <2> QED BY <1>1, <2>1, <2>2 DEF SimInv, SimType, vars, dramVars
<1>3. Sequenced'
  BY <1>1 DEF SimInv, Sequenced, vars, pinVars, spiVars
<1>4. AtRest'
  BY <1>1 DEF SimInv, AtRest, Requested, Reading, Busy, vars, dramVars, syncVars
<1>5. Collected'
  BY <1>1 DEF Collected
<1> QED BY <1>1, <1>2, <1>3, <1>4, <1>5, AwayInv DEF SimInv

LEMMA UnsentInv ==
  ASSUME SimInv, UNCHANGED <<vars, masterVars, req, sentFilled, versionVars, shown>>,
         filled' = filled \/ (filled < FILL_WORDS /\ filled' = filled + 1),
         pc' \in {"idle", "waiting", "done"}, net' \in {"none", "request", "response"},
         lost' \in BOOLEAN, Sequenced'
  PROVE  SimInv'
<1>1. FILL_WORDS \in Nat /\ filled \in Nat
  BY RequestAssumption DEF SimInv, SimType
<1>2. filled' = filled \/ ~sentFilled
  BY <1>1 DEF SimInv, SimType
<1>3. SimType'
  BY <1>1, <1>2 DEF SimInv, SimType, masterVars, versionVars, vars, dramVars
<1> QED BY <1>2, <1>3, UntouchedInv DEF SimInv, masterVars, versionVars

LEMMA ApartInv ==
  ASSUME Inv, SimInv, Client \/ Lose \/ Fill \/ UNCHANGED benchVars
  PROVE  SimInv'
<1>1. CASE GetIdcode
  BY <1>1, SendInv, Sizes DEF GetIdcode
<1>2. CASE Read
  <2>1. PICK r \in ReadRequests : SendTo([cmd |-> "read_get_addr", addr |-> r.addr, sz |-> r.sz])
    BY <1>2 DEF Read
  <2>2. r.addr \in Addr /\ r.sz \in Nat \ {0}
    BY RequestAssumption DEF Addr
  <2> QED BY <2>1, <2>2, SendInv
<1>3. CASE RecvFrom
  <2>1. Sequenced'
    BY <1>3 DEF RecvFrom, SimInv, SimType, Sequenced, masterVars, versionVars, vars, pinVars,
                spiVars, FrameBits, HeaderBits
  <2>2. pc' \in {"idle", "waiting", "done"} /\ net' \in {"none", "request", "response"}
          /\ lost' \in BOOLEAN
    BY <1>3 DEF RecvFrom, SimInv, SimType
  <2>3. UNCHANGED <<vars, masterVars, req, sentFilled, versionVars, shown>> /\ filled' = filled
    BY <1>3 DEF RecvFrom
  <2> QED BY <2>1, <2>2, <2>3, UnsentInv
<1>4. CASE Rerun
  <2>1. Sequenced'
    BY <1>4 DEF Rerun, SimInv, Sequenced, masterVars, vars, pinVars, spiVars, FrameBits, HeaderBits
  <2>2. pc' \in {"idle", "waiting", "done"} /\ net' \in {"none", "request", "response"}
          /\ lost' \in BOOLEAN
    BY <1>4 DEF Rerun, SimInv, SimType
  <2>3. UNCHANGED <<vars, masterVars, req, sentFilled, versionVars, shown>> /\ filled' = filled
    BY <1>4 DEF Rerun
  <2> QED BY <2>1, <2>2, <2>3, UnsentInv
<1>5. CASE Lose
  <2>1. Sequenced'
    BY <1>5 DEF Lose, SimInv, SimType, Sequenced, masterVars, clientVars, vars, pinVars, spiVars,
                FrameBits, HeaderBits
  <2>2. pc' \in {"idle", "waiting", "done"} /\ net' \in {"none", "request", "response"}
          /\ lost' \in BOOLEAN
    BY <1>5 DEF Lose, SimInv, SimType, clientVars
  <2>3. UNCHANGED <<vars, masterVars, req, sentFilled, versionVars, shown>> /\ filled' = filled
    BY <1>5 DEF Lose, clientVars
  <2> QED BY <2>1, <2>2, <2>3, UnsentInv
<1>6. CASE Fill
  <2>1. Sequenced'
    BY <1>6 DEF Fill, SimInv, Sequenced, masterVars, clientVars, vars, pinVars, spiVars,
                FrameBits, HeaderBits
  <2> QED BY <1>6, <2>1, UnsentInv DEF Fill, SimInv, SimType, clientVars
<1>7. CASE UNCHANGED benchVars
  <2>1. Sequenced'
    BY <1>7 DEF benchVars, SimInv, Sequenced, masterVars, clientVars, vars, pinVars, spiVars,
                FrameBits, HeaderBits
  <2>2. pc' \in {"idle", "waiting", "done"} /\ net' \in {"none", "request", "response"}
          /\ lost' \in BOOLEAN
    BY <1>7 DEF benchVars, SimInv, SimType, clientVars
  <2>3. UNCHANGED <<vars, masterVars, req, sentFilled, versionVars, shown>> /\ filled' = filled
    BY <1>7 DEF benchVars, clientVars
  <2> QED BY <2>1, <2>2, <2>3, UnsentInv
<1> QED BY <1>1, <1>2, <1>3, <1>4, <1>5, <1>6, <1>7 DEF Client

(* The request reaches the emulator, and chip select falls.                  *)
LEMMA StartInv ==
  ASSUME TimeToAnswer, Inv, SimInv, MasterStart
  PROVE  SimInv'
<1>1. /\ net = "request" /\ master = "idle" /\ csn' = 0 /\ net' = "none"
      /\ master' = "busy" /\ clocked' = 0
      /\ UNCHANGED <<clk, rst, spiVars, so, syncVars, moved, ticks, stall, dramVars, pc, req,
                     sentFilled, lost, miso, filled, invers, pfvers, shown>>
  BY DEF MasterStart, CsnFall, clientVars, versionVars
<1>2. SimType'
  BY <1>1 DEF SimInv, SimType, dramVars
<1>3. FrameBits' \in Nat /\ HeaderBits' \in Nat
  <2>1. FrameBits' = FrameBits /\ HeaderBits' = HeaderBits
    BY <1>1 DEF FrameBits, HeaderBits
  <2> QED BY <2>1, Frame DEF SimInv
<1>4. Sequenced'
  BY <1>1, <1>3 DEF SimInv, Sequenced, spiVars
<1>5. RequestBit \in Nat /\ 0 < RequestBit /\ DataBit \in Nat /\ 0 < DataBit
  BY AnswerBounds
<1>6. ~Requested' /\ ~Requested
  BY <1>1, <1>5 DEF Requested, Reading
<1>7. AtRest'
  BY <1>1, <1>6 DEF SimInv, AtRest, Busy, dramVars, syncVars
<1>8. InPosition' /\ CrossesOnce' /\ Prefetches' /\ Fresh'
  BY <1>1, <1>6 DEF InPosition, CrossesOnce, Prefetches, Fresh
<1>9. Showing'
  <2>1. ~(clocked' >= DataBit)
    BY <1>1, <1>5
  <2>2. ~(clocked' > 0)
    BY <1>1
  <2> QED BY <2>1, <2>2 DEF Showing
<1>10. Collected'
  <2>1. miso' = << >>
    BY <1>1 DEF SimInv, Sequenced
  <2>2. Len(miso') = 0 /\ ~(clocked' > HeaderBits')
    BY <1>1, <1>3, <2>1
  <2> QED BY <2>1, <2>2 DEF Collected
<1> QED BY <1>2, <1>4, <1>7, <1>8, <1>9, <1>10 DEF SimInv

LEMMA LeastLeftType ==
  ASSUME Inv
  PROVE  LeastLeft \in Nat /\ (Busy => LeastLeft > 0) /\ (~Busy => LeastLeft = 0)
<1>1. dram_state \in {"IDLE", "RD_LAUNCH", "RD_LAND"} /\ rd_cnt \in 0 .. (NREADS - 1)
  BY DEF Inv, DramInv, DramTypeOK
<1> QED BY <1>1 DEF LeastLeft, Busy

(* From the first bit of data on, the prefetch is over.                      *)
LEMMA DataGone ==
  ASSUME TimeToAnswer, Inv, SimInv, Reading, NEW d \in Nat, clocked = DataBit + d
  PROVE  /\ Requested /\ ticks \in 0 .. TICKS
         /\ TICKS * d \in Nat
         /\ Gone = TICKS * PREFETCH_BITS + TICKS * d + ticks
<1>1. ticks \in 0 .. TICKS
  BY DEF Inv, SpiTypeOK
<1>2. \A t, p, k \in Nat : t * (p + k) = t * p + t * k /\ t * k \in Nat
  BY SMT
<1>3. clocked - RequestBit = PREFETCH_BITS + d /\ clocked >= RequestBit
  BY AnswerBounds
<1>4. TICKS * (PREFETCH_BITS + d) = TICKS * PREFETCH_BITS + TICKS * d /\ TICKS * d \in Nat
  BY <1>2, AnswerBounds
<1> QED BY <1>1, <1>3, <1>4 DEF Requested, Gone

LEMMA Served ==
  ASSUME TimeToAnswer, Inv, SimInv, Requested,
         Gone \in Nat, Gone >= TICKS * PREFETCH_BITS + (TICKS \div 2)
  PROVE  Complete
<1>1. Gone >= Whole + 3
  BY AnswerBounds
<1>2. ~Awaited
  BY <1>1, AnswerBounds DEF Awaited
<1>3. ~Underway
  BY <1>1, LeftType, AnswerBounds DEF Underway
<1> QED BY <1>2, <1>3 DEF SimInv, Prefetches

(* Chip select rises after the last bit, and the answer is sent.             *)
LEMMA EndInv ==
  ASSUME TimeToAnswer, Inv, SimInv, MasterEnd
  PROVE  SimInv'
<1>1. /\ master = "busy" /\ clocked = FrameBits /\ ticks = TICKS /\ csn' = 1 /\ clk' = 0
      /\ rst' = 1 /\ master' = "idle" /\ net' = "response"
      /\ UNCHANGED <<spiVars, syncVars, moved, ticks, stall, dramVars, pc, req, sentFilled, lost,
                     clocked, miso, filled, invers, pfvers, shown>>
  BY DEF MasterEnd, CsnRise, clientVars, versionVars
<1>2. SimType'
  BY <1>1 DEF SimInv, SimType, dramVars
<1>3. /\ FrameBits = HeaderBits + req.sz * DATA_BITS /\ FrameBits \in Nat /\ HeaderBits \in Nat
      /\ req.sz * DATA_BITS \in Nat \ {0}
      /\ req.cmd = "read_get_addr" => HeaderBits = DataBit
      /\ req.cmd = "rdid" => HeaderBits = CMD_BITS
      /\ req.cmd \in {"rdid", "read_get_addr"}
  BY Frame DEF SimInv
<1>4. state # "read_get_addr"
  <2>1. CASE req.cmd = "rdid"
    BY <1>1, <1>3, <2>1, AnswerBounds DEF SimInv, InPosition
  <2>2. CASE req.cmd = "read_get_addr"
    BY <1>1, <1>3, <2>2, AnswerBounds DEF SimInv, InPosition, Reading
  <2> QED BY <1>3, <2>1, <2>2
<1>5. Len(miso) = req.sz * DATA_BITS
  BY <1>1, <1>3 DEF SimInv, Collected
<1>6. Sequenced'
  BY <1>1, <1>4, <1>5 DEF SimInv, Sequenced, spiVars
<1>7. ~Busy /\ sync1 = 0 /\ sync2 = 0
  <2>1. CASE ~Requested
    BY <2>1 DEF SimInv, AtRest
  <2>2. CASE Requested
    <3>1. PICK d \in Nat : clocked = DataBit + d /\ d >= 1
      <4>1. clocked = DataBit + req.sz * DATA_BITS
        BY <1>1, <1>3, <2>2 DEF Requested, Reading
      <4> QED BY <1>3, <4>1
    <3>2. Gone = TICKS * PREFETCH_BITS + TICKS * d + TICKS /\ TICKS * d \in Nat
      BY <1>1, <2>2, <3>1, DataGone DEF Requested
    <3>3. Gone \in Nat /\ Gone >= TICKS * PREFETCH_BITS + (TICKS \div 2) /\ Gone >= TICKS + 2
      BY <3>2, AnswerBounds, PrefetchAssumption
    <3>4. Complete
      BY <2>2, <3>3, Served
    <3> QED BY <2>2, <3>3, <3>4, AnswerBounds DEF Complete, SimInv, CrossesOnce
  <2> QED BY <2>1, <2>2
<1>8. AtRest'
  BY <1>1, <1>7 DEF AtRest, Busy, dramVars, syncVars
<1>9. Collected'
  <2>1. master' # "busy"
    BY <1>1
  <2>2. \A j : Due(j)' = Due(j)
    BY <1>1 DEF Due, AnsweredWord, At, Landed
  <2>3. \A src, new : FromFillToo(src, new)' = FromFillToo(src, new)
    BY <1>1 DEF FromFillToo, Filled
  <2> HIDE DEF Due, FromFillToo
  <2> QED BY <1>1, <2>1, <2>2, <2>3 DEF SimInv, Collected
<1> QED BY <1>1, <1>2, <1>6, <1>8, <1>9, AwayInv DEF SimInv

LEMMA SelectedType == ASSUME Inv PROVE Select(PfrIdx) \in 0 .. (NREADS - 1)
<1>1. addr \in Nat
  BY Sizes DEF Inv, SpiTypeOK, Addr
<1>2. PfrIdx \in Nat
  <2>1. addr \div NBYTES \in Nat
    BY <1>1, Sizes, Divides
  <2> QED BY <2>1, Sizes, Wraps DEF PfrIdx
<1> QED BY <1>2 DEF Select

(* What is due depends on the request only, and what has to be new on the    *)
(* fill too.                                                                 *)
LEMMA SameRequest ==
  ASSUME UNCHANGED <<req, sentFilled, filled>>
  PROVE  /\ FrameBits' = FrameBits /\ HeaderBits' = HeaderBits
         /\ \A j : At(j)' = At(j) /\ Due(j)' = Due(j)
         /\ \A src, new : FromFillToo(src, new)' = FromFillToo(src, new)
         /\ \A w : Filled(w)' = Filled(w)
BY DEF FrameBits, HeaderBits, At, Due, AnsweredWord, Landed, FromFillToo, Filled

(* The byte the registers are asked for is there.                            *)
LEMMA RegisterDue ==
  ASSUME TimeToAnswer, Inv, SimInv, Reading, NEW d \in Nat, clocked = DataBit + d,
         ticks >= TICKS \div 2
  PROVE  ByteSel = Due(d) /\ FromFillToo(ByteSel, pfvers[Select(PfrIdx)])
<1>1. Requested /\ Complete
  <2>1. /\ Requested /\ ticks \in 0 .. TICKS /\ TICKS * d \in Nat
        /\ Gone = TICKS * PREFETCH_BITS + TICKS * d + ticks
    BY DataGone
  <2>2. Gone \in Nat /\ Gone >= TICKS * PREFETCH_BITS + (TICKS \div 2)
    BY <2>1, AnswerBounds
  <2> QED BY <2>1, <2>2, Served
<1>2. /\ addr = At(d) /\ paddr = (req.addr \div (NREADS * NBYTES)) % BLOCKS
  <2>1. clocked - DataBit = d /\ clocked >= DataBit /\ clocked >= RequestBit /\ clocked > 0
    BY AnswerBounds
  <2> QED BY <2>1 DEF SimInv, InPosition, Reading
<1> DEFINE i == Select(PfrIdx)
<1>3. i \in 0 .. (NREADS - 1)
  BY SelectedType
<1>4. i = 0 => pf_regs[i] = NoWord
  BY <1>1 DEF Complete, Fetched
<1>5. i # 0 => pf_regs[i] = Landed(paddr, i)
  BY <1>1, <1>3 DEF Complete, Fetched
<1>6. ByteSel = Due(d)
  BY <1>2, <1>4, <1>5 DEF ByteSel, Due, AnsweredWord, PfrIdx
<1>7. ASSUME sentFilled, Filled(pf_regs[i])
      PROVE  pfvers[i]
  <2>1. pf_regs[i] # NoWord
    <3>1. FILL_FIRST \in Nat
      BY RequestAssumption
    <3> QED BY <1>7, <3>1 DEF Filled, NoWord
  <2>2. i \in 1 .. (NREADS - 1)
    BY <1>3, <1>4, <2>1
  <2> QED BY <1>1, <1>7, <2>2 DEF SimInv, Fresh, FromFill
<1> QED BY <1>6, <1>7 DEF FromFillToo, ByteSel

(* Half a clock later the next bit is shown.                                 *)
LEMMA FallInv ==
  ASSUME TimeToAnswer, Inv, SimInv, MasterFall
  PROVE  SimInv'
<1>1. /\ master = "busy" /\ ticks = TICKS \div 2 /\ clk' = 0 /\ csn = 0
      /\ UNCHANGED <<csn, rst, spiVars, syncVars, moved, ticks, stall, dramVars, pc, req,
                     sentFilled, net, lost, master, clocked, miso, filled, invers, pfvers>>
      /\ so' = [src |-> IF rst = 0 /\ state = "read_get_data" THEN DrTmp ELSE NoByte,
                bit |-> dr_bit_cnt]
      /\ shown' = IF state = "read_get_data" /\ dr_bit_cnt = 0
                  THEN pfvers[Select(PfrIdx)] ELSE shown
  BY DEF MasterFall, SpiFall, Shown, clientVars, masterVars, versionVars
<1>2. shown' \in BOOLEAN
  BY <1>1, SelectedType DEF SimInv, SimType
<1>3. SimType'
  BY <1>1, <1>2 DEF SimInv, SimType, dramVars
<1>4. /\ FrameBits' = FrameBits /\ HeaderBits' = HeaderBits
      /\ \A j : At(j)' = At(j) /\ Due(j)' = Due(j)
      /\ \A src, new : FromFillToo(src, new)' = FromFillToo(src, new)
      /\ \A w : Filled(w)' = Filled(w)
  BY <1>1, SameRequest
<1>5. Sequenced'
  BY <1>1, <1>4 DEF SimInv, Sequenced, spiVars
<1>6. /\ Reading' = Reading /\ Requested' = Requested /\ Gone' = Gone /\ Busy' = Busy
      /\ Left' = Left /\ LeastLeft' = LeastLeft
      /\ Fetches(paddr)' = Fetches(paddr) /\ Fetched' = Fetched
  BY <1>1 DEF Reading, Requested, Gone, Busy, Left, LeastLeft, Fetches, Launched, Fetched,
              Landed, dramVars, spiVars
<1>7. InPosition' /\ AtRest' /\ CrossesOnce' /\ Prefetches'
  <2>1. InPosition'
    BY <1>1, <1>4, <1>6 DEF SimInv, InPosition, spiVars
  <2>2. AtRest' /\ CrossesOnce' /\ Prefetches'
    BY <1>1, <1>6 DEF SimInv, AtRest, CrossesOnce, Prefetches, Awaited, Underway, Complete, syncVars
  <2> QED BY <2>1, <2>2
<1>8. Fresh'
  BY <1>1, <1>4, <1>6 DEF SimInv, Fresh, FromFill, Complete, dramVars
<1>9. Collected'
  <2> HIDE DEF Due, FromFillToo
  <2> QED BY <1>1, <1>4 DEF SimInv, Collected
<1>10. ASSUME NEW d \in Nat, clocked = DataBit + d, Reading
       PROVE  /\ so' = [src |-> Due(d), bit |-> d % DATA_BITS]
              /\ FromFillToo(Due(d), shown')
  <2>1. /\ clocked - DataBit = d /\ clocked >= DataBit /\ clocked > 0
    BY <1>10, AnswerBounds
  <2>2. rst = 0 /\ state = "read_get_data" /\ dr_bit_cnt = d % DATA_BITS
    BY <1>10, <2>1 DEF SimInv, InPosition, Sequenced, Reading, Inv, SpiTypeOK
  <2>3. CASE dr_bit_cnt = 0
    <3>1. ByteSel = Due(d) /\ FromFillToo(ByteSel, pfvers[Select(PfrIdx)])
      BY <1>1, <1>10, RegisterDue, AnswerBounds
    <3> QED BY <1>1, <2>2, <2>3, <3>1 DEF DrTmp
  <2>4. CASE dr_bit_cnt # 0
    <3>1. dr = Due(d) /\ FromFillToo(dr, shown)
      BY <1>10, <2>1, <2>4 DEF SimInv, Showing
    <3> QED BY <1>1, <2>2, <2>4, <3>1 DEF DrTmp
  <2> QED BY <2>3, <2>4
<1>11. Showing'
  <2>1. ASSUME Reading, clocked >= DataBit
        PROVE  /\ so' = [src |-> Due(clocked - DataBit), bit |-> (clocked - DataBit) % DATA_BITS]
               /\ FromFillToo(so'.src, shown')
    <3>1. PICK d \in Nat : clocked = DataBit + d /\ d = clocked - DataBit
      <4>1. clocked - DataBit \in Nat /\ clocked = DataBit + (clocked - DataBit)
        <5>1. clocked \in Nat /\ DataBit \in Nat
          BY AnswerBounds DEF SimInv, SimType
        <5> QED BY <2>1, <5>1
      <4> QED BY <4>1
    <3> QED BY <1>10, <2>1, <3>1
  <2>2. ASSUME Reading, clocked >= DataBit, dr_bit_cnt # 0
        PROVE  dr = Due(clocked - DataBit) /\ FromFillToo(dr, shown')
    <3>1. shown' = shown
      BY <1>1, <2>2
    <3> QED BY <2>2, <3>1 DEF SimInv, Showing
  <2>3. ASSUME req.cmd = "rdid" PROVE so'.src = NoByte
    <3>1. rst = 0 => state # "read_get_data"
      <4>1. rst = 0 => clocked > 0 /\ clocked \in Nat
        BY <1>1 DEF SimInv, SimType, Sequenced
      <4> QED BY <1>1, <2>3, <4>1, AnswerBounds DEF SimInv, InPosition
    <3> QED BY <1>1, <3>1
  <2> HIDE DEF Due, FromFillToo
  <2> QED BY <1>1, <1>4, <1>6, <2>1, <2>2, <2>3 DEF Showing, spiVars
<1> QED BY <1>3, <1>5, <1>7, <1>8, <1>9, <1>11 DEF SimInv

LEMMA Remainder ==
  ASSUME NEW n \in Nat \ {0}, NEW b \in Nat, NEW j \in 0 .. (n - 1)
  PROVE  (b * n + j) % n = j
<1> DEFINE x == b * n + j
<1>1. x \in Nat /\ b * n \in Nat /\ n * b = b * n
  <2>1. b * n \in Nat /\ n * b = b * n
    OBVIOUS
  <2> QED BY <2>1
<1>2. \A m \in Nat \ {0}, y \in Nat : y % m \in 0 .. (m - 1) /\ y = m * (y \div m) + (y % m)
  BY SMT
<1>3. x \div n = b
  BY Quotient
<1>4. x % n \in 0 .. (n - 1) /\ x = n * b + (x % n)
  BY <1>1, <1>2, <1>3
<1> HIDE DEF x
<1>5. x = b * n + j
  BY DEF x
<1>6. x % n = j
  BY <1>1, <1>4, <1>5
<1> QED BY <1>6 DEF x

(* Counting in a digit and a carry.                                          *)
LEMMA Carry ==
  ASSUME NEW n \in Nat \ {0}, NEW j \in Nat
  PROVE  /\ j \div n \in Nat /\ j % n \in 0 .. (n - 1)
         /\ (j + 1) % n = ((j % n) + 1) % n
         /\ j % n = n - 1 => (j + 1) \div n = (j \div n) + 1 /\ (j + 1) % n = 0
         /\ j % n # n - 1 => (j + 1) \div n = j \div n /\ (j + 1) % n = (j % n) + 1
<1>1. PICK q \in Nat, r \in 0 .. (n - 1) : q = j \div n /\ r = j % n /\ j = n * q + r
  <2>1. \A m \in Nat \ {0}, y \in Nat :
          y \div m \in Nat /\ y % m \in 0 .. (m - 1) /\ y = m * (y \div m) + (y % m)
    BY SMT
  <2> QED BY <2>1
<1>2. n * q = q * n /\ q * n \in Nat /\ (q + 1) * n = q * n + n
  OBVIOUS
<1>3. CASE r = n - 1
  <2>1. j + 1 = (q + 1) * n + 0 /\ 0 \in 0 .. (n - 1) /\ q + 1 \in Nat
    BY <1>1, <1>2, <1>3
  <2>2. (j + 1) \div n = q + 1 /\ (j + 1) % n = 0
    BY <2>1, Quotient, Remainder
  <2>3. (r + 1) % n = 0
    <3>1. r + 1 = 1 * n + 0
      BY <1>3
    <3> QED BY <2>1, <3>1, Remainder
  <2> QED BY <1>1, <1>3, <2>2, <2>3
<1>4. CASE r # n - 1
  <2>1. j + 1 = q * n + (r + 1) /\ r + 1 \in 0 .. (n - 1)
    BY <1>1, <1>2, <1>4
  <2>2. (j + 1) \div n = q /\ (j + 1) % n = r + 1
    BY <2>1, Quotient, Remainder
  <2>3. (r + 1) % n = r + 1
    <3>1. r + 1 = 0 * n + (r + 1)
      BY <2>1
    <3> QED BY <2>1, <3>1, Remainder
  <2> QED BY <1>1, <1>4, <2>2, <2>3
<1> QED BY <1>3, <1>4

(* The address that a prefix of its bits and the next one make.              *)
LEMMA NextBit ==
  ASSUME NEW n \in Nat \ {0}, NEW x \in Nat
  PROVE  /\ 2 * (x \div (2 * n)) + ((x \div n) % 2) = x \div n
         /\ x \div n \in Nat /\ x \div n <= x
<1>1. \A m \in Nat \ {0}, y \in Nat :
        y \div m \in Nat /\ y % m \in 0 .. (m - 1) /\ y = m * (y \div m) + (y % m)
  BY SMT
<1>2. PICK q \in Nat, r \in 0 .. (n - 1) : q = x \div n /\ x = n * q + r
  BY <1>1
<1>3. PICK h \in Nat, e \in {0, 1} : e = q % 2 /\ q = 2 * h + e
  OBVIOUS
<1>4. x = h * (2 * n) + (n * e + r)
  <2>1. \A a, b \in Nat : n * (2 * a + b) = a * (2 * n) + n * b /\ n * b \in Nat /\ a * (2 * n) \in Nat
    BY SMT
  <2>2. n * q = h * (2 * n) + n * e /\ n * e \in Nat /\ h * (2 * n) \in Nat
    BY <1>3, <2>1
  <2> QED BY <1>2, <2>2
<1>5. n * e + r \in 0 .. (2 * n - 1) /\ 2 * n \in Nat \ {0}
  <2>1. n * 0 = 0 /\ n * 1 = n /\ 2 * n \in Nat \ {0}
    OBVIOUS
  <2>2. n * e \in {0, n}
    BY <1>3, <2>1
  <2>3. PICK m \in {0, n} : m = n * e
    BY <2>2
  <2>4. m + r \in 0 .. (2 * n - 1)
    BY <1>2, <2>3
  <2> QED BY <2>1, <2>3, <2>4
<1>6. x \div (2 * n) = h
  BY <1>4, <1>5, Quotient
<1>7. q <= x
  <2>1. \A a \in Nat \ {0}, b \in Nat : a * b >= b
    BY SMT
  <2>2. n * q >= q /\ n * q \in Nat
    BY <2>1
  <2> QED BY <1>2, <2>2
<1> QED BY <1>2, <1>3, <1>6, <1>7

LEMMA AtNext ==
  ASSUME SimType, NEW j \in Nat
  PROVE  /\ At(0) = req.addr
         /\ j % DATA_BITS = DATA_BITS - 1 => At(j + 1) = (At(j) + 1) % 2 ^ ADDR_BITS
         /\ j % DATA_BITS # DATA_BITS - 1 => At(j + 1) = At(j) /\ Due(j + 1) = Due(j)
<1>1. DATA_BITS \in Nat \ {0} /\ 2 ^ ADDR_BITS \in Nat \ {0}
  BY Sizes
<1>2. PICK M \in Nat \ {0} : M = 2 ^ ADDR_BITS
  BY <1>1
<1>3. req.addr \in 0 .. (M - 1)
  BY <1>2 DEF SimType, Addr
<1>4. At(0) = req.addr
  <2>1. 0 \div DATA_BITS = 0
    <3>1. 0 = 0 * DATA_BITS + 0 /\ 0 \in 0 .. (DATA_BITS - 1)
      BY <1>1
    <3>2. (0 * DATA_BITS + 0) \div DATA_BITS = 0
      BY <1>1, <3>1, Quotient
    <3> QED BY <3>1, <3>2
  <2>2. req.addr % M = req.addr
    <3>1. (0 * M + req.addr) % M = req.addr
      BY <1>3, Remainder
    <3>2. 0 * M + req.addr = req.addr
      BY <1>3
    <3> QED BY <3>1, <3>2
  <2>3. req.addr + 0 = req.addr
    BY <1>3
  <2> QED BY <1>2, <2>1, <2>2, <2>3 DEF At
<1>5. /\ j \div DATA_BITS \in Nat
      /\ j % DATA_BITS = DATA_BITS - 1 => (j + 1) \div DATA_BITS = (j \div DATA_BITS) + 1
      /\ j % DATA_BITS # DATA_BITS - 1 => (j + 1) \div DATA_BITS = j \div DATA_BITS
  BY <1>1, Carry
<1>6. ASSUME j % DATA_BITS = DATA_BITS - 1
      PROVE  At(j + 1) = (At(j) + 1) % 2 ^ ADDR_BITS
  <2>1. PICK y \in Nat : y = req.addr + (j \div DATA_BITS)
    BY <1>3, <1>5
  <2>2. req.addr + ((j + 1) \div DATA_BITS) = y + 1
    BY <1>3, <1>5, <1>6, <2>1
  <2>3. (y + 1) % M = ((y % M) + 1) % M
    BY Carry
  <2> QED BY <1>2, <2>1, <2>2, <2>3 DEF At
<1>7. j % DATA_BITS # DATA_BITS - 1 => At(j + 1) = At(j) /\ Due(j + 1) = Due(j)
  BY <1>5 DEF At, Due
<1> QED BY <1>4, <1>6, <1>7

(* What a rising edge leaves alone, samples and counts.                      *)
LEMMA RiseSteps ==
  ASSUME MasterRise, TimeToAnswer
  PROVE  /\ master = "busy" /\ clocked < FrameBits /\ csn = 0 /\ clk = 0 /\ clk' = 1
         /\ rst' = 0 /\ ticks = TICKS /\ ticks' = 0 /\ clocked' = clocked + 1
         /\ moved' = (moved \/ paddr' # paddr)
         /\ UNCHANGED <<csn, so, syncVars, stall, dramVars, pc, req, sentFilled, net, lost, master,
                        filled, invers, pfvers, shown>>
         /\ miso' = IF clocked >= HeaderBits
                    THEN Append(miso, [src |-> so.src, bit |-> so.bit, new |-> shown])
                    ELSE miso
BY AnswerBounds DEF MasterRise, SpiRise, clientVars, versionVars

LEMMA RiseSampled ==
  ASSUME TimeToAnswer, Inv, SimInv, MasterRise
  PROVE  SimType' /\ Sequenced' /\ Collected'
<1>1. /\ master = "busy" /\ clocked < FrameBits /\ clk = 0 /\ clocked' = clocked + 1
      /\ rst' = 0 /\ clocked \in Nat
      /\ UNCHANGED <<csn, so, dramVars, pc, req, sentFilled, net, lost, master,
                        filled, invers, pfvers, shown>>
      /\ miso' = IF clocked >= HeaderBits
                 THEN Append(miso, [src |-> so.src, bit |-> so.bit, new |-> shown])
                 ELSE miso
  BY RiseSteps DEF SimInv, SimType
<1> DEFINE S == [src : Byte, bit : 0 .. (DATA_BITS - 1), new : BOOLEAN]
           x == [src |-> so.src, bit |-> so.bit, new |-> shown]
<1>2. miso \in Seq(S) /\ x \in S
  BY DEF SimInv, SimType, Inv, SpiTypeOK
<1>3. SimType'
  <2>1. miso' \in Seq(S)
    BY <1>1, <1>2, PutOne
  <2>2. clocked' \in Nat
    BY <1>1
  <2> QED BY <1>1, <2>1, <2>2 DEF SimInv, SimType, dramVars
<1>4. /\ FrameBits' = FrameBits /\ HeaderBits' = HeaderBits
      /\ \A j : At(j)' = At(j) /\ Due(j)' = Due(j)
      /\ \A src, new : FromFillToo(src, new)' = FromFillToo(src, new)
  BY <1>1, SameRequest
<1>5. /\ FrameBits \in Nat /\ HeaderBits \in Nat
      /\ req.cmd = "read_get_addr" => HeaderBits = DataBit
      /\ req.cmd \in {"rdid", "read_get_addr"}
  BY Frame DEF SimInv
<1>6. Sequenced'
  <2>1. master' = "busy" /\ rst' # 1 /\ clocked' # 0 /\ clocked' <= FrameBits'
    BY <1>1, <1>4, <1>5
  <2>2. pc = "waiting" /\ net = "none" /\ ~lost /\ csn = 0
    BY <1>1 DEF SimInv, Sequenced
  <2> QED BY <1>1, <2>1, <2>2 DEF Sequenced
<1>7. /\ Len(miso) \in Nat
      /\ Len(miso) = IF clocked > HeaderBits THEN clocked - HeaderBits ELSE 0
  BY <1>1, <1>2 DEF SimInv, Collected
<1>8. ASSUME clocked >= HeaderBits
      PROVE  /\ req.cmd = "read_get_addr" => x.src = Due(Len(miso)) /\ x.bit = Len(miso) % DATA_BITS
             /\ req.cmd = "rdid" => x.src = NoByte
             /\ FromFillToo(x.src, x.new)
  <2>1. Len(miso) = clocked - HeaderBits
    BY <1>1, <1>5, <1>7, <1>8
  <2>2. CASE req.cmd = "read_get_addr"
    <3>1. /\ so = [src |-> Due(clocked - DataBit), bit |-> (clocked - DataBit) % DATA_BITS]
          /\ FromFillToo(so.src, shown)
      BY <1>1, <1>5, <1>8, <2>2 DEF SimInv, Showing, Reading
    <3> QED BY <1>5, <2>1, <2>2, <3>1
  <2>3. CASE req.cmd = "rdid"
    <3>1. so.src = NoByte
      <4>1. clocked > 0
        BY <1>1, <1>5, <1>8, <2>3, LiteAssumption DEF HeaderBits
      <4> QED BY <1>1, <2>3, <4>1 DEF SimInv, Showing
    <3>2. ~Filled(so.src.word)
      <4>1. FILL_FIRST \in Nat
        BY RequestAssumption
      <4> QED BY <3>1, <4>1 DEF Filled, NoByte, NoWord
    <3> QED BY <2>3, <3>1, <3>2 DEF FromFillToo
  <2> QED BY <1>5, <2>2, <2>3
<1>9. CASE clocked < HeaderBits
  <2>1. miso' = miso /\ ~(clocked' > HeaderBits) /\ ~(clocked > HeaderBits)
    BY <1>1, <1>5, <1>9
  <2>2. Len(miso') = IF clocked' > HeaderBits' THEN clocked' - HeaderBits' ELSE 0
    BY <1>4, <1>7, <2>1
  <2>3. \A k : FromFillToo(miso[k].src, miso[k].new)' = FromFillToo(miso[k].src, miso[k].new)
    BY <1>1, <2>1 DEF FromFillToo, Filled
  <2> HIDE DEF Due, FromFillToo
  <2> QED BY <1>1, <1>3, <1>4, <1>6, <2>1, <2>2, <2>3 DEF SimInv, Collected
<1>10. CASE clocked >= HeaderBits
  <2>1. miso' = Append(miso, x)
    BY <1>1, <1>10
  <2>2. /\ Len(miso') = Len(miso) + 1 /\ miso'[Len(miso) + 1] = x
        /\ \A k \in 1 .. Len(miso) : miso'[k] = miso[k]
    BY <1>2, <2>1, PutOne
  <2>3. Len(miso') = IF clocked' > HeaderBits' THEN clocked' - HeaderBits' ELSE 0
    BY <1>1, <1>4, <1>5, <1>7, <1>10, <2>2
  <2>4. ASSUME NEW k \in 1 .. Len(miso')
        PROVE  /\ req.cmd = "read_get_addr" =>
                    miso'[k].src = Due(k - 1) /\ miso'[k].bit = (k - 1) % DATA_BITS
               /\ req.cmd = "rdid" => miso'[k].src = NoByte
               /\ FromFillToo(miso'[k].src, miso'[k].new)
    <3> HIDE DEF Due, FromFillToo, x
    <3>1. CASE k \in 1 .. Len(miso)
      BY <2>2, <3>1 DEF SimInv, Collected
    <3>2. CASE k = Len(miso) + 1
      <4>1. k - 1 = Len(miso) /\ miso'[k] = x
        BY <1>7, <2>2, <3>2
      <4> QED BY <1>8, <1>10, <4>1
    <3> QED BY <1>7, <2>2, <3>1, <3>2
  <2>5. ASSUME NEW k \in 1 .. Len(miso')
        PROVE  /\ req'.cmd = "read_get_addr" =>
                    miso'[k].src = Due(k - 1)' /\ miso'[k].bit = (k - 1) % DATA_BITS
               /\ req'.cmd = "rdid" => miso'[k].src = NoByte
               /\ FromFillToo(miso[k].src, miso[k].new)'
    <3>1. Due(k - 1)' = Due(k - 1)
      BY <1>4
    <3>2. FromFillToo(miso[k].src, miso[k].new)' = FromFillToo(miso'[k].src, miso'[k].new)
      BY <1>1 DEF FromFillToo, Filled
    <3> HIDE DEF Due, FromFillToo
    <3> QED BY <1>1, <2>4, <3>1, <3>2
  <2> HIDE DEF Due, FromFillToo
  <2> QED BY <1>3, <1>6, <2>3, <2>5 DEF Collected
<1> QED BY <1>1, <1>3, <1>5, <1>6, <1>9, <1>10

(* Until the request is made the prefetcher has been at rest; after it, an   *)
(* edge of the SPI clock moves nothing of it.                                *)
LEMMA RisePrefetch ==
  ASSUME TimeToAnswer, Inv, SimInv, MasterRise,
         Requested => paddr' = paddr
  PROVE  AtRest' /\ CrossesOnce' /\ Prefetches' /\ Fresh'
<1>1. /\ master = "busy" /\ ticks = TICKS /\ ticks' = 0 /\ clocked' = clocked + 1
      /\ moved' = (moved \/ paddr' # paddr)
      /\ clocked \in Nat /\ moved \in BOOLEAN
      /\ UNCHANGED <<syncVars, stall, dramVars, req, sentFilled, master, filled, invers, pfvers>>
  BY RiseSteps DEF SimInv, SimType, Inv, SpiTypeOK
<1>2. /\ Busy' = Busy /\ Left' = Left /\ LeastLeft' = LeastLeft /\ Launched' = Launched
      /\ sync1' = sync1 /\ sync2' = sync2
  BY <1>1 DEF Busy, Left, LeastLeft, Launched, dramVars, syncVars
<1>3. Requested => Requested'
  BY <1>1, AnswerBounds DEF Requested, Reading
<1>4. CASE ~Requested'
  BY <1>2, <1>3, <1>4 DEF SimInv, AtRest, CrossesOnce, Prefetches, Fresh
<1>5. CASE Requested' /\ ~Requested
  <2>1. clocked' = RequestBit
    BY <1>1, <1>5, AnswerBounds DEF Requested, Reading
  <2>2. Gone' = 0
    <3>1. clocked' - RequestBit = 0 /\ TICKS * 0 = 0
      BY <2>1, AnswerBounds
    <3> QED BY <1>1, <3>1 DEF Gone
  <2>3. ~Busy' /\ sync1' = 0 /\ sync2' = 0
    BY <1>2, <1>5 DEF SimInv, AtRest
  <2>4. ~Complete' /\ dram_state' # "RD_LAND"
    BY <2>2, <2>3 DEF Complete, Busy
  <2> QED BY <1>5, <2>2, <2>3, <2>4, AnswerBounds
          DEF AtRest, CrossesOnce, Prefetches, Awaited, Fresh
<1>6. CASE Requested
  <2>1. Gone' = Gone /\ Gone \in Nat /\ Gone > 0
    <3>1. PICK k \in Nat : k = clocked - RequestBit
      BY <1>1, <1>6, AnswerBounds DEF Requested
    <3>2. TICKS * (k + 1) + 0 = TICKS * k + TICKS /\ TICKS * k \in Nat
      BY OneRise, AnswerBounds
    <3>3. clocked' - RequestBit = k + 1
      BY <1>1, <3>1, AnswerBounds
    <3> QED BY <1>1, <3>1, <3>2, <3>3, AnswerBounds DEF Gone
  <2>2. paddr' = paddr /\ ~moved /\ ~moved'
    BY <1>1, <1>6, <2>1 DEF SimInv, CrossesOnce
  <2>3. Fetches(paddr)' = Fetches(paddr) /\ Fetched' = Fetched
    BY <1>1, <1>2, <2>2 DEF Fetches, Fetched, Landed, dramVars
  <2>4. AtRest' /\ CrossesOnce' /\ Prefetches'
    BY <1>2, <1>3, <1>6, <2>1, <2>2, <2>3
       DEF SimInv, AtRest, CrossesOnce, Prefetches, Awaited, Underway, Complete
  <2>5. Complete' = Complete
    BY <1>2, <2>1, <2>3 DEF Complete
  <2>6. \A w : Filled(w)' = Filled(w)
    BY <1>1 DEF Filled
  <2>7. Fresh'
    BY <1>1, <1>2, <1>6, <2>5, <2>6 DEF SimInv, Fresh, FromFill, dramVars
  <2> QED BY <2>4, <2>7
<1> QED BY <1>4, <1>5, <1>6

(* A rising edge samples; what it has to leave for the next bit is the byte. *)
LEMMA RiseShowing ==
  ASSUME TimeToAnswer, Inv, SimInv, MasterRise,
         Reading /\ clocked' >= DataBit /\ dr_bit_cnt' # 0 =>
           dr' = Due(clocked' - DataBit) /\ FromFillToo(dr', shown)
  PROVE  Showing'
<1>1. /\ master = "busy" /\ clk' = 1
      /\ UNCHANGED <<so, req, sentFilled, master, filled, shown>>
  BY RiseSteps
<1>2. /\ \A j : Due(j)' = Due(j)
      /\ \A src, new : FromFillToo(src, new)' = FromFillToo(src, new)
  BY <1>1, SameRequest
<1>3. Reading' = Reading
  BY <1>1 DEF Reading
<1>4. ~(clk' = 0)
  BY <1>1
<1>5. FromFillToo(dr, shown)' = FromFillToo(dr', shown)
  BY <1>1 DEF FromFillToo, Filled
<1>6. Due(clocked - DataBit)' = Due(clocked' - DataBit)
  BY <1>1 DEF Due, AnsweredWord, At, Landed, DataBit
<1> HIDE DEF Due, FromFillToo
<1> QED BY <1>1, <1>3, <1>4, <1>5, <1>6 DEF Showing

LEMMA FirstBit ==
  ASSUME TimeToAnswer, Inv, SimInv, MasterRise, clocked = 0
  PROVE  InPosition' /\ Showing' /\ ~Requested
<1>1. master = "busy" /\ clocked' = 1 /\ rst = 1
  BY RiseSteps DEF SimInv, Sequenced
<1>2. SpiReset
  BY <1>1 DEF MasterRise, SpiRise
<1>3. InPosition'
  BY <1>1, <1>2, AnswerBounds DEF InPosition, SpiReset
<1>4. Showing' /\ ~Requested
  BY <1>1, RiseShowing, AnswerBounds DEF Requested
<1> QED BY <1>3, <1>4

LEMMA CommandBit ==
  ASSUME TimeToAnswer, Inv, SimInv, MasterRise, clocked > 0, clocked < CMD_BITS
  PROVE  InPosition' /\ Showing' /\ ~Requested
<1>1. /\ master = "busy" /\ clocked' = clocked + 1 /\ rst = 0 /\ clocked \in Nat /\ req' = req
      /\ master' = master
  BY RiseSteps DEF SimInv, SimType, Sequenced, Inv, SpiTypeOK
<1>2. /\ state = "get_cmd" /\ cmd_bit_cnt = clocked /\ addr_cnt = 0 /\ addr = 0
      /\ dr_bit_cnt = 0
  BY <1>1, AnswerBounds DEF SimInv, InPosition
<1>3. /\ cmd_bit_cnt' = (clocked + 1) % CMD_BITS
      /\ IF clocked = CMD_BITS - 1 THEN state' = req.cmd ELSE state' = "get_cmd"
      /\ addr_cnt' = 0 /\ addr' = 0 /\ dr_bit_cnt' = 0
  BY <1>1, <1>2 DEF MasterRise, SpiRise, GetCmd, Rdid, ReadGetAddr, ReadGetData, BadCmdErr
<1>4. clocked # CMD_BITS - 1 => cmd_bit_cnt' = clocked'
  <2>1. clocked # CMD_BITS - 1 => clocked + 1 \in 0 .. (CMD_BITS - 1)
    BY <1>1, AnswerBounds
  <2>2. \A n \in Nat \ {0} : \A k \in 0 .. (n - 1) : k % n = k
    BY SMT
  <2>3. CMD_BITS \in Nat \ {0}
    BY AnswerBounds
  <2> QED BY <1>1, <1>3, <2>1, <2>2, <2>3
<1>5. ADDR_BITS - addr_cnt' = ADDR_BITS
  BY <1>3, AnswerBounds
<1>6. req.addr \div 2 ^ ADDR_BITS = 0
  <2>1. PICK m \in Nat \ {0} : m = 2 ^ ADDR_BITS
    BY Sizes
  <2>2. req.addr \in 0 .. (m - 1)
    BY <2>1 DEF SimInv, SimType, Addr
  <2>3. (0 * m + req.addr) \div m = 0 /\ 0 * m + req.addr = req.addr
    BY <2>2, Quotient
  <2> QED BY <2>1, <2>3
<1>7. InPosition'
  <2>1. clocked' < CMD_BITS => clocked # CMD_BITS - 1
    BY <1>1, AnswerBounds
  <2>2. clocked' >= CMD_BITS => clocked = CMD_BITS - 1 /\ clocked' - CMD_BITS = 0
    BY <1>1, AnswerBounds
  <2>3. ~(clocked' >= DataBit) /\ ~(clocked' >= RequestBit)
    BY <1>1, AnswerBounds
  <2> QED BY <1>1, <1>3, <1>4, <1>5, <1>6, <2>1, <2>2, <2>3 DEF InPosition, Reading
<1>8. Showing' /\ ~Requested
  <2>1. ~(clocked' >= DataBit) /\ ~(clocked >= RequestBit)
    BY <1>1, AnswerBounds
  <2> QED BY <2>1, RiseShowing DEF Requested
<1> QED BY <1>7, <1>8

LEMMA ClockedType ==
  ASSUME Inv, SimInv PROVE clocked \in Nat /\ rst \in {0, 1}
<1>1. clocked \in Nat
  BY DEF SimInv, SimType
<1>2. rst \in {0, 1}
  BY DEF Inv, SpiTypeOK
<1> QED BY <1>1, <1>2

LEMMA IdBit ==
  ASSUME TimeToAnswer, Inv, SimInv, MasterRise, clocked >= CMD_BITS, req.cmd = "rdid"
  PROVE  InPosition' /\ Showing' /\ ~Requested
<1>1. /\ master = "busy" /\ clocked' = clocked + 1 /\ rst = 0 /\ clocked \in Nat /\ req' = req
  <2>1. clocked \in Nat /\ clocked # 0 /\ rst \in {0, 1}
    BY ClockedType, AnswerBounds
  <2> QED BY <2>1, RiseSteps DEF SimInv, Sequenced
<1>2. state = "rdid" /\ clocked > 0
  BY <1>1, AnswerBounds DEF SimInv, InPosition
<1>3. state' = "rdid" /\ dr_bit_cnt' = dr_bit_cnt
  BY <1>1, <1>2 DEF MasterRise, SpiRise, GetCmd, Rdid, ReadGetAddr, ReadGetData, BadCmdErr, spiVars
<1>4. ~Reading /\ ~Reading' /\ ~Requested
  BY <1>1 DEF Reading, Requested
<1>5. InPosition'
  <2>1. ~(clocked' < CMD_BITS) /\ (clocked' < DataBit => clocked < DataBit)
    BY <1>1, AnswerBounds
  <2> QED BY <1>1, <1>2, <1>3, <1>4, <2>1 DEF SimInv, InPosition
<1>6. Showing'
  BY <1>4, RiseShowing
<1> QED BY <1>4, <1>5, <1>6

LEMMA AddressBit ==
  ASSUME TimeToAnswer, Inv, SimInv, MasterRise, req.cmd = "read_get_addr",
         clocked >= CMD_BITS, clocked < DataBit
  PROVE  InPosition' /\ Showing' /\ (Requested => paddr' = paddr)
<1>1. /\ master = "busy" /\ clocked' = clocked + 1 /\ clocked \in Nat /\ clocked > 0
      /\ rst = 0 /\ req' = req /\ master' = master
  <2>1. clocked \in Nat /\ clocked > 0 /\ rst \in {0, 1}
    BY ClockedType, AnswerBounds
  <2> QED BY <2>1, RiseSteps DEF SimInv, Sequenced
<1>2. /\ state = "read_get_addr" /\ addr_cnt = clocked - CMD_BITS
      /\ addr = req.addr \div 2 ^ (ADDR_BITS - addr_cnt) /\ dr_bit_cnt = 0
      /\ clocked >= RequestBit => paddr = (req.addr \div (NREADS * NBYTES)) % BLOCKS
  BY <1>1 DEF SimInv, InPosition, Reading
<1>3. PICK k \in 0 .. (ADDR_BITS - 1) : k = ADDR_BITS - 1 - addr_cnt
  <2>1. ADDR_BITS - 1 - addr_cnt \in 0 .. (ADDR_BITS - 1)
    BY <1>1, <1>2, AnswerBounds
  <2> QED BY <2>1
<1>4. /\ ADDR_BITS - addr_cnt = k + 1 /\ addr_cnt \in Nat /\ addr_cnt = ADDR_BITS - 1 - k
      /\ ADDR_BITS - (addr_cnt + 1) = k
  BY <1>1, <1>2, <1>3, AnswerBounds
<1>5. PICK n \in Nat \ {0} : n = 2 ^ k /\ 2 ^ (k + 1) = 2 * n
  BY RequestAssumption
<1>6. /\ addr' = (2 * addr + AddrBit) % 2 ^ ADDR_BITS
      /\ addr_cnt' = addr_cnt + 1 /\ dr_bit_cnt' = dr_bit_cnt
      /\ paddr' = IF addr_cnt = ADDR_BITS - 1 - PREFETCH_BITS THEN addr' % BLOCKS ELSE paddr
      /\ state' = IF addr_cnt = ADDR_BITS - 1 THEN "read_get_data" ELSE state
  BY <1>1, <1>2
     DEF MasterRise, SpiRise, GetCmd, Rdid, ReadGetAddr, ReadGetData, BadCmdErr, spiVars
<1>7. addr' = req.addr \div n /\ (k = 0 => addr' = req.addr)
  <2>1. PICK M \in Nat \ {0} : M = 2 ^ ADDR_BITS
    BY Sizes
  <2>2. PICK x \in 0 .. (M - 1) : x = req.addr
    BY <2>1 DEF SimInv, SimType, Addr
  <2>3. /\ 2 * (x \div (2 * n)) + ((x \div n) % 2) = x \div n
        /\ x \div n \in Nat /\ x \div n <= x
    <3>1. x \in Nat
      OBVIOUS
    <3> QED BY <3>1, NextBit
  <2>4. addr = x \div (2 * n) /\ AddrBit = (x \div n) % 2
    BY <1>2, <1>3, <1>4, <1>5, <2>2 DEF AddrBit
  <2>5. addr' = (x \div n) % M
    BY <1>6, <2>1, <2>3, <2>4
  <2>6. PICK y \in 0 .. (M - 1) : y = x \div n
    BY <2>3
  <2>7. y % M = y
    <3>1. (0 * M + y) % M = y /\ 0 * M + y = y
      BY Remainder
    <3> QED BY <3>1
  <2>8. k = 0 => x \div n = x
    <3>1. x \div 1 = x
      OBVIOUS
    <3> QED BY <1>5, <3>1, RequestAssumption
  <2> QED BY <2>2, <2>5, <2>6, <2>7, <2>8
<1>8. ASSUME clocked' >= RequestBit
      PROVE  paddr' = (req.addr \div (NREADS * NBYTES)) % BLOCKS
  <2>1. CASE clocked' = RequestBit
    <3>1. k = PREFETCH_BITS
      BY <1>1, <1>2, <1>4, <2>1, AnswerBounds
    <3>2. n = NREADS * NBYTES
      BY <1>5, <3>1, LiteAssumption
    <3>3. addr_cnt = ADDR_BITS - 1 - PREFETCH_BITS
      BY <1>4, <3>1
    <3> QED BY <1>6, <1>7, <3>2, <3>3
  <2>2. CASE clocked' # RequestBit
    <3>1. clocked >= RequestBit
      BY <1>1, <1>8, <2>2, AnswerBounds
    <3>2. addr_cnt # ADDR_BITS - 1 - PREFETCH_BITS
      BY <1>1, <1>2, <3>1, AnswerBounds
    <3> QED BY <1>2, <1>6, <3>1, <3>2
  <2> QED BY <2>1, <2>2
<1>9. Requested => paddr' = paddr
  <2>1. clocked >= RequestBit => addr_cnt # ADDR_BITS - 1 - PREFETCH_BITS
    BY <1>1, <1>2, AnswerBounds
  <2> QED BY <1>6, <2>1 DEF Requested
<1>10. ASSUME clocked' < DataBit
       PROVE  /\ state' = "read_get_addr" /\ addr_cnt' = clocked' - CMD_BITS
              /\ addr' = req.addr \div 2 ^ (ADDR_BITS - addr_cnt')
  <2>1. addr_cnt # ADDR_BITS - 1 /\ addr_cnt' = clocked' - CMD_BITS
    BY <1>1, <1>2, <1>6, <1>10, AnswerBounds
  <2>2. ADDR_BITS - addr_cnt' = k
    BY <1>4, <1>6
  <2> QED BY <1>2, <1>5, <1>6, <1>7, <2>1, <2>2
<1>11. ASSUME clocked' >= DataBit
       PROVE  /\ state' = "read_get_data" /\ clocked' - DataBit = 0 /\ addr' = At(0)
              /\ 0 % DATA_BITS = 0
  <2>1. addr_cnt = ADDR_BITS - 1 /\ clocked' - DataBit = 0
    BY <1>1, <1>2, <1>11, AnswerBounds
  <2>2. k = 0
    BY <1>3, <2>1, AnswerBounds
  <2>3. (0 * DATA_BITS + 0) % DATA_BITS = 0 /\ 0 * DATA_BITS + 0 = 0
    <3>1. 0 \in 0 .. (DATA_BITS - 1)
      BY AnswerBounds
    <3> QED BY <3>1, Remainder, Sizes
  <2>4. At(0) = req.addr
    BY AtNext DEF SimInv
  <2> QED BY <1>6, <1>7, <2>1, <2>2, <2>3, <2>4
<1>12. InPosition'
  <2>1. ~(clocked' < CMD_BITS) /\ (clocked' >= DataBit \/ clocked' < DataBit)
    BY <1>1, AnswerBounds
  <2>2. \A j : At(j)' = At(j)
    BY <1>1 DEF At
  <2>3. dr_bit_cnt' = 0 /\ req'.cmd # "rdid"
    BY <1>1, <1>2, <1>6
  <2> HIDE DEF At
  <2>4. ASSUME clocked' >= DataBit
        PROVE  /\ state' = "read_get_data" /\ addr' = At(clocked - DataBit)'
               /\ dr_bit_cnt' = (clocked' - DataBit) % DATA_BITS
    <3>1. At(clocked - DataBit)' = At(0)
      BY <1>1, <1>11, <2>4 DEF At, DataBit
    <3> QED BY <1>11, <2>3, <2>4, <3>1
  <2> QED BY <1>1, <1>8, <1>10, <2>1, <2>3, <2>4 DEF InPosition, Reading
<1>13. Showing'
  BY <1>2, <1>6, RiseShowing
<1> QED BY <1>9, <1>12, <1>13

LEMMA ByteBit ==
  ASSUME TimeToAnswer, Inv, SimInv, MasterRise, req.cmd = "read_get_addr", clocked >= DataBit
  PROVE  InPosition' /\ Showing' /\ (Requested => paddr' = paddr)
<1>1. /\ master = "busy" /\ clocked' = clocked + 1 /\ clocked \in Nat /\ clocked > 0 /\ clk = 0
      /\ rst = 0 /\ req' = req /\ master' = master /\ ticks = TICKS
  <2>1. clocked \in Nat /\ clocked > 0 /\ rst \in {0, 1}
    BY ClockedType, AnswerBounds
  <2> QED BY <2>1, RiseSteps DEF SimInv, Sequenced
<1>2. PICK d \in Nat : /\ clocked = DataBit + d /\ clocked - DataBit = d
                       /\ clocked' - DataBit = d + 1
  <2>1. clocked - DataBit \in Nat
    BY <1>1, AnswerBounds
  <2>2. clocked = DataBit + (clocked - DataBit) /\ clocked' - DataBit = (clocked - DataBit) + 1
    BY <1>1, AnswerBounds
  <2> QED BY <2>1, <2>2
<1>3. Reading /\ clocked >= RequestBit /\ clocked >= CMD_BITS
  BY <1>1, AnswerBounds DEF Reading
<1>4. /\ state = "read_get_data" /\ addr = At(d) /\ dr_bit_cnt = d % DATA_BITS
      /\ paddr = (req.addr \div (NREADS * NBYTES)) % BLOCKS
  BY <1>1, <1>2, <1>3 DEF SimInv, InPosition
<1>5. /\ state' = state /\ paddr' = paddr /\ dr' = DrTmp
      /\ dr_bit_cnt' = (dr_bit_cnt + 1) % DATA_BITS
      /\ addr' = IF dr_bit_cnt = DATA_BITS - 1 THEN (addr + 1) % 2 ^ ADDR_BITS ELSE addr
  BY <1>1, <1>4
     DEF MasterRise, SpiRise, GetCmd, Rdid, ReadGetAddr, ReadGetData, BadCmdErr, spiVars
<1>6. /\ (d + 1) % DATA_BITS = dr_bit_cnt' /\ addr' = At(d + 1)
      /\ dr_bit_cnt' # 0 => Due(d + 1) = Due(d)
  <2>1. DATA_BITS \in Nat \ {0}
    BY Sizes
  <2>2. /\ (d + 1) % DATA_BITS = ((d % DATA_BITS) + 1) % DATA_BITS
        /\ d % DATA_BITS = DATA_BITS - 1 => (d + 1) % DATA_BITS = 0
    BY <2>1, Carry
  <2>3. /\ d % DATA_BITS = DATA_BITS - 1 => At(d + 1) = (At(d) + 1) % 2 ^ ADDR_BITS
        /\ d % DATA_BITS # DATA_BITS - 1 => At(d + 1) = At(d) /\ Due(d + 1) = Due(d)
    BY AtNext DEF SimInv
  <2> QED BY <1>4, <1>5, <2>2, <2>3
<1>7. InPosition'
  <2>1. ~(clocked' < CMD_BITS) /\ ~(clocked' < DataBit)
    BY <1>1, <1>3, AnswerBounds
  <2>2. At(clocked - DataBit)' = At(d + 1)
    BY <1>1, <1>2 DEF At, DataBit
  <2> HIDE DEF At
  <2> QED BY <1>1, <1>2, <1>4, <1>5, <1>6, <2>1, <2>2 DEF InPosition, Reading
<1>8. DrTmp = Due(d) /\ FromFillToo(Due(d), shown)
  <2>1. CASE dr_bit_cnt = 0
    <3>1. ByteSel = Due(d)
      BY <1>1, <1>2, <1>3, RegisterDue, AnswerBounds
    <3>2. so.src = Due(d) /\ FromFillToo(so.src, shown)
      BY <1>1, <1>2, <1>3 DEF SimInv, Showing
    <3> QED BY <2>1, <3>1, <3>2 DEF DrTmp
  <2>2. CASE dr_bit_cnt # 0
    BY <1>2, <1>3, <2>2 DEF SimInv, Showing, DrTmp
  <2> QED BY <2>1, <2>2
<1>9. Showing'
  BY <1>2, <1>5, <1>6, <1>8, RiseShowing
<1> QED BY <1>5, <1>7, <1>9

LEMMA RiseInv ==
  ASSUME TimeToAnswer, Inv, SimInv, MasterRise
  PROVE  SimInv'
<1>1. clocked \in Nat /\ req.cmd \in {"rdid", "read_get_addr"}
  BY DEF SimInv, SimType
<1>2. InPosition' /\ Showing' /\ (Requested => paddr' = paddr)
  <2>1. CASE clocked = 0
    BY <2>1, FirstBit
  <2>2. CASE clocked > 0 /\ clocked < CMD_BITS
    BY <2>2, CommandBit
  <2>3. CASE clocked >= CMD_BITS /\ req.cmd = "rdid"
    BY <2>3, IdBit
  <2>4. CASE clocked >= CMD_BITS /\ clocked < DataBit /\ req.cmd = "read_get_addr"
    BY <2>4, AddressBit
  <2>5. CASE clocked >= DataBit /\ req.cmd = "read_get_addr"
    BY <2>5, ByteBit
  <2> QED BY <1>1, <2>1, <2>2, <2>3, <2>4, <2>5, AnswerBounds
<1>3. SimType' /\ Sequenced' /\ Collected'
  BY RiseSampled
<1>4. AtRest' /\ CrossesOnce' /\ Prefetches' /\ Fresh'
  BY <1>2, RisePrefetch
<1> QED BY <1>2, <1>3, <1>4 DEF SimInv

(* The system clock.  What it does to the port and to the versions kept of   *)
(* its words: nothing, a launch, or a landing.                               *)
Quiet == /\ UNCHANGED <<inflight, invers, pfvers, pf_regs>>
         /\ dram_state' = "RD_LAND" => dram_state = "RD_LAND" /\ rd_cnt' = rd_cnt
         /\ Busy' => Busy \/ inflight = << >>
         /\ ~Busy' => ~Busy
Launches == /\ dram_state = "RD_LAUNCH" /\ dram_state' # "IDLE"
            /\ dram_state' = "RD_LAND" => rd_cnt' = NREADS - 1
            /\ inflight' = Append(inflight, read_addr)
            /\ invers' = Append(invers, Filled(read_addr))
            /\ UNCHANGED <<pfvers, pf_regs>>
Lands == /\ dram_state = "RD_LAND" /\ inflight # << >>
         /\ inflight' = Tail(inflight) /\ invers' = Tail(invers)
         /\ pf_regs' = [pf_regs EXCEPT ![LandIndex] = Head(inflight)]
         /\ \E v \in {Head(invers), Filled(Head(inflight))} :
              pfvers' = [pfvers EXCEPT ![LandIndex] = v]
         /\ rd_cnt = 0 => dram_state' = "IDLE"
         /\ rd_cnt # 0 => dram_state' = "RD_LAND" /\ rd_cnt' = rd_cnt - 1

LEMMA ClockSteps ==
  ASSUME Clock, TimeToAnswer
  PROVE  /\ \E ready, valid \in {0, 1} : SysTick(ready, valid)
         /\ ticks = TICKS => master = "idle"
         /\ ticks' = IF ticks < TICKS THEN ticks + 1 ELSE ticks
         /\ sync1' = PaddrValid /\ sync2' = sync1 /\ moved' = FALSE
         /\ UNCHANGED <<csn, clk, rst, state, cmd_bit_cnt, addr, addr_cnt, dr, dr_bit_cnt, id_pos,
                        paddr, so, pc, req, sentFilled, net, lost, master, clocked, miso, filled,
                        shown>>
<1>1. PICK ready \in {0, 1}, valid \in {0, 1} : SysTick(ready, valid)
  BY DEF Clock, Sys
<1>2. TIMED
  BY AnswerBounds
<1> QED BY <1>1, <1>2 DEF SysTick, Clock, OnTime, pinVars, spiVars, clientVars, masterVars

LEMMA PortCases ==
  ASSUME HoldsData, Inv, SimInv, Clock
  PROVE  Quiet \/ Launches \/ Lands
<1>1. PICK ready \in {0, 1}, valid \in {0, 1} : SysTick(ready, valid)
  BY DEF Clock, Sys
<1>2. PICK p \in Block : DramClock(sync2, p, ready, valid)
  BY <1>1 DEF SysTick, Inv, SpiTypeOK
<1>3. /\ inflight \in Seq(0 .. (BLOCKS * NREADS - 1)) /\ Len(inflight) \in Nat
      /\ Unread(valid) = inflight
      /\ dram_state = "IDLE" => inflight = << >>
  <2>1. inflight \in Seq(0 .. (BLOCKS * NREADS - 1)) /\ Len(inflight) \in Nat
    BY DEF Inv, DramInv, DramTypeOK
  <2>2. dram_state = "IDLE" => Len(inflight) = 0
    BY DEF Inv, DramInv, ReadsAccounted
  <2> QED BY <2>1, <2>2 DEF Unread
<1>4. \/ /\ Len(inflight') > Len(inflight)
         /\ invers' = Append(invers, Filled(read_addr)) /\ pfvers' = pfvers
      \/ /\ Len(inflight') < Len(inflight)
         /\ invers' = Tail(invers)
         /\ \E v \in {Head(invers), Filled(Head(inflight))} :
              pfvers' = [pfvers EXCEPT ![LandIndex] = v]
      \/ /\ Len(inflight') = Len(inflight) /\ invers' = invers /\ pfvers' = pfvers
  BY DEF Clock, versionVars
<1>5. ASSUME inflight' = inflight PROVE invers' = invers /\ pfvers' = pfvers
  BY <1>3, <1>4, <1>5
<1>6. CASE Idle(sync2, p, valid)
  <2>1. inflight' = inflight /\ pf_regs' = pf_regs /\ dram_state' # "RD_LAND" /\ ~Busy
    BY <1>3, <1>6 DEF Idle, Busy
  <2> QED BY <1>3, <1>5, <2>1 DEF Quiet, Busy
<1>7. CASE Launch(ready, valid)
  <2>1. CASE ready = 1
    <3>1. /\ inflight' = Append(inflight, read_addr) /\ pf_regs' = pf_regs
          /\ dram_state = "RD_LAUNCH" /\ dram_state' # "IDLE"
          /\ dram_state' = "RD_LAND" => rd_cnt' = NREADS - 1
      BY <1>3, <1>7, <2>1 DEF Launch
    <3>2. Len(inflight') = Len(inflight) + 1
      BY <1>3, <3>1
    <3> QED BY <1>3, <1>4, <3>1, <3>2 DEF Launches
  <2>2. CASE ready = 0
    <3>1. /\ inflight' = inflight /\ pf_regs' = pf_regs /\ UNCHANGED <<dram_state, rd_cnt>>
          /\ dram_state = "RD_LAUNCH"
      BY <1>3, <1>7, <2>2 DEF Launch
    <3> QED BY <1>5, <3>1 DEF Quiet, Busy
  <2> QED BY <2>1, <2>2
<1>8. CASE Land(valid)
  <2>1. CASE valid = 1
    <3>1. /\ inflight' = Tail(inflight) /\ dram_state = "RD_LAND" /\ inflight # << >>
          /\ pf_regs' = [pf_regs EXCEPT ![LandIndex] = Head(inflight)]
          /\ rd_cnt = 0 => dram_state' = "IDLE"
          /\ rd_cnt # 0 => dram_state' = "RD_LAND" /\ rd_cnt' = rd_cnt - 1
      BY <1>2, <1>8, <2>1 DEF Land, LastLanding, DramClock, Answers
    <3>2. Len(inflight') = Len(inflight) - 1
      BY <1>3, <3>1, TakeOne
    <3>3. ~(Len(inflight') > Len(inflight)) /\ Len(inflight') # Len(inflight)
      BY <1>3, <3>2
    <3>4. /\ invers' = Tail(invers)
          /\ \E v \in {Head(invers), Filled(Head(inflight))} :
               pfvers' = [pfvers EXCEPT ![LandIndex] = v]
      BY <1>4, <3>3
    <3> QED BY <3>1, <3>4 DEF Lands
  <2>2. CASE valid = 0
    <3>1. /\ inflight' = inflight /\ pf_regs' = pf_regs /\ UNCHANGED <<dram_state, rd_cnt>>
          /\ dram_state = "RD_LAND"
      BY <1>8, <2>2 DEF Land
    <3> QED BY <1>5, <3>1 DEF Quiet, Busy
  <2> QED BY <2>1, <2>2
<1> QED BY <1>2, <1>6, <1>7, <1>8 DEF DramClock

LEMMA PortType ==
  ASSUME HoldsData, Inv, SimInv, Clock
  PROVE  /\ invers' \in Seq(BOOLEAN) /\ Len(invers') = Len(inflight')
         /\ pfvers' \in [0 .. (NREADS - 1) -> BOOLEAN]
<1>1. /\ inflight \in Seq(0 .. (BLOCKS * NREADS - 1)) /\ rd_cnt \in 0 .. (NREADS - 1)
      /\ invers \in Seq(BOOLEAN) /\ Len(invers) = Len(inflight)
      /\ pfvers \in [0 .. (NREADS - 1) -> BOOLEAN]
  BY DEF SimInv, SimType, Inv, DramInv, DramTypeOK
<1>2. \A w : Filled(w) \in BOOLEAN
  BY DEF Filled
<1>3. CASE Quiet
  BY <1>1, <1>3 DEF Quiet
<1>4. CASE Launches
  <2>1. invers' \in Seq(BOOLEAN) /\ Len(invers') = Len(invers) + 1
    BY <1>1, <1>2, <1>4, PutOne DEF Launches
  <2>2. Len(inflight') = Len(inflight) + 1 /\ pfvers' = pfvers
    <3>1. inflight' = Append(inflight, read_addr) /\ pfvers' = pfvers
      BY <1>4 DEF Launches
    <3> QED BY <1>1, <3>1
  <2> QED BY <1>1, <2>1, <2>2
<1>5. CASE Lands
  <2>1. invers # << >> /\ inflight # << >> /\ invers' = Tail(invers) /\ inflight' = Tail(inflight)
    BY <1>1, <1>5 DEF Lands
  <2>2. /\ invers' \in Seq(BOOLEAN) /\ Head(invers) \in BOOLEAN
        /\ Len(invers') = Len(invers) - 1 /\ Len(inflight') = Len(inflight) - 1
    BY <1>1, <2>1, TakeOne
  <2>3. PICK v \in BOOLEAN : pfvers' = [pfvers EXCEPT ![LandIndex] = v]
    BY <1>2, <1>5, <2>2 DEF Lands
  <2> QED BY <1>1, <2>2, <2>3
<1> QED BY <1>3, <1>4, <1>5, PortCases

(* A prefetch takes a launch and a landing per word at least, and leaves the *)
(* whole of its block.                                                       *)
LEMMA LeastTick ==
  ASSUME Inv, NEW ready \in {0, 1}, NEW valid \in {0, 1}, SysTick(ready, valid), Busy
  PROVE  LeastLeft' >= LeastLeft - 1 /\ LeastLeft' \in Nat
<1>1. /\ dram_state \in {"RD_LAUNCH", "RD_LAND"} /\ rd_cnt \in 0 .. (NREADS - 1)
      /\ Launch(ready, valid) \/ Land(valid)
  BY DEF Inv, DramInv, DramTypeOK, Busy, SysTick, DramClock, Idle
<1>2. CASE Launch(ready, valid)
  <2>1. dram_state = "RD_LAUNCH" /\ LeastLeft = rd_cnt + 1 + NREADS
    BY <1>2 DEF Launch, LeastLeft
  <2>2. CASE ready = 0
    BY <1>1, <1>2, <2>1, <2>2 DEF Launch, LeastLeft
  <2>3. CASE ready = 1 /\ rd_cnt = 0
    <3>1. dram_state' = "RD_LAND" /\ rd_cnt' = NREADS - 1
      BY <1>2, <2>3 DEF Launch
    <3>2. LeastLeft' = NREADS - 1 + 1
      BY <3>1 DEF LeastLeft
    <3> QED BY <2>1, <2>3, <3>2
  <2>4. CASE ready = 1 /\ rd_cnt # 0
    <3>1. dram_state' = "RD_LAUNCH" /\ rd_cnt' = rd_cnt - 1
      BY <1>2, <2>1, <2>4 DEF Launch
    <3>2. LeastLeft' = rd_cnt - 1 + 1 + NREADS
      BY <3>1 DEF LeastLeft
    <3> QED BY <1>1, <2>1, <2>4, <3>2
  <2> QED BY <2>2, <2>3, <2>4
<1>3. CASE Land(valid)
  <2>1. dram_state = "RD_LAND" /\ LeastLeft = rd_cnt + 1
    BY <1>3 DEF Land, LeastLeft
  <2>2. CASE valid = 0
    BY <1>1, <1>3, <2>1, <2>2 DEF Land, LeastLeft
  <2>3. CASE valid = 1 /\ rd_cnt = 0
    <3>1. dram_state' = "IDLE"
      BY <1>3, <2>3 DEF Land, LastLanding
    <3>2. LeastLeft' = 0
      BY <3>1 DEF LeastLeft
    <3> QED BY <2>1, <2>3, <3>2
  <2>4. CASE valid = 1 /\ rd_cnt # 0
    <3>1. dram_state' = "RD_LAND" /\ rd_cnt' = rd_cnt - 1
      BY <1>3, <2>1, <2>4 DEF Land, LastLanding
    <3>2. LeastLeft' = rd_cnt - 1 + 1
      BY <3>1 DEF LeastLeft
    <3> QED BY <1>1, <2>1, <2>4, <3>2
  <2> QED BY <2>2, <2>3, <2>4
<1> QED BY <1>1, <1>2, <1>3

LEMMA LastFetches ==
  ASSUME HoldsData, Inv, SimInv, Clock, Busy, ~Busy', Fetches(paddr), paddr' = paddr
  PROVE  Fetched'
<1>1. Lands
  BY PortCases DEF Quiet, Launches, Busy
<1>2. /\ dram_state = "RD_LAND" /\ rd_cnt = 0
  BY <1>1 DEF Lands, Busy
<1>3. /\ paddr \in Block /\ paddr * NREADS \in Nat /\ NREADS \in Nat /\ NREADS > 1
      /\ read_addr = paddr * NREADS + NREADS
      /\ inflight \in Seq(0 .. (BLOCKS * NREADS - 1))
      /\ pf_regs \in [0 .. (NREADS - 1) -> {NoWord} \cup 0 .. (BLOCKS * NREADS - 1)]
  <2>1. paddr \in Block
    BY DEF Inv, SpiTypeOK
  <2>2. read_addr = paddr * NREADS + NREADS
    BY <1>2 DEF Fetches, Launched
  <2>3. /\ inflight \in Seq(0 .. (BLOCKS * NREADS - 1))
        /\ pf_regs \in [0 .. (NREADS - 1) -> {NoWord} \cup 0 .. (BLOCKS * NREADS - 1)]
    BY DEF Inv, DramInv, DramTypeOK
  <2> QED BY <2>1, <2>2, <2>3, BlockAddress
<1>4. /\ pf_regs[0] = NoWord
      /\ \A i \in 1 .. (NREADS - 1) : pf_regs[i] = paddr * NREADS + i - 1
  <2>1. /\ pf_regs[0] = NoWord
        /\ \A i \in 1 .. (NREADS - 1 - 0) : pf_regs[i] = read_addr - NREADS + i - 1
    BY <1>2 DEF Inv, DramInv, RegistersFill
  <2> QED BY <1>3, <2>1
<1>5. Head(inflight) = paddr * NREADS + NREADS - 1
  <2>1. /\ Len(inflight) = 1 /\ inflight[1] = read_addr - Len(inflight) + 1 - 1
    <3>1. /\ Len(inflight) = rd_cnt + 1
          /\ \A k \in 1 .. Len(inflight) : inflight[k] = read_addr - Len(inflight) + k - 1
      BY <1>2 DEF Inv, DramInv, ReadsAccounted
    <3> QED BY <1>2, <3>1
  <2>2. Head(inflight) = inflight[1]
    BY <1>1, <1>3, TakeOne DEF Lands
  <2> QED BY <1>3, <2>1, <2>2
<1>6. pf_regs' = [pf_regs EXCEPT ![NREADS - 1] = Head(inflight)]
  <2>1. LandIndex = NREADS - 1
    BY <1>2, <1>3 DEF LandIndex, Select
  <2> QED BY <1>1, <2>1 DEF Lands
<1>7. pf_regs'[0] = NoWord
  BY <1>3, <1>4, <1>6
<1>8. ASSUME NEW i \in 1 .. (NREADS - 1)
      PROVE  pf_regs'[i] = Landed(paddr, i)
  <2>1. CASE i = NREADS - 1
    <3>1. pf_regs'[i] = Head(inflight)
      BY <1>3, <1>6, <2>1
    <3> QED BY <1>3, <1>5, <2>1, <3>1 DEF Landed
  <2>2. CASE i # NREADS - 1
    <3>1. pf_regs'[i] = pf_regs[i]
      BY <1>3, <1>6, <2>2
    <3>2. Landed(paddr, i) = paddr * NREADS + (i - 1)
      BY <2>2 DEF Landed
    <3>3. paddr * NREADS + i - 1 = paddr * NREADS + (i - 1)
      BY <1>3
    <3> QED BY <1>4, <3>1, <3>2, <3>3
  <2> QED BY <2>1, <2>2
<1>9. \A i \in 1 .. (NREADS - 1) : Landed(paddr, i)' = Landed(paddr, i)
  BY DEF Landed
<1>10. \A i \in 1 .. (NREADS - 1) : pf_regs'[i] = Landed(paddr, i)'
  BY <1>8, <1>9
<1> QED BY <1>7, <1>10 DEF Fetched

(* The request's way into the system clock and the prefetch it makes.        *)
LEMMA GoneTick ==
  ASSUME TimeToAnswer, Inv, SimInv, Clock, Requested
  PROVE  /\ ticks \in 0 .. (TICKS - 1) /\ Gone \in Nat /\ Gone' = Gone + 1
         /\ Gone < TICKS => clocked = RequestBit
         /\ Gone >= TICKS => clocked > RequestBit
         /\ clocked \in Nat /\ clocked >= RequestBit
<1>1. /\ ticks \in 0 .. (TICKS - 1) /\ ticks' = ticks + 1 /\ clocked' = clocked
  <2>1. ticks \in 0 .. TICKS /\ ticks # TICKS
    <3>1. ticks \in 0 .. TICKS
      BY DEF Inv, SpiTypeOK
    <3> QED BY <3>1, ClockSteps DEF Requested, Reading
  <2> QED BY <2>1, ClockSteps, AnswerBounds
<1>2. clocked \in Nat /\ clocked >= RequestBit
  BY ClockedType DEF Requested
<1>3. PICK k \in Nat : k = clocked - RequestBit
  BY <1>2, AnswerBounds
<1>4. TICKS * k \in Nat /\ (k = 0 => TICKS * k = 0) /\ (k # 0 => TICKS * k >= TICKS)
  <2>1. \A t, j \in Nat : t * j \in Nat /\ (j = 0 => t * j = 0) /\ (j # 0 => t * j >= t)
    BY SMT
  <2> QED BY <2>1, AnswerBounds
<1>5. Gone = TICKS * k + ticks /\ Gone' = TICKS * k + ticks'
  BY <1>1, <1>3 DEF Gone
<1>6. (k = 0 => clocked = RequestBit) /\ (k # 0 => clocked > RequestBit)
  <2>1. clocked \in Nat /\ RequestBit \in Nat /\ clocked = RequestBit + k
    BY <1>2, <1>3, AnswerBounds
  <2> QED BY <2>1
<1>7. Gone \in Nat /\ Gone' = Gone + 1
  BY <1>1, <1>4, <1>5
<1>8. (Gone < TICKS => k = 0) /\ (Gone >= TICKS => k # 0)
  BY <1>1, <1>4, <1>5, AnswerBounds
<1> QED BY <1>1, <1>2, <1>6, <1>7, <1>8

(* The partial address is complete for one SPI clock, right after the        *)
(* request.                                                                  *)
LEMMA ValidWhen ==
  ASSUME TimeToAnswer, Inv, SimInv
  PROVE  /\ ~Requested => PaddrValid = 0
         /\ Requested /\ clocked = RequestBit => PaddrValid = 1
         /\ Requested /\ clocked > RequestBit => PaddrValid = 0
<1>1. clocked \in Nat /\ rst \in {0, 1} /\ master \in {"idle", "busy"}
      /\ req.cmd \in {"rdid", "read_get_addr"}
  <2>1. master \in {"idle", "busy"} /\ req.cmd \in {"rdid", "read_get_addr"}
    BY DEF SimInv, SimType
  <2> QED BY <2>1, ClockedType
<1>2. PaddrValid = IF state = "read_get_addr" /\ addr_cnt = RequestAt THEN 1 ELSE 0
  BY DEF PaddrValid, RequestAt
<1>3. rst = 1 => PaddrValid = 0
  BY <1>2 DEF SimInv, Sequenced
<1>4. master = "idle" \/ clocked = 0 => rst = 1
  BY <1>1 DEF SimInv, Sequenced
<1>5. ASSUME master = "busy", clocked > 0
      PROVE  /\ clocked < CMD_BITS => state = "get_cmd"
             /\ clocked >= CMD_BITS /\ req.cmd = "rdid" => state = "rdid"
             /\ clocked >= CMD_BITS /\ clocked < DataBit /\ req.cmd = "read_get_addr" =>
                  state = "read_get_addr" /\ addr_cnt = clocked - CMD_BITS
             /\ clocked >= DataBit /\ req.cmd = "read_get_addr" => state = "read_get_data"
  BY <1>5 DEF SimInv, InPosition, Reading
<1>6. ~Requested => PaddrValid = 0
  <2>1. CASE master = "idle" \/ clocked = 0
    BY <1>3, <1>4, <2>1
  <2>2. CASE master = "busy" /\ clocked > 0 /\ ~Requested
    <3>1. CASE req.cmd = "rdid" \/ clocked < CMD_BITS
      BY <1>1, <1>2, <1>5, <2>2, <3>1, AnswerBounds
    <3>2. CASE req.cmd = "read_get_addr" /\ clocked >= CMD_BITS
      <4>1. clocked < RequestBit
        BY <1>1, <2>2, <3>2, AnswerBounds DEF Requested, Reading
      <4> QED BY <1>1, <1>2, <1>5, <2>2, <3>2, <4>1, AnswerBounds
    <3> QED BY <1>1, <3>1, <3>2, AnswerBounds
  <2> QED BY <1>1, <2>1, <2>2
<1>7. ASSUME Requested PROVE clocked >= RequestBit /\ master = "busy" /\ req.cmd = "read_get_addr"
  BY <1>7 DEF Requested, Reading
<1>8. Requested /\ clocked = RequestBit => PaddrValid = 1
  BY <1>1, <1>2, <1>5, <1>7, AnswerBounds
<1>9. Requested /\ clocked > RequestBit => PaddrValid = 0
  BY <1>1, <1>2, <1>5, <1>7, AnswerBounds
<1> QED BY <1>6, <1>8, <1>9

LEMMA ClockCrosses ==
  ASSUME TimeToAnswer, Inv, SimInv, Clock
  PROVE  AtRest' /\ CrossesOnce' /\ Prefetches'
<1>1. /\ sync1' = PaddrValid /\ sync2' = sync1 /\ moved' = FALSE /\ paddr' = paddr
      /\ Requested' = Requested /\ HoldsData /\ TIMED
  BY ClockSteps, AnswerBounds DEF Requested, Reading
<1>2. PICK ready \in {0, 1}, valid \in {0, 1} : SysTick(ready, valid)
  BY DEF Clock, Sys
<1>3. sync1 \in {0, 1} /\ sync2 \in {0, 1} /\ moved \in BOOLEAN /\ paddr \in Block
  BY DEF Inv, SpiTypeOK
<1>4. CASE ~Requested
  <2>1. ~Busy /\ sync1 = 0 /\ sync2 = 0
    BY <1>4 DEF SimInv, AtRest
  <2>2. ~Busy'
    BY <1>1, <1>2, <2>1, IdleTick
  <2>3. PaddrValid = 0
    BY <1>4, ValidWhen
  <2> QED BY <1>1, <1>4, <2>1, <2>2, <2>3 DEF AtRest, CrossesOnce, Prefetches
<1>5. CASE Requested
  <2>1. /\ Gone \in Nat /\ Gone' = Gone + 1 /\ clocked \in Nat
        /\ Gone < TICKS => PaddrValid = 1
        /\ Gone >= TICKS => PaddrValid = 0
    BY <1>5, GoneTick, ValidWhen
  <2>2. /\ moved => Gone = 0
        /\ Gone = 0 => sync1 = 0
        /\ Gone <= 1 => sync2 = 0
        /\ Gone >= 1 /\ Gone <= TICKS => sync1 = 1
        /\ Gone >= 2 /\ Gone <= TICKS + 1 => sync2 = 1
        /\ Gone >= TICKS + 1 => sync1 = 0
        /\ Gone >= TICKS + 2 => sync2 = 0
    BY <1>5 DEF SimInv, CrossesOnce
  <2>3. AtRest' /\ CrossesOnce'
    BY <1>1, <1>5, <2>1, <2>2, AnswerBounds DEF AtRest, CrossesOnce
  <2>4. CASE Awaited
    <3>1. ~Busy /\ Gone <= 2
      BY <2>4 DEF Awaited
    <3>2. CASE sync2 = 0
      <4>1. Gone # 2
        BY <2>2, <3>2, AnswerBounds
      <4>2. ~Busy'
        BY <1>1, <1>2, <3>1, <3>2, IdleTick
      <4> QED BY <2>1, <2>3, <3>1, <4>1, <4>2 DEF Awaited, Prefetches
    <3>3. CASE sync2 = 1
      <4>1. Gone = 2 /\ ~moved
        BY <2>1, <2>2, <3>1, <3>3
      <4>2. Busy' /\ Left' = Whole /\ Fetches(paddr)'
        BY <1>1, <1>2, <3>1, <3>3, <4>1, IdleTick
      <4>3. LeastLeft' = 2 * NREADS
        <5>1. dram_state' = "RD_LAUNCH" /\ rd_cnt' = NREADS - 1
          BY <1>2, <3>1, <3>3 DEF SysTick, DramClock, Idle, Launch, Land, Busy
        <5> QED BY <5>1 DEF LeastLeft
      <4>4. Underway'
        BY <2>1, <4>1, <4>2, <4>3, AnswerBounds DEF Underway
      <4> QED BY <2>3, <4>4 DEF Prefetches
    <3> QED BY <1>3, <3>2, <3>3
  <2>5. CASE Underway
    <3>1. /\ Busy /\ Fetches(paddr) /\ Left + Gone <= 3 + Whole /\ LeastLeft + Gone >= 3 + 2 * NREADS
      BY <2>5 DEF Underway
    <3>2. PICK b \in Block : b = paddr
      BY <1>3
    <3>3. /\ Left' <= Left - 1 /\ Left' \in Nat /\ Left \in Nat /\ Fetches(b)'
          /\ LeastLeft' >= LeastLeft - 1 /\ LeastLeft' \in Nat /\ LeastLeft \in Nat
      BY <1>1, <1>2, <3>1, <3>2, BusyTick, LeastTick, LeftType, LeastLeftType
    <3>4. Fetches(paddr)'
      BY <1>1, <3>2, <3>3 DEF Fetches
    <3>5. Left' + Gone' <= 3 + Whole /\ LeastLeft' + Gone' >= 3 + 2 * NREADS
      <4>1. Whole \in Nat /\ NREADS \in Nat
        BY AnswerBounds
      <4>2. PICK g, l, m \in Nat : g = Gone' /\ l = Left' /\ m = LeastLeft'
        BY <2>1, <3>3
      <4>3. g = Gone + 1 /\ l <= Left - 1 /\ m >= LeastLeft - 1
        BY <2>1, <3>3, <4>2
      <4>4. l + g <= 3 + Whole /\ m + g >= 3 + 2 * NREADS
        BY <2>1, <3>1, <3>3, <4>1, <4>3
      <4> QED BY <4>2, <4>4
    <3>6. CASE Busy'
      BY <2>3, <3>4, <3>5, <3>6 DEF Underway, Prefetches
    <3>7. CASE ~Busy'
      <4>1. LeastLeft' = 0
        BY <3>7 DEF Busy, LeastLeft
      <4>2. Fetched'
        BY <1>1, <3>1, <3>7, LastFetches
      <4>3. Gone' >= 3 + 2 * NREADS
        BY <2>1, <3>5, <4>1
      <4>4. Complete'
        BY <3>7, <4>2, <4>3 DEF Complete
      <4> QED BY <2>3, <4>4 DEF Prefetches
    <3> QED BY <3>6, <3>7
  <2>6. CASE Complete
    <3>1. ~Busy /\ Gone >= 3 + 2 * NREADS /\ Fetched
      BY <2>6 DEF Complete
    <3>2. sync2 = 0
      BY <2>1, <2>2, <3>1, AnswerBounds
    <3>3. ~Busy' /\ pf_regs' = pf_regs
      BY <1>1, <1>2, <3>1, <3>2, IdleTick
    <3>4. Complete'
      BY <1>1, <2>1, <3>1, <3>3 DEF Complete, Fetched, Landed
    <3> QED BY <2>3, <3>4 DEF Prefetches
  <2> QED BY <1>5, <2>3, <2>4, <2>5, <2>6 DEF SimInv, Prefetches
<1> QED BY <1>4, <1>5

(* A word is from the fill when it lands if it was when it was launched.     *)
LEMMA ClockFresh ==
  ASSUME TimeToAnswer, Inv, SimInv, Clock
  PROVE  Fresh'
<1> SUFFICES ASSUME Requested', sentFilled'
             PROVE  /\ Busy' => FromFill(Len(inflight), inflight, invers)'
                    /\ dram_state' = "RD_LAND" => FromFill(NREADS - 1 - rd_cnt, pf_regs, pfvers)'
                    /\ Complete' => FromFill(NREADS - 1, pf_regs, pfvers)'
  BY DEF Fresh
<1>1. /\ Requested /\ sentFilled /\ paddr' = paddr /\ filled' = filled /\ HoldsData /\ TIMED
  BY ClockSteps, AnswerBounds DEF Requested, Reading
<1>2. \A w : Filled(w)' = Filled(w) /\ Filled(w) \in BOOLEAN
  BY <1>1 DEF Filled
<1>3. /\ Busy => FromFill(Len(inflight), inflight, invers)
      /\ dram_state = "RD_LAND" => FromFill(NREADS - 1 - rd_cnt, pf_regs, pfvers)
      /\ Complete => FromFill(NREADS - 1, pf_regs, pfvers)
  BY <1>1 DEF SimInv, Fresh
<1>4. /\ inflight \in Seq(0 .. (BLOCKS * NREADS - 1)) /\ Len(inflight) \in Nat
      /\ rd_cnt \in 0 .. (NREADS - 1)
      /\ invers \in Seq(BOOLEAN) /\ Len(invers) = Len(inflight)
      /\ pfvers \in [0 .. (NREADS - 1) -> BOOLEAN]
      /\ pf_regs \in [0 .. (NREADS - 1) -> {NoWord} \cup 0 .. (BLOCKS * NREADS - 1)]
  BY DEF SimInv, SimType, Inv, DramInv, DramTypeOK
<1>5. CASE Quiet
  <2>1. UNCHANGED <<inflight, invers, pfvers, pf_regs>>
    BY <1>5 DEF Quiet
  <2>2. Busy' => FromFill(Len(inflight), inflight, invers)'
    <3>1. CASE Busy
      BY <1>2, <1>3, <2>1, <3>1 DEF FromFill
    <3>2. CASE inflight = << >>
      <4>1. Len(inflight') = 0
        BY <2>1, <3>2
      <4> QED BY <4>1 DEF FromFill
    <3> QED BY <1>5, <3>1, <3>2 DEF Quiet
  <2>3. dram_state' = "RD_LAND" => FromFill(NREADS - 1 - rd_cnt, pf_regs, pfvers)'
    BY <1>2, <1>3, <1>5, <2>1 DEF Quiet, FromFill
  <2>4. Complete' => FromFill(NREADS - 1, pf_regs, pfvers)'
    <3> SUFFICES ASSUME Complete' PROVE FromFill(NREADS - 1, pf_regs, pfvers)'
      OBVIOUS
    <3>1. ~Busy' /\ ~Busy /\ Gone' >= 3 + 2 * NREADS
      BY <1>5 DEF Complete, Quiet
    <3>2. ~Awaited /\ ~Underway
      <4>1. Gone \in Nat /\ Gone' = Gone + 1
        BY <1>1, GoneTick
      <4> QED BY <3>1, <4>1 DEF Awaited, Underway
    <3>3. Complete
      BY <1>1, <3>2 DEF SimInv, Prefetches
    <3> QED BY <1>2, <1>3, <2>1, <3>3 DEF FromFill
  <2> QED BY <2>2, <2>3, <2>4
<1>6. CASE Launches
  <2>1. /\ Busy /\ Busy' /\ inflight' = Append(inflight, read_addr)
        /\ invers' = Append(invers, Filled(read_addr))
        /\ dram_state' = "RD_LAND" => rd_cnt' = NREADS - 1
    BY <1>6 DEF Launches, Busy
  <2>2. /\ Len(inflight') = Len(inflight) + 1 /\ inflight'[Len(inflight) + 1] = read_addr
        /\ \A i \in 1 .. Len(inflight) : inflight'[i] = inflight[i]
        /\ invers'[Len(inflight) + 1] = Filled(read_addr)
        /\ \A i \in 1 .. Len(inflight) : invers'[i] = invers[i]
    <3>1. /\ Len(invers') = Len(invers) + 1 /\ invers'[Len(invers) + 1] = Filled(read_addr)
          /\ \A i \in 1 .. Len(invers) : invers'[i] = invers[i]
      BY <1>2, <1>4, <2>1, PutOne
    <3>2. /\ Len(inflight') = Len(inflight) + 1 /\ inflight'[Len(inflight) + 1] = read_addr
          /\ \A i \in 1 .. Len(inflight) : inflight'[i] = inflight[i]
      BY <1>4, <2>1
    <3> QED BY <1>4, <3>1, <3>2
  <2>3. FromFill(Len(inflight), inflight, invers)'
    <3> SUFFICES ASSUME NEW i \in 1 .. Len(inflight'), Filled(inflight'[i])
                 PROVE  invers'[i]
      BY <1>2 DEF FromFill
    <3>1. CASE i \in 1 .. Len(inflight)
      BY <1>3, <2>1, <2>2, <3>1 DEF FromFill
    <3>2. CASE i = Len(inflight) + 1
      BY <2>2, <3>2
    <3> QED BY <1>4, <2>2, <3>1, <3>2
  <2>4. dram_state' = "RD_LAND" => FromFill(NREADS - 1 - rd_cnt, pf_regs, pfvers)'
    <3> SUFFICES ASSUME dram_state' = "RD_LAND" PROVE FromFill(NREADS - 1 - rd_cnt, pf_regs, pfvers)'
      OBVIOUS
    <3>1. NREADS - 1 - rd_cnt' = 0
      BY <2>1
    <3> QED BY <3>1 DEF FromFill
  <2> QED BY <2>1, <2>3, <2>4 DEF Complete
<1>7. CASE Lands
  <2>1. /\ dram_state = "RD_LAND" /\ Busy /\ inflight # << >> /\ invers # << >>
        /\ inflight' = Tail(inflight) /\ invers' = Tail(invers)
    BY <1>4, <1>7 DEF Lands, Busy
  <2>2. /\ FromFill(Len(inflight), inflight, invers)
        /\ FromFill(NREADS - 1 - rd_cnt, pf_regs, pfvers)
    BY <1>3, <2>1
  <2>3. /\ Len(inflight) > 0 /\ Len(inflight') = Len(inflight) - 1
        /\ Head(inflight) = inflight[1] /\ Head(invers) = invers[1] /\ Head(invers) \in BOOLEAN
        /\ \A i \in 1 .. Len(inflight') : inflight'[i] = inflight[i + 1]
        /\ \A i \in 1 .. Len(inflight') : invers'[i] = invers[i + 1]
    BY <1>4, <2>1, TakeOne
  <2>4. FromFill(Len(inflight), inflight, invers)'
    <3> SUFFICES ASSUME NEW i \in 1 .. Len(inflight'), Filled(inflight'[i])
                 PROVE  invers'[i]
      BY <1>2 DEF FromFill
    <3>1. i + 1 \in 1 .. Len(inflight)
      BY <1>4, <2>3
    <3> QED BY <2>2, <2>3, <3>1 DEF FromFill
  <2>5. PICK v \in BOOLEAN : /\ pfvers' = [pfvers EXCEPT ![LandIndex] = v]
                             /\ Filled(Head(inflight)) => v
    <3>1. PICK v \in {Head(invers), Filled(Head(inflight))} :
            pfvers' = [pfvers EXCEPT ![LandIndex] = v]
      BY <1>7 DEF Lands
    <3>2. v \in BOOLEAN
      BY <1>2, <2>3, <3>1
    <3>3. Filled(Head(inflight)) => Head(invers)
      <4>1. 1 \in 1 .. Len(inflight)
        BY <1>4, <2>3
      <4> QED BY <2>2, <2>3, <4>1 DEF FromFill
    <3>4. Filled(Head(inflight)) => v
      BY <3>1, <3>3
    <3> QED BY <3>1, <3>2, <3>4
  <2>6. /\ LandIndex \in 1 .. (NREADS - 1)
        /\ LandIndex = IF rd_cnt = 0 THEN NREADS - 1 ELSE NREADS - rd_cnt
        /\ \A i \in 0 .. (NREADS - 1) :
             /\ pf_regs'[i] = IF i = LandIndex THEN Head(inflight) ELSE pf_regs[i]
             /\ pfvers'[i] = IF i = LandIndex THEN v ELSE pfvers[i]
    <3>1. /\ LandIndex \in 1 .. (NREADS - 1)
          /\ LandIndex = IF rd_cnt = 0 THEN NREADS - 1 ELSE NREADS - rd_cnt
      BY <1>4 DEF LandIndex, Select
    <3>2. pf_regs' = [pf_regs EXCEPT ![LandIndex] = Head(inflight)]
      BY <1>7 DEF Lands
    <3> QED BY <1>4, <2>5, <3>1, <3>2
  <2>7. ASSUME NEW n \in 1 .. (NREADS - 1), n <= NREADS - rd_cnt, NEW i \in 1 .. n,
               Filled(pf_regs'[i])
        PROVE  pfvers'[i]
    <3>1. i \in 0 .. (NREADS - 1)
      OBVIOUS
    <3>2. CASE i = LandIndex
      <4>1. pf_regs'[i] = Head(inflight) /\ pfvers'[i] = v
        BY <2>6, <3>1, <3>2
      <4> QED BY <2>5, <2>7, <4>1
    <3>3. CASE i # LandIndex
      <4>1. i \in 1 .. (NREADS - 1 - rd_cnt)
        BY <1>4, <2>6, <2>7, <3>3
      <4>2. pf_regs'[i] = pf_regs[i] /\ pfvers'[i] = pfvers[i]
        BY <2>6, <3>1, <3>3
      <4> QED BY <2>2, <2>7, <4>1, <4>2 DEF FromFill
    <3> QED BY <3>2, <3>3
  <2>8. dram_state' = "RD_LAND" => FromFill(NREADS - 1 - rd_cnt, pf_regs, pfvers)'
    <3> SUFFICES ASSUME dram_state' = "RD_LAND"
                 PROVE  FromFill(NREADS - 1 - rd_cnt, pf_regs, pfvers)'
      OBVIOUS
    <3>1. rd_cnt # 0 /\ rd_cnt' = rd_cnt - 1
      BY <1>7 DEF Lands
    <3>2. /\ NREADS - 1 - rd_cnt' = NREADS - rd_cnt
          /\ NREADS - rd_cnt \in 1 .. (NREADS - 1)
      BY <1>4, <3>1
    <3> QED BY <1>2, <2>7, <3>2 DEF FromFill
  <2>9. Complete' => FromFill(NREADS - 1, pf_regs, pfvers)'
    <3> SUFFICES ASSUME Complete' PROVE FromFill(NREADS - 1, pf_regs, pfvers)'
      OBVIOUS
    <3>1. rd_cnt = 0
      BY <1>7 DEF Lands, Complete, Busy
    <3>2. NREADS - 1 \in 1 .. (NREADS - 1) /\ NREADS - 1 <= NREADS - rd_cnt
      BY <3>1
    <3> QED BY <1>2, <2>7, <3>2 DEF FromFill
  <2> QED BY <2>4, <2>8, <2>9
<1> QED BY <1>1, <1>5, <1>6, <1>7, PortCases

LEMMA ClockInv ==
  ASSUME TimeToAnswer, Inv, SimInv, Clock
  PROVE  SimInv'
<1>1. UNCHANGED <<csn, clk, rst, state, cmd_bit_cnt, addr, addr_cnt, dr, dr_bit_cnt, id_pos, paddr,
                  so, pc, req, sentFilled, net, lost, master, clocked, miso, filled, shown>>
  BY ClockSteps
<1>2. SimType'
  <2>1. /\ invers' \in Seq(BOOLEAN) /\ Len(invers') = Len(inflight')
        /\ pfvers' \in [0 .. (NREADS - 1) -> BOOLEAN]
    BY PortType, AnswerBounds
  <2> QED BY <1>1, <2>1 DEF SimInv, SimType
<1>3. /\ FrameBits' = FrameBits /\ HeaderBits' = HeaderBits
      /\ \A j : At(j)' = At(j) /\ Due(j)' = Due(j)
      /\ \A src, new : FromFillToo(src, new)' = FromFillToo(src, new)
  BY <1>1, SameRequest
<1>4. Reading' = Reading
  BY <1>1 DEF Reading
<1>5. Sequenced'
  BY <1>1, <1>3 DEF SimInv, Sequenced
<1>6. InPosition'
  BY <1>1, <1>3, <1>4 DEF SimInv, InPosition
<1>7. Showing' /\ Collected'
  <2> HIDE DEF Due, FromFillToo
  <2> QED BY <1>1, <1>3, <1>4 DEF SimInv, Showing, Collected
<1> QED BY <1>2, <1>5, <1>6, <1>7, ClockCrosses, ClockFresh DEF SimInv

LEMMA BenchStepInv ==
  ASSUME TimeToAnswer, Inv, SimInv, [BenchNext]_benchVars
  PROVE  SimInv'
<1>1. CASE Client \/ Lose \/ Fill \/ UNCHANGED benchVars
  BY <1>1, ApartInv
<1>2. CASE Master
  BY <1>2, StartInv, RiseInv, FallInv, EndInv DEF Master
<1>3. CASE Clock
  BY <1>3, ClockInv
<1> QED BY <1>1, <1>2, <1>3 DEF BenchNext

LEMMA Simulated == TimeToAnswer /\ BenchSpec => []SimInv
<1>1. TimeToAnswer /\ Inv /\ SimInv /\ [BenchNext]_benchVars => SimInv'
  BY BenchStepInv
<1>2. TimeToAnswer => TimeToAnswer'
  BY DEF TimeToAnswer, Whole
<1> QED BY <1>1, <1>2, BenchInitInv, Invariance, SimulationIsEmulator, PTL DEF BenchSpec

(* Every answer a client takes has its size, and its bits are, in order,     *)
(* those of the words that the prefetch of its own block put in the          *)
(* registers its addresses select, whatever transactions and lost datagrams  *)
(* came before (emu.py:332-343, 372-401, emu_dram.py:119-151,                *)
(* dram_verilator.py:133-152, udp2spi_cli.py:21-29).                         *)
THEOREM AnswersInTime == TimeToAnswer /\ BenchSpec => []AnswersTheRequest
<1>1. SimInv => AnswersTheRequest
  <2> SUFFICES ASSUME SimInv, pc = "done", req.cmd = "read_get_addr"
               PROVE  /\ Len(miso) = req.sz * DATA_BITS
                      /\ \A k \in 1 .. Len(miso) :
                           /\ miso[k].src = [word |-> AnsweredWord(At(k - 1)), byte |-> At(k - 1) % NBYTES]
                           /\ miso[k].bit = (k - 1) % DATA_BITS
    BY DEF AnswersTheRequest, At
  <2>1. Len(miso) = req.sz * DATA_BITS
    BY DEF SimInv, Sequenced
  <2> QED BY <2>1 DEF SimInv, Collected, Due
<1> QED BY <1>1, Simulated, PTL

(* A read sent after the fill was complete never shows what a prefetch left  *)
(* in the registers before it: each byte of the filled words it returns was  *)
(* fetched since (turboforce_cli.py:40-43, emu_dram.py:119-152,              *)
(* udp2spi_cli.py:21-29).                                                    *)
THEOREM FilledReadsShow == TimeToAnswer /\ BenchSpec => []FilledReadsAreNew
<1>1. SimInv => FilledReadsAreNew
  BY DEF SimInv, Collected, FromFillToo, FilledReadsAreNew
<1> QED BY <1>1, Simulated, PTL
=============================================================================
