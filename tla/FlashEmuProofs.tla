--------------------------- MODULE FlashEmuProofs ---------------------------
(* Theorems about FlashEmu, for every width of its words: its safety, that   *)
(* it implements SerialFlash, and what it answers a host that sends it some  *)
(* bits, which the modules of its hosts build on.                            *)
EXTENDS FlashEmu, WellFoundedInduction, TLAPS

(* What the word operators return.                                           *)
LEMMA ZeroType == ASSUME NEW n \in Nat PROVE Zero(n) \in Word(n)
BY DEF Zero, Word, Bit

LEMMA ShiftInType ==
  ASSUME NEW n \in Nat, NEW b \in Bit, NEW r \in Word(n)
  PROVE  ShiftIn(n, b, r) \in Word(n)
<1>1. ASSUME NEW i \in 0 .. (n - 1) PROVE (IF i = 0 THEN b ELSE r[i - 1]) \in Bit
  BY <1>1 DEF Word
<1> QED BY <1>1 DEF ShiftIn, Word

LEMMA IncType ==
  ASSUME NEW n \in Nat, NEW r \in Word(n) PROVE Inc(n, r) \in Word(n)
BY DEF Inc, Word, Bit

LEMMA LowType ==
  ASSUME NEW n \in Nat, NEW m \in 1 .. n, NEW r \in Word(n)
  PROVE  Low(m, r) \in Word(m)
BY DEF Low, Word

LEMMA TopBit ==
  ASSUME NEW n \in Nat \ {0}, NEW r \in Word(n) PROVE r[n - 1] \in Bit
BY DEF Word

(* A counter that wraps stays within its width.                              *)
LEMMA WrapType ==
  ASSUME NEW n \in Nat \ {0}, NEW x \in Nat PROVE x % n \in 0 .. (n - 1)
BY SMT

LEMMA WrapValue ==
  ASSUME NEW n \in Nat \ {0}, NEW x \in 0 .. n
  PROVE  x % n = IF x = n THEN 0 ELSE x
BY SMT

(* A number has one quotient and one remainder.                              *)
LEMMA Division ==
  ASSUME NEW n \in Nat \ {0}, NEW x \in Nat
  PROVE  x \div n \in Nat /\ x % n \in 0 .. (n - 1) /\ x = n * (x \div n) + (x % n)
<1>1. \A m \in Nat \ {0}, y \in Nat :
        /\ y \div m \in Nat /\ y % m \in 0 .. (m - 1)
        /\ y = m * (y \div m) + (y % m)
  BY SMT
<1> QED BY <1>1

LEMMA Multiple ==
  ASSUME NEW n \in Nat \ {0}, NEW p \in Nat, NEW q \in Nat, p < q
  PROVE  n * p + n <= n * q
<1> DEFINE d == q - p - 1
<1>1. d \in Nat /\ q = p + 1 + d
  OBVIOUS
<1> HIDE DEF d
<1>2. n * d \in Nat /\ n * q = n * p + n + n * d
  BY <1>1
<1>3. n * p \in Nat /\ n * q \in Nat
  OBVIOUS
<1> QED BY <1>2, <1>3

LEMMA OneDivision ==
  ASSUME NEW n \in Nat \ {0}, NEW p \in Nat, NEW q \in Nat,
         NEW r \in 0 .. (n - 1), NEW t \in 0 .. (n - 1), n * p + r = n * q + t
  PROVE  p = q /\ r = t
<1>0. n * p \in Nat /\ n * q \in Nat
  OBVIOUS
<1>1. ~(p < q)
  BY <1>0, Multiple
<1>2. ~(q < p)
  BY <1>0, Multiple
<1> QED BY <1>0, <1>1, <1>2

LEMMA Quotient ==
  ASSUME NEW n \in Nat \ {0}, NEW k \in Nat, NEW r \in 0 .. (n - 1), NEW x, x = k * n + r
  PROVE  x \div n = k /\ x % n = r
<1>1. k * n \in Nat /\ n * k = k * n /\ x \in Nat
  OBVIOUS
<1>2. /\ x \div n \in Nat /\ x % n \in 0 .. (n - 1)
      /\ x = n * (x \div n) + (x % n)
  BY <1>1, Division
<1>3. n * (x \div n) + (x % n) = n * k + r
  BY <1>1, <1>2
<1> QED BY <1>2, <1>3, OneDivision

LEMMA NextRemainder ==
  ASSUME NEW m \in Nat \ {0}, NEW n \in Nat
  PROVE  /\ n % m \in 0 .. (m - 1)
         /\ (n + 1) % m = IF n % m = m - 1 THEN 0 ELSE (n % m) + 1
<1> DEFINE q == n \div m
           r == n % m
           q1 == (n + 1) \div m
           r1 == (n + 1) % m
<1>0. /\ q \in Nat /\ r \in 0 .. (m - 1) /\ n = m * q + r
  BY Division
<1>01. n + 1 \in Nat
  OBVIOUS
<1>02. /\ q1 \in Nat /\ r1 \in 0 .. (m - 1) /\ n + 1 = m * q1 + r1
  BY <1>01, Division
<1>1. /\ q \in Nat /\ r \in 0 .. (m - 1) /\ n = m * q + r
      /\ q1 \in Nat /\ r1 \in 0 .. (m - 1) /\ n + 1 = m * q1 + r1
  BY <1>0, <1>02
<1> HIDE DEF q, r, q1, r1
<1>2. CASE r = m - 1
  <2>1. m * (q + 1) + 0 = m * q1 + r1
    <3>1. m * (q + 1) = m * q + m
      BY <1>1
    <3> QED BY <1>1, <1>2, <3>1
  <2>2. r1 = 0
    BY <1>1, <2>1, OneDivision
  <2> QED BY <1>1, <1>2, <2>2 DEF r, r1
<1>3. CASE r # m - 1
  <2>1. r + 1 \in 0 .. (m - 1) /\ m * q + (r + 1) = m * q1 + r1
    BY <1>1, <1>3
  <2>2. r1 = r + 1
    BY <1>1, <2>1, OneDivision
  <2> QED BY <1>1, <1>3, <2>2 DEF r, r1
<1> QED BY <1>2, <1>3

LEMMA WrapAgain ==
  ASSUME NEW n \in Nat \ {0}, NEW x \in Nat PROVE ((x % n) + 1) % n = (x + 1) % n
<1> DEFINE r == x % n
<1>1. r \in 0 .. (n - 1) /\ (x + 1) % n = IF r = n - 1 THEN 0 ELSE r + 1
  BY NextRemainder
<1> HIDE DEF r
<1>2. r + 1 \in 0 .. n
  BY <1>1
<1>3. (r + 1) % n = IF r + 1 = n THEN 0 ELSE r + 1
  BY <1>2, WrapValue
<1>4. (r + 1) % n = (x + 1) % n
  BY <1>1, <1>3
<1> QED BY <1>4 DEF r

(* The address presented to the memory, and the byte it reads.               *)
LEMMA AddrNextType ==
  ASSUME TypeOK, NEW b \in Bit PROVE AddrNext(b) \in Word(ADDR_BITS)
BY WidthAssumption, ZeroType, ShiftInType, IncType DEF TypeOK, AddrNext

LEMMA DrTmpType == ASSUME TypeOK PROVE DrTmp \in Word(DATA_BITS)
BY DEF TypeOK, MemTypeOK, DrTmp, DatR

LEMMA EsoType == ASSUME TypeOK PROVE Eso \in Bit /\ EsoOe \in Bit
BY WidthAssumption, DrTmpType, TopBit DEF TypeOK, Eso, EsoOe, Bit

(* The steps of the FSM and its reset keep the registers of domain spi       *)
(* within their widths.                                                      *)
FsmTypeOK ==
  /\ state \in States
  /\ cmd \in Word(CMD_BITS) /\ cmd_bit_cnt \in 0 .. (CMD_BITS - 1)
  /\ addr \in Word(ADDR_BITS) /\ addr_cnt \in 0 .. ADDR_BITS
  /\ dr \in Word(DATA_BITS) /\ dr_bit_cnt \in 0 .. (DATA_BITS - 1)
  /\ qmode \in Bit
  /\ idcode \in Word(ID_BITS)
  /\ fetched \in Word(DATA_BITS) /\ nout \in 0 .. (ID_BITS - 1)

(* The address counter has not run past the address while it still counts.   *)
AddrCounts == rst = 0 /\ state # "read_get_data" => addr_cnt < ADDR_BITS

LEMMA FsmTypes ==
  ASSUME TypeOK, AddrCounts, NEW b \in Bit,
         \/ rst = 1 /\ SpiReset(b)
         \/ rst = 0 /\ (GetCmd(b) \/ Rdid \/ ReadGetAddr(b) \/ ReadGetData \/ BadCmdErr)
  PROVE  FsmTypeOK'
<1>1. CASE SpiReset(b)
  BY <1>1, WidthAssumption, CommandAssumption
     DEF TypeOK, SpiReset, BitCntReset, FsmTypeOK, States, Zero, Word, Bit
<1>2. CASE GetCmd(b)
  <2>1. cmd' \in Word(CMD_BITS)
    BY <1>2, WidthAssumption, ShiftInType DEF TypeOK, GetCmd
  <2>2. cmd_bit_cnt' \in 0 .. (CMD_BITS - 1)
    BY <1>2, WidthAssumption, WrapType DEF TypeOK, GetCmd
  <2>3. state' \in States
    BY <1>2 DEF TypeOK, GetCmd, Decode, States
  <2>4. qmode' \in Bit
    BY <1>2 DEF TypeOK, GetCmd, Bit
  <2> QED BY <1>2, <2>1, <2>2, <2>3, <2>4 DEF TypeOK, GetCmd, FsmTypeOK
<1>3. CASE Rdid
  <2>1. idcode' \in Word(ID_BITS)
    BY <1>3, WidthAssumption, ShiftInType, TopBit DEF TypeOK, Rdid
  <2>2. nout' \in 0 .. (ID_BITS - 1)
    <3>1. nout + 1 \in Nat
      BY WidthAssumption DEF TypeOK
    <3> QED BY <1>3, <3>1, WidthAssumption, WrapType DEF Rdid
  <2> QED BY <1>3, <2>1, <2>2 DEF TypeOK, Rdid, FsmTypeOK
<1>4. CASE rst = 0 /\ ReadGetAddr(b)
  <2>1. addr' \in Word(ADDR_BITS)
    BY <1>4, AddrNextType DEF ReadGetAddr
  <2>2. addr_cnt' \in 0 .. ADDR_BITS
    BY <1>4, WidthAssumption DEF TypeOK, AddrCounts, ReadGetAddr
  <2> QED BY <1>4, <2>1, <2>2 DEF TypeOK, ReadGetAddr, FsmTypeOK, States
<1>5. CASE ReadGetData
  <2>1. dr' \in Word(DATA_BITS)
    BY <1>5, WidthAssumption, DrTmpType, ShiftInType DEF ReadGetData, Bit
  <2>2. dr_bit_cnt' \in 0 .. (DATA_BITS - 1)
    BY <1>5, WidthAssumption, WrapType DEF TypeOK, ReadGetData
  <2>3. addr' \in Word(ADDR_BITS)
    BY <1>5, AddrNextType DEF TypeOK, ReadGetData, Bit
  <2>4. fetched' \in Word(DATA_BITS)
    BY <1>5 DEF TypeOK, MemTypeOK, ReadGetData, DatR
  <2> QED BY <1>5, <2>1, <2>2, <2>3, <2>4 DEF TypeOK, ReadGetData, FsmTypeOK
<1>6. CASE BadCmdErr
  BY <1>6 DEF TypeOK, BadCmdErr, FsmTypeOK, fsmVars
<1> QED BY <1>1, <1>2, <1>3, <1>4, <1>5, <1>6

LEMMA FsmAddrCounts ==
  ASSUME TypeOK, AddrCounts, NEW b \in Bit, SclkRise(b)
  PROVE  AddrCounts'
BY SMTT(20), WidthAssumption
   DEF TypeOK, AddrCounts, SclkRise, SpiReset, GetCmd, Decode, Rdid, ReadGetAddr,
       LastAddrBit, ReadGetData, BadCmdErr, fsmVars

-----------------------------------------------------------------------------
LEMMA InitType == Init => TypeOK /\ AddrCounts
<1> SUFFICES ASSUME Init PROVE TypeOK /\ AddrCounts
  OBVIOUS
<1>1. mem \in [Word(MEM_BITS) -> Word(DATA_BITS)]
  <2>1. ASSUME NEW a \in Word(MEM_BITS) PROVE Val4Addr(a) \in Word(DATA_BITS)
    BY WidthAssumption DEF Val4Addr, Word, Bit
  <2> QED BY <2>1 DEF Init, MemInit
<1>2. MemTypeOK
  BY <1>1, WidthAssumption, ZeroType DEF Init, MemInit, MemTypeOK, Bit
<1>3. /\ cmd \in Word(CMD_BITS) /\ addr \in Word(ADDR_BITS)
      /\ dr \in Word(DATA_BITS) /\ fetched \in Word(DATA_BITS)
      /\ idcode \in Word(ID_BITS)
  BY WidthAssumption, CommandAssumption, ZeroType DEF Init
<1>4. /\ nout \in 0 .. (ID_BITS - 1) /\ cmd_bit_cnt \in 0 .. (CMD_BITS - 1)
      /\ dr_bit_cnt \in 0 .. (DATA_BITS - 1) /\ addr_cnt \in 0 .. ADDR_BITS
  BY WidthAssumption DEF Init, BitCntReset
<1>5. state \in States /\ fresh \in BOOLEAN
  BY DEF Init, States
<1>6. AddrCounts
  BY DEF Init, AddrCounts
<1> QED BY <1>2, <1>3, <1>4, <1>5, <1>6 DEF Init, TypeOK, Bit

LEMMA NextType ==
  ASSUME TypeOK, AddrCounts, [Next]_vars PROVE TypeOK' /\ AddrCounts'
<1> USE DEF pinVars, fsmVars, outVars, histVars, memVars
<1>1. ASSUME NEW c \in Bit, NEW r \in Bit, SetPins(c, r)
      PROVE  TypeOK' /\ AddrCounts'
  BY <1>1 DEF TypeOK, AddrCounts, MemTypeOK, SetPins, Bit
<1>2. ASSUME NEW b \in Bit, SclkRise(b) PROVE TypeOK' /\ AddrCounts'
  <2>1. FsmTypeOK'
    BY <1>2, FsmTypes DEF SclkRise
  <2>2. MemTypeOK'
    BY <1>2, WidthAssumption, AddrNextType, LowType
       DEF TypeOK, MemTypeOK, SclkRise, SpiClock, PortAddr
  <2>3. rst' \in Bit /\ fresh' \in BOOLEAN /\ sclk' \in Bit
    BY <1>2 DEF SclkRise, Released, Bit
  <2> QED BY <1>2, <2>1, <2>2, <2>3, FsmAddrCounts DEF TypeOK, FsmTypeOK, SclkRise
<1>3. CASE SclkFall
  <2>1. eso_delayed' \in Bit /\ eso_oe_delayed' \in Bit /\ rst_inv' \in Bit
    BY <1>3, EsoType DEF SclkFall, Released, Bit
  <2> QED BY <1>3, <2>1 DEF TypeOK, AddrCounts, MemTypeOK, SclkFall, Bit
<1>4. ASSUME NEW v \in Bit, LoaderSelect(v) PROVE TypeOK' /\ AddrCounts'
  BY <1>4 DEF TypeOK, AddrCounts, MemTypeOK, LoaderSelect, SetSel
<1>5. ASSUME NEW a \in Word(MEM_BITS), NEW we \in Bit, NEW d \in LoadData,
             LoaderCycle(a, we, d)
      PROVE  TypeOK' /\ AddrCounts'
  BY <1>5, CommandAssumption DEF TypeOK, AddrCounts, MemTypeOK, LoaderCycle, SysClock
<1>6. CASE UNCHANGED vars
  BY <1>6 DEF TypeOK, AddrCounts, MemTypeOK, vars
<1>7. TypeOK
  OBVIOUS
<1> QED
  BY <1>1, <1>2, <1>3, <1>4, <1>5, <1>6, <1>7
     DEF Next, SetCsn, SetRstn, Rise, Loader, TypeOK

(* Every register stays within its width, whatever the widths, the commands  *)
(* and the order in which host and loader act.                               *)
THEOREM TypeCorrect == Spec => []TypeOK
<1>1. Init => TypeOK /\ AddrCounts
  BY InitType
<1>2. TypeOK /\ AddrCounts /\ [Next]_vars => (TypeOK /\ AddrCounts)'
  BY NextType
<1> QED BY <1>1, <1>2, PTL DEF Spec

-----------------------------------------------------------------------------
(* The invariant behind the safety properties.                               *)

(* Deselecting holds both domains in reset.                                  *)
ResetHeld == Deselected => rst = 1 /\ rst_inv = 1

(* When the clock is high and the falling domain is out of reset, the rising *)
(* domain is too: a falling edge cannot show a state of an earlier           *)
(* transaction, even for a host that idles its clock high.                   *)
RisesFirst == sclk = 1 /\ rst_inv = 0 => rst = 0

Driving == eso_oe_delayed = 1 /\ rst_inv = 0 =>
             rst = 0 /\ state \in {"rdid", "read_get_data"}

FreshIsOwned == fresh => sel = 0

BitCounts ==
  rst = 0 => /\ state # "read_get_data" => dr_bit_cnt = 0
             /\ qmode = 1 => dr_bit_cnt \in {0, QUAD_STEP}

IInv == /\ TypeOK /\ AddrCounts /\ ResetHeld /\ RisesFirst /\ Driving
        /\ FreshIsOwned /\ BitCounts /\ PortHoldsNextByte /\ ByteIntact

(* One clock of read_get_data: where the bit counter goes.                   *)
LEMMA NextBit ==
  ASSUME TypeOK, BitCounts, rst = 0, ReadGetData
  PROVE  /\ LastBitOfByte => dr_bit_cnt' = 0
         /\ ~LastBitOfByte => /\ qmode = 0 => dr_bit_cnt' = dr_bit_cnt + 1
                              /\ qmode = 1 => dr_bit_cnt = 0 /\ dr_bit_cnt' = QUAD_STEP
         /\ qmode = 1 => dr_bit_cnt' \in {0, QUAD_STEP}
<1>1. CASE qmode = 0
  <2>1. dr_bit_cnt + 1 \in 0 .. DATA_BITS
    BY WidthAssumption DEF TypeOK
  <2>2. dr_bit_cnt' = IF dr_bit_cnt + 1 = DATA_BITS THEN 0 ELSE dr_bit_cnt + 1
    BY <1>1, <2>1, WidthAssumption, WrapValue DEF ReadGetData
  <2> QED BY <1>1, <2>2, WidthAssumption DEF TypeOK, LastBitOfByte
<1>2. CASE qmode = 1
  <2>1. dr_bit_cnt + QUAD_STEP \in {QUAD_STEP, DATA_BITS}
    BY <1>2, WidthAssumption DEF BitCounts
  <2>2. dr_bit_cnt' = IF dr_bit_cnt + QUAD_STEP = DATA_BITS
                      THEN 0 ELSE dr_bit_cnt + QUAD_STEP
    BY <1>2, <2>1, WidthAssumption, WrapValue DEF ReadGetData
  <2> QED BY <1>2, <2>2, WidthAssumption DEF BitCounts, LastBitOfByte
<1> QED BY <1>1, <1>2 DEF TypeOK, Bit

LEMMA RiseByteIntact ==
  ASSUME IInv, NEW b \in Bit, SclkRise(b)
  PROVE  ByteIntact'
<1> SUFFICES ASSUME rst = 0, state = "read_get_data", ReadGetData, dr_bit_cnt' # 0
             PROVE  \A i \in Shifted' .. (DATA_BITS - 1) :
                       dr'[i] = fetched'[i - Shifted']
  BY DEF SclkRise, IInv, ByteIntact, BitCounts, SpiReset, GetCmd, Decode, Rdid,
         ReadGetAddr, ReadGetData, BadCmdErr, fsmVars, Shifted
<1>1. ~LastBitOfByte
  BY NextBit DEF IInv
<1>2. qmode' = qmode /\ Shifted' = Shifted + 1
  BY <1>1, NextBit, WidthAssumption DEF IInv, TypeOK, ReadGetData, Shifted, Bit
<1>3. Shifted \in 0 .. (DATA_BITS - 1)
  BY WidthAssumption DEF IInv, TypeOK, Shifted
<1>4. CASE dr_bit_cnt = 0
  <2>1. Shifted = 0 /\ fetched' = DatR /\ DrTmp = DatR
    BY <1>4 DEF Shifted, ReadGetData, DrTmp
  <2> QED
    BY <1>2, <2>1, WidthAssumption DEF ReadGetData, ShiftIn
<1>5. CASE dr_bit_cnt # 0
  <2>1. fetched' = fetched /\ DrTmp = dr
    BY <1>5 DEF ReadGetData, DrTmp
  <2>2. \A i \in Shifted .. (DATA_BITS - 1) : dr[i] = fetched[i - Shifted]
    BY <1>5 DEF IInv, ByteIntact
  <2>3. Shifted > 0
    BY <1>5 DEF Shifted, IInv, TypeOK
  <2>4. ASSUME NEW i \in (Shifted + 1) .. (DATA_BITS - 1)
        PROVE  dr'[i] = fetched'[i - (Shifted + 1)]
    <3>1. i - 1 \in Shifted .. (DATA_BITS - 1) /\ i \in 0 .. (DATA_BITS - 1) /\ i # 0
      BY <1>3, <2>4, WidthAssumption
    <3>2. dr'[i] = dr[i - 1]
      BY <2>1, <3>1 DEF ReadGetData, ShiftIn
    <3>3. (i - 1) - Shifted = i - (Shifted + 1)
      BY <1>3, <3>1
    <3> QED BY <2>1, <2>2, <3>1, <3>2, <3>3
  <2> QED BY <1>2, <2>4
<1> QED BY <1>4, <1>5

LEMMA RisePort ==
  ASSUME IInv, NEW b \in Bit, SclkRise(b)
  PROVE  PortHoldsNextByte'
<1> SUFFICES ASSUME rst = 0, state' = "read_get_data", dr_bit_cnt' = 0, sel = 0
             PROVE  memadr' = Low(MEM_BITS, addr')
  BY DEF SclkRise, IInv, PortHoldsNextByte, SpiReset
<1>1. memadr' = Low(MEM_BITS, AddrNext(b))
  BY DEF SclkRise, SpiClock, PortAddr
<1>2. CASE ReadGetAddr(b)
  BY <1>1, <1>2 DEF ReadGetAddr
<1>3. CASE ReadGetData
  <2>1. LastBitOfByte
    BY <1>3, NextBit, WidthAssumption DEF IInv, TypeOK, Bit
  <2>2. AddrNext(b) = AddrNext(0)
    BY <1>3 DEF ReadGetData, AddrNext
  <2> QED BY <1>1, <1>3, <2>1, <2>2 DEF ReadGetData
<1> QED
  BY <1>2, <1>3 DEF SclkRise, GetCmd, Decode, Rdid, BadCmdErr, fsmVars

LEMMA RiseBits ==
  ASSUME IInv, NEW b \in Bit, SclkRise(b)
  PROVE  BitCounts'
<1>1. CASE rst = 1
  BY <1>1 DEF SclkRise, SpiReset, BitCounts
<1>2. CASE rst = 0 /\ ReadGetData
  BY <1>2, NextBit DEF IInv, ReadGetData, BitCounts
<1>3. CASE rst = 0 /\ ~ReadGetData
  BY <1>3, WidthAssumption
     DEF SclkRise, IInv, TypeOK, BitCounts, GetCmd, Rdid, ReadGetAddr, BadCmdErr, fsmVars
<1> QED BY <1>1, <1>2, <1>3 DEF IInv, TypeOK, Bit

LEMMA InitInv == Init => IInv
BY InitType
   DEF Init, MemInit, IInv, ResetHeld, RisesFirst, Driving, FreshIsOwned, BitCounts,
       PortHoldsNextByte, ByteIntact, Deselected

LEMMA NextInv == ASSUME IInv, [Next]_vars PROVE IInv'
<1> USE DEF pinVars, fsmVars, outVars, histVars, memVars
<1>1. TypeOK' /\ AddrCounts'
  BY NextType DEF IInv
<1> DEFINE Rest == /\ ResetHeld /\ RisesFirst /\ Driving /\ FreshIsOwned
                   /\ BitCounts /\ PortHoldsNextByte /\ ByteIntact
<1>2. ASSUME NEW c \in Bit, NEW r \in Bit, SetPins(c, r) PROVE Rest'
  BY <1>2 DEF IInv, TypeOK, Bit, SetPins, ResetHeld, RisesFirst, Driving, FreshIsOwned,
              BitCounts, PortHoldsNextByte, ByteIntact, Shifted, Deselected
<1>3. ASSUME NEW b \in Bit, SclkRise(b) PROVE Rest'
  <2>1. ResetHeld' /\ RisesFirst' /\ FreshIsOwned'
    BY <1>3 DEF IInv, TypeOK, Bit, SclkRise, SpiClock, Released, ResetHeld,
                RisesFirst, FreshIsOwned, Deselected
  <2>2. Driving'
    BY <1>3 DEF IInv, ResetHeld, Driving, SclkRise, Released, SpiReset, GetCmd, Rdid,
                ReadGetAddr, ReadGetData, BadCmdErr
  <2> QED BY <1>3, <2>1, <2>2, RiseByteIntact, RisePort, RiseBits
<1>4. ASSUME SclkFall PROVE Rest'
  <2>1. Driving'
    BY <1>4 DEF IInv, TypeOK, Bit, SclkFall, RisesFirst, Driving, EsoOe
  <2>2. ResetHeld' /\ RisesFirst'
    BY <1>4 DEF IInv, SclkFall, Released, ResetHeld, RisesFirst, Deselected
  <2>3. FreshIsOwned' /\ BitCounts'
    BY <1>4 DEF IInv, SclkFall, FreshIsOwned, BitCounts
  <2>4. PortHoldsNextByte' /\ ByteIntact'
    BY <1>4 DEF IInv, SclkFall, PortHoldsNextByte, ByteIntact, Shifted
  <2> QED BY <2>1, <2>2, <2>3, <2>4
<1>5. ASSUME NEW v \in Bit, LoaderSelect(v) PROVE Rest'
  BY <1>5 DEF IInv, LoaderSelect, SetSel, ResetHeld, RisesFirst, Driving, FreshIsOwned,
              BitCounts, PortHoldsNextByte, ByteIntact, Shifted, Deselected
<1>6. ASSUME NEW a \in Word(MEM_BITS), NEW we \in Bit, NEW d \in LoadData,
             LoaderCycle(a, we, d)
      PROVE  Rest'
  BY <1>6 DEF IInv, LoaderCycle, SysClock, ResetHeld, RisesFirst, Driving, FreshIsOwned,
              BitCounts, PortHoldsNextByte, ByteIntact, Shifted, Deselected
<1>7. ASSUME UNCHANGED vars PROVE Rest'
  <2>1. ResetHeld' /\ RisesFirst' /\ Driving'
    BY <1>7 DEF IInv, vars, ResetHeld, RisesFirst, Driving, Deselected
  <2>2. FreshIsOwned' /\ BitCounts'
    BY <1>7 DEF IInv, vars, FreshIsOwned, BitCounts
  <2>3. PortHoldsNextByte' /\ ByteIntact'
    BY <1>7 DEF IInv, vars, PortHoldsNextByte, ByteIntact, Shifted
  <2> QED BY <2>1, <2>2, <2>3
<1>8. Rest'
  BY <1>2, <1>3, <1>4, <1>5, <1>6, <1>7
     DEF Next, SetCsn, SetRstn, Rise, Loader, IInv, TypeOK
<1> QED BY <1>1, <1>8 DEF IInv

LEMMA Invariance == Spec => []IInv
<1>1. IInv /\ [Next]_vars => IInv'
  BY NextInv
<1> QED BY InitInv, <1>1, PTL DEF Spec

(* The pin is driven only while selected and out of reset, in answer to a    *)
(* command of the current transaction (the tristate enable, emu.py:175).     *)
THEOREM PinSafety == Spec => []DrivesOnlyAnswers
<1>1. IInv => DrivesOnlyAnswers
  BY DEF IInv, TypeOK, Bit, HiZ, DrivesOnlyAnswers, Driving, So, ResetHeld
<1> QED BY Invariance, <1>1, PTL

(* Whatever the widths, the port holds the address of the next byte unless   *)
(* the loader intervened (emu.py:207, 241, 256).                             *)
THEOREM PortSafety == Spec => []PortHoldsNextByte
<1>1. IInv => PortHoldsNextByte
  BY DEF IInv
<1> QED BY Invariance, <1>1, PTL

(* A byte that has started is sent whole, in single and in quad mode,        *)
(* whatever the loader does (emu.py:251-262).                                *)
THEOREM ByteSafety == Spec => []ByteIntact
<1>1. IInv => ByteIntact
  BY DEF IInv
<1> QED BY Invariance, <1>1, PTL

-----------------------------------------------------------------------------
(* FlashEmu implements SerialFlash, for every width and every memory.        *)

(* What the registers the current state does not use are left at, so that    *)
(* the next state starts from there, and how far the identification word has *)
(* turned.                                                                   *)
Unused ==
  rst = 0 => /\ state \notin {"read_get_addr", "read_get_data"} => addr_cnt = 0
             /\ state = "get_cmd" => qmode = 0
             /\ state # "rdid" => nout = 0
             /\ rst_inv = 1 => sclk = 1 /\ state = "get_cmd"

Turned ==
  rst = 0 => \A i \in 0 .. (ID_BITS - 1) :
               idcode[i] = IDCODE[IF i >= nout THEN i - nout ELSE i - nout + ID_BITS]

RInv == IInv /\ Unused /\ Turned

LEMMA InitRInv == Init => RInv
BY InitInv DEF Init, RInv, Unused, Turned

(* Unused is kept: each action either leaves these registers alone, resets   *)
(* them or turns to the state that uses them.                                *)
LEMMA UnusedNext == ASSUME RInv, [Next]_vars PROVE Unused'
<1> USE DEF pinVars, fsmVars, outVars, histVars, memVars
<1>1. ASSUME NEW c \in Bit, NEW r \in Bit, SetPins(c, r) PROVE Unused'
  BY <1>1 DEF RInv, SetPins, Unused
<1>2. ASSUME NEW b \in Bit, SclkRise(b) PROVE Unused'
  <2>1. sclk' = 1 /\ rst_inv' = rst_inv /\ sclk = 0
    BY <1>2 DEF SclkRise
  <2>2. CASE rst = 1
    BY <1>2, <2>1, <2>2 DEF SclkRise, SpiReset, Unused
  <2>3. CASE rst = 0
    BY <1>2, <2>1, <2>3 DEF RInv, IInv, TypeOK, States, SclkRise, GetCmd, Decode, Rdid, ReadGetAddr,
      ReadGetData, BadCmdErr, Unused
  <2> QED BY <2>2, <2>3 DEF RInv, IInv, TypeOK, Bit
<1>3. ASSUME SclkFall PROVE Unused'
  BY <1>3 DEF RInv, IInv, ResetHeld, SclkFall, Released, Unused
<1>4. ASSUME NEW v \in Bit, LoaderSelect(v) PROVE Unused'
  BY <1>4 DEF RInv, LoaderSelect, Unused
<1>5. ASSUME NEW a \in Word(MEM_BITS), NEW we \in Bit, NEW d \in LoadData,
             LoaderCycle(a, we, d)
      PROVE  Unused'
  BY <1>5 DEF RInv, LoaderCycle, Unused
<1>6. ASSUME UNCHANGED vars PROVE Unused'
  BY <1>6 DEF RInv, vars, Unused
<1> QED BY <1>1, <1>2, <1>3, <1>4, <1>5, <1>6 DEF Next, SetCsn, SetRstn, Rise, Loader,
                                         RInv, IInv, TypeOK

(* RDID turns the identification word by one bit a clock.                    *)
LEMMA TurnedRdid == ASSUME RInv, rst = 0, Rdid PROVE Turned'
<1>1. /\ ID_BITS \in Nat \ {0} /\ nout \in 0 .. (ID_BITS - 1)
      /\ idcode' = ShiftIn(ID_BITS, idcode[ID_BITS - 1], idcode)
  BY WidthAssumption DEF RInv, IInv, TypeOK, Rdid
<1>2. nout' = IF nout + 1 = ID_BITS THEN 0 ELSE nout + 1
  BY SMTT(20), <1>1, WrapValue DEF Rdid
<1>3. \A i \in 0 .. (ID_BITS - 1) :
        idcode[i] = IDCODE[IF i >= nout THEN i - nout ELSE i - nout + ID_BITS]
  BY DEF RInv, Turned
<1>4. ASSUME NEW i \in 0 .. (ID_BITS - 1)
      PROVE  idcode'[i] = IDCODE[IF i >= nout' THEN i - nout' ELSE i - nout' + ID_BITS]
  <2>1. CASE i = 0
    <3>1. idcode'[i] = idcode[ID_BITS - 1]
      BY <1>1, <2>1 DEF ShiftIn
    <3>2. ID_BITS - 1 \in 0 .. (ID_BITS - 1) /\ ID_BITS - 1 >= nout
      BY <1>1
    <3>3. idcode[ID_BITS - 1] = IDCODE[ID_BITS - 1 - nout]
      BY <1>3, <3>2
    <3>4. (IF i >= nout' THEN i - nout' ELSE i - nout' + ID_BITS) = ID_BITS - 1 - nout
      BY <1>1, <1>2, <2>1
    <3> QED BY <3>1, <3>3, <3>4
  <2>2. CASE i # 0
    <3>1. idcode'[i] = idcode[i - 1] /\ i - 1 \in 0 .. (ID_BITS - 1)
      BY <1>1, <2>2 DEF ShiftIn
    <3>2. idcode[i - 1]
            = IDCODE[IF i - 1 >= nout THEN i - 1 - nout ELSE i - 1 - nout + ID_BITS]
      BY <1>3, <3>1
    <3>3. (IF i >= nout' THEN i - nout' ELSE i - nout' + ID_BITS)
            = (IF i - 1 >= nout THEN i - 1 - nout ELSE i - 1 - nout + ID_BITS)
      BY <1>1, <1>2, <2>2
    <3> QED BY <3>1, <3>2, <3>3
  <2> QED BY <2>1, <2>2
<1> QED BY <1>4 DEF Turned

(* Turned is kept by every step: only RDID and the reset touch idcode.       *)
LEMMA TurnedNext == ASSUME RInv, [Next]_vars PROVE Turned'
<1> USE DEF pinVars, fsmVars, outVars, histVars, memVars
<1>1. ASSUME UNCHANGED <<idcode, nout>>, rst' = rst \/ rst' = 1 \/ rst = 0 PROVE Turned'
  BY <1>1 DEF RInv, IInv, TypeOK, Bit, Turned
<1>2. ASSUME NEW b \in Bit, SclkRise(b) PROVE Turned'
  <2>1. CASE rst = 1
    <3>1. idcode' = IDCODE /\ nout' = 0
      BY <1>2, <2>1 DEF SclkRise, SpiReset
    <3>2. \A i \in 0 .. (ID_BITS - 1) : i >= 0 /\ i - 0 = i
      BY WidthAssumption
    <3> QED BY <3>1, <3>2 DEF Turned
  <2>2. CASE rst = 0 /\ Rdid
    BY <2>2, TurnedRdid
  <2>3. CASE rst = 0 /\ ~Rdid
    BY <1>1, <1>2, <2>3 DEF SclkRise, GetCmd, ReadGetAddr, ReadGetData, BadCmdErr
  <2> QED BY <2>1, <2>2, <2>3 DEF RInv, IInv, TypeOK, Bit
<1>3. CASE SetCsn \/ SetRstn \/ SclkFall \/ Loader \/ UNCHANGED vars
  BY <1>1, <1>3 DEF SetCsn, SetRstn, SetPins, SclkFall, Loader, LoaderSelect, LoaderCycle, vars
<1> QED BY <1>2, <1>3 DEF Next, Rise

LEMMA RInvariance == Spec => []RInv
<1>1. RInv /\ [Next]_vars => RInv'
  BY NextInv, UnusedNext, TurnedNext DEF RInv
<1> QED BY InitRInv, <1>1, PTL DEF Spec

-----------------------------------------------------------------------------
(* The abstract state, case by case.                                         *)
NothingSent == PtrBar = Zero(ADDR_BITS) /\ ByteBar = Zero(DATA_BITS)

Bars ==
  /\ Deselected => /\ PhaseBar = "idle" /\ BitsBar = << >> /\ QuadBar = 0 /\ PosBar = 0
                   /\ NothingSent
  /\ ~Deselected /\ rst = 1 =>
       PhaseBar = "cmd" /\ BitsBar = << >> /\ QuadBar = 0 /\ PosBar = 0 /\ NothingSent
  /\ ~Deselected /\ rst = 0 /\ state = "get_cmd" =>
       /\ PhaseBar = "cmd" /\ BitsBar = [k \in 1 .. cmd_bit_cnt |-> cmd[cmd_bit_cnt - k]]
       /\ QuadBar = 0 /\ PosBar = 0 /\ NothingSent
  /\ ~Deselected /\ rst = 0 /\ state = "read_get_addr" =>
       /\ PhaseBar = "addr" /\ BitsBar = [k \in 1 .. addr_cnt |-> addr[addr_cnt - k]]
       /\ QuadBar = qmode /\ PosBar = 0 /\ NothingSent
  /\ ~Deselected /\ rst = 0 /\ state = "read_get_data" =>
       /\ PhaseBar = "data" /\ BitsBar = << >> /\ QuadBar = qmode /\ PosBar = Shifted
       /\ PtrBar = addr /\ ByteBar = IF Shifted # 0 THEN fetched ELSE Zero(DATA_BITS)
  /\ ~Deselected /\ rst = 0 /\ state = "rdid" =>
       /\ PhaseBar = "id" /\ BitsBar = << >> /\ QuadBar = qmode /\ PosBar = nout
       /\ NothingSent
  /\ ~Deselected /\ rst = 0 /\ state = "bad_cmd_err" =>
       /\ PhaseBar = "mute" /\ BitsBar = << >> /\ QuadBar = qmode /\ PosBar = 0
       /\ NothingSent

(* The mapping has these values in every state, before and after a step.     *)
LEMMA BarsNow == Bars
BY DEF Bars, NothingSent, PhaseBar, Receiving, BitsBar, QuadBar, PosBar, PtrBar, ByteBar

LEMMA BarsThen == Bars'
BY BarsNow, PTL

(* SerialFlash reads the same words.                                         *)
LEMMA SameWords ==
  /\ Flash!Bit = Bit /\ Flash!HiZ = HiZ
  /\ \A n : Flash!Word(n) = Word(n)
  /\ \A n : Flash!Zero(n) = Zero(n)
  /\ \A n, r : Flash!Inc(n, r) = Inc(n, r)
  /\ \A n, r : Flash!Low(n, r) = Low(n, r)
  /\ \A n, r : Flash!WordOf(n, r) = WordOf(n, r)
<1>1. /\ Flash!Bit = Bit /\ Flash!HiZ = HiZ
      /\ \A n : Flash!Word(n) = Word(n)
      /\ \A n : Flash!Zero(n) = Zero(n)
  BY DEF Flash!Bit, Bit, Flash!HiZ, HiZ, Flash!Word, Word, Flash!Zero, Zero
<1>2. \A n, r : Flash!Inc(n, r) = Inc(n, r)
  BY DEF Flash!Inc, Inc
<1>3. \A n, r : Flash!Low(n, r) = Low(n, r)
  BY DEF Flash!Low, Low
<1>4. \A n, r : Flash!WordOf(n, r) = WordOf(n, r)
  BY DEF Flash!WordOf, WordOf
<1> QED BY <1>1, <1>2, <1>3, <1>4

(* Powered up deselected, the emulator is an idle SerialFlash.               *)
LEMMA InitRefines == Init => Flash!Init
<1> SUFFICES ASSUME Init PROVE Flash!Init
  OBVIOUS
<1>1. Deselected /\ So = HiZ /\ sclk = 0 /\ fresh = FALSE /\ sel = 0
  BY DEF Init, MemInit, Deselected, So
<1>2. mem \in [Word(MEM_BITS) -> Word(DATA_BITS)]
  BY InitType DEF TypeOK, MemTypeOK
<1>3. /\ PhaseBar = "idle" /\ BitsBar = << >> /\ QuadBar = 0 /\ PosBar = 0
      /\ PtrBar = Zero(ADDR_BITS) /\ ByteBar = Zero(DATA_BITS)
  BY <1>1, BarsNow DEF Bars, NothingSent
<1> QED BY <1>1, <1>2, <1>3, SameWords DEF Flash!Init

-----------------------------------------------------------------------------
(* Shifting a bit in appends it to those received.                           *)
LEMMA AppendBit ==
  ASSUME NEW m \in Nat, NEW n \in 0 .. (m - 1), NEW r \in Word(m), NEW b \in Bit
  PROVE  /\ Len([k \in 1 .. n |-> r[n - k]]) = n
         /\ Append([k \in 1 .. n |-> r[n - k]], b)
              = [k \in 1 .. (n + 1) |-> ShiftIn(m, b, r)[n + 1 - k]]
<1> DEFINE s == [k \in 1 .. n |-> r[n - k]]
           t == [k \in 1 .. (n + 1) |-> ShiftIn(m, b, r)[n + 1 - k]]
<1>1. s \in Seq(Bit) /\ Len(s) = n
  BY DEF Word
<1>2. /\ Append(s, b) \in Seq(Bit) /\ Len(Append(s, b)) = n + 1
      /\ \A k \in 1 .. n : Append(s, b)[k] = s[k]
      /\ Append(s, b)[n + 1] = b
  BY <1>1
<1>3. ASSUME NEW k \in 1 .. (n + 1) PROVE Append(s, b)[k] = t[k]
  <2>1. CASE k = n + 1
    <3>1. t[k] = ShiftIn(m, b, r)[0] /\ 0 \in 0 .. (m - 1)
      BY <2>1
    <3> QED BY <1>2, <2>1, <3>1 DEF ShiftIn
  <2>2. CASE k # n + 1
    <3>1. /\ k \in 1 .. n /\ n + 1 - k \in 0 .. (m - 1) /\ n + 1 - k # 0
          /\ (n + 1 - k) - 1 = n - k
      BY <2>2
    <3>2. t[k] = r[n - k]
      BY <3>1 DEF ShiftIn
    <3> QED BY <1>2, <3>1, <3>2
  <2> QED BY <2>1, <2>2
<1>4. Append(s, b) = [k \in 1 .. (n + 1) |-> Append(s, b)[k]]
  BY <1>2
<1> HIDE DEF s, t
<1>5. Append(s, b) = [k \in 1 .. (n + 1) |-> t[k]]
  BY <1>3, <1>4
<1>6. t = [k \in 1 .. (n + 1) |-> t[k]]
  BY DEF t
<1> QED BY <1>1, <1>5, <1>6 DEF s, t

(* The last bit completes the word.                                          *)
LEMMA LastBit ==
  ASSUME NEW m \in Nat, NEW n \in 0 .. (m - 1), n + 1 = m,
         NEW r \in Word(m), NEW b \in Bit
  PROVE  WordOf(m, Append([k \in 1 .. n |-> r[n - k]], b)) = ShiftIn(m, b, r)
<1> DEFINE s == Append([k \in 1 .. n |-> r[n - k]], b)
<1>1. s = [k \in 1 .. (n + 1) |-> ShiftIn(m, b, r)[n + 1 - k]]
  <2>1. /\ Len([k \in 1 .. n |-> r[n - k]]) = n
        /\ s = [k \in 1 .. (n + 1) |-> ShiftIn(m, b, r)[n + 1 - k]]
    BY AppendBit, ZenonT(60)
  <2> QED BY <2>1
<1>2. ASSUME NEW i \in 0 .. (m - 1) PROVE s[m - i] = ShiftIn(m, b, r)[i]
  <2>1. m - i \in 1 .. (n + 1) /\ n + 1 - (m - i) = i
    OBVIOUS
  <2> QED BY <1>1, <2>1
<1>3. ShiftIn(m, b, r) = [i \in 0 .. (m - 1) |-> ShiftIn(m, b, r)[i]]
  BY DEF ShiftIn
<1> HIDE DEF s
<1>4. WordOf(m, s) = [i \in 0 .. (m - 1) |-> ShiftIn(m, b, r)[i]]
  BY <1>2 DEF WordOf
<1> QED BY <1>3, <1>4 DEF s

-----------------------------------------------------------------------------
(* The steps that leave the FSM alone.                                       *)
SameBars == UNCHANGED <<PhaseBar, BitsBar, QuadBar, PtrBar, PosBar, ByteBar>>

(* Steps that touch neither FSM, reset nor pins keep the abstract state.     *)
LEMMA FsmKept ==
  ASSUME UNCHANGED <<csn, rstn, rst, fsmVars, fetched, nout>> PROVE SameBars
<1>1. UNCHANGED <<PhaseBar, QuadBar>> /\ Shifted' = Shifted
  BY DEF fsmVars, PhaseBar, QuadBar, Receiving, Deselected, Shifted
<1>2. UNCHANGED BitsBar
  BY <1>1 DEF fsmVars, BitsBar
<1>3. UNCHANGED PosBar
  BY <1>1 DEF PosBar
<1>4. UNCHANGED <<PtrBar, ByteBar>>
  BY <1>1, <1>3 DEF fsmVars, PtrBar, ByteBar
<1> QED BY <1>1, <1>2, <1>3, <1>4 DEF SameBars

(* The pins csn and rstn.                                                    *)
LEMMA StepPins ==
  ASSUME RInv, NEW c \in Bit, NEW r \in Bit, SetPins(c, r)
  PROVE  Flash!Select \/ Flash!Deselect \/ UNCHANGED Flash!vars
<1>1. UNCHANGED <<sclk, fresh, mem, sel>>
  BY DEF SetPins, histVars, memVars
<1>2. Bars /\ Bars'
  BY BarsNow, BarsThen
<1>3. Deselected => rst_inv = 1 /\ rst = 1 /\ So = HiZ
  BY DEF RInv, IInv, ResetHeld, So
<1>4. Deselected' => rst_inv' = 1 /\ rst' = 1 /\ So' = HiZ
  BY DEF SetPins, Deselected, So
<1>5. CASE Deselected /\ Deselected'
  <2>1. SameBars
    BY <1>2, <1>5 DEF Bars, NothingSent, SameBars
  <2> QED BY <1>1, <1>3, <1>4, <1>5, <2>1 DEF Flash!vars, SameBars
<1>6. CASE Deselected /\ ~Deselected'
  <2>1. rst' = 1 /\ rst_inv' = 1 /\ So' = HiZ
    BY <1>3, <1>6 DEF SetPins, Deselected, So
  <2>2. PhaseBar = "idle" /\ PhaseBar' = "cmd"
    BY <1>2, <1>6, <2>1 DEF Bars
  <2>3. UNCHANGED <<BitsBar, QuadBar, PtrBar, PosBar, ByteBar>>
    BY <1>2, <1>6, <2>1 DEF Bars, NothingSent
  <2> QED BY <1>1, <1>3, <1>6, <2>1, <2>2, <2>3 DEF Flash!Select
<1>7. CASE ~Deselected /\ Deselected'
  <2>1. PhaseBar # "idle" /\ PhaseBar' = "idle"
    BY <1>2, <1>7 DEF Bars, RInv, IInv, TypeOK, States, Bit
  <2>2. Flash!Cleared
    BY <1>2, <1>7, SameWords DEF Bars, NothingSent, Flash!Cleared
  <2> QED BY <1>1, <1>4, <1>7, <2>1, <2>2, SameWords DEF Flash!Deselect
<1>8. CASE ~Deselected /\ ~Deselected'
  BY <1>8 DEF SetPins, Deselected, Bit, RInv, IInv, TypeOK
<1> QED BY <1>5, <1>6, <1>7, <1>8

(* The loader takes, returns and stores.                                     *)
LEMMA StepLoader ==
  ASSUME RInv, Loader
  PROVE  \/ \E v \in Flash!Bit : Flash!Take(v)
         \/ \E a \in Flash!Word(MEM_BITS), d \in LoadData : Flash!Load(a, d)
         \/ UNCHANGED Flash!vars
<1>1. SameBars
  BY FsmKept DEF Loader, LoaderSelect, LoaderCycle, pinVars, histVars
<1>2. So' = So
  BY DEF Loader, LoaderSelect, LoaderCycle, outVars, So
<1>3. ASSUME NEW v \in Bit, LoaderSelect(v) PROVE Flash!Take(v)
  BY <1>1, <1>2, <1>3 DEF LoaderSelect, SetSel, pinVars, SameBars, Flash!Take
<1>4. ASSUME NEW a \in Word(MEM_BITS), NEW we \in Bit, NEW d \in LoadData,
             LoaderCycle(a, we, d)
      PROVE  Flash!Load(a, d) \/ UNCHANGED Flash!vars
  <2>1. UNCHANGED <<sclk, fresh, sel>> /\ sel = 1
    BY <1>4 DEF LoaderCycle, SysClock, pinVars, histVars
  <2>2. CASE we = 1
    BY <1>1, <1>2, <1>4, <2>1, <2>2 DEF LoaderCycle, SysClock, SameBars, Flash!Load
  <2>3. CASE we # 1
    BY <1>1, <1>2, <1>4, <2>1, <2>3 DEF LoaderCycle, SysClock, SameBars, Flash!vars
  <2> QED BY <2>2, <2>3
<1> QED BY <1>3, <1>4, SameWords DEF Loader

(* What the falling edge puts on the pin.                                    *)
LEMMA StepFall == ASSUME RInv, SclkFall PROVE Flash!Fall
<1>1. SameBars /\ UNCHANGED <<fresh, mem, sel>> /\ sclk = 1 /\ sclk' = 0
  BY FsmKept DEF SclkFall, histVars, memVars
<1>2. Deselected' = Deselected
  BY DEF SclkFall, Deselected
<1>3. Bars
  BY BarsNow
<1>4. So' = IF ~Deselected /\ rst_inv = 0 /\ EsoOe = 1 THEN Eso ELSE HiZ
  BY <1>2 DEF RInv, IInv, TypeOK, SclkFall, Released, So, Bit
<1>5. ~Deselected /\ rst_inv = 0 => rst = 0
  BY <1>1 DEF RInv, IInv, RisesFirst
<1>6. DrTmp \in Word(DATA_BITS)
  BY DrTmpType DEF RInv, IInv
<1>7. CASE ~Deselected /\ rst_inv = 0 /\ state = "rdid"
  <2>1. PhaseBar = "id" /\ PosBar = nout
    BY <1>3, <1>5, <1>7 DEF Bars
  <2>2. So' = idcode[ID_BITS - 1]
    BY <1>4, <1>7 DEF EsoOe, Eso
  <2>3. nout \in 0 .. (ID_BITS - 1) /\ ID_BITS \in Nat \ {0}
    BY WidthAssumption DEF RInv, IInv, TypeOK
  <2>4. idcode[ID_BITS - 1] = IDCODE[ID_BITS - 1 - nout]
    <3>1. ID_BITS - 1 \in 0 .. (ID_BITS - 1) /\ ID_BITS - 1 >= nout
      BY <2>3
    <3>2. \A i \in 0 .. (ID_BITS - 1) :
            idcode[i] = IDCODE[IF i >= nout THEN i - nout ELSE i - nout + ID_BITS]
      BY <1>5, <1>7 DEF RInv, Turned
    <3> QED BY <3>1, <3>2
  <2>5. So' \in Flash!Answer
    BY <2>1, <2>2, <2>4 DEF Flash!Answer
  <2> QED BY <1>1, <2>5 DEF Flash!Fall, SameBars
<1>8. CASE ~Deselected /\ rst_inv = 0 /\ state = "read_get_data"
  <2>1. PhaseBar = "data" /\ PosBar = Shifted /\ PtrBar = addr
    BY <1>3, <1>5, <1>8 DEF Bars
  <2>2. So' = DrTmp[DATA_BITS - 1]
    BY <1>4, <1>8 DEF EsoOe, Eso
  <2>3. rst = 0 /\ DATA_BITS \in Nat /\ DATA_BITS > 2
    BY <1>5, <1>8, WidthAssumption
  <2>4. CASE dr_bit_cnt = 0
    <3>1. Shifted = 0
      BY <2>4 DEF Shifted
    <3>2. DrTmp = mem[memadr]
      BY <2>4 DEF DrTmp, DatR
    <3>3. fresh => memadr = Low(MEM_BITS, addr)
      BY <1>8, <2>3, <2>4 DEF RInv, IInv, PortHoldsNextByte
    <3>4. DrTmp \in Flash!Fetched
      BY <1>6, <2>1, <3>2, <3>3, SameWords DEF Flash!Fetched, RInv, IInv, TypeOK
    <3>5. So' \in Flash!Answer
      BY <2>1, <2>2, <3>1, <3>4 DEF Flash!Answer
    <3> QED BY <1>1, <3>5 DEF Flash!Fall, SameBars
  <2>5. CASE dr_bit_cnt # 0
    <3>1. Shifted # 0 /\ Shifted \in 0 .. (DATA_BITS - 1)
      BY <2>3, <2>5 DEF Shifted, RInv, IInv, TypeOK
    <3>2. DrTmp = dr /\ ByteBar = fetched
      BY <1>3, <1>8, <2>3, <2>5, <3>1 DEF DrTmp, Bars
    <3>3. dr[DATA_BITS - 1] = fetched[DATA_BITS - 1 - Shifted]
      <4>1. DATA_BITS - 1 \in Shifted .. (DATA_BITS - 1)
        BY <2>3, <3>1
      <4> QED BY <1>8, <2>3, <2>5, <4>1 DEF RInv, IInv, ByteIntact
    <3>4. So' \in Flash!Answer
      BY <2>1, <2>2, <3>1, <3>2, <3>3 DEF Flash!Answer
    <3> QED BY <1>1, <3>4 DEF Flash!Fall, SameBars
  <2> QED BY <2>4, <2>5
<1>9. CASE \/ Deselected \/ rst_inv # 0
           \/ state \notin {"rdid", "read_get_data"}
  <2>1. So' = HiZ
    BY <1>4, <1>9 DEF EsoOe
  <2>2. PhaseBar \notin {"data", "id"}
    BY <1>1, <1>3, <1>9 DEF Bars, RInv, IInv, TypeOK, States, Bit, Unused
  <2>3. So' \in Flash!Answer
    BY <2>1, <2>2, SameWords DEF Flash!Answer
  <2> QED BY <1>1, <2>3 DEF Flash!Fall, SameBars
<1> QED BY <1>7, <1>8, <1>9

(* A rising edge.  What the emulator received or sent is SerialFlash's bit.  *)
RiseMaps(b) == \/ Flash!CmdBit(b) \/ Flash!AddrBit(b) \/ Flash!DataBit
               \/ Flash!IdBit \/ Flash!Ignored

(* The edge still under reset takes the first bit of the command.            *)
LEMMA RiseReset ==
  ASSUME RInv, NEW b \in Bit, ~Deselected, ~Deselected', rst' = 0, rst = 1, SpiReset(b)
  PROVE  Flash!CmdBit(b)
<1>1. /\ PhaseBar = "cmd" /\ BitsBar = << >> /\ QuadBar = 0 /\ PosBar = 0
      /\ PtrBar = Zero(ADDR_BITS) /\ ByteBar = Zero(DATA_BITS)
  BY BarsNow DEF Bars, NothingSent
<1>2. /\ PhaseBar' = "cmd" /\ BitsBar' = [k \in 1 .. cmd_bit_cnt' |-> cmd'[cmd_bit_cnt' - k]]
      /\ QuadBar' = 0 /\ PosBar' = 0
      /\ PtrBar' = Zero(ADDR_BITS) /\ ByteBar' = Zero(DATA_BITS)
  BY BarsThen DEF Bars, NothingSent, SpiReset
<1>3. cmd_bit_cnt' = 1 /\ cmd'[0] = b
  BY WidthAssumption DEF SpiReset, BitCntReset
<1>4. BitsBar' = Append(BitsBar, b)
  <2>1. BitsBar' = [k \in 1 .. 1 |-> b]
    <3>1. ASSUME NEW k \in 1 .. 1 PROVE cmd'[1 - k] = b
      BY <1>3, <3>1
    <3> QED BY <1>2, <1>3, <3>1
  <2>2. [k \in 1 .. 1 |-> b] = Append(<< >>, b)
    OBVIOUS
  <2> QED BY <1>1, <2>1, <2>2
<1>5. Len(BitsBar) + 1 < CMD_BITS
  BY <1>1, WidthAssumption
<1> QED BY <1>1, <1>2, <1>4, <1>5 DEF Flash!CmdBit

(* A command bit; with the last one the command is decoded.                  *)
LEMMA RiseCmd ==
  ASSUME RInv, NEW b \in Bit, ~Deselected, ~Deselected', rst' = 0, rst = 0, GetCmd(b)
  PROVE  Flash!CmdBit(b)
<1> DEFINE n == cmd_bit_cnt
           c == ShiftIn(CMD_BITS, b, cmd)
<1>1. /\ PhaseBar = "cmd" /\ BitsBar = [k \in 1 .. n |-> cmd[n - k]]
      /\ QuadBar = 0 /\ PosBar = 0
      /\ PtrBar = Zero(ADDR_BITS) /\ ByteBar = Zero(DATA_BITS)
  BY BarsNow DEF Bars, NothingSent, GetCmd
<1>2. /\ CMD_BITS \in Nat /\ cmd \in Word(CMD_BITS) /\ n \in 0 .. (CMD_BITS - 1)
      /\ state = "get_cmd" /\ qmode = 0 /\ cmd' = c
  BY WidthAssumption DEF RInv, IInv, TypeOK, GetCmd, Unused
<1>3. /\ Len(BitsBar) = n
      /\ Append(BitsBar, b) = [k \in 1 .. (n + 1) |-> c[n + 1 - k]]
  BY <1>1, <1>2, AppendBit
<1>4. n + 1 \in 0 .. CMD_BITS
  BY <1>2
<1>5. CASE n + 1 < CMD_BITS
  <2>1. cmd_bit_cnt' = n + 1 /\ state' = "get_cmd"
    BY <1>2, <1>4, <1>5, WidthAssumption, WrapValue DEF GetCmd
  <2>2. /\ PhaseBar' = "cmd" /\ QuadBar' = 0 /\ PosBar' = 0
        /\ BitsBar' = [k \in 1 .. cmd_bit_cnt' |-> cmd'[cmd_bit_cnt' - k]]
        /\ PtrBar' = Zero(ADDR_BITS) /\ ByteBar' = Zero(DATA_BITS)
    BY <2>1, BarsThen DEF Bars, NothingSent
  <2>3. BitsBar' = Append(BitsBar, b)
    BY <1>2, <1>3, <2>1, <2>2
  <2> QED BY <1>1, <1>3, <1>5, <2>2, <2>3 DEF Flash!CmdBit
<1>6. CASE n + 1 = CMD_BITS
  <2>1. /\ state' = Decode(c) /\ qmode' = IF c = CMD_QREAD THEN 1 ELSE 0
        /\ addr_cnt' = 0 /\ nout' = 0
    BY <1>2, <1>6 DEF GetCmd, RInv, IInv, TypeOK, Unused
  <2>2. WordOf(CMD_BITS, Append(BitsBar, b)) = c
    BY <1>1, <1>2, <1>6, LastBit
  <2>3. state' \in {"read_get_addr", "rdid", "bad_cmd_err"}
    BY <2>1 DEF Decode
  <2>4. /\ BitsBar' = << >> /\ QuadBar' = qmode' /\ PosBar' = 0
        /\ PtrBar' = Zero(ADDR_BITS) /\ ByteBar' = Zero(DATA_BITS)
    <3>1. [k \in 1 .. 0 |-> addr'[0 - k]] = << >>
      OBVIOUS
    <3> QED BY <2>1, <2>3, <3>1, BarsThen DEF Bars, NothingSent
  <2>5. PhaseBar' = Flash!PhaseOf(c)
    BY <2>1, <2>3, BarsThen DEF Bars, Decode, Flash!PhaseOf
  <2>6. ~(Len(BitsBar) + 1 < CMD_BITS)
    BY <1>2, <1>3, <1>6
  <2> QED BY <1>1, <2>1, <2>2, <2>4, <2>5, <2>6, SameWords DEF Flash!CmdBit
<1> QED BY <1>4, <1>5, <1>6, <1>2

(* An address bit; with the last one the answer begins.                      *)
LEMMA RiseAddr ==
  ASSUME RInv, NEW b \in Bit, ~Deselected, ~Deselected', rst' = 0, rst = 0, ReadGetAddr(b)
  PROVE  Flash!AddrBit(b)
<1> DEFINE n == addr_cnt
           a == ShiftIn(ADDR_BITS, b, addr)
<1>1. /\ PhaseBar = "addr" /\ BitsBar = [k \in 1 .. n |-> addr[n - k]]
      /\ QuadBar = qmode /\ PosBar = 0
      /\ PtrBar = Zero(ADDR_BITS) /\ ByteBar = Zero(DATA_BITS)
  BY BarsNow DEF Bars, NothingSent, ReadGetAddr
<1>2. /\ ADDR_BITS \in Nat /\ addr \in Word(ADDR_BITS) /\ n \in 0 .. (ADDR_BITS - 1)
      /\ state = "read_get_addr" /\ addr' = a /\ addr_cnt' = n + 1 /\ qmode' = qmode
  BY WidthAssumption DEF RInv, IInv, TypeOK, AddrCounts, ReadGetAddr, AddrNext
<1>3. /\ Len(BitsBar) = n
      /\ Append(BitsBar, b) = [k \in 1 .. (n + 1) |-> a[n + 1 - k]]
  BY <1>1, <1>2, AppendBit
<1>4. n + 1 \in 0 .. ADDR_BITS
  BY <1>2
<1>5. CASE n + 1 < ADDR_BITS
  <2>1. state' = "read_get_addr"
    BY <1>2, <1>5 DEF ReadGetAddr, LastAddrBit
  <2>2. /\ PhaseBar' = "addr" /\ QuadBar' = qmode' /\ PosBar' = 0
        /\ BitsBar' = [k \in 1 .. addr_cnt' |-> addr'[addr_cnt' - k]]
        /\ PtrBar' = Zero(ADDR_BITS) /\ ByteBar' = Zero(DATA_BITS)
    BY <2>1, BarsThen DEF Bars, NothingSent
  <2>3. BitsBar' = Append(BitsBar, b)
    BY <1>2, <1>3, <2>2
  <2> QED BY <1>1, <1>2, <1>3, <1>5, <2>2, <2>3 DEF Flash!AddrBit
<1>6. CASE n + 1 = ADDR_BITS
  <2>1. state' = "read_get_data" /\ dr_bit_cnt' = 0
    BY <1>2, <1>6 DEF ReadGetAddr, LastAddrBit, RInv, IInv, BitCounts
  <2>2. Shifted' = 0
    BY <2>1 DEF Shifted
  <2>3. /\ PhaseBar' = "data" /\ BitsBar' = << >> /\ QuadBar' = qmode' /\ PosBar' = 0
        /\ PtrBar' = addr' /\ ByteBar' = Zero(DATA_BITS)
    BY <2>1, <2>2, BarsThen DEF Bars
  <2>4. WordOf(ADDR_BITS, Append(BitsBar, b)) = a
    BY <1>1, <1>2, <1>6, LastBit
  <2>5. ~(Len(BitsBar) + 1 < ADDR_BITS)
    BY <1>2, <1>3, <1>6
  <2> QED BY <1>1, <1>2, <2>3, <2>4, <2>5, SameWords DEF Flash!AddrBit
<1> QED BY <1>4, <1>5, <1>6, <1>2

(* A clock of the answer, within a byte and at its end, in both modes.       *)
LEMMA RiseData ==
  ASSUME RInv, ~Deselected, ~Deselected', rst' = 0, rst = 0, ReadGetData
  PROVE  Flash!DataBit
<1>1. /\ PhaseBar = "data" /\ BitsBar = << >> /\ QuadBar = qmode /\ PosBar = Shifted
      /\ PtrBar = addr /\ ByteBar = IF Shifted # 0 THEN fetched ELSE Zero(DATA_BITS)
  BY BarsNow DEF Bars, ReadGetData
<1>2. /\ PhaseBar' = "data" /\ BitsBar' = << >> /\ QuadBar' = qmode /\ PosBar' = Shifted'
      /\ PtrBar' = addr'
      /\ ByteBar' = IF Shifted' # 0 THEN fetched' ELSE Zero(DATA_BITS)
  BY BarsThen DEF Bars, ReadGetData
<1>3. /\ qmode \in Bit /\ dr_bit_cnt \in 0 .. (DATA_BITS - 1) /\ qmode' = qmode
      /\ qmode = 1 => dr_bit_cnt \in {0, QUAD_STEP}
  BY DEF RInv, IInv, TypeOK, BitCounts, ReadGetData
<1>4. Flash!BitsPerByte = IF qmode = 1 THEN 2 ELSE DATA_BITS
  <2>1. DATA_BITS \div QUAD_STEP = 2
    BY WidthAssumption
  <2> QED BY <1>1, <2>1 DEF Flash!BitsPerByte
<1>5. LastBitOfByte <=> Shifted + 1 = Flash!BitsPerByte
  BY <1>3, <1>4, WidthAssumption DEF LastBitOfByte, Shifted, Bit
<1>6. CASE LastBitOfByte
  <2>1. dr_bit_cnt' = 0 /\ addr' = Inc(ADDR_BITS, addr)
    BY <1>6, NextBit DEF RInv, IInv, ReadGetData, AddrNext
  <2>2. Shifted' = 0
    BY <2>1 DEF Shifted
  <2> QED BY <1>1, <1>2, <1>5, <1>6, <2>1, <2>2, SameWords DEF Flash!DataBit
<1>7. CASE ~LastBitOfByte
  <2>1. Shifted' = Shifted + 1 /\ Shifted' # 0
    BY <1>3, <1>7, NextBit, WidthAssumption DEF RInv, IInv, Shifted, Bit
  <2>2. addr' = addr
    BY <1>7 DEF ReadGetData
  <2>3. CASE Shifted = 0
    <3>1. dr_bit_cnt = 0 /\ fetched' = mem[memadr] /\ fetched' \in Word(DATA_BITS)
      BY <1>3, <2>3, WidthAssumption
         DEF Shifted, ReadGetData, DatR, RInv, IInv, TypeOK, MemTypeOK, Bit
    <3>2. fresh => memadr = Low(MEM_BITS, addr)
      BY <3>1 DEF RInv, IInv, PortHoldsNextByte, ReadGetData
    <3>3. fetched' \in Flash!Fetched
      BY <1>1, <3>1, <3>2, SameWords DEF Flash!Fetched, RInv, IInv, TypeOK
    <3> QED BY <1>1, <1>2, <1>5, <1>7, <2>1, <2>2, <2>3, <3>3 DEF Flash!DataBit
  <2>4. CASE Shifted # 0
    <3>1. fetched' = fetched
      BY <2>4 DEF Shifted, ReadGetData
    <3> QED BY <1>1, <1>2, <1>5, <1>7, <2>1, <2>2, <2>4, <3>1 DEF Flash!DataBit
  <2> QED BY <2>3, <2>4
<1> QED BY <1>6, <1>7

(* A clock of the identification.                                            *)
LEMMA RiseId ==
  ASSUME RInv, ~Deselected, ~Deselected', rst' = 0, rst = 0, Rdid
  PROVE  Flash!IdBit
BY BarsNow, BarsThen DEF Bars, NothingSent, Rdid, Flash!IdBit

(* A clock after an unknown command.                                         *)
LEMMA RiseBad ==
  ASSUME RInv, ~Deselected, ~Deselected', rst' = 0, rst = 0, BadCmdErr
  PROVE  Flash!Ignored
BY BarsNow, BarsThen DEF Bars, NothingSent, BadCmdErr, fsmVars, Flash!Ignored

(* Every rising edge.                                                        *)
LEMMA StepRise == ASSUME RInv, NEW b \in Bit, SclkRise(b) PROVE Flash!Rise(b)
<1>1. /\ sclk = 0 /\ sclk' = 1 /\ fresh' = (sel = 0)
      /\ UNCHANGED <<csn, rstn, mem, sel, rst_inv, outVars>> /\ rst' = Released
  BY DEF SclkRise, SpiClock
<1>2. So' = So
  BY <1>1 DEF So, outVars
<1>3. Deselected' <=> Deselected
  BY <1>1 DEF Deselected
<1>4. RiseMaps(b)
  <2>1. CASE Deselected
    <3>1. Flash!Ignored
      BY <1>3, <2>1, BarsNow, BarsThen DEF Bars, NothingSent, Flash!Ignored
    <3> QED BY <3>1 DEF RiseMaps
  <2>2. CASE ~Deselected
    <3>1. rst' = 0 /\ ~Deselected'
      BY <1>1, <1>3, <2>2 DEF Released
    <3>2. CASE rst = 1 /\ SpiReset(b)
      BY <2>2, <3>1, <3>2, RiseReset DEF RiseMaps
    <3>3. CASE rst = 0 /\ GetCmd(b)
      BY <2>2, <3>1, <3>3, RiseCmd DEF RiseMaps
    <3>4. CASE rst = 0 /\ ReadGetAddr(b)
      BY <2>2, <3>1, <3>4, RiseAddr DEF RiseMaps
    <3>5. CASE rst = 0 /\ ReadGetData
      BY <2>2, <3>1, <3>5, RiseData DEF RiseMaps
    <3>6. CASE rst = 0 /\ Rdid
      BY <2>2, <3>1, <3>6, RiseId DEF RiseMaps
    <3>7. CASE rst = 0 /\ BadCmdErr
      BY <2>2, <3>1, <3>7, RiseBad DEF RiseMaps
    <3> QED BY <3>2, <3>3, <3>4, <3>5, <3>6, <3>7 DEF SclkRise
  <2> QED BY <2>1, <2>2
<1> QED BY <1>1, <1>2, <1>4 DEF Flash!Rise, RiseMaps

-----------------------------------------------------------------------------
(* Every step of FlashEmu is a step of SerialFlash or shows nothing.         *)
LEMMA StepRefines == ASSUME RInv, [Next]_vars PROVE [Flash!Next]_(Flash!vars)
<1>1. ASSUME NEW c \in Bit, NEW r \in Bit, SetPins(c, r)
      PROVE  [Flash!Next]_(Flash!vars)
  BY <1>1, StepPins DEF Flash!Next
<1>2. ASSUME NEW b \in Bit, SclkRise(b) PROVE [Flash!Next]_(Flash!vars)
  BY <1>2, StepRise, SameWords DEF Flash!Next
<1>3. CASE SclkFall
  BY <1>3, StepFall DEF Flash!Next
<1>4. CASE Loader
  BY <1>4, StepLoader DEF Flash!Next
<1>5. CASE UNCHANGED vars
  <2>1. SameBars
    BY <1>5, FsmKept DEF vars, pinVars, histVars
  <2>2. So' = So
    BY <1>5 DEF vars, outVars, So
  <2> QED BY <1>5, <2>1, <2>2 DEF vars, pinVars, histVars, memVars, SameBars, Flash!vars
<1> QED BY <1>1, <1>2, <1>3, <1>4, <1>5 DEF Next, SetCsn, SetRstn, Rise, RInv, IInv, TypeOK

(* Whatever the widths, the commands, the identification word and the        *)
(* contents, what FlashEmu (emu.py:42-266) shows on its pins is a            *)
(* SerialFlash: the reset values taken at the first edge hide all the        *)
(* interrupted transaction left, and every later step is one of SerialFlash  *)
(* or shows nothing.                                                         *)
THEOREM Refinement == Spec => ImplementsSerialFlash
<1>1. RInv /\ [Next]_vars => [Flash!Next]_(Flash!vars)
  BY StepRefines
<1> QED BY InitRefines, RInvariance, <1>1, PTL DEF Spec, ImplementsSerialFlash, Flash!Spec

-----------------------------------------------------------------------------
(* Counting addresses.                                                       *)

(* Every set of numbers has a least one.                                     *)
LEMMA Least ==
  ASSUME NEW S, S \subseteq Nat, S # {} PROVE \E x \in S : \A y \in S : x <= y
<1> DEFINE R == {ss \in Nat \X Nat : ss[1] < ss[2]}
<1>1. IsWellFoundedOn(R, Nat)
  BY NatLessThanWellFounded DEF OpToRel
<1>2. PICK x \in S : \A y \in S : <<y, x>> \notin R
  <2> HIDE DEF R
  <2> QED BY <1>1, WFMin
<1>3. ASSUME NEW y \in S PROVE x <= y
  <2>1. x \in Nat /\ y \in Nat
    OBVIOUS
  <2>2. ~(y < x)
    BY <2>1, <1>2
  <2> QED BY <2>1, <2>2
<1> QED BY <1>3

(* f counts up from a for k steps.                                           *)
CountsUp(n, a, k, f) ==
  f = [j \in 0 .. k |-> IF j = 0 THEN a ELSE Inc(n, f[j - 1])]

LEMMA CountingExists ==
  ASSUME NEW n, NEW a, NEW k \in Nat PROVE \E f : CountsUp(n, a, k, f)
<1> DEFINE S == {i \in Nat : ~ \E f : CountsUp(n, a, i, f)}
<1> SUFFICES ASSUME S # {} PROVE FALSE
  OBVIOUS
<1>1. PICK x \in S : \A y \in S : x <= y
  <2>1. S \subseteq Nat
    OBVIOUS
  <2> HIDE DEF S
  <2> QED BY <2>1, Least
<1>2. CASE x = 0
  <2> DEFINE f == [j \in 0 .. 0 |-> a]
  <2>1. CountsUp(n, a, 0, f)
    <3>1. f = [j \in 0 .. 0 |-> IF j = 0 THEN a ELSE Inc(n, f[j - 1])]
      OBVIOUS
    <3> QED BY <3>1 DEF CountsUp
  <2> QED BY <1>2, <2>1
<1>3. CASE x # 0
  <2>1. x - 1 \in Nat /\ x \in Nat /\ x - 1 \notin S
    BY <1>1, <1>3
  <2>2. PICK f : CountsUp(n, a, x - 1, f)
    BY <2>1
  <2> DEFINE g == [j \in 0 .. x |-> IF j = x THEN Inc(n, f[x - 1]) ELSE f[j]]
  <2>3. ASSUME NEW j \in 0 .. x
        PROVE  g[j] = IF j = 0 THEN a ELSE Inc(n, g[j - 1])
    <3>1. CASE j = x
      <4>1. x - 1 \in 0 .. x /\ x - 1 # x
        BY <2>1
      <4> QED BY <1>3, <3>1, <4>1
    <3>2. CASE j # x
      <4>1. j \in 0 .. (x - 1) /\ (j # 0 => j - 1 \in 0 .. x /\ j - 1 # x)
        BY <2>1, <3>2
      <4>2. f[j] = IF j = 0 THEN a ELSE Inc(n, f[j - 1])
        BY <2>2, <4>1 DEF CountsUp
      <4> QED BY <3>2, <4>1, <4>2
    <3> QED BY <3>1, <3>2
  <2>4. g = [j \in 0 .. x |-> g[j]]
    OBVIOUS
  <2> HIDE DEF g
  <2>5. g = [j \in 0 .. x |-> IF j = 0 THEN a ELSE Inc(n, g[j - 1])]
    BY <2>3, <2>4
  <2> QED BY <2>5 DEF CountsUp
<1> QED BY <1>2, <1>3

(* Two counts agree as far as both go.                                       *)
LEMMA CountsAgree ==
  ASSUME NEW n, NEW a, NEW k \in Nat, NEW l \in Nat, k <= l,
         NEW f, NEW g, CountsUp(n, a, k, f), CountsUp(n, a, l, g)
  PROVE  f[k] = g[k]
<1> DEFINE S == {i \in 0 .. k : f[i] # g[i]}
<1>0. /\ \A j \in 0 .. k : f[j] = IF j = 0 THEN a ELSE Inc(n, f[j - 1])
      /\ \A j \in 0 .. k : g[j] = IF j = 0 THEN a ELSE Inc(n, g[j - 1])
  <2>1. \A j \in 0 .. k : j \in 0 .. l
    OBVIOUS
  <2> QED BY <2>1 DEF CountsUp
<1> SUFFICES ASSUME S # {} PROVE FALSE
  OBVIOUS
<1>1. PICK x \in S : \A y \in S : x <= y
  <2>1. S \subseteq Nat
    OBVIOUS
  <2> HIDE DEF S
  <2> QED BY <2>1, Least
<1>2. x # 0
  BY <1>0
<1>3. x - 1 \in 0 .. k /\ x - 1 \notin S
  BY <1>1, <1>2
<1> QED BY <1>0, <1>2, <1>3

LEMMA PlusCounts ==
  ASSUME NEW n, NEW a, NEW k \in Nat
  PROVE  \E f : CountsUp(n, a, k, f) /\ Plus(n, a, k) = f[k]
<1> DEFINE Is(f) == f = [j \in 0 .. k |-> IF j = 0 THEN a ELSE Inc(n, f[j - 1])]
           next == CHOOSE f : Is(f)
<1>1. PICK f : CountsUp(n, a, k, f)
  BY CountingExists
<1>2. Is(f)
  BY <1>1 DEF CountsUp
<1>3. Is(next)
  <2> HIDE DEF Is
  <2> QED BY <1>2
<1>4. Plus(n, a, k) = next[k]
  BY DEF Plus
<1> QED BY <1>3, <1>4 DEF CountsUp

(* Plus counts.                                                              *)
LEMMA PlusZero == ASSUME NEW n, NEW a PROVE Plus(n, a, 0) = a
<1>1. PICK f : CountsUp(n, a, 0, f) /\ Plus(n, a, 0) = f[0]
  BY PlusCounts
<1> QED BY <1>1 DEF CountsUp

LEMMA PlusNext ==
  ASSUME NEW n, NEW a, NEW k \in Nat PROVE Plus(n, a, k + 1) = Inc(n, Plus(n, a, k))
<1>1. PICK f : CountsUp(n, a, k, f) /\ Plus(n, a, k) = f[k]
  BY PlusCounts
<1>2. PICK g : CountsUp(n, a, k + 1, g) /\ Plus(n, a, k + 1) = g[k + 1]
  BY PlusCounts
<1>3. f[k] = g[k]
  BY <1>1, <1>2, CountsAgree
<1>4. g[k + 1] = Inc(n, g[k])
  BY <1>2 DEF CountsUp
<1> QED BY <1>1, <1>2, <1>3, <1>4

LEMMA PlusType ==
  ASSUME NEW n \in Nat, NEW a \in Word(n), NEW k \in Nat PROVE Plus(n, a, k) \in Word(n)
<1> DEFINE S == {i \in Nat : Plus(n, a, i) \notin Word(n)}
<1> SUFFICES ASSUME S # {} PROVE FALSE
  OBVIOUS
<1>1. PICK x \in S : \A y \in S : x <= y
  <2>1. S \subseteq Nat
    OBVIOUS
  <2> HIDE DEF S
  <2> QED BY <2>1, Least
<1>2. x # 0
  BY PlusZero
<1>3. PICK y \in Nat : x = y + 1 /\ y \notin S
  <2>1. x - 1 \in Nat /\ x - 1 \notin S /\ x = (x - 1) + 1
    BY <1>1, <1>2
  <2> QED BY <2>1
<1>4. Plus(n, a, x) = Inc(n, Plus(n, a, y))
  BY <1>3, PlusNext
<1> QED BY <1>3, <1>4, IncType

-----------------------------------------------------------------------------
(* What the emulator makes of a host's bits: f[1], f[2] and so on are the    *)
(* bits since it was selected, m how many it has taken.                      *)
CommandIn(f) == WordOf(CMD_BITS, f)
AddressIn(f) == [i \in 0 .. (ADDR_BITS - 1) |-> f[CMD_BITS + ADDR_BITS - i]]

IsRead(f) == CommandIn(f) \in {CMD_READ, CMD_QREAD}

(* The answer is at its clock i, in the byte k after the address a.          *)
Answering(a, i) ==
  \E k \in Nat : /\ i = k * (IF QuadBar = 1 THEN 2 ELSE DATA_BITS) + PosBar
                 /\ PtrBar = Plus(ADDR_BITS, a, k)

Heard(f, m) ==
  /\ m < CMD_BITS => PhaseBar = "cmd" /\ BitsBar = [k \in 1 .. m |-> f[k]]
  /\ m >= CMD_BITS =>
       /\ CommandIn(f) = CMD_RDID => PhaseBar = "id" /\ PosBar = (m - CMD_BITS) % ID_BITS
       /\ CommandIn(f) # CMD_RDID /\ ~IsRead(f) => PhaseBar = "mute"
       /\ IsRead(f) => QuadBar = IF CommandIn(f) = CMD_QREAD THEN 1 ELSE 0
       /\ IsRead(f) /\ m < CMD_BITS + ADDR_BITS =>
            PhaseBar = "addr" /\ BitsBar = [k \in 1 .. (m - CMD_BITS) |-> f[CMD_BITS + k]]
       /\ IsRead(f) /\ m >= CMD_BITS + ADDR_BITS =>
            PhaseBar = "data" /\ Answering(AddressIn(f), m - CMD_BITS - ADDR_BITS)

(* The bits that matter are those of the command and of a read's address.    *)
Matters(f, m) == m < CMD_BITS \/ (IsRead(f) /\ m < CMD_BITS + ADDR_BITS)

LEMMA HeardKept == ASSUME NEW f, NEW m, SameBars, Heard(f, m) PROVE Heard(f, m)'
BY DEF SameBars, Heard, Answering

LEMMA NothingHeard == ASSUME NEW f, ~Deselected, rst = 1 PROVE Heard(f, 0)
<1>1. PhaseBar = "cmd" /\ BitsBar = << >>
  BY BarsNow DEF Bars
<1>2. [k \in 1 .. 0 |-> f[k]] = << >>
  OBVIOUS
<1> QED BY <1>1, <1>2, WidthAssumption DEF Heard

LEMMA BitsType == ASSUME RInv PROVE BitsBar \in Seq(Bit)
<1>1. /\ cmd_bit_cnt \in 0 .. CMD_BITS /\ addr_cnt \in 0 .. ADDR_BITS
      /\ cmd \in Word(CMD_BITS) /\ addr \in Word(ADDR_BITS)
      /\ CMD_BITS \in Nat /\ ADDR_BITS \in Nat
  BY WidthAssumption DEF RInv, IInv, TypeOK
<1>2. [k \in 1 .. cmd_bit_cnt |-> cmd[cmd_bit_cnt - k]] \in Seq(Bit)
  BY <1>1 DEF Word
<1>3. [k \in 1 .. addr_cnt |-> addr[addr_cnt - k]] \in Seq(Bit)
  BY <1>1 DEF Word
<1> QED BY <1>2, <1>3 DEF BitsBar

LEMMA OneMore ==
  ASSUME NEW n \in Nat, NEW g, NEW b \in Bit, NEW t \in Seq(Bit),
         t = [k \in 1 .. n |-> g[k]], g[n + 1] = b
  PROVE  Len(t) = n /\ Append(t, b) = [k \in 1 .. (n + 1) |-> g[k]]
<1>1. Len(t) = n
  OBVIOUS
<1>2. /\ Append(t, b) \in Seq(Bit) /\ Len(Append(t, b)) = n + 1
      /\ \A k \in 1 .. n : Append(t, b)[k] = t[k]
      /\ Append(t, b)[n + 1] = b
  BY <1>1
<1>3. ASSUME NEW k \in 1 .. (n + 1) PROVE Append(t, b)[k] = g[k]
  BY <1>2
<1>4. Append(t, b) = [k \in 1 .. (n + 1) |-> Append(t, b)[k]]
  BY <1>2
<1> QED BY <1>1, <1>3, <1>4

(* A rising edge takes the next bit.                                         *)
LEMMA CommandHeard ==
  ASSUME RInv, NEW b \in Bit, SclkRise(b), NEW f, NEW m \in Nat, Heard(f, m),
         m < CMD_BITS, f[m + 1] = b
  PROVE  Heard(f, m + 1)'
<1>0. CMD_BITS \in Nat \ {0} /\ ADDR_BITS \in Nat \ {0} /\ ID_BITS \in Nat \ {0}
  BY WidthAssumption
<1>1. PhaseBar = "cmd" /\ BitsBar = [k \in 1 .. m |-> f[k]]
  BY DEF Heard
<1>2. Flash!CmdBit(b) /\ PosBar = 0
  <2>1. Flash!Rise(b)
    BY StepRise
  <2>2. PosBar = 0
    BY <1>1 DEF PosBar
  <2> QED BY <1>1, <2>1, <2>2 DEF Flash!Rise, Flash!CmdBit, Flash!AddrBit, Flash!DataBit, Flash!IdBit,
                             Flash!Ignored
<1>3. Len(BitsBar) = m /\ Append(BitsBar, b) = [k \in 1 .. (m + 1) |-> f[k]]
  BY <1>1, BitsType, OneMore
<1>4. CASE m + 1 < CMD_BITS
  <2>1. PhaseBar' = "cmd" /\ BitsBar' = [k \in 1 .. (m + 1) |-> f[k]]
    BY <1>1, <1>2, <1>3, <1>4 DEF Flash!CmdBit
  <2> QED BY <1>0, <1>4, <2>1 DEF Heard
<1>5. CASE m + 1 = CMD_BITS
  <2>1. WordOf(CMD_BITS, Append(BitsBar, b)) = CommandIn(f)
    <3>1. \A i \in 0 .. (CMD_BITS - 1) : CMD_BITS - i \in 1 .. (m + 1)
      BY <1>0, <1>5
    <3>2. \A i \in 0 .. (CMD_BITS - 1) :
            [k \in 1 .. (m + 1) |-> f[k]][CMD_BITS - i] = f[CMD_BITS - i]
      BY <3>1
    <3> QED BY <1>3, <3>2 DEF WordOf, CommandIn
  <2>2. /\ BitsBar' = << >> /\ PosBar' = 0
        /\ PhaseBar' = Flash!PhaseOf(CommandIn(f))
        /\ QuadBar' = IF CommandIn(f) = CMD_QREAD THEN 1 ELSE 0
    BY <1>0, <1>2, <1>3, <1>5, <2>1, SameWords DEF Flash!CmdBit
  <2>3. [k \in 1 .. 0 |-> f[CMD_BITS + k]] = << >> /\ 0 % ID_BITS = 0
    BY <1>0
  <2>4. m + 1 >= CMD_BITS /\ (m + 1) - CMD_BITS = 0 /\ m + 1 < CMD_BITS + ADDR_BITS
    BY <1>0, <1>5
  <2>5. /\ CommandIn(f) = CMD_RDID => PhaseBar' = "id"
        /\ CommandIn(f) # CMD_RDID /\ ~IsRead(f) => PhaseBar' = "mute"
        /\ IsRead(f) => PhaseBar' = "addr"
    BY <2>2, CommandAssumption DEF IsRead, Flash!PhaseOf
  <2>6. /\ BitsBar' = [k \in 1 .. ((m + 1) - CMD_BITS) |-> f[CMD_BITS + k]]
        /\ PosBar' = ((m + 1) - CMD_BITS) % ID_BITS
    BY <2>2, <2>3, <2>4
  <2>7. ~(m + 1 < CMD_BITS) /\ ~(m + 1 >= CMD_BITS + ADDR_BITS)
    BY <1>0, <1>5
  <2> QED BY <2>2, <2>4, <2>5, <2>6, <2>7 DEF Heard
<1> QED BY <1>0, <1>4, <1>5

LEMMA AddressHeard ==
  ASSUME RInv, NEW b \in Bit, SclkRise(b), NEW f, NEW m \in Nat, Heard(f, m),
         m >= CMD_BITS, IsRead(f), m < CMD_BITS + ADDR_BITS, f[m + 1] = b
  PROVE  Heard(f, m + 1)'
<1> DEFINE n == m - CMD_BITS
           g == [k \in 1 .. ADDR_BITS |-> f[CMD_BITS + k]]
<1>0. /\ CMD_BITS \in Nat \ {0} /\ ADDR_BITS \in Nat \ {0} /\ n \in 0 .. (ADDR_BITS - 1)
      /\ DATA_BITS \in Nat
  BY WidthAssumption
<1>1. /\ PhaseBar = "addr" /\ BitsBar = [k \in 1 .. n |-> g[k]]
      /\ QuadBar = IF CommandIn(f) = CMD_QREAD THEN 1 ELSE 0
  <2>1. \A k \in 1 .. n : g[k] = f[CMD_BITS + k]
    BY <1>0
  <2>2. PhaseBar = "addr" /\ BitsBar = [k \in 1 .. n |-> f[CMD_BITS + k]]
        /\ QuadBar = IF CommandIn(f) = CMD_QREAD THEN 1 ELSE 0
    BY DEF Heard
  <2> HIDE DEF n, g
  <2> QED BY <2>1, <2>2
<1>2. Flash!AddrBit(b) /\ PosBar = 0
  <2>1. Flash!Rise(b)
    BY StepRise
  <2>2. PosBar = 0
    BY <1>1 DEF PosBar
  <2> QED BY <1>1, <2>1, <2>2 DEF Flash!Rise, Flash!CmdBit, Flash!AddrBit, Flash!DataBit, Flash!IdBit,
                             Flash!Ignored
<1>3. g[n + 1] = b
  <2>1. n + 1 \in 1 .. ADDR_BITS /\ CMD_BITS + (n + 1) = m + 1
    BY <1>0
  <2> QED BY <2>1
<1> HIDE DEF g
<1>4. Len(BitsBar) = n /\ Append(BitsBar, b) = [k \in 1 .. (n + 1) |-> g[k]]
  <2> HIDE DEF n
  <2> QED BY <1>0, <1>1, <1>3, BitsType, OneMore
<1>5. CASE n + 1 < ADDR_BITS
  <2>1. PhaseBar' = "addr" /\ BitsBar' = [k \in 1 .. (n + 1) |-> g[k]] /\ QuadBar' = QuadBar
    BY <1>1, <1>2, <1>4, <1>5 DEF Flash!AddrBit
  <2>2. BitsBar' = [k \in 1 .. (n + 1) |-> f[CMD_BITS + k]]
    BY <1>0, <1>5, <2>1 DEF g
  <2>3. (m + 1) - CMD_BITS = n + 1 /\ m + 1 >= CMD_BITS /\ m + 1 < CMD_BITS + ADDR_BITS
        /\ ~(m + 1 < CMD_BITS) /\ ~(m + 1 >= CMD_BITS + ADDR_BITS)
    BY <1>0, <1>5
  <2>4. BitsBar' = [k \in 1 .. ((m + 1) - CMD_BITS) |-> f[CMD_BITS + k]]
    BY <2>2, <2>3
  <2>5. CommandIn(f) # CMD_RDID
    BY CommandAssumption DEF IsRead
  <2> HIDE DEF n
  <2> QED BY <1>1, <2>1, <2>3, <2>4, <2>5 DEF Heard
<1>6. CASE n + 1 = ADDR_BITS
  <2>1. WordOf(ADDR_BITS, Append(BitsBar, b)) = AddressIn(f)
    <3>1. ASSUME NEW i \in 0 .. (ADDR_BITS - 1)
          PROVE  [k \in 1 .. (n + 1) |-> g[k]][ADDR_BITS - i] = f[CMD_BITS + ADDR_BITS - i]
      <4>1. ADDR_BITS - i \in 1 .. (n + 1) /\ ADDR_BITS - i \in 1 .. ADDR_BITS
            /\ CMD_BITS + (ADDR_BITS - i) = CMD_BITS + ADDR_BITS - i
        BY <1>0, <1>6
      <4> QED BY <4>1 DEF g
    <3> QED BY <1>4, <3>1 DEF WordOf, AddressIn
  <2>2. /\ PhaseBar' = "data" /\ PtrBar' = AddressIn(f) /\ PosBar' = 0 /\ QuadBar' = QuadBar
    BY <1>0, <1>2, <1>4, <1>6, <2>1, SameWords DEF Flash!AddrBit
  <2>3. (m + 1) - CMD_BITS - ADDR_BITS = 0 /\ m + 1 >= CMD_BITS + ADDR_BITS
        /\ m + 1 >= CMD_BITS /\ ~(m + 1 < CMD_BITS) /\ ~(m + 1 < CMD_BITS + ADDR_BITS)
    BY <1>0, <1>6
  <2>4. Answering(AddressIn(f), 0)'
    <3>1. 0 = 0 * (IF QuadBar' = 1 THEN 2 ELSE DATA_BITS) + 0
      BY <1>0
    <3> QED BY <2>2, <3>1, PlusZero DEF Answering
  <2>5. Answering(AddressIn(f), (m + 1) - CMD_BITS - ADDR_BITS)'
    BY <2>3, <2>4
  <2>6. CommandIn(f) # CMD_RDID
    BY CommandAssumption DEF IsRead
  <2> QED BY <1>1, <2>2, <2>3, <2>5, <2>6 DEF Heard
<1> QED BY <1>0, <1>5, <1>6

LEMMA AnswerHeard ==
  ASSUME RInv, NEW b \in Bit, SclkRise(b), NEW f, NEW m \in Nat, Heard(f, m),
         ~Matters(f, m)
  PROVE  Heard(f, m + 1)'
<1>0. /\ CMD_BITS \in Nat \ {0} /\ ADDR_BITS \in Nat \ {0} /\ ID_BITS \in Nat \ {0}
      /\ DATA_BITS \in Nat /\ m >= CMD_BITS /\ m + 1 >= CMD_BITS
  BY WidthAssumption DEF Matters
<1>1. Flash!Rise(b)
  BY StepRise
<1>2. CASE CommandIn(f) = CMD_RDID
  <2>1. PhaseBar = "id" /\ PosBar = (m - CMD_BITS) % ID_BITS
    BY <1>0, <1>2 DEF Heard
  <2>2. PhaseBar' = "id" /\ PosBar' = (PosBar + 1) % ID_BITS
    BY <1>1, <2>1 DEF Flash!Rise, Flash!CmdBit, Flash!AddrBit, Flash!DataBit, Flash!IdBit,
                      Flash!Ignored
  <2>3. (((m - CMD_BITS) % ID_BITS) + 1) % ID_BITS = ((m + 1) - CMD_BITS) % ID_BITS
    <3>1. m - CMD_BITS \in Nat /\ (m - CMD_BITS) + 1 = (m + 1) - CMD_BITS
      BY <1>0
    <3> HIDE DEF Heard
    <3> QED BY <1>0, <3>1, WrapAgain
  <2> QED BY <1>0, <1>2, <2>1, <2>2, <2>3, CommandAssumption DEF Heard, IsRead
<1>3. CASE CommandIn(f) # CMD_RDID /\ ~IsRead(f)
  <2>1. PhaseBar = "mute"
    BY <1>0, <1>3 DEF Heard
  <2>2. PhaseBar' = "mute"
    BY <1>1, <2>1 DEF Flash!Rise, Flash!CmdBit, Flash!AddrBit, Flash!DataBit, Flash!IdBit,
                      Flash!Ignored
  <2> QED BY <1>0, <1>3, <2>2 DEF Heard
<1>4. CASE IsRead(f)
  <2> DEFINE i == m - CMD_BITS - ADDR_BITS
             a == AddressIn(f)
             d == IF QuadBar = 1 THEN 2 ELSE DATA_BITS
  <2>1. /\ PhaseBar = "data" /\ Answering(a, i) /\ i \in Nat
        /\ QuadBar = IF CommandIn(f) = CMD_QREAD THEN 1 ELSE 0
    BY <1>0, <1>4 DEF Heard, Matters
  <2>2. Flash!DataBit
    BY <1>1, <2>1 DEF Flash!Rise, Flash!CmdBit, Flash!AddrBit, Flash!DataBit, Flash!IdBit,
                      Flash!Ignored
  <2>3. PICK k \in Nat : i = k * d + PosBar /\ PtrBar = Plus(ADDR_BITS, a, k)
    BY <2>1 DEF Answering
  <2>4. PhaseBar' = "data" /\ QuadBar' = QuadBar /\ PosBar \in Nat
    BY <2>1, <2>2, BarsNow DEF Flash!DataBit, PosBar, Shifted, RInv, IInv, TypeOK
  <2>5. Flash!BitsPerByte = d /\ d \in Nat
    <3>1. DATA_BITS \div QUAD_STEP = 2
      BY WidthAssumption
    <3> QED BY <1>0, <3>1 DEF Flash!BitsPerByte
  <2>6. Answering(a, i + 1)'
    <3>1. CASE PosBar + 1 = d
      <4>1. PosBar' = 0 /\ PtrBar' = Plus(ADDR_BITS, a, k + 1)
        BY <2>2, <2>3, <2>5, <3>1, SameWords, PlusNext DEF Flash!DataBit
      <4>2. i + 1 = (k + 1) * d + 0
        <5> HIDE DEF d, i
        <5>1. (k + 1) * d = k * d + d
          BY <2>5
        <5> QED BY <2>1, <2>3, <2>4, <2>5, <3>1, <5>1
      <4> QED BY <2>4, <4>1, <4>2 DEF Answering
    <3>2. CASE PosBar + 1 # d
      <4>1. PosBar' = PosBar + 1 /\ PtrBar' = PtrBar
        BY <2>2, <2>5, <3>2 DEF Flash!DataBit
      <4>2. i + 1 = k * d + (PosBar + 1)
        <5> HIDE DEF d, i
        <5>1. k * d \in Nat
          BY <2>5
        <5> QED BY <2>1, <2>3, <2>4, <5>1
      <4> QED BY <2>3, <2>4, <4>1, <4>2 DEF Answering
    <3> QED BY <3>1, <3>2
  <2>7. /\ (m + 1) - CMD_BITS - ADDR_BITS = i + 1 /\ m + 1 >= CMD_BITS + ADDR_BITS
    BY <1>0, <2>1
  <2> QED BY <1>0, <1>4, <2>1, <2>4, <2>6, <2>7, CommandAssumption DEF Heard, IsRead
<1> QED BY <1>2, <1>3, <1>4

LEMMA HeardRise ==
  ASSUME RInv, NEW b \in Bit, SclkRise(b), NEW f, NEW m \in Nat, Heard(f, m),
         Matters(f, m) => f[m + 1] = b
  PROVE  Heard(f, m + 1)'
BY WidthAssumption, CommandHeard, AddressHeard, AnswerHeard DEF Matters

(* A falling edge leaves what was heard, and puts the answer on the pin.     *)
LEMMA FallKeeps ==
  ASSUME RInv, SclkFall
  PROVE  SameBars /\ So' \in Flash!Answer /\ UNCHANGED <<fresh, mem, sel, csn, rstn, rst>>
<1>1. /\ UNCHANGED <<fresh, mem, sel, csn, rstn, rst, state, qmode, nout, cmd, cmd_bit_cnt,
                      addr, addr_cnt, dr_bit_cnt, fetched>>
  BY DEF SclkFall, histVars, memVars, fsmVars
<1>2. SameBars
  BY <1>1, FsmKept DEF SclkFall, histVars
<1> QED BY <1>1, <1>2, StepFall DEF Flash!Fall

LEMMA FallSilent ==
  ASSUME RInv, SclkFall, PhaseBar \notin {"data", "id"} PROVE So' = HiZ
BY FallKeeps, SameWords DEF Flash!Answer

LEMMA FallId ==
  ASSUME RInv, SclkFall, PhaseBar = "id" PROVE So' = IDCODE[ID_BITS - 1 - PosBar]
BY FallKeeps DEF Flash!Answer

(* The byte being answered is the memory's.                                  *)
Genuine ==
  PhaseBar = "data" => /\ fresh
                       /\ PosBar # 0 => ByteBar = mem[Low(MEM_BITS, PtrBar)]

LEMMA RiseGenuine ==
  ASSUME RInv, NEW b \in Bit, SclkRise(b), sel = 0, Genuine PROVE Genuine'
<1>1. Flash!Rise(b)
  BY StepRise
<1>2. fresh' /\ mem' = mem
  BY DEF SclkRise, SpiClock
<1>3. SUFFICES ASSUME PhaseBar' = "data", PosBar' # 0
      PROVE  ByteBar' = mem[Low(MEM_BITS, PtrBar')]
  BY <1>2 DEF Genuine
<1>4. PhaseBar = "data" /\ Flash!DataBit
  <2>1. PhaseBar # "data" => PosBar' = 0 \/ PhaseBar' # "data"
    BY <1>1 DEF Flash!Rise, Flash!CmdBit, Flash!AddrBit, Flash!DataBit, Flash!IdBit,
                Flash!Ignored, Flash!PhaseOf, PosBar
  <2> QED BY <1>1, <1>3, <2>1 DEF Flash!Rise, Flash!CmdBit, Flash!AddrBit, Flash!IdBit,
                                  Flash!Ignored
<1>5. /\ PtrBar' = PtrBar
      /\ IF PosBar = 0 THEN ByteBar' \in Flash!Fetched ELSE ByteBar' = ByteBar
  BY <1>3, <1>4 DEF Flash!DataBit
<1> QED BY <1>2, <1>4, <1>5, SameWords DEF Genuine, Flash!Fetched

LEMMA FallGenuine == ASSUME RInv, SclkFall, Genuine PROVE Genuine'
BY FallKeeps DEF SameBars, Genuine

LEMMA FallData ==
  ASSUME RInv, SclkFall, PhaseBar = "data", Genuine
  PROVE  So' = mem[Low(MEM_BITS, PtrBar)][DATA_BITS - 1 - PosBar]
<1>1. Flash!Fetched = {mem[Low(MEM_BITS, PtrBar)]}
  BY SameWords DEF Genuine, Flash!Fetched
<1>2. So' \in Flash!Answer
  BY FallKeeps
<1>3. CASE PosBar = 0
  BY <1>1, <1>2, <1>3, WidthAssumption DEF Flash!Answer
<1>4. CASE PosBar # 0
  BY <1>2, <1>4 DEF Flash!Answer, Genuine
<1> QED BY <1>3, <1>4

(* The bit that clock i of a read from the address a is answered with.       *)
BitRead(a, i) ==
  mem[Low(MEM_BITS, Plus(ADDR_BITS, a, i \div DATA_BITS))][DATA_BITS - 1 - (i % DATA_BITS)]

(* What the answers are, in terms of what the host sent.                     *)
LEMMA Silent ==
  ASSUME RInv, SclkFall, NEW f, NEW m \in Nat, Heard(f, m),
         Matters(f, m) \/ (CommandIn(f) # CMD_RDID /\ ~IsRead(f))
  PROVE  So' = HiZ
<1>1. PhaseBar \in {"cmd", "addr", "mute"}
  BY WidthAssumption DEF Heard, Matters
<1> QED BY <1>1, FallSilent

LEMMA AnswersId ==
  ASSUME RInv, SclkFall, NEW f, NEW m \in Nat, Heard(f, m),
         m >= CMD_BITS, CommandIn(f) = CMD_RDID
  PROVE  So' = IDCODE[ID_BITS - 1 - ((m - CMD_BITS) % ID_BITS)]
BY FallId DEF Heard

LEMMA AnswersRead ==
  ASSUME RInv, SclkFall, Genuine, NEW f, NEW m \in Nat, Heard(f, m),
         m >= CMD_BITS + ADDR_BITS, CommandIn(f) = CMD_READ
  PROVE  So' = BitRead(AddressIn(f), m - CMD_BITS - ADDR_BITS)
<1> DEFINE i == m - CMD_BITS - ADDR_BITS
           a == AddressIn(f)
<1>0. /\ CMD_BITS \in Nat /\ ADDR_BITS \in Nat /\ i \in Nat /\ m >= CMD_BITS
      /\ DATA_BITS \in Nat \ {0}
  BY WidthAssumption
<1>1. PhaseBar = "data" /\ Answering(a, i) /\ QuadBar = 0
  BY <1>0, CommandAssumption DEF Heard, IsRead
<1>2. PosBar \in 0 .. (DATA_BITS - 1)
  BY <1>1 DEF PosBar, QuadBar, Shifted, RInv, IInv, TypeOK
<1> HIDE DEF i
<1>3. PICK k \in Nat : i = k * DATA_BITS + PosBar /\ PtrBar = Plus(ADDR_BITS, a, k)
  BY <1>1 DEF Answering
<1>4. i \div DATA_BITS = k /\ i % DATA_BITS = PosBar
  BY <1>0, <1>2, <1>3, Quotient
<1> QED BY <1>1, <1>3, <1>4, FallData DEF BitRead, i

(* A rising edge keeps the pin, and the loader does too.                     *)
LEMMA RiseKeeps ==
  ASSUME NEW b, SclkRise(b)
  PROVE  So' = So /\ UNCHANGED <<csn, rstn, mem, sel>> /\ sclk = 0 /\ sclk' = 1
BY DEF SclkRise, SpiClock, So, outVars

LEMMA LoaderKeeps == ASSUME Loader PROVE SameBars /\ So' = So
<1>1. SameBars
  BY FsmKept DEF Loader, LoaderSelect, LoaderCycle, pinVars, histVars
<1> QED BY <1>1 DEF Loader, LoaderSelect, LoaderCycle, outVars, So

(* Selected, it has heard nothing yet.                                       *)
HearsNothing == \A f : ~Deselected /\ rst = 1 => Heard(f, 0)

LEMMA NothingIsHeard == HearsNothing
BY NothingHeard DEF HearsNothing

LEMMA SelectHears ==
  ASSUME RInv, Deselected, ~Deselected', NEW c, NEW r, SetPins(c, r)
  PROVE  (\A f : Heard(f, 0))' /\ PhaseBar' = "cmd" /\ So' = HiZ
<1>2. HearsNothing'
  BY NothingIsHeard, PTL
<1>3. rst' = 1 /\ rst_inv' = 1
  BY DEF SetPins, Deselected, RInv, IInv, ResetHeld
<1>4. PhaseBar' = "cmd"
  BY <1>3, BarsThen DEF Bars
<1> QED BY <1>2, <1>3, <1>4 DEF HearsNothing, So

(* The samples s are the first bits of a read from the address a.            *)
Agrees(a, s) == \A i \in 1 .. Len(s) : s[i] = BitRead(a, i - 1)

LEMMA AgreesMore ==
  ASSUME NEW S, NEW s \in Seq(S), NEW a, NEW x \in S, Agrees(a, s), x = BitRead(a, Len(s))
  PROVE  Agrees(a, Append(s, x)) /\ Len(Append(s, x)) = Len(s) + 1 /\ Append(s, x) \in Seq(S)
<1>1. ASSUME NEW i \in 1 .. Len(Append(s, x)) PROVE Append(s, x)[i] = BitRead(a, i - 1)
  <2>1. CASE i \in 1 .. Len(s)
    BY <2>1 DEF Agrees
  <2>2. CASE i = Len(s) + 1
    <3>1. i - 1 = Len(s) /\ Append(s, x)[i] = x
      BY <2>2
    <3> QED BY <3>1
  <2> QED BY <2>1, <2>2
<1> QED BY <1>1 DEF Agrees

LEMMA BytesRead ==
  ASSUME NEW s, NEW a, Agrees(a, s), NEW k \in Nat, NEW j \in 1 .. DATA_BITS,
         k * DATA_BITS + j <= Len(s), Len(s) \in Nat
  PROVE  s[k * DATA_BITS + j] = mem[Low(MEM_BITS, Plus(ADDR_BITS, a, k))][DATA_BITS - j]
<1> DEFINE i == k * DATA_BITS + j
<1>1. DATA_BITS \in Nat \ {0} /\ k * DATA_BITS \in Nat /\ j - 1 \in 0 .. (DATA_BITS - 1)
  BY WidthAssumption
<1>2. i \in 1 .. Len(s) /\ i - 1 = k * DATA_BITS + (j - 1)
  BY <1>1
<1>3. (i - 1) \div DATA_BITS = k /\ (i - 1) % DATA_BITS = j - 1
  <2> DEFINE x == i - 1
             r == j - 1
  <2>1. x = k * DATA_BITS + r /\ r \in 0 .. (DATA_BITS - 1)
    BY <1>1, <1>2
  <2> HIDE DEF x, r
  <2>2. x \div DATA_BITS = k /\ x % DATA_BITS = r
    BY <1>1, <2>1, Quotient
  <2> QED BY <2>2 DEF x, r
<1> HIDE DEF i
<1>4. s[i] = mem[Low(MEM_BITS, Plus(ADDR_BITS, a, k))][DATA_BITS - 1 - (j - 1)]
  BY <1>2, <1>3 DEF Agrees, BitRead
<1>5. DATA_BITS - 1 - (j - 1) = DATA_BITS - j
  BY <1>1
<1> QED BY <1>4, <1>5 DEF i

LEMMA BitKept ==
  ASSUME NEW a, NEW i, mem' = mem PROVE BitRead(a, i)' = BitRead(a, i)
BY DEF BitRead

LEMMA AgreesKept == ASSUME NEW a, NEW s, mem' = mem, Agrees(a, s) PROVE Agrees(a, s)'
BY DEF Agrees, BitRead

(* A host that sends a word most significant bit first is understood.        *)
LEMMA CommandSent ==
  ASSUME NEW c \in Word(CMD_BITS), NEW f, \A k \in 1 .. CMD_BITS : f[k] = c[CMD_BITS - k]
  PROVE  CommandIn(f) = c
<1>1. ASSUME NEW i \in 0 .. (CMD_BITS - 1) PROVE f[CMD_BITS - i] = c[i]
  <2>1. CMD_BITS - i \in 1 .. CMD_BITS /\ CMD_BITS - (CMD_BITS - i) = i
    BY WidthAssumption
  <2> QED BY <2>1
<1>2. c = [i \in 0 .. (CMD_BITS - 1) |-> c[i]]
  BY DEF Word
<1> QED BY <1>1, <1>2 DEF CommandIn, WordOf

LEMMA AddressSent ==
  ASSUME NEW a \in Word(ADDR_BITS), NEW f,
         \A k \in 1 .. ADDR_BITS : f[CMD_BITS + k] = a[ADDR_BITS - k]
  PROVE  AddressIn(f) = a
<1>1. ASSUME NEW i \in 0 .. (ADDR_BITS - 1) PROVE f[CMD_BITS + ADDR_BITS - i] = a[i]
  <2>1. /\ ADDR_BITS - i \in 1 .. ADDR_BITS /\ ADDR_BITS - (ADDR_BITS - i) = i
        /\ CMD_BITS + (ADDR_BITS - i) = CMD_BITS + ADDR_BITS - i
    BY WidthAssumption
  <2> QED BY <2>1
<1>2. a = [i \in 0 .. (ADDR_BITS - 1) |-> a[i]]
  BY DEF Word
<1> QED BY <1>1, <1>2 DEF AddressIn

-----------------------------------------------------------------------------
(* The bits of the host's frames.                                            *)
LEMMA MsbFirstType ==
  ASSUME NEW m \in Nat, NEW w \in Word(m)
  PROVE  /\ MsbFirst(m, w) \in Seq(Bit) /\ Len(MsbFirst(m, w)) = m
         /\ \A k \in 1 .. m : MsbFirst(m, w)[k] = w[m - k]
<1>1. ASSUME NEW k \in 1 .. m PROVE w[m - k] \in Bit
  BY DEF Word
<1> QED BY <1>1 DEF MsbFirst

LEMMA RepeatType ==
  ASSUME NEW n \in Nat, NEW b \in Bit
  PROVE  /\ Repeat(n, b) \in Seq(Bit) /\ Len(Repeat(n, b)) = n
         /\ \A k \in 1 .. n : Repeat(n, b)[k] = b
BY DEF Repeat

LEMMA Concatenation ==
  ASSUME NEW S, NEW p \in Seq(S), NEW q \in Seq(S)
  PROVE  /\ p \o q \in Seq(S) /\ Len(p \o q) = Len(p) + Len(q)
         /\ \A k \in 1 .. Len(p) : (p \o q)[k] = p[k]
OBVIOUS

LEMMA ConcatenationEnd ==
  ASSUME NEW S, NEW p \in Seq(S), NEW q \in Seq(S), NEW k \in Nat,
         k > Len(p), k <= Len(p) + Len(q)
  PROVE  (p \o q)[k] = q[k - Len(p)] /\ k - Len(p) \in 1 .. Len(q)
OBVIOUS

(* Bits that were not sent yet do not matter.                                *)
LEMMA HeardSame ==
  ASSUME NEW f, NEW g, NEW m \in Nat, Heard(f, m), \A k \in 1 .. m : f[k] = g[k]
  PROVE  Heard(g, m)
<1>0. CMD_BITS \in Nat \ {0} /\ ADDR_BITS \in Nat \ {0}
  BY WidthAssumption
<1>1. CASE m < CMD_BITS
  <2>1. [k \in 1 .. m |-> f[k]] = [k \in 1 .. m |-> g[k]]
    OBVIOUS
  <2> QED BY <1>0, <1>1, <2>1 DEF Heard
<1>2. CASE m >= CMD_BITS
  <2>1. CommandIn(g) = CommandIn(f) /\ (IsRead(g) <=> IsRead(f))
    <3>1. ASSUME NEW i \in 0 .. (CMD_BITS - 1) PROVE f[CMD_BITS - i] = g[CMD_BITS - i]
      BY <1>0, <1>2
    <3> QED BY <3>1 DEF CommandIn, WordOf, IsRead
  <2>2. [k \in 1 .. (m - CMD_BITS) |-> f[CMD_BITS + k]]
          = [k \in 1 .. (m - CMD_BITS) |-> g[CMD_BITS + k]]
    BY <1>0, <1>2
  <2>3. m >= CMD_BITS + ADDR_BITS => AddressIn(g) = AddressIn(f)
    <3>1. ASSUME m >= CMD_BITS + ADDR_BITS, NEW i \in 0 .. (ADDR_BITS - 1)
          PROVE  f[CMD_BITS + ADDR_BITS - i] = g[CMD_BITS + ADDR_BITS - i]
      BY <1>0, <3>1
    <3> QED BY <3>1 DEF AddressIn
  <2>4. ~(m < CMD_BITS)
    BY <1>0, <1>2
  <2> QED BY <2>1, <2>2, <2>3, <2>4 DEF Heard
<1> QED BY <1>0, <1>1, <1>2
=============================================================================
