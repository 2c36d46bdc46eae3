------------------------------ MODULE FlashEmu ------------------------------
(* litespih4x/emu.py, class FlashEmu: the SPI flash emulator, clocked by the *)
(* host's own SPI clock and reset by its chip select, over the memory of     *)
(* FlashEmuMem.                                                              *)
(*                                                                           *)
(* Deselecting presets the reset flip-flops at once but clocks nothing: the  *)
(* registers keep the values of the interrupted transaction until the first  *)
(* rising edge of the next one, which still sees reset and loads the reset   *)
(* values.  That edge already carries the first command bit, which is why    *)
(* cmd resets to the input pin and cmd_bit_cnt to one.                       *)
EXTENDS FlashEmuMem

CONSTANTS CMD_BITS,   \* 8 in the code
          ADDR_BITS,  \* 24
          ID_BITS,    \* 24
          QUAD_STEP,  \* 4, half of DATA_BITS (8)
          CMD_READ, CMD_QREAD, CMD_RDID, IDCODE

ASSUME WidthAssumption ==
  /\ CMD_BITS \in Nat /\ CMD_BITS > 1
  /\ ADDR_BITS \in Nat /\ ADDR_BITS > 1
  /\ ID_BITS \in Nat \ {0}
  /\ MEM_BITS \in 1 .. ADDR_BITS
  /\ DATA_BITS \in Nat /\ DATA_BITS > 2
  /\ QUAD_STEP \in Nat \ {0} /\ 2 * QUAD_STEP = DATA_BITS

ASSUME CommandAssumption ==
  /\ {CMD_READ, CMD_QREAD, CMD_RDID} \subseteq Word(CMD_BITS)
  /\ CMD_READ # CMD_QREAD /\ CMD_READ # CMD_RDID /\ CMD_QREAD # CMD_RDID
  /\ IDCODE \in Word(ID_BITS)
  /\ LoadData \subseteq Word(DATA_BITS)

VARIABLES csn, rstn, sclk,             \* the host's pins
          rst, rst_inv,                \* reset of the domains spi, spi_inv
          state, cmd, cmd_bit_cnt, addr, addr_cnt, dr, dr_bit_cnt, qmode,
          idcode,                      \* registers of domain spi
          eso_delayed, eso_oe_delayed, \* registers of domain spi_inv
          fetched, nout, fresh         \* history, read by no action

pinVars == <<csn, rstn, sclk>>
fsmVars == <<state, cmd, cmd_bit_cnt, addr, addr_cnt, dr, dr_bit_cnt, qmode,
             idcode>>
outVars == <<eso_delayed, eso_oe_delayed>>
histVars == <<fetched, nout, fresh>>
vars == <<pinVars, rst, rst_inv, fsmVars, outVars, histVars, memVars>>

States == {"get_cmd", "rdid", "read_get_addr", "read_get_data", "bad_cmd_err"}

TypeOK ==
  /\ csn \in Bit /\ rstn \in Bit /\ sclk \in Bit
  /\ rst \in Bit /\ rst_inv \in Bit
  /\ state \in States
  /\ cmd \in Word(CMD_BITS) /\ cmd_bit_cnt \in 0 .. (CMD_BITS - 1)
  /\ addr \in Word(ADDR_BITS) /\ addr_cnt \in 0 .. ADDR_BITS
  /\ dr \in Word(DATA_BITS) /\ dr_bit_cnt \in 0 .. (DATA_BITS - 1)
  /\ qmode \in Bit
  /\ idcode \in Word(ID_BITS)
  /\ eso_delayed \in Bit /\ eso_oe_delayed \in Bit
  /\ fetched \in Word(DATA_BITS) /\ nout \in 0 .. (ID_BITS - 1)
  /\ fresh \in BOOLEAN
  /\ MemTypeOK

-----------------------------------------------------------------------------
(* Combinational signals, functions of the registers and the input bit b.    *)

AddrNext(b) == CASE state = "read_get_addr" -> ShiftIn(ADDR_BITS, b, addr)
                 [] state = "read_get_data" -> Inc(ADDR_BITS, addr)
                 [] OTHER -> Zero(ADDR_BITS)

DrTmpUnlatched == DatR  \* mutant of DrTmp: every bit straight from the memory
DrTmp == IF dr_bit_cnt = 0 THEN DatR ELSE dr

(* The address the memory port is given.                                     *)
PortAddrLate(b) == Low(MEM_BITS, addr)  \* mutant: the registered address
PortAddr(b) == Low(MEM_BITS, AddrNext(b))

Eso == CASE state = "rdid" -> idcode[ID_BITS - 1]
         [] state = "read_get_data" -> DrTmp[DATA_BITS - 1]
         [] OTHER -> 0

EsoOe == IF state \in {"rdid", "read_get_data"} THEN 1 ELSE 0

(* The tristate driver of the pin so.                                        *)
SoUngated == IF eso_oe_delayed = 1 THEN eso_delayed ELSE HiZ  \* mutant
So == IF eso_oe_delayed = 1 /\ rst_inv = 0 THEN eso_delayed ELSE HiZ

Deselected == csn = 1 \/ rstn = 0

-----------------------------------------------------------------------------
(* The states of cmd_fsm.                                                    *)

DecodeAll(c) == IF c \in {CMD_READ, CMD_QREAD} THEN "read_get_addr" ELSE "rdid"  \* mutant
Decode(c) == CASE c \in {CMD_READ, CMD_QREAD} -> "read_get_addr"
               [] c = CMD_RDID -> "rdid"
               [] OTHER -> "bad_cmd_err"

GetCmd(b) ==
  LET cmd_next == ShiftIn(CMD_BITS, b, cmd)
  IN  /\ state = "get_cmd"
      /\ cmd' = cmd_next
      /\ cmd_bit_cnt' = (cmd_bit_cnt + 1) % CMD_BITS
      /\ state' = IF cmd_bit_cnt = CMD_BITS - 1 THEN Decode(cmd_next) ELSE state
      /\ qmode' = IF cmd_bit_cnt = CMD_BITS - 1 /\ cmd_next = CMD_QREAD
                  THEN 1 ELSE qmode
      /\ UNCHANGED <<addr, addr_cnt, dr, dr_bit_cnt, idcode, fetched, nout>>

Rdid == /\ state = "rdid"
        /\ idcode' = ShiftIn(ID_BITS, idcode[ID_BITS - 1], idcode)
        /\ nout' = (nout + 1) % ID_BITS
        /\ UNCHANGED <<state, cmd, cmd_bit_cnt, addr, addr_cnt, dr, dr_bit_cnt,
                       qmode, fetched>>

LastAddrBitOff == addr_cnt = ADDR_BITS  \* mutant: one bit late
LastAddrBit == addr_cnt = ADDR_BITS - 1

ReadGetAddr(b) ==
  /\ state = "read_get_addr"
  /\ addr' = AddrNext(b)
  /\ addr_cnt' = addr_cnt + 1
  /\ state' = IF LastAddrBit THEN "read_get_data" ELSE state
  /\ UNCHANGED <<cmd, cmd_bit_cnt, dr, dr_bit_cnt, qmode, idcode, fetched, nout>>

LastBitOfByte == \/ dr_bit_cnt = DATA_BITS - 1
                 \/ dr_bit_cnt = QUAD_STEP /\ qmode = 1

ReadGetData ==
  /\ state = "read_get_data"
  /\ dr_bit_cnt' = (dr_bit_cnt + (IF qmode = 1 THEN QUAD_STEP ELSE 1)) % DATA_BITS
  /\ dr' = ShiftIn(DATA_BITS, 0, DrTmp)
  /\ addr' = IF LastBitOfByte THEN AddrNext(0) ELSE addr
  /\ fetched' = IF dr_bit_cnt = 0 THEN DatR ELSE fetched
  /\ UNCHANGED <<state, cmd, cmd_bit_cnt, addr_cnt, qmode, idcode, nout>>

BadCmdErr == /\ state = "bad_cmd_err"
             /\ UNCHANGED <<fsmVars, fetched, nout>>

(* A rising edge under reset loads the reset values.  It has the first       *)
(* command bit, so the counter resets to one.                                *)
BitCntResetZero == 0  \* mutant of BitCntReset
BitCntReset == 1

SpiReset(b) ==
  /\ state' = "get_cmd"
  /\ cmd' = [i \in 0 .. (CMD_BITS - 1) |-> IF i = 0 THEN b ELSE 0]
  /\ cmd_bit_cnt' = BitCntReset
  /\ addr' = Zero(ADDR_BITS) /\ addr_cnt' = 0
  /\ dr' = Zero(DATA_BITS) /\ dr_bit_cnt' = 0 /\ qmode' = 0
  /\ idcode' = IDCODE
  /\ nout' = 0 /\ UNCHANGED fetched

-----------------------------------------------------------------------------
(* The host.                                                                 *)

(* The single flip-flop of the reset synchronizer: preset while deselected,  *)
(* cleared by an edge of its clock otherwise.                                *)
Released == IF Deselected THEN 1 ELSE 0

SclkRise(b) ==
  /\ sclk = 0 /\ sclk' = 1
  /\ rst' = Released
  /\ \/ rst = 1 /\ SpiReset(b)
     \/ rst = 0 /\ (GetCmd(b) \/ Rdid \/ ReadGetAddr(b) \/ ReadGetData \/ BadCmdErr)
  /\ SpiClock(PortAddr(b))
  /\ fresh' = (sel = 0)
  /\ UNCHANGED <<csn, rstn, rst_inv, outVars>>

SclkFall ==
  /\ sclk = 1 /\ sclk' = 0
  /\ rst_inv' = Released
  /\ eso_delayed' = IF rst_inv = 1 THEN 0 ELSE Eso
  /\ eso_oe_delayed' = IF rst_inv = 1 THEN 0 ELSE EsoOe
  /\ UNCHANGED <<csn, rstn, rst, fsmVars, histVars, memVars>>

(* The pins csn and rstn; either one deselects, and presets both resets.     *)
SetPins(c, r) ==
  /\ <<c, r>> # <<csn, rstn>>
  /\ csn' = c /\ rstn' = r
  /\ IF c = 1 \/ r = 0 THEN rst' = 1 /\ rst_inv' = 1 ELSE UNCHANGED <<rst, rst_inv>>
  /\ UNCHANGED <<sclk, fsmVars, outVars, histVars, memVars>>

(* The loader, through the SoC's bus.                                        *)
LoaderSelect(v) == /\ sel # v /\ SetSel(v)
                   /\ fresh' = FALSE
                   /\ UNCHANGED <<pinVars, rst, rst_inv, fsmVars, outVars, fetched, nout>>

LoaderCycle(a, we, d) ==
  /\ SysClock(a, we, d)
  /\ UNCHANGED <<pinVars, rst, rst_inv, fsmVars, outVars, histVars>>

-----------------------------------------------------------------------------
Init == /\ csn = 1 /\ rstn = 1 /\ sclk = 0 /\ rst = 1 /\ rst_inv = 1
        /\ state = "get_cmd" /\ cmd = Zero(CMD_BITS) /\ cmd_bit_cnt = BitCntReset
        /\ addr = Zero(ADDR_BITS) /\ addr_cnt = 0
        /\ dr = Zero(DATA_BITS) /\ dr_bit_cnt = 0 /\ qmode = 0
        /\ idcode = IDCODE
        /\ eso_delayed = 0 /\ eso_oe_delayed = 0
        /\ fetched = Zero(DATA_BITS) /\ nout = 0 /\ fresh = FALSE
        /\ MemInit

SetCsn == \E c \in Bit : SetPins(c, rstn)
SetRstn == \E r \in Bit : SetPins(csn, r)
Rise == \E b \in Bit : SclkRise(b)
Loader == \/ \E v \in Bit : LoaderSelect(v)
          \/ \E a \in Word(MEM_BITS), we \in Bit, d \in LoadData : LoaderCycle(a, we, d)

Next == SetCsn \/ SetRstn \/ Rise \/ SclkFall \/ Loader

Spec == Init /\ [][Next]_vars
-----------------------------------------------------------------------------
(* Properties.  How many bits of the byte being answered have left dr.       *)
Shifted == IF qmode = 0 THEN dr_bit_cnt ELSE IF dr_bit_cnt = 0 THEN 0 ELSE 1

(* The pin is driven only while selected, out of reset, and in answer to a   *)
(* command of this very transaction: eso_ts.oe (emu.py:175) gates the stale  *)
(* output enable a deselect in the middle of an answer leaves behind.        *)
DrivesOnlyAnswers ==
  So # HiZ => ~Deselected /\ rst = 0 /\ state \in {"rdid", "read_get_data"}

(* Between bytes the memory port holds the address of the byte about to be   *)
(* sent, unless the loader had the port since the last clock: addr_next is   *)
(* presented one clock ahead of addr, at the last address bit as at the      *)
(* last bit of a byte (emu.py:207, 241, 256).                                *)
PortHoldsNextByte ==
  rst = 0 /\ state = "read_get_data" /\ dr_bit_cnt = 0 /\ fresh
    => memadr = Low(MEM_BITS, addr)

(* Once its first bit is out a byte no longer depends on the memory: what    *)
(* dr still holds are the remaining bits of the byte that was fetched,       *)
(* whatever the loader stores meanwhile (emu.py:251-262).                    *)
ByteIntact ==
  rst = 0 /\ state = "read_get_data" /\ dr_bit_cnt # 0
    => \A i \in Shifted .. (DATA_BITS - 1) : dr[i] = fetched[i - Shifted]

-----------------------------------------------------------------------------
(* What the emulator shows on its pins is a SerialFlash.  Registers that are *)
(* stale under reset do not show.                                            *)

Receiving == ~Deselected /\ (rst = 1 \/ state = "get_cmd")

PhaseBar == CASE Deselected -> "idle"
              [] Receiving -> "cmd"
              [] OTHER -> CASE state = "read_get_addr" -> "addr"
                            [] state = "read_get_data" -> "data"
                            [] state = "rdid" -> "id"
                            [] OTHER -> "mute"

BitsBar == CASE PhaseBar = "cmd" /\ rst = 0 ->
                  [k \in 1 .. cmd_bit_cnt |-> cmd[cmd_bit_cnt - k]]
             [] PhaseBar = "addr" -> [k \in 1 .. addr_cnt |-> addr[addr_cnt - k]]
             [] OTHER -> << >>

PosBar == CASE PhaseBar = "id" -> nout
            [] PhaseBar = "data" -> Shifted
            [] OTHER -> 0

QuadBar == IF PhaseBar \in {"idle", "cmd"} THEN 0 ELSE qmode

PtrBar == IF PhaseBar = "data" THEN addr ELSE Zero(ADDR_BITS)

ByteBar == IF PhaseBar = "data" /\ PosBar # 0 THEN fetched ELSE Zero(DATA_BITS)

Flash == INSTANCE SerialFlash WITH
           phase <- PhaseBar, bits <- BitsBar, pos <- PosBar, quad <- QuadBar,
           ptr <- PtrBar, byte <- ByteBar, ok <- fresh, so <- So, busy <- sel

(* Every step on the emulator's pins is one a SerialFlash may take: commands *)
(* and addresses assemble from the first bit after select whatever the       *)
(* previous transaction left behind, bytes come from consecutive addresses   *)
(* and change only between bytes, the identification word repeats, an        *)
(* unknown command stays silent, and a deselected emulator never drives.     *)
ImplementsSerialFlash == Flash!Spec
=============================================================================
