--------------------------- MODULE MirroredFlash ---------------------------
(* litespih4x/emu.py, the pads qrs: the emulator passes the host's clock,    *)
(* chip select, reset and data out to a second, real flash, and listens to   *)
(* none of its pins.  emu_sim.py puts the vendor's model of a MX25U25635F    *)
(* there, which takes every command of the bench, those FlashEmu does not    *)
(* know among them, and has a state of its own that outlives a transaction.  *)
EXTENDS EmuSim

CONSTANTS FlashArray,   \* contents of the real flash
          DUMMY_CLOCKS  \* before the data of its quad read, 8

ASSUME FlashAssumption ==
  /\ FlashArray \in [Word(ADDR_BITS) -> Word(DATA_BITS)]
  /\ DUMMY_CLOCKS \in Nat

VARIABLES received,     \* bits it took since it was selected
          mode,         \* what it decoded of them
          rso,          \* its pin so
          rsi_oe,       \* it drives its pin si
          wel, wip, qe, \* its status register
          qe_up         \* what the write under way will make of qe

flashVars == <<received, mode, rso, rsi_oe, wel, wip, qe, qe_up>>
mirrorVars == <<benchVars, flashVars>>

(* A level of a pin whose value no property is about.                        *)
Driven == 3

-----------------------------------------------------------------------------
(* The pins of the real flash.                                               *)
RealSclk == sclk
RealCsnTied == 0  \* mutant: chip select of a board with one device
RealCsn == csn
RealRstn == rstn
EmuDrivesSi == TRUE
Esi == IF Sending /\ out # << >> THEN Head(out) ELSE 0
RealSi == IF EmuDrivesSi THEN Esi ELSE HiZ

RealSelected == RealCsn = 0 /\ RealRstn = 1

-----------------------------------------------------------------------------
(* The real flash.  During a write it takes only RDSR.                       *)
RealDecode(c) ==
  CASE c = CMD_RDSR -> "status"
    [] c # CMD_RDSR /\ wip = 1 -> "busy"
    [] c = CMD_READ /\ wip = 0 -> "read"
    [] c = CMD_RDID /\ wip = 0 -> "id"
    [] c = CMD_WREN /\ wip = 0 -> "wren"
    [] c = CMD_WRSR /\ wip = 0 /\ wel = 1 -> "wrsr"
    [] c = CMD_QREAD /\ wip = 0 /\ qe = 1 -> "qread"
    [] OTHER -> "bad"

Field(first, n) == WordOf(n, SubSeq(received, first, first + n - 1))

RealRise ==
  /\ received' = Append(received, RealSi)
  /\ mode' = IF Len(received') = CMD_BITS THEN RealDecode(WordOf(CMD_BITS, received'))
             ELSE mode
  /\ UNCHANGED <<rso, rsi_oe, wel, wip, qe, qe_up>>

(* The bit of the answer it drives once it has taken n more bits than the    *)
(* command, or than command and address.                                     *)
IdBit(n) == IDCODE[ID_BITS - 1 - (n % ID_BITS)]

ArrayBit(n) ==
  LET address == Plus(ADDR_BITS, Field(CMD_BITS + 1, ADDR_BITS), n \div DATA_BITS)
  IN  FlashArray[address][DATA_BITS - 1 - (n % DATA_BITS)]

RealFall ==
  LET n == Len(received) - CMD_BITS
      k == n - ADDR_BITS
      quad == mode = "qread" /\ k >= DUMMY_CLOCKS
  IN  /\ rso' = CASE mode = "id" -> IdBit(n)
                  [] mode = "read" /\ k >= 0 -> ArrayBit(k)
                  [] mode = "status" \/ quad -> Driven
                  [] OTHER -> rso
      /\ rsi_oe' = quad
      /\ UNCHANGED <<received, mode, wel, wip, qe, qe_up>>

(* A write command counts when the chip select rises right after it.         *)
RealDeselect ==
  /\ received' = << >> /\ mode' = "none" /\ rso' = HiZ /\ rsi_oe' = FALSE
  /\ wel' = IF mode = "wren" /\ Len(received) = CMD_BITS THEN 1 ELSE wel
  /\ \/ /\ mode = "wrsr" /\ Len(received) = CMD_BITS + DATA_BITS
        /\ wip' = 1
        /\ qe_up' = IF \E i \in 0 .. (DATA_BITS - 1) :
                         QE_STATUS[i] = 1 /\ Field(CMD_BITS + 1, DATA_BITS)[i] = 1
                    THEN 1 ELSE 0
     \/ /\ ~(mode = "wrsr" /\ Len(received) = CMD_BITS + DATA_BITS)
        /\ UNCHANGED <<wip, qe_up>>
  /\ UNCHANGED qe

(* A reset ends a write without its effect.  The vendor's recovery time, as  *)
(* this copy of the model has it, is over before the bench's reset pulse.    *)
RealReset == /\ wel' = 0 /\ wip' = 0
             /\ UNCHANGED <<received, mode, rso, rsi_oe, qe, qe_up>>

(* What the edges of its pins do to it.                                      *)
RealEdge ==
  \/ RealSelected /\ ~RealSelected' /\ RealDeselect
  \/ RealSelected /\ RealSelected' /\ RealSclk = 0 /\ RealSclk' = 1 /\ RealRise
  \/ RealSelected /\ RealSelected' /\ RealSclk = 1 /\ RealSclk' = 0 /\ RealFall
  \/ ~RealSelected /\ RealRstn = 1 /\ RealRstn' = 0 /\ RealReset
  \/ ~RealSelected /\ RealRstn' = RealRstn /\ UNCHANGED flashVars
  \/ ~RealSelected /\ RealRstn = 0 /\ RealRstn' = 1 /\ UNCHANGED flashVars
  \/ RealSelected /\ RealSelected' /\ RealSclk' = RealSclk /\ UNCHANGED flashVars

(* A write takes some time and clears the enable latch.                      *)
WriteEnds == /\ wip = 1 /\ wip' = 0 /\ wel' = 0 /\ qe' = qe_up
             /\ UNCHANGED <<benchVars, received, mode, rso, rsi_oe, qe_up>>

MirrorInit == /\ BenchInit
              /\ received = << >> /\ mode = "none" /\ rso = HiZ /\ rsi_oe = FALSE
              /\ wel = 0 /\ wip = 0 /\ qe = 0 /\ qe_up = 0

MirrorNext == (BenchNext /\ RealEdge) \/ WriteEnds

MirrorSpec == MirrorInit /\ [][MirrorNext]_mirrorVars
-----------------------------------------------------------------------------
SameContents == \A a \in Word(ADDR_BITS) : FlashArray[a] = mem[Low(MEM_BITS, a)]

(* A read or identification is answered by the emulator as by the flash it   *)
(* stands for, level by level of the pin, when their contents are the same   *)
(* and the flash is not busy with a write that the emulator passed on to it  *)
(* and knows nothing of (emu.py:159-181).                                    *)
AnswersAlike ==
  op \in {"read", "id"} /\ SameContents => So = rso \/ mode = "busy"

(* The emulator drives its pin only where the flash drives it with what the  *)
(* emulator has too: not while the flash shows its status, and not where     *)
(* nothing was asked.  There are two exceptions: the flash is busy with a    *)
(* write, and takes no reads while the emulator does; and a quad read, which *)
(* the emulator answers whether or not the flash is in quad mode             *)
(* (emu.py:170-181, 218-228).                                                *)
DrivesWhereFlashDoes ==
  So # HiZ => \/ rso \in Bit
              \/ mode = "busy"
              \/ qmode = 1 /\ mode \in {"qread", "bad"}

(* The emulator always drives the flash's si (rsi_ts.oe), which in a quad    *)
(* read is an output of the flash: the two meet only while the emulator      *)
(* itself is answering a quad read, so its own state would tell it when to   *)
(* let go (emu.py:183-188).                                                  *)
FightsOnlyInQuadReads ==
  EmuDrivesSi /\ rsi_oe => ~Deselected /\ rst = 0 /\ state = "read_get_data" /\ qmode = 1
=============================================================================
