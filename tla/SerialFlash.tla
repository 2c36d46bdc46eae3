---------------------------- MODULE SerialFlash ----------------------------
(* What a SPI flash promises on its pins, independent of any register: the   *)
(* command and the address arrive bit by bit, most significant bit first;    *)
(* READ then answers with the bytes of the memory from that address on, RDID *)
(* with the identification word over and over, and anything else with a      *)
(* silent pin.  An answer bit changes on the falling edge of the clock and   *)
(* the pin floats (HiZ) when the chip is not selected.                       *)
(*                                                                           *)
(* The memory is shared with a loader that has to take it first (busy).  A   *)
(* byte fetched while the loader had, took or returned the memory is         *)
(* arbitrary; every other byte is the memory's.                              *)
EXTENDS Wires

CONSTANTS CMD_BITS, ADDR_BITS, MEM_BITS, DATA_BITS, ID_BITS,
          QUAD_STEP,      \* what a clock counts for in quad mode
          CMD_READ, CMD_QREAD, CMD_RDID, IDCODE,
          LoadData        \* the bytes the loader may store

VARIABLES phase,  \* "idle", "cmd", "addr", "data", "id" or "mute"
          bits,   \* the bits of the current field received so far
          quad,   \* the command was QREAD
          ptr,    \* address of the byte being answered
          pos,    \* answer bits of that byte (or ID) already clocked out
          byte,   \* that byte, once its first bit is out
          ok,     \* the memory was undisturbed since the last rising edge
          so, sclk, mem, busy

vars == <<phase, bits, quad, ptr, pos, byte, ok, so, sclk, mem, busy>>

BitsPerByte == IF quad = 1 THEN DATA_BITS \div QUAD_STEP ELSE DATA_BITS

Cleared == /\ bits' = << >> /\ quad' = 0 /\ pos' = 0
           /\ ptr' = Zero(ADDR_BITS) /\ byte' = Zero(DATA_BITS)

Init == /\ phase = "idle" /\ bits = << >> /\ quad = 0 /\ pos = 0
        /\ ptr = Zero(ADDR_BITS) /\ byte = Zero(DATA_BITS)
        /\ so = HiZ /\ sclk = 0 /\ ok = FALSE /\ busy = 0
        /\ mem \in [Word(MEM_BITS) -> Word(DATA_BITS)]

(* Chip select falls (or the reset line rises while it is low).              *)
Select == /\ phase = "idle" /\ phase' = "cmd"
          /\ UNCHANGED <<bits, quad, ptr, pos, byte, ok, so, sclk, mem, busy>>

(* Chip select rises, or the reset line falls: the pin floats at once.       *)
Deselect == /\ phase # "idle" /\ phase' = "idle" /\ Cleared /\ so' = HiZ
            /\ UNCHANGED <<ok, sclk, mem, busy>>

PhaseOf(c) == CASE c \in {CMD_READ, CMD_QREAD} -> "addr"
                [] c = CMD_RDID -> "id"
                [] OTHER -> "mute"

CmdBit(b) ==
  /\ phase = "cmd"
  /\ IF Len(bits) + 1 < CMD_BITS
     THEN bits' = Append(bits, b) /\ UNCHANGED <<phase, quad>>
     ELSE LET c == WordOf(CMD_BITS, Append(bits, b))
          IN  /\ bits' = << >> /\ phase' = PhaseOf(c)
              /\ quad' = IF c = CMD_QREAD THEN 1 ELSE 0
  /\ UNCHANGED <<ptr, pos, byte>>

AddrBit(b) ==
  /\ phase = "addr"
  /\ IF Len(bits) + 1 < ADDR_BITS
     THEN bits' = Append(bits, b) /\ UNCHANGED <<phase, ptr>>
     ELSE /\ bits' = << >> /\ phase' = "data"
          /\ ptr' = WordOf(ADDR_BITS, Append(bits, b))
  /\ UNCHANGED <<quad, pos, byte>>

(* The byte at ptr while its first bit is on the pin.                        *)
Fetched == IF ok THEN {mem[Low(MEM_BITS, ptr)]} ELSE Word(DATA_BITS)

DataBit ==
  /\ phase = "data"
  /\ IF pos + 1 = BitsPerByte
     THEN pos' = 0 /\ ptr' = Inc(ADDR_BITS, ptr) /\ byte' = Zero(DATA_BITS)
     ELSE /\ pos' = pos + 1 /\ UNCHANGED ptr
          /\ IF pos = 0 THEN byte' \in Fetched ELSE UNCHANGED byte
  /\ UNCHANGED <<phase, bits, quad>>

IdBit == /\ phase = "id" /\ pos' = (pos + 1) % ID_BITS
         /\ UNCHANGED <<phase, bits, quad, ptr, byte>>

Ignored == /\ phase \in {"idle", "mute"}
           /\ UNCHANGED <<phase, bits, quad, ptr, pos, byte>>

Rise(b) == /\ sclk = 0 /\ sclk' = 1
           /\ CmdBit(b) \/ AddrBit(b) \/ DataBit \/ IdBit \/ Ignored
           /\ ok' = (busy = 0)
           /\ UNCHANGED <<so, mem, busy>>

(* The values the pin may take at a falling edge.                            *)
Answer ==
  CASE phase = "data" /\ pos = 0 -> {w[DATA_BITS - 1] : w \in Fetched}
    [] phase = "data" /\ pos # 0 -> {byte[DATA_BITS - 1 - pos]}
    [] phase = "id" -> {IDCODE[ID_BITS - 1 - pos]}
    [] OTHER -> {HiZ}

Fall == /\ sclk = 1 /\ sclk' = 0 /\ so' \in Answer
        /\ UNCHANGED <<phase, bits, quad, ptr, pos, byte, ok, mem, busy>>

(* The loader takes or returns the memory, and stores bytes while it has it. *)
Take(v) == /\ busy' = v /\ busy # v /\ ok' = FALSE
           /\ UNCHANGED <<phase, bits, quad, ptr, pos, byte, so, sclk, mem>>

Load(a, d) == /\ busy = 1 /\ mem' = [mem EXCEPT ![a] = d]
              /\ UNCHANGED <<phase, bits, quad, ptr, pos, byte, ok, so, sclk, busy>>

Next == \/ Select \/ Deselect \/ Fall
        \/ \E b \in Bit : Rise(b)
        \/ \E v \in Bit : Take(v)
        \/ \E a \in Word(MEM_BITS), d \in LoadData : Load(a, d)

Spec == Init /\ [][Next]_vars
=============================================================================
