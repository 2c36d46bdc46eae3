---------------------------- MODULE FlashEmuMem ----------------------------
(* litespih4x/emu_mem.py: the emulated flash contents, one synchronous       *)
(* memory port shared by the SPI side (p0, read only) and the SoC's loader   *)
(* (p1).  The CSR bit sel switches the port's signals and, through           *)
(* AsyncClockMux, its clock.                                                 *)
EXTENDS Wires

CONSTANTS MEM_BITS, DATA_BITS, LoadData

VARIABLES sel,     \* CSR: 0 the SPI side has the port, 1 the loader
          mem,     \* the contents
          memadr   \* the address register inside the port

memVars == <<sel, mem, memadr>>

MemTypeOK == /\ sel \in Bit
             /\ mem \in [Word(MEM_BITS) -> Word(DATA_BITS)]
             /\ memadr \in Word(MEM_BITS)

(* The initial contents: the byte at an address is the xor of the address's  *)
(* bytes, which for an address that fits in a byte is the address.           *)
Val4Addr(a) == [i \in 0 .. (DATA_BITS - 1) |-> IF i < MEM_BITS THEN a[i] ELSE 0]

MemInit == /\ sel = 0
           /\ mem = [a \in Word(MEM_BITS) |-> Val4Addr(a)]
           /\ memadr = Zero(MEM_BITS)

(* Both sides read the same output, whichever side's address it belongs to.  *)
DatR == mem[memadr]

(* A rising edge of the SPI clock with p0's address a: it reaches the memory *)
(* only while the mux passes it.                                             *)
SpiClock(a) == /\ memadr' = IF sel = 0 THEN a ELSE memadr
               /\ UNCHANGED <<sel, mem>>

(* A rising edge of the system clock with p1's address a: the port latches   *)
(* the address, and stores d when write enable is up.                        *)
SysClock(a, we, d) ==
  /\ sel = 1
  /\ memadr' = a
  /\ mem' = IF we = 1 THEN [mem EXCEPT ![a] = d] ELSE mem
  /\ UNCHANGED sel

(* The CSR write.  The mux is asynchronous: it may or may not produce an     *)
(* edge, and the address it latches then is whatever the switching port mux  *)
(* happens to carry.  Write enable is down, the bus is busy with the CSR.    *)
SetSel(v) == /\ sel' = v
             /\ memadr' \in Word(MEM_BITS)
             /\ UNCHANGED mem
=============================================================================
