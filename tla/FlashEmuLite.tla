---------------------------- MODULE FlashEmuLite ----------------------------
(* litespih4x/emu.py, class FlashEmuLite: a SPI flash emulator whose         *)
(* contents are in DRAM.  While the low PREFETCH_BITS bits of an address are *)
(* still on their way, the block the other bits name is prefetched; the SPI  *)
(* side then answers from the registers and never looks whether the prefetch *)
(* is done.                                                                  *)
(*                                                                           *)
(* Two clocks meet here.  The host's clock edges are SpiRise, SpiFall and    *)
(* the chip select; the system clock's is SysTick.  The command is chosen    *)
(* when its last bit arrives (FlashEmu models how it is put together).       *)
EXTENDS FlashEmuDRAMLite

CONSTANTS CMD_BITS, ADDR_BITS, PREFETCH_BITS, DATA_BITS, ID_BITS,
          NBYTES,     \* nbytes_per_mt: bytes in a DRAM word, 16 in the code
          PFR_SPAN,   \* values of pfr_idx = Signal(max=prefetch_bits), 8
          TIMED,      \* hold host and DRAM to the two bounds below
          TICKS,      \* least system clocks between SPI clocks, 4
          MAX_STALL   \* most system clocks one prefetch waits for the DRAM

ASSUME LiteAssumption ==
  /\ CMD_BITS \in Nat /\ CMD_BITS > 1
  /\ PREFETCH_BITS \in Nat \ {0}
  /\ ADDR_BITS \in Nat /\ ADDR_BITS > PREFETCH_BITS
  /\ DATA_BITS \in Nat /\ DATA_BITS > 1 /\ ID_BITS \in Nat \ {0}
  /\ NBYTES \in Nat \ {0} /\ PFR_SPAN \in Nat \ {0}
  /\ 2 ^ PREFETCH_BITS = NREADS * NBYTES
  /\ 2 ^ ADDR_BITS = BLOCKS * NREADS * NBYTES
  /\ TIMED \in BOOLEAN /\ TICKS \in Nat /\ MAX_STALL \in Nat

VARIABLES csn, clk, rst,             \* pins, gated clock, reset
          state, cmd_bit_cnt, addr, addr_cnt, dr, dr_bit_cnt, id_pos, paddr,
          so,                        \* eso_delayed: the byte and bit shown
          sync1, sync2,              \* MultiReg into the system domain
          moved,                     \* paddr changed since the last SysTick
          ticks, stall               \* timing, when TIMED

spiVars == <<state, cmd_bit_cnt, addr, addr_cnt, dr, dr_bit_cnt, id_pos, paddr>>
pinVars == <<csn, clk, rst>>
syncVars == <<sync1, sync2>>
vars == <<pinVars, spiVars, so, syncVars, moved, ticks, stall, dramVars>>

Addr == 0 .. (2 ^ ADDR_BITS - 1)

(* A byte is named by the word it was taken from and its place in it.        *)
Byte == [word : {NoWord} \cup 0 .. (BLOCKS * NREADS - 1), byte : 0 .. (NBYTES - 1)]
NoByte == [word |-> NoWord, byte |-> 0]
NothingShown == [src |-> NoByte, bit |-> 0]

TypeOK ==
  /\ csn \in {0, 1} /\ clk \in {0, 1} /\ rst \in {0, 1}
  /\ state \in {"get_cmd", "rdid", "read_get_addr", "read_get_data", "bad_cmd_err"}
  /\ cmd_bit_cnt \in 0 .. (CMD_BITS - 1)
  /\ addr \in Addr /\ addr_cnt \in 0 .. ADDR_BITS
  /\ dr \in Byte /\ dr_bit_cnt \in 0 .. (DATA_BITS - 1)
  /\ id_pos \in 0 .. (ID_BITS - 1)
  /\ paddr \in Block
  /\ so \in [src : Byte, bit : 0 .. (DATA_BITS - 1)]
  /\ sync1 \in {0, 1} /\ sync2 \in {0, 1} /\ moved \in BOOLEAN
  /\ ticks \in 0 .. TICKS /\ stall \in 0 .. MAX_STALL
  /\ DramTypeOK

-----------------------------------------------------------------------------
(* Combinational signals.                                                    *)

PaddrValidLate ==  \* mutant: with the last address bit
  IF state = "read_get_addr" /\ addr_cnt = ADDR_BITS - 1 THEN 1 ELSE 0
PaddrValid ==
  IF state = "read_get_addr" /\ addr_cnt = ADDR_BITS - PREFETCH_BITS THEN 1 ELSE 0

PfrIdx == (addr \div NBYTES) % PFR_SPAN

ByteSel == [word |-> pf_regs[Select(PfrIdx)], byte |-> addr % NBYTES]

DrTmp == IF dr_bit_cnt = 0 THEN ByteSel ELSE dr

-----------------------------------------------------------------------------
(* The states of cmd_fsm, on a rising edge with input bit b.                 *)

GetCmd ==
  /\ state = "get_cmd"
  /\ cmd_bit_cnt' = (cmd_bit_cnt + 1) % CMD_BITS
  /\ IF cmd_bit_cnt = CMD_BITS - 1
     THEN state' \in {"read_get_addr", "rdid", "bad_cmd_err"}
     ELSE UNCHANGED state
  /\ UNCHANGED <<addr, addr_cnt, dr, dr_bit_cnt, id_pos, paddr>>

Rdid == /\ state = "rdid"
        /\ id_pos' = (id_pos + 1) % ID_BITS
        /\ UNCHANGED <<state, cmd_bit_cnt, addr, addr_cnt, dr, dr_bit_cnt, paddr>>

ReadGetAddr(b) ==
  /\ state = "read_get_addr"
  /\ addr' = (2 * addr + b) % 2 ^ ADDR_BITS
  /\ addr_cnt' = addr_cnt + 1
  /\ paddr' = IF addr_cnt = ADDR_BITS - 1 - PREFETCH_BITS
              THEN addr' % BLOCKS ELSE paddr
  /\ state' = IF addr_cnt = ADDR_BITS - 1 THEN "read_get_data" ELSE state
  /\ UNCHANGED <<cmd_bit_cnt, dr, dr_bit_cnt, id_pos>>

ReadGetData ==
  /\ state = "read_get_data"
  /\ dr_bit_cnt' = (dr_bit_cnt + 1) % DATA_BITS
  /\ dr' = DrTmp
  /\ addr' = IF dr_bit_cnt = DATA_BITS - 1 THEN (addr + 1) % 2 ^ ADDR_BITS ELSE addr
  /\ UNCHANGED <<state, cmd_bit_cnt, addr_cnt, id_pos, paddr>>

BadCmdErr == state = "bad_cmd_err" /\ UNCHANGED spiVars

SpiReset ==
  /\ state' = "get_cmd" /\ cmd_bit_cnt' = 1
  /\ addr' = 0 /\ addr_cnt' = 0 /\ dr' = NoByte /\ dr_bit_cnt' = 0
  /\ id_pos' = 0 /\ paddr' = 0

SpiRise ==
  /\ csn = 0 /\ clk = 0 /\ clk' = 1 /\ rst' = 0
  /\ TIMED => ticks = TICKS
  /\ ticks' = 0
  /\ \/ rst = 1 /\ SpiReset
     \/ rst = 0 /\ \/ GetCmd \/ Rdid \/ ReadGetData \/ BadCmdErr
                   \/ \E b \in {0, 1} : ReadGetAddr(b)
  /\ moved' = (moved \/ paddr' # paddr)
  /\ UNCHANGED <<csn, so, syncVars, stall, dramVars>>

(* The falling edge shows the next bit of the byte, or of nothing.           *)
Shown == [src |-> IF rst = 0 /\ state = "read_get_data" THEN DrTmp ELSE NoByte,
          bit |-> dr_bit_cnt]

SpiFall ==
  /\ csn = 0 /\ clk = 1 /\ clk' = 0
  /\ so' = Shown
  /\ UNCHANGED <<csn, rst, spiVars, syncVars, moved, ticks, stall, dramVars>>

(* Chip select, moved by a mode 0 host: it falls with the clock low; it may  *)
(* rise at any time and takes the gated clock down with it.  That edge races *)
(* with the reset of its own domain; without it the output register stays.   *)
CsnFall == /\ csn = 1 /\ csn' = 0
           /\ UNCHANGED <<clk, rst, spiVars, so, syncVars, moved, ticks, stall, dramVars>>

CsnRise ==
  /\ csn = 0 /\ csn' = 1 /\ clk' = 0 /\ rst' = 1
  /\ so' \in IF clk = 1 THEN {NothingShown, Shown} ELSE {so}
  /\ UNCHANGED <<spiVars, syncVars, moved, ticks, stall, dramVars>>

-----------------------------------------------------------------------------
(* The system clock.  paddr is not synchronized: if it moved since the last  *)
(* edge, the FSM may latch any mixture of its bits.                          *)
Waits(ready, valid) == \/ dram_state = "RD_LAUNCH" /\ ready = 0
                       \/ dram_state = "RD_LAND" /\ valid = 0

SysTick(ready, valid) ==
  /\ \E p \in (IF moved /\ sync2 = 1 /\ dram_state = "IDLE" THEN Block ELSE {paddr}) :
       DramClock(sync2, p, ready, valid)
  /\ sync1' = PaddrValid /\ sync2' = sync1
  /\ moved' = FALSE
  /\ IF TIMED
     THEN /\ ticks' = IF ticks < TICKS THEN ticks + 1 ELSE ticks
          /\ Waits(ready, valid) => stall < MAX_STALL
          /\ stall' = CASE dram_state = "IDLE" -> 0
                        [] Waits(ready, valid) -> stall + 1
                        [] OTHER -> stall
     ELSE UNCHANGED <<ticks, stall>>
  /\ UNCHANGED <<pinVars, spiVars, so>>

Init == /\ csn = 1 /\ clk = 0 /\ rst = 1
        /\ state = "get_cmd" /\ cmd_bit_cnt = 1 /\ addr = 0 /\ addr_cnt = 0
        /\ dr = NoByte /\ dr_bit_cnt = 0 /\ id_pos = 0 /\ paddr = 0
        /\ so = NothingShown
        /\ sync1 = 0 /\ sync2 = 0 /\ moved = FALSE
        /\ ticks = 0 /\ stall = 0
        /\ DramInit

Sys == \E ready, valid \in {0, 1} : SysTick(ready, valid)

Next == SpiRise \/ SpiFall \/ CsnFall \/ CsnRise \/ Sys

Spec == Init /\ [][Next]_vars
-----------------------------------------------------------------------------
(* The system clock never stops, and the DRAM does not refuse a command or   *)
(* withhold data for ever.  Nothing is assumed of the host.                  *)
Accepts == dram_state = "RD_LAUNCH" /\ \E valid \in {0, 1} : SysTick(1, valid)
Delivers == dram_state = "RD_LAND" /\ \E ready \in {0, 1} : SysTick(ready, 1)

Fairness == WF_vars(Sys) /\ WF_vars(Accepts) /\ WF_vars(Delivers)

LiveSpec == Spec /\ Fairness

(* A prefetch that has begun comes to its end, whatever the host does to the *)
(* SPI side meanwhile; RD_LAND has no other way out than its last word       *)
(* (emu_dram.py:142-152).                                                    *)
PrefetchCompletes == dram_state = "RD_LAUNCH" ~> dram_state = "IDLE"

(* With the host and the DRAM within their bounds, by the time a byte is due *)
(* the registers in use hold words of the block the address names, however   *)
(* earlier transactions were cut off and whatever a request left pending by  *)
(* one of them made the prefetcher do (emu.py:376-384, emu_dram.py:119-127). *)
ServesRequestedBlock ==
  TIMED /\ rst = 0 /\ state = "read_get_data" =>
    \A i \in 1 .. (NREADS - 1) : pf_regs[i] \div NREADS = paddr

(* An address within the prefetched block is answered with the DRAM's byte.  *)
AnswersFromDram ==
  TIMED /\ rst = 0 /\ state = "read_get_data" /\ addr \div (NREADS * NBYTES) = paddr
    => ByteSel.word = addr \div NBYTES
=============================================================================
