------------------------------- MODULE EmuSim -------------------------------
(* emu-tests/emu_sim.py: the bench that runs the emulator against a SPI host *)
(* and a loader on the SoC's bus.  The host's procedures and the loader's    *)
(* follow one another in any order, as its tests do, the skipped ones too;   *)
(* every step is one of FlashEmu's.                                          *)
EXTENDS FlashEmu

CONSTANTS ReadSizes,     \* bytes a read asks for
          WriteSizes,    \* bytes a loader writes in a row
          RESET_PULSES,  \* clocks given under reset, 5 in the bench
          IDLE_PULSES,   \* clocks given while deselected, 16 in the bench
          CMD_WREN, CMD_WRSR, CMD_RDSR, QE_STATUS  \* 6, 1, 5 and 0x40

ASSUME BenchAssumption ==
  /\ ReadSizes \subseteq Nat \ {0} /\ WriteSizes \subseteq Nat \ {0}
  /\ RESET_PULSES \in Nat /\ IDLE_PULSES \in Nat
  /\ {CMD_WREN, CMD_WRSR, CMD_RDSR} \subseteq Word(CMD_BITS)
  /\ {CMD_WREN, CMD_WRSR, CMD_RDSR} \cap {CMD_READ, CMD_QREAD, CMD_RDID} = {}
  /\ LoadData # {}
  /\ QE_STATUS \in Word(DATA_BITS)

VARIABLES op,      \* the procedure under way, "idle", or "done" with its answer
          out,     \* bits the host has yet to clock out
          answer,  \* of these, how many last ones are clocked to get an answer
          got,     \* what was sampled at them
          req,     \* the address asked for
          buf, ptr \* bytes the loader has yet to write or to read, and where

hostVars == <<op, out, answer, got, req>>
loaderVars == <<buf, ptr>>
benchVars == <<vars, hostVars, loaderVars>>

(* A procedure that answers nothing forgets the last answer.                 *)
NoAnswer == answer' = 0 /\ got' = << >> /\ req' = Zero(ADDR_BITS)

Free == op \in {"idle", "done"}
Sending == op \in {"read", "id", "other"}

(* spi_txfr_start and the bits a procedure will send (tick_si, tick_so).     *)
Start(name, cmd_and_addr, n) ==
  /\ Free
  /\ op' = name /\ out' = cmd_and_addr \o Repeat(n, 0) /\ answer' = n /\ got' = << >>
  /\ SetPins(0, rstn)
  /\ UNCHANGED loaderVars

StartRead == \E a \in Word(ADDR_BITS), n \in ReadSizes :
  /\ Start("read", MsbFirst(CMD_BITS, CMD_READ) \o MsbFirst(ADDR_BITS, a), n * DATA_BITS)
  /\ req' = a

StartId == /\ Start("id", MsbFirst(CMD_BITS, CMD_RDID), ID_BITS)
           /\ req' = Zero(ADDR_BITS)

(* What FlashEmu has no command for, or answers on pins it does not have:    *)
(* the bench never looks at the answer (write_only).                         *)
Discard(bits) == Start("other", bits, 0) /\ req' = Zero(ADDR_BITS)

EnableWrite == Discard(MsbFirst(CMD_BITS, CMD_WREN))

EnableQuadMode == Discard(MsbFirst(CMD_BITS, CMD_WRSR) \o MsbFirst(DATA_BITS, QE_STATUS))

ReadStatus == Discard(MsbFirst(CMD_BITS, CMD_RDSR) \o Repeat(DATA_BITS, 0))

QuadRead == \E a \in Word(ADDR_BITS), n \in ReadSizes :
  Discard(MsbFirst(CMD_BITS, CMD_QREAD) \o MsbFirst(ADDR_BITS, a) \o Repeat(n * DATA_BITS, 0))

(* tick_si: the host reads so as it raises the clock, before the edge.       *)
TickHigh == /\ Sending /\ out # << >>
            /\ SclkRise(Head(out))
            /\ out' = Tail(out)
            /\ got' = IF Len(out) <= answer THEN Append(got, So) ELSE got
            /\ UNCHANGED <<op, answer, req, loaderVars>>

TickLow == /\ Sending
           /\ SclkFall
           /\ UNCHANGED <<hostVars, loaderVars>>

End == /\ Sending /\ out = << >> /\ sclk = 0
       /\ SetPins(1, rstn)
       /\ op' = IF op = "read" THEN "done" ELSE "idle"
       /\ UNCHANGED <<out, answer, got, req, loaderVars>>

(* reset_flash: the clock runs for a while under reset.                      *)
StartReset == /\ Free /\ op' = "reset"
              /\ SetPins(csn, 0)
              /\ out' = Repeat(RESET_PULSES, 0) /\ NoAnswer
              /\ UNCHANGED loaderVars

(* inc_flash_cnt: clocks for a chip that is not selected.                    *)
StartPulses == /\ Free /\ op' = "pulses" /\ out' = Repeat(IDLE_PULSES, 0)
               /\ NoAnswer
               /\ UNCHANGED <<vars, loaderVars>>

Pulse == /\ op \in {"reset", "pulses"}
         /\ \/ out # << >> /\ SclkRise(0) /\ out' = Tail(out)
            \/ SclkFall /\ UNCHANGED out
         /\ UNCHANGED <<op, answer, got, req, loaderVars>>

EndReset == /\ op = "reset" /\ out = << >> /\ sclk = 0 /\ op' = "idle"
            /\ SetPins(csn, 1)
            /\ UNCHANGED <<out, answer, got, req, loaderVars>>

EndPulses == /\ op = "pulses" /\ out = << >> /\ sclk = 0 /\ op' = "idle"
             /\ UNCHANGED <<vars, out, answer, got, req, loaderVars>>

(* The n addresses from a on are all the memory's.                           *)
InMemory(a, n) == \A k \in 1 .. (n - 1) : Plus(MEM_BITS, a, k) # Zero(MEM_BITS)

(* read_flash_wb: take the memory, read a few bytes over the bus, give it    *)
(* back.                                                                     *)
StartBusRead == \E a \in Word(MEM_BITS), n \in ReadSizes :
  /\ Free /\ op' = "busread" /\ InMemory(a, n)
  /\ LoaderSelect(1)
  /\ buf' = [k \in 1 .. n |-> Zero(DATA_BITS)] /\ ptr' = a
  /\ req' = [i \in 0 .. (ADDR_BITS - 1) |-> IF i < MEM_BITS THEN a[i] ELSE 0]
  /\ got' = << >> /\ answer' = n * DATA_BITS
  /\ UNCHANGED out

ReadByte == /\ op = "busread" /\ buf # << >>
            /\ LoaderCycle(ptr, 0, Head(buf))
            /\ got' = got \o MsbFirst(DATA_BITS, DatR')
            /\ buf' = Tail(buf) /\ ptr' = Inc(MEM_BITS, ptr)
            /\ UNCHANGED <<op, out, answer, req>>

EndBusRead == /\ op = "busread" /\ buf = << >> /\ op' = "done"
              /\ LoaderSelect(0)
              /\ UNCHANGED <<out, answer, got, req, loaderVars>>

(* write_flash_wb: take the memory, write a few bytes, give it back.         *)
StartWrite == \E a \in Word(MEM_BITS), n \in WriteSizes, d \in LoadData :
  /\ Free /\ op' = "write" /\ InMemory(a, n)
  /\ LoaderSelect(1)
  /\ buf' = [k \in 1 .. n |-> d] /\ ptr' = a
  /\ NoAnswer
  /\ UNCHANGED out

WriteByte == /\ op = "write" /\ buf # << >>
             /\ LoaderCycle(ptr, 1, Head(buf))
             /\ buf' = Tail(buf) /\ ptr' = Inc(MEM_BITS, ptr)
             /\ UNCHANGED hostVars

EndWrite == /\ op = "write" /\ buf = << >> /\ op' = "idle"
            /\ LoaderSelect(0)
            /\ UNCHANGED <<out, answer, got, req, loaderVars>>

BenchInit == /\ Init
             /\ op = "idle" /\ out = << >> /\ answer = 0 /\ got = << >>
             /\ req = Zero(ADDR_BITS)
             /\ buf = << >> /\ ptr = Zero(MEM_BITS)

BenchNext == \/ StartRead \/ StartId \/ EnableWrite \/ EnableQuadMode
             \/ ReadStatus \/ QuadRead \/ TickHigh \/ TickLow \/ End
             \/ StartReset \/ StartPulses \/ Pulse \/ EndReset \/ EndPulses
             \/ StartBusRead \/ ReadByte \/ EndBusRead
             \/ StartWrite \/ WriteByte \/ EndWrite

BenchSpec == BenchInit /\ [][BenchNext]_benchVars
-----------------------------------------------------------------------------
(* A read that follows whatever reads, resets, loads, unknown commands and   *)
(* stray clocks is answered with the bytes now in the memory, the loader's   *)
(* among them, from the address on: over the SPI pins, where it wraps at the *)
(* end of the memory, and over the bus alike (emu_sim.py:381-402, 454-481).  *)
ReadReturnsMemory ==
  op = "done" =>
    /\ Len(got) = answer
    /\ \A k \in 0 .. (Len(got) \div DATA_BITS - 1), j \in 1 .. DATA_BITS :
         got[k * DATA_BITS + j] = mem[Low(MEM_BITS, Plus(ADDR_BITS, req, k))][DATA_BITS - j]

(* The identification word is answered from its first bit (emu_sim.py:445).  *)
IdReturnsIdcode ==
  op = "id" => \A j \in 1 .. Len(got) : got[j] = IDCODE[ID_BITS - j]
=============================================================================
