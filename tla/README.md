# LiteSPIh4x in TLA+

LiteSPIh4x (`src/`) is Migen/LiteX gateware and the scripts around it: emulators
of a SPI NOR flash, one over a block RAM and one over DRAM, a JTAG test access
port and small test peripherals. This directory holds TLA+ models of the
gateware, TLC configurations that check them on small instances, and TLAPS
proofs of the main safety properties for every width and geometry.

`PROJECT.json` lists, for every definition that models code, the source lines it
stands for; every run with its properties; for every property a plausible bug
(a *mutant*) that the run detects; the hazards of the code and the properties
that watch them; and the theorems.

To check a module: `tlc -config MCFlashEmu.cfg MCFlashEmu.tla`; to check a
module's proofs: `tlapm FlashEmuProofs.tla`.

## 1. The system

### Components

| component | state | operations | hard behaviour |
|---|---|---|---|
| **FlashEmu** `emu.py:89-286` | `cmd_fsm`, shift registers for command, address and data, bit counters, quad mode; output registers on the inverted clock; two asynchronously preset resets | rising and falling edge of the host's clock, chip select, reset pin | it is clocked only by the host: a deselect clocks nothing, so a transaction starts over the leftovers of the one before |
| **FlashEmuMem, MemoryPortMux** `emu_mem.py` | memory, address register of its synchronous port, CSR `sel` | a clock of either side, the CSR write | one port, two clocks, and a multiplexer that switches both asynchronously |
| **FlashEmuLite** `emu.py:289-413` | as FlashEmu, plus the partial address and a two-stage synchronizer | the same, and the system clock | no handshake: the SPI side reads the prefetch registers when the address is complete, whether or not the DRAM has answered |
| **FlashEmuDRAMLite** `emu_dram.py:100-152` | FSM, read counter, address, the registers | the system clock; a LiteDRAM read port | words land by counting alone |
| **FlashEmuDRAM** `emu_dram.py:24-98` with `dram_cli.py` | FSM with delays; CSRs that serve both as parameters and as counters | the system clock; CSR writes of a host | lowering `go` resets the FSM, and neither its counters nor the reads in flight |
| **TickerZeroToMax, BeatTickerZeroToMax** `hello.py:11-65` | counter, tick | a clock | width of the counter against its maximum |
| **JTAGHello** `hello.py:88-104` | data register, output register | edges of TCK under a LiteX phy | both edges used |
| **JTAGTAP** `tap.py` | instruction register, IDCODE, HELLO, BYPASS, output registers | edges of TCK over LiteX's controller | instruction decoded while shifting; registers with two drivers |
| **Second flash** `emu.py:145-190`, `macronix_model.py`, `data/macronix/*.v` | the vendor's status register and mode, which outlive a transaction | edges of the pins the emulator passes on | it takes write commands the emulator ignores, and drives a line the emulator always drives |
| **Emulator bench** `emu-tests/emu_sim.py` | host and loader coroutines | procedures: read over SPI and bus, identify, write enable, quad mode, status, quad read, reset, stray clocks, write over the bus | what a sequence of procedures reads back |
| **Arty board** `emu-tests/emu_arty.py`, `ftdi_cli.py` | SoC reset, bus masters through JTAG, a SPI host | reset, CSR and memory accesses, two exchanges | none of the three waits for another |
| **DRAM simulation** `dram-tests/dram_verilator.py`, `udp2spi_cli.py`, `turboforce_cli.py` | datagrams on their way, SPI master, a client, a fill over Etherbone | one transaction per datagram at a quarter of the system clock | datagrams get lost; the fill passes the emulator by |
| **Read-ahead calculation** `emu-tests/calc.py` | - | counts of reads for every number of guesses | rounding, negative counts |
| other benches, board tops, toolchain reproductions | wiring and I/O | - | - |

### Interactions

- *Host and FlashEmu*: four wires. Only the host has a clock. Chip select and
  reset pin preset the resets of the domains `spi` and `spi_inv` at once; each
  is released by one edge of its own clock.
- *FlashEmu and the loader*: the shared memory. CSR `sel` decides whose address
  and clock the port has. The loader may take it at any time, in the middle of a
  byte too.
- *FlashEmuLite and FlashEmuDRAMLite*: the level `paddr_valid`, up for one SPI
  clock, through a two-stage synchronizer; the partial address, not
  synchronized; the registers, read combinationally from the other domain.
- *DRAM readers and LiteDRAM*: a command stream and a data stream, in order.
- *FlashEmuDRAM and dram_cli.py*: CSR writes over Etherbone. There is no
  `done` CSR: the host lowers `go` after whatever time it takes. On the Arty
  board the logic analyzer's run flag is a second trigger.
- *FlashEmu and the second flash*: the host's clock, chip select, reset and data
  go on to it; nothing comes back.
- *SoC reset and FlashEmu* on the Arty board: the reset is the emulator's reset
  line, and resets the CSR that gives the memory to the loader.
- *Clients and the DRAM simulation*: datagrams, one at a time, matched to their
  request by length alone.

### What makes each component correct

- FlashEmu: whatever the previous transaction left in its registers, the bits
  on its output pin are those of a serial flash; deselected, it never drives.
- FlashEmuMem: a byte being sent does not change under the loader.
- FlashEmuLite, FlashEmuDRAMLite: no word of one prefetch lands in another,
  every prefetch ends, and with a DRAM fast enough a byte comes from the block
  that was asked for.
- FlashEmuDRAM: a run ends; a completed run leaves the CSRs as the host set
  them; what cut runs leave in flight is known.
- Tickers: period and beat. JTAG: what a scan gives out and leaves behind.
- Bench and board: a read returns what the memory holds, and a transaction cut
  by a reset does not turn into another one's answer.
- Second flash: it answers as the emulator does, and the two do not drive one
  line at once unless a quad read makes the line an output.
- DRAM simulation: an answer belongs to its request and is no older than the
  DRAM was when it was asked for; without loss it comes.

## 2. The modules

| module | models | used by |
|---|---|---|
| `Wires` | words of bits, shift, increment | the bit-level modules |
| `SerialFlash` | **abstract**: what a serial flash promises on its pins | `FlashEmu` |
| `FlashEmuMem` | `emu_mem.py` | `FlashEmu` |
| `FlashEmu` | class `FlashEmu`, host, loader | `MCFlashEmu`, `FlashEmuProofs`, `EmuSim`, `EmuArty` |
| `EmuSim` | the procedures of `emu_sim.py` over `FlashEmu` | `MirroredFlash`, `EmuSimProofs` |
| `MirroredFlash` | the second flash behind the emulator, under the bench | `MCMirroredFlash`, `EmuSimProofs` |
| `EmuArty` | SoC reset, bus masters and `ftdi_cli.py` over `FlashEmu` | `MCEmuArty`, `EmuArtyProofs` |
| `ReadPort` | LiteDRAM's read port (external) | both DRAM readers |
| `FlashEmuDRAMLite` | class of that name | `FlashEmuLite` |
| `FlashEmuLite` | class of that name, host, both clocks | `MCFlashEmuLite`, `FlashEmuLiteProofs`, `DramVerilator` |
| `DramVerilator` | SPI master, client, loss and fill over `FlashEmuLite` | `MCDramVerilator`, `FlashEmuLiteProofs` |
| `FlashEmuDRAM` | class of that name, `dram_cli.py`, the analyzer's run flag | `MCFlashEmuDRAM`, `FlashEmuDRAMProofs` |
| `Ticker`, `BeatTicker`, `TickerFreq` | the tickers, and their preload from frequencies | `MCTicker`, `ClockProofs` |
| `ReadAhead` | `calc.py` against a pipeline of reads | its own run, `ClockProofs` |
| `JTAGTAP`, `JTAGHello` | the classes of those names | `MCJTAGTAP`, `MCJTAGHello`, `JTAGTAPProofs`, `JTAGHelloProofs` |

**Steps.** A Migen `sync` block becomes one action, an edge of its clock: all
registers of the domain change at once, from the values before the edge. A
`comb` block becomes an operator of the registers. An FSM state is an operator
of its own and the edge is their disjunction.

**FlashEmu.** `SclkRise(b)` is the domain `spi`, with `b` on the pin `si`: under
reset it loads the reset values (`SpiReset`), otherwise it takes a step of
`cmd_fsm`. The same edge clocks the memory port. `SclkFall` is `spi_inv`, the
output registers. `SetPins` is chip select and reset pin, one at a time, and
their asynchronous presets; the clock may idle high or low while they change.
`LoaderSelect` and `LoaderCycle` are the CSR and bus accesses. What the
asynchronous clock multiplexer latches while it switches is left open: any
address. The variables `fetched`, `nout` and `fresh` are history; no action
reads them.

**SerialFlash** knows no registers, only a phase, the bits of the current field
and the place in the answer. Where the loader took, had or returned the memory since the last
clock, the byte fetched is arbitrary; every other byte is the memory's, and no byte
is a mixture of two fetches.
`FlashEmu!PhaseBar`, `BitsBar` and `PosBar` are the refinement mapping. Registers that are stale while the reset is
held do not show through it; that they do not reach the pins either is what the
refinement says.

**FlashEmuLite.** A DRAM word is its address, a byte its word and place. The
command is chosen when its last bit arrives: how it is assembled is the same code as
in FlashEmu. `SysTick` is the system clock: synchronizer, prefetcher and read
port. Where the partial address changed since the last system clock and the
prefetcher latches it, any block may be latched. The clock gate
`clk & ~csn` is modelled for a host in SPI mode 0, as in the repository's
benches and SPI master: chip select falls with the clock low. When it rises with
the clock high it takes the gated clock down, an edge that races with the reset of
the output register (`CsnRise` allows either outcome); with the clock low that
register keeps what it has.

**ReadPort.** An accepted command joins `inflight`; data come back in order
after any delay. `HoldsData` says whether the port keeps data nobody takes, as a
LiteDRAM port with a read FIFO does. The properties of the prefetcher are stated
for a port that does.

**FlashEmuDRAM.** `GoTo` is the `ResetInserter`: with neither trigger up the next
state is RESET and the saved count and address are cleared (`Save`), but the
writes and the port command of that very clock take place. The host's writes are steps between clocks. `RunFlag` is the analyzer's
flag (`dram_arty.py:97`), which may move at any time, while the host writes the
CSRs too. A CSR written while a run counts with it is overwritten when the run
ends; the history variable `lost` remembers that it happened until the host
writes the CSRs between two runs.

**DramVerilator.** A client sends a request and blocks; the simulated SPI master
plays it at a quarter of the system clock (`OnTime`) to `FlashEmuLite`; either
datagram may be lost, and then only the user helps (`Rerun`). The fill of
`turboforce_cli.py` is one DRAM word a step; each read in flight and each
register carries whether its word is from the fill.

**JTAGTAP.** `TckRise` is the domain `jtag`, `TckFall` the domain `jtag_inv`.
The controller is LiteX's and modelled by the standard's state diagram. IDCODE
and BYPASS are assigned by the clock and combinationally
(`tap.py:47-59, 66-78`); where both assign, the model allows either value.

**EmuSim** restricts FlashEmu's environment to the bench: its procedures follow
one another in any order, and each of its steps is a step of FlashEmu. Commands
FlashEmu does not know, and answers on pins it does not have, are clocked and
not looked at, as in the bench.

**MirroredFlash** conjoins the bench's steps with what the edges do to the
vendor's flash (`RealEdge`): READ, RDID, quad read, RDSR, WREN and WRSR, with
`wel`, `wip` and the quad enable bit. A write ends at any later moment
(`WriteEnds`); during one, only RDSR is taken. The recovery time after a
reset, as this copy of the vendor's model sets it, is over before the bench's
reset pulse ends and does not appear.

**EmuArty**: `SysReset`, `SysClockUnderReset`, `SysRelease` are the SoC's reset;
`BusSelect`, `BusCycle` any bus master; `Exchange` and the clock edges are
pyftdi's SPI port, which may leave its output low or at the last bit sent. The
board's own flash has no reset line and is not the one of `MirroredFlash`.

**TickerFreq** computes the preload as Python does: two roundings of a double,
here of `P` bits, and a truncation.

**ReadAhead** steps a pipeline clock by clock and compares it with the script's
closed formulas.

## 3. The runs

| run | checks | instance | states |
|---|---|---|---|
| `flash_emu` | FlashEmu implements SerialFlash; three invariants below | 2-bit commands, 3-bit addresses, 4 bytes of 4 bits | 917,107 |
| `emu_sim` | the bench reads back what the memory holds; the second flash follows | 3-bit commands, else the same; reads and writes of two bytes | 1,261,333 |
| `emu_arty` | resets, loads and exchanges at any moment | the code's 8-bit commands, 2 bytes of memory | 948,893 |
| `flash_emu_lite` | prefetch accounting; prefetches end | 2 words of 2 bytes, 2 blocks, any speeds | 55,390 |
| `flash_emu_lite_timed` | the block is there when its byte is due | 4 words of 16 bytes, 4 blocks | 898,446 |
| `flash_emu_lite_answers` | *violated*: the byte is the DRAM's | the same | - |
| `dram_verilator` | what a client is answered | the same, two requests, a fill of two blocks | 91,606 |
| `flash_emu_dram` | CSRs, reads left behind, read-back word, end of runs | blocks of 1 and 3 words, a port of 3, both triggers | 499,668 |
| `ticker` | periods, beat, liveness, preloads | maxima 29 and 11, and 8 in 3 bits; doubles of 6 bits | 67,456 |
| `read_ahead` | counts and slack | 4 latencies, 3 ratios, 4 widths, 13 bits | 1,504 |
| `jtag_tap` | scans | registers of 3 bits | 296,918 |
| `jtag_hello` | scans | register of 3 bits | 2,213 |

### What they show

*FlashEmu.* `ImplementsSerialFlash`: for a host free to move any pin at any time
and a loader free to take the memory, every step on the pins is a step of
SerialFlash. `DrivesOnlyAnswers`: the gate at `emu.py:175` hides an output enable that a
deselect leaves set. `PortHoldsNextByte`: presenting `addr_next` makes the
synchronous port deliver in time. `ByteIntact`: `dr_tmp` latches the byte at its
first bit.

*Bench.* `ReadReturnsMemory`: a read after any sequence of procedures, over SPI
or over the bus, returns the bytes now in memory; over SPI also past the end of
the memory and back to its start.
`IdReturnsIdcode`: the identification comes from its first bit.

*Second flash.* `AnswersAlike`: where the contents agree, reads and
identifications are answered level by level alike, unless the second flash is
busy with a write the emulator ignored. It is about the devices, not about the
bench's own data: `emu_sim.py` fills the second flash with values of the whole
address, which agree with a memory of 256 bytes below its size only; the run's
contents repeat as the memory does. `DrivesWhereFlashDoes`: the emulator drives
its pin only where the flash drives it with data too; it is silent where nothing
is asked, where the command is one it does not know, and while the flash shows
its status. There are two exceptions: a flash busy with a write takes no reads
and the emulator does, and quad reads are answered whether or not the flash is
in quad mode. `FightsOnlyInQuadReads`: the emulator drives the flash's `si` at all times;
the flash drives it back only in a quad read, which the emulator is answering
at that moment itself.

*Board.* `CleanReadReturnsMemory`: a read that neither reset nor loader touched
is right, whatever they cut before it. `CutExchangeIsSilent`: after a reset in
the middle of an exchange the emulator takes the rest of the host's bits for a
new command; for the two exchanges of `ftdi_cli.py` no such rest is a command
it knows, so it keeps silent.

*FlashEmuLite.* `ReadsAccounted`: reads in flight are the ones awaited, in
order. `RegistersSettle`: between prefetches the registers hold words of one
block - though each one place too high. `PrefetchCompletes`. And `ServesRequestedBlock`: with a system clock four
times the SPI clock (`dram_verilator.py:146-147`) and at most 13 clocks of DRAM
stall per prefetch, data arrive in time, even when a request left pending by a
cut transaction sets off a prefetch of its own; with 14 stalls, in this instance,
they do not.

*DRAM simulation.* `AnswersTheRequest` says exactly what a read is answered: its
bytes in order, of the block of its first address, from the register the byte's
own address selects - past the end of the block from that same block again.
`FilledReadsAreNew`: a read sent when the fill is done shows nothing older,
although nothing invalidates the prefetch registers. `RequestAnswered`: every
request is answered or a datagram was lost.

*FlashEmuDRAM.* `ReadsAccounted` and `ReadbackLags`: a run cut short leaves its
reads in the port for good; each later run takes those first and reads back a
word that many places early. `CsrsRestored`: a completed run leaves the
CSRs as set. `RunEnds`: runs end as long as the reads left behind leave room
for the run's own. All of it with the host's `go` and the analyzer's flag each
starting and cutting runs.

*Tickers.* `TickPeriod`: ticks are `max_cnt + 1` clocks apart. `BeatPeriod`,
`BeatsForever`: two tickers tick together once in the least common multiple of
their periods, for ever. `PeriodWithinAClock`: the roundings of `from_freq` never
make a period long, and make it one clock short only where it should be a whole
number of clocks and the frequency is not a power of two. This is about preloads
only. `NarrowIsSilent` (`SilentWhenNarrow` of a third ticker): a ticker whose
`max_cnt` is itself a power of two never ticks, as its counter is one value short
of it; a clock three or five times the ticker's frequency makes such a `max_cnt`.

*Read-ahead.* `CountsLandedReads`: the script's count is that of a pipeline.
`SlackMeansCovered`: its slack is not negative exactly when every guess is read.

*JTAG.* `InstructionScan`: pauses do not disturb an instruction scan. `HelloScan`
(TAP): the word comes one clock late behind a stale bit, because it passes two
falling-edge registers. `FirstBit`: of IDCODE only the first bit is defined. `HelloScan` (JTAGHello): no delay there.

### A disagreement with the documentation

`AnswersFromDram` says what emulating a flash (README.md:2) means for
FlashEmuLite: the byte answered is the DRAM's byte at the address. It is
violated. `emu_dram.py:146` lands words at `num_prefetch_reads - rd_cnt`, and
`rd_cnt` counts from `num_prefetch_reads - 1`: the first word goes to register
1, the last two to register 3, and register 0 is never written.

### Bounds, and why they are enough

- *Widths in `flash_emu`.* Two command bits encode the three commands and one
  unknown. Three address bits over two memory bits have aliasing and
  wrap-around. Four data bits are two quad steps, as eight are of four. An
  identification of three bits is not a multiple of any of them. The initial
  contents are `emu_mem.py`'s, all different, and the loader's byte is not among
  them. Nothing limits the number of transactions: the state space is finite.
  The invariants are proved for every width.
- *`emu_sim`*: three command bits, so that three of FlashEmu's unknown commands
  are commands of the second flash; `RESET_PULSES` 2 for 5, `IDLE_PULSES` 2 for
  16, `DUMMY_CLOCKS` 2 for 8, reads and writes of two bytes, from every address.
- *`emu_arty`*: the commands have the code's eight bits and values, because
  `CutExchangeIsSilent` is about them; `READ_BYTES` 3 of a memory of two wraps.
- *`flash_emu_lite`*: two reads per prefetch have a first and a last one; two
  blocks tell an old prefetch from a new. `flash_emu_lite_timed` has the code's
  block (`prefetch_bits` 6, 16-byte words) because its timing counts them; it shortens the
  command to four bits and a byte to two, which gives the prefetcher *less*
  time to recover from a cut transaction. `TICKS` 4, `MAX_STALL` 13.
- *`dram_verilator`*: the geometry of `flash_emu_lite_timed`, `MAX_STALL` 15: this
  master completes every transaction, so that no request left pending by a cut
  one delays a prefetch, and two clocks more than for a free host are still in
  time; with 16 `AnswersTheRequest` is violated. One request lies in the filled
  blocks, one runs past the end of its block.
- *`flash_emu_dram`*: `DELAY` 2 for 16; `WORDS` 3 so that addresses wrap;
  `CNT_SPAN` 3; `MAX_OUTSTANDING` 3 holds the longer block exactly, so that reads
  left behind do and do not leave room.
- *`ticker`*: `SINCE_BOUND` and `BEAT_BOUND` only stop history counters beyond
  the longest period. Maxima 29 and 11 have periods 30 and 12, with a common
  divisor: the beat is 60, neither their product nor one of them. The narrow ticker has
  three bits for a maximum of 8. With `P` 6 all
  of exact, rounded up and rounded down happen below `MAX_FREQ` 31; the short
  period does for 13 of 13, 26 of 13, 26 of 26 and 29 of 29.
- *`read_ahead`*: the script's own values (11, 4, 16, 13) and smaller ones.
- *JTAG*: `MAX_SHIFTS` is larger than the registers, so that bits put in
  come out again. Three bits tell first, middle and last.

`CHECK_DEADLOCK` is on wherever a clock can always tick; only `read_ahead`, a
calculation that comes to its end, has it off.

### Fairness

FlashEmuLite, FlashEmuDRAM, the DRAM simulation and the tickers have liveness
properties. Each assumes that the system clock never stops (`WF(Sys)`,
`WF(Clock)`): it is an oscillator. The DRAM readers further assume that the
port does not refuse a command for ever (`WF(Accepts)`) or withhold data for
ever (`WF(Delivers)`): the LiteDRAM crossbar arbitrates round-robin and
refreshes last a bounded time. In the simulation the SPI master is clocked
gateware (`WF(Master)`) and a client blocked in `recvfrom` takes what comes
(`WF(RecvFrom)`); nothing makes the user start a client or rerun one. Nothing
is assumed of any other host. FlashEmu has no liveness: without a host's clock
it rightly does nothing.

## 4. The proofs

The theorems say that every behaviour of a specification has a property (an
inductive invariant, which TLC agreed with first, implies it), or that one
specification implements another. They hold for every value of the constants and
use the named assumptions on the constants only: `WidthAssumption`,
`CommandAssumption` (FlashEmu), `ReadBytesAssumption`, `SilenceAssumption`
(EmuArty), `BenchAssumption` (EmuSim), `FlashAssumption` (MirroredFlash),
`PrefetchAssumption`, `LiteAssumption` (FlashEmuLite), `DramAssumption`,
`RequestAssumption` (DramVerilator), `TickerAssumption`, `TickerBAssumption`,
`FreqAssumption`, `ReadAheadAssumption`, `HelloAssumption` and `TapAssumption`. TLC evaluates each on the runs' instances.
They say of widths and codes what the code's own values satisfy. One is about
particular codes: `SilenceAssumption` (no end of 03 or 9F makes a command once
the host's idle level has followed it). Three state arithmetic, since no installed
prover knows `^`: the last conjunct of `ReadAheadAssumption` (powers of two are
positive), the last two of `RequestAssumption` and the last two of
`FreqAssumption` (the first power is one, the next is twice the one before).

*FlashEmuProofs.* `TypeCorrect`: `TypeOK` alone is not inductive, for `addr_cnt`
is incremented with no visible bound. `AddrCounts` adds that it is below
`ADDR_BITS` while the FSM still counts. `PinSafety`, `PortSafety` and
`ByteSafety` follow from `IInv`, which adds what ties the two clock domains
together: `ResetHeld` (deselected means both resets are up), `RisesFirst` (with
the clock high, the falling-edge domain is not out of reset before the
rising-edge domain), `Driving` (out of reset, an output enable belongs to a state
that answers), `FreshIsOwned` (`fresh` implies the SPI side has the memory) and
`BitCounts` (in quad mode the bit counter takes two values only).
`Refinement`: `Spec => ImplementsSerialFlash`. The
invariant `RInv` adds to `IInv` that the counters a state does not use are zero
(`Unused`), so that the next state starts from there, and how far the
identification word has turned (`Turned`). `Bars` writes the mapping
out by cases of the FSM state; `AppendBit` and `LastBit` relate a shift register
and its counter to a sequence of bits and one more; then there is one lemma per
kind of step (pins, loader, falling edge, rising edge in each state), each
mapping to one step of SerialFlash.

The module ends with FlashEmu as its host sees it, which board and bench share:
`Heard` says where the phase, the bits and the place of the refinement mapping
are after so many bits of a frame, whatever the FSM did to get there; from it and
the refinement follows what the next level of the pin is. That
needs of `Plus`, the address adder, that adding one and then `n` is
adding `n + 1`: `Plus` is a recursive function, and the fact is had without an
induction theorem from the least element of the set of counterexamples
(`WellFoundedInduction`).

*EmuArtyProofs.* `BoardIsEmulator`: the host's exchanges and the board's
resets take only steps of FlashEmu, from `HostOK` (the reset line is the SoC's,
the chip is selected only in an exchange, the host's bits are those of its
command). So the board has all that is proved of FlashEmu, which
`BoardIsSerialFlash` draws. `BoardIdentifies`: an identification gets the
IDCODE. `IdInv` follows it through its levels: `Follows` (the FSM is where the bits
sent put it), `Shows` (the falling edge shows the bit next in turn) and `Sampled`
(how many levels the host has read by now). `BoardReadsMemory` does the same through `Heard` for a
read that stays clean (`Reading`), and needs that the memory port is then the
emulator's (`SelOwned`, `CleanOwned`). `BoardStaysSilent`: `Silenced` says that
after a cut the emulator waits in reset or has heard a last part of the host's frame;
by `SilenceAssumption` no command comes of that.

*EmuSimProofs.* `BenchIsEmulator` and `BenchIsSerialFlash` are for the bench what
they are for the board; `BenchOK` ties the pins to the procedure under way.
`BenchIdentifies` and `BenchReadsMemory`: `ToSend` says that the bits the host
has yet to send are the rest of its frame (`Frame`), and `Asks` what FlashEmu has
heard of it, that it shows the bit of the reply that is due (`Reply`), and that what was
sampled so far is the reply's beginning. `BusReads` is the read over the
bus, byte by byte, and `Done` the answer complete.

`MirrorIsBench`: the second flash changes nothing of the bench, so all of this
holds beside it. The theorems on the flash rest on
`Listening`: the flash and the emulator have heard the same bits (`Mirrors`), the
mode of the flash is what they decode to (`Decoded`, `Understood`), and a
flash not asked anything is quiet (`Quiet`). `FightsAreQuadReads` and
`SilentLikeTheFlash` compare what the two make of these bits. `AnswersLikeTheFlash`
needs `Matches` too: in an exchange of the bench the flash has taken the same
part of the frame as the emulator, so that both show the bit due next.

*FlashEmuLiteProofs.* `TypeCorrect`, `PrefetchAccounting` and `PrefetchedBlock`
follow from `Inv`. Its part on the prefetcher: `AddressesBlock` ties `read_addr` to
the block and the launches so far, `ReadsAccounted` is the in-flight sequence,
`RegistersFill` says what has landed so far during a landing and `RegistersKept`
what stands otherwise. The bound on `read_addr` needs products of constants, kept
in `BlockAddress`.
`ServesInTime`: `EnoughTime => ServesRequestedBlock`. `EnoughTime` is three
inequalities between what the longest prefetch takes (`Whole`) and what the SPI clock
leaves: for the prefetch itself; for that and one that goes first; and for the latter to be over
before the request is withdrawn. The instance of `flash_emu_lite_timed` satisfies the second
with equality, and TLC finds the property violated with one more clock of
stall: none of the time asked for is given away. With the code's 8 and 24 bits, a quarter
of the system clock and four reads, they come to at most 14 clocks of stall. The invariant `InTime`
compares clocks gone by (`Elapsed`, `Since`, counted from the SPI clock's edges and
`ticks`) with clocks left (`Left`): `Early` says that before the request
the prefetcher at most ends what was left pending, `Crossing` when the request
shows behind the synchronizer, and `Answering` that its prefetch waits in time
(`Waiting`), is under way in time (`Fetching`) or is done (`Settled`).

`SimulationIsEmulator`: SPI master, client, lost datagrams and fill take only steps
of FlashEmuLite, so that the above holds in the DRAM simulation. `AnswersInTime` and
`FilledReadsShow` are about what its client is answered, under `TimeToAnswer`:
the longest prefetch, with three clocks for the request to cross, takes no
longer than the `prefetch_bits` address bits behind the request and half a bit; and the
request is down before the shortest prefetch ends. The code's four reads and
quarter of the system clock allow 15 clocks of stall. TLC finds
`AnswersTheRequest` violated with 16, so this too gives nothing away. Neither
property says anything of a transaction under way, so `SimInv` does. `Sequenced`
and `InPosition`: one transaction after the other, and where its bits have put the
FSM, the address and the bit counter. `AtRest`, `CrossesOnce` and `Prefetches`: the
prefetcher rests until this transaction's request; the request crosses by the clock
(`Gone` counts from its bit), and the prefetch is `Awaited`, `Underway`
with no more clocks left than there are before the data and no fewer than keep
it busy until the request is down, or `Complete`; so there is one prefetch to a
transaction, and it is of the block asked for. `Fresh` follows the age of words: those in flight, those
landed, all. `Showing` and `Collected` say of the pin, of the byte being shifted out
and of the answer so far which byte they are and that they are young enough.

*FlashEmuDRAMProofs.* `Accounting`, `Restoring` and `Lagging` follow from `IInv`:
`Accounted` counts the reads in the port from the registers, `Saved` says that a run
knows what was in the CSRs it counts with, `Asked` that what the host asked for is
in the CSRs or in the registers that will restore them, and `Words` that the
reads behind those left by cut runs are the addresses of this run in order. The reads
left behind are a prefix of the same sequence, so that no case has to be made of
how many runs were cut.

*JTAGHelloProofs.* `HelloComesOut`, by reading the register as a window
(`Window`) on a chain made of the word and then of every bit put in; `Paced` says
how many bits have come out by now, `Past` that they were the chain's first.

*JTAGTAPProofs.* `ScansInstruction` and `ScansHello` read each register as such a
window too. What is particular to the TAP is in which of the controller's states, and on
which side of the edge, the window has moved and the bit has come out; the
invariant `IInv` says it state by state. `FirstBitSure` needs of the two drivers
only the capture.

*ClockProofs.* `TicksApart` from `Counts`: while the counter can hold `max_cnt` it
is the time since the last tick. `PowerOfTwoIsSilent`, the theorem of
`SilentWhenNarrow`: when `max_cnt` is the number of values of the counter (`Signal(max=max_cnt)` for a power of two), it
never ticks. `BeatsAtLcm`: while both counters can hold their maxima, each
is the remainder of `beat_since` by its period, so that the two tick together
when both periods divide it and never before (`BeatInv`); if one
cannot, there is no beat at all (`OneIsSilent`). No fact about coprime numbers is
needed. `ReadsCounted`: the loop's count is that of a pipeline (`Piped`).
`SlackIsCover` adds what rounding up a quotient means.

`FreqWithinAClock` is about the floating point of `from_freq`,
for `P` significant bits and frequencies below `2^(P-1)`: with a double's 53, any
clock there is. `Rounded` chooses an exponent, and `RoundedIsClose` shows that there is
one to choose (the least that makes the numerator large enough, `LeastOf`) and that the
result is within half a unit of its last place. `TwoRoundings` says this
of the period in seconds, `1/f` rounded to `M/K`, and of that in clocks, `s*M/K` rounded
to `N/L`. Then `s*M/K` is within half of `1/f` of the exact `s/f` (`ProductIsClose`); the second rounding has units smaller than `1/f`
(`RoomForFractions`), the distance of `s/f` from a whole number it does
not equal. So `N/L` does not reach the whole number above (`NotSlow`) nor fall below one
that is less than `s/f` (`NotFast`), and the truncation can go wrong only where
`s/f` is whole (`PeriodAsAsked`). Nothing is rounded at all when `f` is a power of two
that divides `s` (`StaysExact`, `PeriodOfPower`). `TicksAsAsked` and `BeatsAtSlower` put
counter and preload together: what a ticker made by `from_freq` does on its
clock, in terms of the frequencies asked for.

*Only model-checked.* Liveness: `PrefetchCompletes`, `RunEnds`, `BeatsForever` and
`RequestAnswered` need fairness and `ENABLED`, which the installed provers
cannot do. Every invariant a passing run checks is stated by a theorem. The
facts of `^` in the assumptions are its definition, which no prover unfolds; TLC
evaluates them on the runs' instances.

## 5. Not modelled

- *The rest of the Macronix model* (program, erase, suspend, protection): it is the
  vendor's. MirroredFlash has what the two benches ask of it.
- *`jtaglet_tap.py`* instantiates Verilog that is not in the repository.
- *`cocotb-tests/sim.py`* does not elaborate: it passes a `TSTriple` where
  `Instance` wants a signal.
- *Examples*: `sim.py` calls JTAGHello with arguments it does not have; the board
  files are wiring. `emu_cli.py` is only its interpreter line.
- *The FSM reset experiments* are two-state reproductions of a toolchain's
  behaviour; migen's feeds a reset synchronizer from its own output and does
  not convert. The other *toolchain experiments* (clock domains, altera memory,
  RPyC timing) have no behaviour of this program.
- *The SoC identifier*, which the scripts read and print.
- *The UDP bridge* (`serial2udp`) is not in the repository: datagrams can be lost,
  and an answer is accepted by its length, as the clients do.
- *Metastability* other than its outcome: the synchronizers take their two
  clocks, an unsynchronized bus yields any value. Glitches on `paddr_valid`,
  which crosses domains from combinational logic, are not modelled.
- *Debug counters* (`cnt` in the emulators): they feed nothing.
- *A store while `sel` gives the port to the SPI side* is acknowledged on the
  bus and lost. It changes no state, so the models take no step for it.

## 6. Plan

Done, in the order of importance: FlashEmu with its abstract specification, its
invariants and the refinement, all proved; FlashEmuLite with its timing, proved;
FlashEmuDRAM with proofs; the board and its script over FlashEmu, and the bench with
its second flash, both proved to implement it and to read back what they should; the DRAM simulation with its
clients, proved to answer them; the tickers from frequency to beat, the read-ahead
calculation and the JTAG scans, proved, the floating point included. Next: a
DRAM port that drops its data, to show which late or early answers
the prefetcher survives.
