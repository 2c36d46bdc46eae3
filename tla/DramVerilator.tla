--------------------------- MODULE DramVerilator ---------------------------
(* dram-tests/dram_verilator.py and the programs that use it: udp2spi_cli.py *)
(* sends a SPI transaction in a datagram and blocks until the answer's       *)
(* datagram; the simulated SoC's SPI master plays it at a quarter of the     *)
(* system clock to a FlashEmuLite and sends back what it sampled; and        *)
(* turboforce_cli.py fills two blocks of the DRAM over Etherbone.  The fill  *)
(* and the transaction meet only in the DRAM, and a datagram may be lost.    *)
EXTENDS FlashEmuLite

CONSTANTS ReadRequests,  \* what read() is called with: [addr, sz]
          FILL_FIRST,    \* first DRAM word of the fill
          FILL_WORDS     \* its length in DRAM words, 8 in the code

ASSUME RequestAssumption ==
  /\ ReadRequests \subseteq [addr : 0 .. (2 ^ ADDR_BITS - 1), sz : Nat \ {0}]
  /\ FILL_FIRST \in Nat /\ FILL_WORDS \in Nat
  /\ 2 ^ 0 = 1
  /\ \A i \in 0 .. (ADDR_BITS - 1) : 2 ^ i \in Nat \ {0} /\ 2 ^ (i + 1) = 2 * 2 ^ i

VARIABLES pc,        \* the client: "idle", "waiting", or "done" with an answer
          req,       \* its request: cmd, addr, sz
          net,       \* the datagram on its way: "none", "request", "response"
          lost,      \* one was lost
          master,    \* the SPI master: "idle" or "busy"
          clocked,   \* bits it has clocked
          miso,      \* what it sampled after command and address
          filled,    \* DRAM words filled so far
          invers,    \* of each read in flight: filled when it was launched
          pfvers,    \* of each register: its word is from the fill
          shown,     \* of the byte on the pin: likewise
          sentFilled \* history: the fill was complete when the request was sent

clientVars == <<pc, req, sentFilled>>
masterVars == <<master, clocked, miso>>
versionVars == <<invers, pfvers>>
benchVars == <<vars, clientVars, net, lost, masterVars, filled, versionVars, shown>>

-----------------------------------------------------------------------------
(* The client.                                                               *)

HeaderBits == CMD_BITS + (IF req.cmd = "rdid" THEN 0 ELSE ADDR_BITS)
FrameBits == HeaderBits + req.sz * DATA_BITS

(* The assertion on the answer's length, of which miso keeps what comes      *)
(* after the header; otherwise the client dies.                              *)
LengthOfAll == Len(miso) = FrameBits  \* mutant: the header counted twice
RightLength == Len(miso) + HeaderBits = FrameBits

SendTo(r) == /\ pc \in {"idle", "done"} /\ pc' = "waiting"
             /\ req' = r /\ net' = "request"
             /\ sentFilled' = (filled = FILL_WORDS)
             /\ miso' = << >>
             /\ UNCHANGED <<vars, lost, master, clocked, filled, versionVars, shown>>

GetIdcode == SendTo([cmd |-> "rdid", addr |-> 0, sz |-> 3])

Read == \E r \in ReadRequests :
  SendTo([cmd |-> "read_get_addr", addr |-> r.addr, sz |-> r.sz])

RecvFrom == /\ pc = "waiting" /\ net = "response" /\ RightLength
            /\ pc' = "done" /\ net' = "none"
            /\ UNCHANGED <<vars, req, sentFilled, lost, masterVars, filled,
                           versionVars, shown>>

(* Nobody repeats a lost datagram, and recvfrom has no timeout.              *)
Lose == /\ net # "none" /\ net' = "none" /\ lost' = TRUE
        /\ UNCHANGED <<vars, clientVars, masterVars, filled, versionVars, shown>>

(* The user gives up on a blocked client and starts another one.             *)
Rerun == /\ lost /\ lost' = FALSE /\ pc' = "idle"
         /\ UNCHANGED <<vars, req, sentFilled, net, masterVars, filled, versionVars, shown>>

-----------------------------------------------------------------------------
(* The SPI master: chip select around the datagram's bytes, most significant *)
(* bit first, so sampled as the clock rises.                                 *)
AddrBit == (req.addr \div 2 ^ (ADDR_BITS - 1 - addr_cnt)) % 2

MasterStart == /\ net = "request" /\ master = "idle"
               /\ CsnFall
               /\ net' = "none" /\ master' = "busy" /\ clocked' = 0
               /\ UNCHANGED <<clientVars, lost, miso, filled, versionVars, shown>>

MasterRise ==
  /\ master = "busy" /\ clocked < FrameBits
  /\ SpiRise
  /\ state = "get_cmd" /\ state' # "get_cmd" => state' = req.cmd
  /\ rst = 0 /\ state = "read_get_addr" => addr' = (2 * addr + AddrBit) % 2 ^ ADDR_BITS
  /\ clocked' = clocked + 1
  /\ miso' = IF clocked >= HeaderBits
             THEN Append(miso, [src |-> so.src, bit |-> so.bit, new |-> shown])
             ELSE miso
  /\ UNCHANGED <<clientVars, net, lost, master, filled, versionVars, shown>>

(* Half a period later.  A byte taken from a register carries its version.   *)
MasterFall ==
  /\ master = "busy" /\ ticks = TICKS \div 2
  /\ SpiFall
  /\ shown' = IF state = "read_get_data" /\ dr_bit_cnt = 0
              THEN pfvers[Select(PfrIdx)] ELSE shown
  /\ UNCHANGED <<clientVars, net, lost, masterVars, filled, versionVars>>

MasterEnd == /\ master = "busy" /\ clocked = FrameBits /\ clk = 0 /\ ticks = TICKS
             /\ CsnRise
             /\ master' = "idle" /\ net' = "response"
             /\ UNCHANGED <<clientVars, lost, clocked, miso, filled, versionVars, shown>>

-----------------------------------------------------------------------------
(* The DRAM, word by word: the fill, and the reads of the prefetcher.  A     *)
(* read sees the word as it was when launched, or as it is by then.          *)
Filled(w) == FILL_FIRST <= w /\ w < FILL_FIRST + filled

Fill == /\ filled < FILL_WORDS /\ filled' = filled + 1
        /\ UNCHANGED <<vars, clientVars, net, lost, masterVars, versionVars, shown>>

(* The system clock, of which the SPI clock is a division.                   *)
OnTime == /\ ticks = TICKS \div 2 => clk = 0
          /\ ticks = TICKS => master = "idle"

Clock ==
  /\ OnTime
  /\ Sys
  /\ \/ /\ Len(inflight') > Len(inflight)
        /\ invers' = Append(invers, Filled(read_addr)) /\ UNCHANGED pfvers
     \/ /\ Len(inflight') < Len(inflight)
        /\ invers' = Tail(invers)
        /\ \E v \in {Head(invers), Filled(Head(inflight))} :
             pfvers' = [pfvers EXCEPT ![LandIndex] = v]
     \/ /\ Len(inflight') = Len(inflight) /\ UNCHANGED versionVars
  /\ UNCHANGED <<clientVars, net, lost, masterVars, filled, shown>>

BenchInit == /\ Init
             /\ pc = "idle" /\ req = [cmd |-> "rdid", addr |-> 0, sz |-> 3]
             /\ sentFilled = FALSE /\ net = "none" /\ lost = FALSE
             /\ master = "idle" /\ clocked = 0 /\ miso = << >>
             /\ filled = 0 /\ invers = << >> /\ shown = FALSE
             /\ pfvers = [i \in 0 .. (NREADS - 1) |-> FALSE]

Client == GetIdcode \/ Read \/ RecvFrom \/ Rerun
Master == MasterStart \/ MasterRise \/ MasterFall \/ MasterEnd

BenchNext == Client \/ Master \/ Lose \/ Fill \/ Clock

BenchSpec == BenchInit /\ [][BenchNext]_benchVars

(* The simulation runs on by itself, and a client that is being answered     *)
(* takes its answer.                                                         *)
BenchFairness == WF_benchVars(Clock) /\ WF_benchVars(Master) /\ WF_benchVars(RecvFrom)

BenchLiveSpec == BenchSpec /\ BenchFairness
-----------------------------------------------------------------------------
(* The answer to a read has its size, and the bits of each byte in order, of *)
(* the word the prefetch of the first address's block put in the register    *)
(* that the byte's own address selects: past the end of the block it goes on *)
(* with words of that same block, and register 0 was never written           *)
(* (emu.py:332-343, 372-401, emu_dram.py:146, udp2spi_cli.py:21-29).         *)
AnsweredWord(a) ==
  LET i == Select((a \div NBYTES) % PFR_SPAN)
  IN  IF i = 0 THEN NoWord ELSE Landed((req.addr \div (NREADS * NBYTES)) % BLOCKS, i)

AnswersTheRequest ==
  pc = "done" /\ req.cmd = "read_get_addr" =>
    /\ Len(miso) = req.sz * DATA_BITS
    /\ \A k \in 1 .. Len(miso) :
         LET a == (req.addr + (k - 1) \div DATA_BITS) % 2 ^ ADDR_BITS
         IN  /\ miso[k].src = [word |-> AnsweredWord(a), byte |-> a % NBYTES]
             /\ miso[k].bit = (k - 1) % DATA_BITS

(* A read sent when the fill is complete is answered from the fill: what the *)
(* prefetches of earlier reads left in the registers does not show, although *)
(* nothing tells the emulator that the DRAM has changed                      *)
(* (turboforce_cli.py:40-43, emu_dram.py:119-152).                           *)
FilledReadsAreNew ==
  pc = "done" /\ sentFilled =>
    \A k \in 1 .. Len(miso) : Filled(miso[k].src.word) => miso[k].new

(* A request is answered, unless one of its datagrams is lost: then the      *)
(* client waits for ever (udp2spi_cli.py:26).                                *)
RequestAnswered == pc = "waiting" ~> pc = "done" \/ lost
=============================================================================
