------------------------------ MODULE EmuArty ------------------------------
(* emu-tests/emu_arty.py: the emulator on the Arty board, where its reset    *)
(* line is the SoC's own reset, the memory is loaded by any master of the    *)
(* bus through JTAG, and the SPI host is ftdi_cli.py.  None of the three     *)
(* waits for another: a reset or a load may come between any two edges of    *)
(* the host's clock.                                                         *)
EXTENDS FlashEmu

CONSTANT READ_BYTES   \* bytes a read asks for, 4 in ftdi_cli.py

ASSUME ReadBytesAssumption == READ_BYTES \in Nat \ {0}

(* The end of a command the host sends, and the level it leaves its output   *)
(* at, do not make a command again: true of 03, 6B and 9F.                   *)
ASSUME SilenceAssumption ==
  \A s \in 1 .. CMD_BITS :
    \A w \in {<<CMD_READ, 0>>, <<CMD_RDID, 0>>, <<CMD_RDID, CMD_RDID[0]>>} :
      [i \in 0 .. (CMD_BITS - 1) |-> IF i >= s THEN w[1][i - s] ELSE w[2]]
        \notin {CMD_READ, CMD_QREAD, CMD_RDID}

VARIABLES sys_rst,   \* the SoC's reset
          clocked,   \* the system clock has ticked under it
          op,        \* the exchange under way, "idle", or "done" with its answer
          frame,     \* the bits the host clocks out in it
          sent,      \* how many it has
          answer,    \* the answer is what it samples with the last so many
          got,       \* what it sampled
          taken,     \* history: the loader selected the memory since the reset
          clean,     \* history: neither loader nor reset during the exchange
          cut        \* history: reset after the first edge of the exchange

hostVars == <<op, frame, sent, answer, got>>
socVars == <<sys_rst, clocked, taken>>
archVars == <<clean, cut>>
artyVars == <<vars, hostVars, socVars, archVars>>

(* SpiPort.exchange: chip select, the bytes to send, then clocks alone for   *)
(* those to receive, the output left low or at the last bit sent.            *)
Exchange(name, bits, n) == \E level \in {0, bits[Len(bits)]} :
  /\ op \in {"idle", "done"}
  /\ op' = name /\ frame' = bits \o Repeat(n, level) /\ sent' = 0
  /\ answer' = n /\ got' = << >>
  /\ SetPins(0, rstn)
  /\ clean' = (sys_rst = 0 /\ ~taken) /\ cut' = FALSE
  /\ UNCHANGED socVars

ReadId == Exchange("id", MsbFirst(CMD_BITS, CMD_RDID), ID_BITS)

ReadFirstBytes == Exchange("read", MsbFirst(CMD_BITS, CMD_READ) \o Repeat(ADDR_BITS, 0),
                           READ_BYTES * DATA_BITS)

Exchanging == op \in {"id", "read"}

High == /\ Exchanging /\ sent < Len(frame)
        /\ SclkRise(frame[sent + 1])
        /\ sent' = sent + 1
        /\ got' = IF sent >= Len(frame) - answer THEN Append(got, So) ELSE got
        /\ cut' = (cut \/ sys_rst = 1)
        /\ UNCHANGED <<op, frame, answer, socVars, clean>>

LowClk == Exchanging /\ SclkFall /\ UNCHANGED <<hostVars, socVars, archVars>>

End == /\ Exchanging /\ sent = Len(frame) /\ sclk = 0
       /\ SetPins(1, rstn)
       /\ op' = (IF op = "read" THEN "done" ELSE "idle")
       /\ UNCHANGED <<frame, sent, answer, got, socVars, archVars>>

(* The SoC's reset is the emulator's reset line, inverted, at once.          *)
SysReset == /\ sys_rst = 0 /\ sys_rst' = 1 /\ clocked' = FALSE
            /\ SetPins(csn, 0)
            /\ taken' = FALSE
            /\ clean' = FALSE /\ cut' = (cut \/ (Exchanging /\ sent > 0))
            /\ UNCHANGED hostVars

(* A clock under reset gives the select CSR its reset value.                 *)
SelKept == sel  \* mutant of SelReset
SelReset == 0

SysClockUnderReset ==
  /\ sys_rst = 1 /\ ~clocked /\ clocked' = TRUE
  /\ IF sel # SelReset THEN LoaderSelect(SelReset) ELSE UNCHANGED vars
  /\ UNCHANGED <<hostVars, sys_rst, taken, archVars>>

SysRelease == /\ sys_rst = 1 /\ clocked /\ sys_rst' = 0
              /\ SetPins(csn, 1)
              /\ UNCHANGED <<hostVars, clocked, taken, archVars>>

(* The bus: a store to the memory that is not selected is lost.              *)
BusSelect == \E v \in Bit :
  /\ sys_rst = 0 /\ LoaderSelect(v)
  /\ taken' = (v = 1) /\ clean' = FALSE
  /\ UNCHANGED <<hostVars, sys_rst, clocked, cut>>

BusCycle == \E a \in Word(MEM_BITS), we \in Bit, d \in LoadData :
  /\ sys_rst = 0 /\ LoaderCycle(a, we, d)
  /\ clean' = FALSE
  /\ UNCHANGED <<hostVars, socVars, cut>>

ArtyInit == /\ Init
            /\ sys_rst = 0 /\ clocked = TRUE
            /\ op = "idle" /\ frame = << >> /\ sent = 0 /\ answer = 0 /\ got = << >>
            /\ taken = FALSE /\ clean = FALSE /\ cut = FALSE

ArtyNext == \/ ReadId \/ ReadFirstBytes \/ High \/ LowClk \/ End
            \/ SysReset \/ SysClockUnderReset \/ SysRelease
            \/ BusSelect \/ BusCycle

ArtySpec == ArtyInit /\ [][ArtyNext]_artyVars
-----------------------------------------------------------------------------
(* A read the loader and the reset leave alone is answered with the memory,  *)
(* whatever reads they cut before, as long as the loader gave the memory     *)
(* back or a reset took it away from it (emu.py:97-114, emu_mem.py:90-97).   *)
CleanReadReturnsMemory ==
  op = "done" /\ clean =>
    /\ Len(got) = answer
    /\ \A k \in 0 .. (READ_BYTES - 1), j \in 1 .. DATA_BITS :
         got[k * DATA_BITS + j]
           = mem[Low(MEM_BITS, Plus(ADDR_BITS, Zero(ADDR_BITS), k))][DATA_BITS - j]

(* The identification does not need the memory: only a reset can spoil it.   *)
IdReturnsIdcode ==
  op = "id" /\ ~cut => \A j \in 1 .. Len(got) : got[j] = IDCODE[ID_BITS - j]

(* After a reset in the middle of an exchange the emulator takes what is     *)
(* left of the host's bits for a new command.  No end of a command, nor of   *)
(* the zeros of the address, makes one it knows: it keeps silent for the     *)
(* rest of the exchange and never answers what was not asked.                *)
CutExchangeIsSilent == Exchanging /\ cut => So = HiZ
=============================================================================
