----------------------------- MODULE ReadAhead -----------------------------
(* emu-tests/calc.py: how much of what a flash may be asked for next can be  *)
(* read ahead from the DRAM.  A read is issued every system clock and its    *)
(* word comes a fixed latency later; i bits before the end of the address    *)
(* there are 2^i addresses to guess, and i SPI clocks to read them in.       *)
EXTENDS Integers

CONSTANTS Latencies,  \* dfi_latency, 11 in the script
          ClkRatios,  \* clk_ratio, 4
          Widths,     \* word_width, 16
          MAX_GUESS   \* bits left of the address, 13 at most

ASSUME ReadAheadAssumption ==
  /\ Latencies \subseteq Nat /\ ClkRatios \subseteq Nat \ {0}
  /\ Widths \subseteq Nat \ {0} /\ MAX_GUESS \in Nat
  /\ \A i \in 0 .. MAX_GUESS : 2 ^ i \in Nat \ {0}  \* which no prover knows of ^

VARIABLES dfi_latency, clk_ratio, word_width,
          clk,      \* system clocks since the first read was issued
          landed    \* words that have come

params == <<dfi_latency, clk_ratio, word_width>>
calcVars == <<params, clk, landed>>

SysClkForReadN(n) == dfi_latency + n

SysClkToReadNOver(n) == n - dfi_latency + 1  \* mutant: off by one
SysClkToReadN(n) == n - dfi_latency

(* One round of the script's loop.                                           *)
SysClks(i) == clk_ratio * i
NReads(i) == SysClkToReadN(SysClks(i)) + 1
NumGuesses(i) == 2 ^ i
NReadsToGetGuessesFloor(i) == NumGuesses(i) \div word_width  \* mutant: no ceil
NReadsToGetGuesses(i) == (NumGuesses(i) + word_width - 1) \div word_width
SlackSysClks(i) == SysClks(i) - SysClkForReadN(NReadsToGetGuesses(i) - 1)

CalcInit ==
  /\ dfi_latency \in Latencies /\ clk_ratio \in ClkRatios /\ word_width \in Widths
  /\ clk = 0 /\ landed = IF dfi_latency = 0 THEN 1 ELSE 0

(* The read issued dfi_latency clocks ago comes, if there was one.           *)
CalcClock == /\ clk < SysClks(MAX_GUESS)
             /\ clk' = clk + 1
             /\ landed' = IF clk' >= dfi_latency THEN landed + 1 ELSE landed
             /\ UNCHANGED params

CalcSpec == CalcInit /\ [][CalcClock]_calcVars
-----------------------------------------------------------------------------
(* The words a pipeline of reads has delivered after i SPI clocks are those  *)
(* the script counts, none where its count is negative (calc.py:14, 30).     *)
CountsLandedReads ==
  \A i \in 0 .. MAX_GUESS :
    clk = SysClks(i) => landed = (IF NReads(i) > 0 THEN NReads(i) ELSE 0)

(* The slack is there exactly when the words cover every guess               *)
(* (calc.py:31-34).                                                          *)
SlackMeansCovered ==
  \A i \in 0 .. MAX_GUESS :
    clk = SysClks(i) => (SlackSysClks(i) >= 0 <=> landed * word_width >= NumGuesses(i))
=============================================================================
