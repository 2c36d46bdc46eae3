-------------------------- MODULE FlashEmuDRAMLite --------------------------
(* litespih4x/emu_dram.py, class FlashEmuDRAMLite: the prefetcher that       *)
(* copies one block of the emulated flash from DRAM into registers.  One     *)
(* step is one edge of the system clock.                                     *)
(*                                                                           *)
(* A DRAM word is named by its address: what the properties ask is which     *)
(* word a register holds.                                                    *)
EXTENDS ReadPort

CONSTANTS NREADS,    \* num_prefetch_reads: words in a block, 4 in the code
          BLOCKS     \* number of blocks of the flash

ASSUME PrefetchAssumption ==
  /\ NREADS \in Nat /\ NREADS > 1
  /\ BLOCKS \in Nat \ {0}
  /\ HoldsData \in BOOLEAN

VARIABLES dram_state,  \* "IDLE", "RD_LAUNCH" or "RD_LAND"
          rd_cnt, read_addr, pf_regs

dramVars == <<dram_state, rd_cnt, read_addr, pf_regs, inflight>>

(* A register that was never written.                                        *)
NoWord == -1

Block == 0 .. (BLOCKS - 1)

DramTypeOK ==
  /\ dram_state \in {"IDLE", "RD_LAUNCH", "RD_LAND"}
  /\ rd_cnt \in 0 .. (NREADS - 1)
  /\ read_addr \in 0 .. (BLOCKS * NREADS)
  /\ pf_regs \in [0 .. (NREADS - 1) -> {NoWord} \cup 0 .. (BLOCKS * NREADS - 1)]
  /\ inflight \in Seq(0 .. (BLOCKS * NREADS - 1))

DramInit == /\ dram_state = "IDLE" /\ rd_cnt = NREADS - 1 /\ read_addr = 0
            /\ pf_regs = [i \in 0 .. (NREADS - 1) |-> NoWord]
            /\ inflight = << >>

(* A Migen Array indexed past its end selects its last element.              *)
Select(i) == IF i > NREADS - 1 THEN NREADS - 1 ELSE i

(* What rd_cnt starts from, for the launches and again for the landings.     *)
RdCntResetOver == NREADS  \* mutant: the maximum, which does not fit
RdCntReset == NREADS - 1

(* With a request for block p pending (paddr_valid), its first word is       *)
(* latched and the launches begin.                                           *)
Idle(paddr_valid, p, valid) ==
  /\ dram_state = "IDLE"
  /\ rd_cnt' = RdCntReset
  /\ IF paddr_valid = 1
     THEN read_addr' = p * NREADS /\ dram_state' = "RD_LAUNCH"
     ELSE UNCHANGED <<read_addr, dram_state>>
  /\ inflight' = Unread(valid)
  /\ UNCHANGED pf_regs

(* cmd.valid is up; a word is launched when the port is ready.               *)
Launch(ready, valid) ==
  /\ dram_state = "RD_LAUNCH"
  /\ IF ready = 1
     THEN /\ read_addr' = read_addr + 1
          /\ inflight' = Append(Unread(valid), read_addr)
          /\ IF rd_cnt = 0
             THEN rd_cnt' = RdCntReset /\ dram_state' = "RD_LAND"
             ELSE rd_cnt' = rd_cnt - 1 /\ UNCHANGED dram_state
     ELSE /\ inflight' = Unread(valid)
          /\ UNCHANGED <<dram_state, rd_cnt, read_addr>>
  /\ UNCHANGED pf_regs

LastLandingEarly == rd_cnt = 1        \* mutant
LastLandingNever == rd_cnt = NREADS   \* mutant: a value rd_cnt does not take
LastLanding == rd_cnt = 0

LandIndexDown == rd_cnt  \* mutant: the last word first
LandIndex == Select(NREADS - rd_cnt)

(* rdata.ready is up; the word goes to register NREADS - rd_cnt.             *)
Land(valid) ==
  /\ dram_state = "RD_LAND"
  /\ IF valid = 1
     THEN /\ pf_regs' = [pf_regs EXCEPT ![LandIndex] = Head(inflight)]
          /\ inflight' = Tail(inflight)
          /\ rd_cnt' = IF rd_cnt = 0 THEN NREADS - 1 ELSE rd_cnt - 1
          /\ dram_state' = IF LastLanding THEN "IDLE" ELSE dram_state
     ELSE UNCHANGED <<pf_regs, inflight, rd_cnt, dram_state>>
  /\ UNCHANGED read_addr

DramClock(paddr_valid, p, ready, valid) ==
  /\ Answers(valid)
  /\ \/ Idle(paddr_valid, p, valid)
     \/ Launch(ready, valid)
     \/ Land(valid)
-----------------------------------------------------------------------------
(* Properties of the prefetcher by itself; they rest on a port that holds    *)
(* its data, for nothing else makes up for a word lost while launching.      *)

(* Every read launched for a prefetch is awaited, and only those: nothing is *)
(* in flight between prefetches, so a word of one block cannot land in the   *)
(* prefetch of the next; the words in flight are the last ones launched, in  *)
(* order.  rd_cnt counts launches down, then landings (emu_dram.py:110-151). *)
ReadsAccounted ==
  HoldsData =>
    /\ Len(inflight) = CASE dram_state = "IDLE" -> 0
                         [] dram_state = "RD_LAUNCH" -> NREADS - 1 - rd_cnt
                         [] OTHER -> rd_cnt + 1
    /\ \A k \in 1 .. Len(inflight) :
         inflight[k] = read_addr - Len(inflight) + k - 1

(* Between prefetches the registers hold words of one block, or nothing:     *)
(* word i - 1 in register i, the last word in the last register.  Register 0 *)
(* is never written: the landing index runs from 1 (emu_dram.py:146).        *)
Landed(b, i) == b * NREADS + (IF i = NREADS - 1 THEN i ELSE i - 1)

RegistersSettle ==
  HoldsData /\ dram_state = "IDLE" =>
    /\ pf_regs[0] = NoWord
    /\ \/ \A i \in 0 .. (NREADS - 1) : pf_regs[i] = NoWord
       \/ \E b \in Block : \A i \in 1 .. (NREADS - 1) : pf_regs[i] = Landed(b, i)
=============================================================================
