---------------------------- MODULE FlashEmuDRAM ----------------------------
(* litespih4x/emu_dram.py, class FlashEmuDRAM: reads a run of DRAM words on  *)
(* command of CSRs that it also uses as its own counters, and the host that  *)
(* drives it, dram-tests/dram_cli.py.                                        *)
(*                                                                           *)
(* The host starts a run by raising go and, having no way to tell how far it *)
(* is, lowers go after any time: the FSM is held in reset while go is down,  *)
(* and a run may be cut short anywhere.  While go is up it runs again and    *)
(* again.  On a board built with the logic analyzer (dram_arty.py) the       *)
(* analyzer's run flag starts and cuts runs as go does, at any time, also    *)
(* while the host is writing the CSRs.                                       *)
EXTENDS ReadPort

CONSTANTS DELAY,           \* clocks spent in RESET and in IDLE, 16 in the code
          WORDS,           \* DRAM words
          CNT_SPAN,        \* values of rd_cnt, 256
          MAX_OUTSTANDING, \* external: reads the port takes before one is read
          TRACED,          \* the board has the analyzer
          Blocks           \* what the host asks for: [addr, cnt], cnt + 1 words

ASSUME DramAssumption ==
  /\ DELAY \in Nat \ {0} /\ WORDS \in Nat \ {0} /\ CNT_SPAN \in Nat \ {0}
  /\ MAX_OUTSTANDING \in Nat
  /\ Blocks \subseteq [addr : 0 .. (WORDS - 1), cnt : 0 .. (CNT_SPAN - 1)]
  /\ HoldsData \in BOOLEAN /\ TRACED \in BOOLEAN

VARIABLES state, wait,                  \* ctrl_fsm; clocks spent in a delay
          trigger,                      \* the analyzer's run flag
          go, fill_addr, rd_cnt, rb_word,  \* the CSRs
          rdc_tmp, fa_tmp,              \* rd_cnt and fill_addr as written
          pc, want,                     \* the host, and what it last asked for
          left, cut, done, lost         \* history, read by no action

csrVars == <<go, fill_addr, rd_cnt, rb_word>>
tmpVars == <<rdc_tmp, fa_tmp>>
hostVars == <<pc, want>>
vars == <<state, wait, trigger, csrVars, tmpVars, hostVars, left, cut, done, lost,
          inflight>>

(* What the host clears readback_word to.                                    *)
Cleared == -1

TypeOK ==
  /\ state \in {"RESET", "IDLE", "RD_LAUNCH", "RD_LAND"}
  /\ wait \in 0 .. (DELAY - 1)
  /\ go \in {0, 1} /\ trigger \in {0, 1} /\ lost \in BOOLEAN
  /\ fill_addr \in 0 .. (WORDS - 1) /\ fa_tmp \in 0 .. (WORDS - 1)
  /\ rd_cnt \in 0 .. (CNT_SPAN - 1) /\ rdc_tmp \in 0 .. (CNT_SPAN - 1)
  /\ rb_word \in {Cleared} \cup 0 .. (WORDS - 1)
  /\ pc \in {"fill", "cnt", "clear", "start", "stop", "read"}
  /\ want \in [addr : 0 .. (WORDS - 1), cnt : 0 .. (CNT_SPAN - 1)]
  /\ left \in 0 .. MAX_OUTSTANDING /\ cut \in BOOLEAN /\ done \in BOOLEAN
  /\ inflight \in Seq(0 .. (WORDS - 1)) /\ Len(inflight) <= MAX_OUTSTANDING

-----------------------------------------------------------------------------
(* The FSM, one step per edge of the system clock.                           *)

ComboTrigger == trigger = 1 \/ go = 1

(* ResetInserter: without it the FSM's own registers are reset whatever the  *)
(* state asks for, but the CSR writes and the port command of this very      *)
(* clock still take place.                                                   *)
GoTo(s, w) == IF ComboTrigger THEN state' = s /\ wait' = w
                              ELSE state' = "RESET" /\ wait' = 0
Save(c, a) == IF ComboTrigger THEN rdc_tmp' = c /\ fa_tmp' = a
                              ELSE rdc_tmp' = 0 /\ fa_tmp' = 0

(* delayed_enter: a state of DELAY clocks, of which only the first acts.     *)
DelayedEnter(s) == IF wait = DELAY - 1 THEN GoTo(s, 0) ELSE GoTo(state, wait + 1)

Reset(valid) ==
  /\ state = "RESET"
  /\ DelayedEnter("IDLE")
  /\ Save(rdc_tmp, fa_tmp)
  /\ inflight' = Unread(valid)
  /\ UNCHANGED <<csrVars, left, cut, done>>

Idle(valid) ==
  /\ state = "IDLE"
  /\ DelayedEnter("RD_LAUNCH")
  /\ IF wait = 0 THEN Save(rd_cnt, fill_addr) ELSE Save(rdc_tmp, fa_tmp)
  /\ inflight' = Unread(valid)
  /\ UNCHANGED <<csrVars, left, cut, done>>

(* A run that is reset in the middle: what is in flight stays behind.        *)
Cut == /\ left' = IF ComboTrigger THEN left ELSE Len(inflight')
       /\ cut' = (cut \/ ~ComboTrigger)
       /\ UNCHANGED done

(* The next value of rd_cnt, launching as landing.                           *)
CountNoRestore == rd_cnt - 1  \* mutant: counts on below zero
Count == IF rd_cnt = 0 THEN rdc_tmp ELSE rd_cnt - 1

RdLaunch(ready, valid) ==
  /\ state = "RD_LAUNCH"
  /\ ready = 1 => Len(inflight) < MAX_OUTSTANDING
  /\ IF ready = 1
     THEN /\ rd_cnt' = Count
          /\ fill_addr' = (fill_addr + 1) % WORDS
          /\ inflight' = Append(Unread(valid), fill_addr)
          /\ GoTo(IF rd_cnt = 0 THEN "RD_LAND" ELSE state, 0)
     ELSE /\ inflight' = Unread(valid)
          /\ GoTo(state, 0)
          /\ UNCHANGED <<rd_cnt, fill_addr>>
  /\ Cut
  /\ Save(rdc_tmp, fa_tmp)
  /\ UNCHANGED <<go, rb_word>>

LastLandingNever == rd_cnt = CNT_SPAN  \* mutant
LastLandingEarly == rd_cnt <= 1        \* mutant
LastLanding == rd_cnt = 0

(* The address the last landing writes back.                                 *)
RestoredNext == fill_addr  \* mutant: left where the launches took it
Restored == fa_tmp

RdLand(valid) ==
  /\ state = "RD_LAND"
  /\ IF valid = 1
     THEN /\ rb_word' = Head(inflight)
          /\ inflight' = Tail(inflight)
          /\ rd_cnt' = Count
          /\ fill_addr' = IF LastLanding THEN Restored ELSE fill_addr
          /\ GoTo(IF LastLanding THEN "RESET" ELSE state, 0)
     ELSE /\ GoTo(state, 0)
          /\ UNCHANGED <<rb_word, inflight, rd_cnt, fill_addr>>
  /\ IF valid = 1 /\ LastLanding
     THEN /\ done' = TRUE /\ UNCHANGED cut
          /\ left' = IF lost THEN Len(inflight') ELSE left
     ELSE Cut
  /\ Save(rdc_tmp, fa_tmp)
  /\ UNCHANGED go

Clock(ready, valid) ==
  /\ Answers(valid)
  /\ Reset(valid) \/ Idle(valid) \/ RdLaunch(ready, valid) \/ RdLand(valid)
  /\ UNCHANGED <<trigger, lost, hostVars>>

(* The analyzer starts or stops.                                             *)
RunFlag == /\ TRACED /\ trigger' = 1 - trigger
           /\ UNCHANGED <<state, wait, csrVars, tmpVars, hostVars, left, cut, done,
                          lost, inflight>>

-----------------------------------------------------------------------------
(* The host.  A bus write takes effect on a clock edge, after whatever the   *)
(* device itself writes on that edge: here, a step between two edges.        *)
HostWrites(from, to) == /\ pc = from /\ pc' = to
                        /\ UNCHANGED <<state, wait, trigger, tmpVars, left, inflight>>

(* A run is under way that has saved the CSRs and will write them back.      *)
Captured == state \in {"RD_LAUNCH", "RD_LAND"} \/ (state = "IDLE" /\ wait > 0)

WriteFillAddr == \E b \in Blocks :
  /\ HostWrites("fill", "cnt")
  /\ want' = b /\ fill_addr' = b.addr
  /\ lost' = Captured /\ cut' = FALSE
  /\ UNCHANGED <<go, rd_cnt, rb_word, done>>

WriteRdCnt == /\ HostWrites("cnt", "clear")
              /\ rd_cnt' = want.cnt
              /\ lost' = (lost \/ Captured)
              /\ UNCHANGED <<go, fill_addr, rb_word, want, cut, done>>

ClearReadback == /\ HostWrites("clear", "start")
                 /\ rb_word' = Cleared
                 /\ UNCHANGED <<go, fill_addr, rd_cnt, want, cut, done, lost>>

WriteGo == /\ HostWrites("start", "stop")
           /\ go' = 1
           /\ done' = FALSE
           /\ UNCHANGED <<fill_addr, rd_cnt, rb_word, want, cut, lost>>

ClearGo == /\ HostWrites("stop", "read")
           /\ go' = 0
           /\ UNCHANGED <<fill_addr, rd_cnt, rb_word, want, cut, done, lost>>

(* The bus is slower than the one clock the FSM takes to reset.              *)
ReadReadback == /\ HostWrites("read", "fill")
                /\ trigger = 0 => state = "RESET"
                /\ UNCHANGED <<csrVars, want, cut, done, lost>>

Host == \/ WriteFillAddr \/ WriteRdCnt \/ ClearReadback
        \/ WriteGo \/ ClearGo \/ ReadReadback

-----------------------------------------------------------------------------
Init == /\ state = "RESET" /\ wait = 0 /\ trigger = 0
        /\ go = 0 /\ fill_addr = 0 /\ rd_cnt = 0 /\ rb_word = Cleared
        /\ rdc_tmp = 0 /\ fa_tmp = 0
        /\ pc = "fill" /\ want = [addr |-> 0, cnt |-> 0]
        /\ left = 0 /\ cut = FALSE /\ done = FALSE /\ lost = FALSE
        /\ inflight = << >>

Sys == \E ready, valid \in {0, 1} : Clock(ready, valid)

Next == Sys \/ RunFlag \/ Host

Spec == Init /\ [][Next]_vars

(* The system clock never stops; the port neither refuses a command for ever *)
(* while it has room nor withholds data for ever.                            *)
Accepts == state = "RD_LAUNCH" /\ \E valid \in {0, 1} : Clock(1, valid)
Delivers == state = "RD_LAND" /\ \E ready \in {0, 1} : Clock(ready, 1)

LiveSpec == Spec /\ WF_vars(Sys) /\ WF_vars(Accepts) /\ WF_vars(Delivers)
-----------------------------------------------------------------------------
(* Every read launched is awaited by the run that launched it, except those  *)
(* that runs cut short left in flight, which stay in flight for good: each   *)
(* later run takes that many words of its predecessors first, and leaves as  *)
(* many of its own (emu_dram.py:65-98).  A CSR written while a run counts    *)
(* with it takes the run off its count; the count is right again once the    *)
(* host writes the CSRs between two runs.                                    *)
ReadsAccounted ==
  HoldsData /\ ~lost => Len(inflight) = left + CASE state = "RD_LAUNCH" -> rdc_tmp - rd_cnt
                                                 [] state = "RD_LAND" -> rd_cnt + 1
                                                 [] OTHER -> 0

(* Between runs the CSRs that served as counters have the values the host    *)
(* gave them, so that a run repeated is the same run; only a run cut short   *)
(* leaves them elsewhere, or one that was under way when they were written   *)
(* (emu_dram.py:76, 91-94).                                                  *)
CsrsRestored ==
  pc \notin {"fill", "cnt"} /\ ~cut /\ ~lost /\ state \in {"RESET", "IDLE"}
    => rd_cnt = want.cnt /\ fill_addr = want.addr

(* A run that came to its end leaves the last word of its block in           *)
(* readback_word; with words of earlier runs left in flight, the word that   *)
(* many places before it (emu_dram.py:86, dram_cli.py:28-31).                *)
ReadbackLags ==
  HoldsData /\ done /\ ~cut /\ ~lost /\ state # "RD_LAND" /\ left <= want.cnt
    /\ pc \in {"stop", "read"}
    => rb_word = (want.addr + want.cnt - left) % WORDS

(* A run ends, by its last word or by go, unless the words left behind by    *)
(* earlier runs take up the room in the port that its own would need, or the *)
(* host has changed the count it goes by.                                    *)
RunEnds ==
  state = "RD_LAUNCH" /\ left + rdc_tmp < MAX_OUTSTANDING ~> state = "RESET" \/ lost
=============================================================================
