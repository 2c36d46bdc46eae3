------------------------- MODULE FlashEmuDRAMProofs -------------------------
(* Theorems about FlashEmuDRAM, for every geometry, delay and port, with and *)
(* without the analyzer.                                                     *)
EXTENDS FlashEmuDRAM, TLAPS

USE DramAssumption

-----------------------------------------------------------------------------
(* Addresses count modulo the DRAM's size.                                   *)
LEMMA DivMod ==
  ASSUME NEW x \in Nat
  PROVE  /\ x \div WORDS \in Nat /\ x % WORDS \in 0 .. (WORDS - 1)
         /\ x = WORDS * (x \div WORDS) + (x % WORDS)
<1>1. \A n \in Nat \ {0}, y \in Nat :
        /\ y \div n \in Nat /\ y % n \in 0 .. (n - 1)
        /\ y = n * (y \div n) + (y % n)
  BY SMT
<1> QED BY <1>1

(* A remainder is below its divisor.                                         *)
LEMMA Remainder ==
  ASSUME NEW q \in Nat, NEW r \in 0 .. (WORDS - 1)
  PROVE  (WORDS * q + r) % WORDS = r
<1>1. \A n \in Nat \ {0}, p \in Nat : \A s \in 0 .. (n - 1) : (n * p + s) % n = s
  BY SMT
<1> QED BY <1>1

(* An address in range is itself.                                            *)
LEMMA Small == ASSUME NEW x \in 0 .. (WORDS - 1) PROVE x % WORDS = x
<1>1. (WORDS * 0 + x) % WORDS = x
  BY Remainder
<1> QED BY <1>1

(* The address one further on.                                               *)
LEMMA NextAddress ==
  ASSUME NEW x \in Nat
  PROVE  ((x % WORDS) + 1) % WORDS = (x + 1) % WORDS
<1> DEFINE q == x \div WORDS
           r == x % WORDS
<1>1. q \in Nat /\ r \in 0 .. (WORDS - 1) /\ x = WORDS * q + r
  BY DivMod
<1>2. CASE r + 1 < WORDS
  <2>1. (WORDS * q + (r + 1)) % WORDS = r + 1 /\ (r + 1) % WORDS = r + 1
    BY SMTT(20), <1>1, <1>2, Remainder, Small
  <2> QED BY <1>1, <2>1
<1>3. CASE r + 1 = WORDS
  <2>1. (WORDS * (q + 1) + 0) % WORDS = 0 /\ (WORDS * 1 + 0) % WORDS = 0
    BY <1>1, Remainder
  <2>2. WORDS * (q + 1) + 0 = x + 1 /\ WORDS * 1 + 0 = r + 1
    BY <1>1, <1>3
  <2> QED BY <2>1, <2>2
<1> QED BY <1>1, <1>2, <1>3

-----------------------------------------------------------------------------
(* The reads in flight as a queue.                                           *)
LEMMA TakeOne ==
  ASSUME NEW S, NEW q \in Seq(S), q # << >>
  PROVE  /\ Head(q) \in S /\ Head(q) = q[1] /\ Tail(q) \in Seq(S)
         /\ Len(q) \in Nat /\ Len(q) > 0 /\ Len(Tail(q)) = Len(q) - 1
         /\ \A k \in 1 .. Len(Tail(q)) : Tail(q)[k] = q[k + 1]
OBVIOUS

(* What appending one read does to the queue of the port.                    *)
LEMMA PutOne ==
  ASSUME NEW S, NEW q \in Seq(S), NEW x \in S
  PROVE  /\ Append(q, x) \in Seq(S) /\ Len(q) \in Nat
         /\ Len(Append(q, x)) = Len(q) + 1
         /\ \A k \in 1 .. Len(q) : Append(q, x)[k] = q[k]
         /\ Append(q, x)[Len(q) + 1] = x
OBVIOUS

(* What comes while nobody takes it is kept, or is gone.                     *)
LEMMA Kept ==
  ASSUME TypeOK, NEW valid \in {0, 1}, Answers(valid)
  PROVE  /\ Unread(valid) \in Seq(0 .. (WORDS - 1))
         /\ Len(Unread(valid)) \in Nat /\ Len(Unread(valid)) <= Len(inflight)
         /\ HoldsData => Unread(valid) = inflight
<1>1. CASE valid = 1 /\ ~HoldsData
  BY <1>1, TakeOne DEF TypeOK, Answers, Unread
<1>2. CASE ~(valid = 1 /\ ~HoldsData)
  BY <1>2 DEF TypeOK, Unread
<1> QED BY <1>1, <1>2

-----------------------------------------------------------------------------
(* The invariant.                                                            *)
(* Between runs nothing is in flight but what cut runs left there; during    *)
(* one, what it launched too.                                                *)
Accounted ==
  HoldsData =>
    /\ state \in {"RESET", "IDLE"} => Len(inflight) = left
    /\ ~lost /\ state = "RD_LAUNCH" => Len(inflight) = left + rdc_tmp - rd_cnt
    /\ ~lost /\ state = "RD_LAND" => Len(inflight) = left + rd_cnt + 1

(* A run that counts with the CSRs knows what was in them.                   *)
Saved ==
  ~lost => /\ state = "IDLE" /\ wait > 0 => rdc_tmp = rd_cnt /\ fa_tmp = fill_addr
           /\ state \in {"RD_LAUNCH", "RD_LAND"} => rd_cnt <= rdc_tmp

(* What the host asked for is in the CSRs or, during a run, in the registers *)
(* that will restore them.                                                   *)
Asked ==
  ~cut /\ ~lost =>
    /\ pc # "fill" => IF Captured THEN fa_tmp = want.addr ELSE fill_addr = want.addr
    /\ pc \notin {"fill", "cnt"} =>
         IF Captured THEN rdc_tmp = want.cnt ELSE rd_cnt = want.cnt

(* The words in flight behind those left there are a run of its block.       *)
Words ==
  HoldsData /\ ~lost =>
    /\ state = "RD_LAUNCH" =>
         /\ fill_addr = (fa_tmp + (rdc_tmp - rd_cnt)) % WORDS
         /\ \A p \in 1 .. Len(inflight) :
              p > left => inflight[p] = (fa_tmp + (p - left - 1)) % WORDS
    /\ state = "RD_LAND" =>
         \A p \in 1 .. Len(inflight) :
           p + rdc_tmp - rd_cnt > left =>
             inflight[p] = (fa_tmp + (p + rdc_tmp - rd_cnt - left - 1)) % WORDS

IInv == TypeOK /\ Accounted /\ Saved /\ Asked /\ Words /\ ReadbackLags

-----------------------------------------------------------------------------
(* Type correctness, at the start and from step to step.                     *)
LEMMA TypeInit == Init => TypeOK
<1> SUFFICES ASSUME Init PROVE TypeOK
  OBVIOUS
<1>1. 0 \in 0 .. (WORDS - 1) /\ 0 \in 0 .. (CNT_SPAN - 1) /\ 0 \in 0 .. (DELAY - 1)
  OBVIOUS
<1>2. want \in [addr : 0 .. (WORDS - 1), cnt : 0 .. (CNT_SPAN - 1)]
  BY <1>1 DEF Init
<1>3. inflight \in Seq(0 .. (WORDS - 1)) /\ Len(inflight) <= MAX_OUTSTANDING
  BY DEF Init
<1>4. left \in 0 .. MAX_OUTSTANDING /\ rb_word \in {Cleared} \cup 0 .. (WORDS - 1)
  BY DEF Init
<1>5. cut \in BOOLEAN /\ done \in BOOLEAN /\ lost \in BOOLEAN
  BY DEF Init
<1>6. go \in {0, 1} /\ trigger \in {0, 1} /\ state = "RESET" /\ pc = "fill"
  BY DEF Init
<1>7. /\ wait \in 0 .. (DELAY - 1) /\ fill_addr \in 0 .. (WORDS - 1)
      /\ fa_tmp \in 0 .. (WORDS - 1) /\ rd_cnt \in 0 .. (CNT_SPAN - 1)
      /\ rdc_tmp \in 0 .. (CNT_SPAN - 1)
  BY <1>1 DEF Init
<1> QED BY <1>2, <1>3, <1>4, <1>5, <1>6, <1>7 DEF TypeOK

LEMMA TypeNext == TypeOK /\ [Next]_vars => TypeOK'
<1> SUFFICES ASSUME TypeOK, [Next]_vars PROVE TypeOK'
  OBVIOUS
<1>0. 0 \in 0 .. (CNT_SPAN - 1) /\ 0 \in 0 .. (WORDS - 1)
  OBVIOUS
<1>1. ASSUME NEW ready \in {0, 1}, NEW valid \in {0, 1}, Clock(ready, valid) PROVE TypeOK'
  <2>0. UNCHANGED <<trigger, lost, pc, want>>
    BY <1>1 DEF Clock, hostVars
  <2>1. CASE Reset(valid)
    BY <1>1, <2>0, <2>1, Kept
    DEF Clock, Reset, DelayedEnter, GoTo, Save, csrVars, tmpVars, TypeOK
  <2>2. CASE Idle(valid)
    <3>1. rdc_tmp' \in 0 .. (CNT_SPAN - 1) /\ fa_tmp' \in 0 .. (WORDS - 1)
      BY <1>0, <2>2 DEF Idle, Save, TypeOK
    <3>2. wait' \in 0 .. (DELAY - 1) /\ state' \in {"RESET", "IDLE", "RD_LAUNCH", "RD_LAND"}
      BY <2>2 DEF Idle, DelayedEnter, GoTo, Save, TypeOK
    <3>3. inflight' \in Seq(0 .. (WORDS - 1)) /\ Len(inflight') <= MAX_OUTSTANDING
      BY <1>1, <2>2, Kept DEF Clock, Idle, TypeOK
    <3> QED BY <2>0, <2>2, <3>1, <3>2, <3>3 DEF Idle, csrVars, TypeOK
  <2>3. CASE RdLaunch(ready, valid)
    <3>1. CASE ready = 1
      <4>1. /\ inflight' \in Seq(0 .. (WORDS - 1)) /\ Len(inflight') \in Nat
            /\ Len(inflight') <= MAX_OUTSTANDING
        <5> DEFINE S == 0 .. (WORDS - 1)
                   q == Unread(valid)
        <5>1. /\ q \in Seq(S) /\ Len(q) <= Len(inflight) /\ Len(inflight) < MAX_OUTSTANDING
              /\ fill_addr \in S /\ Len(inflight) \in Nat /\ inflight' = Append(q, fill_addr)
          BY <1>1, <2>3, <3>1, Kept DEF Clock, RdLaunch, TypeOK
        <5>2. Append(q, fill_addr) \in Seq(S) /\ Len(Append(q, fill_addr)) = Len(q) + 1
          BY <5>1, PutOne
        <5> HIDE DEF S, q
        <5>3. inflight' \in Seq(S) /\ Len(inflight') = Len(q) + 1 /\ Len(q) \in Nat
          BY <5>1, <5>2
        <5> QED BY <5>1, <5>3 DEF S
      <4>2. fill_addr' \in 0 .. (WORDS - 1) /\ rd_cnt' \in 0 .. (CNT_SPAN - 1)
        <5>1. (fill_addr + 1) % WORDS \in 0 .. (WORDS - 1)
          <6>1. fill_addr + 1 \in Nat
            BY DEF TypeOK
          <6> QED BY <6>1, DivMod
        <5> QED BY <2>3, <3>1, <5>1 DEF RdLaunch, Count, TypeOK
      <4> QED BY SMTT(20), <2>0, <2>3, <3>1, <4>1, <4>2
        DEF RdLaunch, GoTo, Save, Cut, tmpVars, TypeOK
    <3>2. CASE ready = 0
      BY <1>1, <2>0, <2>3, <3>2, Kept
      DEF Clock, RdLaunch, GoTo, Save, Cut, tmpVars, TypeOK
    <3> QED BY <3>1, <3>2
  <2>4. CASE RdLand(valid)
    <3>1. CASE valid = 1
      <4>1. /\ inflight' \in Seq(0 .. (WORDS - 1)) /\ Len(inflight') \in Nat
            /\ Len(inflight') <= MAX_OUTSTANDING /\ rb_word' \in 0 .. (WORDS - 1)
        <5> DEFINE S == 0 .. (WORDS - 1)
        <5>1. /\ inflight \in Seq(S) /\ inflight # << >> /\ Len(inflight) <= MAX_OUTSTANDING
              /\ inflight' = Tail(inflight) /\ rb_word' = Head(inflight)
          BY <1>1, <2>4, <3>1 DEF Clock, Answers, RdLand, TypeOK
        <5>2. /\ Head(inflight) \in S /\ Tail(inflight) \in Seq(S)
              /\ Len(inflight) \in Nat /\ Len(Tail(inflight)) = Len(inflight) - 1
              /\ Len(inflight) > 0
          BY <5>1, TakeOne
        <5> HIDE DEF S
        <5>3. inflight' \in Seq(S) /\ Len(inflight') = Len(inflight) - 1 /\ rb_word' \in S
          BY <5>1, <5>2
        <5> QED BY <5>1, <5>2, <5>3 DEF S
      <4>2. rd_cnt' \in 0 .. (CNT_SPAN - 1) /\ fill_addr' \in 0 .. (WORDS - 1)
        BY <2>4, <3>1 DEF RdLand, Count, Restored, TypeOK
      <4>3. left' \in 0 .. MAX_OUTSTANDING
        BY <2>4, <4>1 DEF RdLand, Cut, TypeOK
      <4>5. cut' \in BOOLEAN /\ done' \in BOOLEAN
        <5>1. (cut' = cut \/ cut' = (cut \/ ~ComboTrigger)) /\ (done' = done \/ done' = TRUE)
          BY <2>4, Zenon DEF RdLand, Cut
        <5> QED BY <5>1, Zenon DEF TypeOK
      <4>4. state' \in {"RESET", "RD_LAND"} /\ wait' = 0
        BY <2>4, <3>1 DEF RdLand, GoTo, Save
      <4>6. rdc_tmp' \in 0 .. (CNT_SPAN - 1) /\ fa_tmp' \in 0 .. (WORDS - 1)
        BY <1>0, <2>4 DEF RdLand, Save, TypeOK
      <4> QED BY <2>0, <2>4, <4>1, <4>2, <4>3, <4>4, <4>5, <4>6 DEF RdLand, TypeOK
    <3>2. CASE valid = 0
      BY <2>0, <2>4, <3>2 DEF RdLand, GoTo, Save, Cut, tmpVars, TypeOK
    <3> QED BY <3>1, <3>2
  <2> QED BY <1>1, <2>1, <2>2, <2>3, <2>4 DEF Clock
<1>2. CASE RunFlag
  BY <1>2 DEF RunFlag, csrVars, tmpVars, hostVars, TypeOK
<1>3. CASE Host
  <2>1. CASE WriteFillAddr
    <3>1. Captured \in BOOLEAN
      BY DEF Captured
    <3> QED BY <2>1, <3>1 DEF WriteFillAddr, HostWrites, tmpVars, TypeOK
  <2>2. CASE WriteRdCnt
    BY <2>2 DEF WriteRdCnt, HostWrites, Captured, tmpVars, TypeOK
  <2>3. CASE ClearReadback
    BY <2>3 DEF ClearReadback, HostWrites, Cleared, tmpVars, TypeOK
  <2>4. CASE WriteGo
    BY <2>4 DEF WriteGo, HostWrites, tmpVars, TypeOK
  <2>5. CASE ClearGo
    BY <2>5 DEF ClearGo, HostWrites, tmpVars, TypeOK
  <2>6. CASE ReadReadback
    BY <2>6 DEF ReadReadback, HostWrites, csrVars, tmpVars, TypeOK
  <2> QED BY <1>3, <2>1, <2>2, <2>3, <2>4, <2>5, <2>6 DEF Host
<1>4. CASE UNCHANGED vars
  BY <1>4 DEF vars, csrVars, tmpVars, hostVars, TypeOK
<1> QED BY <1>1, <1>2, <1>3, <1>4 DEF Next, Sys

(* The registers and the queue of reads keep their widths and their room     *)
(* (emu_dram.py:24-56).                                                      *)
THEOREM TypeCorrect == Spec => []TypeOK
BY TypeInit, TypeNext, PTL DEF Spec

-----------------------------------------------------------------------------
(* What a clock does to the reads in flight when data are held.              *)
LEMMA Moves ==
  ASSUME TypeOK, HoldsData, NEW ready \in {0, 1}, NEW valid \in {0, 1},
         Clock(ready, valid)
  PROVE  /\ Len(inflight) \in Nat
         /\ state \in {"RESET", "IDLE"} => inflight' = inflight
         /\ state = "RD_LAUNCH" /\ ready = 0 => inflight' = inflight
         /\ state = "RD_LAUNCH" /\ ready = 1 =>
              /\ Len(inflight') = Len(inflight) + 1
              /\ \A k \in 1 .. Len(inflight) : inflight'[k] = inflight[k]
              /\ inflight'[Len(inflight) + 1] = fill_addr
         /\ state = "RD_LAND" /\ valid = 0 => inflight' = inflight
         /\ state = "RD_LAND" /\ valid = 1 =>
              /\ Len(inflight) > 0 /\ Len(inflight') = Len(inflight) - 1
              /\ rb_word' = inflight[1]
              /\ \A k \in 1 .. Len(inflight') : inflight'[k] = inflight[k + 1]
<1> DEFINE S == 0 .. (WORDS - 1)
<1>1. inflight \in Seq(S) /\ fill_addr \in S /\ Len(inflight) \in Nat
  BY DEF TypeOK
<1>2. Unread(valid) = inflight
  BY Kept DEF Clock
<1>3. CASE state \in {"RESET", "IDLE"}
  BY <1>1, <1>2, <1>3 DEF Clock, Reset, Idle, RdLaunch, RdLand
<1>4. CASE state = "RD_LAUNCH" /\ ready = 1
  <2>1. inflight' = Append(inflight, fill_addr)
    BY <1>2, <1>4 DEF Clock, Reset, Idle, RdLaunch, RdLand
  <2> HIDE DEF S
  <2>2. /\ Len(Append(inflight, fill_addr)) = Len(inflight) + 1
        /\ \A k \in 1 .. Len(inflight) : Append(inflight, fill_addr)[k] = inflight[k]
        /\ Append(inflight, fill_addr)[Len(inflight) + 1] = fill_addr
    BY <1>1, PutOne
  <2> QED BY <1>1, <1>4, <2>1, <2>2
<1>5. CASE state = "RD_LAUNCH" /\ ready = 0
  BY <1>1, <1>2, <1>5 DEF Clock, Reset, Idle, RdLaunch, RdLand
<1>6. CASE state = "RD_LAND" /\ valid = 1
  <2>1. inflight' = Tail(inflight) /\ rb_word' = Head(inflight) /\ inflight # << >>
    BY <1>6 DEF Clock, Answers, Reset, Idle, RdLaunch, RdLand
  <2> HIDE DEF S
  <2>2. /\ Head(inflight) = inflight[1]
        /\ Len(inflight) > 0 /\ Len(Tail(inflight)) = Len(inflight) - 1
        /\ \A k \in 1 .. Len(Tail(inflight)) : Tail(inflight)[k] = inflight[k + 1]
    BY <1>1, <2>1, TakeOne
  <2> QED BY <1>1, <1>6, <2>1, <2>2
<1>7. CASE state = "RD_LAND" /\ valid = 0
  BY <1>1, <1>7 DEF Clock, Reset, Idle, RdLaunch, RdLand
<1> QED BY <1>3, <1>4, <1>5, <1>6, <1>7 DEF TypeOK

(* What a run saved stays what the CSRs had, unless the host wrote them.     *)
LEMMA SavedNext == TypeOK /\ Saved /\ [Next]_vars => Saved'
<1> SUFFICES ASSUME TypeOK, Saved, [Next]_vars PROVE Saved'
  OBVIOUS
<1>1. ASSUME NEW ready \in {0, 1}, NEW valid \in {0, 1}, Clock(ready, valid) PROVE Saved'
  <2>0. lost' = lost
    BY <1>1 DEF Clock
  <2>1. CASE Reset(valid)
    BY <2>0, <2>1 DEF Reset, DelayedEnter, GoTo, Save, csrVars, tmpVars, TypeOK, Saved
  <2>2. CASE Idle(valid)
    BY <2>0, <2>2 DEF Idle, DelayedEnter, GoTo, Save, csrVars, tmpVars, TypeOK, Saved
  <2>3. CASE RdLaunch(ready, valid)
    BY <2>0, <2>3 DEF RdLaunch, GoTo, Save, Count, tmpVars, TypeOK, Saved
  <2>4. CASE RdLand(valid)
    BY <2>0, <2>4 DEF RdLand, GoTo, Save, Count, LastLanding, tmpVars, TypeOK, Saved
  <2> QED BY <1>1, <2>1, <2>2, <2>3, <2>4 DEF Clock
<1>2. CASE RunFlag
  BY <1>2 DEF RunFlag, csrVars, tmpVars, Saved
<1>3. CASE Host
  BY <1>3 DEF Host, WriteFillAddr, WriteRdCnt, ClearReadback, WriteGo, ClearGo,
    ReadReadback, HostWrites, Captured, csrVars, tmpVars, TypeOK, Saved
<1>4. CASE UNCHANGED vars
  BY <1>4 DEF vars, csrVars, tmpVars, Saved
<1> QED BY <1>1, <1>2, <1>3, <1>4 DEF Next, Sys

(* The reads in the port stay accounted for.                                 *)
LEMMA AccountedNext == TypeOK /\ Saved /\ Accounted /\ [Next]_vars => Accounted'
<1> SUFFICES ASSUME TypeOK, Saved, Accounted, [Next]_vars, HoldsData PROVE Accounted'
  BY DEF Accounted
<1>1. ASSUME NEW ready \in {0, 1}, NEW valid \in {0, 1}, Clock(ready, valid)
      PROVE  Accounted'
  <2>0. lost' = lost
    BY <1>1 DEF Clock
  <2>1. CASE Reset(valid)
    BY <1>1, <2>0, <2>1, Moves
    DEF Reset, DelayedEnter, GoTo, Save, csrVars, tmpVars, TypeOK, Accounted
  <2>2. CASE Idle(valid)
    BY <1>1, <2>0, <2>2, Moves
    DEF Idle, DelayedEnter, GoTo, Save, csrVars, tmpVars, TypeOK, Saved, Accounted
  <2>3. CASE RdLaunch(ready, valid)
    <3>1. /\ Len(inflight) \in Nat /\ state = "RD_LAUNCH"
          /\ \/ ready = 1 /\ Len(inflight') = Len(inflight) + 1
             \/ ready = 0 /\ inflight' = inflight
      BY <1>1, <2>3, Moves DEF RdLaunch
    <3>2. CASE ~ComboTrigger
      <4>1. state' = "RESET" /\ left' = Len(inflight')
        BY <2>3, <3>2 DEF RdLaunch, GoTo, Save, Cut
      <4> QED BY <4>1 DEF Accounted
    <3>3. CASE ComboTrigger
      <4>1. left' = left /\ rdc_tmp' = rdc_tmp
        BY <2>3, <3>3 DEF RdLaunch, Cut, Save
      <4>2. CASE ready = 1 /\ rd_cnt = 0
        <5>1. state' = "RD_LAND" /\ rd_cnt' = rdc_tmp
          BY <2>3, <3>3, <4>2 DEF RdLaunch, GoTo, Save, Count
        <5> QED BY <2>0, <3>1, <4>1, <4>2, <5>1 DEF Accounted, TypeOK
      <4>3. CASE ready = 1 /\ rd_cnt # 0
        <5>1. state' = "RD_LAUNCH" /\ rd_cnt' = rd_cnt - 1
          BY <2>3, <3>3, <4>3 DEF RdLaunch, GoTo, Save, Count
        <5> QED BY <2>0, <3>1, <4>1, <4>3, <5>1 DEF Accounted, TypeOK
      <4>4. CASE ready = 0
        <5>1. state' = "RD_LAUNCH" /\ rd_cnt' = rd_cnt
          BY <2>3, <3>3, <4>4 DEF RdLaunch, GoTo, Save
        <5> QED BY <2>0, <3>1, <4>1, <4>4, <5>1 DEF Accounted
      <4> QED BY <4>2, <4>3, <4>4
    <3> QED BY <3>2, <3>3
  <2>4. CASE RdLand(valid)
    <3>1. /\ Len(inflight) \in Nat /\ state = "RD_LAND"
          /\ \/ valid = 1 /\ Len(inflight') = Len(inflight) - 1
             \/ valid = 0 /\ inflight' = inflight
      BY <1>1, <2>4, Moves DEF RdLand
    <3>2. CASE valid = 1 /\ LastLanding
      <4>1. /\ state' = "RESET"
            /\ left' = IF lost THEN Len(inflight') ELSE left
        BY <2>4, <3>2, Zenon DEF RdLand, GoTo, Save
      <4> QED BY <3>1, <3>2, <4>1 DEF Accounted, TypeOK, LastLanding
    <3>3. CASE ~(valid = 1 /\ LastLanding) /\ ~ComboTrigger
      <4>1. state' = "RESET" /\ left' = Len(inflight')
        BY <2>4, <3>3 DEF RdLand, GoTo, Save, Cut
      <4> QED BY <4>1 DEF Accounted
    <3>4. CASE ~(valid = 1 /\ LastLanding) /\ ComboTrigger
      <4>1. left' = left
        BY <2>4, <3>4 DEF RdLand, Cut
      <4>2. state' = "RD_LAND" /\ rd_cnt' = IF valid = 1 THEN rd_cnt - 1 ELSE rd_cnt
        BY <2>4, <3>1, <3>4 DEF RdLand, GoTo, Save, Count, LastLanding
      <4> QED BY <2>0, <3>1, <4>1, <4>2 DEF Accounted, TypeOK
    <3> QED BY <3>2, <3>3, <3>4
  <2> QED BY <1>1, <2>1, <2>2, <2>3, <2>4 DEF Clock
<1>2. CASE RunFlag
  BY <1>2 DEF RunFlag, csrVars, tmpVars, Accounted
<1>3. CASE Host
  BY <1>3 DEF Host, WriteFillAddr, WriteRdCnt, ClearReadback, WriteGo, ClearGo,
    ReadReadback, HostWrites, Captured, csrVars, tmpVars, TypeOK, Accounted
<1>4. CASE UNCHANGED vars
  BY <1>4 DEF vars, csrVars, tmpVars, Accounted
<1> QED BY <1>1, <1>2, <1>3, <1>4 DEF Next, Sys

(* The requests stay those the run has asked for.                            *)
LEMMA AskedNext == TypeOK /\ Saved /\ Asked /\ [Next]_vars => Asked'
<1> SUFFICES ASSUME TypeOK, Saved, Asked, [Next]_vars PROVE Asked'
  OBVIOUS
<1>1. ASSUME NEW ready \in {0, 1}, NEW valid \in {0, 1}, Clock(ready, valid) PROVE Asked'
  <2>0. UNCHANGED <<lost, pc, want>>
    BY <1>1 DEF Clock, hostVars
  <2>1. CASE Reset(valid)
    BY <2>0, <2>1 DEF Reset, DelayedEnter, GoTo, Save, csrVars, tmpVars, Captured, TypeOK, Asked
  <2>2. CASE Idle(valid)
    BY <2>0, <2>2
    DEF Idle, DelayedEnter, GoTo, Save, csrVars, tmpVars, Captured, TypeOK, Saved, Asked
  <2>3. CASE RdLaunch(ready, valid)
    BY <2>0, <2>3 DEF RdLaunch, GoTo, Save, Cut, tmpVars, Captured, TypeOK, Asked
  <2>4. CASE RdLand(valid)
    BY <2>0, <2>4
    DEF RdLand, GoTo, Save, Cut, Count, LastLanding, Restored, tmpVars, Captured, TypeOK, Asked
  <2> QED BY <1>1, <2>1, <2>2, <2>3, <2>4 DEF Clock
<1>2. CASE RunFlag
  BY <1>2 DEF RunFlag, csrVars, tmpVars, hostVars, Captured, Asked
<1>3. CASE Host
  BY <1>3 DEF Host, WriteFillAddr, WriteRdCnt, ClearReadback, WriteGo, ClearGo,
    ReadReadback, HostWrites, Captured, csrVars, tmpVars, TypeOK, Saved, Asked
<1>4. CASE UNCHANGED vars
  BY <1>4 DEF vars, csrVars, tmpVars, hostVars, Captured, Asked
<1> QED BY <1>1, <1>2, <1>3, <1>4 DEF Next, Sys

-----------------------------------------------------------------------------
(* A launch puts the next address of the block behind those in flight.       *)
LEMMA WordsLaunched ==
  ASSUME TypeOK, Saved, Accounted, Words, HoldsData, ~lost, ~lost', ComboTrigger,
         NEW valid \in {0, 1}, Clock(1, valid), RdLaunch(1, valid)
  PROVE  Words'
<1>1. /\ state = "RD_LAUNCH" /\ rdc_tmp' = rdc_tmp /\ fa_tmp' = fa_tmp /\ left' = left
      /\ rd_cnt' = Count /\ fill_addr' = (fill_addr + 1) % WORDS
      /\ state' = IF rd_cnt = 0 THEN "RD_LAND" ELSE "RD_LAUNCH"
  BY DEF RdLaunch, GoTo, Save, Cut, tmpVars
<1>2. /\ rd_cnt \in Nat /\ rdc_tmp \in Nat /\ fa_tmp \in Nat /\ left \in Nat
      /\ rd_cnt <= rdc_tmp /\ Len(inflight) = left + rdc_tmp - rd_cnt
  BY <1>1 DEF TypeOK, Saved, Accounted
<1> DEFINE x == fa_tmp + (rdc_tmp - rd_cnt)
<1>3. x \in Nat /\ fill_addr = x % WORDS
  BY <1>1, <1>2 DEF Words
<1>4. fill_addr' = (x + 1) % WORDS
  BY <1>1, <1>3, NextAddress
<1>5. ASSUME NEW p \in 1 .. Len(inflight'), p > left
      PROVE  inflight'[p] = (fa_tmp + (p - left - 1)) % WORDS
  <2>1. Len(inflight) \in Nat /\ Len(inflight') = Len(inflight) + 1
    BY <1>1, Moves
  <2>2. CASE p = Len(inflight) + 1
    <3>1. inflight'[p] = fill_addr
      BY <1>1, <2>2, Moves
    <3>2. fa_tmp + (p - left - 1) = x
      BY <1>2, <2>2
    <3> QED BY <1>3, <3>1, <3>2
  <2>3. CASE p # Len(inflight) + 1
    <3>1. p \in 1 .. Len(inflight)
      BY <2>1, <2>3
    <3>2. inflight'[p] = inflight[p]
      BY <1>1, <3>1, Moves
    <3> QED BY <1>1, <1>5, <3>1, <3>2 DEF Words
  <2> QED BY <2>2, <2>3
<1>6. CASE rd_cnt = 0
  <2>1. state' = "RD_LAND" /\ rd_cnt' = rdc_tmp
    BY <1>1, <1>6 DEF Count
  <2>2. ASSUME NEW p \in 1 .. Len(inflight'), p + rdc_tmp - rdc_tmp > left
        PROVE  inflight'[p] = (fa_tmp + (p + rdc_tmp - rdc_tmp - left - 1)) % WORDS
    <3>1. Len(inflight') \in Nat
      BY <1>1, Moves
    <3>2. /\ p \in Nat /\ p + rdc_tmp - rdc_tmp = p
          /\ p + rdc_tmp - rdc_tmp - left - 1 = p - left - 1
      BY <1>2, <3>1
    <3> QED BY <1>5, <2>2, <3>2
  <2> QED BY <1>1, <2>1, <2>2 DEF Words
<1>7. CASE rd_cnt # 0
  <2>1. state' = "RD_LAUNCH" /\ rd_cnt' = rd_cnt - 1
    BY <1>1, <1>7 DEF Count
  <2>2. x + 1 = fa_tmp + (rdc_tmp - rd_cnt')
    BY <1>2, <2>1
  <2> QED BY <1>1, <1>4, <1>5, <2>1, <2>2 DEF Words
<1> QED BY <1>6, <1>7

(* A landing takes the first of them.                                        *)
LEMMA WordsLanded ==
  ASSUME TypeOK, Saved, Words, HoldsData, ~lost, ~lost', ComboTrigger, ~LastLanding,
         NEW ready \in {0, 1}, Clock(ready, 1), RdLand(1)
  PROVE  Words'
<1>1. /\ state = "RD_LAND" /\ state' = "RD_LAND" /\ rd_cnt' = rd_cnt - 1
      /\ rdc_tmp' = rdc_tmp /\ fa_tmp' = fa_tmp /\ left' = left
  BY DEF RdLand, GoTo, Save, Cut, Count, LastLanding, tmpVars
<1>2. rd_cnt \in Nat /\ rdc_tmp \in Nat /\ left \in Nat
  BY DEF TypeOK
<1>3. ASSUME NEW p \in 1 .. Len(inflight'), p + rdc_tmp - rd_cnt' > left
      PROVE  inflight'[p] = (fa_tmp + (p + rdc_tmp - rd_cnt' - left - 1)) % WORDS
  <2>1. /\ Len(inflight) \in Nat /\ Len(inflight') = Len(inflight) - 1
        /\ inflight'[p] = inflight[p + 1]
    BY <1>1, Moves
  <2>2. p + 1 \in 1 .. Len(inflight) /\ p \in Nat
    BY <2>1
  <2>3. /\ (p + 1) + rdc_tmp - rd_cnt = p + rdc_tmp - rd_cnt'
        /\ (p + 1) + rdc_tmp - rd_cnt - left - 1 = p + rdc_tmp - rd_cnt' - left - 1
    BY <1>1, <1>2, <2>2
  <2>4. inflight[p + 1] = (fa_tmp + ((p + 1) + rdc_tmp - rd_cnt - left - 1)) % WORDS
    BY <1>1, <1>3, <2>2, <2>3 DEF Words
  <2> QED BY <2>1, <2>3, <2>4
<1> QED BY <1>1, <1>3 DEF Words

(* The words in the port and the registers stay those of their addresses.    *)
LEMMA WordsNext == TypeOK /\ Saved /\ Accounted /\ Words /\ [Next]_vars => Words'
<1> SUFFICES ASSUME TypeOK, Saved, Accounted, Words, [Next]_vars, HoldsData, ~lost'
             PROVE  Words'
  BY DEF Words
<1>1. ASSUME NEW ready \in {0, 1}, NEW valid \in {0, 1}, Clock(ready, valid) PROVE Words'
  <2>0. lost' = lost /\ ~lost
    BY <1>1 DEF Clock
  <2>1. CASE Reset(valid)
    BY <2>1 DEF Reset, DelayedEnter, GoTo, Save, Words
  <2>2. CASE Idle(valid)
    <3>1. CASE state' # "RD_LAUNCH"
      BY <2>2, <3>1 DEF Idle, DelayedEnter, GoTo, Save, Words
    <3>2. CASE state' = "RD_LAUNCH"
      <4>1. /\ fill_addr' = fill_addr /\ rd_cnt' = rd_cnt /\ left' = left
            /\ fa_tmp' = fill_addr /\ rdc_tmp' = rd_cnt /\ state = "IDLE"
        BY <2>0, <2>2, <3>2 DEF Idle, DelayedEnter, GoTo, Save, csrVars, TypeOK, Saved
      <4>2. Len(inflight') = left /\ left \in Nat
        BY <1>1, <4>1, Moves DEF Accounted, TypeOK
      <4>3. rd_cnt - rd_cnt = 0 /\ fill_addr \in 0 .. (WORDS - 1) /\ fill_addr + 0 = fill_addr
        BY DEF TypeOK
      <4>4. fill_addr' = (fa_tmp' + (rdc_tmp' - rd_cnt')) % WORDS
        BY <4>1, <4>3, Small
      <4>5. \A p \in 1 .. Len(inflight') : ~(p > left')
        BY <4>1, <4>2
      <4> QED BY <3>2, <4>4, <4>5 DEF Words
    <3> QED BY <3>1, <3>2
  <2>3. CASE RdLaunch(ready, valid)
    <3>1. CASE ~ComboTrigger
      BY <2>3, <3>1 DEF RdLaunch, GoTo, Save, Words
    <3>2. CASE ComboTrigger /\ ready = 1
      BY <1>1, <2>0, <2>3, <3>2, WordsLaunched
    <3>3. CASE ComboTrigger /\ ready = 0
      <4>1. UNCHANGED <<state, fill_addr, rd_cnt, left, rdc_tmp, fa_tmp>>
        BY <2>3, <3>3 DEF RdLaunch, GoTo, Save, Cut
      <4>2. inflight' = inflight
        BY <1>1, <2>3, <3>3, Moves DEF RdLaunch
      <4> QED BY <2>0, <4>1, <4>2 DEF Words
    <3> QED BY <3>1, <3>2, <3>3
  <2>4. CASE RdLand(valid)
    <3>1. CASE ~ComboTrigger \/ (valid = 1 /\ LastLanding)
      BY <2>4, <3>1 DEF RdLand, GoTo, Save, Words
    <3>2. CASE ComboTrigger /\ valid = 1 /\ ~LastLanding
      BY <1>1, <2>0, <2>4, <3>2, WordsLanded
    <3>3. CASE ComboTrigger /\ valid = 0
      <4>1. UNCHANGED <<state, fill_addr, rd_cnt, left, rdc_tmp, fa_tmp, inflight>>
        BY <2>4, <3>3 DEF RdLand, GoTo, Save, Cut
      <4> QED BY <2>0, <4>1 DEF Words
    <3> QED BY <3>1, <3>2, <3>3
  <2> QED BY <1>1, <2>1, <2>2, <2>3, <2>4 DEF Clock
<1>2. CASE RunFlag
  BY <1>2 DEF RunFlag, csrVars, tmpVars, Words
<1>3. CASE Host
  <2>1. UNCHANGED <<state, tmpVars, left, inflight>>
    BY <1>3 DEF Host, WriteFillAddr, WriteRdCnt, ClearReadback, WriteGo, ClearGo,
      ReadReadback, HostWrites
  <2>2. CASE state \in {"RD_LAUNCH", "RD_LAND"}
    <3>1. UNCHANGED <<fill_addr, rd_cnt, lost>>
      BY <1>3, <2>2 DEF Host, WriteFillAddr, WriteRdCnt, ClearReadback, WriteGo, ClearGo,
        ReadReadback, Captured, csrVars
    <3> QED BY <2>1, <3>1 DEF tmpVars, Words
  <2> QED BY <2>1, <2>2 DEF Words
<1>4. CASE UNCHANGED vars
  BY <1>4 DEF vars, csrVars, tmpVars, Words
<1> QED BY <1>1, <1>2, <1>3, <1>4 DEF Next, Sys

(* The last landing puts the block's last word, or as many before it as are  *)
(* left in flight, in readback_word, where it stays till the next.           *)
LEMMA LagsNext ==
  TypeOK /\ Saved /\ Accounted /\ Asked /\ Words /\ ReadbackLags /\ [Next]_vars
    => ReadbackLags'
<1> SUFFICES ASSUME TypeOK, Saved, Accounted, Asked, Words, ReadbackLags, [Next]_vars,
                    HoldsData, done', ~cut', ~lost', state' # "RD_LAND",
                    left' <= want'.cnt, pc' \in {"stop", "read"}
             PROVE  rb_word' = (want'.addr + want'.cnt - left') % WORDS
  BY DEF ReadbackLags
<1>1. ASSUME NEW ready \in {0, 1}, NEW valid \in {0, 1}, Clock(ready, valid)
      PROVE  rb_word' = (want'.addr + want'.cnt - left') % WORDS
  <2>0. UNCHANGED <<lost, pc, want>>
    BY <1>1 DEF Clock, hostVars
  <2>1. CASE Reset(valid) \/ Idle(valid)
    BY <2>0, <2>1 DEF Reset, Idle, csrVars, ReadbackLags
  <2>2. CASE RdLaunch(ready, valid)
    <3>1. ~cut /\ ComboTrigger
      BY <2>2, Zenon DEF RdLaunch, Cut
    <3>2. UNCHANGED <<left, done, rb_word>> /\ state = "RD_LAUNCH"
      BY <2>2, <3>1 DEF RdLaunch, Cut
    <3> QED BY <2>0, <3>1, <3>2 DEF ReadbackLags
  <2>3. CASE RdLand(valid)
    <3>1. valid = 1 /\ LastLanding /\ state = "RD_LAND" /\ cut' = cut /\ left' = left
      BY <2>0, <2>3 DEF RdLand, GoTo, Save, Cut
    <3>2. Len(inflight) > 0 /\ rb_word' = inflight[1] /\ Len(inflight) \in Nat
      BY <1>1, <3>1, Moves
    <3>3. fa_tmp = want.addr /\ rdc_tmp = want.cnt /\ rd_cnt = 0
      BY <2>0, <3>1 DEF Asked, Captured, LastLanding
    <3>4. rdc_tmp \in Nat /\ left \in Nat /\ fa_tmp \in Nat /\ left <= rdc_tmp
      BY <2>0, <3>1, <3>3 DEF TypeOK
    <3>5. 1 \in 1 .. Len(inflight) /\ 1 + rdc_tmp - rd_cnt > left
      BY <3>2, <3>3, <3>4
    <3>6. inflight[1] = (fa_tmp + (1 + rdc_tmp - rd_cnt - left - 1)) % WORDS
      BY <2>0, <3>1, <3>5 DEF Words
    <3>7. fa_tmp + (1 + rdc_tmp - rd_cnt - left - 1) = want.addr + want.cnt - left
      BY <3>3, <3>4
    <3> QED BY <2>0, <3>1, <3>2, <3>6, <3>7
  <2> QED BY <1>1, <2>1, <2>2, <2>3 DEF Clock
<1>2. CASE RunFlag
  BY <1>2 DEF RunFlag, csrVars, hostVars, ReadbackLags
<1>3. CASE Host
  BY <1>3 DEF Host, WriteFillAddr, WriteRdCnt, ClearReadback, WriteGo, ClearGo,
    ReadReadback, HostWrites, csrVars, ReadbackLags
<1>4. CASE UNCHANGED vars
  BY <1>4 DEF vars, csrVars, hostVars, ReadbackLags
<1> QED BY <1>1, <1>2, <1>3, <1>4 DEF Next, Sys

-----------------------------------------------------------------------------
LEMMA Invariance == Spec => []IInv
<1>1. Init => IInv
  <2> SUFFICES ASSUME Init PROVE IInv
    OBVIOUS
  <2>1. TypeOK
    BY TypeInit
  <2>2. Len(inflight) = 0
    BY DEF Init
  <2>3. Accounted /\ Saved /\ Asked /\ Words /\ ReadbackLags
    BY <2>2 DEF Init, Accounted, Saved, Asked, Words, ReadbackLags
  <2> QED BY <2>1, <2>3 DEF IInv
<1>2. IInv /\ [Next]_vars => IInv'
  BY TypeNext, SavedNext, AccountedNext, AskedNext, WordsNext, LagsNext DEF IInv
<1> QED BY <1>1, <1>2, PTL DEF Spec

(* Whatever the host and the analyzer cut short, the reads in flight are     *)
(* those the run awaits and those earlier ones left (emu_dram.py:65-98).     *)
THEOREM Accounting == Spec => []ReadsAccounted
<1>1. IInv => ReadsAccounted
  <2> SUFFICES ASSUME IInv, HoldsData, ~lost
               PROVE  Len(inflight) = left + CASE state = "RD_LAUNCH" -> rdc_tmp - rd_cnt
                                               [] state = "RD_LAND" -> rd_cnt + 1
                                               [] OTHER -> 0
    BY DEF ReadsAccounted
  <2>1. left \in Nat /\ Accounted /\ state \in {"RESET", "IDLE", "RD_LAUNCH", "RD_LAND"}
    BY DEF IInv, TypeOK
  <2>2. CASE state \in {"RESET", "IDLE"}
    BY <2>1, <2>2 DEF Accounted
  <2>3. CASE state = "RD_LAUNCH"
    <3>1. rdc_tmp \in Nat /\ rd_cnt \in Nat
      BY DEF IInv, TypeOK
    <3> QED BY <2>1, <2>3, <3>1 DEF Accounted
  <2>4. CASE state = "RD_LAND"
    <3>1. rd_cnt \in Nat
      BY DEF IInv, TypeOK
    <3> QED BY <2>1, <2>4, <3>1 DEF Accounted
  <2> QED BY <2>1, <2>2, <2>3, <2>4
<1> QED BY Invariance, <1>1, PTL

(* A run that is let come to its end gives the CSRs back (emu_dram.py:76,    *)
(* 91-94).                                                                   *)
THEOREM Restoring == Spec => []CsrsRestored
<1>1. IInv => CsrsRestored
  BY DEF IInv, Saved, Asked, Captured, TypeOK, CsrsRestored
<1> QED BY Invariance, <1>1, PTL

(* What readback_word shows after a run (emu_dram.py:86).                    *)
THEOREM Lagging == Spec => []ReadbackLags
<1>1. IInv => ReadbackLags
  BY DEF IInv
<1> QED BY Invariance, <1>1, PTL
=============================================================================
