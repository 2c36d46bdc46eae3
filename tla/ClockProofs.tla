---------------------------- MODULE ClockProofs ----------------------------
(* What the clocks are counted for: the period of a ticker and of the beat   *)
(* of two, for every max_cnt, and the words a pipeline of reads delivers.    *)
EXTENDS BeatTicker, TickerFreq, ReadAhead, WellFoundedInduction, TLAPS

USE TickerAssumption, TickerBAssumption

(* When the counter can hold max_cnt, it is the time since the last tick.    *)
Counts == MAX_CNT < SPAN =>
            /\ counter \in 0 .. MAX_CNT
            /\ tick = 0 => since = counter
            /\ tick = 1 => counter = 0 /\ since = MAX_CNT + 1

(* When it cannot, there is no tick: SilentWhenNarrow.                       *)
Inv == TypeOK /\ Counts /\ SilentWhenNarrow

LEMMA WrapValue == ASSUME NEW x \in 0 .. SPAN
                   PROVE  Wrap(x) = IF x = SPAN THEN 0 ELSE x
<1>1. \A n \in Nat \ {0} : \A k \in 0 .. n : k % n = IF k = n THEN 0 ELSE k
  BY SMT
<1> QED BY <1>1 DEF Wrap

LEMMA Invariance == Spec => []Inv
<1>1. Init => Inv
  BY DEF Init, Inv, TypeOK, Counts, SilentWhenNarrow, SINCE_BOUND
<1>2. Inv /\ [Clock]_vars => Inv'
  <2> SUFFICES ASSUME Inv, [Clock]_vars PROVE Inv'
    OBVIOUS
  <2>1. CASE Clock
    <3>1. counter + 1 \in 0 .. SPAN /\ SPAN \in Nat \ {0}
      BY DEF Inv, TypeOK
    <3>2. Wrap(counter + 1) = IF counter + 1 = SPAN THEN 0 ELSE counter + 1
      BY <3>1, WrapValue
    <3>3. TypeOK'
      BY <2>1, <3>2 DEF Inv, TypeOK, Clock, AtMax, SINCE_BOUND, Counts, SilentWhenNarrow
    <3>4. Counts'
      BY <2>1, <3>2 DEF Inv, TypeOK, Clock, AtMax, Counts, SINCE_BOUND
    <3>5. SilentWhenNarrow'
      BY <2>1 DEF Inv, TypeOK, Clock, AtMax, SilentWhenNarrow
    <3> QED BY <3>3, <3>4, <3>5 DEF Inv
  <2>2. CASE UNCHANGED vars
    BY <2>2 DEF Inv, TypeOK, Counts, SilentWhenNarrow, vars
  <2> QED BY <2>1, <2>2
<1> QED BY <1>1, <1>2, PTL DEF Spec

(* The counter never shows more than it has bits for, nor more than max_cnt  *)
(* (hello.py:13, 20-26).                                                     *)
THEOREM TypeCorrect == Spec => []TypeOK
<1>1. Inv => TypeOK
  BY DEF Inv
<1> QED BY Invariance, <1>1, PTL

(* Ticks are exactly max_cnt + 1 clocks apart, the first one included, for   *)
(* every max_cnt and every width (hello.py:20-26).                           *)
THEOREM TicksApart == Spec => []TickPeriod
<1>1. Inv => TickPeriod
  BY DEF Inv, TypeOK, Counts, SilentWhenNarrow, TickPeriod
<1> QED BY Invariance, <1>1, PTL

(* A ticker whose max_cnt is 2^w, the number of values of its counter, never *)
(* ticks, for every w (hello.py:13, 20).                                     *)
THEOREM PowerOfTwoIsSilent == Spec => []SilentWhenNarrow
<1>1. Inv => SilentWhenNarrow
  BY DEF Inv
<1> QED BY Invariance, <1>1, PTL

(* Remainders.                                                               *)
LEMMA NextRemainder ==
  ASSUME NEW m \in Nat \ {0}, NEW n \in Nat
  PROVE  /\ n % m \in 0 .. (m - 1)
         /\ (n + 1) % m = IF n % m = m - 1 THEN 0 ELSE (n % m) + 1
OBVIOUS

LEMMA MultipleRemainder ==
  ASSUME NEW m \in Nat \ {0}, NEW n \in Nat \ {0}
  PROVE  m * n \in Nat \ {0} /\ (m * n) % m = 0 /\ (m * n) % n = 0
OBVIOUS

LEMMA SmallRemainder ==
  ASSUME NEW m \in Nat \ {0}, NEW n \in 0 .. (m - 1) PROVE n % m = n
OBVIOUS

-----------------------------------------------------------------------------
(* Two tickers.  What a beat's history counts is the clocks since the last   *)
(* one; a beat is the beginning of the next.                                 *)
PeriodA == MAX_CNT + 1
PeriodB == MAX_CNT_B + 1

SinceBeat == IF Beat THEN 0 ELSE beat_since

(* A ticker that ticks at all is at the remainder of that by its period.     *)
InStep(max_cnt, count, up) ==
  /\ count = SinceBeat % (max_cnt + 1) /\ up \in {0, 1}
  /\ up = 1 <=> count = 0 /\ beat_since > 0

(* No common multiple of the periods has gone by since the last beat.        *)
NoneMissed == \A j \in 1 .. (beat_since - 1) : j % PeriodA # 0 \/ j % PeriodB # 0

Ticking == MAX_CNT < SPAN /\ MAX_CNT_B < SPAN_B

BeatInv ==
  Ticking => /\ beat_since \in 0 .. BEAT_BOUND
             /\ Beat => beat_since > 0 /\ beat_since % PeriodA = 0 /\ beat_since % PeriodB = 0
             /\ InStep(MAX_CNT, counter, tick) /\ InStep(MAX_CNT_B, counter_b, tick_b)
             /\ NoneMissed

(* So a beat is never late, and its history never stops counting.            *)
LEMMA BeatInTime ==
  ASSUME Ticking, beat_since \in Nat, NoneMissed
  PROVE  beat_since <= PeriodA * PeriodB /\ beat_since < BEAT_BOUND
<1>1. PeriodA \in Nat \ {0} /\ PeriodB \in Nat \ {0}
  BY DEF PeriodA, PeriodB
<1>2. /\ PeriodA * PeriodB \in Nat \ {0}
      /\ (PeriodA * PeriodB) % PeriodA = 0 /\ (PeriodA * PeriodB) % PeriodB = 0
  BY <1>1, MultipleRemainder
<1>3. beat_since <= PeriodA * PeriodB
  BY <1>2 DEF NoneMissed
<1>4. PeriodA <= SPAN /\ PeriodB <= SPAN_B
  BY DEF Ticking, PeriodA, PeriodB
<1>5. \A a, b, m, n \in Nat : a <= m /\ b <= n => a * b <= m * n
  BY SMT
<1>6. PeriodA * PeriodB <= SPAN * SPAN_B
  BY <1>1, <1>4, <1>5
<1>7. SPAN * SPAN_B \in Nat /\ SPAN * SPAN_B > 0 /\ 2 * SPAN * SPAN_B = 2 * (SPAN * SPAN_B)
  BY <1>1, <1>2, <1>6
<1> QED BY <1>2, <1>3, <1>6, <1>7 DEF BEAT_BOUND

(* A ticker's clock adds one to the remainder.                               *)
LEMMA StaysInStep ==
  ASSUME NEW max_cnt \in Nat, max_cnt > 1, NEW span \in Nat, max_cnt < span,
         NEW count, NEW up, NEW count1, NEW up1, NEW n \in Nat,
         count = n % (max_cnt + 1),
         IF count = max_cnt THEN up1 = 1 /\ count1 = 0
                            ELSE up1 = 0 /\ count1 = (count + 1) % span
  PROVE  /\ count1 = (n + 1) % (max_cnt + 1)
         /\ up1 \in {0, 1} /\ (up1 = 1 <=> count1 = 0)
<1>1. max_cnt + 1 \in Nat \ {0}
  OBVIOUS
<1>2. /\ count \in 0 .. max_cnt
      /\ (n + 1) % (max_cnt + 1) = IF count = max_cnt THEN 0 ELSE count + 1
  <2>1. /\ n % (max_cnt + 1) \in 0 .. ((max_cnt + 1) - 1)
        /\ (n + 1) % (max_cnt + 1) = IF n % (max_cnt + 1) = (max_cnt + 1) - 1
                                     THEN 0 ELSE (n % (max_cnt + 1)) + 1
    BY <1>1, NextRemainder
  <2> QED BY <2>1
<1>3. count # max_cnt => (count + 1) % span = count + 1
  BY <1>2, SmallRemainder
<1> QED BY <1>2, <1>3

LEMMA BeatNext == ASSUME BeatInv, [BeatClock]_beatVars PROVE BeatInv'
<1> SUFFICES ASSUME Ticking PROVE BeatInv'
  BY DEF BeatInv, Ticking
<1> DEFINE n == SinceBeat
<1>0. /\ beat_since \in 0 .. BEAT_BOUND /\ beat_since \in Nat /\ NoneMissed
      /\ Beat => beat_since > 0 /\ beat_since % PeriodA = 0 /\ beat_since % PeriodB = 0
      /\ InStep(MAX_CNT, counter, tick) /\ InStep(MAX_CNT_B, counter_b, tick_b)
  BY DEF BeatInv
<1>1. n \in Nat
  BY <1>0 DEF SinceBeat
<1>2. CASE BeatClock
  <2>1. beat_since < BEAT_BOUND
    BY <1>0, BeatInTime
  <2>2. beat_since' = n + 1 /\ beat_since' \in 1 .. BEAT_BOUND
    <3>1. Beat => beat_since' = 1
      BY <1>0, <1>2, <2>1 DEF BeatClock
    <3>2. ~Beat => beat_since' = beat_since + 1
      BY <1>0, <1>2, <2>1 DEF BeatClock
    <3>3. BEAT_BOUND \in Nat
      BY DEF BEAT_BOUND
    <3> QED BY <1>0, <1>1, <2>1, <3>1, <3>2, <3>3 DEF SinceBeat
  <2>3. /\ counter' = (n + 1) % PeriodA
        /\ tick' \in {0, 1} /\ (tick' = 1 <=> counter' = 0)
    <3>1. /\ counter = n % (MAX_CNT + 1)
          /\ IF counter = MAX_CNT THEN tick' = 1 /\ counter' = 0
                                  ELSE tick' = 0 /\ counter' = (counter + 1) % SPAN
      BY <1>0, <1>2 DEF BeatClock, Clock, AtMax, Wrap, InStep
    <3> HIDE DEF n
    <3> QED BY <1>1, <3>1, StaysInStep DEF PeriodA, Ticking
  <2>4. /\ counter_b' = (n + 1) % PeriodB
        /\ tick_b' \in {0, 1} /\ (tick_b' = 1 <=> counter_b' = 0)
    <3>1. /\ counter_b = n % (MAX_CNT_B + 1)
          /\ IF counter_b = MAX_CNT_B THEN tick_b' = 1 /\ counter_b' = 0
                                      ELSE tick_b' = 0 /\ counter_b' = (counter_b + 1) % SPAN_B
      BY <1>0, <1>2 DEF BeatClock, B!Clock, B!AtMax, B!Wrap, InStep
    <3> HIDE DEF n
    <3> QED BY <1>1, <3>1, StaysInStep DEF PeriodB, Ticking
  <2>5. NoneMissed'
    <3> SUFFICES ASSUME NEW j \in 1 .. (beat_since' - 1)
                 PROVE  j % PeriodA # 0 \/ j % PeriodB # 0
      BY DEF NoneMissed, PeriodA, PeriodB
    <3>1. ~Beat /\ n = beat_since /\ beat_since > 0
      BY <1>0, <2>2 DEF SinceBeat
    <3>2. CASE j = beat_since
      BY <1>0, <3>1, <3>2 DEF InStep, Beat, PeriodA, PeriodB, SinceBeat
    <3>3. CASE j # beat_since
      BY <1>0, <2>2, <3>1, <3>3 DEF NoneMissed
    <3> QED BY <3>2, <3>3
  <2>6. Beat' => /\ beat_since' % PeriodA = 0 /\ beat_since' % PeriodB = 0
                 /\ counter' = 0 /\ counter_b' = 0
    BY <2>2, <2>3, <2>4 DEF Beat
  <2>7. 0 % PeriodA = 0 /\ 0 % PeriodB = 0
    BY DEF PeriodA, PeriodB
  <2>8. SinceBeat' = IF Beat' THEN 0 ELSE n + 1
    BY <2>2 DEF SinceBeat
  <2>9. InStep(MAX_CNT, counter, tick)'
    BY <2>2, <2>3, <2>6, <2>7, <2>8 DEF InStep, PeriodA
  <2>10. InStep(MAX_CNT_B, counter_b, tick_b)'
    BY <2>2, <2>4, <2>6, <2>7, <2>8 DEF InStep, PeriodB
  <2> QED BY <2>2, <2>5, <2>6, <2>9, <2>10 DEF BeatInv, PeriodA, PeriodB, BEAT_BOUND
<1>3. CASE UNCHANGED beatVars
  BY <1>3 DEF beatVars, vars, B!vars, BeatInv, Beat, InStep, SinceBeat, NoneMissed
<1> QED BY <1>2, <1>3

(* The first common multiple is the least one.                               *)
LEMMA FirstIsLeast ==
  ASSUME NEW m \in Nat \ {0}, NEW n \in Nat \ {0}, NEW k \in 1 .. (m * n),
         k % m = 0, k % n = 0,
         \A j \in 1 .. (k - 1) : j % m # 0 \/ j % n # 0
  PROVE  k = Lcm(m, n)
<1> DEFINE First(i) == /\ i % m = 0 /\ i % n = 0
                       /\ \A j \in 1 .. (i - 1) : j % m # 0 \/ j % n # 0
<1>1. First(k)
  OBVIOUS
<1>2. ASSUME NEW i \in 1 .. (m * n), First(i) PROVE i = k
  <2>1. i \in Nat /\ k \in Nat /\ i >= 1 /\ k >= 1
    BY MultipleRemainder
  <2>2. i < k => i \in 1 .. (k - 1)
    BY <2>1
  <2>3. k < i => k \in 1 .. (i - 1)
    BY <2>1
  <2>4. ~(i < k)
    BY <1>2, <2>2
  <2>5. ~(k < i)
    BY <1>2, <2>3
  <2> QED BY <2>1, <2>4, <2>5
<1>3. Lcm(m, n) = CHOOSE i \in 1 .. (m * n) : First(i)
  BY DEF Lcm
<1> HIDE DEF First
<1> QED BY <1>1, <1>2, <1>3

(* A ticker too narrow for its max_cnt is silent, and so is its beat.        *)
Narrow(max_cnt, span, count, up) == max_cnt = span => count \in 0 .. (span - 1) /\ up = 0

OneIsSilent == /\ Narrow(MAX_CNT, SPAN, counter, tick)
               /\ Narrow(MAX_CNT_B, SPAN_B, counter_b, tick_b)

LEMMA SilentNext == ASSUME OneIsSilent, [BeatClock]_beatVars PROVE OneIsSilent'
<1>1. ASSUME NEW m \in Nat, m > 1, NEW i \in 0 .. (m - 1)
      PROVE  (i + 1) % m \in 0 .. (m - 1) /\ i # m
  OBVIOUS
<1>2. CASE BeatClock
  <2>1. Narrow(MAX_CNT, SPAN, counter, tick)'
    BY <1>1, <1>2 DEF OneIsSilent, Narrow, BeatClock, Clock, AtMax, Wrap
  <2>2. Narrow(MAX_CNT_B, SPAN_B, counter_b, tick_b)'
    BY <1>1, <1>2 DEF OneIsSilent, Narrow, BeatClock, B!Clock, B!AtMax, B!Wrap
  <2> QED BY <2>1, <2>2 DEF OneIsSilent
<1>3. CASE UNCHANGED beatVars
  BY <1>3 DEF beatVars, vars, B!vars, OneIsSilent, Narrow
<1> QED BY <1>2, <1>3

(* Two tickers beat once in the least common multiple of their periods,      *)
(* whatever the two are: never early, never late, the first time included    *)
(* (hello.py:38-55).                                                         *)
THEOREM BeatsAtLcm == BeatSpec => []BeatPeriod
<1>1. BeatInit => BeatInv /\ OneIsSilent
  <2>1. 0 % (MAX_CNT + 1) = 0 /\ 0 % (MAX_CNT_B + 1) = 0
    OBVIOUS
  <2>2. BEAT_BOUND \in Nat
    BY DEF BEAT_BOUND
  <2> QED BY <2>1, <2>2
      DEF BeatInit, Init, B!Init, BeatInv, Beat, InStep, SinceBeat, NoneMissed, OneIsSilent,
          Narrow
<1>2. BeatInv /\ OneIsSilent /\ [BeatClock]_beatVars => (BeatInv /\ OneIsSilent)'
  BY BeatNext, SilentNext
<1>3. BeatInv /\ OneIsSilent => BeatPeriod
  <2> SUFFICES ASSUME BeatInv, OneIsSilent, Beat
               PROVE  beat_since = Lcm(PeriodA, PeriodB)
    BY DEF BeatPeriod, PeriodA, PeriodB
  <2>1. Ticking
    BY DEF OneIsSilent, Narrow, Beat, Ticking
  <2>2. /\ beat_since \in Nat \ {0} /\ NoneMissed
        /\ beat_since % PeriodA = 0 /\ beat_since % PeriodB = 0
    BY <2>1 DEF BeatInv
  <2>3. PeriodA \in Nat \ {0} /\ PeriodB \in Nat \ {0}
    BY DEF PeriodA, PeriodB
  <2>4. beat_since \in 1 .. (PeriodA * PeriodB)
    BY <2>1, <2>2, <2>3, BeatInTime, MultipleRemainder
  <2> QED BY <2>2, <2>3, <2>4, FirstIsLeast DEF NoneMissed
<1> QED BY <1>1, <1>2, <1>3, PTL DEF BeatSpec

-----------------------------------------------------------------------------
(* Rounding a quotient up.                                                   *)
LEMMA Ceiling ==
  ASSUME NEW g \in Nat \ {0}, NEW w \in Nat \ {0}
  PROVE  LET n == (g + w - 1) \div w
         IN  n \in Nat \ {0} /\ (n - 1) * w < g /\ g <= n * w
<1> DEFINE x == g + w - 1
           n == x \div w
<1>1. x \in Nat /\ x >= w
  OBVIOUS
<1> HIDE DEF x
<1>2. n \in Nat /\ x = w * n + (x % w) /\ x % w \in 0 .. (w - 1)
  <2>1. \A v \in Nat \ {0}, y \in Nat :
          /\ y \div v \in Nat /\ y % v \in 0 .. (v - 1)
          /\ y = v * (y \div v) + (y % v)
    BY SMT
  <2> QED BY <1>1, <2>1
<1> HIDE DEF n
<1>3. w * n > x - w /\ w * n <= x
  BY <1>1, <1>2
<1>4. (n - 1) * w = w * n - w /\ n * w = w * n
  BY <1>2
<1>5. w * n > 0
  BY <1>1, <1>2, <1>3
<1>6. n > 0
  BY <1>2, <1>5
<1> QED BY <1>2, <1>3, <1>4, <1>6 DEF n, x

(* Fewer words hold fewer guesses.                                           *)
LEMMA Grows == ASSUME NEW m \in Nat, NEW n \in Nat, NEW w \in Nat, m <= n
               PROVE  m * w <= n * w
<1>1. n * w - m * w = (n - m) * w /\ n - m \in Nat
  OBVIOUS
<1>2. (n - m) * w >= 0
  <2> DEFINE d == n - m
  <2>1. d \in Nat
    OBVIOUS
  <2> HIDE DEF d
  <2>2. d * w >= 0
    BY <2>1
  <2> QED BY <2>2 DEF d
<1> QED BY <1>1, <1>2

USE ReadAheadAssumption

(* The pipeline is full once the latency has passed.                         *)
Piped == /\ dfi_latency \in Nat /\ clk_ratio \in Nat \ {0} /\ clk \in Nat
         /\ word_width \in Nat \ {0}
         /\ landed = IF clk >= dfi_latency THEN clk - dfi_latency + 1 ELSE 0

LEMMA PipedAlways == CalcSpec => []Piped
<1>1. CalcInit => Piped
  BY DEF CalcInit, Piped
<1>2. Piped /\ [CalcClock]_calcVars => Piped'
  BY DEF Piped, CalcClock, calcVars, params
<1> QED BY <1>1, <1>2, PTL DEF CalcSpec

(* What calc.py prints as the number of reads is what has landed, where it   *)
(* is not negative (calc.py:14, 30).                                         *)
THEOREM ReadsCounted == CalcSpec => []CountsLandedReads
<1>1. Piped => CountsLandedReads
  <2> SUFFICES ASSUME Piped, NEW i \in 0 .. MAX_GUESS, clk = SysClks(i)
               PROVE  landed = IF NReads(i) > 0 THEN NReads(i) ELSE 0
    BY DEF CountsLandedReads
  <2>1. NReads(i) = clk - dfi_latency + 1
    BY DEF NReads, SysClkToReadN
  <2> QED BY <2>1 DEF Piped
<1> QED BY <1>1, PipedAlways, PTL

(* The slack calc.py prints is there exactly when the words that have landed *)
(* hold every guess (calc.py:31-34).                                         *)
THEOREM SlackIsCover == CalcSpec => []SlackMeansCovered
<1>1. Piped => SlackMeansCovered
  <2> SUFFICES ASSUME Piped, NEW i \in 0 .. MAX_GUESS, clk = SysClks(i)
               PROVE  SlackSysClks(i) >= 0 <=> landed * word_width >= NumGuesses(i)
    BY DEF SlackMeansCovered
  <2> DEFINE g == NumGuesses(i)
             n == NReadsToGetGuesses(i)
             w == word_width
  <2>1. g \in Nat \ {0} /\ w \in Nat \ {0}
    BY DEF NumGuesses, Piped
  <2>2. n \in Nat \ {0} /\ (n - 1) * w < g /\ g <= n * w
    <3>1. n = (g + w - 1) \div w
      BY DEF NReadsToGetGuesses
    <3> HIDE DEF n, g, w
    <3> QED BY <2>1, <3>1, Ceiling
  <2>3. SlackSysClks(i) = clk - (dfi_latency + n - 1)
    BY DEF SlackSysClks, SysClkForReadN, Piped
  <2> HIDE DEF n, g
  <2>4. landed \in Nat /\ (SlackSysClks(i) >= 0 <=> landed >= n)
    BY <2>2, <2>3 DEF Piped
  <2>5. CASE landed >= n
    BY <2>1, <2>2, <2>4, <2>5, Grows DEF g
  <2>6. CASE landed < n
    <3>1. landed <= n - 1 /\ n - 1 \in Nat
      BY <2>2, <2>4, <2>6
    <3>2. landed * w <= (n - 1) * w
      BY <2>1, <2>4, <3>1, Grows
    <3> QED BY <2>1, <2>2, <2>4, <2>6, <3>2 DEF g
  <2> QED BY <2>2, <2>4, <2>5, <2>6
<1> QED BY <1>1, PipedAlways, PTL
-----------------------------------------------------------------------------
(* Frequencies in floating point.  The powers of two first.                  *)
LEMMA LeastOf ==
  ASSUME NEW S, S \subseteq Nat, S # {} PROVE \E x \in S : \A y \in S : x <= y
<1> DEFINE R == {ss \in Nat \X Nat : ss[1] < ss[2]}
<1>1. IsWellFoundedOn(R, Nat)
  BY NatLessThanWellFounded DEF OpToRel
<1>2. PICK x \in S : \A y \in S : <<y, x>> \notin R
  <2> HIDE DEF R
  <2> QED BY <1>1, WFMin
<1>3. ASSUME NEW y \in S PROVE x <= y
  <2>1. x \in Nat /\ y \in Nat
    OBVIOUS
  <2>2. ~(y < x)
    BY <2>1, <1>2
  <2> QED BY <2>1, <2>2
<1> QED BY <1>3

LEMMA Power ==
  /\ P \in Nat /\ P > 0 /\ 2 ^ 0 = 1
  /\ \A i \in 0 .. (2 * P) : 2 ^ i \in Nat /\ 2 ^ i > 0
  /\ \A i \in 0 .. (2 * P) : \A j \in Nat : j = i + 1 => 2 ^ j = 2 * 2 ^ i
BY FreqAssumption

LEMMA PowerSum ==
  ASSUME NEW a \in Nat, NEW b \in Nat, a + b <= 2 * P
  PROVE  2 ^ (a + b) = 2 ^ a * 2 ^ b
<1> DEFINE S == {i \in Nat : a + i <= 2 * P /\ 2 ^ (a + i) # 2 ^ a * 2 ^ i}
<1> SUFFICES ASSUME S # {} PROVE FALSE
  OBVIOUS
<1>1. PICK x \in S : \A y \in S : x <= y
  <2>1. S \subseteq Nat
    OBVIOUS
  <2> HIDE DEF S
  <2> QED BY <2>1, LeastOf
<1>2. x \in Nat /\ a + x <= 2 * P /\ 2 ^ (a + x) # 2 ^ a * 2 ^ x
  OBVIOUS
<1>3. a \in 0 .. (2 * P) /\ 2 ^ a \in Nat
  BY <1>2, Power
<1>4. x # 0
  <2>1. a + 0 = a /\ 2 ^ a * 1 = 2 ^ a
    BY <1>3
  <2> QED BY <1>2, <2>1, Power
<1> DEFINE y == x - 1
<1>5. y \in Nat /\ a + y <= 2 * P /\ ~(x <= y) /\ x = y + 1 /\ a + x = (a + y) + 1
  BY <1>2, <1>4, Power
<1>6. 2 ^ (a + y) = 2 ^ a * 2 ^ y
  BY <1>1, <1>5
<1>7. /\ 2 ^ (a + x) = 2 * 2 ^ (a + y) /\ 2 ^ x = 2 * 2 ^ y /\ 2 ^ y \in Nat
  <2>1. a + y \in 0 .. (2 * P) /\ y \in 0 .. (2 * P) /\ a + x \in Nat
    BY <1>2, <1>5, Power
  <2> QED BY <1>2, <1>5, <2>1, Power
<1>8. \A u \in Nat, v \in Nat : 2 * (u * v) = u * (2 * v)
  OBVIOUS
<1> HIDE DEF y, S
<1> QED BY <1>2, <1>3, <1>6, <1>7, <1>8

LEMMA PowerOrder ==
  ASSUME NEW a \in 0 .. (2 * P), NEW b \in 0 .. (2 * P)
  PROVE  /\ a <= b => 2 ^ a <= 2 ^ b /\ 2 ^ b = 2 ^ a * 2 ^ (b - a)
         /\ 2 ^ a < 2 ^ b => a < b
<1>1. ASSUME NEW c \in 0 .. (2 * P), NEW d \in 0 .. (2 * P), c <= d
      PROVE  2 ^ c <= 2 ^ d /\ 2 ^ d = 2 ^ c * 2 ^ (d - c)
  <2>1. d - c \in 0 .. (2 * P) /\ c + (d - c) = d /\ c \in Nat /\ d \in Nat
    BY <1>1, Power
  <2>2. 2 ^ d = 2 ^ c * 2 ^ (d - c)
    <3>1. d - c \in Nat /\ c + (d - c) <= 2 * P
      BY <2>1, Power
    <3>2. 2 ^ (c + (d - c)) = 2 ^ c * 2 ^ (d - c)
      BY <2>1, <3>1, PowerSum
    <3> QED BY <2>1, <3>2
  <2>3. 2 ^ c \in Nat /\ 2 ^ (d - c) \in Nat /\ 2 ^ (d - c) > 0
    BY <2>1, Power
  <2>4. \A u \in Nat, v \in Nat : v > 0 => u <= u * v
    OBVIOUS
  <2> QED BY <2>2, <2>3, <2>4
<1>2. 2 ^ a \in Nat /\ 2 ^ b \in Nat
  BY Power
<1>3. a <= b => 2 ^ a <= 2 ^ b /\ 2 ^ b = 2 ^ a * 2 ^ (b - a)
  BY <1>1
<1>4. b <= a => 2 ^ b <= 2 ^ a
  BY <1>1
<1> QED BY <1>2, <1>3, <1>4, Power

(* A quotient and its remainder, and the nearest whole number to a fraction. *)
LEMMA Quotient ==
  ASSUME NEW n \in Nat, NEW d \in Nat, d > 0
  PROVE  /\ n \div d \in Nat /\ n % d \in Nat /\ n % d < d
         /\ n = (n \div d) * d + (n % d)
OBVIOUS

LEMMA NearestIsClose ==
  ASSUME NEW n \in Nat, NEW d \in Nat, d > 0, NEW x \in Nat,
         x = IF 2 * (n % d) > d \/ (2 * (n % d) = d /\ (n \div d) % 2 = 1)
             THEN (n \div d) + 1 ELSE n \div d
  PROVE  2 * (x * d) <= 2 * n + d /\ 2 * n <= 2 * (x * d) + d
<1> DEFINE m == n \div d
           r == n % d
<1>1. m \in Nat /\ r \in Nat /\ r < d /\ n = m * d + r
  BY Quotient
<1>2. (x = m + 1 /\ 2 * r >= d) \/ (x = m /\ 2 * r <= d)
  <2>1. x = IF 2 * r > d \/ (2 * r = d /\ m % 2 = 1) THEN m + 1 ELSE m
    OBVIOUS
  <2> HIDE DEF m, r
  <2> QED BY <1>1, <2>1
<1>3. (m + 1) * d = m * d + d /\ m * d \in Nat
  <2> HIDE DEF m
  <2> QED BY <1>1
<1> HIDE DEF m, r
<1> QED BY <1>1, <1>2, <1>3

(* The exponent is there to be chosen, and the double is within half a unit  *)
(* of its last place.                                                        *)
LEMMA RoundedIsClose ==
  ASSUME NEW n \in Nat, NEW d \in Nat, d > 0,
         n < 2 ^ P * d, 2 ^ (P - 1) * d <= n * 2 ^ (2 * P)
  PROVE  \E k \in 0 .. (2 * P), x \in Nat :
           /\ Rounded(n, d) = [n |-> x, d |-> 2 ^ k]
           /\ 2 ^ (P - 1) * d <= n * 2 ^ k /\ n * 2 ^ k < 2 ^ P * d
           /\ 2 * (x * d) <= 2 * (n * 2 ^ k) + d /\ 2 * (n * 2 ^ k) <= 2 * (x * d) + d
<1> DEFINE Fits(i) == 2 ^ (P - 1) * d <= n * 2 ^ i /\ n * 2 ^ i < 2 ^ P * d
           k == CHOOSE i \in 0 .. (2 * P) : Fits(i)
           S == {i \in 0 .. (2 * P) : 2 ^ (P - 1) * d <= n * 2 ^ i}
<1>1. PICK j \in S : \A i \in S : j <= i
  <2>1. S \subseteq Nat /\ 2 * P \in S
    <3>1. 2 * P \in 0 .. (2 * P)
      BY Power
    <3> QED BY <3>1
  <2> HIDE DEF S
  <2> QED BY <2>1, LeastOf
<1>2. Fits(j)
  <2>1. CASE j = 0
    <3>1. n * 2 ^ j = n
      BY <2>1, Power
    <3> QED BY <1>1, <2>1, <3>1
  <2>2. CASE j # 0
    <3>1. j - 1 \in 0 .. (2 * P) /\ j = (j - 1) + 1 /\ ~(j <= j - 1) /\ j \in Nat
      BY <2>2, Power
    <3>2. 2 ^ j = 2 * 2 ^ (j - 1) /\ 2 ^ (j - 1) \in Nat
      BY <3>1, Power
    <3>3. 2 ^ P = 2 * 2 ^ (P - 1) /\ 2 ^ (P - 1) \in Nat
      <4>1. P - 1 \in 0 .. (2 * P) /\ P = (P - 1) + 1 /\ P \in Nat
        BY Power
      <4> QED BY <4>1, Power
    <3>4. ~(2 ^ (P - 1) * d <= n * 2 ^ (j - 1))
      BY <1>1, <3>1
    <3>5. \A u \in Nat, v \in Nat : /\ ~(u * d <= n * v) => n * v < u * d
                                    /\ n * v < u * d => n * (2 * v) < (2 * u) * d
      <4> SUFFICES ASSUME NEW u \in Nat, NEW v \in Nat
                   PROVE  /\ ~(u * d <= n * v) => n * v < u * d
                          /\ n * v < u * d => n * (2 * v) < (2 * u) * d
        OBVIOUS
      <4>1. u * d \in Nat /\ n * v \in Nat
        OBVIOUS
      <4>2. n * (2 * v) = 2 * (n * v) /\ (2 * u) * d = 2 * (u * d)
        OBVIOUS
      <4> QED BY <4>1, <4>2
    <3> QED BY <1>1, <3>2, <3>3, <3>4, <3>5
  <2> QED BY <2>1, <2>2
<1>3. k \in 0 .. (2 * P) /\ Fits(k)
  <2>1. j \in 0 .. (2 * P)
    OBVIOUS
  <2> HIDE DEF Fits
  <2> QED BY <1>2, <2>1
<1> DEFINE v == n * 2 ^ k
           m == v \div d
           r == v % d
           x == IF 2 * r > d \/ (2 * r = d /\ m % 2 = 1) THEN m + 1 ELSE m
<1>4. Rounded(n, d) = [n |-> x, d |-> 2 ^ k]
  BY DEF Rounded
<1>5. 2 ^ k \in Nat
  BY <1>3, Power
<1>6. v \in Nat
  <2> HIDE DEF k
  <2> QED BY <1>5
<1>7. x \in Nat
  <2> HIDE DEF v
  <2> QED BY <1>6, Quotient
<1>8. 2 * (x * d) <= 2 * v + d /\ 2 * v <= 2 * (x * d) + d
  <2>1. x = IF 2 * (v % d) > d \/ (2 * (v % d) = d /\ (v \div d) % 2 = 1)
            THEN (v \div d) + 1 ELSE v \div d
    OBVIOUS
  <2> HIDE DEF v, x
  <2> QED BY <1>6, <1>7, <2>1, NearestIsClose
<1> HIDE DEF x, k
<1> QED BY <1>3, <1>4, <1>7, <1>8

(* Two roundings.  M/K is the period of f rounded, N/L is s of them rounded  *)
(* again; h is half the number of doubles of one exponent.                   *)
TwoRoundings(h, f, s, K, M, L, N) ==
  /\ h \in Nat /\ f \in Nat /\ f > 0 /\ s \in Nat /\ f <= s /\ s < h
  /\ K \in Nat /\ M \in Nat /\ h * f <= K
  /\ 2 * (M * f) <= 2 * K + f /\ 2 * K <= 2 * (M * f) + f
  /\ L \in Nat /\ N \in Nat /\ h * K <= (s * M) * L
  /\ 2 * (N * K) <= 2 * ((s * M) * L) + K /\ 2 * ((s * M) * L) <= 2 * (N * K) + K

LEMMA Cancel ==
  ASSUME NEW a \in Int, NEW b \in Int, NEW c \in Nat, c > 0
  PROVE  (a * c <= b * c => a <= b) /\ (a * c < b * c => a < b) /\ (a <= b => a * c <= b * c)
<1>1. a <= b => a * c <= b * c
  OBVIOUS
<1>2. b <= a => b * c <= a * c
  OBVIOUS
<1>3. b + 1 <= a => (b + 1) * c <= a * c
  OBVIOUS
<1>4. (b + 1) * c = b * c + c /\ b * c \in Int /\ a * c \in Int
  OBVIOUS
<1> QED BY <1>1, <1>2, <1>3, <1>4

(* The product s*M/K is within half of 1/f of the exact period, s/f.         *)
LEMMA ProductIsClose ==
  ASSUME NEW h, NEW f, NEW s, NEW K, NEW M, NEW L, NEW N, TwoRoundings(h, f, s, K, M, L, N)
  PROVE  /\ K > 0 /\ (s * M) * f \in Nat
         /\ 2 * ((s * M) * f) < (2 * s + 1) * K
         /\ (2 * s - 1) * K < 2 * ((s * M) * f)
<1>1. /\ h \in Nat /\ f \in Nat /\ f > 0 /\ s \in Nat /\ s > 0 /\ s < h /\ K \in Nat /\ M \in Nat
      /\ h * f <= K /\ 2 * (M * f) <= 2 * K + f /\ 2 * K <= 2 * (M * f) + f
  BY DEF TwoRoundings
<1>2. s * f < h * f /\ s * f \in Nat /\ h * f \in Nat
  <2>1. (s + 1) * f <= h * f
    BY <1>1, Cancel
  <2>2. (s + 1) * f = s * f + f /\ s * f \in Nat /\ h * f \in Nat
    BY <1>1
  <2> QED BY <1>1, <2>1, <2>2
<1>3. K > s * f
  BY <1>1, <1>2
<1>4. M * f \in Nat /\ (s * M) * f = (M * f) * s /\ (s * M) * f \in Nat
  BY <1>1
<1>5. /\ (2 * (M * f)) * s <= (2 * K + f) * s
      /\ (2 * K) * s <= (2 * (M * f) + f) * s
  BY <1>1, <1>4, Cancel
<1>6. /\ (2 * (M * f)) * s = 2 * ((M * f) * s) /\ (2 * K + f) * s = 2 * (s * K) + s * f
      /\ (2 * K) * s = 2 * (s * K) /\ (2 * (M * f) + f) * s = 2 * ((M * f) * s) + s * f
      /\ s * K \in Nat
  <2>1. \A u \in Nat : /\ (2 * u) * s = 2 * (u * s)
                       /\ (2 * u + f) * s = 2 * (u * s) + s * f
                       /\ u * s = s * u /\ u * s \in Nat
    BY <1>1
  <2> QED BY <1>1, <1>4, <2>1
<1>7. (2 * s + 1) * K = 2 * (s * K) + K /\ (2 * s - 1) * K = 2 * (s * K) - K
  BY <1>1
<1> QED BY <1>1, <1>2, <1>3, <1>4, <1>5, <1>6, <1>7

(* So the second exponent leaves room for fractions of 1/f.                  *)
LEMMA RoomForFractions ==
  ASSUME NEW h, NEW f, NEW s, NEW K, NEW M, NEW L, NEW N, TwoRoundings(h, f, s, K, M, L, N)
  PROVE  f < L
<1>1. /\ h \in Nat /\ f \in Nat /\ f > 0 /\ s \in Nat /\ s < h /\ K \in Nat /\ M \in Nat
      /\ L \in Nat /\ h * K <= (s * M) * L
  BY DEF TwoRoundings
<1> DEFINE y == (s * M) * f
<1>2. K > 0 /\ y \in Nat /\ 2 * y < (2 * s + 1) * K
  BY ProductIsClose
<1>3. (h * K) * (2 * f) <= ((s * M) * L) * (2 * f)
  <2>1. 2 * f \in Nat /\ 2 * f > 0 /\ h * K \in Int /\ (s * M) * L \in Int
    BY <1>1
  <2> QED BY <1>1, <2>1, Cancel
<1>4. /\ (h * K) * (2 * f) = (2 * (h * f)) * K
      /\ ((s * M) * L) * (2 * f) = (2 * y) * L
  <2>1. (h * K) * (2 * f) = (2 * (h * f)) * K
    BY <1>1
  <2>2. \A u \in Nat : (u * L) * (2 * f) = (2 * (u * f)) * L
    BY <1>1
  <2>3. s * M \in Nat
    BY <1>1
  <2> QED BY <2>1, <2>2, <2>3
<1>5. (2 * y) * L <= ((2 * s + 1) * K) * L
  <2>1. 2 * y <= (2 * s + 1) * K /\ 2 * y \in Int /\ (2 * s + 1) * K \in Int
    BY <1>1, <1>2
  <2>2. L = 0 => (2 * y) * L = 0 /\ ((2 * s + 1) * K) * L = 0
    <3> HIDE DEF y
    <3> QED BY <1>2, <2>1
  <2> HIDE DEF y
  <2> QED BY <1>1, <2>1, <2>2, Cancel
<1>6. ((2 * s + 1) * K) * L = ((2 * s + 1) * L) * K
  BY <1>1
<1>7. 2 * (h * f) <= (2 * s + 1) * L
  <2>1. (2 * (h * f)) * K <= ((2 * s + 1) * L) * K
    BY <1>3, <1>4, <1>5, <1>6, <1>1, <1>2
  <2>2. 2 * (h * f) \in Int /\ (2 * s + 1) * L \in Int
    BY <1>1
  <2> QED BY <1>1, <1>2, <2>1, <2>2, Cancel
<1>8. ASSUME L <= f PROVE FALSE
  <2>1. (2 * s + 1) * L <= (2 * s + 1) * f
    BY <1>1, <1>8
  <2>2. (2 * s + 1) * f = 2 * (s * f) + f /\ s * f \in Nat /\ h * f \in Nat
    BY <1>1
  <2>3. (s + 1) * f <= h * f /\ (s + 1) * f = s * f + f
    BY <1>1, Cancel
  <2>4. (2 * s + 1) * L \in Int
    BY <1>1
  <2> QED BY <1>1, <1>7, <2>1, <2>2, <2>3, <2>4
<1> QED BY <1>1, <1>8

LEMMA NotSlow ==
  ASSUME NEW h, NEW f \in Nat, NEW s \in Nat, NEW K, NEW M \in Nat, NEW L \in Nat, NEW N \in Nat,
         TwoRoundings(h, f, s, K, M, L, N), NEW q \in Nat, s < q * f
  PROVE  N < q * L
<1>1. /\ f \in Nat /\ f > 0 /\ s \in Nat /\ K \in Nat /\ M \in Nat /\ L \in Nat /\ N \in Nat
      /\ 2 * (N * K) <= 2 * ((s * M) * L) + K
  BY DEF TwoRoundings
<1> DEFINE y == (s * M) * f
<1>2. K > 0 /\ y \in Nat /\ 2 * y < (2 * s + 1) * K /\ f < L
  BY ProductIsClose, RoomForFractions
<1> SUFFICES ASSUME q * L <= N PROVE FALSE
  BY <1>1
<1>3. (q * L) * K <= N * K
  BY <1>1, <1>2, Cancel
<1>4. (2 * ((q * L) * K)) * f <= (2 * ((s * M) * L) + K) * f
  <2>1. 2 * ((q * L) * K) <= 2 * ((s * M) * L) + K
    BY <1>1, <1>3
  <2>2. 2 * ((q * L) * K) \in Int /\ 2 * ((s * M) * L) + K \in Int
    BY <1>1
  <2> QED BY <1>1, <2>1, <2>2, Cancel
<1>5. (2 * ((s * M) * L) + K) * f = (2 * y) * L + K * f
  <2>1. \A u \in Nat : (2 * (u * L) + K) * f = (2 * (u * f)) * L + K * f
    BY <1>1
  <2>2. s * M \in Nat
    BY <1>1
  <2> QED BY <2>1, <2>2
<1>6. (2 * y) * L <= ((2 * s + 1) * K) * L
  <2>1. 2 * y <= (2 * s + 1) * K /\ 2 * y \in Int /\ (2 * s + 1) * K \in Int
    BY <1>1, <1>2
  <2> HIDE DEF y
  <2> QED BY <1>1, <1>2, <2>1, Cancel
<1>7. /\ ((2 * s + 1) * K) * L + K * f = ((2 * s + 1) * L + f) * K
      /\ (2 * ((q * L) * K)) * f = (2 * ((q * f) * L)) * K
  BY <1>1
<1>8. 2 * ((q * f) * L) <= (2 * s + 1) * L + f
  <2>1. (2 * ((q * f) * L)) * K <= ((2 * s + 1) * L + f) * K
    <3>1. (2 * y) * L \in Int /\ ((2 * s + 1) * K) * L \in Int /\ K * f \in Int
      <4> HIDE DEF y
      <4> QED BY <1>1, <1>2
    <3> DEFINE a == (2 * ((q * L) * K)) * f
               b == (2 * y) * L
               c == ((2 * s + 1) * K) * L
               e == K * f
    <3>2. a <= b + e /\ b <= c /\ b \in Int /\ c \in Int /\ e \in Int /\ a \in Int
      <4>1. a \in Int
        BY <1>1
      <4> QED BY <1>4, <1>5, <1>6, <3>1, <4>1, Zenon
    <3>3. a <= c + e
      <4> HIDE DEF a, b, c, e
      <4> QED BY <3>2
    <3> QED BY <1>7, <3>3, Zenon
  <2>2. 2 * ((q * f) * L) \in Int /\ (2 * s + 1) * L + f \in Int
    BY <1>1
  <2> QED BY <1>1, <1>2, <2>1, <2>2, Cancel
<1>9. (s + 1) * L <= (q * f) * L
  <2>1. s + 1 <= q * f /\ q * f \in Int
    BY <1>1
  <2> QED BY <1>1, <1>2, <2>1, Cancel
<1>10. (2 * s + 1) * L = 2 * (s * L) + L /\ (s + 1) * L = s * L + L /\ s * L \in Nat
  BY <1>1
<1>11. (q * f) * L \in Nat
  BY <1>1
<1> QED BY <1>1, <1>2, <1>8, <1>9, <1>10, <1>11

LEMMA NotFast ==
  ASSUME NEW h, NEW f \in Nat, NEW s \in Nat, NEW K, NEW M \in Nat, NEW L \in Nat, NEW N \in Nat,
         TwoRoundings(h, f, s, K, M, L, N), NEW q \in Nat, q * f < s
  PROVE  q * L <= N
<1>1. /\ f \in Nat /\ f > 0 /\ s \in Nat /\ K \in Nat /\ M \in Nat /\ L \in Nat /\ N \in Nat
      /\ 2 * ((s * M) * L) <= 2 * (N * K) + K
  BY DEF TwoRoundings
<1>2. K > 0 /\ (s * M) * f \in Nat /\ (2 * s - 1) * K < 2 * ((s * M) * f)
  BY ProductIsClose
<1>3. q * K < s * M
  <2>1. (q * f) * K <= (s - 1) * K
    <3>1. q * f <= s - 1 /\ q * f \in Int /\ s - 1 \in Int
      BY <1>1
    <3> QED BY <1>1, <1>2, <3>1, Cancel
  <2>2. (s - 1) * K = s * K - K /\ (2 * s - 1) * K = 2 * (s * K) - K /\ s * K \in Nat
    BY <1>1
  <2>3. (q * K) * f = (q * f) * K /\ (q * f) * K \in Int
    BY <1>1
  <2>4. (q * K) * f < (s * M) * f
    BY <1>1, <1>2, <2>1, <2>2, <2>3
  <2>5. q * K \in Int /\ s * M \in Int
    BY <1>1
  <2> QED BY <1>1, <2>4, <2>5, Cancel
<1>4. (q * K) * L <= (s * M) * L
  <2>1. q * K \in Nat /\ s * M \in Nat /\ L \in Nat
    BY <1>1
  <2>2. \A u \in Nat, v \in Nat, w \in Nat : u < v => u * w <= v * w
    OBVIOUS
  <2> QED BY <1>3, <2>1, <2>2
<1>5. (q * K) * L = (q * L) * K /\ (q * L) * K \in Int
  BY <1>1
<1>6. (2 * (q * L)) * K <= (2 * N + 1) * K
  <2>1. (2 * (q * L)) * K = 2 * ((q * L) * K) /\ (2 * N + 1) * K = 2 * (N * K) + K
    BY <1>1
  <2>2. (s * M) * L \in Int /\ N * K \in Int
    BY <1>1
  <2> QED BY <1>1, <1>4, <1>5, <2>1, <2>2
<1>7. 2 * (q * L) <= 2 * N + 1
  <2>1. 2 * (q * L) \in Int /\ 2 * N + 1 \in Int
    BY <1>1
  <2> QED BY <1>1, <1>2, <1>6, <2>1, Cancel
<1>8. q * L \in Int
  BY <1>1
<1> QED BY <1>1, <1>7, <1>8

(* What is exact stays so.                                                   *)
Exact(f, s, K, M, q) == q \in Nat /\ s = q * f /\ M * f = K

LEMMA StaysExact ==
  ASSUME NEW h, NEW f, NEW s, NEW K, NEW M, NEW L, NEW N, NEW q,
         TwoRoundings(h, f, s, K, M, L, N), Exact(f, s, K, M, q)
  PROVE  N = q * L
<1>0. q \in Nat /\ s = q * f /\ M * f = K
  BY DEF Exact
<1>1. /\ f \in Nat /\ f > 0 /\ s \in Nat /\ K \in Nat /\ M \in Nat /\ L \in Nat /\ N \in Nat
      /\ 2 * (N * K) <= 2 * ((s * M) * L) + K /\ 2 * ((s * M) * L) <= 2 * (N * K) + K
  BY DEF TwoRoundings
<1>2. K > 0
  BY <1>1, ProductIsClose
<1>3. (s * M) * L = (q * L) * K
  <2>1. (q * f) * M = q * (M * f)
    BY <1>0, <1>1
  <2>2. (q * K) * L = (q * L) * K
    BY <1>0, <1>1
  <2> QED BY <1>0, <2>1, <2>2
<1>4. /\ (2 * N) * K <= (2 * (q * L) + 1) * K
      /\ (2 * (q * L)) * K <= (2 * N + 1) * K
  <2>1. \A u \in Nat : (2 * u) * K = 2 * (u * K) /\ (2 * u + 1) * K = 2 * (u * K) + K
    BY <1>1
  <2>2. q * L \in Nat
    BY <1>0, <1>1
  <2> QED BY <1>1, <1>3, <2>1, <2>2
<1>5. q * L \in Nat
  BY <1>0, <1>1
<1>6. 2 * N <= 2 * (q * L) + 1 /\ 2 * (q * L) <= 2 * N + 1
  <2>1. 2 * N \in Int /\ 2 * (q * L) + 1 \in Int /\ 2 * (q * L) \in Int /\ 2 * N + 1 \in Int
    BY <1>1, <1>5
  <2> QED BY <1>1, <1>2, <1>4, <2>1, Cancel
<1> QED BY <1>1, <1>5, <1>6

(* from_freq makes these two roundings.                                      *)
LEMMA FreqWidths ==
  ASSUME NEW s \in 1 .. MAX_FREQ, NEW f \in 1 .. s
  PROVE  /\ s \in Nat /\ f \in Nat /\ f > 0 /\ f <= s /\ s < 2 ^ (P - 1)
         /\ 2 ^ (P - 1) \in Nat /\ 2 ^ (P - 1) > 0 /\ 2 ^ P = 2 * 2 ^ (P - 1)
<1>1. P - 1 \in 0 .. (2 * P) /\ P = (P - 1) + 1 /\ P \in Nat
  BY Power
<1>2. 2 ^ (P - 1) \in Nat /\ 2 ^ (P - 1) > 0 /\ 2 ^ P = 2 * 2 ^ (P - 1)
  BY <1>1, Power
<1>3. MAX_FREQ \in 1 .. (2 ^ (P - 1) - 1)
  BY FreqAssumption
<1> QED BY <1>2, <1>3

LEMMA FirstRounding ==
  ASSUME NEW s \in 1 .. MAX_FREQ, NEW f \in 1 .. s
  PROVE  \E k \in 0 .. (2 * P), M \in Nat :
           /\ Rounded(1, f) = [n |-> M, d |-> 2 ^ k]
           /\ 2 ^ (P - 1) * f <= 2 ^ k
           /\ 2 * (M * f) <= 2 * 2 ^ k + f /\ 2 * 2 ^ k <= 2 * (M * f) + f
<1> DEFINE h == 2 ^ (P - 1)
<1>1. s \in Nat /\ f \in Nat /\ f > 0 /\ f <= s /\ s < h /\ h \in Nat /\ 2 ^ P = 2 * h
  BY FreqWidths
<1>2. 1 < 2 ^ P * f
  <2>1. 2 * h > 1 /\ 2 * h \in Nat
    BY <1>1
  <2>2. \A u \in Nat : u > 1 => 1 < u * f
    BY <1>1
  <2> HIDE DEF h
  <2> QED BY <1>1, <2>1, <2>2
<1>3. h * f <= 1 * 2 ^ (2 * P)
  <2>1. P - 1 \in Nat /\ (P - 1) + (P - 1) <= 2 * P
    BY Power
  <2>2. 2 ^ ((P - 1) + (P - 1)) = h * h
    BY <2>1, PowerSum
  <2>3. 2 ^ ((P - 1) + (P - 1)) <= 2 ^ (2 * P)
    <3>1. (P - 1) + (P - 1) \in 0 .. (2 * P) /\ 2 * P \in 0 .. (2 * P)
      BY <2>1, Power
    <3> QED BY <2>1, <3>1, PowerOrder
  <2>4. h * f <= h * h
    <3>1. f <= h
      BY <1>1
    <3> HIDE DEF h
    <3> QED BY <1>1, <3>1
  <2>5. 2 ^ (2 * P) \in Nat /\ h * h \in Nat /\ h * f \in Nat
    <3>1. 2 ^ (2 * P) \in Nat
      BY Power
    <3> HIDE DEF h
    <3> QED BY <1>1, <3>1
  <2> HIDE DEF h
  <2> QED BY <2>2, <2>3, <2>4, <2>5
<1>4. PICK k \in 0 .. (2 * P), x \in Nat :
        /\ Rounded(1, f) = [n |-> x, d |-> 2 ^ k]
        /\ 2 ^ (P - 1) * f <= 1 * 2 ^ k /\ 1 * 2 ^ k < 2 ^ P * f
        /\ 2 * (x * f) <= 2 * (1 * 2 ^ k) + f /\ 2 * (1 * 2 ^ k) <= 2 * (x * f) + f
  BY <1>1, <1>2, <1>3, RoundedIsClose
<1>5. 1 * 2 ^ k = 2 ^ k
  BY Power
<1> QED BY <1>4, <1>5

LEMMA FromFreqRounds ==
  ASSUME NEW s \in 1 .. MAX_FREQ, NEW f \in 1 .. s
  PROVE  \E k \in 0 .. (2 * P), M \in Nat, L \in Nat, N \in Nat :
           /\ TwoRoundings(2 ^ (P - 1), f, s, 2 ^ k, M, L, N)
           /\ Period(s, f) = (N \div L - 1) + 1
<1> DEFINE h == 2 ^ (P - 1)
<1>1. s \in Nat /\ f \in Nat /\ f > 0 /\ f <= s /\ s < h /\ h \in Nat /\ h > 0 /\ 2 ^ P = 2 * h
  BY FreqWidths
<1>2. PICK k \in 0 .. (2 * P), M \in Nat :
        /\ Rounded(1, f) = [n |-> M, d |-> 2 ^ k]
        /\ h * f <= 2 ^ k
        /\ 2 * (M * f) <= 2 * 2 ^ k + f /\ 2 * 2 ^ k <= 2 * (M * f) + f
  BY FirstRounding
<1> DEFINE K == 2 ^ k
<1>3. K \in Nat /\ K > 0
  BY Power
<1>4. h <= M
  <2>1. 2 * (h * f) <= 2 * (M * f) + f /\ h * f \in Nat /\ M * f \in Nat
    <3>1. h * f \in Nat /\ M * f \in Nat
      <4> HIDE DEF h
      <4> QED BY <1>1
    <3> HIDE DEF h, K
    <3> QED BY <1>1, <1>2, <1>3, <3>1 DEF K
  <2>2. (2 * h) * f <= (2 * M + 1) * f
    <3>1. (2 * h) * f = 2 * (h * f) /\ (2 * M + 1) * f = 2 * (M * f) + f
      <4> HIDE DEF h
      <4> QED BY <1>1
    <3> HIDE DEF h
    <3> QED BY <2>1, <3>1
  <2>3. 2 * h <= 2 * M + 1
    <3>1. 2 * h \in Int /\ 2 * M + 1 \in Int
      BY <1>1
    <3> HIDE DEF h
    <3> QED BY <1>1, <2>2, <3>1, Cancel
  <2> HIDE DEF h
  <2> QED BY <1>1, <2>3
<1>5. s * M \in Nat /\ M <= s * M
  BY <1>1
<1>6. s * M < 2 ^ P * K
  <2>1. 2 * (M * f) <= 3 * K
    <3>1. f <= h * f
      <4> HIDE DEF h
      <4> QED BY <1>1
    <3>2. f <= K /\ M * f \in Nat
      <4>1. h * f \in Nat
        <5> HIDE DEF h
        <5> QED BY <1>1
      <4> HIDE DEF h
      <4> QED BY <1>1, <1>2, <1>3, <3>1, <4>1
    <3> HIDE DEF h
    <3> QED BY <1>1, <1>2, <1>3, <3>2
  <2>2. 2 * M <= 3 * K
    <3>1. M <= M * f /\ M * f \in Nat
      BY <1>1
    <3> HIDE DEF K
    <3> QED BY <1>3, <2>1, <3>1
  <2>3. (2 * M) * s <= (3 * K) * s
    <3>1. 2 * M \in Int /\ 3 * K \in Int
      BY <1>3
    <3> HIDE DEF K
    <3> QED BY <1>1, <2>2, <3>1, Cancel
  <2>4. (s + 1) * K <= h * K
    <3>1. s + 1 <= h /\ s + 1 \in Int /\ h \in Int
      BY <1>1
    <3> HIDE DEF h, K
    <3> QED BY <1>3, <3>1, Cancel
  <2>5. /\ (2 * M) * s = 2 * (s * M) /\ (3 * K) * s = 3 * (s * K) /\ s * K \in Nat
        /\ (s + 1) * K = s * K + K /\ (2 * h) * K = 2 * (h * K) /\ h * K \in Nat
    <3> HIDE DEF h, K
    <3> QED BY <1>1, <1>3
  <2>6. s * M < (2 * h) * K
    <3> HIDE DEF h, K
    <3> QED BY <1>3, <1>5, <2>3, <2>4, <2>5
  <2> QED BY <1>1, <2>6
<1>7. h * K <= (s * M) * 2 ^ (2 * P)
  <2> DEFINE top == 2 ^ (2 * P)
  <2>1. top \in Nat /\ K <= top
    <3>1. 2 * P \in 0 .. (2 * P) /\ k <= 2 * P /\ 2 ^ (2 * P) \in Nat
      BY Power
    <3> QED BY <3>1, PowerOrder
  <2>2. h <= s * M
    <3> HIDE DEF h
    <3> QED BY <1>1, <1>4, <1>5
  <2>3. \A u, v, w, z \in Nat : u <= v /\ w <= z => u * w <= v * z
    <3> SUFFICES ASSUME NEW u \in Nat, NEW v \in Nat, NEW w \in Nat, NEW z \in Nat, u <= v, w <= z
                 PROVE  u * w <= v * z
      OBVIOUS
    <3>1. u * w <= v * w /\ v * w <= v * z
      OBVIOUS
    <3>2. u * w \in Nat /\ v * w \in Nat /\ v * z \in Nat
      OBVIOUS
    <3> QED BY <3>1, <3>2
  <2> HIDE DEF top, h, K
  <2>4. h * K <= (s * M) * top
    BY <1>1, <1>3, <1>5, <2>1, <2>2, <2>3
  <2> QED BY <2>4 DEF top
<1>8. PICK l \in 0 .. (2 * P), N \in Nat :
        /\ Rounded(s * M, K) = [n |-> N, d |-> 2 ^ l]
        /\ h * K <= (s * M) * 2 ^ l /\ (s * M) * 2 ^ l < 2 ^ P * K
        /\ 2 * (N * K) <= 2 * ((s * M) * 2 ^ l) + K /\ 2 * ((s * M) * 2 ^ l) <= 2 * (N * K) + K
  <2> HIDE DEF K
  <2> QED BY <1>3, <1>5, <1>6, <1>7, RoundedIsClose
<1> DEFINE L == 2 ^ l
<1>9. TwoRoundings(h, f, s, K, M, L, N)
  <2>1. L \in Nat
    BY Power
  <2>2. h * f <= K /\ 2 * (M * f) <= 2 * K + f /\ 2 * K <= 2 * (M * f) + f
    BY <1>2
  <2>3. /\ h * K <= (s * M) * L
        /\ 2 * (N * K) <= 2 * ((s * M) * L) + K /\ 2 * ((s * M) * L) <= 2 * (N * K) + K
    BY <1>8
  <2> HIDE DEF h, K, L
  <2> QED BY <1>1, <1>3, <2>1, <2>2, <2>3 DEF TwoRoundings
<1>10. Period(s, f) = (N \div L - 1) + 1
  <2>1. FromFreq(s, f) = N \div L - 1
    <3>1. Rounded(1, f).n = M /\ Rounded(1, f).d = K
      BY <1>2
    <3>2. FromFreq(s, f) = Rounded(s * M, K).n \div Rounded(s * M, K).d - 1
      BY <3>1 DEF FromFreq, FromPeriod
    <3> QED BY <1>8, <3>2
  <2> QED BY <2>1 DEF Period
<1>11. L \in Nat
  BY Power
<1> HIDE DEF L
<1> QED BY <1>9, <1>10, <1>11

(* A whole part between two bounds.                                          *)
LEMMA WholePart ==
  ASSUME NEW N \in Nat, NEW L \in Nat, L > 0
  PROVE  /\ N \div L \in Nat /\ (N \div L - 1) + 1 = N \div L
         /\ \A q \in Nat : /\ q * L <= N => q <= N \div L
                           /\ N < q * L => N \div L < q
         /\ \A q \in Nat : N = q * L => N \div L = q
<1> DEFINE w == N \div L
           r == N % L
<1>1. w \in Nat /\ r \in Nat /\ r < L /\ N = w * L + r
  BY Quotient
<1> HIDE DEF w, r
<1>2. (w + 1) * L = w * L + L /\ w * L \in Nat
  BY <1>1
<1>3. ASSUME NEW q \in Nat
      PROVE  (q * L <= N => q <= w) /\ (N < q * L => w < q)
  <2>1. q * L \in Nat
    OBVIOUS
  <2>2. q * L <= N => q * L < (w + 1) * L
    BY <1>1, <1>2, <2>1
  <2>3. q * L < (w + 1) * L => q < w + 1
    BY <1>1, Cancel
  <2>4. N < q * L => w * L < q * L
    BY <1>1, <1>2, <2>1
  <2>5. w * L < q * L => w < q
    BY <1>1, Cancel
  <2> QED BY <1>1, <2>2, <2>3, <2>4, <2>5
<1>4. ASSUME NEW q \in Nat, N = q * L PROVE w = q
  <2>1. q * L <= N /\ N < (q + 1) * L
    BY <1>4
  <2>2. q <= w /\ w < q + 1
    BY <1>3, <2>1
  <2> QED BY <1>1, <2>2
<1>5. (w - 1) + 1 = w
  BY <1>1
<1> QED BY <1>1, <1>3, <1>4, <1>5 DEF w

LEMMA PeriodBounds ==
  ASSUME NEW s \in 1 .. MAX_FREQ, NEW f \in 1 .. s
  PROVE  /\ Period(s, f) \in Nat
         /\ \A q \in Nat : (s < q * f => Period(s, f) < q) /\ (q * f < s => q <= Period(s, f))
<1>1. PICK k \in 0 .. (2 * P), M \in Nat, L \in Nat, N \in Nat :
        /\ TwoRoundings(2 ^ (P - 1), f, s, 2 ^ k, M, L, N)
        /\ Period(s, f) = (N \div L - 1) + 1
  BY FromFreqRounds
<1>2. N \in Nat /\ L \in Nat /\ L > 0
  <2>1. f < L
    BY <1>1, RoomForFractions
  <2> QED BY <1>1, <2>1 DEF TwoRoundings
<1>3. Period(s, f) = N \div L /\ N \div L \in Nat
  BY <1>1, <1>2, WholePart
<1>4. ASSUME NEW q \in Nat
      PROVE  (s < q * f => N < q * L) /\ (q * f < s => q * L <= N)
  <2> DEFINE h == 2 ^ (P - 1)
             K == 2 ^ k
  <2>1. TwoRoundings(h, f, s, K, M, L, N)
    BY <1>1
  <2> HIDE DEF h, K
  <2> QED BY FreqWidths, <2>1, NotSlow, NotFast
<1> QED BY <1>2, <1>3, <1>4, WholePart

(* The period of a ticker in clocks is that asked for, or one clock short of *)
(* it when it is a whole number of them and its frequency no power of two.   *)
AsAsked(period, s, f) == \/ period = s \div f
                         \/ s % f = 0 /\ f \notin PowersOfTwo /\ period = s \div f - 1

NearlyAsAsked(period, s, f) == \/ period = s \div f
                               \/ s % f = 0 /\ period = s \div f - 1

LEMMA PeriodNearlyAsAsked ==
  ASSUME NEW s \in 1 .. MAX_FREQ, NEW f \in 1 .. s
  PROVE  Period(s, f) \in Nat /\ NearlyAsAsked(Period(s, f), s, f)
<1> DEFINE q == s \div f
           r == s % f
           p == Period(s, f)
<1>1. s \in Nat /\ f \in Nat /\ f > 0 /\ f <= s
  BY FreqWidths
<1>2. q \in Nat /\ r \in Nat /\ r < f /\ s = q * f + r
  BY <1>1, Quotient
<1>3. p \in Nat /\ \A n \in Nat : (s < n * f => p < n) /\ (n * f < s => n <= p)
  BY PeriodBounds
<1> HIDE DEF q, r, p
<1>4. (q + 1) * f = q * f + f /\ (q - 1) * f = q * f - f /\ q * f \in Nat
  BY <1>1, <1>2
<1>5. p < q + 1
  BY <1>1, <1>2, <1>3, <1>4
<1>6. CASE r > 0
  <2>1. q <= p
    BY <1>2, <1>3, <1>4, <1>6
  <2> QED BY <1>2, <1>3, <1>5, <2>1 DEF NearlyAsAsked, p, q
<1>7. CASE r = 0
  <2>1. q # 0
    BY <1>1, <1>2, <1>4, <1>7
  <2>2. q - 1 \in Nat /\ (q - 1) * f < s
    BY <1>1, <1>2, <1>4, <1>7, <2>1
  <2>3. q - 1 <= p
    BY <1>3, <2>2
  <2>4. p = q \/ p = q - 1
    BY <1>2, <1>3, <1>5, <2>3
  <2> QED BY <1>3, <1>7, <2>4 DEF NearlyAsAsked, p, q, r
<1> QED BY <1>2, <1>6, <1>7

(* The frequency asked for is a power of two that divides the clock's.       *)
LEMMA PeriodOfPower ==
  ASSUME NEW s \in 1 .. MAX_FREQ, NEW f \in 1 .. s, NEW a \in 0 .. (P - 1), f = 2 ^ a,
         NEW q \in Nat, s = q * f
  PROVE  Period(s, f) = q
<1>1. PICK k \in 0 .. (2 * P), M \in Nat, L \in Nat, N \in Nat :
        /\ TwoRoundings(2 ^ (P - 1), f, s, 2 ^ k, M, L, N)
        /\ Period(s, f) = (N \div L - 1) + 1
  BY FromFreqRounds
<1>2. /\ s \in Nat /\ f \in Nat /\ f > 0
      /\ N \in Nat /\ L \in Nat /\ L > 0 /\ M \in Nat /\ 2 ^ k \in Nat
      /\ f <= 2 ^ k
      /\ 2 * (M * f) <= 2 * 2 ^ k + f /\ 2 * 2 ^ k <= 2 * (M * f) + f
  <2> DEFINE h == 2 ^ (P - 1)
             K == 2 ^ k
  <2>1. TwoRoundings(h, f, s, K, M, L, N) /\ h > 0 /\ h \in Nat
    BY <1>1, FreqWidths
  <2> HIDE DEF h, K
  <2>2. f < L
    BY <2>1, RoomForFractions
  <2>3. /\ s \in Nat /\ f \in Nat /\ f > 0 /\ N \in Nat /\ L \in Nat /\ M \in Nat /\ K \in Nat
        /\ h * f <= K /\ 2 * (M * f) <= 2 * K + f /\ 2 * K <= 2 * (M * f) + f
    BY <2>1 DEF TwoRoundings
  <2>4. f <= h * f /\ h * f \in Nat
    BY <2>1, <2>3
  <2>5. f <= K /\ L > 0
    BY <2>2, <2>3, <2>4
  <2> QED BY <2>3, <2>5 DEF K
<1>3. PICK c \in Nat : 2 ^ k = c * f
  <2>1. a \in 0 .. (2 * P) /\ k \in 0 .. (2 * P) /\ a \in Nat /\ k \in Nat /\ P \in Nat
    BY Power
  <2>2. a <= k
    <3>1. a = k \/ a < k \/ k < a
      BY <2>1
    <3>2. CASE k < a
      <4>1. a - k \in 1 .. (2 * P) /\ 2 ^ a = 2 ^ k * 2 ^ (a - k) /\ k <= a
        BY <2>1, <3>2, PowerOrder
      <4>2. a - k - 1 \in 0 .. (2 * P) /\ a - k = (a - k - 1) + 1 /\ a - k \in Nat
        BY <2>1, <3>2, <4>1
      <4>3. 2 ^ (a - k) = 2 * 2 ^ (a - k - 1) /\ 2 ^ (a - k - 1) \in Nat /\ 2 ^ (a - k - 1) > 0
        BY <4>2, Power
      <4>4. 2 ^ k > 0
        BY <2>1, Power
      <4>5. \A u \in Nat, v \in Nat : u > 0 /\ v > 0 => u < u * (2 * v)
        OBVIOUS
      <4> QED BY <1>2, <4>1, <4>3, <4>4, <4>5
    <3> QED BY <2>1, <3>1, <3>2
  <2>3. 2 ^ k = 2 ^ a * 2 ^ (k - a)
    BY <2>1, <2>2, PowerOrder
  <2>4. 2 ^ (k - a) \in Nat
    <3>1. k - a \in 0 .. (2 * P)
      BY <2>1, <2>2
    <3> QED BY <3>1, Power
  <2>5. 2 ^ k = 2 ^ (k - a) * f
    <3>1. \A u \in Nat : f * u = u * f
      BY <1>2
    <3> QED BY <2>3, <2>4, <3>1
  <2> QED BY <2>4, <2>5
<1>4. M * f = 2 ^ k
  <2>1. 2 * (M * f) <= 2 * (c * f) + f /\ 2 * (c * f) <= 2 * (M * f) + f
    BY <1>2, <1>3
  <2>2. \A u \in Nat : (2 * u) * f = 2 * (u * f) /\ (2 * u + 1) * f = 2 * (u * f) + f
    BY <1>2
  <2>3. (2 * M) * f <= (2 * c + 1) * f /\ (2 * c) * f <= (2 * M + 1) * f
    BY <1>2, <2>1, <2>2
  <2>4. 2 * M \in Int /\ 2 * c + 1 \in Int /\ 2 * c \in Int /\ 2 * M + 1 \in Int
    BY <1>2
  <2>5. 2 * M <= 2 * c + 1 /\ 2 * c <= 2 * M + 1
    BY <1>2, <2>3, <2>4, Cancel
  <2>6. M = c
    BY <1>2, <2>5
  <2> QED BY <1>3, <2>6
<1>5. N = q * L
  <2> DEFINE h == 2 ^ (P - 1)
             K == 2 ^ k
  <2>1. TwoRoundings(h, f, s, K, M, L, N) /\ Exact(f, s, K, M, q)
    BY <1>1, <1>4 DEF Exact
  <2> HIDE DEF h, K
  <2> QED BY ONLY <2>1, StaysExact
<1> QED BY <1>1, <1>2, <1>5, WholePart

LEMMA DividesExactly ==
  ASSUME NEW s \in Nat, NEW f \in Nat, f > 0
  PROVE  /\ s % f = 0 => s = (s \div f) * f
         /\ \A q \in Nat : (q * f) % f = 0
<1>1. s % f = 0 => s = (s \div f) * f
  <2> DEFINE q == s \div f
             r == s % f
  <2>1. q \in Nat /\ r \in Nat /\ s = q * f + r
    BY Quotient
  <2> HIDE DEF q, r
  <2>2. r = 0 => s = q * f
    BY <2>1
  <2> QED BY <2>2 DEF q, r
<1>2. \A m \in Nat \ {0}, q \in Nat : (q * m) % m = 0
  BY SMT
<1> QED BY <1>1, <1>2

LEMMA TwoPowers ==
  ASSUME NEW s \in 1 .. MAX_FREQ, NEW f \in 1 .. s, NEW g \in PowersOfTwo,
         f \in PowersOfTwo, f <= g, s % g = 0
  PROVE  \E m \in Nat, n \in Nat :
           /\ n > 0 /\ m > 0 /\ g \in 1 .. s
           /\ Period(s, g) = n /\ n * g = s
           /\ Period(s, f) = m * n /\ (m * n) * f = s
<1>1. s \in Nat /\ s > 0 /\ f \in Nat /\ f > 0 /\ P \in Nat
  BY FreqWidths, Power
<1>2. PICK a \in 0 .. (P - 1) : f = 2 ^ a
  BY DEF PowersOfTwo
<1>3. PICK b \in 0 .. (P - 1) : g = 2 ^ b
  BY DEF PowersOfTwo
<1>4. a \in 0 .. (2 * P) /\ b \in 0 .. (2 * P)
  BY <1>1
<1>5. g \in Nat /\ g > 0
  BY <1>3, <1>4, Power
<1>6. PICK n \in Nat : s = n * g
  <2>1. s \div g \in Nat /\ s = (s \div g) * g
    BY <1>1, <1>5, Quotient, DividesExactly
  <2> QED BY <2>1
<1>7. n > 0
  <2>1. n = 0 => n * g = 0
    BY <1>5
  <2> QED BY <1>1, <1>6, <2>1
<1>8. g \in 1 .. s
  <2>1. g <= n * g
    BY <1>5, <1>7
  <2> QED BY <1>1, <1>5, <1>6, <2>1
<1>9. PICK m \in Nat : g = m * f
  <2>1. a <= b
    <3>1. CASE f < g
      BY <1>1, <1>2, <1>3, <1>4, <3>1, PowerOrder
    <3>2. CASE f = g
      <4>1. CASE b < a
        <5>1. b <= a /\ a - b - 1 \in 0 .. (2 * P) /\ a - b = (a - b - 1) + 1 /\ a - b \in Nat
          BY <1>1, <1>4, <4>1
        <5>2. 2 ^ a = 2 ^ b * 2 ^ (a - b)
          BY <1>4, <5>1, PowerOrder
        <5>3. 2 ^ (a - b) = 2 * 2 ^ (a - b - 1) /\ 2 ^ (a - b - 1) \in Nat /\ 2 ^ (a - b - 1) > 0
          BY <5>1, Power
        <5>4. \A u \in Nat, v \in Nat : u > 0 /\ v > 0 => u # u * (2 * v)
          OBVIOUS
        <5> QED BY <1>2, <1>3, <1>5, <3>2, <5>2, <5>3, <5>4
      <4> QED BY <1>1, <1>4, <4>1
    <3> QED BY <1>1, <1>5, <3>1, <3>2
  <2>2. b - a \in 0 .. (2 * P)
    BY <1>1, <1>4, <2>1
  <2>3. 2 ^ b = 2 ^ a * 2 ^ (b - a) /\ 2 ^ (b - a) \in Nat
    BY <1>4, <2>1, <2>2, Power, PowerOrder
  <2>4. \A u \in Nat : f * u = u * f
    BY <1>1
  <2> QED BY <1>2, <1>3, <2>3, <2>4
<1>10. m > 0
  <2>1. m = 0 => m * f = 0
    BY <1>1
  <2> QED BY <1>5, <1>9, <2>1
<1>11. s = (m * n) * f /\ m * n \in Nat
  <2>1. n * (m * f) = (m * n) * f
    BY <1>1
  <2> QED BY <1>6, <1>9, <2>1
<1>12. Period(s, g) = n
  BY <1>3, <1>6, <1>8, PeriodOfPower
<1>13. Period(s, f) = m * n
  BY <1>2, <1>11, PeriodOfPower
<1> QED BY <1>6, <1>7, <1>8, <1>10, <1>11, <1>12, <1>13

LEMMA PeriodAsAsked ==
  ASSUME NEW s \in 1 .. MAX_FREQ, NEW f \in 1 .. s
  PROVE  Period(s, f) \in Nat /\ AsAsked(Period(s, f), s, f)
<1>1. Period(s, f) \in Nat /\ NearlyAsAsked(Period(s, f), s, f)
  BY PeriodNearlyAsAsked
<1>2. ASSUME s % f = 0, f \in PowersOfTwo PROVE Period(s, f) = s \div f
  <2>1. PICK a \in 0 .. (P - 1) : f = 2 ^ a
    BY <1>2 DEF PowersOfTwo
  <2>2. s \in Nat /\ f \in Nat /\ f > 0
    BY FreqWidths
  <2>3. PICK q \in Nat : q = s \div f
    BY <2>2, Quotient
  <2>4. s = q * f
    BY <1>2, <2>2, <2>3, DividesExactly
  <2> QED BY <2>1, <2>3, <2>4, PeriodOfPower
<1> QED BY <1>1, <1>2 DEF AsAsked, NearlyAsAsked

LEMMA FreqsStay == FreqSpec => []FreqInit
<1>1. FreqInit /\ [UNCHANGED freqVars]_freqVars => FreqInit'
  BY DEF FreqInit, freqVars
<1> QED BY <1>1, PTL DEF FreqSpec

(* The floating point of from_freq never makes a ticker slow, and makes it   *)
(* fast by one clock only where the exact period is a whole number of        *)
(* clocks and the frequency no power of two, for every precision and every   *)
(* clock of less than half as many hertz as it has doubles of one exponent   *)
(* (hello.py:29-35).                                                         *)
THEOREM FreqWithinAClock == FreqSpec => []PeriodWithinAClock
<1>1. FreqInit => PeriodWithinAClock
  BY PeriodAsAsked DEF FreqInit, PeriodWithinAClock, AsAsked
<1> QED BY <1>1, FreqsStay, PTL

(* A ticker made from a frequency ticks with the period asked for, or one    *)
(* clock early each time (hello.py:20-35).                                   *)
THEOREM TicksAsAsked ==
  ASSUME NEW s \in 1 .. MAX_FREQ, NEW f \in 1 .. s, MAX_CNT = FromFreq(s, f)
  PROVE  Spec => [](tick = 1 => AsAsked(since, s, f))
<1>1. TickPeriod => (tick = 1 => AsAsked(since, s, f))
  BY PeriodAsAsked DEF TickPeriod, Period
<1> QED BY <1>1, TicksApart, PTL

(* When two tickers made from powers of two beat, it is with the period of   *)
(* the slower one; they never do if either counter is too narrow to tick     *)
(* (hello.py:13, 54-65).                                                     *)
THEOREM BeatsAtSlower ==
  ASSUME NEW s \in 1 .. MAX_FREQ, NEW f \in 1 .. s, NEW g \in PowersOfTwo,
         f \in PowersOfTwo, f <= g, s % g = 0,
         MAX_CNT = BeatFromFreq(s, f, g).a, MAX_CNT_B = BeatFromFreq(s, f, g).b
  PROVE  BeatSpec => [](Beat => beat_since * f = s)
<1>1. PICK m \in Nat, n \in Nat :
        /\ n > 0 /\ m > 0
        /\ MAX_CNT_B + 1 = n /\ MAX_CNT + 1 = m * n /\ (m * n) * f = s
  BY TwoPowers DEF Period, BeatFromFreq
<1>2. Lcm(MAX_CNT + 1, MAX_CNT_B + 1) = m * n
  <2> DEFINE p == m * n
  <2>1. p \in Nat \ {0} /\ n \in Nat \ {0} /\ p % n = 0
    <3>1. p % n = 0
      BY <1>1, DividesExactly
    <3>2. p # 0 /\ p \in Nat
      BY <1>1
    <3> QED BY <1>1, <3>1, <3>2
  <2> HIDE DEF p
  <2>2. p % p = 0 /\ \A j \in 1 .. (p - 1) : j % p # 0
    <3>1. (1 * p) % p = 0 /\ 1 * p = p
      BY <2>1, DividesExactly
    <3>2. \A j \in 1 .. (p - 1) : j % p = j
      BY <2>1, SmallRemainder
    <3> QED BY <2>1, <3>1, <3>2
  <2>3. p \in 1 .. (p * n)
    BY <2>1
  <2>4. p = Lcm(p, n)
    BY <2>1, <2>2, <2>3, FirstIsLeast
  <2> QED BY <1>1, <2>4 DEF p
<1>3. BeatPeriod => (Beat => beat_since * f = s)
  BY <1>1, <1>2 DEF BeatPeriod
<1> QED BY <1>3, BeatsAtLcm, PTL
=============================================================================
