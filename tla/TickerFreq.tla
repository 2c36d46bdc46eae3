----------------------------- MODULE TickerFreq -----------------------------
(* litespih4x/hello.py, from_period and from_freq: the preload of a ticker   *)
(* from a frequency, computed in floating point.  A double is modelled as a  *)
(* number of P significant bits, rounded to the nearest, ties to even; P is  *)
(* small enough for every rounding to happen among small frequencies.        *)
EXTENDS Integers

CONSTANTS P,         \* significant bits, 53 for a double
          MAX_FREQ   \* frequencies considered

ASSUME FreqAssumption ==
  /\ P \in Nat \ {0} /\ MAX_FREQ \in 1 .. (2 ^ (P - 1) - 1)
  /\ 2 ^ 0 = 1  \* and each power twice the one before, which no prover knows of ^
  /\ \A i \in 0 .. (2 * P) : 2 ^ i \in Nat \ {0} /\ 2 ^ (i + 1) = 2 * 2 ^ i

VARIABLES sys_clk_freq, ticker_freq  \* what a ticker is made for

freqVars == <<sys_clk_freq, ticker_freq>>

(* The double nearest to n/d, a fraction again.                              *)
Rounded(n, d) ==
  LET k == CHOOSE i \in 0 .. (2 * P) : 2 ^ (P - 1) * d <= n * 2 ^ i /\ n * 2 ^ i < 2 ^ P * d
      m == (n * 2 ^ k) \div d
      r == (n * 2 ^ k) % d
  IN  [n |-> IF 2 * r > d \/ (2 * r = d /\ m % 2 = 1) THEN m + 1 ELSE m, d |-> 2 ^ k]

(* int(freq * period) - 1.                                                   *)
FromPeriodOver(freq, period) ==  \* mutant: max_cnt taken for the period
  LET x == Rounded(freq * period.n, period.d) IN x.n \div x.d
FromPeriod(freq, period) ==
  LET x == Rounded(freq * period.n, period.d) IN x.n \div x.d - 1

FromFreq(freq, per_second) == FromPeriod(freq, Rounded(1, per_second))

(* A ticker ticks every max_cnt + 1 clocks.                                  *)
Period(freq, per_second) == FromFreq(freq, per_second) + 1

(* BeatTickerZeroToMax.from_freq.                                            *)
BeatFromFreq(freq, a, b) == [a |-> FromFreq(freq, a), b |-> FromFreq(freq, b)]

(* The arguments of from_freq: any clock, and no ticker faster than it.      *)
FreqInit == sys_clk_freq \in 1 .. MAX_FREQ /\ ticker_freq \in 1 .. sys_clk_freq
FreqSpec == FreqInit /\ [][UNCHANGED freqVars]_freqVars
-----------------------------------------------------------------------------
PowersOfTwo == {2 ^ i : i \in 0 .. (P - 1)}

(* The two roundings never make a ticker slow, and make it fast by one clock *)
(* only where the exact period is a whole number of clocks, 1/49 of 49 being *)
(* less than one in doubles; but not where the frequency is a power of two,  *)
(* whose inverse a double holds exactly (hello.py:29-35).                    *)
PeriodWithinAClock ==
  LET exact == sys_clk_freq \div ticker_freq
      period == Period(sys_clk_freq, ticker_freq)
  IN  \/ period = exact
      \/ /\ sys_clk_freq % ticker_freq = 0 /\ ticker_freq \notin PowersOfTwo
         /\ period = exact - 1
=============================================================================
