----------------------------- MODULE BeatTicker -----------------------------
(* litespih4x/hello.py, class BeatTickerZeroToMax: two tickers on one clock, *)
(* and the and of their ticks.  The first one's constants, counter and tick  *)
(* are those of module Ticker.                                               *)
EXTENDS Ticker

CONSTANTS MAX_CNT_B, SPAN_B

ASSUME TickerBAssumption ==
  /\ MAX_CNT_B \in Nat /\ MAX_CNT_B > 1
  /\ SPAN_B \in Nat /\ MAX_CNT_B <= SPAN_B

VARIABLES counter_b, tick_b, since_b,
          beat_since  \* history: clocks since the last beat

B == INSTANCE Ticker WITH MAX_CNT <- MAX_CNT_B, SPAN <- SPAN_B,
       counter <- counter_b, tick <- tick_b, since <- since_b

beatVars == <<vars, B!vars, beat_since>>

BeatOr == tick = 1 \/ tick_b = 1                \* mutant
BeatSkewed == tick = 1 /\ counter_b = MAX_CNT_B  \* mutant: one clock early
Beat == tick = 1 /\ tick_b = 1

BeatInit == Init /\ B!Init /\ beat_since = 0

(* The history counter stops counting beyond the longest possible beat.      *)
BEAT_BOUND == 2 * SPAN * SPAN_B

BeatClock == /\ Clock /\ B!Clock
             /\ beat_since' = CASE Beat -> 1
                                [] beat_since = BEAT_BOUND -> beat_since
                                [] OTHER -> beat_since + 1

BeatSpec == BeatInit /\ [][BeatClock]_beatVars /\ WF_beatVars(BeatClock)
-----------------------------------------------------------------------------
Lcm(m, n) == CHOOSE k \in 1 .. (m * n) :
               /\ k % m = 0 /\ k % n = 0
               /\ \A j \in 1 .. (k - 1) : j % m # 0 \/ j % n # 0

(* The two tickers beat: they tick together once in the least common         *)
(* multiple of their periods, and at no other time (hello.py:54-55).         *)
BeatPeriod == Beat => beat_since = Lcm(MAX_CNT + 1, MAX_CNT_B + 1)

(* The beat never stops, and so neither ticker does (hello.py:20-26, 55).    *)
BeatsForever == []<>Beat
=============================================================================
