------------------------------ MODULE MCTicker ------------------------------
(* Two tickers whose counters are as narrow as their max_cnt allow, with     *)
(* periods that have a common divisor, a third whose max_cnt is a power of   *)
(* two, and the preloads of small frequencies.                               *)
EXTENDS BeatTicker, TickerFreq

CONSTANT NARROW  \* the power of two

VARIABLES counter_n, tick_n, since_n

N == INSTANCE Ticker WITH MAX_CNT <- NARROW, SPAN <- NARROW,
       counter <- counter_n, tick <- tick_n, since <- since_n

MCVars == <<beatVars, N!vars, freqVars>>
MCInit == BeatInit /\ N!Init /\ FreqInit
MCClock == BeatClock /\ N!Clock /\ UNCHANGED freqVars
MCSpec == MCInit /\ [][MCClock]_MCVars /\ WF_MCVars(MCClock)

(* A ticker whose max_cnt is a power of two, one more than its counter can   *)
(* hold, never ticks (hello.py:13, 20).                                      *)
NarrowIsSilent == N!SilentWhenNarrow
=============================================================================
