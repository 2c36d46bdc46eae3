------------------------------- MODULE Ticker -------------------------------
(* litespih4x/hello.py, class TickerZeroToMax: a free-running counter that   *)
(* raises tick for one clock each time it reaches max_cnt.  The counter is   *)
(* Signal(max=max_cnt): just wide enough for max_cnt - 1, and so, when       *)
(* max_cnt is a power of two, too narrow to hold max_cnt itself.             *)
EXTENDS Integers

CONSTANTS MAX_CNT, SPAN  \* max_cnt, and the number of values of the counter

ASSUME TickerAssumption ==
  /\ MAX_CNT \in Nat /\ MAX_CNT > 1
  /\ SPAN \in Nat /\ MAX_CNT <= SPAN

VARIABLES counter, tick,
          since  \* history: clocks since the last tick, or since power-up

vars == <<counter, tick, since>>

(* The history counter is of use up to a period, and stops counting there.   *)
SINCE_BOUND == 2 * SPAN

TypeOK == /\ counter \in 0 .. MAX_CNT /\ counter < SPAN
          /\ tick \in {0, 1}
          /\ since \in 0 .. SINCE_BOUND

Init == counter = 0 /\ tick = 0 /\ since = 0

AtMaxEarly == counter = MAX_CNT - 1  \* mutant
AtMaxOver == counter = MAX_CNT + 1   \* mutant
AtMax == counter = MAX_CNT

(* What fits in the counter.                                                 *)
Wrap(n) == n % SPAN

Clock == /\ IF AtMax
            THEN tick' = 1 /\ counter' = 0
            ELSE tick' = 0 /\ counter' = Wrap(counter + 1)
         /\ since' = CASE tick = 1 -> 1
                     [] since = SINCE_BOUND -> since
                     [] OTHER -> since + 1

Spec == Init /\ [][Clock]_vars /\ WF_vars(Clock)

(* from_period preloads f*T - 1 so that ticks are f*T clocks apart: a tick   *)
(* comes exactly max_cnt + 1 clocks after the last (hello.py:20-31).         *)
TickPeriod == tick = 1 => since = MAX_CNT + 1

(* A max_cnt that is a power of two is beyond the counter, which wraps past  *)
(* zero instead of reaching it: such a ticker never ticks, however long it   *)
(* runs (hello.py:13, 20).                                                   *)
SilentWhenNarrow == MAX_CNT = SPAN => tick = 0
=============================================================================
