--------------------------- MODULE MCFlashEmuDRAM ---------------------------
(* FlashEmuDRAM on the board with the analyzer, whose run flag need not ever *)
(* rise.  Blocks of one and of three words, delays of two clocks instead of  *)
(* sixteen, and a port that holds three reads: words left behind by one or   *)
(* by several cut runs can outnumber the words of a block, and leave too     *)
(* little room for one.                                                      *)
EXTENDS FlashEmuDRAM

MCBlocks == {[addr |-> 0, cnt |-> 0], [addr |-> 1, cnt |-> 2]}
=============================================================================
