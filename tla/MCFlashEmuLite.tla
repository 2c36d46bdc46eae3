--------------------------- MODULE MCFlashEmuLite ---------------------------
(* Instances of FlashEmuLite.  MCFlashEmuLite.cfg: a small geometry, a host  *)
(* and a DRAM of any speed.  MCFlashEmuLiteTimed.cfg and                     *)
(* MCFlashEmuLiteAnswers.cfg: the block geometry of the code (four words of  *)
(* sixteen bytes), a host at a quarter of the system clock and a DRAM that   *)
(* keeps a prefetch waiting 13 clocks in all, the most that is in time.      *)
EXTENDS FlashEmuLite
=============================================================================
