------------------------------ MODULE ReadPort ------------------------------
(* The LiteDRAM read port the two DRAM readers are written against, seen     *)
(* from the reader: an accepted command joins the reads in flight, and their *)
(* data come back in order, each after any delay.                            *)
EXTENDS Integers, Sequences

CONSTANT HoldsData  \* the port keeps read data until it is taken

VARIABLE inflight   \* addresses of the accepted reads whose data is to come

(* rdata.valid can be up only for a read that was accepted.                  *)
Answers(valid) == valid = 1 => inflight # << >>

(* What is left in flight when the port presents data and nobody takes it.   *)
Unread(valid) ==
  IF valid = 1 /\ ~HoldsData THEN Tail(inflight) ELSE inflight
=============================================================================
