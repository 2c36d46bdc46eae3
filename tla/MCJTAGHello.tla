---------------------------- MODULE MCJTAGHello ----------------------------
(* A register of three bits and scans of up to six.                          *)
EXTENDS JTAGHello

MCHello == [i \in 0 .. 2 |-> IF i = 1 THEN 0 ELSE 1]
=============================================================================
