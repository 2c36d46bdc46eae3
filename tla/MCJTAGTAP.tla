----------------------------- MODULE MCJTAGTAP -----------------------------
(* The port with instructions of three bits and registers of three, and      *)
(* scans of up to five bits: longer than the registers.                      *)
EXTENDS JTAGTAP

W3(b2, b1, b0) == [i \in 0 .. 2 |-> CASE i = 0 -> b0 [] i = 1 -> b1 [] OTHER -> b2]

MCIdcodeOp == W3(0, 1, 0)
MCBypassOp == W3(1, 1, 1)
MCHelloOp == W3(1, 1, 0)
MCCapture == W3(1, 0, 1)
MCIdcode == W3(0, 0, 1)
MCHello == W3(1, 0, 1)
=============================================================================
