----------------------------- MODULE MCEmuArty -----------------------------
(* The board with the commands of the code, which CutExchangeIsSilent is     *)
(* about, and short addresses, bytes and identification words.               *)
EXTENDS EmuArty

W8(n) == [i \in 0 .. 7 |-> (n \div 2 ^ i) % 2]

MCRead == W8(3)
MCQRead == W8(107)
MCRdid == W8(159)
MCId == [i \in 0 .. 2 |-> IF i = 2 THEN 1 ELSE 0]
MCLoad == {[i \in 0 .. 3 |-> i % 2]}
=============================================================================
