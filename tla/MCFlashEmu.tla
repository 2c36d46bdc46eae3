----------------------------- MODULE MCFlashEmu -----------------------------
(* FlashEmu at small widths: every command class, two pages of the aliased   *)
(* address space, bytes of four bits.                                        *)
EXTENDS FlashEmu

W2(hi, lo) == [i \in 0 .. 1 |-> IF i = 0 THEN lo ELSE hi]

MCRead == W2(1, 0)
MCQRead == W2(0, 1)
MCRdid == W2(1, 1)
MCId == [i \in 0 .. 2 |-> IF i = 2 THEN 1 ELSE 0]
MCLoad == {[i \in 0 .. 3 |-> i % 2]}
=============================================================================
