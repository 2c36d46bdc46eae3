-------------------------- MODULE MCMirroredFlash --------------------------
(* The bench with the real flash, which holds what the emulator's memory is  *)
(* initialised to; its addresses alias the four bytes of the memory.         *)
(* Commands of three bits, so that those FlashEmu does not know are three    *)
(* too, and reads and writes of two bytes: from the last address a read runs *)
(* over the end of the memory.                                               *)
EXTENDS MirroredFlash

W3(n) == [i \in 0 .. 2 |-> (n \div 2 ^ i) % 2]
W4(n) == [i \in 0 .. 3 |-> (n \div 2 ^ i) % 2]

MCRead == W3(3)
MCQRead == W3(6)
MCRdid == W3(7)
MCWren == W3(2)
MCWrsr == W3(1)
MCRdsr == W3(5)
MCQe == W4(4)
MCId == W3(4)

(* Not among the initial bytes.                                              *)
MCLoads == {W4(5)}

MCArray == [a \in Word(ADDR_BITS) |-> Val4Addr(Low(MEM_BITS, a))]
=============================================================================
