-------------------------- MODULE MCDramVerilator --------------------------
(* The block geometry and the clock ratio of the code, with bytes of two     *)
(* bits and addresses of eight.  111 stands to the fill, which begins at the *)
(* second block, as 0xEDBEEF does to 0xEDBEC0; the read at 126 runs past its *)
(* block.                                                                    *)
EXTENDS DramVerilator

MCReads == {[addr |-> 111, sz |-> 2], [addr |-> 126, sz |-> 3]}
=============================================================================
