------------------------------- MODULE Wires -------------------------------
(* The words of bits the gateware is made of.  A register of n bits is a     *)
(* function from 0..n-1 to bits, bit 0 the least significant, which is how   *)
(* Migen indexes a Signal.  SPI sends every field most significant bit       *)
(* first, so a field on the wire is a sequence whose head is bit n-1.        *)
EXTENDS Integers, Sequences

Bit == {0, 1}

(* The level of a pin nobody drives.                                         *)
HiZ == 2

Word(n) == [0 .. (n - 1) -> Bit]

Zero(n) == [i \in 0 .. (n - 1) |-> 0]

(* Cat(b, r[:-1]): r moves up by one, its top bit leaves, b enters below.    *)
ShiftIn(n, b, r) == [i \in 0 .. (n - 1) |-> IF i = 0 THEN b ELSE r[i - 1]]

(* Cat(r[1:], b): r moves down by one, bit 0 leaves, b enters at the top.     *)
ShiftDown(n, b, r) == [i \in 0 .. (n - 1) |-> IF i = n - 1 THEN b ELSE r[i + 1]]

(* r + 1 modulo 2^n: bit i flips when every bit below it is set.             *)
Inc(n, r) ==
  [i \in 0 .. (n - 1) |->
     IF \A j \in 0 .. (i - 1) : r[j] = 1 THEN 1 - r[i] ELSE r[i]]

(* r[:m], what a port of m address bits keeps of a wider address.            *)
Low(m, r) == [i \in 0 .. (m - 1) |-> r[i]]

(* The word whose bits, most significant first, are the sequence s.          *)
WordOf(n, s) == [i \in 0 .. (n - 1) |-> s[n - i]]

(* The bits of a word as they are sent.                                      *)
MsbFirst(n, w) == [k \in 1 .. n |-> w[n - k]]

Repeat(n, b) == [k \in 1 .. n |-> b]

(* The address k after a, in n bits.                                         *)
Plus(n, a, k) == LET next[j \in 0 .. k] == IF j = 0 THEN a ELSE Inc(n, next[j - 1])
                 IN  next[k]
=============================================================================
