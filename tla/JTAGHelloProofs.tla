-------------------------- MODULE JTAGHelloProofs --------------------------
(* Theorems about JTAGHello, for every word and every length of a scan.      *)
EXTENDS JTAGHello, SequenceTheorems, TLAPS

USE HelloAssumption

(* The bit k of what a scan gives out: the word, then what was put in.       *)
ChainBit(k) == IF k < DR_BITS THEN HELLO[k] ELSE given[k - DR_BITS + 1]

(* The register is the part of it that is still to come.                     *)
Window == \A i \in 0 .. (DR_BITS - 1) : hello_dr[i] = ChainBit(i + Len(given))

(* A bit goes out on the falling edge before the next one comes in.          *)
Paced == Len(seen) = Len(given) + (IF tck = 0 /\ phy = "shift" THEN 1 ELSE 0)

Past == \A k \in 1 .. Len(seen) : seen[k] = ChainBit(k - 1)

IInv == TypeOK /\ Window /\ Paced /\ Past

LEMMA InitInv == Init => IInv
<1> SUFFICES ASSUME Init PROVE IInv
  OBVIOUS
<1>1. TypeOK
  BY DEF Init, TypeOK, Bit
<1>2. Len(given) = 0 /\ Len(seen) = 0 /\ hello_dr = HELLO
  BY DEF Init
<1>3. Window /\ Past
  BY <1>2 DEF Window, Past, ChainBit
<1>4. Paced
  BY <1>2 DEF Init, Paced
<1> QED BY <1>1, <1>3, <1>4 DEF IInv

(* A rising edge moves the register and its history together.                *)
LEMMA RiseInv == ASSUME IInv, NEW tdi \in Bit, TckRise(tdi) PROVE IInv'
<1>0. /\ given \in Seq(Bit) /\ seen \in Seq(Bit) /\ Len(given) \in Nat /\ Len(seen) \in Nat
      /\ hello_dr \in Word(DR_BITS) /\ tck = 0 /\ tck' = 1 /\ tdo' = tdo /\ tdo \in Bit
      /\ phy' \in {"reset", "capture", "shift", "other"}
  BY DEF IInv, TypeOK, TckRise
<1>1. CASE phy \in {"reset", "capture"}
  <2>1. hello_dr' = HELLO /\ given' = << >> /\ seen' = << >>
    BY <1>1 DEF TckRise, HelloDr
  <2>2. Len(given') = 0 /\ Len(seen') = 0
    BY <2>1
  <2>3. TypeOK'
    BY <1>0, <2>1 DEF TypeOK, Bit
  <2>4. Window' /\ Past'
    BY <2>1, <2>2 DEF Window, Past, ChainBit
  <2>5. Paced'
    BY <1>0, <2>2 DEF Paced
  <2> QED BY <2>3, <2>4, <2>5 DEF IInv
<1>2. CASE phy = "shift"
  <2> DEFINE NextBit(k) == IF k < DR_BITS THEN HELLO[k] ELSE given'[k - DR_BITS + 1]
  <2>1. hello_dr' = ShiftDown(DR_BITS, tdi, hello_dr) /\ given' = Append(given, tdi)
        /\ seen' = seen
    BY <1>2 DEF TckRise, HelloDr, Shift
  <2>2. /\ given' \in Seq(Bit) /\ Len(given') = Len(given) + 1
        /\ given'[Len(given) + 1] = tdi
        /\ \A k \in 1 .. Len(given) : given'[k] = given[k]
    BY <1>0, <2>1
  <2>3. /\ hello_dr'[DR_BITS - 1] = tdi
        /\ \A i \in 0 .. (DR_BITS - 2) : hello_dr'[i] = hello_dr[i + 1]
        /\ hello_dr' \in Word(DR_BITS)
    BY <1>0, <2>1 DEF ShiftDown, Word
  <2>4. TypeOK'
    BY <1>0, <2>1, <2>2, <2>3 DEF TypeOK, Bit
  <2>5. \A k \in 0 .. (DR_BITS + Len(given) - 1) : NextBit(k) = ChainBit(k)
    BY <1>0, <2>2 DEF ChainBit
  <2>6. NextBit(DR_BITS + Len(given)) = tdi
    <3>1. /\ (DR_BITS + Len(given)) - DR_BITS + 1 = Len(given) + 1
          /\ ~(DR_BITS + Len(given) < DR_BITS)
      BY <1>0
    <3> QED BY <2>2, <3>1
  <2> HIDE DEF NextBit
  <2>7. ASSUME NEW i \in 0 .. (DR_BITS - 1)
        PROVE  hello_dr'[i] = NextBit(i + Len(given) + 1)
    <3>1. CASE i = DR_BITS - 1
      <4>1. i + Len(given) + 1 = DR_BITS + Len(given)
        BY <1>0, <3>1
      <4> QED BY <2>3, <2>6, <3>1, <4>1
    <3>2. CASE i # DR_BITS - 1
      <4>1. /\ i + 1 \in 0 .. (DR_BITS - 1) /\ i \in 0 .. (DR_BITS - 2)
            /\ (i + 1) + Len(given) = i + Len(given) + 1
            /\ i + Len(given) + 1 \in 0 .. (DR_BITS + Len(given) - 1)
        BY <1>0, <3>2
      <4>2. hello_dr[i + 1] = ChainBit((i + 1) + Len(given))
        BY <4>1 DEF IInv, Window
      <4> QED BY <2>3, <2>5, <4>1, <4>2
    <3> QED BY <3>1, <3>2
  <2>8. Window'
    <3>1. \A i \in 0 .. (DR_BITS - 1) : i + Len(given') = i + Len(given) + 1
      BY <1>0, <2>2
    <3>2. \A i \in 0 .. (DR_BITS - 1) : hello_dr'[i] = NextBit(i + Len(given'))
      BY <2>7, <3>1
    <3> QED BY <3>2 DEF Window, ChainBit, NextBit
  <2>9. Len(seen) = Len(given) + 1
    BY <1>0, <1>2 DEF IInv, Paced
  <2>10. Paced'
    BY <1>0, <2>1, <2>2, <2>9 DEF Paced
  <2>11. Past'
    <3>1. \A k \in 1 .. Len(seen) : k - 1 \in 0 .. (DR_BITS + Len(given) - 1)
      BY <1>0, <2>9
    <3>2. \A k \in 1 .. Len(seen) : seen[k] = NextBit(k - 1)
      BY <2>5, <3>1 DEF IInv, Past
    <3> QED BY <2>1, <3>2 DEF Past, ChainBit, NextBit
  <2> QED BY <2>4, <2>8, <2>10, <2>11 DEF IInv
<1>3. CASE phy = "other"
  <2>1. UNCHANGED <<hello_dr, given, seen>>
    BY <1>3 DEF TckRise, HelloDr
  <2>2. TypeOK'
    BY <1>0, <2>1 DEF TypeOK, Bit
  <2>3. Window' /\ Past'
    BY <2>1 DEF IInv, Window, Past, ChainBit
  <2>4. Paced'
    BY <1>0, <1>3, <2>1 DEF IInv, Paced
  <2> QED BY <2>2, <2>3, <2>4 DEF IInv
<1> QED BY <1>1, <1>2, <1>3 DEF IInv, TypeOK

(* A falling edge puts out the bit the register ends in.                     *)
LEMMA FallInv == ASSUME IInv, TckFall PROVE IInv'
<1>0. /\ given \in Seq(Bit) /\ seen \in Seq(Bit) /\ Len(given) \in Nat /\ Len(seen) \in Nat
      /\ hello_dr \in Word(DR_BITS) /\ tck = 1 /\ tck' = 0 /\ tdo' = hello_dr[0]
      /\ UNCHANGED <<phy, hello_dr, given>> /\ Len(seen) = Len(given)
  BY DEF IInv, TypeOK, Paced, TckFall
<1>1. hello_dr[0] \in Bit /\ hello_dr[0] = ChainBit(Len(given))
  BY <1>0 DEF IInv, Window, Word
<1>2. Window'
  BY <1>0 DEF IInv, Window, ChainBit
<1>3. CASE phy = "shift"
  <2>1. seen' = Append(seen, hello_dr[0])
    BY <1>3 DEF TckFall
  <2>2. /\ seen' \in Seq(Bit) /\ Len(seen') = Len(seen) + 1
        /\ seen'[Len(seen) + 1] = hello_dr[0]
        /\ \A k \in 1 .. Len(seen) : seen'[k] = seen[k]
    BY <1>0, <1>1, <2>1
  <2>3. ASSUME NEW k \in 1 .. Len(seen') PROVE seen'[k] = ChainBit(k - 1)
    <3>1. CASE k = Len(seen) + 1
      <4>1. k - 1 = Len(given)
        BY <1>0, <3>1
      <4> QED BY <1>1, <2>2, <3>1, <4>1
    <3>2. CASE k # Len(seen) + 1
      <4>1. k \in 1 .. Len(seen)
        BY <1>0, <2>2, <3>2
      <4> QED BY <2>2, <4>1 DEF IInv, Past
    <3> QED BY <3>1, <3>2
  <2>4. Past'
    BY <1>0, <2>3 DEF Past, ChainBit
  <2>5. TypeOK' /\ Paced'
    BY <1>0, <1>1, <1>3, <2>2 DEF IInv, TypeOK, Paced, Bit
  <2> QED BY <1>2, <2>4, <2>5 DEF IInv
<1>4. CASE phy # "shift"
  <2>1. seen' = seen
    BY <1>4 DEF TckFall
  <2>2. TypeOK' /\ Paced'
    BY <1>0, <1>1, <1>4, <2>1 DEF IInv, TypeOK, Paced, Bit
  <2>3. Past'
    BY <1>0, <2>1 DEF IInv, Past, ChainBit
  <2> QED BY <1>2, <2>2, <2>3 DEF IInv
<1> QED BY <1>3, <1>4

LEMMA Invariance == Spec => []IInv
<1>1. IInv /\ [Next]_vars => IInv'
  <2> SUFFICES ASSUME IInv, [Next]_vars PROVE IInv'
    OBVIOUS
  <2>1. CASE Rise
    BY <2>1, RiseInv DEF Rise
  <2>2. CASE TckFall
    BY <2>2, FallInv
  <2>3. CASE UNCHANGED vars
    BY <2>3 DEF vars, IInv, TypeOK, Window, Paced, Past, ChainBit
  <2> QED BY <2>1, <2>2, <2>3 DEF Next
<1> QED BY InitInv, <1>1, PTL DEF Spec

(* The register and the history of a scan are made of bits (hello.py:88-94). *)
THEOREM TypeCorrect == Spec => []TypeOK
<1>1. IInv => TypeOK
  BY DEF IInv
<1> QED BY Invariance, <1>1, PTL

(* However a host interrupts a scan, what it gets is the word, bit 0 first,  *)
(* followed by what it put in (hello.py:96-104).                             *)
THEOREM HelloComesOut == Spec => []HelloScan
<1>1. IInv => HelloScan
  <2> SUFFICES ASSUME IInv PROVE HelloScan
    OBVIOUS
  <2> DEFINE word == [k \in 1 .. DR_BITS |-> HELLO[k - 1]]
             chain == word \o given
  <2>1. /\ given \in Seq(Bit) /\ seen \in Seq(Bit) /\ Len(given) \in Nat
        /\ Len(seen) \in Nat /\ Len(seen) <= Len(given) + 1
    BY DEF IInv, TypeOK, Paced
  <2>2. word \in Seq(Bit) /\ Len(word) = DR_BITS
    BY DEF Word
  <2>3. /\ Len(chain) = DR_BITS + Len(given)
        /\ \A k \in 1 .. (DR_BITS + Len(given)) :
             chain[k] = IF k <= DR_BITS THEN word[k] ELSE given[k - DR_BITS]
    BY <2>1, <2>2, ConcatProperties
  <2>4. ASSUME NEW k \in 1 .. Len(seen) PROVE seen[k] = chain[k]
    <3>1. k \in 1 .. (DR_BITS + Len(given)) /\ (k - 1) - DR_BITS + 1 = k - DR_BITS
      BY <2>1
    <3>2. seen[k] = ChainBit(k - 1)
      BY DEF IInv, Past
    <3> QED BY <2>3, <3>1, <3>2 DEF ChainBit
  <2>5. Len(seen) <= Len(chain)
    BY <2>1, <2>3
  <2> QED BY <2>4, <2>5 DEF HelloScan
<1> QED BY Invariance, <1>1, PTL
=============================================================================
