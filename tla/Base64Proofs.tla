--------------------------- MODULE Base64Proofs ---------------------------
(***************************************************************************)
(* base64url_decode, proved for every input: its accumulator never loses a *)
(* bit, and its output is what RFC 4648 prescribes.                        *)
(***************************************************************************)
EXTENDS Base64url, SelectionProofs

IInv == TypeOK /\ AccumulatorFits

(* A character of the alphabet stands for six bits. *)
LEMMA SextetIsSmall ==
    ASSUME NEW byte \in Alphabet
    PROVE  Sextet(byte) \in 0..63
<1>1. CASE byte \in Upper BY <1>1 DEF Upper, Lower, Digit, Sextet
<1>2. CASE byte \in Lower BY <1>2 DEF Upper, Lower, Digit, Sextet
<1>3. CASE byte \in Digit BY <1>3 DEF Upper, Lower, Digit, Sextet
<1>4. CASE byte \in {45, 95} BY <1>4 DEF Upper, Lower, Digit, Sextet
<1>5. QED BY <1>1, <1>2, <1>3, <1>4 DEF Alphabet

(* Shifted holds the bits that were due and six more: nothing is lost.     *)
LEMMA ShiftKeepsBits ==
    ASSUME TypeOK, AccumulatorFits, More, Current \in Alphabet
    PROVE  Shifted \in Nat /\ Shifted < 64 * Power(bitCount)
<1>0. bits \in Nat /\ bits < Power(bitCount) /\ bitCount \in {0, 2, 4, 6}
  BY DEF TypeOK, AccumulatorFits
<1>p. Power(bitCount) \in {1, 4, 16, 64}
  BY <1>0 DEF Power
<1>1. bits \in 0..63 /\ bits < Power(bitCount)
  BY <1>0, <1>p
<1>2. bits % 67108864 = bits
  BY <1>1, SMTT(30)
<1>3. Sextet(Current) \in 0..63
  BY SextetIsSmall
<1>4. CASE bitCount = 0
  BY <1>1, <1>2, <1>3, <1>4, SMTT(30) DEF Shifted, Power
<1>5. CASE bitCount = 2
  BY <1>1, <1>2, <1>3, <1>5, SMTT(30) DEF Shifted, Power
<1>6. CASE bitCount = 4
  BY <1>1, <1>2, <1>3, <1>6, SMTT(30) DEF Shifted, Power
<1>7. CASE bitCount = 6
  BY <1>1, <1>2, <1>3, <1>7, SMTT(30) DEF Shifted, Power
<1>8. QED BY <1>4, <1>5, <1>6, <1>7 DEF TypeOK

(* Nothing is decoded before the first byte is read. *)
LEMMA InitIInv == ASSUME Init PROVE IInv
<1>1. PICK n \in 0..MaxLength : input \in [1..n -> Byte]
  BY DEF Init
<1>2. input \in Seq(Byte) /\ Len(input) \in Nat
  BY <1>1, Base64Assumption
<1>3. QED
  BY <1>2 DEF Init, IInv, TypeOK, AccumulatorFits, Power

(* A character of the alphabet adds six bits and takes at most eight away. *)
LEMMA TakeKeepsIInv == ASSUME IInv, Take PROVE IInv'
<1>t. TypeOK /\ AccumulatorFits
  BY DEF IInv
<1>1. /\ More /\ Current \in Alphabet
      /\ input' = input /\ next' = next + 1
  BY DEF Take
<1>d. \/ bitCount + 6 >= 8 /\ Push(bitCount - 2)
      \/ bitCount + 6 < 8 /\ bitCount' = bitCount + 6 /\ bits' = Shifted /\ buf' = buf
  BY SMT DEF Take
<1>2. Shifted \in Nat /\ Shifted < 64 * Power(bitCount)
  BY <1>t, <1>1, ShiftKeepsBits
<1>3. Len(input) \in Nat /\ next \in 1..Len(input)
  BY <1>t, <1>1 DEF TypeOK, More
<1>4. input' \in Seq(Byte) /\ next' \in 1..Len(input') + 1
  BY <1>t, <1>1, <1>3 DEF TypeOK
<1>5. CASE bitCount + 6 < 8 /\ bitCount' = bitCount + 6 /\ bits' = Shifted /\ buf' = buf
  <2>1. bitCount = 0 /\ bitCount' = 6
    BY <1>5, <1>t DEF TypeOK
  <2>2. Power(bitCount) = 1 /\ Power(bitCount') = 64
    BY <2>1 DEF Power
  <2>3. bits' \in Nat /\ AccumulatorFits'
    BY <2>2, <1>2, <1>5 DEF AccumulatorFits
  <2>4. TypeOK'
    BY <2>1, <2>3, <1>t, <1>4, <1>5 DEF TypeOK
  <2>5. QED BY <2>3, <2>4 DEF IInv
<1>6. CASE bitCount + 6 >= 8 /\ Push(bitCount - 2)
  <2>1. bitCount \in {2, 4, 6}
    BY <1>6, <1>t DEF TypeOK
  <2>2. bitCount' \in {0, 2, 4} /\ bitCount' = bitCount - 2
    BY <1>6, <2>1 DEF Push
  <2>3. Power(bitCount') \in {1, 4, 16}
    BY <2>2 DEF Power
  <2>4. bits' = Shifted % Power(bitCount')
    BY <1>6, <2>2 DEF Push
  <2>5. bits' \in Nat /\ bits' < Power(bitCount')
    BY <2>3, <2>4, <1>2
  <2>6. (Shifted \div Power(bitCount')) % 256 \in 0..255
    <3>1. CASE Power(bitCount') = 1 BY <3>1, <1>2
    <3>2. CASE Power(bitCount') = 4 BY <3>2, <1>2
    <3>3. CASE Power(bitCount') = 16 BY <3>3, <1>2
    <3>4. QED BY <2>3, <3>1, <3>2, <3>3
  <2>7. buf' = Append(buf, (Shifted \div Power(bitCount')) % 256)
    BY <1>6, <2>2 DEF Push
  <2>8. buf' \in Seq(0..255)
    BY <2>6, <2>7, <1>t DEF TypeOK
  <2>9. TypeOK'
    BY <1>4, <2>2, <2>5, <2>8 DEF TypeOK
  <2>10. AccumulatorFits'
    BY <2>5 DEF AccumulatorFits
  <2>11. QED BY <2>9, <2>10 DEF IInv
<1>7. QED BY <1>d, <1>5, <1>6

(* A pad or a skipped byte decodes nothing. *)
LEMMA PassKeepsIInv == ASSUME IInv, Break \/ Skip \/ UNCHANGED vars PROVE IInv'
<1>t. TypeOK /\ AccumulatorFits
  BY DEF IInv
<1>1. UNCHANGED <<input, bits, bitCount, buf>>
  BY DEF Break, Skip, vars
<1>2. Len(input) \in Nat /\ next \in 1..Len(input) + 1
  BY <1>t DEF TypeOK
<1>3. next' \in 1..Len(input) + 1 /\ next <= next'
  BY <1>2 DEF Break, Skip, More, vars
<1>4. TypeOK' /\ AccumulatorFits'
  BY <1>t, <1>1, <1>3 DEF TypeOK, AccumulatorFits
<1>5. QED BY <1>4 DEF IInv

(* The inductive invariant of the loop holds for every input. *)
THEOREM Invariance == Spec => []IInv
<1>1. Init => IInv
  BY InitIInv
<1>2. IInv /\ [Next]_vars => IInv'
  BY TakeKeepsIInv, PassKeepsIInv DEF Next
<1>3. QED BY <1>1, <1>2, PTL DEF Spec

(* Every variable keeps its type. *)
THEOREM TypeCorrect == Spec => []TypeOK
BY Invariance, PTL DEF IInv

(* The u32 accumulator of base64url_decode never loses a bit. *)
THEOREM NoBitIsLost == Spec => []AccumulatorFits
BY Invariance, PTL DEF IInv
-----------------------------------------------------------------------------
(* What is decoded.                                                        *)

(* The characters of the alphabet among the first n bytes before the pad.  *)
Chars == SelectedUpTo(SubSeq(input, 1, End(input)), Alphabet)

(* The variables after the loop has read some characters: the octets that  *)
(* are complete, and of the last character the bits that no octet has yet. *)
Accounted(chars) ==
    /\ bitCount = (8 - 2 * (Len(chars) % 4)) % 8
    /\ bits = IF Len(chars) % 4 = 0 THEN 0
              ELSE Sextet(chars[Len(chars)]) % Power(bitCount)
    /\ buf = Octets(chars)

(* The loop is at the byte after those it has read, or behind the last one *)
(* once it has met the pad.                                                *)
DecodingInv ==
    \E n \in 0..End(input) :
        /\ Accounted(Chars[n])
        /\ next = n + 1 \/ (n = End(input) /\ next = Len(input) + 1)

(* The pad, or the end of the input, is where End says.                    *)
LEMMA EndIsFound ==
    ASSUME NEW S, NEW s \in Seq(S)
    PROVE  /\ End(s) \in 0..Len(s)
           /\ \A j \in 1..End(s) : s[j] # Pad
           /\ End(s) < Len(s) => s[End(s) + 1] = Pad
<1> DEFINE IsEnd(n) == (\A j \in 1..n : s[j] # Pad) /\ (n < Len(s) => s[n + 1] = Pad)
           Ends == {n \in 0..Len(s) : n < Len(s) => s[n + 1] = Pad}
<1>1. Len(s) \in Nat /\ Len(s) \in Ends /\ Ends \in SUBSET Nat
  OBVIOUS
<1>2. PICK n \in Ends : \A m \in Ends : n <= m
  <2>1. Ends # {} BY <1>1
  <2> HIDE DEF Ends
  <2>2. QED BY <1>1, <2>1, LeastNumber
<1>3. \A j \in 1..n : s[j] # Pad
  <2>1. ASSUME NEW j \in 1..n, s[j] = Pad PROVE FALSE
    <3>1. j - 1 \in Ends BY <2>1, <1>1, <1>2
    <3>2. n <= j - 1 BY <3>1, <1>2
    <3>3. QED BY <2>1, <3>2, <1>1, <1>2
  <2>2. QED BY <2>1
<1>4. n \in 0..Len(s) /\ IsEnd(n)
  BY <1>2, <1>3
<1>5. End(s) = CHOOSE m \in 0..Len(s) : IsEnd(m)
  BY DEF End
<1> HIDE DEF IsEnd
<1>6. End(s) \in 0..Len(s) /\ IsEnd(End(s))
  BY <1>4, <1>5
<1>7. QED BY <1>6 DEF IsEnd

(* Octet k takes its bits of two of the characters that were read.         *)
LEMMA OctetSpan ==
    ASSUME NEW n \in Nat, NEW k \in 1..(6 * n) \div 8
    PROVE  k + (k - 1) \div 3 \in 1..(n - 1) /\ k \in Nat
<1>1. k \in Nat /\ k >= 1 /\ 8 * k <= 6 * n
  <2>1. (6 * n) \div 8 \in Nat /\ 8 * ((6 * n) \div 8) <= 6 * n
    OBVIOUS
  <2>2. QED BY <2>1
<1>2. (k - 1) \div 3 \in Nat /\ 3 * ((k - 1) \div 3) <= k - 1
  BY <1>1
<1>3. 3 * (k + (k - 1) \div 3) <= 4 * k - 1
  BY <1>1, <1>2
<1>4. QED BY <1>1, <1>2, <1>3

(* Further characters leave the octets that are complete as they are.      *)
LEMMA OctetsAreFinal ==
    ASSUME NEW chars \in Seq(Alphabet), NEW c \in Alphabet,
           NEW k \in 1..(6 * Len(chars)) \div 8
    PROVE  Octet(Append(chars, c), k) = Octet(chars, k)
<1> DEFINE i == k + (k - 1) \div 3
<1>1. Len(chars) \in Nat
  OBVIOUS
<1>2. i \in 1..(Len(chars) - 1)
  BY <1>1, OctetSpan
<1> HIDE DEF i
<1>3. Append(chars, c)[i] = chars[i] /\ Append(chars, c)[i + 1] = chars[i + 1]
  BY <1>1, <1>2
<1>4. QED BY <1>3 DEF Octet, i

(* How many octets one more character completes.                           *)
LEMMA OctetsGrow ==
    ASSUME NEW n \in Nat
    PROVE  /\ n % 4 \in 0..3 /\ (n + 1) % 4 = ((n % 4) + 1) % 4
           /\ (6 * n) \div 8 \in Nat
           /\ n % 4 = 0 => (6 * (n + 1)) \div 8 = (6 * n) \div 8
           /\ n % 4 # 0 =>
                 LET k == (6 * n) \div 8 + 1
                 IN  /\ (6 * (n + 1)) \div 8 = k
                     /\ k + (k - 1) \div 3 = n
                     /\ k % 3 = (n % 4) % 3
<1>1. PICK q \in Nat : \E r \in 0..3 : n = 4 * q + r
  <2>1. n \div 4 \in Nat /\ 4 * (n \div 4) <= n /\ n < 4 * (n \div 4) + 4
    OBVIOUS
  <2>2. n - 4 * (n \div 4) \in 0..3 /\ n = 4 * (n \div 4) + (n - 4 * (n \div 4))
    BY <2>1
  <2>3. QED BY <2>1, <2>2
<1>2. PICK r \in 0..3 : n = 4 * q + r
  BY <1>1
<1>3. CASE r = 0 BY <1>1, <1>2, <1>3
<1>4. CASE r = 1 BY <1>1, <1>2, <1>4
<1>5. CASE r = 2 BY <1>1, <1>2, <1>5
<1>6. CASE r = 3 BY <1>1, <1>2, <1>6
<1>7. QED BY <1>2, <1>3, <1>4, <1>5, <1>6

(* A character of the alphabet is accounted for: its bits complete an      *)
(* octet with those that were due, or wait for the next one.               *)
LEMMA TakeAccounts ==
    ASSUME IInv, Take, NEW chars \in Seq(Alphabet), Accounted(chars), NEW c, c = Current
    PROVE  Accounted(Append(chars, c))'
<1> DEFINE n == Len(chars)
           new == Append(chars, c)
           last == Sextet(chars[n])
           k == (6 * n) \div 8 + 1
<1>1. /\ n \in Nat /\ c \in Alphabet /\ new \in Seq(Alphabet) /\ Len(new) = n + 1
      /\ new[n + 1] = c /\ (n # 0 => new[n] = chars[n] /\ chars[n] \in Alphabet)
  BY DEF Take
<1>2. /\ Sextet(c) \in 0..63 /\ (n # 0 => last \in 0..63)
  BY <1>1, SextetIsSmall
<1>3. /\ n % 4 \in 0..3 /\ (n + 1) % 4 = ((n % 4) + 1) % 4
      /\ (6 * n) \div 8 \in Nat
      /\ n % 4 = 0 => (6 * (n + 1)) \div 8 = (6 * n) \div 8
      /\ n % 4 # 0 => /\ (6 * (n + 1)) \div 8 = k
                      /\ k + (k - 1) \div 3 = n
                      /\ k % 3 = (n % 4) % 3
  BY <1>1, OctetsGrow
<1>4. \A j \in 1..(6 * n) \div 8 : Octet(new, j) = Octet(chars, j)
  BY <1>1, OctetsAreFinal
<1>5. /\ bitCount = (8 - 2 * (n % 4)) % 8
      /\ bits = IF n % 4 = 0 THEN 0 ELSE last % Power(bitCount)
      /\ buf = [j \in 1..(6 * n) \div 8 |-> Octet(chars, j)]
  BY DEF Accounted, Octets
<1>6. \/ bitCount + 6 >= 8 /\ Push(bitCount - 2)
      \/ bitCount + 6 < 8 /\ bitCount' = bitCount + 6 /\ bits' = Shifted /\ buf' = buf
  BY SMT DEF Take
<1>7. SUFFICES /\ bitCount' = (8 - 2 * ((n + 1) % 4)) % 8
               /\ bits' = IF (n + 1) % 4 = 0 THEN 0 ELSE Sextet(c) % Power(bitCount')
               /\ buf' = [j \in 1..(6 * (n + 1)) \div 8 |-> Octet(new, j)]
  BY <1>1 DEF Accounted, Octets
<1> HIDE DEF n, new, last, k
<1>8. Shifted = bits * 64 + Sextet(c)
  <2>1. bits \in 0..63
    <3>1. bits \in Nat /\ bits < Power(bitCount) /\ bitCount \in {0, 2, 4, 6}
      BY DEF IInv, TypeOK, AccumulatorFits
    <3>2. Power(bitCount) \in {1, 4, 16, 64}
      BY <3>1 DEF Power
    <3>3. QED BY <3>1, <3>2
  <2>2. bits % 67108864 = bits
    BY <2>1, SMTT(30)
  <2>3. QED BY <2>2 DEF Shifted
<1>9. CASE n % 4 = 0
  <2>1. bitCount = 0 /\ bits = 0 /\ (n + 1) % 4 = 1
    BY <1>3, <1>5, <1>9
  <2>b. \A b \in 0..63 : 0 * 64 + b = b /\ b % 64 = b
    OBVIOUS
  <2>2. bitCount' = 6 /\ bits' = Sextet(c) /\ buf' = buf
    <3>1. Shifted = Sextet(c)
      BY <2>b, <2>1, <1>2, <1>8
    <3>2. ~(bitCount + 6 >= 8)
      BY <2>1
    <3>3. bitCount' = bitCount + 6 /\ bits' = Shifted /\ buf' = buf
      BY <1>6, <3>2
    <3>4. QED BY <2>1, <3>1, <3>3
  <2>3. Sextet(c) % Power(bitCount') = Sextet(c)
    <3>1. Power(bitCount') = 64
      BY <2>2 DEF Power
    <3>2. QED BY <2>b, <3>1, <1>2
  <2>d. (8 - 2 * 1) % 8 = 6
    OBVIOUS
  <2>4. buf' = [j \in 1..(6 * (n + 1)) \div 8 |-> Octet(new, j)]
    BY <1>3, <1>4, <1>5, <1>9, <2>2
  <2>5. QED BY <2>1, <2>2, <2>3, <2>4, <2>d
<1>10. CASE n % 4 # 0
  <2> DEFINE octet == (Shifted \div Power(bitCount')) % 256
  <2>1. /\ n \in Nat \ {0} /\ n % 4 \in {1, 2, 3}
        /\ bitCount = 8 - 2 * (n % 4) /\ bitCount \in {2, 4, 6}
    <3>1. n \in Nat \ {0} /\ n % 4 \in {1, 2, 3}
      BY <1>1, <1>3, <1>10
    <3>2. (8 - 2 * (n % 4)) % 8 = 8 - 2 * (n % 4)
      BY <3>1
    <3>3. QED BY <3>1, <3>2, <1>5
  <2>2. /\ bitCount' = bitCount - 2
        /\ bits' = Shifted % Power(bitCount')
        /\ buf' = Append(buf, octet)
    BY <1>6, <2>1 DEF Push
  <2>p. \/ n % 4 = 1 /\ (n + 1) % 4 = 2 /\ bitCount = 6 /\ bitCount' = 4
        \/ n % 4 = 2 /\ (n + 1) % 4 = 3 /\ bitCount = 4 /\ bitCount' = 2
        \/ n % 4 = 3 /\ (n + 1) % 4 = 0 /\ bitCount = 2 /\ bitCount' = 0
    <3>1. (n + 1) % 4 = ((n % 4) + 1) % 4
      BY <1>3
    <3>2. (1 + 1) % 4 = 2 /\ (2 + 1) % 4 = 3 /\ (3 + 1) % 4 = 0
      OBVIOUS
    <3>3. bitCount = 8 - 2 * (n % 4) /\ bitCount' = bitCount - 2 /\ n % 4 \in {1, 2, 3}
      BY <2>1, <2>2
    <3>4. bitCount' = 8 - 2 * (n % 4) - 2
      BY <3>3
    <3>5. QED BY <3>1, <3>2, <3>3, <3>4
  <2>3. bitCount' = (8 - 2 * ((n + 1) % 4)) % 8
    BY <2>p
  <2>4. /\ octet = Octet(new, k)
        /\ bits' = IF (n + 1) % 4 = 0 THEN 0 ELSE Sextet(c) % Power(bitCount')
    <3>0. /\ Octet(new, k) = CASE k % 3 = 1 -> last * 4 + Sextet(c) \div 16
                               [] k % 3 = 2 -> (last % 16) * 16 + Sextet(c) \div 4
                               [] k % 3 = 0 -> (last % 4) * 64 + Sextet(c)
      <4>1. k + (k - 1) \div 3 = n /\ new[n] = chars[n] /\ new[n + 1] = c
        BY <1>1, <1>3, <1>10, <2>1
      <4>2. QED BY <4>1 DEF Octet, last
    <3>1. last \in 0..63 /\ Sextet(c) \in 0..63
      BY <1>2, <2>1
    <3> DEFINE a == last
               b == Sextet(c)
    <3> HIDE DEF a, b
    <3>2. CASE n % 4 = 1
      <4>1. bitCount' = 4 /\ Power(bitCount) = 64 /\ Power(bitCount') = 16 /\ (n + 1) % 4 = 2
        BY <2>p, <3>2 DEF Power
      <4>2. Shifted = (a % 64) * 64 + b /\ a \in 0..63 /\ b \in 0..63 /\ k % 3 = 1
        BY <1>3, <1>5, <1>8, <1>10, <3>1, <3>2, <4>1 DEF a, b
      <4>3. a % 64 = a
        BY <4>2
      <4>4. Shifted \div 16 = a * 4 + b \div 16 /\ Shifted % 16 = b % 16
        BY <4>2, <4>3
      <4>5. (a * 4 + b \div 16) % 256 = a * 4 + b \div 16
        BY <4>2
      <4>6. Octet(new, k) = a * 4 + b \div 16
        BY <3>0, <4>2 DEF a, b
      <4>7. QED BY <4>1, <4>4, <4>5, <4>6, <2>2 DEF b
    <3>3. CASE n % 4 = 2
      <4>1. bitCount' = 2 /\ Power(bitCount) = 16 /\ Power(bitCount') = 4 /\ (n + 1) % 4 = 3
        BY <2>p, <3>3 DEF Power
      <4>2. Shifted = (a % 16) * 64 + b /\ a \in 0..63 /\ b \in 0..63 /\ k % 3 = 2
        BY <1>3, <1>5, <1>8, <1>10, <3>1, <3>3, <4>1 DEF a, b
      <4>3. a % 16 \in 0..15
        BY <4>2
      <4>4. Shifted \div 4 = (a % 16) * 16 + b \div 4 /\ Shifted % 4 = b % 4
        BY <4>2, <4>3
      <4>5. ((a % 16) * 16 + b \div 4) % 256 = (a % 16) * 16 + b \div 4
        BY <4>2, <4>3
      <4>6. Octet(new, k) = (a % 16) * 16 + b \div 4
        BY <3>0, <4>2 DEF a, b
      <4>7. QED BY <4>1, <4>4, <4>5, <4>6, <2>2 DEF b
    <3>4. CASE n % 4 = 3
      <4>1. bitCount' = 0 /\ Power(bitCount) = 4 /\ Power(bitCount') = 1 /\ (n + 1) % 4 = 0
        BY <2>p, <3>4 DEF Power
      <4>2. Shifted = (a % 4) * 64 + b /\ a \in 0..63 /\ b \in 0..63 /\ k % 3 = 0
        BY <1>3, <1>5, <1>8, <1>10, <3>1, <3>4, <4>1 DEF a, b
      <4>3. a % 4 \in 0..3
        BY <4>2
      <4>4. Shifted \div 1 = (a % 4) * 64 + b /\ Shifted % 1 = 0
        BY <4>2, <4>3
      <4>5. ((a % 4) * 64 + b) % 256 = (a % 4) * 64 + b
        BY <4>2, <4>3
      <4>6. Octet(new, k) = (a % 4) * 64 + b
        BY <3>0, <4>2 DEF a, b
      <4>7. QED BY <4>1, <4>4, <4>5, <4>6, <2>2
    <3>5. QED BY <2>1, <3>2, <3>3, <3>4
  <2>5. buf' = [j \in 1..(6 * (n + 1)) \div 8 |-> Octet(new, j)]
    <3> HIDE DEF octet
    <3>1. Len(buf) = k - 1 /\ k \in Nat \ {0} /\ (6 * (n + 1)) \div 8 = k /\ (6 * n) \div 8 = k - 1
      <4>1. (6 * n) \div 8 \in Nat /\ k = (6 * n) \div 8 + 1 /\ (6 * (n + 1)) \div 8 = k
        BY <1>3, <1>10 DEF k
      <4>2. Len(buf) = (6 * n) \div 8
        BY <4>1, <1>5
      <4>3. QED BY <4>1, <4>2
    <3>2. Append(buf, octet) = [j \in 1..k |-> IF j = k THEN octet ELSE buf[j]]
      BY <3>1, <1>5
    <3>3. \A j \in 1..k : (IF j = k THEN octet ELSE buf[j]) = Octet(new, j)
      BY <3>1, <1>4, <1>5, <2>4
    <3>4. QED BY <2>2, <3>1, <3>2, <3>3
  <2>6. QED BY <2>3, <2>4, <2>5
<1>11. QED BY <1>9, <1>10

(* Chars, for each number of bytes before the pad. *)
LEMMA CharsOf ==
    ASSUME TypeOK
    PROVE  /\ End(input) \in 0..Len(input) /\ Len(input) \in Nat
           /\ \A j \in 1..End(input) : input[j] # Pad
           /\ End(input) < Len(input) => input[End(input) + 1] = Pad
           /\ Len(SubSeq(input, 1, End(input))) = End(input)
           /\ Chars[0] = <<>>
           /\ \A n \in 0..End(input) : Chars[n] \in Seq(Alphabet)
           /\ \A n \in 1..End(input) :
                 Chars[n] = IF input[n] \in Alphabet THEN Append(Chars[n - 1], input[n])
                            ELSE Chars[n - 1]
<1> DEFINE e == End(input)
           s == SubSeq(input, 1, e)
<1>1. input \in Seq(Byte) /\ Len(input) \in Nat
  BY DEF TypeOK
<1>2. /\ e \in 0..Len(input)
      /\ \A j \in 1..e : input[j] # Pad
      /\ e < Len(input) => input[e + 1] = Pad
  BY <1>1, EndIsFound
<1> HIDE DEF e
<1>3. s \in Seq(Byte) /\ Len(s) = e /\ \A j \in 1..e : s[j] = input[j]
  BY <1>1, <1>2
<1> HIDE DEF s
<1>4. Chars = SelectedUpTo(s, Alphabet)
  BY DEF Chars, s, e
<1>5. /\ Chars[0] = <<>>
      /\ \A n \in 1..e : Chars[n] = Step(Chars[n - 1], s, Alphabet, n)
  BY <1>1, <1>2, <1>3, <1>4, SelectionSteps
<1>6. ASSUME NEW n \in 0..e PROVE Chars[n] \in Seq(Alphabet)
  <2>1. Chars[n] \in Seq(Byte \cap Alphabet)
    BY <1>3, <1>4, SelectedAtRank
  <2>2. QED BY <2>1
<1>7. \A n \in 1..e : Chars[n] = IF input[n] \in Alphabet THEN Append(Chars[n - 1], input[n])
                                ELSE Chars[n - 1]
  BY <1>3, <1>5 DEF Step
<1>8. QED BY <1>1, <1>2, <1>3, <1>5, <1>6, <1>7 DEF e, s

(* Before the first byte nothing is due. *)
LEMMA InitDecodingInv == ASSUME Init PROVE DecodingInv
<1>1. TypeOK
  BY InitIInv DEF IInv
<1>2. Chars[0] = <<>> /\ 0 \in 0..End(input)
  BY <1>1, CharsOf
<1>3. bits = 0 /\ bitCount = 0 /\ buf = <<>> /\ next = 1
  BY DEF Init
<1>4. Len(<<>>) = 0 /\ 0 % 4 = 0 /\ (8 - 2 * 0) % 8 = 0 /\ 1..((6 * 0) \div 8) = {}
  OBVIOUS
<1>5. Octets(<<>>) = <<>>
  BY <1>4 DEF Octets
<1>6. Accounted(<<>>)
  BY <1>3, <1>4, <1>5 DEF Accounted
<1>7. QED BY <1>2, <1>3, <1>6 DEF DecodingInv

(* Each byte read takes the loop to the next prefix; the pad is its end.   *)
LEMMA ReadKeepsDecodingInv ==
    ASSUME IInv, DecodingInv, Next
    PROVE  DecodingInv'
<1>t. TypeOK
  BY DEF IInv
<1>1. PICK n \in 0..End(input) :
         /\ Accounted(Chars[n])
         /\ next = n + 1 \/ (n = End(input) /\ next = Len(input) + 1)
  BY DEF DecodingInv
<1>2. More /\ input' = input /\ Chars' = Chars
  BY DEF Next, Take, Break, Skip, Chars
<1>3. /\ End(input) \in 0..Len(input) /\ Len(input) \in Nat
      /\ \A j \in 1..End(input) : input[j] # Pad
      /\ End(input) < Len(input) => input[End(input) + 1] = Pad
      /\ \A m \in 0..End(input) : Chars[m] \in Seq(Alphabet)
      /\ \A m \in 1..End(input) :
            Chars[m] = IF input[m] \in Alphabet THEN Append(Chars[m - 1], input[m])
                       ELSE Chars[m - 1]
  BY <1>t, CharsOf
<1>4. next = n + 1 /\ n + 1 <= Len(input) /\ Current = input[n + 1] /\ n \in Nat
  BY <1>1, <1>2, <1>3 DEF More, Current
<1>5. (Current # Pad) = (n < End(input))
  BY <1>3, <1>4
<1>6. n < End(input) => n + 1 \in 1..End(input) /\ n + 1 \in 0..End(input) /\ (n + 1) - 1 = n
  BY <1>3, <1>4
<1>7. CASE Take
  <2>1. Current \in Alphabet /\ Current # Pad /\ next' = n + 2
    <3>1. Current \in Alphabet /\ next' = next + 1
      BY <1>7 DEF Take
    <3>2. Pad \notin Alphabet
      BY DEF Alphabet, Upper, Lower, Digit, Pad
    <3>3. next + 1 = n + 2
      BY <1>4
    <3>4. QED BY <3>1, <3>2, <3>3
  <2>2. Chars[n + 1] = Append(Chars[n], input[n + 1])
    BY <1>3, <1>4, <1>5, <1>6, <2>1
  <2>3. Accounted(Chars[n + 1])'
    <3>1. ASSUME NEW chars \in Seq(Alphabet), Accounted(chars), NEW c, c = Current
          PROVE  Accounted(Append(chars, c))'
      BY <1>7, <3>1, TakeAccounts
    <3>2. PICK chars, c : chars = Chars[n] /\ c = Current
      OBVIOUS
    <3>3. Accounted(Append(chars, c))'
      BY <3>1, <3>2, <1>1, <1>3
    <3>4. (Chars[n + 1])' = Append(chars, c)
      BY <3>2, <2>2, <1>2, <1>4
    <3>5. QED BY <3>3, <3>4 DEF Accounted
  <2>4. (n + 1) + 1 = n + 2
    BY <1>4
  <2>5. QED BY <1>2, <1>5, <1>6, <2>1, <2>3, <2>4 DEF DecodingInv
<1>8. CASE Break \/ Skip
  <2>1. bits' = bits /\ bitCount' = bitCount /\ buf' = buf
    BY <1>8 DEF Break, Skip
  <2>2. ASSUME NEW m \in 0..End(input), Chars[m] = Chars[n] PROVE Accounted(Chars[m])'
    BY <1>1, <1>2, <2>1, <2>2 DEF Accounted
  <2>3. CASE Break
    <3>1. n = End(input) /\ next' = Len(input) + 1
      BY <1>1, <1>3, <1>4, <1>5, <2>3 DEF Break
    <3>2. QED BY <1>2, <1>3, <2>2, <3>1 DEF DecodingInv
  <2>4. CASE Skip
    <3>1. Current \notin Alphabet /\ Current # Pad /\ next' = n + 2 /\ (n + 1) + 1 = n + 2
      BY <1>4, <2>4 DEF Skip
    <3>2. Chars[n + 1] = Chars[n]
      BY <1>3, <1>4, <1>5, <1>6, <3>1
    <3>3. QED BY <1>2, <1>5, <1>6, <2>2, <3>1, <3>2 DEF DecodingInv
  <2>5. QED BY <1>8, <2>3, <2>4
<1>9. QED BY <1>7, <1>8 DEF Next

(* base64url_decode returns what RFC 4648 prescribes, for every input.     *)
THEOREM AlwaysDecodesAsPrescribed == Spec => []DecodesAsPrescribed
<1>1. Init => DecodingInv
  BY InitDecodingInv
<1>2. IInv /\ DecodingInv /\ [Next]_vars => DecodingInv'
  <2>1. ASSUME DecodingInv, UNCHANGED vars PROVE DecodingInv'
    BY <2>1 DEF DecodingInv, Accounted, Chars, vars
  <2>2. QED BY <2>1, ReadKeepsDecodingInv
<1>3. IInv /\ DecodingInv => DecodesAsPrescribed
  <2>1. ASSUME IInv, DecodingInv, ~More PROVE buf = Decoded(input)
    <3>1. TypeOK BY <2>1 DEF IInv
    <3>2. PICK n \in 0..End(input) :
             /\ Accounted(Chars[n])
             /\ next = n + 1 \/ (n = End(input) /\ next = Len(input) + 1)
      BY <2>1 DEF DecodingInv
    <3>3. /\ End(input) \in 0..Len(input) /\ Len(input) \in Nat
          /\ Len(SubSeq(input, 1, End(input))) = End(input)
      BY <3>1, CharsOf
    <3>4. next \in 1..Len(input) + 1 /\ ~(next <= Len(input))
      BY <2>1, <3>1 DEF TypeOK, More
    <3>5. n = End(input)
      BY <3>2, <3>3, <3>4
    <3>6. Select(SubSeq(input, 1, End(input)), Alphabet) = Chars[n]
      BY <3>3, <3>5 DEF Select, Chars
    <3>7. QED BY <3>2, <3>6 DEF Accounted, Decoded
  <2>2. QED BY <2>1 DEF DecodesAsPrescribed
<1>4. QED BY <1>1, <1>2, <1>3, Invariance, PTL DEF Spec
=============================================================================
