---------------------------- MODULE Base64url -----------------------------
(***************************************************************************)
(* base64url_decode, with which the header of a token is read: a loop over *)
(* the bytes of its input with a 32-bit accumulator.                       *)
(***************************************************************************)
EXTENDS Naturals, Sequences, Selection

CONSTANTS Byte,      \* the bytes inputs are made of
          MaxLength  \* bound on their length

ASSUME Base64Assumption == Byte \subseteq 0..255 /\ MaxLength \in Nat

VARIABLES input,     \* the bytes of the argument
          next,      \* index of the next one
          bits,      \* u32: the bits not yet in the buffer
          bitCount,  \* u32: how many they are
          buf        \* the bytes decoded so far

vars == <<input, next, bits, bitCount, buf>>

Pad == 61
Upper == 65..90
Lower == 97..122
Digit == 48..57
Alphabet == Upper \cup Lower \cup Digit \cup {45, 95}

Sextet(byte) ==
    CASE byte \in Upper -> byte - 65
      [] byte \in Lower -> (byte - 97) + 26
      [] byte \in Digit -> (byte - 48) + 52
      [] byte = 45 -> 62
      [] byte = 95 -> 63

(* 2^n for the n that bit_count takes. *)
Power(n) == CASE n = 0 -> 1 [] n = 2 -> 4 [] n = 4 -> 16 [] n = 6 -> 64 [] OTHER -> 256

Init ==
    /\ \E n \in 0..MaxLength : input \in [1..n -> Byte]
    /\ next = 1
    /\ bits = 0
    /\ bitCount = 0
    /\ buf = <<>>

More == next <= Len(input)
Current == input[next]

(* bits << 6 | val in 32 bits: the top six are shifted out. *)
Shifted == (bits % 67108864) * 64 + Sextet(Current)

PushUnmasked(count) ==
    /\ bitCount' = count
    /\ buf' = Append(buf, (Shifted \div Power(count)) % 256)
    /\ bits' = Shifted

Push(count) ==
    /\ bitCount' = count
    /\ buf' = Append(buf, (Shifted \div Power(count)) % 256)
    /\ bits' = Shifted % Power(count)

TakeLate ==
    /\ More
    /\ Current \in Alphabet
    /\ \/ bitCount + 6 > 8 /\ Push(bitCount - 2)
       \/ bitCount + 6 <= 8 /\ bitCount' = bitCount + 6 /\ bits' = Shifted /\ UNCHANGED buf
    /\ next' = next + 1
    /\ UNCHANGED input

(* With eight bits or more a byte is due. *)
Take ==
    /\ More
    /\ Current \in Alphabet
    /\ \/ bitCount + 6 >= 8 /\ Push(bitCount - 2)
       \/ bitCount + 6 < 8 /\ bitCount' = bitCount + 6 /\ bits' = Shifted /\ UNCHANGED buf
    /\ next' = next + 1
    /\ UNCHANGED input

Break ==
    /\ More
    /\ Current = Pad
    /\ next' = Len(input) + 1
    /\ UNCHANGED <<input, bits, bitCount, buf>>

(* What is not of the alphabet is skipped, not refused. *)
Skip ==
    /\ More
    /\ Current \notin Alphabet \cup {Pad}
    /\ next' = next + 1
    /\ UNCHANGED <<input, bits, bitCount, buf>>

Next == Take \/ Break \/ Skip

Spec == Init /\ [][Next]_vars
-----------------------------------------------------------------------------
(* Every variable has its type. *)
TypeOK ==
    /\ input \in Seq(Byte)
    /\ next \in 1..Len(input) + 1
    /\ bits \in Nat
    /\ bitCount \in {0, 2, 4, 6}
    /\ buf \in Seq(0..255)

(* The accumulator holds only the bits that are still due, fewer than      *)
(* seven: the u32 never loses one and bit_count never runs below zero.     *)
AccumulatorFits == bits < Power(bitCount)

(* RFC 4648 over the characters of the alphabet before the first pad: six  *)
(* bits each, and eight for an octet, so that octet k has bits of two      *)
(* neighbouring characters; the bits left over are dropped.                *)
End(s) ==
    CHOOSE n \in 0..Len(s) :
        (\A j \in 1..n : s[j] # Pad) /\ (n < Len(s) => s[n + 1] = Pad)

Octet(chars, k) ==
    LET i == k + (k - 1) \div 3
    IN  CASE k % 3 = 1 -> Sextet(chars[i]) * 4 + Sextet(chars[i + 1]) \div 16
          [] k % 3 = 2 -> (Sextet(chars[i]) % 16) * 16 + Sextet(chars[i + 1]) \div 4
          [] k % 3 = 0 -> (Sextet(chars[i]) % 4) * 64 + Sextet(chars[i + 1])

Octets(chars) == [k \in 1..(6 * Len(chars)) \div 8 |-> Octet(chars, k)]

Decoded(s) == Octets(Select(SubSeq(s, 1, End(s)), Alphabet))

(* When the loop ends the buffer is what the RFC prescribes. *)
DecodesAsPrescribed == ~More => buf = Decoded(input)
=============================================================================
