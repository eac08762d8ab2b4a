------------------------------ MODULE Structs -------------------------------
(***************************************************************************)
(* crypto/structs.cpp: byte arrays and texts as hexadecimal characters and *)
(* back; and Keychain::encode_secret, as far as what it reads.             *)
(*                                                                         *)
(* Characters are their codes.  The value of a text's character is signed  *)
(* where char is, as on x86.                                               *)
(***************************************************************************)
EXTENDS Integers, SequencesExt

\* An exception, in the place of characters or bytes, and of one byte.
Fail == <<-1>>

Invalid == -1

-----------------------------------------------------------------------------
(* serialize *)

HexDigit(v) == IF v < 10 THEN 48 + v ELSE 87 + v

Minus == 45

\* std::to_chars, base 16, into two characters: a third one is an error.
to_chars(v) ==
    IF v > 15 THEN <<HexDigit(v \div 16), HexDigit(v % 16)>>
    ELSE IF v >= 0 THEN <<HexDigit(v)>>
    ELSE IF v > -16 THEN <<Minus, HexDigit(-v)>>
    ELSE Fail

SignedChar(byte) == IF byte < 128 THEN byte ELSE byte - 256

\* Mutant: small values are not padded.
Digits_Unpadded(v) == to_chars(v)

Digits(v) == IF v < 16 THEN <<HexDigit(0), to_chars(v)[1]>> ELSE to_chars(v)

serialize(values) ==
    IF \E i \in DOMAIN values : to_chars(values[i]) = Fail THEN Fail
    ELSE FlattenSeq([i \in DOMAIN values |-> Digits(values[i])])

-----------------------------------------------------------------------------
(* deserialize, to a text, or to an array when the length is known *)

IsHex(c) == c \in 48..57 \cup 65..70 \cup 97..102

HexValue(c) == CASE c \in 48..57 -> c - 48 [] c \in 65..70 -> c - 55 [] OTHER -> c - 87

\* std::from_chars stops at the first character it cannot read, which is an
\* error only when there is none before it.
from_chars(c, d) ==
    CASE ~IsHex(c)              -> Invalid
      [] IsHex(c) /\ ~IsHex(d)  -> HexValue(c)
      [] OTHER                  -> 16 * HexValue(c) + HexValue(d)

deserialize(hexstr) ==
    LET Read(i) == from_chars(hexstr[2 * i - 1], hexstr[2 * i])
        n == Len(hexstr) \div 2
    IN  IF Len(hexstr) % 2 # 0 \/ \E i \in 1..n : Read(i) = Invalid THEN Fail
        ELSE [i \in 1..n |-> Read(i)]

deserialize_array(hexstr, size) ==
    IF Len(hexstr) # 2 * size THEN Fail ELSE deserialize(hexstr)

-----------------------------------------------------------------------------
(* encode_secret *)

\* Mutant: a character for every byte.
Steps_EveryByte(in_size, out_size) == {i \in 0..(out_size - 1) : i < in_size}

Steps(in_size, out_size) == {i \in 0..(out_size - 1) : i * 3 < in_size}

\* The positions it reads, every one of them in several steps.
encode_secret_reads(in_size, out_size) ==
    UNION {i..(i + 2) : i \in Steps(in_size, out_size)}

=============================================================================
