---------------------------- MODULE CodecProofs -----------------------------
(***************************************************************************)
(* Proofs about Codec, for byte strings and texts of any length and any    *)
(* list of words in order: hexadecimal text reads back, encode_secret      *)
(* reads inside, bitsplit_11 cuts the bits, and a mnemonic shown on the    *)
(* screen reads back.                                                      *)
(*                                                                         *)
(* The operators are recursive functions, and FlattenSeq is one.  RunExists*)
(* makes the runs that show that such a function exists, InductionUpTo     *)
(* follows it.  Then there are four parts:                                 *)
(*   - one byte and its two characters, and FlattenPairs for all of them;  *)
(*   - bits: those of three bytes are the bits of one number (Number), of  *)
(*     which BitsFrom takes eleven;                                        *)
(*   - texts without their spaces (NoSpaces): what is shown and what is    *)
(*     read of it are the same but for spaces;                             *)
(*   - the word list: a search that halves its range ends at the word.     *)
(***************************************************************************)
EXTENDS Codec, TLAPS, SequenceTheorems, NaturalsInduction, WellFoundedInduction

-----------------------------------------------------------------------------
(* Induction and recursion. *)

\* A set of numbers has a least one.
LEMMA LeastNumber ==
    ASSUME NEW T \in SUBSET Nat, T # {} PROVE \E x \in T : \A y \in T : x <= y
<1> DEFINE R == OpToRel(<, Nat)
<1>1. \A x, y \in Nat : x < y => <<x, y>> \in R
  BY DEF OpToRel
<1>2. IsWellFoundedOn(R, Nat)
  BY NatLessThanWellFounded
<1> HIDE DEF R
<1>3. PICK x \in T : \A y \in T : ~ (<<y, x>> \in R)
  BY <1>2, WFMin
<1>4. \A y \in T : ~ (y < x)
  BY <1>1, <1>3
<1>5. QED
  BY <1>4

\* Induction up to n.
LEMMA InductionUpTo ==
    ASSUME NEW n \in Nat, NEW G \in SUBSET (0..n), 0 \in G,
           \A k \in G : k < n => k + 1 \in G
    PROVE  G = 0..n
<1> DEFINE T == (0..n) \ G
<1>1. SUFFICES ASSUME T # {} PROVE FALSE
  OBVIOUS
<1>2. PICK x \in T : \A y \in T : x <= y
  <2>1. T \in SUBSET Nat
    OBVIOUS
  <2> HIDE DEF T
  <2>2. QED
    BY <1>1, <2>1, LeastNumber
<1>3. x - 1 \in 0..n /\ x - 1 \notin T
  BY <1>2
<1>4. QED
  BY <1>2, <1>3

\* n steps from s0 on, each of which knows its number.
IsRun(w, n, S, s0, step) ==
    w \in [0..n -> S] /\ w[0] = s0 /\ \A i \in 1..n : w[i] = step[<<w[i - 1], i>>]

\* A run of n steps from s0 on exists.
LEMMA RunExists ==
    ASSUME NEW n \in Nat, NEW S, NEW s0 \in S, NEW step \in [S \X (1..n) -> S]
    PROVE  \E w : IsRun(w, n, S, s0, step)
<1> DEFINE Run(w, k) == w[0] = s0 /\ \A i \in 1..k : w[i] = step[<<w[i - 1], i>>]
           G == {k \in 0..n : \E w \in [0..n -> S] : Run(w, k)}
<1>1. 0 \in G
  <2>1. Run([k \in 0..n |-> s0], 0) /\ [k \in 0..n |-> s0] \in [0..n -> S] /\ 0 \in 0..n
    OBVIOUS
  <2> HIDE DEF Run
  <2>2. QED
    BY <2>1
<1>2. ASSUME NEW k \in G, k < n PROVE k + 1 \in G
  <2>1. PICK w \in [0..n -> S] : Run(w, k)
    OBVIOUS
  <2> DEFINE v == [w EXCEPT ![k + 1] = step[<<w[k], k + 1>>]]
  <2>2. k + 1 \in 1..n /\ k \in 0..n /\ step[<<w[k], k + 1>>] \in S
    BY <1>2
  <2>3. v \in [0..n -> S] /\ v[k + 1] = step[<<w[k], k + 1>>] /\ \A i \in 0..k : v[i] = w[i]
    BY <2>2
  <2>4. Run(v, k + 1)
    <3> HIDE DEF v
    <3>1. v[0] = s0
      BY <2>1, <2>2, <2>3
    <3>2. ASSUME NEW i \in 1..(k + 1) PROVE v[i] = step[<<v[i - 1], i>>]
      <4>1. CASE i = k + 1
        <5>1. i - 1 = k /\ k \in 0..k
          BY <2>2, <4>1
        <5>2. QED
          BY <2>3, <4>1, <5>1
      <4>2. CASE i # k + 1
        <5>1. i \in 1..k /\ i \in 0..k /\ i - 1 \in 0..k
          BY <2>2, <4>2
        <5>2. QED
          BY <2>1, <2>3, <5>1
      <4>3. QED
        BY <4>1, <4>2
    <3>3. QED
      BY <3>1, <3>2
  <2> HIDE DEF Run, v
  <2>5. QED
    BY <2>2, <2>3, <2>4
<1>3. n \in G
  <2> HIDE DEF G
  <2>1. G \subseteq 0..n
    BY DEF G
  <2>2. G = 0..n
    BY <1>1, <1>2, <2>1, InductionUpTo
  <2>3. QED
    BY <2>2
<1>4. QED
  BY <1>3 DEF IsRun

-----------------------------------------------------------------------------
(* Sequences of sequences, joined. *)

\* What FlattenSeq has joined after each of the sequences in s.
IsFlat(s, S, w) == /\ w \in [0..Len(s) -> Seq(S)] /\ w[0] = <<>>
                   /\ \A i \in 1..Len(s) : w[i] = w[i - 1] \o s[i]

\* There is such a thing.
LEMMA FlatExists == ASSUME NEW S, NEW s \in Seq(Seq(S)) PROVE \E w : IsFlat(s, S, w)
<1> DEFINE n == Len(s)
           Q == Seq(S)
           step == [x \in Q \X (1..n) |-> x[1] \o s[x[2]]]
<1>1. n \in Nat /\ <<>> \in Q /\ \A i \in 1..n : s[i] \in Q
  OBVIOUS
<1>2. \A x \in Q, y \in Q : x \o y \in Q
  OBVIOUS
<1> HIDE DEF n, Q
<1>3. step \in [Q \X (1..n) -> Q] /\ \A x \in Q, i \in 1..n : step[<<x, i>>] = x \o s[i]
  BY <1>1, <1>2
<1> HIDE DEF step
<1>4. PICK w : IsRun(w, n, Q, <<>>, step)
  BY <1>1, <1>3, RunExists
<1>5. w \in [0..n -> Q] /\ w[0] = <<>> /\ \A i \in 1..n : w[i] = step[<<w[i - 1], i>>]
  BY <1>4 DEF IsRun
<1>6. \A i \in 1..n : w[i - 1] \in Q
  BY <1>1, <1>5
<1>7. \A i \in 1..n : w[i] = w[i - 1] \o s[i]
  BY <1>3, <1>5, <1>6
<1>8. QED
  BY <1>5, <1>7 DEF IsFlat, n, Q

\* And only one, which FlattenSeq returns.
LEMMA FlattenSeqIs ==
    ASSUME NEW S, NEW s \in Seq(Seq(S)), NEW w, IsFlat(s, S, w)
    PROVE  FlattenSeq(s) = w[Len(s)]
<1> DEFINE n == Len(s)
           Is(f) == f = [i \in 1..n |-> IF i = 1 THEN s[i] ELSE f[i - 1] \o s[i]]
           flatten == CHOOSE f : Is(f)
<1>0. n \in Nat /\ \A i \in 1..n : s[i] \in Seq(S)
  OBVIOUS
<1>1. CASE n = 0
  <2>1. s = <<>> /\ FlattenSeq(s) = s
    BY <1>1 DEF FlattenSeq
  <2>2. QED
    BY <1>1, <2>1 DEF IsFlat
<1>2. CASE n > 0
  <2>1. FlattenSeq(s) = flatten[n]
    BY <1>0, <1>2 DEF FlattenSeq
  <2>2. /\ w[0] = <<>> /\ \A i \in 1..n : w[i] = w[i - 1] \o s[i]
    BY DEF IsFlat
  <2>3. w[1] = s[1]
    <3> HIDE DEF n
    <3>0. 1 \in 1..n /\ 1 - 1 = 0
      BY <1>0, <1>2
    <3>1. w[1] = w[0] \o s[1] /\ s[1] \in Seq(S)
      <4>1. w[1] = w[1 - 1] \o s[1]
        BY <2>2, <3>0
      <4>2. QED
        BY <1>0, <3>0, <4>1
    <3>2. <<>> \o s[1] = s[1]
      BY <3>1
    <3>3. QED
      BY <2>2, <3>1, <3>2
  <2> HIDE DEF n
  <2>4. Is([i \in 1..n |-> w[i]])
    <3>1. ASSUME NEW i \in 1..n
          PROVE  w[i] = IF i = 1 THEN s[i] ELSE [j \in 1..n |-> w[j]][i - 1] \o s[i]
      <4>1. i # 1 => i - 1 \in 1..n
        BY <1>0
      <4>2. QED
        BY <2>2, <2>3, <4>1
    <3>2. QED
      BY <3>1
  <2>5. Is(flatten)
    <3> HIDE DEF Is
    <3>1. QED
      BY <2>4
  <2> HIDE DEF flatten
  <2>6. \A i \in 1..n : flatten[i] = IF i = 1 THEN s[i] ELSE flatten[i - 1] \o s[i]
    BY <2>5
  <2> HIDE DEF Is
  <2> DEFINE G == {k \in 0..n : k > 0 => flatten[k] = w[k]}
  <2>7. 0 \in G
    BY <1>0
  <2>8. ASSUME NEW k \in G, k < n PROVE k + 1 \in G
    <3>1. k + 1 \in 1..n /\ k + 1 \in 0..n /\ (k + 1) - 1 = k
      BY <1>0, <2>8
    <3>2. CASE k = 0
      BY <2>3, <2>6, <3>1, <3>2
    <3>3. CASE k > 0
      <4>1. flatten[k + 1] = flatten[k] \o s[k + 1]
        <5>1. k + 1 # 1
          BY <3>1, <3>3
        <5>2. QED
          BY <2>6, <3>1, <5>1
      <4>2. w[k + 1] = w[k] \o s[k + 1]
        BY <2>2, <3>1
      <4>3. QED
        BY <3>1, <3>3, <4>1, <4>2
    <3>4. QED
      BY <3>2, <3>3
  <2>9. n \in G
    <3> HIDE DEF G
    <3>1. G \subseteq 0..n
      BY DEF G
    <3>2. G = 0..n
      BY <1>0, <2>7, <2>8, <3>1, InductionUpTo
    <3>3. QED
      BY <1>0, <3>2
  <2>10. QED
    BY <1>2, <2>1, <2>9 DEF n
<1>3. QED
  BY <1>0, <1>1, <1>2

\* One sequence more.
LEMMA FlattenAppend ==
    ASSUME NEW S, NEW s \in Seq(Seq(S)), NEW x \in Seq(S)
    PROVE  FlattenSeq(Append(s, x)) = FlattenSeq(s) \o x /\ FlattenSeq(s) \in Seq(S)
<1> DEFINE n == Len(s)
           r == Append(s, x)
           Q == Seq(S)
<1>1. PICK w : IsFlat(s, S, w)
  BY FlatExists
<1>2. /\ n \in Nat /\ r \in Seq(Q) /\ Len(r) = n + 1 /\ r[n + 1] = x
      /\ \A i \in 1..n : r[i] = s[i]
  OBVIOUS
<1>3. /\ w \in [0..n -> Q] /\ w[0] = <<>> /\ \A i \in 1..n : w[i] = w[i - 1] \o s[i]
  BY <1>1 DEF IsFlat
<1>4. FlattenSeq(s) = w[n]
  BY <1>1, FlattenSeqIs
<1> DEFINE u == [i \in 0..(n + 1) |-> IF i <= n THEN w[i] ELSE w[n] \o x]
<1>5. w[n] \in Q
  BY <1>2, <1>3
<1>6. w[n] \o x \in Q
  BY <1>5
<1> HIDE DEF n, r, Q
<1>7. u \in [0..(n + 1) -> Q] /\ u[n + 1] = w[n] \o x /\ \A i \in 0..n : u[i] = w[i]
  BY <1>2, <1>3, <1>6
<1> HIDE DEF u
<1>8. ASSUME NEW i \in 1..(n + 1) PROVE u[i] = u[i - 1] \o r[i]
  <2>1. CASE i = n + 1
    <3>1. i - 1 = n /\ n \in 0..n
      BY <1>2, <2>1
    <3>2. QED
      BY <1>2, <1>7, <2>1, <3>1
  <2>2. CASE i # n + 1
    <3>1. i \in 1..n /\ i \in 0..n /\ i - 1 \in 0..n
      BY <1>2, <2>2
    <3>2. QED
      BY <1>2, <1>3, <1>7, <3>1
  <2>3. QED
    BY <2>1, <2>2
<1>9. IsFlat(r, S, u)
  <2>1. u[0] = <<>>
    BY <1>2, <1>3, <1>7
  <2>2. QED
    BY <1>2, <1>7, <1>8, <2>1 DEF IsFlat, Q
<1>10. FlattenSeq(r) = u[n + 1]
  BY <1>2, <1>9, FlattenSeqIs DEF Q
<1>11. QED
  BY <1>4, <1>5, <1>7, <1>10 DEF r, Q

\* Pairs, joined: each is in its two places.
LEMMA FlattenPairs ==
    ASSUME NEW S, NEW s \in Seq(Seq(S)), \A i \in 1..Len(s) : Len(s[i]) = 2
    PROVE  LET t == FlattenSeq(s)
           IN  /\ t \in Seq(S) /\ Len(t) = 2 * Len(s)
               /\ \A i \in 1..Len(s) : t[2 * i - 1] = s[i][1] /\ t[2 * i] = s[i][2]
<1> DEFINE n == Len(s)
           Q == Seq(S)
<1>1. PICK w : IsFlat(s, S, w)
  BY FlatExists
<1>2. n \in Nat /\ \A i \in 1..n : s[i] \in Q /\ Len(s[i]) = 2
  OBVIOUS
<1>3. w \in [0..n -> Q] /\ w[0] = <<>> /\ \A i \in 1..n : w[i] = w[i - 1] \o s[i]
  BY <1>1 DEF IsFlat
<1>4. FlattenSeq(s) = w[n]
  BY <1>1, FlattenSeqIs
<1> HIDE DEF n
<1> DEFINE Done(k) == /\ Len(w[k]) = 2 * k
                      /\ \A i \in 1..k : w[k][2 * i - 1] = s[i][1] /\ w[k][2 * i] = s[i][2]
           G == {k \in 0..n : Done(k)}
<1>5. 0 \in G
  BY <1>2, <1>3
<1>6. ASSUME NEW k \in G, k < n PROVE k + 1 \in G
  <2>0. k \in 0..n /\ Done(k)
    OBVIOUS
  <2>1. k \in Nat /\ k + 1 \in 1..n /\ k + 1 \in 0..n /\ (k + 1) - 1 = k
    <3> HIDE DEF G
    <3>1. QED
      BY <1>2, <1>6, <2>0
  <2> DEFINE a == w[k]
             b == s[k + 1]
             c == a \o b
  <2>2. a \in Seq(S) /\ b \in Seq(S) /\ Len(a) = 2 * k /\ Len(b) = 2
    BY <1>2, <1>3, <2>0, <2>1
  <2>3. w[k + 1] = c
    BY <1>3, <2>1
  <2> HIDE DEF a, b
  <2>4. /\ Len(c) = Len(a) + Len(b)
        /\ \A j \in 1..(Len(a) + Len(b)) : c[j] = IF j <= Len(a) THEN a[j] ELSE b[j - Len(a)]
    BY <2>2, ConcatProperties
  <2> HIDE DEF c
  <2>5. ASSUME NEW i \in 1..(k + 1) PROVE c[2 * i - 1] = s[i][1] /\ c[2 * i] = s[i][2]
    <3>1. CASE i = k + 1
      <4>1. /\ 2 * i - 1 \in 1..(Len(a) + Len(b)) /\ 2 * i \in 1..(Len(a) + Len(b))
            /\ ~(2 * i - 1 <= Len(a)) /\ ~(2 * i <= Len(a))
            /\ (2 * i - 1) - Len(a) = 1 /\ (2 * i) - Len(a) = 2
        BY <2>1, <2>2, <3>1
      <4>2. QED
        BY <2>4, <3>1, <4>1 DEF b
    <3>2. CASE i # k + 1
      <4>1. /\ i \in 1..k
            /\ 2 * i - 1 \in 1..(Len(a) + Len(b)) /\ 2 * i \in 1..(Len(a) + Len(b))
            /\ 2 * i - 1 <= Len(a) /\ 2 * i <= Len(a)
        BY <2>1, <2>2, <3>2
      <4>2. QED
        BY <2>0, <2>4, <4>1 DEF a
    <3>3. QED
      BY <3>1, <3>2
  <2>6. Len(c) = 2 * (k + 1)
    BY <2>1, <2>2, <2>4
  <2>7. QED
    BY <2>1, <2>3, <2>5, <2>6
<1>7. n \in G
  <2> HIDE DEF G
  <2>1. G \subseteq 0..n
    BY DEF G
  <2>2. G = 0..n
    BY <1>2, <1>5, <1>6, <2>1, InductionUpTo
  <2>3. QED
    BY <1>2, <2>2
<1>8. n \in 0..n /\ Done(n) /\ w[n] \in Q
  BY <1>2, <1>3, <1>7
<1>9. QED
  BY <1>4, <1>8 DEF n

-----------------------------------------------------------------------------
(* One byte and its two characters. *)

Octet == 0..255

\* The range of a byte.
LEMMA OctetIs ==
    /\ \A v \in Octet : v \in Int /\ 0 <= v /\ v <= 255 /\ -15 <= v
    /\ \A v \in Int : 0 <= v /\ v <= 255 => v \in Octet
BY DEF Octet

\* A digit read is the digit written.
LEMMA DigitReadsBack ==
    ASSUME NEW d \in 0..15
    PROVE  IsHex(HexDigit(d)) /\ HexValue(HexDigit(d)) = d /\ HexDigit(d) \in Int
<1>1. HexDigit(d) \in 48..57 \/ HexDigit(d) \in 97..102
  BY DEF HexDigit
<1>2. CASE d < 10
  <2>1. HexDigit(d) = 48 + d /\ HexDigit(d) \in 48..57
    BY <1>2 DEF HexDigit
  <2>2. QED
    BY <2>1 DEF IsHex, HexValue
<1>3. CASE d >= 10
  <2>1. HexDigit(d) = 87 + d /\ HexDigit(d) \in 97..102
    BY <1>3 DEF HexDigit, Octet
  <2>2. HexValue(HexDigit(d)) = HexDigit(d) - 87
    BY <2>1 DEF HexValue
  <2>3. QED
    BY <2>1, <2>2 DEF IsHex
<1>4. QED
  BY <1>2, <1>3

\* A character read as a digit is written as it was, unless it is a capital letter.
LEMMA CharacterWrittenBack ==
    ASSUME NEW c \in Int, IsHex(c)
    PROVE  HexValue(c) \in 0..15 /\ (HexDigit(HexValue(c)) = c <=> c \notin 65..70)
<1>1. CASE c \in 48..57
  BY <1>1 DEF HexValue, HexDigit
<1>2. CASE c \in 65..70
  <2>1. HexValue(c) = c - 55
    BY <1>2 DEF HexValue
  <2>2. QED
    BY <1>2, <2>1 DEF HexDigit
<1>3. CASE c \in 97..102
  <2>1. HexValue(c) = c - 87
    BY <1>3 DEF HexValue
  <2>2. QED
    BY <1>3, <2>1 DEF HexDigit
<1>4. QED
  BY <1>1, <1>2, <1>3 DEF IsHex

\* What serialize writes of a byte.
LEMMA DigitsOfByte ==
    ASSUME NEW v \in Octet
    PROVE  /\ to_chars(v) # Fail
           /\ v \div 16 \in 0..15 /\ v % 16 \in 0..15 /\ v = 16 * (v \div 16) + (v % 16)
           /\ Digits(v) = <<HexDigit(v \div 16), HexDigit(v % 16)>>
<1>1. v \div 16 \in 0..15 /\ v % 16 \in 0..15 /\ v = 16 * (v \div 16) + (v % 16)
  BY DEF Octet
<1>2. CASE v > 15
  <2>1. to_chars(v) = <<HexDigit(v \div 16), HexDigit(v % 16)>>
    BY <1>2 DEF to_chars, Octet
  <2>2. QED
    BY <1>1, <1>2, <2>1 DEF Digits, Fail, Octet
<1>3. CASE v <= 15
  <2>1. to_chars(v) = <<HexDigit(v)>> /\ v \div 16 = 0 /\ v % 16 = v
    BY <1>3 DEF to_chars, Octet
  <2>2. HexDigit(v) # -1
    BY <1>3 DEF HexDigit, Octet
  <2>3. QED
    BY <1>1, <1>3, <2>1, <2>2 DEF Digits, Fail, Octet
<1>4. QED
  BY <1>2, <1>3 DEF Octet

\* And of a character between -15 and -1: "0-", which reads as 0.  The others
\* below 0 are errors.
LEMMA DigitsOfNegative ==
    ASSUME NEW v \in Int, v < 0
    PROVE  /\ (to_chars(v) = Fail <=> v < -15)
           /\ (to_chars(v) # Fail => Digits(v) = <<HexDigit(0), Minus>>)
<1>1. CASE v < -15
  BY <1>1 DEF to_chars
<1>2. CASE v >= -15
  <2>1. to_chars(v) = <<Minus, HexDigit(-v)>>
    BY <1>2 DEF to_chars
  <2>2. QED
    BY <1>2, <2>1 DEF Digits, Fail
<1>3. QED
  BY <1>1, <1>2

\* What deserialize reads of the two.
LEMMA PairReadsBack ==
    /\ \A v \in Octet : from_chars(HexDigit(v \div 16), HexDigit(v % 16)) = v
    /\ from_chars(HexDigit(0), Minus) = 0
<1>1. ASSUME NEW v \in Octet
      PROVE  from_chars(HexDigit(v \div 16), HexDigit(v % 16)) = v
  <2>1. v \div 16 \in 0..15 /\ v % 16 \in 0..15 /\ v = 16 * (v \div 16) + (v % 16)
    BY DigitsOfByte
  <2> DEFINE a == v \div 16
             b == v % 16
  <2>2. /\ IsHex(HexDigit(a)) /\ HexValue(HexDigit(a)) = a
        /\ IsHex(HexDigit(b)) /\ HexValue(HexDigit(b)) = b
    BY <2>1, DigitReadsBack
  <2> HIDE DEF a, b
  <2>3. from_chars(HexDigit(a), HexDigit(b)) = 16 * a + b
    BY <2>2 DEF from_chars
  <2>4. QED
    BY <2>1, <2>3 DEF a, b, Octet
<1>2. from_chars(HexDigit(0), Minus) = 0
  <2>1. IsHex(HexDigit(0)) /\ HexValue(HexDigit(0)) = 0
    BY DigitReadsBack
  <2>2. ~IsHex(Minus)
    BY DEF IsHex, Minus
  <2>3. QED
    BY <2>1, <2>2 DEF from_chars
<1>3. QED
  BY <1>1, <1>2

\* The characters of serialize, by their positions.
LEMMA SerializeIs ==
    ASSUME NEW values \in Seq(Int), \A i \in 1..Len(values) : -15 <= values[i] /\ values[i] <= 255
    PROVE  /\ serialize(values) \in Seq(Int) /\ Len(serialize(values)) = 2 * Len(values)
           /\ \A i \in 1..Len(values) :
                 /\ serialize(values)[2 * i - 1] = Digits(values[i])[1]
                 /\ serialize(values)[2 * i] = Digits(values[i])[2]
<1> DEFINE n == Len(values)
           s == [i \in DOMAIN values |-> Digits(values[i])]
<1>0. n \in Nat /\ DOMAIN values = 1..n
  OBVIOUS
<1>a. \A i \in 1..n : values[i] \in Int /\ -15 <= values[i] /\ values[i] <= 255
  OBVIOUS
<1>1. ASSUME NEW i \in 1..n
      PROVE  /\ to_chars(values[i]) # Fail
             /\ Digits(values[i]) \in Seq(Int) /\ Len(Digits(values[i])) = 2
  <2>1. CASE values[i] \in Octet
    <3> DEFINE v == values[i]
    <3>1. /\ to_chars(v) # Fail /\ v \div 16 \in 0..15 /\ v % 16 \in 0..15
          /\ Digits(v) = <<HexDigit(v \div 16), HexDigit(v % 16)>>
      BY <2>1, DigitsOfByte
    <3>2. HexDigit(v \div 16) \in Int /\ HexDigit(v % 16) \in Int
      BY <3>1, DigitReadsBack
    <3>3. QED
      BY <3>1, <3>2
  <2>2. CASE values[i] < 0
    <3> DEFINE v == values[i]
    <3>0. v \in Int /\ v < 0 /\ ~(v < -15)
      BY <1>a, <2>2
    <3> HIDE DEF v
    <3>1. to_chars(v) # Fail /\ Digits(v) = <<HexDigit(0), Minus>>
      BY <3>0, DigitsOfNegative
    <3>2. HexDigit(0) \in Int /\ Minus \in Int
      BY DEF HexDigit, Minus
    <3>3. QED
      BY <3>1, <3>2 DEF v
  <2>3. values[i] \in Octet \/ values[i] < 0
    <3> DEFINE v == values[i]
    <3>1. v \in Int /\ v <= 255
      BY <1>a
    <3> HIDE DEF v
    <3>2. v \in Octet \/ v < 0
      BY <3>1 DEF Octet
    <3>3. QED
      BY <3>2 DEF v
  <2>4. QED
    BY <2>1, <2>2, <2>3
<1>2. serialize(values) = FlattenSeq(s)
  BY <1>0, <1>1 DEF serialize
<1>3. s \in Seq(Seq(Int)) /\ Len(s) = n /\ \A i \in 1..n : s[i] = Digits(values[i])
  <2>1. \A i \in 1..n : Digits(values[i]) \in Seq(Int)
    BY <1>1
  <2> HIDE DEF n
  <2>2. s = [i \in 1..n |-> Digits(values[i])]
    BY <1>0
  <2>3. QED
    BY <1>0, <2>1, <2>2
<1> HIDE DEF s
<1>4. \A i \in 1..Len(s) : Len(s[i]) = 2
  BY <1>1, <1>3
<1> DEFINE t == FlattenSeq(s)
<1>5. /\ t \in Seq(Int) /\ Len(t) = 2 * Len(s)
      /\ \A i \in 1..Len(s) : t[2 * i - 1] = s[i][1] /\ t[2 * i] = s[i][2]
  BY <1>3, <1>4, FlattenPairs
<1> HIDE DEF t
<1>6. serialize(values) = t
  BY <1>2 DEF t
<1>7. QED
  BY <1>3, <1>5, <1>6

-----------------------------------------------------------------------------
(* The round trips. *)

\* An exception is no byte string.
LEMMA FailNoBytes == \A b \in Seq(Octet) : b # Fail
<1> SUFFICES ASSUME Fail \in Seq(Octet) PROVE FALSE
  OBVIOUS
<1>1. Len(Fail) = 1 /\ Fail[1] = -1
  BY DEF Fail
<1> HIDE DEF Fail
<1>2. Fail[1] \in Octet
  BY <1>1
<1>3. QED
  BY <1>1, <1>2 DEF Octet

\* What deserialize returns for a text of an even length: a byte for each pair,
\* when each can be read, and no bytes otherwise.
LEMMA DeserializeIs ==
    ASSUME NEW n \in Nat, NEW t \in Seq(Int), Len(t) = 2 * n
    PROVE  /\ (\A i \in 1..n : from_chars(t[2 * i - 1], t[2 * i]) \in Octet)
                 => /\ deserialize(t) \in Seq(Octet) /\ Len(deserialize(t)) = n
                    /\ \A i \in 1..n : deserialize(t)[i] = from_chars(t[2 * i - 1], t[2 * i])
           /\ \A b \in Seq(Octet) : deserialize(t) = b
                 => \A i \in 1..n : b[i] = from_chars(t[2 * i - 1], t[2 * i])
<1> DEFINE Read(i) == from_chars(t[2 * i - 1], t[2 * i])
           d == [i \in 1..n |-> Read(i)]
<1>1. Len(t) \div 2 = n /\ Len(t) % 2 = 0
  OBVIOUS
<1>2. deserialize(t) = IF \E i \in 1..n : Read(i) = Invalid THEN Fail ELSE d
  BY <1>1 DEF deserialize
<1>3. \A b \in Seq(Octet) : b # Fail
  BY FailNoBytes
<1> HIDE DEF Read
<1>4. ASSUME \A i \in 1..n : Read(i) \in Octet
      PROVE  /\ deserialize(t) \in Seq(Octet) /\ Len(deserialize(t)) = n
             /\ \A i \in 1..n : deserialize(t)[i] = Read(i)
  <2>1. \A i \in 1..n : Read(i) # Invalid
    <3>1. Invalid \notin Octet
      BY DEF Invalid, Octet
    <3>2. QED
      BY <1>4, <3>1
  <2>2. deserialize(t) = d
    BY <1>2, <2>1
  <2>3. QED
    BY <1>4, <2>2
<1>5. ASSUME NEW b \in Seq(Octet), deserialize(t) = b, NEW i \in 1..n
      PROVE  b[i] = Read(i)
  <2>1. b = d
    BY <1>2, <1>3, <1>5
  <2>2. QED
    BY <2>1
<1>6. QED
  BY <1>4, <1>5 DEF Read

\* A sequence over a set is one over a larger set.
LEMMA SeqOfMore ==
    ASSUME NEW S, NEW T, S \subseteq T, NEW s \in Seq(S)
    PROVE  s \in Seq(T) /\ \A i \in 1..Len(s) : s[i] \in S
OBVIOUS

\* Two digits make a byte, and can be told from it.
LEMMA TwoDigits ==
    ASSUME NEW a \in 0..15, NEW b \in 0..15
    PROVE  /\ 16 * a + b \in Octet
           /\ (16 * a + b) \div 16 = a /\ (16 * a + b) % 16 = b
BY DEF Octet

\* Bytes read back as they were written.
LEMMA BytesReadBack ==
    ASSUME NEW b \in Seq(Octet)
    PROVE  deserialize(serialize(b)) = b /\ Len(serialize(b)) = 2 * Len(b)
<1> DEFINE n == Len(b)
           t == serialize(b)
<1>0. n \in Nat /\ b \in Seq(Int) /\ \A i \in 1..n : b[i] \in Octet
  <2>1. Octet \subseteq Int
    BY OctetIs
  <2>2. b \in Seq(Int) /\ \A i \in 1..Len(b) : b[i] \in Octet
    BY <2>1, SeqOfMore
  <2>3. QED
    BY <2>2
<1>1. \A i \in 1..n : -15 <= b[i] /\ b[i] <= 255
  BY <1>0, OctetIs
<1>2. /\ t \in Seq(Int) /\ Len(t) = 2 * n
      /\ \A i \in 1..n : t[2 * i - 1] = Digits(b[i])[1] /\ t[2 * i] = Digits(b[i])[2]
  BY <1>0, <1>1, SerializeIs
<1> HIDE DEF n, t
<1>3. ASSUME NEW i \in 1..n PROVE from_chars(t[2 * i - 1], t[2 * i]) = b[i]
  <2>1. b[i] \in Octet
    BY <1>0
  <2>2. Digits(b[i]) = <<HexDigit(b[i] \div 16), HexDigit(b[i] % 16)>>
    BY <2>1, DigitsOfByte
  <2>3. t[2 * i - 1] = HexDigit(b[i] \div 16) /\ t[2 * i] = HexDigit(b[i] % 16)
    BY <1>2, <2>2
  <2>4. QED
    BY <2>1, <2>3, PairReadsBack
<1>4. \A i \in 1..n : from_chars(t[2 * i - 1], t[2 * i]) \in Octet
  BY <1>0, <1>3
<1>5. /\ deserialize(t) \in Seq(Octet) /\ Len(deserialize(t)) = n
      /\ \A i \in 1..n : deserialize(t)[i] = from_chars(t[2 * i - 1], t[2 * i])
  BY <1>0, <1>2, <1>4, DeserializeIs
<1>6. \A i \in 1..Len(deserialize(t)) : deserialize(t)[i] = b[i]
  BY <1>3, <1>5
<1>7. deserialize(t) = b
  BY <1>5, <1>6, SeqEqual DEF n
<1>8. QED
  BY <1>2, <1>7 DEF n, t

\* Characters read back as they were written when none of them is negative.
LEMMA CharactersReadBack ==
    ASSUME NEW b \in Seq(Octet), NEW c \in Seq(Int), Len(c) = Len(b),
           \A i \in 1..Len(b) : c[i] = SignedChar(b[i])
    PROVE  deserialize(serialize(c)) = b <=> \A i \in 1..Len(b) : b[i] < 128
<1> DEFINE n == Len(b)
           t == serialize(c)
<1>0. n \in Nat /\ DOMAIN c = 1..n
  OBVIOUS
<1>1. \A i \in 1..n : b[i] \in Octet /\ b[i] \in Int /\ c[i] \in Int
  BY OctetIs
<1>2. \A i \in 1..n : c[i] = IF b[i] < 128 THEN b[i] ELSE b[i] - 256
  BY DEF SignedChar
<1>3. CASE \A i \in 1..n : b[i] < 128
  <2>1. \A i \in 1..Len(c) : c[i] = b[i]
    BY <1>2, <1>3
  <2>2. c = b
    <3>1. b \in Seq(Int)
      BY OctetIs
    <3>2. QED
      BY <2>1, <3>1, SeqEqual
  <2>3. QED
    BY <1>3, <2>2, BytesReadBack
<1>4. CASE \E i \in 1..n : c[i] < -15
  <2>1. PICK i \in 1..n : c[i] < -15
    BY <1>4
  <2>2. c[i] < 0 /\ c[i] \in Int
    BY <1>1, <2>1
  <2>3. to_chars(c[i]) = Fail
    BY <2>1, <2>2, DigitsOfNegative
  <2>4. t = Fail
    BY <1>0, <2>3 DEF serialize
  <2>5. deserialize(Fail) = Fail
    <3>1. Len(Fail) % 2 # 0
      BY DEF Fail
    <3>2. QED
      BY <3>1 DEF deserialize
  <2>6. b # Fail
    BY FailNoBytes
  <2>7. ~(b[i] < 128)
    <3>1. b[i] \in Int /\ 0 <= b[i]
      BY <1>1, OctetIs
    <3>2. QED
      BY <1>2, <2>1, <3>1
  <2>8. QED
    BY <2>4, <2>5, <2>6, <2>7
<1>5. CASE (\E i \in 1..n : ~(b[i] < 128)) /\ ~ \E i \in 1..n : c[i] < -15
  <2>1. \A i \in 1..n : -15 <= c[i] /\ c[i] <= 255
    <3> SUFFICES ASSUME NEW i \in 1..n PROVE -15 <= c[i] /\ c[i] <= 255
      OBVIOUS
    <3>1. c[i] \in Int /\ ~(c[i] < -15) /\ b[i] \in Int /\ b[i] <= 255
      BY <1>1, <1>5, OctetIs
    <3>2. QED
      BY <1>2, <3>1
  <2>2. /\ t \in Seq(Int) /\ Len(t) = 2 * n
        /\ \A i \in 1..n : t[2 * i - 1] = Digits(c[i])[1] /\ t[2 * i] = Digits(c[i])[2]
    BY <1>0, <2>1, SerializeIs
  <2>3. PICK i \in 1..n : ~(b[i] < 128)
    BY <1>5
  <2>4. c[i] \in Int /\ c[i] < 0 /\ ~(c[i] < -15) /\ b[i] # 0
    <3>1. /\ b[i] \in Int /\ b[i] <= 255 /\ c[i] \in Int
          /\ c[i] = b[i] - 256 /\ -15 <= c[i]
      BY <1>1, <1>2, <2>1, <2>3, OctetIs
    <3>2. QED
      BY <2>3, <3>1
  <2>5. Digits(c[i]) = <<HexDigit(0), Minus>>
    BY <2>4, DigitsOfNegative
  <2> HIDE DEF n, t
  <2>6. t[2 * i - 1] = HexDigit(0) /\ t[2 * i] = Minus
    BY <2>2, <2>5
  <2>7. from_chars(t[2 * i - 1], t[2 * i]) = 0
    BY <2>6, PairReadsBack
  <2>8. deserialize(t) # b
    BY <1>0, <2>2, <2>4, <2>7, DeserializeIs
  <2>9. QED
    BY <2>3, <2>8 DEF n, t
<1>6. QED
  BY <1>3, <1>4, <1>5

\* The positions of a text of an even length are those of its pairs.
LEMMA InPairs ==
    ASSUME NEW n \in Nat, NEW j \in 1..(2 * n)
    PROVE  \E i \in 1..n : j = 2 * i - 1 \/ j = 2 * i
<1>1. CASE j % 2 = 0
  <2>1. j \div 2 \in 1..n /\ j = 2 * (j \div 2)
    BY <1>1
  <2>2. QED
    BY <2>1
<1>2. CASE j % 2 = 1
  <2>1. (j + 1) \div 2 \in 1..n /\ j = 2 * ((j + 1) \div 2) - 1
    BY <1>2
  <2>2. QED
    BY <2>1
<1>3. QED
  BY <1>1, <1>2

\* A byte is read of every pair that begins with a digit, and it is written as that
\* pair exactly when both are digits serialize writes.
LEMMA PairWrittenBack ==
    ASSUME NEW c \in Int, NEW d \in Int, IsHex(c)
    PROVE  LET v == from_chars(c, d) IN
           /\ v \in Octet
           /\ HexDigit(v \div 16) = c /\ HexDigit(v % 16) = d
                 <=> c \in LowerHex /\ d \in LowerHex
<1> DEFINE v == from_chars(c, d)
           a == HexValue(c)
           b == HexValue(d)
<1>1. /\ a \in 0..15 /\ (HexDigit(a) = c <=> c \notin 65..70)
      /\ IsHex(d) => b \in 0..15 /\ (HexDigit(b) = d <=> d \notin 65..70)
  BY CharacterWrittenBack
<1>2. /\ c \in LowerHex <=> c \notin 65..70
      /\ IsHex(d) => (d \in LowerHex <=> d \notin 65..70)
      /\ ~IsHex(d) => d \notin LowerHex
  BY DEF IsHex, LowerHex
<1> HIDE DEF a, b, v
<1>3. CASE IsHex(d)
  <2>1. v = 16 * a + b
    BY <1>3 DEF from_chars, v, a, b
  <2>2. v \in Octet /\ v \div 16 = a /\ v % 16 = b
    BY <1>1, <1>3, <2>1, TwoDigits
  <2>3. QED
    BY <1>1, <1>2, <1>3, <2>2 DEF v
<1>4. CASE ~IsHex(d)
  <2>1. v = a
    BY <1>4 DEF from_chars, v, a
  <2>2. v \in Octet /\ v % 16 \in 0..15
    BY <1>1, <2>1 DEF Octet
  <2>3. IsHex(HexDigit(v % 16))
    BY <2>2, DigitReadsBack
  <2>4. HexDigit(v % 16) # d
    BY <1>4, <2>3
  <2>5. QED
    BY <1>2, <1>4, <2>2, <2>4 DEF v
<1>5. QED
  BY <1>3, <1>4

\* A text of hexadecimal digits is read, and whatever text is read is written as it
\* was exactly when it consists of digits serialize writes.
LEMMA TextWrittenBack ==
    ASSUME NEW t \in Seq(Int)
    PROVE  /\ Len(t) % 2 = 0 /\ (\A j \in 1..Len(t) : IsHex(t[j])) => deserialize(t) # Fail
           /\ deserialize(t) # Fail
                 => (serialize(deserialize(t)) = t <=> \A j \in 1..Len(t) : t[j] \in LowerHex)
<1> DEFINE n == Len(t) \div 2
           Read(i) == from_chars(t[2 * i - 1], t[2 * i])
<1>1. CASE Len(t) % 2 # 0
  BY <1>1 DEF deserialize
<1>2. CASE Len(t) % 2 = 0
  <2>1. n \in Nat /\ Len(t) = 2 * n
    BY <1>2
  <2>2. deserialize(t) # Fail => \A i \in 1..n : Read(i) # Invalid
    BY <1>2 DEF deserialize
  <2> HIDE DEF n
  <2>3. \A i \in 1..n : /\ 2 * i - 1 \in 1..(2 * n) /\ 2 * i \in 1..(2 * n)
                        /\ t[2 * i - 1] \in Int /\ t[2 * i] \in Int
    BY <2>1
  <2>4. \A i \in 1..n : Read(i) # Invalid => IsHex(t[2 * i - 1])
    BY DEF from_chars
  <2>5. \A i \in 1..n : IsHex(t[2 * i - 1]) =>
           /\ Read(i) \in Octet
           /\ HexDigit(Read(i) \div 16) = t[2 * i - 1] /\ HexDigit(Read(i) % 16) = t[2 * i]
                 <=> t[2 * i - 1] \in LowerHex /\ t[2 * i] \in LowerHex
    BY <2>3, PairWrittenBack
  <2>6. ASSUME \A j \in 1..Len(t) : IsHex(t[j]) PROVE deserialize(t) # Fail
    <3>1. ASSUME NEW i \in 1..n PROVE Read(i) \in Octet
      <4>1. 2 * i - 1 \in 1..Len(t)
        BY <2>1, <2>3
      <4>2. IsHex(t[2 * i - 1])
        BY <2>6, <4>1
      <4>3. QED
        BY <2>5, <4>2
    <3>2. deserialize(t) \in Seq(Octet)
      BY <2>1, <3>1, DeserializeIs
    <3>3. QED
      BY <3>2, FailNoBytes
  <2>7. ASSUME deserialize(t) # Fail
        PROVE  serialize(deserialize(t)) = t <=> \A j \in 1..Len(t) : t[j] \in LowerHex
    <3> DEFINE d == deserialize(t)
               x == serialize(d)
    <3>1. \A i \in 1..n : IsHex(t[2 * i - 1]) /\ Read(i) \in Octet
      BY <2>2, <2>4, <2>5, <2>7
    <3>2. d \in Seq(Octet) /\ Len(d) = n /\ \A i \in 1..n : d[i] = Read(i)
      BY <2>1, <3>1, DeserializeIs
    <3> HIDE DEF d
    <3>3. /\ x \in Seq(Int) /\ Len(x) = 2 * n
          /\ \A i \in 1..n : x[2 * i - 1] = Digits(d[i])[1] /\ x[2 * i] = Digits(d[i])[2]
      <4>1. d \in Seq(Int) /\ \A i \in 1..Len(d) : -15 <= d[i] /\ d[i] <= 255
        BY <3>2, OctetIs
      <4>2. QED
        BY <3>2, <4>1, SerializeIs
    <3> HIDE DEF x, Read
    <3>4. ASSUME NEW i \in 1..n
          PROVE  x[2 * i - 1] = t[2 * i - 1] /\ x[2 * i] = t[2 * i]
                    <=> t[2 * i - 1] \in LowerHex /\ t[2 * i] \in LowerHex
      <4>1. d[i] \in Octet /\ d[i] = Read(i)
        BY <3>1, <3>2
      <4>2. Digits(d[i]) = <<HexDigit(d[i] \div 16), HexDigit(d[i] % 16)>>
        BY <4>1, DigitsOfByte
      <4>3. x[2 * i - 1] = HexDigit(Read(i) \div 16) /\ x[2 * i] = HexDigit(Read(i) % 16)
        BY <3>3, <4>1, <4>2
      <4>4. QED
        BY <2>5, <3>1, <4>3
    <3>5. x = t <=> \A j \in 1..(2 * n) : x[j] = t[j]
      BY <2>1, <3>3, SeqEqual
    <3>6. (\A j \in 1..(2 * n) : x[j] = t[j])
             <=> \A i \in 1..n : x[2 * i - 1] = t[2 * i - 1] /\ x[2 * i] = t[2 * i]
      BY <2>1, <2>3, InPairs
    <3>7. (\A j \in 1..(2 * n) : t[j] \in LowerHex)
             <=> \A i \in 1..n : t[2 * i - 1] \in LowerHex /\ t[2 * i] \in LowerHex
      BY <2>1, <2>3, InPairs
    <3>8. QED
      BY <2>1, <3>4, <3>5, <3>6, <3>7 DEF x, d
  <2>8. QED
    BY <1>2, <2>6, <2>7
<1>3. QED
  BY <1>1, <1>2

-----------------------------------------------------------------------------
(* Bits. *)

\* A division is determined by its remainder.
LEMMA Division ==
    ASSUME NEW m \in Nat, m > 0, NEW v \in Int, NEW q \in Int, NEW r \in 0..(m - 1),
           v = m * q + r
    PROVE  v \div m = q /\ v % m = r
<1> DEFINE a == v \div m
           b == v % m
<1>1. a \in Int /\ b \in 0..(m - 1) /\ v = m * a + b
  OBVIOUS
<1> HIDE DEF a, b
<1>2. ASSUME a > q PROVE FALSE
  <2>1. m * a >= m * (q + 1)
    BY <1>1, <1>2
  <2>2. m * (q + 1) = m * q + m
    OBVIOUS
  <2>3. QED
    BY <1>1, <2>1, <2>2
<1>3. ASSUME a < q PROVE FALSE
  <2>1. m * q >= m * (a + 1)
    BY <1>1, <1>3
  <2>2. m * (a + 1) = m * a + m
    BY <1>1
  <2>3. QED
    BY <1>1, <2>1, <2>2
<1>4. a = q /\ b = r
  BY <1>1, <1>2, <1>3
<1>5. QED
  BY <1>4 DEF a, b

\* Dividing twice.
LEMMA DivisionTwice ==
    ASSUME NEW m \in Nat, m > 0, NEW n \in Nat, n > 0, NEW v \in Nat
    PROVE  v \div (m * n) = (v \div m) \div n
<1> DEFINE a == v \div m
           r == v % m
           b == a \div n
           c == a % n
<1>1. a \in Nat /\ r \in 0..(m - 1) /\ v = m * a + r
  OBVIOUS
<1>2. b \in Nat /\ c \in 0..(n - 1) /\ a = n * b + c
  BY <1>1
<1> HIDE DEF a, r, b, c
<1>3. v = (m * n) * b + (m * c + r)
  <2>1. m * a = m * (n * b) + m * c
    BY <1>1, <1>2
  <2>2. m * (n * b) = (m * n) * b
    BY <1>2
  <2>3. m * c \in Nat /\ (m * n) * b \in Nat
    BY <1>2
  <2>4. QED
    BY <1>1, <2>1, <2>2, <2>3
<1>4. m * c + r \in 0..((m * n) - 1)
  <2>1. m * c <= m * (n - 1)
    BY <1>2
  <2>2. m * (n - 1) = (m * n) - m
    OBVIOUS
  <2>3. m * c \in Nat /\ m * n \in Nat
    BY <1>2
  <2>4. QED
    BY <1>1, <2>1, <2>2, <2>3
<1>5. m * n \in Nat /\ m * n > 0
  OBVIOUS
<1>6. QED
  BY <1>2, <1>3, <1>4, <1>5, Division DEF a, b

\* The powers of two that occur.
Pow(k) == 2^k

\* Each is twice the last.
LEMMA PowerOfTwo ==
    ASSUME NEW k \in 0..23
    PROVE  Pow(k + 1) = 2 * Pow(k) /\ Pow(k) \in Nat /\ Pow(k) > 0
<1>1. CASE k = 0 BY <1>1 DEF Pow
<1>2. CASE k = 1 BY <1>2 DEF Pow
<1>3. CASE k = 2 BY <1>3 DEF Pow
<1>4. CASE k = 3 BY <1>4 DEF Pow
<1>5. CASE k = 4 BY <1>5 DEF Pow
<1>6. CASE k = 5 BY <1>6 DEF Pow
<1>7. CASE k = 6 BY <1>7 DEF Pow
<1>8. CASE k = 7 BY <1>8 DEF Pow
<1>9. CASE k = 8 BY <1>9 DEF Pow
<1>10. CASE k = 9 BY <1>10 DEF Pow
<1>11. CASE k = 10 BY <1>11 DEF Pow
<1>12. CASE k = 11 BY <1>12 DEF Pow
<1>13. CASE k = 12 BY <1>13 DEF Pow
<1>14. CASE k = 13 BY <1>14 DEF Pow
<1>15. CASE k = 14 BY <1>15 DEF Pow
<1>16. CASE k = 15 BY <1>16 DEF Pow
<1>17. CASE k = 16 BY <1>17 DEF Pow
<1>18. CASE k = 17 BY <1>18 DEF Pow
<1>19. CASE k = 18 BY <1>19 DEF Pow
<1>20. CASE k = 19 BY <1>20 DEF Pow
<1>21. CASE k = 20 BY <1>21 DEF Pow
<1>22. CASE k = 21 BY <1>22 DEF Pow
<1>23. CASE k = 22 BY <1>23 DEF Pow
<1>24. CASE k = 23 BY <1>24 DEF Pow
<1>25. k \in {0, 1, 2, 3, 4, 5, 6, 7, 8, 9, 10, 11, 12, 13, 14, 15, 16, 17, 18, 19, 20, 21,
             22, 23}
  OBVIOUS
<1>26. QED
  BY <1>1, <1>2, <1>3, <1>4, <1>5, <1>6, <1>7, <1>8, <1>9, <1>10, <1>11, <1>12, <1>13, <1>14,
     <1>15, <1>16, <1>17, <1>18, <1>19, <1>20, <1>21, <1>22, <1>23, <1>24, <1>25

\* And as parts of a byte.
LEMMA PartOfByte ==
    ASSUME NEW k \in 0..7
    PROVE  /\ Pow(8 + k) = 256 * Pow(k) /\ Pow(16 + k) = 65536 * Pow(k)
           /\ 256 = Pow(k) * (2 * Pow(7 - k))
<1>1. CASE k = 0 BY <1>1 DEF Pow
<1>2. CASE k = 1 BY <1>2 DEF Pow
<1>3. CASE k = 2 BY <1>3 DEF Pow
<1>4. CASE k = 3 BY <1>4 DEF Pow
<1>5. CASE k = 4 BY <1>5 DEF Pow
<1>6. CASE k = 5 BY <1>6 DEF Pow
<1>7. CASE k = 6 BY <1>7 DEF Pow
<1>8. CASE k = 7 BY <1>8 DEF Pow
<1>9. k \in {0, 1, 2, 3, 4, 5, 6, 7}
  OBVIOUS
<1>10. QED
  BY <1>1, <1>2, <1>3, <1>4, <1>5, <1>6, <1>7, <1>8, <1>9

\* A bit of the last byte of a number.
LEMMA BitOfLastByte ==
    ASSUME NEW k \in 0..7, NEW x \in Nat, NEW b \in Octet
    PROVE  ((256 * x + b) \div Pow(k)) % 2 = (b \div Pow(k)) % 2
<1> DEFINE m == Pow(k)
           n == Pow(7 - k)
           q == b \div m
           r == b % m
<1>1. m \in Nat /\ m > 0 /\ n \in Nat /\ n > 0 /\ 256 = m * (2 * n)
  <2>1. k \in 0..23 /\ 7 - k \in 0..23
    OBVIOUS
  <2>2. Pow(k) \in Nat /\ Pow(k) > 0 /\ Pow(7 - k) \in Nat /\ Pow(7 - k) > 0
    BY <2>1, PowerOfTwo
  <2>3. 256 = Pow(k) * (2 * Pow(7 - k))
    BY PartOfByte
  <2>4. QED
    BY <2>2, <2>3
<1> HIDE DEF m, n
<1>2. q \in Nat /\ r \in 0..(m - 1) /\ b = m * q + r
  BY <1>1 DEF Octet
<1> HIDE DEF q, r
<1>3. 256 * x + b = m * (2 * (n * x) + q) + r
  <2>1. 256 * x = m * (2 * (n * x))
    BY <1>1
  <2>2. m * (2 * (n * x) + q) = m * (2 * (n * x)) + m * q
    BY <1>1, <1>2
  <2>3. 256 * x \in Nat /\ m * q \in Nat
    BY <1>1, <1>2
  <2>4. QED
    BY <1>2, <2>1, <2>2, <2>3
<1>4. n * x \in Nat
  BY <1>1
<1>5. 256 * x + b \in Int /\ 2 * (n * x) + q \in Int
  BY <1>2, <1>4 DEF Octet
<1>6. (256 * x + b) \div m = 2 * (n * x) + q
  BY <1>1, <1>2, <1>3, <1>5, Division
<1>7. (2 * (n * x) + q) % 2 = q % 2
  BY <1>2, <1>4
<1>8. QED
  BY <1>6, <1>7 DEF m, q

\* The number that three bytes make.
Number(a, b, c) == a * 65536 + b * 256 + c

\* Its bits are those of the bytes.
LEMMA BitOfThreeBytes ==
    ASSUME NEW a \in Octet, NEW b \in Octet, NEW c \in Octet
    PROVE  /\ Number(a, b, c) \in Nat
           /\ \A k \in 0..7 :
                 /\ (Number(a, b, c) \div Pow(16 + k)) % 2 = (a \div Pow(k)) % 2
                 /\ (Number(a, b, c) \div Pow(8 + k)) % 2 = (b \div Pow(k)) % 2
                 /\ (Number(a, b, c) \div Pow(k)) % 2 = (c \div Pow(k)) % 2
<1> DEFINE v == Number(a, b, c)
<1>0. /\ a \in Nat /\ a <= 255 /\ b \in Nat /\ b <= 255 /\ c \in Nat /\ c <= 255
  BY DEF Octet
<1>1. /\ v \in Nat /\ v = 256 * (256 * a + b) + c
      /\ v \div 256 = 256 * a + b /\ v \div 65536 = a
  BY <1>0, SMT DEF Number
<1>2. 256 * a + b \in Nat
  BY <1>0, SMT
<1> HIDE DEF v
<1> SUFFICES ASSUME NEW k \in 0..7
             PROVE  /\ (v \div Pow(16 + k)) % 2 = (a \div Pow(k)) % 2
                    /\ (v \div Pow(8 + k)) % 2 = (b \div Pow(k)) % 2
                    /\ (v \div Pow(k)) % 2 = (c \div Pow(k)) % 2
  BY <1>1 DEF v
<1>3. Pow(k) \in Nat /\ Pow(k) > 0 /\ Pow(8 + k) = 256 * Pow(k) /\ Pow(16 + k) = 65536 * Pow(k)
  <2>1. k \in 0..23
    OBVIOUS
  <2>2. Pow(k) \in Nat /\ Pow(k) > 0
    BY <2>1, PowerOfTwo
  <2>3. Pow(8 + k) = 256 * Pow(k) /\ Pow(16 + k) = 65536 * Pow(k)
    BY PartOfByte
  <2>4. QED
    BY <2>2, <2>3, SMT
<1>4. v \div Pow(8 + k) = (256 * a + b) \div Pow(k) /\ v \div Pow(16 + k) = a \div Pow(k)
  <2> DEFINE m == Pow(k)
  <2>1. m \in Nat /\ m > 0
    BY <1>3, SMT
  <2> HIDE DEF m
  <2>2. v \div (256 * m) = (v \div 256) \div m /\ v \div (65536 * m) = (v \div 65536) \div m
    BY <1>1, <2>1, DivisionTwice, SMT
  <2>3. QED
    BY <1>1, <1>3, <2>2, SMT DEF m
<1>5. ((256 * (256 * a + b) + c) \div Pow(k)) % 2 = (c \div Pow(k)) % 2
  <2> DEFINE x == 256 * a + b
  <2>1. x \in Nat
    BY <1>2
  <2> HIDE DEF x
  <2>2. ((256 * x + c) \div Pow(k)) % 2 = (c \div Pow(k)) % 2
    BY <2>1, BitOfLastByte
  <2>3. QED
    BY <2>2 DEF x
<1>6. ((256 * a + b) \div Pow(k)) % 2 = (b \div Pow(k)) % 2
  BY <1>0, BitOfLastByte
<1>7. QED
  BY <1>1, <1>4, <1>5, <1>6, SMT

\* The first i bits of a number, from any on, are a number of i bits; one bit more
\* is twice as much and the bit.
LEMMA OneBitMore ==
    ASSUME NEW v \in Nat, NEW k \in 0..23, NEW i \in 0..10
    PROVE  (v \div Pow(k)) % Pow(i + 1) = 2 * ((v \div Pow(k + 1)) % Pow(i)) + ((v \div Pow(k)) % 2)
<1> DEFINE m == Pow(k)
           n == Pow(i)
           x == v \div (m * 2)
           b == (v \div m) % 2
<1>1. /\ m \in Nat /\ m > 0 /\ Pow(k + 1) = 2 * m
      /\ n \in Nat /\ n > 0 /\ Pow(i + 1) = 2 * n
  <2>1. i \in 0..23
    OBVIOUS
  <2>2. QED
    BY <2>1, PowerOfTwo
<1> HIDE DEF m, n
<1>2. x = (v \div m) \div 2
  BY <1>1, DivisionTwice
<1>3. x \in Nat /\ b \in 0..1 /\ v \div m = 2 * x + b
  <2> DEFINE y == v \div m
  <2>1. y \in Nat
    BY <1>1
  <2>2. x = y \div 2 /\ b = y % 2
    BY <1>2
  <2> HIDE DEF y, x, b
  <2>3. x \in Nat /\ b \in 0..1 /\ y = 2 * x + b
    BY <2>1, <2>2
  <2>4. QED
    BY <2>3 DEF y
<1> HIDE DEF x, b
<1> DEFINE q == x \div n
           r == x % n
<1>4. q \in Nat /\ r \in 0..(n - 1) /\ x = n * q + r
  BY <1>1, <1>3
<1> HIDE DEF q, r
<1>5. 2 * x + b = (2 * n) * q + (2 * r + b)
  <2>1. (2 * n) * q = 2 * (n * q) /\ n * q \in Nat
    BY <1>1, <1>4
  <2>2. QED
    BY <1>3, <1>4, <2>1
<1>6. 2 * r + b \in 0..((2 * n) - 1) /\ 2 * n \in Nat /\ 2 * n > 0 /\ 2 * x + b \in Int
  BY <1>1, <1>3, <1>4
<1>7. (2 * x + b) % (2 * n) = 2 * r + b
  <2> DEFINE M == 2 * n
             V == 2 * x + b
             R == 2 * r + b
  <2>1. M \in Nat /\ M > 0 /\ V \in Int /\ q \in Int /\ R \in 0..(M - 1) /\ V = M * q + R
    BY <1>4, <1>5, <1>6
  <2> HIDE DEF M, V, R
  <2>2. V % M = R
    BY <2>1, Division
  <2>3. QED
    BY <2>2 DEF M, V, R
<1>8. (v \div m) % (2 * n) = 2 * (x % n) + b
  BY <1>3, <1>7 DEF r
<1>9. QED
  <2>1. 2 * m = m * 2
    BY <1>1
  <2>2. QED
    BY <1>1, <1>8, <2>1 DEF m, n, x, b

\* Byte k, the first being 0, or 0 behind the end; and the number that three make.
ByteAt(b, k) == IF k < Len(b) THEN b[k + 1] ELSE 0
ThreeBytes(b, o) == Number(ByteAt(b, o), ByteAt(b, o + 1), ByteAt(b, o + 2))

\* Bytes are bytes, behind the end too.
LEMMA ByteAtIs ==
    ASSUME NEW b \in Seq(Octet), NEW k \in Nat
    PROVE  ByteAt(b, k) \in Octet /\ (k < Len(b) => ByteAt(b, k) = b[k + 1])
<1>1. 0 \in Octet
  BY OctetIs
<1>2. CASE k < Len(b)
  <2>1. k + 1 \in 1..Len(b)
    BY <1>2
  <2>2. b[k + 1] \in Octet
    BY <2>1
  <2>3. QED
    BY <1>2, <2>2 DEF ByteAt
<1>3. QED
  BY <1>1, <1>2 DEF ByteAt

\* Bit j of three bytes.
LEMMA ExtractBitIs ==
    ASSUME NEW b \in Seq(Octet), NEW o \in Nat, NEW j \in 0..23, 8 * o + j < 8 * Len(b)
    PROVE  extract_bit(b, 8 * o + j) = (ThreeBytes(b, o) \div Pow(23 - j)) % 2
<1> DEFINE x == ByteAt(b, o)
           y == ByteAt(b, o + 1)
           z == ByteAt(b, o + 2)
           v == Number(x, y, z)
<1>0. x \in Octet /\ y \in Octet /\ z \in Octet /\ v = ThreeBytes(b, o)
  BY ByteAtIs DEF ThreeBytes
<1>1. Len(b) \in Nat /\ \A n \in Nat : n < Len(b) => b[n + 1] = ByteAt(b, n)
  BY ByteAtIs
<1>v. \A k \in 0..7 : /\ (v \div Pow(16 + k)) % 2 = (x \div Pow(k)) % 2
                      /\ (v \div Pow(8 + k)) % 2 = (y \div Pow(k)) % 2
                      /\ (v \div Pow(k)) % 2 = (z \div Pow(k)) % 2
  <2> HIDE DEF x, y, z
  <2>1. QED
    BY <1>0, BitOfThreeBytes
<1> HIDE DEF x, y, z
<1> DEFINE e(c) == extract_bit(b, c)
<1>2. \A c : e(c) = (b[c \div 8 + 1] \div Pow(7 - (c % 8))) % 2
  BY DEF extract_bit, Pow
<1> HIDE DEF e, v
<1>3. CASE j < 8
  <2>1. /\ (8 * o + j) \div 8 = o /\ (8 * o + j) % 8 = j /\ o < Len(b)
        /\ 7 - j \in 0..7 /\ 23 - j = 16 + (7 - j)
    BY <1>1, <1>3
  <2>2. (v \div Pow(16 + (7 - j))) % 2 = (x \div Pow(7 - j)) % 2
    BY <1>v, <2>1
  <2>3. b[o + 1] = x
    BY <1>1, <2>1 DEF x
  <2>4. e(8 * o + j) = (x \div Pow(7 - j)) % 2
    BY <1>2, <2>1, <2>3
  <2>5. QED
    BY <1>0, <2>1, <2>2, <2>4 DEF e
<1>4. CASE 8 <= j /\ j < 16
  <2>0. /\ 8 * o + j = 8 * (o + 1) + (j - 8) /\ j - 8 \in 0..(8 - 1)
        /\ 8 * o + j \in Int /\ o + 1 \in Int
    BY <1>4
  <2>d. (8 * o + j) \div 8 = o + 1 /\ (8 * o + j) % 8 = j - 8
    BY <2>0, Division
  <2>1. /\ (8 * o + j) \div 8 = o + 1 /\ 7 - ((8 * o + j) % 8) = 15 - j /\ o + 1 < Len(b)
        /\ 15 - j \in 0..7 /\ 23 - j = 8 + (15 - j)
    BY <1>1, <1>4, <2>d
  <2>2. (v \div Pow(8 + (15 - j))) % 2 = (y \div Pow(15 - j)) % 2
    BY <1>v, <2>1
  <2>3. b[(o + 1) + 1] = y
    BY <1>1, <2>1 DEF y
  <2>4. e(8 * o + j) = (y \div Pow(15 - j)) % 2
    BY <1>2, <2>1, <2>3
  <2>5. QED
    BY <1>0, <2>1, <2>2, <2>4 DEF e
<1>5. CASE 16 <= j
  <2>0. /\ 8 * o + j = 8 * (o + 2) + (j - 16) /\ j - 16 \in 0..(8 - 1)
        /\ 8 * o + j \in Int /\ o + 2 \in Int
    BY <1>5
  <2>d. (8 * o + j) \div 8 = o + 2 /\ (8 * o + j) % 8 = j - 16
    BY <2>0, Division
  <2>1. /\ (8 * o + j) \div 8 = o + 2 /\ 7 - ((8 * o + j) % 8) = 23 - j /\ o + 2 < Len(b)
        /\ 23 - j \in 0..7
    BY <1>1, <1>5, <2>d
  <2>2. (v \div Pow(23 - j)) % 2 = (z \div Pow(23 - j)) % 2
    BY <1>v, <2>1
  <2>3. b[(o + 2) + 1] = z
    BY <1>1, <2>1 DEF z
  <2>4. e(8 * o + j) = (z \div Pow(23 - j)) % 2
    BY <1>2, <2>1, <2>3
  <2>5. QED
    BY <1>0, <2>1, <2>2, <2>4 DEF e
<1>6. QED
  BY <1>3, <1>4, <1>5

\* Eleven bits from p on, in the buffer, are eleven bits of the number three bytes make.
LEMMA BitsFromIs ==
    ASSUME NEW b \in Seq(Octet), NEW p \in Nat, p + 11 <= 8 * Len(b)
    PROVE  BitsFrom(b, p) = (ThreeBytes(b, p \div 8) \div Pow(13 - (p % 8))) % 2048
<1> DEFINE o == p \div 8
           r == p % 8
           V == ThreeBytes(b, o)
           bit(i) == extract_bit(b, p + i - 1)
           Is(f) == f = [i \in 0..11 |-> IF i = 0 THEN 0 ELSE 2 * f[i - 1] + bit(i)]
           v == CHOOSE f : Is(f)
           c == [i \in 0..11 |-> (V \div Pow(24 - r - i)) % Pow(i)]
<1>1. o \in Nat /\ r \in 0..7 /\ p = 8 * o + r
  OBVIOUS
<1>2. V \in Nat
  <2>1. ByteAt(b, o) \in Octet /\ ByteAt(b, o + 1) \in Octet /\ ByteAt(b, o + 2) \in Octet
    BY <1>1, ByteAtIs
  <2>2. QED
    BY <2>1, BitOfThreeBytes DEF ThreeBytes
<1>3. BitsFrom(b, p) = v[11]
  BY DEF BitsFrom
<1> HIDE DEF o, r, V, v
<1>4. c[0] = 0
  <2>1. Pow(0) = 1
    BY DEF Pow
  <2>2. c[0] = (V \div Pow(24 - r - 0)) % Pow(0)
    OBVIOUS
  <2>3. 24 - r - 0 = 24 - r /\ 23 - r \in 0..23 /\ (23 - r) + 1 = 24 - r
    BY <1>1
  <2>4. Pow(24 - r) \in Nat /\ Pow(24 - r) > 0
    <3>1. Pow((23 - r) + 1) = 2 * Pow(23 - r) /\ Pow(23 - r) \in Nat /\ Pow(23 - r) > 0
      BY <2>3, PowerOfTwo
    <3>2. QED
      BY <2>3, <3>1
  <2>5. V \div Pow(24 - r) \in Nat
    BY <1>2, <2>4
  <2>6. QED
    BY <2>1, <2>2, <2>3, <2>5
<1>5. ASSUME NEW i \in 0..10 PROVE c[i + 1] = 2 * c[i] + bit(i + 1)
  <2> DEFINE k == 23 - r - i
  <2>1. /\ k \in 0..23 /\ i \in 0..10 /\ i + 1 \in 0..11 /\ i \in 0..11
        /\ 24 - r - (i + 1) = k /\ 24 - r - i = k + 1 /\ k = 23 - (r + i) /\ r + i \in 0..23
        /\ p + (i + 1) - 1 = 8 * o + (r + i) /\ 8 * o + (r + i) < 8 * Len(b)
    BY <1>1
  <2>2. c[i + 1] = (V \div Pow(k)) % Pow(i + 1) /\ c[i] = (V \div Pow(k + 1)) % Pow(i)
    BY <2>1
  <2>3. bit(i + 1) = (V \div Pow(k)) % 2
    <3>1. extract_bit(b, 8 * o + (r + i)) = (ThreeBytes(b, o) \div Pow(23 - (r + i))) % 2
      BY <1>1, <2>1, ExtractBitIs
    <3>2. QED
      BY <2>1, <3>1 DEF V
  <2> HIDE DEF k, c, bit
  <2>4. (V \div Pow(k)) % Pow(i + 1) = 2 * ((V \div Pow(k + 1)) % Pow(i)) + ((V \div Pow(k)) % 2)
    BY <1>2, <2>1, OneBitMore
  <2>5. QED
    BY <2>2, <2>3, <2>4
<1> HIDE DEF c, bit
<1>6. Is(c)
  <2>1. ASSUME NEW i \in 0..11 PROVE c[i] = IF i = 0 THEN 0 ELSE 2 * c[i - 1] + bit(i)
    <3>1. CASE i # 0
      <4>1. i - 1 \in 0..10 /\ (i - 1) + 1 = i
        BY <3>1
      <4>2. QED
        BY <1>5, <3>1, <4>1
    <3>2. QED
      BY <1>4, <3>1
  <2>2. c = [i \in 0..11 |-> c[i]]
    BY DEF c
  <2>3. QED
    BY <2>1, <2>2
<1>7. Is(v)
  <2> HIDE DEF Is
  <2>1. QED
    BY <1>6 DEF v
<1>8. \A i \in 0..11 : v[i] = IF i = 0 THEN 0 ELSE 2 * v[i - 1] + bit(i)
  BY <1>7
<1> DEFINE G == {i \in 0..11 : v[i] = c[i]}
<1>9. 0 \in G
  BY <1>4, <1>8
<1>10. ASSUME NEW i \in G, i < 11 PROVE i + 1 \in G
  <2>1. i \in 0..10 /\ i + 1 \in 0..11 /\ (i + 1) - 1 = i /\ i + 1 # 0
    BY <1>10
  <2>2. v[i + 1] = 2 * v[i] + bit(i + 1)
    BY <1>8, <2>1
  <2>3. QED
    BY <1>5, <2>1, <2>2
<1>11. v[11] = c[11]
  <2> HIDE DEF G
  <2>1. G \subseteq 0..11
    BY DEF G
  <2>2. G = 0..11
    BY <1>9, <1>10, <2>1, InductionUpTo
  <2>3. QED
    BY <2>2 DEF G
<1>12. Pow(11) = 2048 /\ 24 - r - 11 = 13 - r
  BY <1>1 DEF Pow
<1>13. c[11] = (V \div Pow(13 - r)) % 2048
  BY <1>12 DEF c
<1>14. QED
  BY <1>3, <1>11, <1>13 DEF V, o, r

\* Eleven bits of bytes are a number.
LEMMA BitsFromNumber ==
    ASSUME NEW b \in Seq(Octet), NEW p \in Nat, p + 11 <= 8 * Len(b)
    PROVE  BitsFrom(b, p) \in Nat
<1> DEFINE o == p \div 8
           k == 13 - (p % 8)
<1>1. o \in Nat /\ k \in 0..23
  OBVIOUS
<1>2. BitsFrom(b, p) = (ThreeBytes(b, o) \div Pow(k)) % 2048
  BY BitsFromIs
<1> HIDE DEF o, k
<1>3. ThreeBytes(b, o) \in Nat
  <2>1. ByteAt(b, o) \in Octet /\ ByteAt(b, o + 1) \in Octet /\ ByteAt(b, o + 2) \in Octet
    BY <1>1, ByteAtIs
  <2>2. QED
    BY <2>1, BitOfThreeBytes DEF ThreeBytes
<1>4. Pow(k) \in Nat /\ Pow(k) > 0
  BY <1>1, PowerOfTwo
<1> DEFINE x == ThreeBytes(b, o) \div Pow(k)
<1>5. x \in Nat
  BY <1>3, <1>4
<1> HIDE DEF x
<1>6. x % 2048 \in Nat
  BY <1>5
<1>7. QED
  BY <1>2, <1>6 DEF x

-----------------------------------------------------------------------------
(* Texts without their spaces. *)

\* The first elements of a sequence, and one more.
LEMMA Prefix ==
    ASSUME NEW S, NEW t \in Seq(S)
    PROVE  /\ Len(t) \in Nat /\ SubSeq(t, 1, 0) = <<>> /\ SubSeq(t, 1, Len(t)) = t
           /\ \A k \in 0..Len(t) : k < Len(t) =>
                 /\ SubSeq(t, 1, k) \in Seq(S) /\ t[k + 1] \in S
                 /\ SubSeq(t, 1, k + 1) = Append(SubSeq(t, 1, k), t[k + 1])
<1> DEFINE n == Len(t)
           Up(k) == SubSeq(t, 1, k)
<1>1. n \in Nat /\ Up(0) = <<>> /\ Up(n) = t
  OBVIOUS
<1>2. ASSUME NEW k \in 0..n, k < n
      PROVE  Up(k) \in Seq(S) /\ t[k + 1] \in S /\ Up(k + 1) = Append(Up(k), t[k + 1])
  <2> DEFINE a == Up(k)
  <2>1. /\ k + 1 \in 1..n /\ k + 1 \in 1..(k + 1) /\ 1 \in 1..n /\ (k + 1) - 1 = k
        /\ t[k + 1] \in S
    BY <1>1, <1>2
  <2>2. a \in Seq(S)
    OBVIOUS
  <2>3. Up(k + 1) = Up((k + 1) - 1) \o <<t[k + 1]>>
    BY <2>1, SubSeqRecursiveSecond
  <2> HIDE DEF Up, n
  <2>4. Append(a, t[k + 1]) = a \o <<t[k + 1]>>
    <3> HIDE DEF a
    <3>1. QED
      BY <2>1, <2>2, AppendIsConcat
  <2>5. QED
    BY <2>1, <2>2, <2>3, <2>4
<1>3. QED
  BY <1>1, <1>2

\* A set of sequences with the empty one, and each one longer by one, has them all.
LEMMA SeqInduction ==
    ASSUME NEW S, NEW G, <<>> \in G, \A s \in Seq(S), x \in S : s \in G => Append(s, x) \in G,
           NEW t \in Seq(S)
    PROVE  t \in G
<1> DEFINE n == Len(t)
           Up(k) == SubSeq(t, 1, k)
           H == {k \in 0..n : Up(k) \in G}
<1>1. n \in Nat /\ Up(0) = <<>> /\ Up(n) = t
  BY Prefix
<1>2. ASSUME NEW k \in 0..n, k < n
      PROVE  Up(k) \in Seq(S) /\ t[k + 1] \in S /\ Up(k + 1) = Append(Up(k), t[k + 1])
  BY <1>2, Prefix
<1> HIDE DEF Up, n
<1>3. 0 \in H
  BY <1>1
<1>4. ASSUME NEW k \in H, k < n PROVE k + 1 \in H
  <2>1. k + 1 \in 0..n
    BY <1>1, <1>4
  <2>2. QED
    BY <1>2, <1>4, <2>1
<1>5. n \in H
  <2> HIDE DEF H
  <2>1. H \subseteq 0..n
    BY DEF H
  <2>2. H = 0..n
    BY <1>1, <1>3, <1>4, <2>1, InductionUpTo
  <2>3. QED
    BY <1>1, <2>2
<1>6. QED
  BY <1>1, <1>5

\* The characters of a text that are no spaces, each on its own or nothing.
Letters(t) == [i \in DOMAIN t |-> IF t[i] = Space THEN <<>> ELSE <<t[i]>>]

\* The text without its spaces.
NoSpaces(t) == FlattenSeq(Letters(t))

\* One character more.
LEMMA NoSpacesAppend ==
    ASSUME NEW t \in Seq(Nat), NEW c \in Nat
    PROVE  /\ NoSpaces(t) \in Seq(Nat)
           /\ NoSpaces(Append(t, c)) = IF c = Space THEN NoSpaces(t) ELSE Append(NoSpaces(t), c)
<1> DEFINE x == IF c = Space THEN <<>> ELSE <<c>>
           a == Letters(t)
<1>1. a \in Seq(Seq(Nat)) /\ x \in Seq(Nat)
  <2>1. \A i \in 1..Len(t) : (IF t[i] = Space THEN <<>> ELSE <<t[i]>>) \in Seq(Nat)
    OBVIOUS
  <2>2. a = [i \in 1..Len(t) |-> IF t[i] = Space THEN <<>> ELSE <<t[i]>>]
    BY DEF Letters
  <2>3. Len(t) \in Nat
    OBVIOUS
  <2> DEFINE Q == Seq(Nat)
             y(i) == IF t[i] = Space THEN <<>> ELSE <<t[i]>>
  <2>4. \A i \in 1..Len(t) : y(i) \in Q
    BY <2>1
  <2> HIDE DEF Q, y, a
  <2>5. [i \in 1..Len(t) |-> y(i)] \in Seq(Q)
    BY <2>3, <2>4
  <2>6. a \in Seq(Q)
    BY <2>2, <2>5 DEF y
  <2>7. QED
    BY <2>6 DEF Q
<1>2. Letters(Append(t, c)) = Append(a, x)
  BY DEF Letters
<1> HIDE DEF a
<1>3. FlattenSeq(Append(a, x)) = FlattenSeq(a) \o x /\ FlattenSeq(a) \in Seq(Nat)
  <2> HIDE DEF x
  <2>1. QED
    BY <1>1, FlattenAppend
<1> DEFINE b == FlattenSeq(a)
<1>4. b \in Seq(Nat) /\ b \o <<>> = b /\ b \o <<c>> = Append(b, c)
  <2>1. b \in Seq(Nat)
    BY <1>3
  <2> HIDE DEF b
  <2>2. QED
    BY <2>1
<1> HIDE DEF b
<1>5. b \o x = IF c = Space THEN b ELSE Append(b, c)
  BY <1>4
<1>6. NoSpaces(t) = b /\ NoSpaces(Append(t, c)) = b \o x
  <2> HIDE DEF x
  <2>1. QED
    BY <1>2, <1>3 DEF NoSpaces, a, b
<1>7. QED
  BY <1>4, <1>5, <1>6

\* Nothing.
LEMMA NoSpacesEmpty == NoSpaces(<<>>) = <<>> /\ NoSpaces(<<Space>>) = <<>>
<1>1. NoSpaces(<<>>) = <<>>
  <2>1. Letters(<<>>) = <<>>
    BY DEF Letters
  <2>2. QED
    BY <2>1 DEF NoSpaces, FlattenSeq
<1>2. NoSpaces(Append(<<>>, Space)) = NoSpaces(<<>>)
  <2>1. <<>> \in Seq(Nat) /\ Space \in Nat
    BY DEF Space
  <2>2. QED
    BY <2>1, NoSpacesAppend
<1>3. QED
  BY <1>1, <1>2

\* A text of no spaces.
LEMMA NoSpacesOfWord == ASSUME NEW u \in Seq(Nat \ {Space}) PROVE NoSpaces(u) = u
<1> DEFINE S == Nat \ {Space}
           G == {t \in Seq(S) : NoSpaces(t) = t}
<1>1. <<>> \in G
  BY NoSpacesEmpty
<1>2. ASSUME NEW s \in Seq(S), NEW x \in S, s \in G PROVE Append(s, x) \in G
  <2>1. s \in Seq(Nat) /\ x \in Nat /\ x # Space
    BY <1>2
  <2>2. NoSpaces(Append(s, x)) = Append(NoSpaces(s), x)
    BY <2>1, NoSpacesAppend
  <2>3. QED
    BY <1>2, <2>2
<1>3. u \in G
  <2> HIDE DEF G
  <2>1. u \in Seq(S)
    OBVIOUS
  <2> HIDE DEF S
  <2>2. QED
    BY <1>1, <1>2, <2>1, SeqInduction
<1>4. QED
  BY <1>3

\* One element more, behind two sequences.
LEMMA AppendConcat ==
    ASSUME NEW a \in Seq(Nat), NEW b \in Seq(Nat), NEW x \in Nat
    PROVE  Append(a \o b, x) = a \o Append(b, x)
<1> DEFINE u == Append(a \o b, x)
           v == a \o Append(b, x)
<1>1. u \in Seq(Nat) /\ v \in Seq(Nat) /\ Len(u) = Len(v) /\ Len(u) = Len(a) + Len(b) + 1
  OBVIOUS
<1>2. \A i \in 1..Len(u) : u[i] = v[i]
  BY <1>1
<1> HIDE DEF u, v
<1>3. u = v
  BY <1>1, <1>2, SeqEqual
<1>4. QED
  BY <1>3 DEF u, v

\* One text after the other.
LEMMA NoSpacesConcat ==
    ASSUME NEW s \in Seq(Nat), NEW u \in Seq(Nat)
    PROVE  NoSpaces(s \o u) = NoSpaces(s) \o NoSpaces(u)
<1> DEFINE G == {t \in Seq(Nat) : NoSpaces(s \o t) = NoSpaces(s) \o NoSpaces(t)}
<1>1. <<>> \in G
  <2>1. s \o <<>> = s /\ NoSpaces(s) \in Seq(Nat)
    BY NoSpacesAppend
  <2>2. QED
    BY <2>1, NoSpacesEmpty
<1>2. ASSUME NEW t \in Seq(Nat), NEW x \in Nat, t \in G PROVE Append(t, x) \in G
  <2>1. s \o Append(t, x) = Append(s \o t, x) /\ s \o t \in Seq(Nat)
    OBVIOUS
  <2>2. /\ NoSpaces(Append(s \o t, x))
             = IF x = Space THEN NoSpaces(s \o t) ELSE Append(NoSpaces(s \o t), x)
        /\ NoSpaces(Append(t, x)) = IF x = Space THEN NoSpaces(t) ELSE Append(NoSpaces(t), x)
        /\ NoSpaces(s) \in Seq(Nat) /\ NoSpaces(t) \in Seq(Nat)
    BY <2>1, NoSpacesAppend
  <2> DEFINE a == NoSpaces(s)
             b == NoSpaces(t)
  <2>3. Append(a \o b, x) = a \o Append(b, x)
    <3>1. a \in Seq(Nat) /\ b \in Seq(Nat)
      BY <2>2
    <3> HIDE DEF a, b
    <3>2. QED
      BY <3>1, AppendConcat
  <2>4. NoSpaces(s \o t) = a \o b
    BY <1>2
  <2> HIDE DEF a, b
  <2>5. NoSpaces(Append(s \o t, x)) = a \o NoSpaces(Append(t, x))
    BY <2>2, <2>3, <2>4 DEF a, b
  <2> DEFINE v == Append(t, x)
  <2>6. v \in Seq(Nat) /\ s \o v = Append(s \o t, x)
    BY <2>1
  <2> HIDE DEF v
  <2>7. NoSpaces(s \o v) = NoSpaces(s) \o NoSpaces(v)
    BY <2>5, <2>6 DEF a, v
  <2>8. QED
    BY <2>6, <2>7 DEF v
<1>3. u \in G
  <2> HIDE DEF G
  <2>1. QED
    BY <1>1, <1>2, SeqInduction
<1>4. QED
  BY <1>3

\* Texts, joined, when each is known without its spaces.
LEMMA NoSpacesFlat ==
    ASSUME NEW s \in Seq(Seq(Nat)), NEW r, r = [i \in 1..Len(s) |-> NoSpaces(s[i])]
    PROVE  NoSpaces(FlattenSeq(s)) = FlattenSeq(r)
<1> DEFINE Q == Seq(Nat)
           Each(t) == [i \in 1..Len(t) |-> NoSpaces(t[i])]
           G == {t \in Seq(Q) : NoSpaces(FlattenSeq(t)) = FlattenSeq(Each(t))}
<1>0. \A t \in Q : NoSpaces(t) \in Q
  <2>1. 0 \in Nat
    OBVIOUS
  <2>2. QED
    BY <2>1, NoSpacesAppend
<1>1. <<>> \in G
  <2>1. Each(<<>>) = <<>> /\ FlattenSeq(<<>>) = <<>> /\ <<>> \in Seq(Q)
    BY DEF FlattenSeq
  <2> HIDE DEF Each
  <2>2. QED
    BY <2>1, NoSpacesEmpty
<1>2. ASSUME NEW t \in Seq(Q), NEW x \in Q, t \in G PROVE Append(t, x) \in G
  <2>1. Each(Append(t, x)) = Append(Each(t), NoSpaces(x))
    <3> HIDE DEF Q
    <3>1. QED
      OBVIOUS
  <2>2. Each(t) \in Seq(Q) /\ NoSpaces(x) \in Q /\ Append(t, x) \in Seq(Q)
    <3>1. \A i \in 1..Len(t) : NoSpaces(t[i]) \in Q
      BY <1>0
    <3> HIDE DEF Q
    <3>2. QED
      BY <1>0, <3>1
  <2> HIDE DEF Each
  <2>3. /\ FlattenSeq(Append(t, x)) = FlattenSeq(t) \o x
        /\ FlattenSeq(t) \in Q
    BY FlattenAppend
  <2>4. FlattenSeq(Append(Each(t), NoSpaces(x))) = FlattenSeq(Each(t)) \o NoSpaces(x)
    BY <2>2, FlattenAppend
  <2>5. NoSpaces(FlattenSeq(t) \o x) = NoSpaces(FlattenSeq(t)) \o NoSpaces(x)
    BY <2>3, NoSpacesConcat
  <2>6. NoSpaces(FlattenSeq(t)) = FlattenSeq(Each(t))
    BY <1>2
  <2>7. NoSpaces(FlattenSeq(Append(t, x))) = FlattenSeq(Each(Append(t, x)))
    BY <2>1, <2>3, <2>4, <2>5, <2>6
  <2>8. QED
    BY <2>2, <2>7
<1>3. s \in G
  <2> HIDE DEF G
  <2>1. s \in Seq(Q)
    OBVIOUS
  <2> HIDE DEF Q
  <2>2. QED
    BY <1>1, <1>2, <2>1, SeqInduction
<1>4. QED
  BY <1>3

\* What split_mnemonic_words has after a character: the words that ended, and one
\* that goes on.
Reading == [ret : Seq(Seq(Nat)), word : Seq(Nat)]

\* One character more.
ReadNext(x, c) ==
    IF c = Space THEN [ret |-> Append(x.ret, x.word), word |-> <<>>]
    ELSE [ret |-> x.ret, word |-> Append(x.word, c)]

\* The characters read so far, without the spaces.
LEMMA ReadNextIs ==
    ASSUME NEW x \in Reading, NEW c \in Nat
    PROVE  LET y == ReadNext(x, c)
               u == FlattenSeq(x.ret) \o x.word
           IN  /\ y \in Reading
               /\ FlattenSeq(y.ret) \o y.word = IF c = Space THEN u ELSE Append(u, c)
<1> DEFINE Q == Seq(Nat)
           a == x.ret
           b == x.word
           u == FlattenSeq(a) \o b
           y == ReadNext(x, c)
<1>0. a \in Seq(Q) /\ b \in Q /\ <<>> \in Q
  BY DEF Reading
<1>1. FlattenSeq(Append(a, b)) = u /\ FlattenSeq(a) \in Q
  <2> HIDE DEF a, b
  <2>1. QED
    BY <1>0, FlattenAppend
<1>2. CASE c = Space
  <2>1. y = [ret |-> Append(a, b), word |-> <<>>]
    BY <1>2 DEF ReadNext
  <2> HIDE DEF a, b, y
  <2>2. u \in Q
    BY <1>0, <1>1
  <2>3. u \o <<>> = u
    <3> HIDE DEF u
    <3>1. QED
      BY <2>2
  <2>4. Append(a, b) \in Seq(Q)
    <3> HIDE DEF Q
    <3>1. QED
      BY <1>0
  <2>5. y \in Reading /\ y.ret = Append(a, b) /\ y.word = <<>>
    <3> HIDE DEF Q
    <3>1. Reading = [ret : Seq(Q), word : Q]
      BY DEF Reading, Q
    <3>2. QED
      BY <1>0, <2>1, <2>4, <3>1
  <2> HIDE DEF u
  <2>6. FlattenSeq(y.ret) \o y.word = u
    BY <1>1, <2>3, <2>5
  <2>7. QED
    BY <1>2, <2>5, <2>6 DEF y, u, a, b
<1>3. CASE c # Space
  <2>1. y = [ret |-> a, word |-> Append(b, c)]
    BY <1>3 DEF ReadNext
  <2> HIDE DEF a, b, y
  <2>2. Append(b, c) \in Q
    BY <1>0
  <2>3. y \in Reading /\ y.ret = a /\ y.word = Append(b, c)
    <3> HIDE DEF Q
    <3>1. Reading = [ret : Seq(Q), word : Q]
      BY DEF Reading, Q
    <3>2. QED
      BY <1>0, <2>1, <2>2, <3>1
  <2>4. FlattenSeq(a) \o Append(b, c) = Append(FlattenSeq(a) \o b, c)
    BY <1>0, <1>1, AppendConcat
  <2>5. QED
    BY <1>3, <2>3, <2>4 DEF y, a, b
<1>4. QED
  BY <1>2, <1>3

\* The words of a text, one after the other, are the text without its spaces.
LEMMA SplitNoSpaces ==
    ASSUME NEW t \in Seq(Nat)
    PROVE  mnemonic_to_seed(split_mnemonic_words(t)) = NoSpaces(t)
<1> DEFINE n == Len(t)
           s0 == [ret |-> <<>>, word |-> <<>>]
           Is(f) == f = [k \in 0..n |->
                           IF k = 0 THEN [ret |-> <<>>, word |-> <<>>]
                           ELSE IF t[k] = Space
                                THEN [ret |-> Append(f[k - 1].ret, f[k - 1].word), word |-> <<>>]
                                ELSE [ret |-> f[k - 1].ret, word |-> Append(f[k - 1].word, t[k])]]
           read == CHOOSE f : Is(f)
           end == read[n]
<1>1. split_mnemonic_words(t) = Append(end.ret, end.word)
  BY DEF split_mnemonic_words, WordsUpTo
<1>2. n \in Nat /\ \A k \in 1..n : t[k] \in Nat
  OBVIOUS
<1>3. s0 \in Reading
  BY DEF Reading
<1> HIDE DEF n
<1>4. PICK w : /\ w \in [0..n -> Reading] /\ w[0] = s0
               /\ \A k \in 1..n : w[k] = ReadNext(w[k - 1], t[k])
  <2> DEFINE step == [x \in Reading \X (1..n) |-> ReadNext(x[1], t[x[2]])]
  <2>1. \A x \in Reading, k \in 1..n : ReadNext(x, t[k]) \in Reading
    BY <1>2, ReadNextIs
  <2>2. /\ step \in [Reading \X (1..n) -> Reading]
        /\ \A x \in Reading, k \in 1..n : step[<<x, k>>] = ReadNext(x, t[k])
    BY <2>1
  <2> HIDE DEF step, s0
  <2>3. PICK w : IsRun(w, n, Reading, s0, step)
    BY <1>2, <1>3, <2>2, RunExists
  <2>4. w \in [0..n -> Reading] /\ w[0] = s0 /\ \A k \in 1..n : w[k] = step[<<w[k - 1], k>>]
    BY <2>3 DEF IsRun
  <2>5. \A k \in 1..n : w[k - 1] \in Reading
    BY <1>2, <2>4
  <2>6. QED
    BY <2>2, <2>4, <2>5
<1>5. Is(w)
  <2>1. ASSUME NEW k \in 0..n
        PROVE  w[k] = IF k = 0 THEN [ret |-> <<>>, word |-> <<>>]
                      ELSE IF t[k] = Space
                           THEN [ret |-> Append(w[k - 1].ret, w[k - 1].word), word |-> <<>>]
                           ELSE [ret |-> w[k - 1].ret, word |-> Append(w[k - 1].word, t[k])]
    <3>1. CASE k = 0
      BY <1>4, <3>1
    <3>2. CASE k # 0
      <4>1. k \in 1..n
        BY <1>2, <3>2
      <4>2. w[k] = ReadNext(w[k - 1], t[k])
        BY <1>4, <4>1
      <4>3. QED
        BY <3>2, <4>2 DEF ReadNext
    <3>3. QED
      BY <3>1, <3>2
  <2>2. w = [k \in 0..n |-> w[k]]
    BY <1>4
  <2>3. QED
    BY <2>1, <2>2
<1>6. Is(read)
  <2> HIDE DEF Is
  <2>1. QED
    BY <1>5
<1> HIDE DEF read
<1>7. read[0] = s0 /\ \A k \in 1..n : read[k] = ReadNext(read[k - 1], t[k])
  <2>1. \A k \in 0..n : read[k] = IF k = 0 THEN [ret |-> <<>>, word |-> <<>>]
           ELSE IF t[k] = Space
                THEN [ret |-> Append(read[k - 1].ret, read[k - 1].word), word |-> <<>>]
                ELSE [ret |-> read[k - 1].ret, word |-> Append(read[k - 1].word, t[k])]
    BY <1>6
  <2>2. read[0] = s0
    <3>1. 0 \in 0..n
      BY <1>2
    <3>2. QED
      BY <2>1, <3>1
  <2>3. ASSUME NEW k \in 1..n PROVE read[k] = ReadNext(read[k - 1], t[k])
    <3>1. k \in 0..n /\ k # 0
      BY <1>2
    <3>2. QED
      BY <2>1, <3>1 DEF ReadNext
  <2>4. QED
    BY <2>2, <2>3
<1> HIDE DEF Is
<1> DEFINE u(k) == SubSeq(t, 1, k)
           Done(k) == /\ read[k] \in Reading
                      /\ FlattenSeq(read[k].ret) \o read[k].word = NoSpaces(u(k))
           G == {k \in 0..n : Done(k)}
<1>8. /\ u(0) = <<>> /\ u(n) = t
      /\ \A k \in 0..n : k < n => u(k) \in Seq(Nat) /\ u(k + 1) = Append(u(k), t[k + 1])
  BY Prefix DEF n
<1> HIDE DEF u
<1>9. 0 \in G
  <2>1. s0.ret = <<>> /\ s0.word = <<>> /\ FlattenSeq(<<>>) = <<>> /\ <<>> \o <<>> = <<>>
    BY DEF FlattenSeq
  <2>2. read[0] = s0 /\ u(0) = <<>> /\ NoSpaces(<<>>) = <<>> /\ 0 \in 0..n
    BY <1>2, <1>7, <1>8, NoSpacesEmpty
  <2> HIDE DEF s0
  <2>3. FlattenSeq(s0.ret) \o s0.word = <<>>
    BY <2>1
  <2>4. Done(0)
    BY <1>3, <2>2, <2>3
  <2>5. QED
    BY <2>2, <2>4
<1>10. ASSUME NEW k \in G, k < n PROVE k + 1 \in G
  <2>1. k \in 0..n /\ Done(k)
    OBVIOUS
  <2>2. k + 1 \in 1..n /\ k + 1 \in 0..n /\ (k + 1) - 1 = k /\ t[k + 1] \in Nat
    BY <1>2, <1>10, <2>1
  <2> DEFINE x == read[k]
             y == read[k + 1]
             c == t[k + 1]
             v == FlattenSeq(x.ret) \o x.word
  <2>3. y = ReadNext(x, c) /\ x \in Reading /\ v = NoSpaces(u(k))
    BY <1>7, <2>1, <2>2
  <2> HIDE DEF x, y, c
  <2>4. y \in Reading /\ FlattenSeq(y.ret) \o y.word = IF c = Space THEN v ELSE Append(v, c)
    BY <2>2, <2>3, ReadNextIs DEF c
  <2> HIDE DEF v
  <2>5. NoSpaces(u(k + 1)) = IF c = Space THEN v ELSE Append(v, c)
    <3>1. u(k) \in Seq(Nat) /\ u(k + 1) = Append(u(k), c) /\ c \in Nat
      BY <1>8, <1>10, <2>1, <2>2 DEF c
    <3>2. NoSpaces(Append(u(k), c))
            = IF c = Space THEN NoSpaces(u(k)) ELSE Append(NoSpaces(u(k)), c)
      BY <3>1, NoSpacesAppend
    <3>3. QED
      BY <2>3, <3>1, <3>2
  <2>6. Done(k + 1)
    BY <2>4, <2>5 DEF y
  <2>7. QED
    BY <2>2, <2>6
<1>11. n \in G
  <2> HIDE DEF G
  <2>1. G \subseteq 0..n
    BY DEF G
  <2>2. G = 0..n
    BY <1>2, <1>9, <1>10, <2>1, InductionUpTo
  <2>3. QED
    BY <1>2, <2>2
<1>12. Done(n)
  BY <1>11
<1>13. FlattenSeq(Append(end.ret, end.word)) = FlattenSeq(end.ret) \o end.word
  <2>1. end.ret \in Seq(Seq(Nat)) /\ end.word \in Seq(Nat)
    BY <1>12 DEF Reading
  <2> HIDE DEF end
  <2>2. QED
    BY <2>1, FlattenAppend
<1>14. QED
  BY <1>1, <1>8, <1>12, <1>13 DEF mnemonic_to_seed

\* What the screen shows, typed in, gives the same seed.
LEMMA CombinedReadsBack ==
    ASSUME NEW words \in Seq(Seq(Nat \ {Space}))
    PROVE  mnemonic_to_seed(split_mnemonic_words(combined_mnemonic(words)))
               = mnemonic_to_seed(words)
<1> DEFINE n == Len(words)
           sep(i) == IF words[i] # Last(words) THEN <<Space>> ELSE <<>>
           s == [i \in 1..n |-> words[i] \o sep(i)]
           Q == Seq(Nat)
<1>1. n \in Nat /\ DOMAIN words = 1..n
  OBVIOUS
<1>2. combined_mnemonic(words) = FlattenSeq(s)
  BY <1>1 DEF combined_mnemonic
<1>3. ASSUME NEW i \in 1..n
      PROVE  words[i] \o sep(i) \in Q /\ NoSpaces(words[i] \o sep(i)) = words[i]
  <2>1. words[i] \in Seq(Nat \ {Space}) /\ words[i] \in Q
    OBVIOUS
  <2>2. sep(i) \in Q /\ NoSpaces(sep(i)) = <<>>
    <3>1. <<Space>> \in Q /\ <<>> \in Q
      BY DEF Space
    <3> HIDE DEF Q
    <3>2. QED
      BY <3>1, NoSpacesEmpty
  <2> DEFINE a == words[i]
             b == sep(i)
  <2>3. NoSpaces(a) = a
    BY <2>1, NoSpacesOfWord
  <2> HIDE DEF a, b, sep
  <2>4. a \in Q /\ b \in Q
    BY <2>1, <2>2 DEF a, b
  <2>5. a \o b \in Q /\ a \o <<>> = a
    BY <2>4
  <2>6. NoSpaces(a \o b) = NoSpaces(a) \o NoSpaces(b)
    BY <2>4, NoSpacesConcat
  <2>7. QED
    BY <2>2, <2>3, <2>5, <2>6 DEF a, b
<1> HIDE DEF n, sep
<1>4. s \in Seq(Q) /\ Len(s) = n /\ \A i \in 1..n : NoSpaces(s[i]) = words[i]
  <2> HIDE DEF Q
  <2>1. QED
    BY <1>1, <1>3
<1> HIDE DEF s
<1>5. words = [i \in 1..Len(s) |-> NoSpaces(s[i])]
  <2>1. words = [i \in 1..n |-> words[i]]
    BY <1>1
  <2>2. QED
    BY <1>4, <2>1
<1>6. NoSpaces(FlattenSeq(s)) = FlattenSeq(words)
  BY <1>4, <1>5, NoSpacesFlat
<1>7. FlattenSeq(s) \in Seq(Nat)
  <2>1. s \in Seq(Seq(Nat)) /\ <<>> \in Seq(Nat)
    BY <1>4
  <2>2. QED
    BY <2>1, FlattenAppend
<1>8. mnemonic_to_seed(split_mnemonic_words(FlattenSeq(s))) = NoSpaces(FlattenSeq(s))
  BY <1>7, SplitNoSpaces
<1>9. QED
  BY <1>2, <1>6, <1>8 DEF mnemonic_to_seed

-----------------------------------------------------------------------------
(* The word list. *)

\* Of two words not both are less.
LEMMA LessAsymmetric ==
    ASSUME NEW u \in Seq(Nat), NEW v \in Seq(Nat), Less(u, v)
    PROVE  ~Less(v, u)
<1> DEFINE m == Min({Len(u), Len(v)})
           d == {k \in 1..m : u[k] # v[k]}
           x == Min(d)
<1>1. {Len(v), Len(u)} = {Len(u), Len(v)} /\ {k \in 1..m : v[k] # u[k]} = d
  OBVIOUS
<1>2. Less(u, v) <=> (IF d = {} THEN Len(u) < Len(v) ELSE u[x] < v[x])
  BY DEF Less
<1>3. Less(v, u) <=> (IF d = {} THEN Len(v) < Len(u) ELSE v[x] < u[x])
  BY <1>1 DEF Less
<1>4. Len(u) \in Nat /\ Len(v) \in Nat
  OBVIOUS
<1>5. m \in Nat /\ m <= Len(u) /\ m <= Len(v)
  <2> DEFINE T == {Len(u), Len(v)}
  <2>1. T \in SUBSET Nat /\ T # {}
    BY <1>4
  <2>2. \E y \in T : \A z \in T : y <= z
    <3> HIDE DEF T
    <3>1. QED
      BY <2>1, LeastNumber
  <2>3. m \in T /\ \A z \in T : m <= z
    <3> HIDE DEF T
    <3>1. Min(T) \in T /\ \A z \in T : Min(T) <= z
      BY <2>2 DEF Min
    <3>2. QED
      BY <3>1 DEF T
  <2>4. QED
    BY <1>4, <2>3
<1>6. d # {} => x \in 1..m
  <2> HIDE DEF m
  <2>1. d \in SUBSET Nat /\ d \subseteq 1..m
    BY <1>5
  <2> HIDE DEF d
  <2>2. d # {} => \E y \in d : \A z \in d : y <= z
    BY <2>1, LeastNumber
  <2>3. d # {} => x \in d
    BY <2>2 DEF Min
  <2>4. QED
    BY <2>1, <2>3
<1> HIDE DEF m, d, x
<1>7. CASE d = {}
  BY <1>2, <1>3, <1>4, <1>7
<1>8. CASE d # {}
  <2>1. x \in 1..Len(u) /\ x \in 1..Len(v)
    BY <1>4, <1>5, <1>6, <1>8
  <2>2. u[x] \in Nat /\ v[x] \in Nat
    BY <2>1
  <2>3. QED
    BY <1>2, <1>3, <1>8, <2>2
<1>9. QED
  BY <1>7, <1>8

\* Nor one less than itself: the words of the list stand in order.
LEMMA InOrder ==
    /\ Dictionary \in Seq(Seq(Nat \ {Space})) /\ Len(Dictionary) \in Nat /\ Len(Dictionary) > 0
    /\ \A i, j \in 1..Len(Dictionary) : Less(Dictionary[i], Dictionary[j]) <=> i < j
<1>1. /\ Dictionary \in Seq(Seq(Nat \ {Space})) /\ Dictionary # <<>>
      /\ \A i, j \in DOMAIN Dictionary : i < j => Less(Dictionary[i], Dictionary[j])
  BY DictionaryAssumption DEF IsWordList
<1>2. /\ Len(Dictionary) \in Nat /\ Len(Dictionary) > 0 /\ DOMAIN Dictionary = 1..Len(Dictionary)
  BY <1>1
<1>3. \A i \in 1..Len(Dictionary) : Dictionary[i] \in Seq(Nat)
  <2> SUFFICES ASSUME NEW i \in 1..Len(Dictionary) PROVE Dictionary[i] \in Seq(Nat)
    OBVIOUS
  <2>1. Dictionary[i] \in Seq(Nat \ {Space})
    BY <1>1
  <2>2. QED
    BY <2>1
<1>4. ASSUME NEW i \in 1..Len(Dictionary), NEW j \in 1..Len(Dictionary)
      PROVE  Less(Dictionary[i], Dictionary[j]) <=> i < j
  <2>1. Dictionary[i] \in Seq(Nat) /\ Dictionary[j] \in Seq(Nat)
    BY <1>3
  <2>2. CASE i < j
    BY <1>1, <1>2, <2>2
  <2>3. CASE i = j
    BY <2>1, <2>3, LessAsymmetric
  <2>4. CASE j < i
    <3>1. Less(Dictionary[j], Dictionary[i])
      BY <1>1, <1>2, <2>4
    <3>2. QED
      BY <2>1, <2>4, <3>1, LessAsymmetric
  <2>5. QED
    BY <2>2, <2>3, <2>4
<1>5. QED
  BY <1>1, <1>2, <1>4

\* What the search of lower_bound makes of a range, from the smaller ones.
SearchStep(f, word, a, k) ==
    IF k = 0 THEN a
    ELSE IF Less(Dictionary[a + k \div 2], word)
         THEN f[<<a + k \div 2 + 1, k - k \div 2 - 1>>]
         ELSE f[<<a, k \div 2>>]

\* A search of ranges of up to c words.
IsSearch(f, word, c) ==
    /\ f \in [Nat \X (0..c) -> Nat]
    /\ \A a \in Nat, k \in 0..c : f[<<a, k>>] = SearchStep(f, word, a, k)

\* Each half is shorter.
LEMMA Halves ==
    ASSUME NEW a \in Nat, NEW k \in Nat, k # 0
    PROVE  /\ k \div 2 \in 0..(k - 1) /\ k - k \div 2 - 1 \in 0..(k - 1)
           /\ a + k \div 2 \in Nat /\ a + k \div 2 + 1 \in Nat
           /\ (a + k \div 2 + 1) + (k - k \div 2 - 1) = a + k
OBVIOUS

\* There is one.
LEMMA SearchExists ==
    ASSUME NEW n \in Nat, NEW word
    PROVE  \E f : IsSearch(f, word, n)
<1> DEFINE G == {c \in 0..n : \E f : IsSearch(f, word, c)}
<1>1. 0 \in G
  <2> DEFINE f == [x \in Nat \X (0..0) |-> x[1]]
  <2>1. f \in [Nat \X (0..0) -> Nat] /\ \A a \in Nat, k \in 0..0 : f[<<a, k>>] = a /\ k = 0
    OBVIOUS
  <2> HIDE DEF f
  <2>2. IsSearch(f, word, 0)
    BY <2>1 DEF IsSearch, SearchStep
  <2>3. QED
    BY <2>2
<1>2. ASSUME NEW c \in G, c < n PROVE c + 1 \in G
  <2>1. PICK f : IsSearch(f, word, c)
    OBVIOUS
  <2>2. c \in Nat /\ c + 1 \in 0..n
    BY <1>2
  <2> DEFINE X == Nat \X (0..(c + 1))
             g == [x \in X |-> IF x[2] <= c THEN f[x] ELSE SearchStep(f, word, x[1], x[2])]
  <2>3. ASSUME NEW a \in Nat, NEW k \in 0..c PROVE f[<<a, k>>] \in Nat
    BY <2>1 DEF IsSearch
  <2>4. ASSUME NEW a \in Nat PROVE SearchStep(f, word, a, c + 1) \in Nat
    <3> DEFINE k == c + 1
    <3>1. /\ k # 0 /\ k \div 2 \in 0..c /\ k - k \div 2 - 1 \in 0..c /\ a + k \div 2 + 1 \in Nat
      BY <2>2, Halves
    <3> HIDE DEF k
    <3>2. f[<<a + k \div 2 + 1, k - k \div 2 - 1>>] \in Nat /\ f[<<a, k \div 2>>] \in Nat
      BY <2>3, <3>1
    <3>3. SearchStep(f, word, a, k) \in Nat
      BY <3>1, <3>2 DEF SearchStep
    <3>4. QED
      BY <3>3 DEF k
  <2>5. /\ \A a \in Nat, k \in 0..c : g[<<a, k>>] = f[<<a, k>>]
        /\ \A a \in Nat : g[<<a, c + 1>>] = SearchStep(f, word, a, c + 1)
    <3>1. ASSUME NEW a \in Nat, NEW k \in 0..c PROVE g[<<a, k>>] = f[<<a, k>>]
      <4>1. <<a, k>> \in X /\ k <= c
        BY <2>2
      <4>2. QED
        BY <4>1
    <3>2. ASSUME NEW a \in Nat PROVE g[<<a, c + 1>>] = SearchStep(f, word, a, c + 1)
      <4>1. <<a, c + 1>> \in X /\ ~(c + 1 <= c)
        BY <2>2
      <4>2. QED
        BY <4>1
    <3>3. QED
      BY <3>1, <3>2
  <2>6. g \in [X -> Nat]
    <3>1. ASSUME NEW x \in X
          PROVE  (IF x[2] <= c THEN f[x] ELSE SearchStep(f, word, x[1], x[2])) \in Nat
      <4>1. x = <<x[1], x[2]>> /\ x[1] \in Nat /\ x[2] \in 0..(c + 1)
        OBVIOUS
      <4>2. x[2] \in 0..c \/ (x[2] = c + 1 /\ ~(x[2] <= c))
        BY <2>2, <4>1
      <4>3. QED
        BY <2>3, <2>4, <4>1, <4>2
    <3>2. QED
      BY <3>1
  <2> HIDE DEF g
  <2>7. ASSUME NEW a \in Nat, NEW k \in 0..(c + 1)
        PROVE  g[<<a, k>>] = SearchStep(g, word, a, k)
    <3>1. SearchStep(g, word, a, k) = SearchStep(f, word, a, k)
      <4>1. CASE k = 0
        BY <4>1 DEF SearchStep
      <4>2. CASE k # 0
        <5>1. k \div 2 \in 0..c /\ k - k \div 2 - 1 \in 0..c /\ a + k \div 2 + 1 \in Nat
          BY <2>2, <4>2, Halves
        <5>2. /\ g[<<a + k \div 2 + 1, k - k \div 2 - 1>>] = f[<<a + k \div 2 + 1, k - k \div 2 - 1>>]
              /\ g[<<a, k \div 2>>] = f[<<a, k \div 2>>]
          BY <2>5, <5>1
        <5>3. QED
          BY <4>2, <5>2 DEF SearchStep
      <4>3. QED
        BY <4>1, <4>2
    <3>2. CASE k = c + 1
      BY <2>5, <3>1, <3>2
    <3>3. CASE k # c + 1
      <4>1. k \in 0..c
        BY <2>2, <3>3
      <4>2. f[<<a, k>>] = SearchStep(f, word, a, k)
        BY <2>1, <4>1 DEF IsSearch
      <4>3. QED
        BY <2>5, <3>1, <4>1, <4>2
    <3>4. QED
      BY <3>2, <3>3
  <2>8. IsSearch(g, word, c + 1)
    BY <2>6, <2>7 DEF IsSearch
  <2>9. QED
    BY <2>2, <2>8
<1>3. n \in G
  <2> HIDE DEF G
  <2>1. G \subseteq 0..n
    BY DEF G
  <2>2. G = 0..n
    BY <1>1, <1>2, <2>1, InductionUpTo
  <2>3. QED
    BY <2>2
<1>4. QED
  BY <1>3

\* A search ends inside its range; and, when the words before m and only they are
\* less, at m.
LEMMA SearchFinds ==
    ASSUME NEW n \in Nat, NEW word, NEW f, IsSearch(f, word, n)
    PROVE  \A a \in Nat, k \in 0..n : 1 <= a /\ a + k <= n + 1 =>
              /\ a <= f[<<a, k>>] /\ f[<<a, k>>] <= a + k
              /\ \A m \in 1..n : (\A i \in 1..n : Less(Dictionary[i], word) <=> i < m)
                                     /\ a <= m /\ m <= a + k => f[<<a, k>>] = m
<1> DEFINE At(m) == \A i \in 1..n : Less(Dictionary[i], word) <=> i < m
           Good(a, k) == 1 <= a /\ a + k <= n + 1 =>
              /\ a <= f[<<a, k>>] /\ f[<<a, k>>] <= a + k
              /\ \A m \in 1..n : At(m) /\ a <= m /\ m <= a + k => f[<<a, k>>] = m
           T == {k \in 0..n : \E a \in Nat : ~Good(a, k)}
<1>1. SUFFICES ASSUME T # {} PROVE FALSE
  OBVIOUS
<1>2. PICK k \in T : \A y \in T : k <= y
  <2>1. T \in SUBSET Nat
    OBVIOUS
  <2> HIDE DEF T
  <2>2. QED
    BY <1>1, <2>1, LeastNumber
<1>3. k \in 0..n /\ \E a \in Nat : ~Good(a, k)
  OBVIOUS
<1>4. \A j \in 0..n : j < k => \A a \in Nat : Good(a, j)
  <2> HIDE DEF Good
  <2>1. QED
    BY <1>2
<1> HIDE DEF T
<1>5. PICK a \in Nat : ~Good(a, k)
  BY <1>3
<1>6. 1 <= a /\ a + k <= n + 1
  BY <1>5
<1>7. f[<<a, k>>] = SearchStep(f, word, a, k)
  BY <1>3 DEF IsSearch
<1>8. CASE k = 0
  <2>1. f[<<a, k>>] = a
    BY <1>7, <1>8 DEF SearchStep
  <2>2. Good(a, k)
    BY <1>6, <1>8, <2>1
  <2>3. QED
    BY <1>5, <2>2
<1>9. CASE k # 0
  <2> DEFINE h == k \div 2
             b == a + h + 1
             j == k - h - 1
  <2>1. /\ h \in 0..n /\ h < k /\ j \in 0..n /\ j < k /\ b \in Nat /\ b + j = a + k
        /\ 1 <= b /\ a + h <= n + 1 /\ a + h \in 1..n /\ b = a + h + 1 /\ h \in Nat
    BY <1>3, <1>6, <1>9
  <2>2. f[<<a, k>>] = IF Less(Dictionary[a + h], word) THEN f[<<b, j>>] ELSE f[<<a, h>>]
    BY <1>7, <1>9 DEF SearchStep
  <2> HIDE DEF h, b, j
  <2>3. Good(b, j) /\ Good(a, h)
    BY <1>4, <2>1
  <2>4. f[<<b, j>>] \in Nat /\ f[<<a, h>>] \in Nat
    BY <2>1 DEF IsSearch
  <2> HIDE DEF At
  <2>5. CASE Less(Dictionary[a + h], word)
    <3>1. f[<<a, k>>] = f[<<b, j>>]
      BY <2>2, <2>5
    <3> DEFINE x == f[<<b, j>>]
    <3>2. b <= x /\ x <= b + j /\ \A m \in 1..n : At(m) /\ b <= m /\ m <= b + j => x = m
      BY <1>6, <2>1, <2>3
    <3> HIDE DEF x
    <3>3. x \in Nat /\ a <= x /\ x <= a + k
      <4>1. x \in Nat
        BY <2>4 DEF x
      <4>2. QED
        BY <1>3, <2>1, <3>2, <4>1
    <3>4. ASSUME NEW m \in 1..n, At(m), a <= m, m <= a + k PROVE x = m
      <4>1. a + h < m
        BY <2>1, <2>5, <3>4 DEF At
      <4>2. b <= m /\ m <= b + j
        BY <2>1, <3>4, <4>1
      <4>3. QED
        BY <3>2, <3>4, <4>2
    <3>5. Good(a, k)
      BY <3>1, <3>3, <3>4 DEF x
    <3>6. QED
      BY <1>5, <3>5
  <2>6. CASE ~Less(Dictionary[a + h], word)
    <3>1. f[<<a, k>>] = f[<<a, h>>]
      BY <2>2, <2>6
    <3> DEFINE x == f[<<a, h>>]
    <3>2. a <= x /\ x <= a + h /\ \A m \in 1..n : At(m) /\ a <= m /\ m <= a + h => x = m
      BY <1>6, <2>1, <2>3
    <3> HIDE DEF x
    <3>3. x \in Nat /\ a <= x /\ x <= a + k
      <4>1. x \in Nat
        BY <2>4 DEF x
      <4>2. QED
        BY <1>3, <2>1, <3>2, <4>1
    <3>4. ASSUME NEW m \in 1..n, At(m), a <= m, m <= a + k PROVE x = m
      <4>1. m <= a + h
        BY <2>1, <2>6, <3>4 DEF At
      <4>2. QED
        BY <3>2, <3>4, <4>1
    <3>5. Good(a, k)
      BY <3>1, <3>3, <3>4 DEF x
    <3>6. QED
      BY <1>5, <3>5
  <2>7. QED
    BY <2>5, <2>6
<1>10. QED
  BY <1>8, <1>9

\* What lower_bound returns: a position of the list or the one behind it; and the
\* place of a word that the words before it, and only they, are less than.
LEMMA LowerBoundIs ==
    ASSUME NEW word
    PROVE  /\ lower_bound(word) \in 1..(Len(Dictionary) + 1)
           /\ \A m \in 1..Len(Dictionary) :
                 (\A i \in 1..Len(Dictionary) : Less(Dictionary[i], word) <=> i < m)
                     => lower_bound(word) = m
<1> DEFINE n == Len(Dictionary)
           Is(f) == f = [range \in Nat \X (0..Len(Dictionary)) |->
                           IF range[2] = 0 THEN range[1]
                           ELSE IF Less(Dictionary[range[1] + range[2] \div 2], word)
                                THEN f[<<range[1] + range[2] \div 2 + 1,
                                         range[2] - range[2] \div 2 - 1>>]
                                ELSE f[<<range[1], range[2] \div 2>>]]
           search == CHOOSE f : Is(f)
<1>1. lower_bound(word) = search[<<1, n>>]
  BY DEF lower_bound
<1>2. n \in Nat /\ n > 0
  BY InOrder
<1>3. PICK f : IsSearch(f, word, n)
  BY <1>2, SearchExists
<1> HIDE DEF n
<1> DEFINE X == Nat \X (0..n)
<1>4. \A g : Is(g) <=> g = [x \in X |-> SearchStep(g, word, x[1], x[2])]
  BY DEF SearchStep, n
<1> HIDE DEF Is
<1>5. Is(f)
  <2>1. f \in [X -> Nat] /\ \A a \in Nat, k \in 0..n : f[<<a, k>>] = SearchStep(f, word, a, k)
    BY <1>3 DEF IsSearch
  <2>2. ASSUME NEW x \in X PROVE f[x] = SearchStep(f, word, x[1], x[2])
    <3>1. x = <<x[1], x[2]>> /\ x[1] \in Nat /\ x[2] \in 0..n
      OBVIOUS
    <3>2. QED
      BY <2>1, <3>1
  <2> HIDE DEF X
  <2>3. f = [x \in X |-> f[x]]
    BY <2>1
  <2>4. f = [x \in X |-> SearchStep(f, word, x[1], x[2])]
    BY <2>2, <2>3
  <2>5. QED
    BY <1>4, <2>4
<1>6. Is(search)
  BY <1>5
<1> HIDE DEF search
<1>7. IsSearch(search, word, n)
  <2>1. search = [x \in X |-> SearchStep(search, word, x[1], x[2])]
    BY <1>4, <1>6
  <2>2. \A a \in Nat, k \in 0..n : search[<<a, k>>] = SearchStep(search, word, a, k)
    <3> SUFFICES ASSUME NEW a \in Nat, NEW k \in 0..n
                 PROVE  search[<<a, k>>] = SearchStep(search, word, a, k)
      OBVIOUS
    <3> DEFINE x == <<a, k>>
    <3>1. x \in X /\ x[1] = a /\ x[2] = k
      OBVIOUS
    <3> HIDE DEF x, X
    <3>2. search[x] = SearchStep(search, word, x[1], x[2])
      BY <2>1, <3>1
    <3>3. QED
      BY <3>1, <3>2 DEF x
  <2>3. \A x \in X : search[x] = f[x]
    <3> DEFINE T == {k \in 0..n : \E a \in Nat : search[<<a, k>>] # f[<<a, k>>]}
    <3>1. T = {}
      <4>1. SUFFICES ASSUME T # {} PROVE FALSE
        OBVIOUS
      <4>2. PICK k \in T : \A y \in T : k <= y
        <5>1. T \in SUBSET Nat
          OBVIOUS
        <5> HIDE DEF T
        <5>2. QED
          BY <4>1, <5>1, LeastNumber
      <4>3. PICK a \in Nat : search[<<a, k>>] # f[<<a, k>>]
        OBVIOUS
      <4>4. k \in 0..n /\ \A j \in 0..n : j < k => \A b \in Nat : search[<<b, j>>] = f[<<b, j>>]
        BY <4>2
      <4> HIDE DEF T
      <4>5. SearchStep(search, word, a, k) = SearchStep(f, word, a, k)
        <5>1. CASE k = 0
          BY <5>1 DEF SearchStep
        <5>2. CASE k # 0
          <6>1. /\ k \div 2 \in 0..(k - 1) /\ k - k \div 2 - 1 \in 0..(k - 1)
                /\ a + k \div 2 + 1 \in Nat
            BY <4>4, <5>2, Halves
          <6>2. /\ k \div 2 \in 0..n /\ k \div 2 < k
                /\ k - k \div 2 - 1 \in 0..n /\ k - k \div 2 - 1 < k
            BY <1>2, <4>4, <6>1
          <6>3. /\ search[<<a + k \div 2 + 1, k - k \div 2 - 1>>]
                      = f[<<a + k \div 2 + 1, k - k \div 2 - 1>>]
                /\ search[<<a, k \div 2>>] = f[<<a, k \div 2>>]
            BY <4>4, <6>1, <6>2
          <6>4. QED
            BY <5>2, <6>3 DEF SearchStep
        <5>3. QED
          BY <5>1, <5>2
      <4>6. f[<<a, k>>] = SearchStep(f, word, a, k)
        BY <1>3, <4>4 DEF IsSearch
      <4>7. QED
        BY <2>2, <4>3, <4>4, <4>5, <4>6
    <3>2. \A a \in Nat, k \in 0..n : search[<<a, k>>] = f[<<a, k>>]
      BY <3>1
    <3> HIDE DEF T
    <3>3. ASSUME NEW x \in X PROVE search[x] = f[x]
      <4>1. x = <<x[1], x[2]>> /\ x[1] \in Nat /\ x[2] \in 0..n
        OBVIOUS
      <4>2. QED
        BY <3>2, <4>1
    <3>4. QED
      BY <3>3
  <2>4. search \in [X -> Nat]
    <3>1. f \in [X -> Nat]
      BY <1>3 DEF IsSearch
    <3> HIDE DEF X
    <3>2. \A x \in X : SearchStep(search, word, x[1], x[2]) \in Nat
      BY <2>1, <2>3, <3>1
    <3>3. QED
      BY <2>1, <3>2
  <2>5. QED
    BY <2>2, <2>4 DEF IsSearch
<1>8. 1 \in Nat /\ n \in 0..n /\ 1 <= 1 /\ 1 + n <= n + 1
  BY <1>2
<1>9. /\ 1 <= search[<<1, n>>] /\ search[<<1, n>>] <= 1 + n
      /\ \A m \in 1..n : (\A i \in 1..n : Less(Dictionary[i], word) <=> i < m)
                             /\ 1 <= m /\ m <= 1 + n => search[<<1, n>>] = m
  BY <1>2, <1>7, <1>8, SearchFinds
<1>10. search[<<1, n>>] \in Nat
  BY <1>7, <1>8 DEF IsSearch
<1>11. QED
  BY <1>1, <1>2, <1>9, <1>10 DEF n

\* A word of the list is found, in its place; no other word is.
LEMMA FindIs ==
    /\ \A i \in 1..Len(Dictionary) :
          /\ find_word_index(Dictionary[i]) = i - 1
          /\ word_at(i - 1) = Dictionary[i]
    /\ \A word : (\A i \in 1..Len(Dictionary) : Dictionary[i] # word)
                    => find_word_index(word) = UnknownWord
<1> DEFINE n == Len(Dictionary)
<1>1. n \in Nat /\ n > 0
  BY InOrder
<1>2. ASSUME NEW i \in 1..n
      PROVE  find_word_index(Dictionary[i]) = i - 1 /\ word_at(i - 1) = Dictionary[i]
  <2>1. \A j \in 1..n : Less(Dictionary[j], Dictionary[i]) <=> j < i
    BY InOrder
  <2>2. lower_bound(Dictionary[i]) = i
    BY <2>1, LowerBoundIs
  <2>3. ~(i > n)
    BY <1>1
  <2>4. find_word_index(Dictionary[i]) = i - 1
    BY <2>2, <2>3 DEF find_word_index
  <2>5. ((i - 1) % n) + 1 = i
    BY <1>1
  <2>6. QED
    BY <2>4, <2>5 DEF word_at
<1>3. ASSUME NEW word, \A i \in 1..n : Dictionary[i] # word
      PROVE  find_word_index(word) = UnknownWord
  <2> DEFINE it == lower_bound(word)
  <2>1. it \in 1..(n + 1)
    BY LowerBoundIs
  <2> HIDE DEF it
  <2>2. it > n \/ (it <= n /\ Dictionary[it] # word)
    <3> HIDE DEF n
    <3>1. it > n \/ (it <= n /\ it \in 1..n)
      BY <1>1, <2>1
    <3>2. QED
      BY <1>3, <3>1
  <2>3. QED
    BY <2>2 DEF find_word_index, it
<1>4. QED
  BY <1>2, <1>3

\* The words of a mnemonic are words of the list.
LEMMA GeneratedWords ==
    ASSUME NEW entropy \in Seq(Octet), Len(entropy) \div 4 <= 8,
           NEW checksum \in Octet, NEW random \in Nat
    PROVE  LET words == generate_mnemonic(entropy, checksum, random)
           IN  /\ words \in Seq(Seq(Nat \ {Space}))
               /\ \A i \in 1..Len(words) : \E j \in 1..Len(Dictionary) : words[i] = Dictionary[j]
<1> DEFINE L == Len(entropy)
           b == Append(entropy, checksum)
           size == L * 8 + L \div 4
           n == size \div 11
           indices == bitsplit_11(b, size)
           d == Len(Dictionary)
           a == [i \in 1..n |-> word_at(indices[i])]
           words == Append(a, word_at(random))
           W == Seq(Nat \ {Space})
<1>1. L \in Nat /\ b \in Seq(Octet) /\ Len(b) = L + 1
  OBVIOUS
<1>2. n \in Nat /\ size <= 8 * (L + 1) /\ 11 * n <= size /\ size \in Nat
  BY <1>1
<1>3. d \in Nat /\ d > 0 /\ \A i \in 1..d : Dictionary[i] \in W
  BY InOrder
<1>4. indices = [w \in 1..n |-> BitsFrom(b, 11 * (w - 1))]
  BY DEF bitsplit_11
<1> HIDE DEF L, b, size, n, indices, d, W
<1>5. ASSUME NEW i \in 1..n PROVE indices[i] \in Nat
  <2> DEFINE p == 11 * (i - 1)
  <2>1. p \in Nat /\ p + 11 <= 8 * Len(b)
    BY <1>1, <1>2
  <2>2. indices[i] = BitsFrom(b, p)
    BY <1>4
  <2> HIDE DEF p
  <2>3. QED
    BY <1>1, <2>1, <2>2, BitsFromNumber
<1>6. ASSUME NEW x \in Nat
      PROVE  word_at(x) \in W /\ \E j \in 1..d : word_at(x) = Dictionary[j]
  <2>1. (x % d) + 1 \in 1..d
    BY <1>3
  <2>2. word_at(x) = Dictionary[(x % d) + 1]
    BY DEF word_at, d
  <2>3. QED
    BY <1>3, <2>1, <2>2
<1>7. a \in Seq(W) /\ Len(a) = n /\ \A i \in 1..n : a[i] = word_at(indices[i])
  <2>1. \A i \in 1..n : word_at(indices[i]) \in W
    BY <1>5, <1>6
  <2>2. QED
    BY <1>2, <2>1
<1>8. generate_mnemonic(entropy, checksum, random) = words
  <2>1. DOMAIN indices = 1..n
    BY <1>2, <1>4
  <2>2. QED
    BY <2>1 DEF generate_mnemonic, indices, b, size, L
<1> HIDE DEF a
<1>9. /\ words \in Seq(W) /\ Len(words) = n + 1
      /\ words[n + 1] = word_at(random) /\ \A i \in 1..n : words[i] = a[i]
  <2> DEFINE x == word_at(random)
  <2>1. x \in W
    BY <1>6
  <2> HIDE DEF x
  <2>2. /\ Append(a, x) \in Seq(W) /\ Len(Append(a, x)) = n + 1
        /\ Append(a, x)[n + 1] = x /\ \A i \in 1..n : Append(a, x)[i] = a[i]
    BY <1>2, <1>7, <2>1
  <2>3. QED
    BY <2>2 DEF x
<1> HIDE DEF words
<1>10. ASSUME NEW i \in 1..Len(words) PROVE \E j \in 1..d : words[i] = Dictionary[j]
  <2>1. i \in 1..n \/ i = n + 1
    BY <1>2, <1>9
  <2>2. CASE i \in 1..n
    BY <1>5, <1>6, <1>7, <1>9, <2>2
  <2>3. CASE i = n + 1
    BY <1>6, <1>9, <2>3
  <2>4. QED
    BY <2>1, <2>2, <2>3
<1>11. QED
  BY <1>8, <1>9, <1>10 DEF W, d

-----------------------------------------------------------------------------
(* Theorems. *)

\* Bytes and characters are bytes and characters.
Typed == bytes \in Seq(Byte) /\ text \in Seq(Char)

\* Steps add bytes and characters.
LEMMA Typing == Spec => []Typed
<1>1. Init => Typed
  BY DEF Init, Typed
<1>2. Typed /\ [Next]_vars => Typed'
  <2> SUFFICES ASSUME Typed, [Next]_vars PROVE Typed'
    OBVIOUS
  <2>1. ASSUME NEW b \in Byte, Draw(b) PROVE Typed'
    BY <2>1 DEF Draw, Typed
  <2>2. ASSUME NEW c \in Char, Type(c) PROVE Typed'
    BY <2>2 DEF Type, Typed
  <2>3. CASE UNCHANGED vars
    BY <2>3 DEF vars, Typed
  <2>4. QED
    BY <2>1, <2>2, <2>3 DEF Next
<1>3. QED
  BY <1>1, <1>2, PTL DEF Spec

\* What bytes are bytes of.
LEMMA TypedOctets ==
    ASSUME Typed
    PROVE  /\ bytes \in Seq(Octet) /\ Len(bytes) \in Nat
           /\ text \in Seq(Nat) /\ Len(text) \in Nat
           /\ Byte \subseteq Octet
<1>1. Byte \subseteq Octet /\ Char \subseteq Nat
  BY CodecAssumption DEF Octet
<1>2. bytes \in Seq(Byte) /\ text \in Seq(Char)
  BY DEF Typed
<1>3. bytes \in Seq(Octet) /\ text \in Seq(Nat)
  BY <1>1, <1>2, SeqOfMore
<1>4. QED
  BY <1>1, <1>3

\* What holds of all bytes and texts.
LEMMA TypedReadsBack == Typed => HexReadsBack
<1> SUFFICES ASSUME Typed PROVE HexReadsBack
  OBVIOUS
<1> DEFINE signed == [i \in DOMAIN bytes |-> SignedChar(bytes[i])]
<1>1. /\ bytes \in Seq(Octet) /\ DOMAIN bytes = 1..Len(bytes) /\ Len(bytes) \in Nat
      /\ text \in Seq(Int) /\ DOMAIN text = 1..Len(text) /\ Len(text) \in Nat
  <2>1. Byte \subseteq Octet /\ Char \subseteq Int
    BY CodecAssumption DEF Octet
  <2>2. bytes \in Seq(Byte) /\ text \in Seq(Char)
    BY DEF Typed
  <2>3. bytes \in Seq(Octet) /\ text \in Seq(Int)
    BY <2>1, <2>2, SeqOfMore
  <2>4. QED
    BY <2>3
<1>2. deserialize_array(serialize(bytes), Len(bytes)) = bytes
  BY <1>1, BytesReadBack DEF deserialize_array
<1>3. deserialize(serialize(signed)) = bytes <=> \A i \in DOMAIN bytes : bytes[i] < 128
  <2>1. /\ signed \in Seq(Int) /\ Len(signed) = Len(bytes)
        /\ \A i \in 1..Len(bytes) : signed[i] = SignedChar(bytes[i])
    <3>1. \A i \in 1..Len(bytes) : SignedChar(bytes[i]) \in Int
      <4>1. \A i \in 1..Len(bytes) : bytes[i] \in Int
        BY <1>1, OctetIs
      <4>2. QED
        BY <4>1 DEF SignedChar
    <3>2. QED
      BY <1>1, <3>1
  <2> HIDE DEF signed
  <2>2. QED
    BY <1>1, <2>1, CharactersReadBack
<1>4. /\ Len(text) % 2 = 0 /\ (\A i \in DOMAIN text : IsHex(text[i]))
             => deserialize(text) # Fail
      /\ deserialize(text) # Fail
             => (serialize(deserialize(text)) = text
                    <=> \A i \in DOMAIN text : text[i] \in LowerHex)
  BY <1>1, TextWrittenBack
<1>5. QED
  BY <1>2, <1>3, <1>4 DEF HexReadsBack

\* Seeds and hashes of any length read back from the hexadecimal text that
\* serialize writes into the database, but for negative characters; and a text is
\* written as it was exactly when it has the digits serialize writes.
THEOREM HexRoundTrip == Spec => []HexReadsBack
BY Typing, TypedReadsBack, PTL

\* A third of the length, rounded up, and two bytes are all it reads.
LEMMA TypedReadsInside == Typed => SecretReadsInside
<1> SUFFICES ASSUME Typed, NEW out_size \in 0..(2 * MaxLength)
             PROVE  LET read == encode_secret_reads(Len(bytes), out_size)
                    IN  /\ Len(bytes) >= 3 => read \subseteq 0..(Len(bytes) - 1)
                        /\ \A i \in read : i < (Len(bytes) + 2) \div 3 + 2
  BY DEF SecretReadsInside
<1> DEFINE n == Len(bytes)
           read == encode_secret_reads(n, out_size)
<1>1. n \in Nat /\ out_size \in Int
  BY CodecAssumption DEF Typed
<1>2. ASSUME NEW r \in read
      PROVE  r \in Int /\ 0 <= r /\ r < (n + 2) \div 3 + 2 /\ (n >= 3 => r < n)
  <2>1. PICK i \in Steps(n, out_size) : r \in i..(i + 2)
    BY DEF encode_secret_reads
  <2>2. i \in Nat /\ i * 3 < n
    BY <1>1, <2>1 DEF Steps
  <2> HIDE DEF n, read
  <2>3. r \in Int /\ i <= r /\ r <= i + 2
    BY <2>1, <2>2
  <2>4. i < (n + 2) \div 3
    BY <1>1, <2>2
  <2>5. n >= 3 => i + 2 < n
    BY <1>1, <2>2
  <2>6. (n + 2) \div 3 \in Int
    BY <1>1
  <2>7. QED
    BY <1>1, <2>2, <2>3, <2>4, <2>5, <2>6
<1> HIDE DEF read
<1>3. (n >= 3 => read \subseteq 0..(n - 1)) /\ \A r \in read : r < (n + 2) \div 3 + 2
  BY <1>1, <1>2
<1>4. QED
  BY <1>3 DEF read

\* encode_secret never reads behind a seed of three bytes or more, however long
\* the seed and whatever the length of the secret that is asked for.
THEOREM EncodeSecretInside == Spec => []SecretReadsInside
BY Typing, TypedReadsInside, PTL

\* Numbers of eleven bits are what bitsplit_11 makes.
LEMMA TypedBits == Typed => WordsCarryTheBits
<1> SUFFICES ASSUME Typed, NEW size \in 0..(8 * Len(bytes))
             PROVE  LET words == bitsplit_11(bytes, size)
                    IN  /\ Len(words) = size \div 11
                        /\ \A w \in DOMAIN words : words[w] = Window(11 * (w - 1))
  BY DEF WordsCarryTheBits
<1>1. bytes \in Seq(Octet) /\ Len(bytes) \in Nat /\ size \in Nat /\ size <= 8 * Len(bytes)
  BY TypedOctets
<1> DEFINE n == size \div 11
           words == bitsplit_11(bytes, size)
<1>2. n \in Nat /\ 11 * n <= size
  BY <1>1
<1>3. words = [w \in 1..n |-> BitsFrom(bytes, 11 * (w - 1))]
  BY DEF bitsplit_11
<1> HIDE DEF n, words
<1>4. Len(words) = n /\ DOMAIN words = 1..n
  BY <1>2, <1>3
<1>5. ASSUME NEW w \in 1..n PROVE words[w] = Window(11 * (w - 1))
  <2> DEFINE p == 11 * (w - 1)
  <2>1. p \in Nat /\ p + 11 <= 8 * Len(bytes)
    BY <1>1, <1>2
  <2>2. words[w] = BitsFrom(bytes, p)
    BY <1>3
  <2> HIDE DEF p
  <2>3. BitsFrom(bytes, p) = (ThreeBytes(bytes, p \div 8) \div Pow(13 - (p % 8))) % 2048
    BY <1>1, <2>1, BitsFromIs
  <2>4. Window(p) = (ThreeBytes(bytes, p \div 8) \div Pow(13 - (p % 8))) % 2048
    BY DEF Window, ThreeBytes, Number, ByteAt, Pow
  <2>5. QED
    BY <2>2, <2>3, <2>4 DEF p
<1>6. QED
  BY <1>4, <1>5 DEF n, words

\* bitsplit_11 cuts its bits into numbers of 11 across the borders of bytes, for
\* buffers of any length.
THEOREM BitsInWords == Spec => []WordsCarryTheBits
BY Typing, TypedBits, PTL

\* A mnemonic reads back, and words are found.
LEMMA TypedReadsMnemonic == Typed => MnemonicReadsBack
<1> SUFFICES ASSUME Typed PROVE MnemonicReadsBack
  OBVIOUS
<1>1. bytes \in Seq(Octet) /\ Byte \subseteq Octet
  BY TypedOctets
<1>2. /\ Len(Dictionary) \in Nat /\ Len(Dictionary) > 0
      /\ DOMAIN Dictionary = 1..Len(Dictionary)
  BY InOrder
<1>3. ASSUME Len(bytes) \div 4 <= 8, NEW checksum \in Byte,
             NEW random \in 0..(Len(Dictionary) - 1)
      PROVE  LET words == generate_mnemonic(bytes, checksum, random)
             IN  /\ mnemonic_to_seed(split_mnemonic_words(combined_mnemonic(words)))
                        = mnemonic_to_seed(words)
                 /\ \A i \in DOMAIN words : find_word_index(words[i]) # UnknownWord
  <2> DEFINE words == generate_mnemonic(bytes, checksum, random)
  <2>1. checksum \in Octet /\ random \in Nat
    BY <1>1, <1>2
  <2>2. /\ words \in Seq(Seq(Nat \ {Space}))
        /\ \A i \in 1..Len(words) : \E j \in 1..Len(Dictionary) : words[i] = Dictionary[j]
    BY <1>1, <1>3, <2>1, GeneratedWords
  <2> HIDE DEF words
  <2>3. mnemonic_to_seed(split_mnemonic_words(combined_mnemonic(words))) = mnemonic_to_seed(words)
    BY <2>2, CombinedReadsBack
  <2>4. ASSUME NEW i \in DOMAIN words PROVE find_word_index(words[i]) # UnknownWord
    <3>1. i \in 1..Len(words)
      BY <2>2
    <3>2. PICK j \in 1..Len(Dictionary) : words[i] = Dictionary[j]
      BY <2>2, <3>1
    <3>3. find_word_index(words[i]) = j - 1
      BY <3>2, FindIs
    <3>4. j - 1 # UnknownWord
      BY <1>2 DEF UnknownWord
    <3>5. QED
      BY <3>3, <3>4
  <2>5. QED
    BY <2>3, <2>4 DEF words
<1>4. IF \E i \in DOMAIN Dictionary : Dictionary[i] = text
      THEN word_at(find_word_index(text)) = text
      ELSE find_word_index(text) = UnknownWord
  <2>1. CASE \E i \in DOMAIN Dictionary : Dictionary[i] = text
    <3>1. PICK i \in 1..Len(Dictionary) : Dictionary[i] = text
      BY <1>2, <2>1
    <3>2. find_word_index(text) = i - 1 /\ word_at(i - 1) = text
      BY <3>1, FindIs
    <3>3. QED
      BY <2>1, <3>2
  <2>2. CASE ~ \E i \in DOMAIN Dictionary : Dictionary[i] = text
    <3>1. find_word_index(text) = UnknownWord
      BY <1>2, <2>2, FindIs
    <3>2. QED
      BY <2>2, <3>1
  <2>3. QED
    BY <2>1, <2>2
<1>5. QED
  BY <1>3, <1>4 DEF MnemonicReadsBack

\* What the screen shows of a mnemonic, typed in, gives the same seed, for every
\* entropy whose checksum fits into a byte and every word list in order; and the
\* binary search finds exactly the words of the list.
THEOREM MnemonicRoundTrip == Spec => []MnemonicReadsBack
BY Typing, TypedReadsMnemonic, PTL

=============================================================================
