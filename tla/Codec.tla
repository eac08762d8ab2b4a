------------------------------- MODULE Codec --------------------------------
(***************************************************************************)
(* What goes through the conversions of Mnemonic and Structs: bytes, drawn *)
(* or computed one by one, and texts, typed or read one character at a     *)
(* time.  The conversions keep no state, so each invariant says what they  *)
(* return for all bytes and texts up to the bounds.                        *)
(***************************************************************************)
EXTENDS Mnemonic, Structs

CONSTANTS
    Byte,        \* bound: the bytes there are
    Char,        \* bound: the characters there are
    MaxLength    \* bound: bytes and characters

ASSUME CodecAssumption ==
    /\ Byte \subseteq 0..255 /\ Char \subseteq 0..127
    /\ MaxLength \in Nat

VARIABLES bytes, text

vars == <<bytes, text>>

Init == bytes = <<>> /\ text = <<>>

\* GenerateBlock, a digest, or a cipher adds a byte.
Draw(b) ==
    /\ text = <<>> /\ Len(bytes) < MaxLength
    /\ bytes' = Append(bytes, b)
    /\ UNCHANGED text

\* A character is typed, or read from the database.
Type(c) ==
    /\ bytes = <<>> /\ Len(text) < MaxLength
    /\ text' = Append(text, c)
    /\ UNCHANGED bytes

Next == (\E b \in Byte : Draw(b)) \/ (\E c \in Char : Type(c))

Spec == Init /\ [][Next]_vars

-----------------------------------------------------------------------------
(* Properties. *)

\* Eleven bits from position p on, by arithmetic on the three bytes they are in.
Window(p) ==
    LET At(k) == IF k < Len(bytes) THEN bytes[k + 1] ELSE 0
        o == p \div 8
        v == At(o) * 65536 + At(o + 1) * 256 + At(o + 2)
    IN  (v \div 2^(13 - (p % 8))) % 2048

\* bitsplit_11 cuts its bits into numbers of 11, one after the other, across the
\* borders of bytes, and leaves out only what does not fill one.
WordsCarryTheBits ==
    \A size \in 0..(8 * Len(bytes)) :
        LET words == bitsplit_11(bytes, size) IN
        /\ Len(words) = size \div 11
        /\ \A w \in DOMAIN words : words[w] = Window(11 * (w - 1))

\* A keychain can be made again from its mnemonic as the screen showed it: typed
\* in, it gives the same seed, though the screen may run words together.  Every
\* word shown is in the dictionary, where a typed one is found only if it is there.
\* The checksum is one byte: it has the bits for 35 bytes of entropy, not for 36.
MnemonicReadsBack ==
    /\ Len(bytes) \div 4 <= 8 =>
          \A checksum \in Byte, random \in 0..(Len(Dictionary) - 1) :
              LET words == generate_mnemonic(bytes, checksum, random)
              IN  /\ mnemonic_to_seed(split_mnemonic_words(combined_mnemonic(words)))
                         = mnemonic_to_seed(words)
                  /\ \A i \in DOMAIN words : find_word_index(words[i]) # UnknownWord
    /\ IF \E i \in DOMAIN Dictionary : Dictionary[i] = text
       THEN word_at(find_word_index(text)) = text
       ELSE find_word_index(text) = UnknownWord

\* The digits serialize writes.
LowerHex == 48..57 \cup 97..102

\* Seeds and hashes read back as they were written; a text of characters does
\* exactly when none of them is negative.  Every hexadecimal text can be read, and
\* others where each pair begins with a digit: what is read of them is not what they
\* say, so it is written back differently, as that of a text with capital letters is.
HexReadsBack ==
    LET signed == [i \in DOMAIN bytes |-> SignedChar(bytes[i])]
    IN  /\ deserialize_array(serialize(bytes), Len(bytes)) = bytes
        /\ deserialize(serialize(signed)) = bytes <=> \A i \in DOMAIN bytes : bytes[i] < 128
        /\ Len(text) % 2 = 0 /\ (\A i \in DOMAIN text : IsHex(text[i]))
               => deserialize(text) # Fail
        /\ deserialize(text) # Fail
               => (serialize(deserialize(text)) = text
                      <=> \A i \in DOMAIN text : text[i] \in LowerHex)

\* encode_secret reads inside data of three bytes or more, whatever the length of
\* the secret; only its first third, and two bytes.
SecretReadsInside ==
    \A out_size \in 0..(2 * MaxLength) :
        LET read == encode_secret_reads(Len(bytes), out_size)
        IN  /\ Len(bytes) >= 3 => read \subseteq 0..(Len(bytes) - 1)
            /\ \A i \in read : i < (Len(bytes) + 2) \div 3 + 2

=============================================================================
