------------------------------ MODULE Mnemonic ------------------------------
(***************************************************************************)
(* crypto/mnemonic.cpp: random bytes become words, words become a seed.    *)
(*                                                                         *)
(* Bytes are numbers, characters are their codes, and a word is a sequence *)
(* of characters.  The seed is PBKDF2 of the characters of all words, so   *)
(* those characters stand for it.                                          *)
(***************************************************************************)
EXTENDS Integers, SequencesExt

CONSTANT Dictionary    \* mnemonic_dictionary; 2048 words in the code

Space == 32

UnknownWord == -1      \* the exception of find_word_index

-----------------------------------------------------------------------------
(* Bits. *)

\* Bit cb, the first one being the highest of the first byte.
extract_bit(buffer, cb) == (buffer[cb \div 8 + 1] \div 2^(7 - (cb % 8))) % 2

\* The eleven bits from sb on, the highest first.
BitsFrom(buffer, sb) ==
    LET v[i \in 0..11] == IF i = 0 THEN 0 ELSE 2 * v[i - 1] + extract_bit(buffer, sb + i - 1)
    IN  v[11]

\* Mutant: a last word that ends with the buffer is left out.
bitsplit_11_LeavesLast(buffer, size) ==
    [w \in 1..((size - 1) \div 11) |-> BitsFrom(buffer, 11 * (w - 1))]

bitsplit_11(buffer, size) ==
    [w \in 1..(size \div 11) |-> BitsFrom(buffer, 11 * (w - 1))]

-----------------------------------------------------------------------------
(* Words. *)

word_at(index) == Dictionary[(index % Len(Dictionary)) + 1]

\* operator< of strings: strncmp over the shorter length, then the lengths.
Less(u, v) ==
    LET differ == {k \in 1..Min({Len(u), Len(v)}) : u[k] # v[k]}
    IN  IF differ = {} THEN Len(u) < Len(v)
        ELSE u[Min(differ)] < v[Min(differ)]

\* What the code relies on in mnemonic_dictionary: words without a space, in order.
IsWordList(words) ==
    /\ words \in Seq(Seq(Nat \ {Space})) /\ words # <<>>
    /\ \A i, j \in DOMAIN words : i < j => Less(words[i], words[j])

ASSUME DictionaryAssumption == IsWordList(Dictionary)

\* std::lower_bound: the position of the first word that is not less.
lower_bound(word) ==
    LET search[range \in Nat \X (0..Len(Dictionary))] ==
            LET first == range[1]
                count == range[2]
                half == count \div 2
            IN  IF count = 0 THEN first
                ELSE IF Less(Dictionary[first + half], word)
                     THEN search[<<first + half + 1, count - half - 1>>]
                     ELSE search[<<first, half>>]
    IN  search[<<1, Len(Dictionary)>>]

find_word_index(word) ==
    LET it == lower_bound(word)
    IN  IF it > Len(Dictionary) \/ (it <= Len(Dictionary) /\ Dictionary[it] # word)
        THEN UnknownWord
        ELSE it - 1

\* The checksum, one byte, stands behind the entropy; the last word is drawn on
\* its own, from a number of 16 bits.
generate_mnemonic(entropy, checksum, random) ==
    LET n == Len(entropy)
        indices == bitsplit_11(Append(entropy, checksum), n * 8 + n \div 4)
    IN  Append([i \in DOMAIN indices |-> word_at(indices[i])], word_at(random))

-----------------------------------------------------------------------------
(* Seeds. *)

\* Nothing separates the words.
mnemonic_to_seed(words) == FlattenSeq(words)

\* The words that ended within the first i characters, and the one that goes on.
WordsUpTo(mnemonic, i) ==
    LET read[k \in 0..Len(mnemonic)] ==
            IF k = 0 THEN [ret |-> <<>>, word |-> <<>>]
            ELSE IF mnemonic[k] = Space
                 THEN [ret |-> Append(read[k - 1].ret, read[k - 1].word), word |-> <<>>]
                 ELSE [ret |-> read[k - 1].ret, word |-> Append(read[k - 1].word, mnemonic[k])]
    IN  read[i]

\* Mutant: the last word is not kept.
split_mnemonic_words_LosesLast(mnemonic) == WordsUpTo(mnemonic, Len(mnemonic)).ret

split_mnemonic_words(mnemonic) ==
    LET end == WordsUpTo(mnemonic, Len(mnemonic)) IN Append(end.ret, end.word)

\* What the screen shows: no space follows a word equal to the last one.
combined_mnemonic(words) ==
    FlattenSeq([i \in DOMAIN words |->
                    words[i] \o (IF words[i] # Last(words) THEN <<Space>> ELSE <<>>)])

=============================================================================
