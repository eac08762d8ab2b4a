\* Bytes at the borders of a nibble and of a signed char; a space, "-", "0", "A", "a", "g".
SPECIFICATION Spec
CONSTANTS
    Dictionary <- Words
    Byte = {0, 1, 16, 127, 165, 245, 255}
    Char = {32, 45, 48, 65, 97, 103}
    MaxLength = 4
INVARIANTS WordsCarryTheBits MnemonicReadsBack HexReadsBack SecretReadsInside
CHECK_DEADLOCK FALSE
