\* Two users' worth of seeds and passwords, and one exported file, whole or not.
CONSTANTS
    Accounts = {a1, a2}
    Details = {d1}
    Seeds = {s1, s2}
    Passwords = {w1, w2}
    None = None
    ByteSize = 2
    ExportPath = 3
    MaxPath = 2
    MaxUnflushed = 1
    MaxFiles = 1
    Faults = {"cut", "crash"}
SPECIFICATION Spec
INVARIANTS TreeIsStored NoForeignImport
SYMMETRY Symmetry
