CONSTANTS
    Accounts = {a1}
    Details = {d1}
    Seeds = {s1}
    Passwords = {w1}
    None = None
    ByteSize = 2
    ExportPath = 2
    MaxPath = 3
    MaxUnflushed = 2
    MaxFiles = 0
    Faults = {}
SPECIFICATION Spec
INVARIANT ExportPathIsReserved
