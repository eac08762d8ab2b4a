CONSTANTS
    Accounts = {a1}
    Details = {d1, d2}
    Seeds = {s1}
    Passwords = {w1}
    None = None
    ByteSize = 2
    ExportPath = 3
    MaxPath = 1
    MaxUnflushed = 2
    MaxFiles = 0
    Faults = {}
SPECIFICATION Spec
PROPERTY EditsSurvive
