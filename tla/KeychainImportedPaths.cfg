CONSTANTS
    Accounts = {a1, a2}
    Details = {d1}
    Seeds = {s1}
    Passwords = {w1}
    None = None
    ByteSize = 2
    ExportPath = 3
    MaxPath = 2
    MaxUnflushed = 2
    MaxFiles = 1
    Faults = {}
SPECIFICATION Spec
INVARIANT ImportKeepsSecretsDistinct
