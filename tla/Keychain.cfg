\* Creating, using, killing and re-opening one keychain; no exports.
CONSTANTS
    Accounts = {a1, a2}
    Details = {d1}
    Seeds = {s1}
    Passwords = {w1}
    None = None
    ByteSize = 2
    ExportPath = 2
    MaxPath = 3
    MaxUnflushed = 2
    MaxFiles = 0
    Faults = {"io", "crash", "power"}
SPECIFICATION Spec
INVARIANTS TypeOK CreationIsOrdered CounterCoversEntries DistinctSecrets GrantIsFresh
PROPERTY ImplementsRegistry
