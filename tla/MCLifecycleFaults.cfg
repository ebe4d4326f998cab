CONSTANTS
    Wallets = {w1, w2}
    Forms = {lower}
    Rpcs = {u0}
    DefaultRpc = u0
    Legacy = nodeneo
    Unlinked = unlinked
    None = None
    Faults = {"offline", "initfail", "importfail", "dbfail", "summaryfail", "keychain", "sentinel", "gateway"}
SPECIFICATION Spec
SYMMETRY Symmetry
INVARIANTS TypeOK EncryptedAtRest
PROPERTY HistorySurvives
