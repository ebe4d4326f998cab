CONSTANTS
    Wallets = {w1, w2}
    Forms = {lower}
    Rpcs = {u0, u1}
    DefaultRpc = u0
    Legacy = nodeneo
    Unlinked = unlinked
    None = None
    Faults = {}
SPECIFICATION Spec
INVARIANT ClientUsesSavedRpc
