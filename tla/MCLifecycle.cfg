CONSTANTS
    Wallets = {w1, w2}
    Forms = {lower, upper}
    Rpcs = {u0, u1}
    DefaultRpc = u0
    Legacy = nodeneo
    Unlinked = unlinked
    None = None
    Faults = {"offline", "initfail"}
SPECIFICATION Spec
SYMMETRY Symmetry
INVARIANTS ConversationsInOwnDb HistoryFound OneWallet
 
