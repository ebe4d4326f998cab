CONSTANTS
    Wallets = {w1, w2}
    Conversations = {c1}
    Messages = {m1, m2}
    Preferences = {p1}
    None = None
SPECIFICATION Spec
SYMMETRY Symmetry
INVARIANTS TypeOK 
PROPERTY PromiseKept
