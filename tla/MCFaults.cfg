CONSTANTS
    None = None
    Models = {m1, m2}
    Sessions = {s1, s2}
    UiIds = {u1}
    ApiIds = {a1}
    Flows = {f1}
    Prompts = {p1}
    Requests = {r1}
    Authors = {p1, r1}
    Chats = {k1}
    Inbound = {"user", "none"}
    MaxRuns = 1
    Faults = {"busy", "dbread", "readfail", "stop", "crash"}
SPECIFICATION Spec
INVARIANTS TypeOK BindingsAgreeWithChain
PROPERTIES ApiRowsKept HistoryImplemented
SYMMETRY Symmetry
