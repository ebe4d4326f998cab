CONSTANTS
    None = None
    Models = {m1}
    Sessions = {s1, s2}
    UiIds = {u1, u2}
    ApiIds = {}
    Flows = {f1, f2, f3}
    Prompts = {p1}
    Requests = {}
    Authors = {p1}
    Chats = {}
    Inbound = {"user"}
    MaxRuns = 1
    Faults = {"readfail", "crash"}
SPECIFICATION Spec
INVARIANT ScreenThreadExists
PROPERTIES HistoryKept SharedSessionKept
SYMMETRY Symmetry
