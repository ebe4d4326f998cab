CONSTANTS
    None = None
    Models = {m1}
    Sessions = {s1, s2}
    UiIds = {}
    ApiIds = {a1, a2}
    Flows = {}
    Prompts = {}
    Requests = {r1, r2}
    Authors = {r1, r2}
    Chats = {k1}
    Inbound = {"user"}
    MaxRuns = 2
    Faults = {"busy", "readfail", "crash"}
SPECIFICATION Spec
INVARIANTS SessionRequestsShareRow OneBoundApiRow
SYMMETRY Symmetry
