CONSTANTS
    None = None
    Models = {m1}
    Sessions = {s1, s2}
    UiIds = {u1}
    ApiIds = {a1}
    Flows = {f1}
    Prompts = {}
    Requests = {r1}
    Authors = {r1}
    Chats = {}
    Inbound = {"none"}
    MaxRuns = 1
    Faults = {"readfail"}
SPECIFICATION FairSpec
PROPERTIES DeadBindingsCleared
