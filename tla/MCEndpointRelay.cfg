CONSTANTS
    MaxChunks = 3
    MaxIndex = 1
SPECIFICATION Spec
INVARIANTS TypeOK TurnMatchesAnswer CallsKeptApart StreamTerminated
PROPERTY LeftRequestEnds
CHECK_DEADLOCK FALSE
