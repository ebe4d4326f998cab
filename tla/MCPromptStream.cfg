CONSTANTS
    First = p1
    Second = p2
    Prompts = {p1, p2}
    NoPrompt = NoPrompt
    Provider <- Chunks
    MaxPieces = 3
SPECIFICATION Spec
INVARIANTS TypeOK DeltasAwaited ShownIsReply ResponseIsAnswer
CHECK_DEADLOCK FALSE
