\* A repair, a repair or ilma_repair, and an ilma_repair or remember.
CONSTANTS
    c1 = c1
    c2 = c2
    c3 = c3
    Memories = {1, 2, 3}
    Stored = {1}
    Pieces <- MCPieces
    Vast = {3}
    Zero <- MCZero
    Neats <- MCNeats
    Dims = {1024, 1536}
    Calls = {c1, c2, c3}
    Tools <- MCTools
    NewId <- MCNewId

SPECIFICATION Spec


INVARIANT AnyWidthRepairs
CHECK_DEADLOCK FALSE
