CONSTANTS
    Byte = {0, 1}
    Zero = 0
    TotalSize = 5
    Active = {1, 2}
    Header <- MCHeader
    Footer <- PlainFooter
    MinBlock = 2
    BlockArg = 1
    ChunkArg = 3
    MaxFlaky = 1
SPECIFICATION Spec
INVARIANTS ZeroFillMatchesNothing
CHECK_DEADLOCK FALSE
