CONSTANTS
    Byte = {0, 1}
    Zero = 0
    TotalSize = 8
    Active = {1, 2}
    Header <- MCHeader
    Footer <- MCFooter
    MinBlock = 2
    BlockArg = 1
    ChunkArg = 3
    MaxFlaky = 2
SPECIFICATION FairSpec
INVARIANTS TypeOK FoundExactlyOnce LossIsLocal
PROPERTIES ImplementsSearch Termination
CHECK_DEADLOCK FALSE
