CONSTANTS
    Byte = {0, 1, 2}
    Zero = 0
    TotalSize = 6
    MinBlock = 1
    MaxFlaky = 1
    DB <- MCDB
    Header <- MCHeader
    Footer <- MCFooter
    ParsedSizes = {}
    MaxFaults = 1
    TypeArg = {"docx", "mp4"}
    BlockArg = 2
    MaxSizeArg = 5
    Organize = TRUE
    DefaultChunk = 5
    CopyBuf = 3
SPECIFICATION Spec
INVARIANTS TypeOK IntactFilesRecovered EntriesGenuine
CHECK_DEADLOCK FALSE
