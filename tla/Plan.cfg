CONSTANTS
    DiskSize = 5
    DB <- MCDB
    MaxSizeArg = 4
    Wanted = {"png", "docx", "mp4", "mov", "sqlite"}
    CommentLens = {0, 2}
    ParsedSizes = {0, 1, 2, 7}
    MaxHits = 3
SPECIFICATION Spec
INVARIANTS
    TypeOK InBounds NoSameTypeOverlap DropsJustified EndsAtFirstFit NoHitLost
CHECK_DEADLOCK FALSE
