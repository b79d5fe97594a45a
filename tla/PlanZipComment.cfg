CONSTANTS
    DiskSize = 5
    DB <- ZipDB
    MaxSizeArg = 4
    Wanted = {"zip"}
    CommentLens = {0, 2}
    ParsedSizes = {}
    MaxHits = 1
SPECIFICATION Spec
INVARIANTS CutOnlyWithoutFooter
CHECK_DEADLOCK FALSE
