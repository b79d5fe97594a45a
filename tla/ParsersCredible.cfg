CONSTANTS
    Byte = {0, 1, 2, 3}
    Size = 4
    FlakySets = {{}}
    Starts = {0}
    Margins = {0}
    Extension = 1
    Image = 2
    Trailer = 3
    Table <- MCTable
    Printable = {1, 2, 3}
    Media = {2}
    LargeSize <- MCLargeSize
    PageSize <- MCPageSize
    MaxNext = 4
    MinParsed = 2
    Words = 16
    MaxSteps = 10
    MaxBoxes = 3
SPECIFICATION Spec
INVARIANTS CredibleOnly
CHECK_DEADLOCK FALSE
