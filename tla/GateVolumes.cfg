CONSTANTS
    Slice = {"a", "b", "c"}
    Disk <- MCDisk
    Numberings <- MCNumberings
    CallsFail = FALSE
    Aliases = FALSE
    MaxReplugs = 0
SPECIFICATION Spec
INVARIANTS UnwarnedIsElsewhere
CHECK_DEADLOCK FALSE
