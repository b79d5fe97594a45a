CONSTANTS
    Slice = {"a", "b", "c"}
    Disk <- MCDisk
    Numberings <- MCNumberings
    CallsFail = TRUE
    Aliases = TRUE
    MaxReplugs = 1
SPECIFICATION Spec
INVARIANTS TypeOK NothingWithoutConsent DryRunWritesNothing ComparedElsewhere
CHECK_DEADLOCK FALSE
