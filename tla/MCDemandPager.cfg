\* The loader on small files, with room behind the flags.
SPECIFICATION Spec
CONSTANTS
    PageSize = 4
    Limit = 16
    Addresses <- Corners
    Files <- OrdinaryFiles
    Kinds = {"R", "W"}
    Callers = {"program", "kernel"}
    Args <- CommandLine
    FailingCalls = {"malloc", "calloc", "mmap", "read", "short read", "lseek", "mprotect"}
    MaxUnnoticed = 1
    Slack = 1
    Nothing = Nothing
    Scribble = Scribble
    Astray = Astray
INVARIANTS TypeOK FlagsTellMappings StartsWithItsOwn
PROPERTIES DemandOnly Answered ImplementsLoadedMemory
CHECK_DEADLOCK FALSE
