\* A flag for every page.
SPECIFICATION Spec
CONSTANTS
    PageSize = 4
    Limit = 16
    Addresses <- Corners
    Files <- OneFile
    Kinds = {"R", "W"}
    Callers = {"program"}
    Args <- CommandLine
    FailingCalls = {}
    MaxUnnoticed = 0
    Slack = 1
    Nothing = Nothing
    Scribble = Scribble
    Astray = Astray
INVARIANT FlagsInBounds
CHECK_DEADLOCK FALSE
