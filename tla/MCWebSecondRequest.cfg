\* A client that asks twice on one connection.
SPECIFICATION Spec
CONSTANTS
    Conns = {c1}
    c1 = c1
    c2 = c2
    Docs <- FiveDocs
    Scripts <- AloneTwice
    Heads <- HeadsRead
    Overlays <- Overlaid
    Kind <- DocKinds
    Size <- DocSizes
    Block = 2
    HeaderLen = 2
    SockBuf = 6
    MaxFd = 10
    Habits <- Steady
    Leftovers <- Garbage
    None = None
    Junk = Junk
INVARIANT FoundIsSaid
CHECK_DEADLOCK FALSE
