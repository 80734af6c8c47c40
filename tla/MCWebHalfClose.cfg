\* Clients that shut down their side after the request and go on reading.
SPECIFICATION Spec
CONSTANTS
    Conns = {c1}
    c1 = c1
    c2 = c2
    Docs <- FiveDocs
    Scripts <- AloneOnce
    Heads <- HeadsRead
    Overlays <- Overlaid
    Kind <- DocKinds
    Size <- DocSizes
    Block = 2
    HeaderLen = 2
    SockBuf = 6
    MaxFd = 10
    Habits <- HalfCloses
    Leftovers <- Garbage
    None = None
    Junk = Junk
PROPERTY RequestAnswered
CHECK_DEADLOCK FALSE
