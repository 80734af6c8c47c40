\* Two clients: one asks again, in pieces or behind a body, and may reset; the other asks once.
SPECIFICATION Spec
CONSTANTS
    Conns = {c1, c2}
    c1 = c1
    c2 = c2
    Docs <- FiveDocs
    Scripts <- TwoClients
    Heads <- HeadsRead
    Overlays <- Overlaid
    Kind <- DocKinds
    Size <- DocSizes
    Block = 2
    HeaderLen = 2
    SockBuf = 6
    MaxFd = 10
    Habits <- OneResets
    Leftovers <- Garbage
    None = None
    Junk = Junk
INVARIANTS TypeOK RightAnswer WatchedIsLive OwnFile DiesOfClientsOnly
CHECK_DEADLOCK FALSE
PROPERTY Answered
