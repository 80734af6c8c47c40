\* Every way to cut a request, with its body, for both users of the parser.
SPECIFICATION Spec
CONSTANTS
    Users = {"aws", "resuming"}
    Normal = {"a", "1", "/", ":"}
    MaxUrl = 4
    MaxMessages = 2
    Announced <- Lengths
    MaxBodies = 2
    UrlOfBody = 1
    MaxTail = 10
    MaxData = 3
    SizeMax = 1048575
    NULL = NULL
INVARIANTS
    TypeOK
    UrlWhole
    PartsOfUrl
    KeptAsAsked
    BodyWhole
CHECK_DEADLOCK FALSE
