\* The comment behind the headers: a request without a length has no body.
SPECIFICATION Spec
CONSTANTS
    Users = {"aws", "resuming"}
    Normal = {"/"}
    MaxUrl = 1
    MaxMessages = 2
    Announced <- Lengths
    MaxBodies = 1
    UrlOfBody = 1
    MaxTail = 11
    MaxData = 3
    SizeMax = 1048575
    NULL = NULL
INVARIANT NoBodyUnasked
CHECK_DEADLOCK FALSE
