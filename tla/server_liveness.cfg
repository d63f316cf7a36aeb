\* Progress of the fair server, messages in one or two parts, expiry on and off.
CONSTANTS
    NULL = NULL
    IdentModulus = 16
    TickModulus = 64
    Peers = {p1, p2}
    Produced <- MCOne
    Requests <- MCReq
    Timeouts <- MCTimeouts
    MaxQueue = 1
    MaxPipe = 2
SPECIFICATION FairSpec
PROPERTIES MessagesAreRead DepartedAreForgotten TermEndsServer
