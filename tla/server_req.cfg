\* A peer with a REQ socket.
CONSTANTS
    NULL = NULL
    IdentModulus = 16
    TickModulus = 64
    Peers = {p1}
    Produced <- MCOne
    Requests <- MCReq
    Timeouts <- MCNone
    MaxQueue = 1
    MaxPipe = 1
SPECIFICATION Spec
INVARIANTS EndsOnlyWhenTold
