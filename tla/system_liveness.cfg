\* The client alone with the server, both fair.
CONSTANTS
    NULL = NULL
    IdentModulus = 16
    TickModulus = 64
    client = client
    Peers = {client}
    Produced <- MCTwo
    Calls <- MCCalls
    MaxQueue = 1
    MaxPipe = 1
SPECIFICATION FairSpec
PROPERTIES AskedIsAnswered
CHECK_DEADLOCK FALSE
